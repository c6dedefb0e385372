--------------------------- MODULE PrototypeStore ---------------------------
(***************************************************************************)
(* Prototype instances: the slots of PrototypeStore, their lock-free       *)
(* freelist (TreiberFreelist), the reference counts kept by Bean<T> and    *)
(* AnyBean handles, and the end of the store when its registry is gone.    *)
(*                                                                         *)
(* Every atomic operation of the freelist, of a reference count and of the *)
(* live-slot count is one step of its thread; atomics are sequentially     *)
(* consistent here.  A frame is one call in progress: resolve (pop a slot, *)
(* construct, activate, run hooks), the release of a handle, or a sweep.   *)
(* An instance may hold a handle to another prototype, so constructing or  *)
(* destroying it resolves or releases that one in a frame above its own.   *)
(***************************************************************************)
EXTENDS Naturals, Sequences, FiniteSets

CONSTANTS
    Threads,        \* threads that own handles; one of them stops the context
    Allocators,     \* the threads that resolve prototypes
    Kinds,          \* prototype descriptors
    Holder,         \* kinds whose constructor resolves a prototype and keeps it
    OwnAlloc,       \* kinds with allocAndConstruct: constructed before the slot
    Failing,        \* kinds whose constructor may throw
    HookFailing,    \* kinds whose postConstruct or creation listener may throw
    MaxSlots,       \* CTORIUM_PROTOTYPE_MAX_SLOTS
    MaxInst,        \* bound: instances over the whole run
    MaxHandles,     \* bound: handles of one instance in one thread
    None

ASSUME StoreConstants ==
    /\ IsFiniteSet(Threads) /\ Allocators \subseteq Threads
    /\ Holder \subseteq Kinds /\ OwnAlloc \subseteq Kinds
    /\ Failing \subseteq Kinds /\ HookFailing \subseteq Kinds
    /\ Holder # Kinds
    /\ MaxSlots \in Nat /\ MaxInst \in Nat /\ MaxHandles \in Nat \ {0}
    /\ None \notin Nat

Slots == 0..(MaxSlots - 1)
Insts == 1..MaxInst

VARIABLES
    head,       \* freelistHead_: generation and slot (None: kInvalidSlotId)
    nextFree,   \* nextFree[slot]
    generation, \* generation[slot]
    memory,     \* metas[slot].memory: the instance there, or None (nullptr)
    refcount,   \* refcounts[slot]
    slotCount,  \* slotCount_
    liveSlots,  \* liveSlotCount
    phase,      \* of the registry: started, stopping, stopped, dying, dead
    frees,      \* how often the store deleted itself
    frames,     \* per thread, the calls in progress, outermost first
    handles,    \* handles[t][i]: handles of thread t to instance i
    member,     \* member[i]: the instance that instance i holds a handle to
    slotOf,     \* slotOf[i]: the slot in every handle to instance i
    insts,      \* instances (or attempts to make one) so far
    lost,       \* activated instances whose handle was never returned
    destroyed   \* per instance, how often its destructor ran

vars == <<head, nextFree, generation, memory, refcount, slotCount, liveSlots, phase, frees,
          frames, handles, member, slotOf, insts, lost, destroyed>>
freelist == <<head, nextFree, generation>>
counts == <<refcount, liveSlots>>
objects == <<handles, member, slotOf, insts, lost, destroyed>>

\* alive: cleared by markRegistryDeadAndReleaseHold.
Alive == phase \notin {"dying", "dead"}

Heads == [gen : Nat, slot : Slots \union {None}]
Ops == {"popLoad", "popNext", "popCas", "grow", "construct", "activate", "hooks", "unwind",
        "dec", "last", "take", "bump", "pushLoad", "pushLink", "pushCas", "unlive",
        "chkLive", "chkAlive", "sweep"}
Frame == [op : Ops, kind : Kinds \union {None}, inst : Insts \union {None},
          slot : Slots \union {MaxSlots, None}, cur : Heads, nxt : Slots \union {None},
          live : BOOLEAN]

Empty == [gen |-> 0, slot |-> None]
Call(op, kind, inst, slot) ==
    [op |-> op, kind |-> kind, inst |-> inst, slot |-> slot,
     cur |-> Empty, nxt |-> None, live |-> TRUE]

Init ==
    /\ head = Empty
    /\ nextFree = [s \in Slots |-> 0]
    /\ generation = [s \in Slots |-> 0]
    /\ memory = [s \in Slots |-> None]
    /\ refcount = [s \in Slots |-> 0]
    /\ slotCount = 0
    /\ liveSlots = 0
    /\ phase = "started"
    /\ frees = 0
    /\ frames = [t \in Threads |-> <<>>]
    /\ handles = [t \in Threads |-> [i \in Insts |-> 0]]
    /\ member = [i \in Insts |-> None]
    /\ slotOf = [i \in Insts |-> None]
    /\ insts = 0
    /\ lost = {}
    /\ destroyed = [i \in Insts |-> 0]

-----------------------------------------------------------------------------
(* Frames.                                                                 *)

Top(t) == frames[t][Len(frames[t])]
At(t, op) == frames[t] # <<>> /\ Top(t).op = op
Under(t) == SubSeq(frames[t], 1, Len(frames[t]) - 1)

Goto(t, f) == frames' = [frames EXCEPT ![t][Len(frames[t])] = f]
Step(t, op) == Goto(t, [Top(t) EXCEPT !.op = op])
Finish(t) == frames' = [frames EXCEPT ![t] = Under(t)]

\* An exception leaves the top frame: the constructor that called it unwinds.
Raise(t) ==
    frames' = [frames EXCEPT ![t] =
        IF Len(frames[t]) = 1 THEN <<>>
        ELSE [Under(t) EXCEPT ![Len(frames[t]) - 1].op = "unwind"]]

\* The top frame becomes f and, if instance i holds a handle, calls its release.
ReleaseMember(t, f, i) ==
    /\ frames' = [frames EXCEPT ![t] =
            IF member[i] = None THEN Append(Under(t), f)
            ELSE Under(t) \o <<f, Call("dec", None, None, slotOf[member[i]])>>]
    /\ member' = [member EXCEPT ![i] = None]

\* executeDestructionLifecycle: the destructor runs once more on instance i and
\* releases the handle it holds, in a frame above f.
DestroyInstance(t, f, i) ==
    /\ destroyed' = [destroyed EXCEPT ![i] = @ + 1]
    /\ ReleaseMember(t, f, i)
    /\ UNCHANGED <<handles, slotOf, insts, lost>>

-----------------------------------------------------------------------------
(* popTreiberFreelist and the growth path of allocate().                   *)

\* The slot belongs to the frame: its metadata is written and the constructor
\* (or, if it already ran, the activation) comes next.
TakeSlot(t, s) ==
    LET f == Top(t) IN
    /\ memory' = [memory EXCEPT ![s] = f.inst]
    /\ slotOf' = [slotOf EXCEPT ![f.inst] = s]
    /\ Goto(t, [f EXCEPT !.slot = s, !.op = IF f.kind \in OwnAlloc THEN "activate" ELSE "construct"])

PopFrom(t, h) ==
    Goto(t, [Top(t) EXCEPT !.cur = h, !.op = IF h.slot = None THEN "grow" ELSE "popNext"])

PopLoad(t) ==
    /\ At(t, "popLoad")
    /\ PopFrom(t, head)
    /\ UNCHANGED <<freelist, counts, objects, memory, slotCount, phase, frees>>

PopNext(t) ==
    /\ At(t, "popNext")
    /\ Goto(t, [Top(t) EXCEPT !.nxt = nextFree[Top(t).cur.slot], !.op = "popCas"])
    /\ UNCHANGED <<freelist, counts, objects, memory, slotCount, phase, frees>>

\* The new head is only the next slot: its generation bits are zero.
PopCas(t) ==
    /\ At(t, "popCas")
    /\ \/ /\ head = Top(t).cur
          /\ head' = [gen |-> 0, slot |-> Top(t).nxt]
          /\ TakeSlot(t, Top(t).cur.slot)
       \/ /\ head # Top(t).cur
          /\ PopFrom(t, head)
          /\ UNCHANGED <<head, memory, slotOf>>
    /\ UNCHANGED <<nextFree, generation, counts, handles, member, insts, lost, destroyed,
                   slotCount, phase, frees>>

\* growMutex_ makes the growth path one step.
Grow(t) ==
    /\ At(t, "grow")
    /\ slotCount < MaxSlots
    /\ slotCount' = slotCount + 1
    /\ TakeSlot(t, slotCount)
    /\ UNCHANGED <<freelist, counts, handles, member, insts, lost, destroyed, phase, frees>>

\* ResolutionError.  What was allocated or constructed for the bean is not
\* freed: an object that was already constructed is lost.
LimitReached(t) ==
    /\ At(t, "grow")
    /\ slotCount >= MaxSlots
    /\ Raise(t)
    /\ lost' = IF Top(t).kind \in OwnAlloc THEN lost \union {Top(t).inst} ELSE lost
    /\ UNCHANGED <<freelist, counts, handles, member, slotOf, insts, destroyed, memory,
                   slotCount, phase, frees>>

-----------------------------------------------------------------------------
(* The Prototype case of materializeOneImpl.                               *)

FirstOp(k) == IF k \in OwnAlloc THEN "construct" ELSE "popLoad"
Needs(k) == IF k \in Holder THEN 2 ELSE 1

Resolve(t, k) ==
    /\ t \in Allocators
    /\ frames[t] = <<>>
    /\ phase = "started"
    /\ insts + Needs(k) <= MaxInst
    /\ insts' = insts + Needs(k)
    /\ frames' = [frames EXCEPT ![t] = <<Call(FirstOp(k), k, insts + 1, None)>>]
    /\ UNCHANGED <<freelist, counts, memory, slotCount, phase, frees, handles, member, slotOf,
                   lost, destroyed>>

\* The constructor of a holder resolves the prototype it keeps.
ConstructMember(t) ==
    /\ At(t, "construct")
    /\ Top(t).kind \in Holder
    /\ member[Top(t).inst] = None
    /\ \E k \in Kinds \ Holder :
        frames' = [frames EXCEPT ![t] = Append(@, Call(FirstOp(k), k, Top(t).inst + 1, None))]
    /\ UNCHANGED <<freelist, counts, objects, memory, slotCount, phase, frees>>

Constructed(t) ==
    /\ At(t, "construct")
    /\ Top(t).kind \in Holder => member[Top(t).inst] # None
    /\ Step(t, IF Top(t).kind \in OwnAlloc THEN "popLoad" ELSE "activate")
    /\ UNCHANGED <<freelist, counts, objects, memory, slotCount, phase, frees>>

ConstructorThrows(t) ==
    /\ At(t, "construct")
    /\ Top(t).kind \in Failing
    /\ Step(t, "unwind")
    /\ UNCHANGED <<freelist, counts, objects, memory, slotCount, phase, frees>>

\* The language releases what the constructor had; then the catch block gives
\* the slot back with its generation unchanged (reclaim).
Unwind(t) ==
    /\ At(t, "unwind")
    /\ LET f == Top(t) IN
        IF member[f.inst] # None
        THEN /\ ReleaseMember(t, f, f.inst)
             /\ UNCHANGED memory
        ELSE /\ IF f.kind \in OwnAlloc
                THEN Raise(t) /\ UNCHANGED memory
                ELSE /\ memory' = [memory EXCEPT ![f.slot] = None]
                     /\ Goto(t, [f EXCEPT !.op = "pushLoad", !.live = FALSE])
             /\ UNCHANGED member
    /\ UNCHANGED <<freelist, counts, handles, slotOf, insts, lost, destroyed, slotCount, phase,
                   frees>>

Activate(t) ==
    /\ At(t, "activate")
    /\ refcount' = [refcount EXCEPT ![Top(t).slot] = 1]
    /\ liveSlots' = liveSlots + 1
    /\ Step(t, "hooks")
    /\ UNCHANGED <<freelist, objects, memory, slotCount, phase, frees>>

\* The handle goes to the caller: a thread, or the bean being constructed.
HooksDone(t) ==
    /\ At(t, "hooks")
    /\ IF Len(frames[t]) = 1
       THEN /\ handles' = [handles EXCEPT ![t][Top(t).inst] = 1]
            /\ UNCHANGED member
       ELSE /\ member' = [member EXCEPT ![Under(t)[Len(frames[t]) - 1].inst] = Top(t).inst]
            /\ UNCHANGED handles
    /\ Finish(t)
    /\ UNCHANGED <<freelist, counts, slotOf, insts, lost, destroyed, memory, slotCount, phase,
                   frees>>

\* No handler: the slot stays active with a reference that nobody has.
HooksThrow(t) ==
    /\ At(t, "hooks")
    /\ Top(t).kind \in HookFailing
    /\ lost' = lost \union {Top(t).inst}
    /\ Raise(t)
    /\ UNCHANGED <<freelist, counts, handles, member, slotOf, insts, destroyed, memory,
                   slotCount, phase, frees>>

-----------------------------------------------------------------------------
(* Handles.                                                                *)

\* Mutant: the copy shares the slot without a reference of its own.
CopyUncounted(t, u, i) ==
    /\ frames[t] = <<>>
    /\ phase = "started"
    /\ handles[t][i] > 0
    /\ handles[u][i] < MaxHandles
    /\ handles' = [handles EXCEPT ![u][i] = @ + 1]
    /\ UNCHANGED <<freelist, counts, memory, slotCount, phase, frees, frames, member, slotOf,
                   insts, lost, destroyed>>

\* Copying a handle, or casting it; the copy may go to another thread.
Copy(t, u, i) ==
    /\ frames[t] = <<>>
    /\ phase = "started"
    /\ handles[t][i] > 0
    /\ handles[u][i] < MaxHandles
    /\ handles' = [handles EXCEPT ![u][i] = @ + 1]
    /\ refcount' = [refcount EXCEPT ![slotOf[i]] = @ + 1]
    /\ UNCHANGED <<freelist, liveSlots, memory, slotCount, phase, frees, frames, member, slotOf,
                   insts, lost, destroyed>>

\* releaseIfPrototype starts.  Nobody touches a handle while stop() or the
\* destructor of the registry runs; afterwards they may still be released.
Drop(t, i) ==
    /\ frames[t] = <<>>
    /\ phase \notin {"stopping", "dying"}
    /\ handles[t][i] > 0
    /\ handles' = [handles EXCEPT ![t][i] = @ - 1]
    /\ frames' = [frames EXCEPT ![t] = <<Call("dec", None, None, slotOf[i])>>]
    /\ UNCHANGED <<freelist, counts, memory, slotCount, phase, frees, member, slotOf, insts,
                   lost, destroyed>>

ReleaseAcquire(t) ==
    /\ At(t, "dec")
    /\ refcount' = [refcount EXCEPT ![Top(t).slot] = @ - 1]
    /\ IF refcount[Top(t).slot] = 1 THEN Step(t, "last") ELSE Finish(t)
    /\ UNCHANGED <<freelist, liveSlots, objects, memory, slotCount, phase, frees>>

\* Mutant: after the registry is gone the slot is not given back.
ReleaseLastForgets(t) ==
    /\ At(t, "last")
    /\ IF Alive THEN Step(t, "take") ELSE Finish(t)
    /\ UNCHANGED <<freelist, counts, objects, memory, slotCount, phase, frees>>

ReleaseLast(t) ==
    /\ At(t, "last")
    /\ Step(t, IF Alive THEN "take" ELSE "bump")
    /\ UNCHANGED <<freelist, counts, objects, memory, slotCount, phase, frees>>

\* releasePrototypeLast: takeSlotMetaForDestruction and the destruction.
TakeSlotMeta(t) ==
    /\ At(t, "take")
    /\ LET s == Top(t).slot
           f == [Top(t) EXCEPT !.op = "bump"]
       IN  /\ IF memory[s] = None
              THEN Goto(t, f) /\ UNCHANGED objects
              ELSE DestroyInstance(t, f, memory[s])
           /\ memory' = [memory EXCEPT ![s] = None]
    /\ UNCHANGED <<freelist, counts, slotCount, phase, frees>>

\* reclaimSlot.
Bump(t) ==
    /\ At(t, "bump")
    /\ memory' = [memory EXCEPT ![Top(t).slot] = None]
    /\ generation' = [generation EXCEPT ![Top(t).slot] = @ + 1]
    /\ Step(t, "pushLoad")
    /\ UNCHANGED <<head, nextFree, counts, objects, slotCount, phase, frees>>

-----------------------------------------------------------------------------
(* pushTreiberFreelist, then releaseLiveSlot and tryDeleteIfUnused.        *)

PushLoad(t) ==
    /\ At(t, "pushLoad")
    /\ Goto(t, [Top(t) EXCEPT !.cur = head, !.op = "pushLink"])
    /\ UNCHANGED <<freelist, counts, objects, memory, slotCount, phase, frees>>

PushLink(t) ==
    /\ At(t, "pushLink")
    /\ nextFree' = [nextFree EXCEPT ![Top(t).slot] = Top(t).cur.slot]
    /\ Step(t, "pushCas")
    /\ UNCHANGED <<head, generation, counts, objects, memory, slotCount, phase, frees>>

\* Mutant: a retry does not link the slot to the new head.
PushCasStale(t) ==
    /\ At(t, "pushCas")
    /\ LET f == Top(t) IN
        \/ /\ head = f.cur
           /\ head' = [gen |-> generation[f.slot], slot |-> f.slot]
           /\ IF f.live THEN Step(t, "unlive") ELSE Raise(t)
        \/ /\ head # f.cur
           /\ Goto(t, [f EXCEPT !.cur = head])
           /\ UNCHANGED head
    /\ UNCHANGED <<nextFree, generation, counts, objects, memory, slotCount, phase, frees>>

PushCas(t) ==
    /\ At(t, "pushCas")
    /\ LET f == Top(t) IN
        \/ /\ head = f.cur
           /\ head' = [gen |-> generation[f.slot], slot |-> f.slot]
           /\ IF f.live THEN Step(t, "unlive") ELSE Raise(t)
        \/ /\ head # f.cur
           /\ Goto(t, [f EXCEPT !.cur = head, !.op = "pushLink"])
           /\ UNCHANGED head
    /\ UNCHANGED <<nextFree, generation, counts, objects, memory, slotCount, phase, frees>>

\* Mutant: every release asks whether the store can go, not only the last one.
ReleaseLiveSlotAsks(t) ==
    /\ At(t, "unlive")
    /\ liveSlots' = liveSlots - 1
    /\ Step(t, "chkLive")
    /\ UNCHANGED <<freelist, refcount, objects, memory, slotCount, phase, frees>>

ReleaseLiveSlot(t) ==
    /\ At(t, "unlive")
    /\ liveSlots' = liveSlots - 1
    /\ IF liveSlots = 1 THEN Step(t, "chkLive") ELSE Finish(t)
    /\ UNCHANGED <<freelist, refcount, objects, memory, slotCount, phase, frees>>

CheckLive(t) ==
    /\ At(t, "chkLive")
    /\ IF liveSlots = 0 THEN Step(t, "chkAlive") ELSE Finish(t)
    /\ phase' = IF liveSlots # 0 /\ phase = "dying" THEN "dead" ELSE phase
    /\ UNCHANGED <<freelist, counts, objects, memory, slotCount, frees>>

\* alive is loaded, then deleteClaimed_ is exchanged and the store deleted.
DeleteIfDead(t) ==
    /\ At(t, "chkAlive")
    /\ Finish(t)
    /\ frees' = IF Alive THEN frees ELSE frees + 1
    /\ phase' = IF Alive THEN phase ELSE "dead"
    /\ UNCHANGED <<freelist, counts, objects, memory, slotCount>>

-----------------------------------------------------------------------------
(* stop() and the destructor of the registry, with no other call running.  *)

Stop(t) ==
    /\ phase = "started"
    /\ \A u \in Threads : frames[u] = <<>>
    /\ phase' = "stopping"
    /\ frames' = [frames EXCEPT ![t] = <<Call("sweep", None, None, slotCount)>>]
    /\ UNCHANGED <<freelist, counts, objects, memory, slotCount, frees>>

\* Mutant: the sweep destroys the object but leaves the slot's metadata.
SweepKeeps(t) ==
    /\ At(t, "sweep")
    /\ LET n == Top(t).slot
           f == [Top(t) EXCEPT !.slot = n - 1]
       IN  IF n = 0
           THEN phase' = "stopped" /\ Finish(t) /\ UNCHANGED objects
           ELSE /\ IF memory[n - 1] = None
                   THEN Goto(t, f) /\ UNCHANGED objects
                   ELSE DestroyInstance(t, f, memory[n - 1])
                /\ UNCHANGED phase
    /\ UNCHANGED <<freelist, counts, memory, slotCount, frees>>

\* The sweep of stopRegistryOwnedBeans over the slots, highest first.
Sweep(t) ==
    /\ At(t, "sweep")
    /\ LET n == Top(t).slot
           f == [Top(t) EXCEPT !.slot = n - 1]
       IN  IF n = 0
           THEN /\ phase' = "stopped"
                /\ Finish(t)
                /\ UNCHANGED <<memory, objects>>
           ELSE /\ IF memory[n - 1] = None
                   THEN Goto(t, f) /\ UNCHANGED objects
                   ELSE DestroyInstance(t, f, memory[n - 1])
                /\ memory' = [memory EXCEPT ![n - 1] = None]
                /\ UNCHANGED phase
    /\ UNCHANGED <<freelist, counts, slotCount, frees>>

DestroyRegistry(t) ==
    /\ phase = "stopped"
    /\ \A u \in Threads : frames[u] = <<>>
    /\ phase' = "dying"
    /\ frames' = [frames EXCEPT ![t] = <<Call("chkLive", None, None, None)>>]
    /\ UNCHANGED <<freelist, counts, objects, memory, slotCount, frees>>

-----------------------------------------------------------------------------

\* A thread goes on with the call it is in.
Continue(t) ==
    \/ PopLoad(t) \/ PopNext(t) \/ PopCas(t) \/ Grow(t) \/ LimitReached(t)
    \/ ConstructMember(t) \/ Constructed(t) \/ ConstructorThrows(t) \/ Unwind(t)
    \/ Activate(t) \/ HooksDone(t) \/ HooksThrow(t)
    \/ ReleaseAcquire(t) \/ ReleaseLast(t) \/ TakeSlotMeta(t) \/ Bump(t)
    \/ PushLoad(t) \/ PushLink(t) \/ PushCas(t)
    \/ ReleaseLiveSlot(t) \/ CheckLive(t) \/ DeleteIfDead(t) \/ Sweep(t)

Next ==
    \E t \in Threads :
        \/ \E k \in Kinds : Resolve(t, k)
        \/ \E i \in Insts : Drop(t, i) \/ \E u \in Threads : Copy(t, u, i)
        \/ Stop(t) \/ DestroyRegistry(t)
        \/ Continue(t)

\* A thread that is inside a call is eventually scheduled again; nobody is
\* obliged to resolve, copy or drop handles, or to stop the context.
Fairness == \A t \in Threads : WF_vars(Continue(t))

Spec == Init /\ [][Next]_vars
FairSpec == Spec /\ Fairness

-----------------------------------------------------------------------------

\* The state is well typed: counts, generations and slots stay within their bounds.
TypeOK ==
    /\ head \in Heads
    /\ nextFree \in [Slots -> Slots \union {None, 0}]
    /\ generation \in [Slots -> Nat]
    /\ memory \in [Slots -> Insts \union {None}]
    /\ refcount \in [Slots -> Nat]
    /\ slotCount \in 0..MaxSlots
    /\ liveSlots \in Nat
    /\ phase \in {"started", "stopping", "stopped", "dying", "dead"}
    /\ frees \in Nat
    /\ frames \in [Threads -> Seq(Frame)]
    /\ handles \in [Threads -> [Insts -> 0..MaxHandles]]
    /\ member \in [Insts -> Insts \union {None}]
    /\ slotOf \in [Insts -> Slots \union {None}]
    /\ insts \in 0..MaxInst
    /\ lost \subseteq Insts
    /\ destroyed \in [Insts -> Nat]

\* The slots on the freelist, in order; chain[n] is None past its end.
Chain ==
    LET chain[n \in 0..MaxSlots] ==
            IF n = 0 THEN head.slot
            ELSE IF chain[n - 1] = None THEN None ELSE nextFree[chain[n - 1]]
    IN  chain

\* The calls in progress, and those of them that are at one of ops with slot s.
Calls == UNION {{t} \X (1..Len(frames[t])) : t \in Threads}
CallsAt(s, ops) ==
    {c \in Calls : frames[c[1]][c[2]].slot = s /\ frames[c[1]][c[2]].op \in ops}

\* The calls that own slot s.
Working(s) == CallsAt(s, {"construct", "activate", "unwind", "last", "take", "bump",
                          "pushLoad", "pushLink", "pushCas"})

\* Every slot handed out so far is in exactly one place: on the freelist once, in
\* use by one instance, or in the hands of one call.  The freelist never gives
\* out a slot that is in use (allocate: "ABA impossible").
SlotsPartitioned ==
    /\ Chain[MaxSlots] = None
    /\ \A s \in 0..(slotCount - 1) :
        Cardinality({n \in 0..MaxSlots : Chain[n] = s}) + Cardinality(Working(s))
            + (IF refcount[s] > 0 THEN 1 ELSE 0) = 1

\* The references to a slot: handles that threads have, handles that beans hold,
\* and the ones a release is about to give up or a resolve about to return.
ThreadHandles(s) ==
    {h \in Threads \X Insts \X (1..MaxHandles) : slotOf[h[2]] = s /\ h[3] <= handles[h[1]][h[2]]}
MemberHandles(s) == {i \in Insts : member[i] # None /\ slotOf[member[i]] = s}
CallHandles(s) == CallsAt(s, {"dec", "hooks"})

\* A prototype's count is the number of handles to it, wherever they live: its
\* owner threads, a bean that holds it, a release or a resolve about to return.
\* One more is counted only for an instance whose creation hooks threw.
RefcountIsHandles ==
    \A s \in Slots :
        refcount[s] = Cardinality(ThreadHandles(s)) + Cardinality(MemberHandles(s))
                        + Cardinality(CallHandles(s))
                        + Cardinality({i \in lost : slotOf[i] = s})

\* Until the context is stopped, a handle leads to its own live instance, never
\* to a destroyed one or to the next tenant of the slot.
HeldIsAlive ==
    phase = "started" =>
        \A i \in Insts :
            (\E t \in Threads : handles[t][i] > 0) \/ (\E m \in Insts : member[m] = i)
                => memory[slotOf[i]] = i /\ destroyed[i] = 0

\* No prototype is destroyed twice, whether by its last handle, by the sweep of
\* stop() or by the destruction of the bean that holds it.
DestroyedOnce == \A i \in Insts : destroyed[i] <= 1

\* The store deletes itself once, when no thread is in one of its functions and
\* no handle is left that would come back to it.
DeletedLast ==
    /\ frees <= 1
    /\ frees = 1 => /\ \A t \in Threads : frames[t] = <<>>
                    /\ \A s \in Slots : /\ ThreadHandles(s) = {} /\ MemberHandles(s) = {}
                                        /\ CallHandles(s) = {}

\* Once the registry is gone and the last handle is released, the store goes too.
StoreGoes ==
    (phase = "dead" /\ lost = {} /\ \A t \in Threads : \A i \in Insts : handles[t][i] = 0)
        ~> frees = 1
=============================================================================
