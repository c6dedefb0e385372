------------------------------- MODULE Scopes -------------------------------
(***************************************************************************)
(* Scopes and their session beans: ScopedContext::start, stop, restart and *)
(* bindSession, Registry::stopScope and materializeSessionInstance, the    *)
(* arrays and retired blocks of SessionStore, and BeanContext::stop.       *)
(*                                                                         *)
(* A scope is started and stopped by one thread ("stop() is exclusive");   *)
(* what makes it hard is that hooks and listeners run in the middle of     *)
(* every operation and call back into the container.  A frame is one call  *)
(* in progress; at "callback" it runs user code, which may resolve, bind,  *)
(* use other scopes, throw or return.  How threads race for one session    *)
(* bean is the module Materialization.                                     *)
(***************************************************************************)
EXTENDS Naturals, Sequences, FiniteSets, Functions

CONSTANTS
    Scopes,
    Discovered,     \* the discovered session beans, in descriptor order
    Deps,           \* Deps[b]: the session beans injected in b
    BindKeys,       \* (type, name, priority) of runtime bindings
    Throwing,       \* beans and bind keys whose constructor, hook or listener may throw
    MaxInst,        \* bound: instances over the whole run
    MaxDepth,       \* bound: calls inside one another
    MaxOrder,       \* bound: insertion order that a start() that throws may leave
    None

Beans == {Discovered[n] : n \in 1..Len(Discovered)}

ASSUME ScopeConstants ==
    /\ Discovered \in Seq(Beans) /\ IsInjective(Discovered)
    /\ \A b \in Beans : b \notin Nat
    /\ Deps \in [Beans -> SUBSET Beans]
    /\ Throwing \subseteq Beans \union BindKeys
    /\ MaxInst \in Nat /\ MaxDepth \in Nat \ {0} /\ MaxOrder \in Nat
    /\ None \notin Nat \union Beans \union Scopes

VARIABLES
    root,       \* of the registry: created, started, stopped
    bound,      \* bind key of each descriptor made by bindSession, in order
    slots,      \* the descriptor of each session slot; empty until the root starts
    inst,       \* every instance so far: descriptor, scope and what became of it
    state,      \* scopeState_
    array,      \* SessionStore: instance or None of each slot of instancesBase_
    order,      \* insertionOrder_
    retired,    \* retiredBlocks_
    pending,    \* pendingRuntimeSessions_
    frames,     \* the calls in progress, outermost first
    lost        \* history: bound instances that start() dropped from pending

vars == <<root, bound, slots, inst, state, array, order, retired, pending, frames, lost>>
store == <<array, order, retired>>

Insts == 1..MaxInst
\* A descriptor is a discovered bean, or the position of a binding in bound.
BoundIds == 1..MaxInst
Descs == Beans \union BoundIds

Init ==
    /\ root = "created"
    /\ bound = <<>> /\ slots = <<>> /\ inst = <<>>
    /\ state = [s \in Scopes |-> "Stopped"]
    /\ array = [s \in Scopes |-> <<>>]
    /\ order = [s \in Scopes |-> <<>>]
    /\ retired = [s \in Scopes |-> {}]
    /\ pending = [s \in Scopes |-> <<>>]
    /\ frames = <<>>
    /\ lost = {}

-----------------------------------------------------------------------------

\* todo is what is left of the vector the call iterates over.
Call(op, at, s, d, todo) == [op |-> op, at |-> at, scope |-> s, desc |-> d, todo |-> todo]
Depth == Len(frames)
Top == frames[Depth]
At(op, at) == frames # <<>> /\ Top.op = op /\ Top.at = at
Goto(f) == frames' = [frames EXCEPT ![Depth] = f]
Push(f) == Depth < MaxDepth /\ frames' = Append(frames, f)
Finish == frames' = SubSeq(frames, 1, Depth - 1)

\* An exception leaves the top call and every constructor that was waiting for
\* it; user code below may catch it.
Raise ==
    \E n \in 0..(Depth - 1) :
        /\ \A m \in (n + 1)..(Depth - 1) : frames[m].at = "construct"
        /\ n > 0 => frames[n].at # "construct"
        /\ frames' = SubSeq(frames, 1, n)

\* User code runs, and the container is not being stopped under it.
UserCode == frames # <<>> => Top.at = "callback"
\* Nothing below is in the middle of s: start(), stop() and restart() of s are
\* not called from a callback of its own, or of the root's stop().
Free(s) == \A n \in 1..Depth : frames[n].op # "root" /\ frames[n].scope # s

-----------------------------------------------------------------------------
(* SessionStore.                                                           *)

SlotOf(d) == CHOOSE n \in 1..Len(slots) : slots[n] = d

\* find(): nullptr past the end of the array.
Find(s, d) == IF SlotOf(d) <= Len(array[s]) THEN array[s][SlotOf(d)] ELSE None

\* Mutant: the array is left as it was allocated.
ResizedUninitialised == [n \in 1..Len(slots) |-> 0]

\* resize(): a fresh array of nulls.
Resized == [n \in 1..Len(slots) |-> None]

\* growAndStore() copies the array into a longer one if the slot is past its end.
Grown(a, n) == [m \in 1..(IF n > Len(a) THEN n ELSE Len(a)) |-> IF m <= Len(a) THEN a[m] ELSE None]

\* Mutant: the array is never grown.
StoreUngrown(s, d, i, known) ==
    /\ array' = [array EXCEPT ![s] = [n \in DOMAIN @ |-> IF known[n] = d THEN i ELSE @[n]]]
    /\ order' = [order EXCEPT ![s] = Append(@, d)]
    /\ retired' = [retired EXCEPT ![s] = {r \in @ : inst[r].desc # d}]

\* store(): the instance gets its slot, and a block of the same descriptor that
\* an earlier cycle left is freed.
Store(s, d, i, known) ==
    LET n == CHOOSE m \in 1..Len(known) : known[m] = d
    IN  /\ array' = [array EXCEPT ![s] = [Grown(@, n) EXCEPT ![n] = i]]
        /\ order' = [order EXCEPT ![s] = Append(@, d)]
        /\ retired' = [retired EXCEPT ![s] = {r \in @ : inst[r].desc # d}]

\* What becomes of the instances when the blocks in F are freed and those in K
\* destroyed and kept.  Destroying or freeing one twice is an error of its own.
After(is, F, K) ==
    [i \in 1..Len(is) |->
        [is[i] EXCEPT !.life = CASE i \in F -> IF @ = "freed" THEN "corrupt" ELSE "freed"
                                 [] i \in K -> IF @ = "made" THEN "destroyed" ELSE "corrupt"
                                 [] OTHER -> @]]

Made(d, s) == [desc |-> d, scope |-> s, life |-> "made"]
Replaced(s, d) == {r \in retired[s] : inst[r].desc = d}

-----------------------------------------------------------------------------
(* The root starts: session slots are numbered.                            *)

RootStart ==
    /\ root = "created" /\ frames = <<>>
    /\ root' = "started"
    /\ slots' = [n \in 1..Len(bound) |-> n] \o Discovered
    /\ UNCHANGED <<bound, inst, state, store, pending, frames, lost>>

-----------------------------------------------------------------------------
(* bindSession.  A key that is already pending, or already stored in a     *)
(* running scope, is a ConfigurationError and changes nothing.             *)

Binding(k) == {d \in 1..Len(bound) : bound[d] = k}
\* Before the root starts every call makes a descriptor; later the first of the
\* key is used again.
BindDesc(k) ==
    IF root = "started" /\ Binding(k) # {}
    THEN CHOOSE d \in Binding(k) : \A e \in Binding(k) : d <= e
    ELSE Len(bound) + 1
KnownSlots(d) == IF root = "started" /\ d > Len(bound) THEN Append(slots, d) ELSE slots

BindQueued(s, k) ==
    /\ UserCode /\ root # "stopped"
    /\ state[s] # "Running"
    /\ Len(inst) < MaxInst
    /\ \A i \in Range(pending[s]) : bound[inst[i].desc] # k
    /\ LET d == BindDesc(k) IN
        /\ bound' = IF d > Len(bound) THEN Append(bound, k) ELSE bound
        /\ slots' = KnownSlots(d)
        /\ inst' = Append(inst, Made(d, s))
        /\ pending' = [pending EXCEPT ![s] = Append(@, Len(inst) + 1)]
    /\ UNCHANGED <<root, state, store, frames, lost>>

BindRunning(s, k) ==
    /\ UserCode
    /\ state[s] = "Running"
    /\ Len(inst) < MaxInst
    /\ \A i \in Range(pending[s]) : bound[inst[i].desc] # k
    /\ LET d == BindDesc(k) IN
        /\ d <= Len(bound) => Find(s, d) = None
        /\ bound' = IF d > Len(bound) THEN Append(bound, k) ELSE bound
        /\ slots' = KnownSlots(d)
        /\ inst' = After(Append(inst, Made(d, s)), Replaced(s, d), {})
        /\ Store(s, d, Len(inst) + 1, KnownSlots(d))
        /\ Push(Call("bind", "callback", s, d, <<>>))
    /\ UNCHANGED <<root, state, pending, lost>>

-----------------------------------------------------------------------------
(* Session beans are made by resolve() or through a proxy handle.          *)

\* b is on the stack of this thread, which holds descriptors without their scope:
\* resolving it, in whatever scope, is reported as a dependency cycle.
InConstruction(b) == \E n \in 1..Depth : frames[n].at = "construct" /\ frames[n].desc = b

\* A stored bean is returned as it is.  Without one a stopped or stopping scope,
\* a binding that was not renewed and a bean under construction are refused.
Resolve(s, b) ==
    /\ UserCode
    /\ state[s] = "Running"
    /\ Find(s, b) = None
    /\ ~InConstruction(b)
    /\ Push(Call("make", "construct", s, b, <<>>))
    /\ UNCHANGED <<root, bound, slots, inst, state, store, pending, lost>>

Missing == {b \in Deps[Top.desc] : Find(Top.scope, b) = None}

ConstructDep ==
    /\ At("make", "construct")
    /\ \E b \in Missing :
        /\ ~InConstruction(b)
        /\ frames' = Append(frames, Call("make", "construct", Top.scope, b, <<>>))
    /\ UNCHANGED <<root, bound, slots, inst, state, store, pending, lost>>

Constructed ==
    /\ At("make", "construct")
    /\ Missing = {}
    /\ Len(inst) < MaxInst
    /\ inst' = After(Append(inst, Made(Top.desc, Top.scope)), Replaced(Top.scope, Top.desc), {})
    /\ Store(Top.scope, Top.desc, Len(inst) + 1, slots)
    /\ Goto([Top EXCEPT !.at = "callback"])
    /\ UNCHANGED <<root, bound, slots, state, pending, lost>>

\* The constructor throws, allocation fails (always at the bound), or the bean
\* needs one that is being constructed below: a dependency cycle.
ConstructorThrows ==
    /\ At("make", "construct")
    /\ \/ Top.desc \in Throwing
       \/ Len(inst) = MaxInst
       \/ \E b \in Missing : InConstruction(b)
    /\ Raise
    /\ UNCHANGED <<root, bound, slots, inst, state, store, pending, lost>>

\* The hooks and listeners of a made or bound bean return or throw; the bean
\* stays in its slot either way.
CreationCallbackReturns ==
    /\ At("make", "callback") \/ At("bind", "callback")
    /\ Finish
    /\ UNCHANGED <<root, bound, slots, inst, state, store, pending, lost>>

KeyOf(d) == IF d \in Beans THEN d ELSE bound[d]

CreationCallbackThrows ==
    /\ At("make", "callback") \/ At("bind", "callback")
    /\ KeyOf(Top.desc) \in Throwing
    /\ Raise
    /\ UNCHANGED <<root, bound, slots, inst, state, store, pending, lost>>

-----------------------------------------------------------------------------
(* start().                                                                *)

\* What start() does to the store and the call it becomes.  Its loop runs over
\* the pending bindings of this moment: one that a callback adds is past the
\* end the loop has read (or in memory the vector has moved to).
Starting(s, fs) ==
    /\ array' = [array EXCEPT ![s] = Resized]
    /\ frames' = Append(fs, Call("start", "next", s, None, pending[s]))

\* Also restart() of a scope that is not running.
ScopeStart(s) ==
    /\ UserCode /\ Free(s) /\ Depth < MaxDepth
    /\ root = "started"
    /\ state[s] = "Stopped"
    /\ Starting(s, frames)
    /\ UNCHANGED <<root, bound, slots, inst, state, order, retired, pending, lost>>

StartStores ==
    /\ At("start", "next")
    /\ Top.todo # <<>>
    /\ LET i == Head(Top.todo)  d == inst[i].desc IN
        /\ Store(Top.scope, d, i, slots)
        /\ inst' = After(inst, Replaced(Top.scope, d), {})
        /\ Goto([Top EXCEPT !.at = "callback", !.desc = d])
    /\ UNCHANGED <<root, bound, slots, state, pending, lost>>

StartCallbackReturns ==
    /\ At("start", "callback")
    /\ Goto([Top EXCEPT !.at = "next", !.todo = Tail(@)])
    /\ UNCHANGED <<root, bound, slots, inst, state, store, pending, lost>>

\* The scope stays stopped, with its pending bindings and a store half filled.
StartCallbackThrows ==
    /\ At("start", "callback")
    /\ KeyOf(Top.desc) \in Throwing
    /\ Len(order[Top.scope]) <= MaxOrder
    /\ Raise
    /\ UNCHANGED <<root, bound, slots, inst, state, store, pending, lost>>

StartDone ==
    /\ At("start", "next")
    /\ Top.todo = <<>>
    /\ LET s == Top.scope IN
        /\ pending' = [pending EXCEPT ![s] = <<>>]
        /\ lost' = lost \union (Range(pending[s]) \ Range(array[s]))
        /\ state' = [state EXCEPT ![s] = "Running"]
    /\ Finish
    /\ UNCHANGED <<root, bound, slots, inst, store>>

-----------------------------------------------------------------------------
(* stop() and restart(): Registry::stopScope without and with deferred     *)
(* deallocation.  Exceptions of callbacks terminate the program.  start()  *)
(* and restart() of a stopping scope throw, stop() does nothing.           *)

Stopping(s, op) ==
    /\ state' = [state EXCEPT ![s] = "Stopping"]
    /\ frames' = Append(frames, Call(op, "next", s, None, order[s]))

ScopeStop(s) ==
    /\ UserCode /\ Free(s) /\ Depth < MaxDepth
    /\ state[s] = "Running"
    /\ Stopping(s, "stop")
    /\ UNCHANGED <<root, bound, slots, inst, store, pending, lost>>

Restart(s) ==
    /\ UserCode /\ Free(s) /\ Depth < MaxDepth
    /\ state[s] = "Running"
    /\ Stopping(s, "restart")
    /\ UNCHANGED <<root, bound, slots, inst, store, pending, lost>>

Sweeping(at) == At("stop", at) \/ At("restart", at)

\* Mutant: the sweep goes in the order of construction.
SweepForward ==
    /\ Sweeping("next")
    /\ Top.todo # <<>>
    /\ LET d == Head(Top.todo) IN
        Goto([Top EXCEPT !.todo = Tail(@), !.desc = d,
                         !.at = IF Find(Top.scope, d) = None THEN "next" ELSE "callback"])
    /\ UNCHANGED <<root, bound, slots, inst, state, store, pending, lost>>

\* The next descriptor from the end of the insertion order: preDestroy and the
\* listeners run for the instance in its slot, if there is one.
Sweep ==
    /\ Sweeping("next")
    /\ Top.todo # <<>>
    /\ LET d == Top.todo[Len(Top.todo)] IN
        Goto([Top EXCEPT !.todo = SubSeq(@, 1, Len(@) - 1), !.desc = d,
                         !.at = IF Find(Top.scope, d) = None THEN "next" ELSE "callback"])
    /\ UNCHANGED <<root, bound, slots, inst, state, store, pending, lost>>

\* Mutant: the slot keeps the pointer to the destroyed instance.
SweepDestroysKeepsSlot ==
    /\ Sweeping("callback")
    /\ LET s == Top.scope  i == Find(s, Top.desc)  keep == Top.op = "restart" IN
        /\ inst' = After(inst, IF keep THEN {} ELSE {i}, IF keep THEN {i} ELSE {})
        /\ retired' = IF keep THEN [retired EXCEPT ![s] = @ \union {i}] ELSE retired
    /\ Goto([Top EXCEPT !.at = "next"])
    /\ UNCHANGED <<root, bound, slots, state, array, order, pending, lost>>

\* The callbacks return: the instance is destroyed and freed, or destroyed and
\* its block retired, and the slot cleared.
SweepDestroys ==
    /\ Sweeping("callback")
    /\ LET s == Top.scope  i == Find(s, Top.desc)  keep == Top.op = "restart" IN
        /\ inst' = After(inst, IF keep THEN {} ELSE {i}, IF keep THEN {i} ELSE {})
        /\ retired' = IF keep THEN [retired EXCEPT ![s] = @ \union {i}] ELSE retired
        /\ array' = [array EXCEPT ![s][SlotOf(Top.desc)] = None]
    /\ Goto([Top EXCEPT !.at = "next"])
    /\ UNCHANGED <<root, bound, slots, state, order, pending, lost>>

StopDone ==
    /\ At("stop", "next")
    /\ Top.todo = <<>>
    /\ LET s == Top.scope IN
        /\ inst' = After(inst, retired[s], {})
        /\ retired' = [retired EXCEPT ![s] = {}]
        /\ array' = [array EXCEPT ![s] = <<>>]
        /\ order' = [order EXCEPT ![s] = <<>>]
        /\ state' = [state EXCEPT ![s] = "Stopped"]
    /\ Finish
    /\ UNCHANGED <<root, bound, slots, pending, lost>>

\* Mutant: a restart releases the retired blocks as stop() does.
RestartDoneReleases ==
    /\ At("restart", "next")
    /\ Top.todo = <<>>
    /\ LET s == Top.scope IN
        /\ inst' = After(inst, retired[s], {})
        /\ retired' = [retired EXCEPT ![s] = {}]
        /\ order' = [order EXCEPT ![s] = <<>>]
        /\ state' = [state EXCEPT ![s] = "Stopped"]
        /\ Starting(s, SubSeq(frames, 1, Depth - 1))
    /\ UNCHANGED <<root, bound, slots, pending, lost>>

\* The retired blocks stay, and start() follows at once.
RestartDone ==
    /\ At("restart", "next")
    /\ Top.todo = <<>>
    /\ LET s == Top.scope IN
        /\ order' = [order EXCEPT ![s] = <<>>]
        /\ state' = [state EXCEPT ![s] = "Stopped"]
        /\ Starting(s, SubSeq(frames, 1, Depth - 1))
    /\ UNCHANGED <<root, bound, slots, inst, retired, pending, lost>>

-----------------------------------------------------------------------------
(* BeanContext::stop(): every scope is stopped, then the context and its   *)
(* scopes are destroyed (~ScopedContext, ~SessionStore).                   *)

RootStop ==
    /\ frames = <<>> /\ root = "started"
    /\ frames' = <<Call("root", "next", None, None, <<>>)>>
    /\ UNCHANGED <<root, bound, slots, inst, state, store, pending, lost>>

RootStopsScope(s) ==
    /\ At("root", "next")
    /\ state[s] = "Running"
    /\ Stopping(s, "stop")
    /\ UNCHANGED <<root, bound, slots, inst, store, pending, lost>>

\* Mutant: bindings that were never started go with the vector.
RootStopDoneForgets ==
    /\ At("root", "next")
    /\ \A s \in Scopes : state[s] = "Stopped"
    /\ root' = "stopped"
    /\ inst' = After(inst, UNION {retired[s] : s \in Scopes}, {})
    /\ retired' = [s \in Scopes |-> {}]
    /\ pending' = [s \in Scopes |-> <<>>]
    /\ array' = [s \in Scopes |-> <<>>]
    /\ order' = [s \in Scopes |-> <<>>]
    /\ Finish
    /\ UNCHANGED <<bound, slots, state, lost>>

RootStopDone ==
    /\ At("root", "next")
    /\ \A s \in Scopes : state[s] = "Stopped"
    /\ root' = "stopped"
    /\ inst' = After(inst, UNION {Range(pending[s]) \union retired[s] : s \in Scopes}, {})
    /\ retired' = [s \in Scopes |-> {}]
    /\ pending' = [s \in Scopes |-> <<>>]
    /\ array' = [s \in Scopes |-> <<>>]
    /\ order' = [s \in Scopes |-> <<>>]
    /\ Finish
    /\ UNCHANGED <<bound, slots, state, lost>>

\* The context is gone.
Gone == root = "stopped" /\ UNCHANGED vars

-----------------------------------------------------------------------------

Next ==
    \/ RootStart \/ RootStop \/ RootStopDone \/ Gone
    \/ \E s \in Scopes :
        \/ \E k \in BindKeys : BindQueued(s, k) \/ BindRunning(s, k)
        \/ \E b \in Beans : Resolve(s, b)
        \/ ScopeStart(s) \/ ScopeStop(s) \/ Restart(s) \/ RootStopsScope(s)
    \/ ConstructDep \/ Constructed \/ ConstructorThrows
    \/ CreationCallbackReturns \/ CreationCallbackThrows
    \/ StartStores \/ StartCallbackReturns \/ StartCallbackThrows \/ StartDone
    \/ Sweep \/ SweepDestroys \/ StopDone \/ RestartDone

Spec == Init /\ [][Next]_vars

-----------------------------------------------------------------------------

Frame ==
    [op : {"start", "stop", "restart", "make", "bind", "root"},
     at : {"next", "construct", "callback"},
     scope : Scopes \union {None}, desc : Descs \union {None}, todo : Seq(Descs \union Insts)]

\* The state is well typed: arrays, orders and retired blocks name instances that exist.
TypeOK ==
    /\ root \in {"created", "started", "stopped"}
    /\ bound \in Seq(BindKeys) /\ slots \in Seq(Descs)
    /\ inst \in Seq([desc : Descs, scope : Scopes, life : {"made", "destroyed", "freed", "corrupt"}])
    /\ state \in [Scopes -> {"Stopped", "Running", "Stopping"}]
    /\ array \in [Scopes -> Seq(Insts \union {None})]
    /\ order \in [Scopes -> Seq(Descs)]
    /\ retired \in [Scopes -> SUBSET Insts]
    /\ pending \in [Scopes -> Seq(Insts)]
    /\ frames \in Seq(Frame)
    /\ lost \subseteq Insts

\* A proxy handle leads to a live instance of its own bean and scope, in every
\* state of the scope and in every callback: never to one that an earlier cycle
\* destroyed.
FindIsLive ==
    \A s \in Scopes : \A n \in 1..Len(array[s]) :
        LET i == array[s][n] IN
        i # None => inst[i].life = "made" /\ inst[i].scope = s /\ inst[i].desc = slots[n]

\* No session bean is destroyed twice and no block freed twice: not by a sweep
\* over an insertion order in which a failed start left it twice, not by the end
\* of the scope after a restart.
DestroyedOnce == \A i \in 1..Len(inst) : inst[i].life # "corrupt"

\* Every instance is accounted for: a live one is in a slot of its scope or is
\* queued, a destroyed one has its block in the retired list, and nothing that
\* was freed is kept anywhere.  Only bindings made inside start() are lost.
Accounted ==
    \A i \in 1..Len(inst) :
        LET s == inst[i].scope IN
        /\ inst[i].life = "made" =>
                i \in Range(array[s]) \union Range(pending[s]) \union lost
        /\ inst[i].life = "destroyed" <=> i \in retired[s]
        /\ inst[i].life = "freed" => i \notin Range(array[s]) \union Range(pending[s])

\* Instances live as long as one run of their scope: a scope that is stopped,
\* and not being started, has none but the queued ones, and after the context
\* is gone there are none at all and no memory of them.
NoneOutlivesScope ==
    /\ \A i \in 1..Len(inst) :
        state[inst[i].scope] = "Stopped" /\ inst[i].life = "made"
            => i \in Range(pending[inst[i].scope]) \union lost
    /\ root = "stopped" => \A i \in 1..Len(inst) : inst[i].life = "freed" \/ i \in lost

\* While preDestroy and the destruction listeners of a session bean run, the
\* session beans injected in it still exist: the sweep is in reverse order of
\* construction, whatever callbacks resolved or bound in between.
DepsOutlive ==
    \A n \in 1..Depth :
        LET f == frames[n] IN
        f.op \in {"stop", "restart"} /\ f.at = "callback" /\ f.desc \in Beans =>
            \A b \in Deps[f.desc] : Find(f.scope, b) # None

\* A restart keeps the memory of the old instances until the same bean is there
\* again or the scope ends, so that no new instance has the address of the one
\* it replaces.
KeptUntilReplaced ==
    [][\A s \in Scopes : \A i \in retired[s] \ retired'[s] :
            \/ inst[i].desc \in {inst'[j].desc : j \in Range(array'[s]) \ {None}}
            \/ state'[s] = "Stopped" /\ frames # <<>> /\ Top.op \in {"stop", "root"}]_vars

\* What was bound in a running scope can be resolved there: resolve() by the key
\* finds one candidate and not several of equal priority ("imports an object you
\* built yourself as the scope's instance for a type").
BoundIsResolvable ==
    \A s \in Scopes : state[s] = "Running" =>
        \A d \in 1..Len(bound) : Find(s, d) # None => Binding(bound[d]) = {d}
=============================================================================
