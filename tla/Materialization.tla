-------------------------- MODULE Materialization --------------------------
(***************************************************************************)
(* Lazy creation of shared beans (singletons, and session beans of a       *)
(* running scope) and of prototypes by several threads:                    *)
(* Registry::materializeOneImpl, materializeSessionInstance,               *)
(* claimMaterializationOrWait and materializationWaitCycleDetected.        *)
(*                                                                         *)
(* A key is what the code calls a MaterializationKey: a descriptor with    *)
(* the scope (or no scope) it is materialized for, in one registry.        *)
(* Constructors and postConstruct hooks are user code; all the model knows *)
(* of them is which beans they resolve, in order, and whether they may     *)
(* throw.  Every critical section of writeLock_ is one step; everything    *)
(* the code does without the lock is a step of its own.                    *)
(***************************************************************************)
EXTENDS Naturals, Sequences, FiniteSets

CONSTANTS
    Threads,        \* threads that call resolve(); the model's thread tokens
    Keys,           \* (descriptor, scope) pairs of every registry
    Prototypes,     \* the keys whose descriptor has the prototype lifetime
    Desc,           \* Desc[k]: DescriptorId of k, what the per-thread stack holds
    Reg,            \* Reg[k]: the registry that materializes k
    Deps,           \* Deps[k]: keys the constructor of k resolves, in order
    PostDeps,       \* PostDeps[k]: keys the postConstruct hook of k resolves
    Throwing,       \* keys whose constructor may throw
    PostThrowing,   \* keys whose hook or creation listeners may throw
    MaxCalls,       \* bound: top-level resolve() calls per thread
    NoThread, NoKey

Shared == Keys \ Prototypes

ASSUME ConstantsOK ==
    /\ Prototypes \subseteq Keys
    /\ Throwing \subseteq Keys
    /\ PostThrowing \subseteq Keys
    /\ Deps \in [Keys -> Seq(Keys)]
    /\ PostDeps \in [Keys -> Seq(Keys)]
    /\ DOMAIN Desc = Keys
    /\ DOMAIN Reg = Keys
    /\ IsFiniteSet(Keys)
    /\ MaxCalls \in Nat
    /\ NoThread \notin Threads
    /\ NoKey \notin Keys

VARIABLES
    frames,     \* per thread, the materialize calls in progress, outermost first
    exc,        \* per thread, the exception that is unwinding its frames
    stack,      \* materializationStack(): thread_local, shared by all registries
    owner,      \* materializing_: the thread that claimed a key
    waits,      \* waitingByThreadChunks_: key of the thread's active wait slot
    stored,     \* keys whose instance is in the singleton or session store
    built,      \* history: number of live instances constructed for a key
    calls,      \* number of top-level resolve() calls a thread made
    outcome     \* how the last top-level call of a thread ended

vars == <<frames, exc, stack, owner, waits, stored, built, calls, outcome>>

Points == {"find", "claim", "waiting", "woken", "construct", "store",
           "notify", "hooks", "abandoned"}
Frame == [key : Keys, at : Points, next : Nat \ {0}]

NewFrame(k) == [key |-> k, at |-> "find", next |-> 1]

Init ==
    /\ frames = [t \in Threads |-> <<>>]
    /\ exc = [t \in Threads |-> "none"]
    /\ stack = [t \in Threads |-> <<>>]
    /\ owner = [k \in Keys |-> NoThread]
    /\ waits = [t \in Threads |-> NoKey]
    /\ stored = {}
    /\ built = [k \in Keys |-> 0]
    /\ calls = [t \in Threads |-> 0]
    /\ outcome = [t \in Threads |-> [key |-> NoKey, result |-> "none"]]

-----------------------------------------------------------------------------
(* The call stack of a thread.                                             *)

Depth(t) == Len(frames[t])
Top(t) == frames[t][Depth(t)]

\* t runs the frame on top of its stack and stands at the given point of it.
Running(t, point) ==
    /\ frames[t] # <<>>
    /\ exc[t] = "none"
    /\ Top(t).at = point

Unwinding(t, point) ==
    /\ frames[t] # <<>>
    /\ exc[t] # "none"
    /\ Top(t).at = point

\* pop_back().
Popped(s) == [i \in 1..(Len(s) - 1) |-> s[i]]

Moved(t, point) ==
    [frames EXCEPT ![t][Depth(t)] = [key |-> @.key, at |-> point, next |-> 1]]
GoTo(t, point) == frames' = Moved(t, point)

Enter(t, k) == frames' = [frames EXCEPT ![t] = Append(@, NewFrame(k))]

\* The top frame returns its bean: the caller goes on after the resolve that
\* called it, or the top-level call ends.
Resumed(s) ==
    IF Len(s) = 1 THEN <<>> ELSE [Popped(s) EXCEPT ![Len(s) - 1].next = @ + 1]

Return(t) ==
    /\ frames' = [frames EXCEPT ![t] = Resumed(@)]
    /\ outcome' = IF Depth(t) = 1
                  THEN [outcome EXCEPT ![t] = [key |-> Top(t).key, result |-> "ok"]]
                  ELSE outcome
    /\ UNCHANGED exc

\* The top frame is left by the exception e: it reaches the caller's frame, or
\* the caller of the top-level resolve.
Propagate(t, e) ==
    /\ exc' = [exc EXCEPT ![t] = IF Depth(t) = 1 THEN "none" ELSE e]
    /\ outcome' = IF Depth(t) = 1
                  THEN [outcome EXCEPT ![t] = [key |-> Top(t).key, result |-> e]]
                  ELSE outcome

Leave(t, e) ==
    /\ frames' = [frames EXCEPT ![t] = Popped(@)]
    /\ Propagate(t, e)

\* User code run by the top frame throws.
Throw(t) ==
    /\ exc' = [exc EXCEPT ![t] = "user"]
    /\ UNCHANGED <<frames, outcome>>

\* cv_.notify_all(): every thread waiting on the condition variable of
\* registry r wakes up.
Woken(r, fs) ==
    [t \in Threads |->
        IF fs[t] # <<>> /\ fs[t][Len(fs[t])].at = "waiting"
                        /\ Reg[fs[t][Len(fs[t])].key] = r
        THEN [fs[t] EXCEPT ![Len(fs[t])] = [@ EXCEPT !.at = "woken"]]
        ELSE fs[t]]

-----------------------------------------------------------------------------
(* Starting a resolve and the lock-free fast path.                         *)

Resolve(t, k) ==
    /\ frames[t] = <<>>
    /\ calls[t] < MaxCalls
    /\ calls' = [calls EXCEPT ![t] = @ + 1]
    /\ Enter(t, k)
    /\ UNCHANGED <<exc, stack, owner, waits, stored, built, outcome>>

\* singletons_.find / sessionStore_.find without the lock.
FindHit(t) ==
    /\ Running(t, "find")
    /\ Top(t).key \in stored
    /\ Return(t)
    /\ UNCHANGED <<stack, owner, waits, stored, built, calls>>

FindMiss(t) ==
    /\ Running(t, "find")
    /\ Top(t).key \in Shared \ stored
    /\ GoTo(t, "claim")
    /\ UNCHANGED <<exc, stack, owner, waits, stored, built, calls, outcome>>

OnStack(t, k) == \E i \in 1..Len(stack[t]) : stack[t][i] = Desc[k]

-----------------------------------------------------------------------------
(* claimMaterializationOrWait: one iteration of its loop, under writeLock_ *)
(* from entering the function or waking up to returning, throwing or       *)
(* waiting again.                                                          *)

\* materializing_ of registry r.
Materializing(r) == {q \in Keys : owner[q] # NoThread /\ Reg[q] = r}

\* The thread that u waits for in registry r.
Blocker(u, r) ==
    IF u # NoThread /\ waits[u] # NoKey /\ Reg[waits[u]] = r THEN owner[waits[u]] ELSE NoThread

\* The walk along wait edges from the owner of k: the thread looked at in each
\* iteration, at most as many as there are entries.
Walk(k) ==
    LET token[n \in 0..Cardinality(Materializing(Reg[k]))] ==
            IF n = 0 THEN owner[k] ELSE Blocker(token[n - 1], Reg[k])
    IN  token

\* Mutant: the walk stops one entry early.
WaitCycleDetectedShort(t, k) ==
    LET token == Walk(k)
    IN  \E n \in 0..(Cardinality(Materializing(Reg[k])) - 2) : token[n] = t

\* Mutant: any owner that is itself waiting is taken for a cycle.
WaitCycleDetectedEager(t, k) == waits[owner[k]] # NoKey

\* t is met on the walk: waiting for k would never end.
WaitCycleDetected(t, k) ==
    LET token == Walk(k)
    IN  \E n \in 0..(Cardinality(Materializing(Reg[k])) - 1) : token[n] = t

\* The thread has the lock at the head of the loop and has cleared its slot;
\* the stack is searched only on entry.
Claiming(t) ==
    \/ Running(t, "claim") /\ ~OnStack(t, Top(t).key)
    \/ Running(t, "woken")

\* Mutant: after waking up the peer is taken to have succeeded (no loop around
\* the wait).
ClaimFoundAfterWait(t) ==
    /\ Claiming(t)
    /\ Top(t).key \in stored \/ Running(t, "woken")
    /\ waits' = [waits EXCEPT ![t] = NoKey]
    /\ Return(t)
    /\ UNCHANGED <<stack, owner, stored, built, calls>>

ClaimFound(t) ==
    /\ Claiming(t)
    /\ Top(t).key \in stored
    /\ waits' = [waits EXCEPT ![t] = NoKey]
    /\ Return(t)
    /\ UNCHANGED <<stack, owner, stored, built, calls>>

\* Mutant: no second look into the store under the lock.
ClaimOwnUnchecked(t) ==
    /\ Claiming(t)
    /\ LET k == Top(t).key IN
        /\ owner[k] = NoThread
        /\ ~OnStack(t, k)
        /\ stack' = [stack EXCEPT ![t] = Append(@, Desc[k])]
        /\ owner' = [owner EXCEPT ![k] = t]
    /\ waits' = [waits EXCEPT ![t] = NoKey]
    /\ GoTo(t, "construct")
    /\ UNCHANGED <<exc, stored, built, calls, outcome>>

ClaimOwn(t) ==
    /\ Claiming(t)
    /\ LET k == Top(t).key IN
        /\ k \notin stored
        /\ owner[k] = NoThread
        /\ ~OnStack(t, k)
        /\ stack' = [stack EXCEPT ![t] = Append(@, Desc[k])]
        /\ owner' = [owner EXCEPT ![k] = t]
    /\ waits' = [waits EXCEPT ![t] = NoKey]
    /\ GoTo(t, "construct")
    /\ UNCHANGED <<exc, stored, built, calls, outcome>>

ClaimWait(t) ==
    /\ Claiming(t)
    /\ LET k == Top(t).key IN
        /\ k \notin stored
        /\ owner[k] \notin {NoThread, t}
        /\ stack[t] # <<>> => ~WaitCycleDetected(t, k)
        /\ waits' = [waits EXCEPT ![t] = k]
    /\ GoTo(t, "waiting")
    /\ UNCHANGED <<exc, stack, owner, stored, built, calls, outcome>>

\* The three ways the function throws ResolutionError: the descriptor is on
\* this thread's stack, this thread owns the key, or waiting would close a
\* cycle of waiting threads.
ClaimCycle(t) ==
    /\ LET k == Top(t).key IN
        \/ Running(t, "claim") /\ OnStack(t, k)
        \/ /\ Claiming(t)
           /\ k \notin stored
           /\ \/ owner[k] = NoThread /\ OnStack(t, k)
              \/ owner[k] = t
              \/ /\ owner[k] \notin {NoThread, t}
                 /\ stack[t] # <<>>
                 /\ WaitCycleDetected(t, k)
    /\ waits' = [waits EXCEPT ![t] = NoKey]
    /\ Leave(t, "cycle")
    /\ UNCHANGED <<stack, owner, stored, built, calls>>

\* std::condition_variable may wake a waiter without a notification.
SpuriousWakeup(t) ==
    /\ Running(t, "waiting")
    /\ GoTo(t, "woken")
    /\ UNCHANGED <<exc, stack, owner, waits, stored, built, calls, outcome>>

-----------------------------------------------------------------------------
(* Phase 2: the constructor runs outside the lock.                         *)

\* The constructor resolves its next dependency.
ConstructDep(t) ==
    /\ Running(t, "construct")
    /\ Top(t).next <= Len(Deps[Top(t).key])
    /\ Enter(t, Deps[Top(t).key][Top(t).next])
    /\ UNCHANGED <<exc, stack, owner, waits, stored, built, calls, outcome>>

\* The constructor returns: the memory now holds an instance.
Constructed(t) ==
    /\ Running(t, "construct")
    /\ Top(t).key \in Shared
    /\ Top(t).next > Len(Deps[Top(t).key])
    /\ built' = [built EXCEPT ![Top(t).key] = @ + 1]
    /\ GoTo(t, "store")
    /\ UNCHANGED <<exc, stack, owner, waits, stored, calls, outcome>>

ConstructorThrows(t) ==
    /\ Running(t, "construct")
    /\ Top(t).key \in Throwing
    /\ Throw(t)
    /\ UNCHANGED <<stack, owner, waits, stored, built, calls>>

\* Mutant: a failed construction leaves its entry in materializing_.
AbandonKeepsEntry(t) ==
    /\ Unwinding(t, "construct")
    /\ Top(t).key \in Shared
    /\ stack' = [stack EXCEPT ![t] = Popped(@)]
    /\ GoTo(t, "abandoned")
    /\ UNCHANGED <<exc, owner, waits, stored, built, calls, outcome>>

\* The catch block: the entry is erased and the stack popped under the lock,
\* then, in another step, the waiters are notified and the exception goes on.
Abandon(t) ==
    /\ Unwinding(t, "construct")
    /\ Top(t).key \in Shared
    /\ owner' = [owner EXCEPT ![Top(t).key] = NoThread]
    /\ stack' = [stack EXCEPT ![t] = Popped(@)]
    /\ GoTo(t, "abandoned")
    /\ UNCHANGED <<exc, waits, stored, built, calls, outcome>>

\* Mutant: a failed construction wakes nobody.
AbandonedSilently(t) ==
    /\ Unwinding(t, "abandoned")
    /\ frames' = [frames EXCEPT ![t] = Popped(@)]
    /\ Propagate(t, exc[t])
    /\ UNCHANGED <<stack, owner, waits, stored, built, calls>>

NotifyAbandoned(t) ==
    /\ Unwinding(t, "abandoned")
    /\ frames' = Woken(Reg[Top(t).key], [frames EXCEPT ![t] = Popped(@)])
    /\ Propagate(t, exc[t])
    /\ UNCHANGED <<stack, owner, waits, stored, built, calls>>

-----------------------------------------------------------------------------
(* Phase 3: store under the lock, notify, then hooks outside the lock.     *)

Store(t) ==
    /\ Running(t, "store")
    /\ stored' = stored \union {Top(t).key}
    /\ owner' = [owner EXCEPT ![Top(t).key] = NoThread]
    /\ stack' = [stack EXCEPT ![t] = Popped(@)]
    /\ GoTo(t, "notify")
    /\ UNCHANGED <<exc, waits, built, calls, outcome>>

Notify(t) ==
    /\ Running(t, "notify")
    /\ frames' = Woken(Reg[Top(t).key], Moved(t, "hooks"))
    /\ UNCHANGED <<exc, stack, owner, waits, stored, built, calls, outcome>>

\* onInitialized, postConstruct and onCreated; the hook resolves its beans.
HookDep(t) ==
    /\ Running(t, "hooks")
    /\ Top(t).next <= Len(PostDeps[Top(t).key])
    /\ Enter(t, PostDeps[Top(t).key][Top(t).next])
    /\ UNCHANGED <<exc, stack, owner, waits, stored, built, calls, outcome>>

HooksThrow(t) ==
    /\ Running(t, "hooks")
    /\ Top(t).key \in PostThrowing
    /\ Throw(t)
    /\ UNCHANGED <<stack, owner, waits, stored, built, calls>>

\* Mutant: an exception of a hook pops the stack as one of a constructor does.
HooksLeftPop(t) ==
    /\ Unwinding(t, "hooks")
    /\ Top(t).key \in Shared
    /\ stack[t] # <<>>
    /\ stack' = [stack EXCEPT ![t] = Popped(@)]
    /\ Leave(t, exc[t])
    /\ UNCHANGED <<owner, waits, stored, built, calls>>

\* No cleanup guards the hooks of a shared bean: it stays in its store.
HooksLeft(t) ==
    /\ Unwinding(t, "hooks")
    /\ Top(t).key \in Shared
    /\ Leave(t, exc[t])
    /\ UNCHANGED <<stack, owner, waits, stored, built, calls>>

HooksDone(t) ==
    /\ Running(t, "hooks")
    /\ Top(t).key \in Shared
    /\ Top(t).next > Len(PostDeps[Top(t).key])
    /\ Return(t)
    /\ UNCHANGED <<stack, owner, waits, stored, built, calls>>

-----------------------------------------------------------------------------
(* Prototypes: a CycleGuard keeps the descriptor on the stack until the    *)
(* whole materialization returns or throws; nothing is claimed.            *)

PrototypeGuard(t) ==
    /\ Running(t, "find")
    /\ Top(t).key \in Prototypes
    /\ ~OnStack(t, Top(t).key)
    /\ stack' = [stack EXCEPT ![t] = Append(@, Desc[Top(t).key])]
    /\ GoTo(t, "construct")
    /\ UNCHANGED <<exc, owner, waits, stored, built, calls, outcome>>

PrototypeCycle(t) ==
    /\ Running(t, "find")
    /\ Top(t).key \in Prototypes
    /\ OnStack(t, Top(t).key)
    /\ Leave(t, "cycle")
    /\ UNCHANGED <<stack, owner, waits, stored, built, calls>>

\* Mutant: a prototype is kept like a shared bean.
PrototypeKept(t) ==
    /\ Running(t, "construct")
    /\ Top(t).key \in Prototypes
    /\ Top(t).next > Len(Deps[Top(t).key])
    /\ GoTo(t, "store")
    /\ UNCHANGED <<exc, stack, owner, waits, stored, built, calls, outcome>>

PrototypeConstructed(t) ==
    /\ Running(t, "construct")
    /\ Top(t).key \in Prototypes
    /\ Top(t).next > Len(Deps[Top(t).key])
    /\ GoTo(t, "hooks")
    /\ UNCHANGED <<exc, stack, owner, waits, stored, built, calls, outcome>>

PrototypeDone(t) ==
    /\ Running(t, "hooks")
    /\ Top(t).key \in Prototypes
    /\ Top(t).next > Len(PostDeps[Top(t).key])
    /\ stack' = [stack EXCEPT ![t] = Popped(@)]
    /\ Return(t)
    /\ UNCHANGED <<owner, waits, stored, built, calls>>

PrototypeLeft(t) ==
    /\ Unwinding(t, "construct") \/ Unwinding(t, "hooks")
    /\ Top(t).key \in Prototypes
    /\ stack' = [stack EXCEPT ![t] = Popped(@)]
    /\ Leave(t, exc[t])
    /\ UNCHANGED <<owner, waits, stored, built, calls>>

-----------------------------------------------------------------------------

\* What a thread does by itself once it is inside a resolve.
Step(t) ==
    \/ FindHit(t) \/ FindMiss(t)
    \/ ClaimFound(t) \/ ClaimOwn(t) \/ ClaimWait(t) \/ ClaimCycle(t)
    \/ ConstructDep(t) \/ Constructed(t) \/ ConstructorThrows(t)
    \/ Abandon(t) \/ NotifyAbandoned(t)
    \/ Store(t) \/ Notify(t)
    \/ HookDep(t) \/ HooksThrow(t) \/ HooksLeft(t) \/ HooksDone(t)
    \/ PrototypeGuard(t) \/ PrototypeCycle(t) \/ PrototypeConstructed(t)
    \/ PrototypeDone(t) \/ PrototypeLeft(t)

\* Every thread made all its calls and they returned; without this step the
\* end of a finite run would look like a deadlock.
AllDone ==
    /\ \A t \in Threads : frames[t] = <<>> /\ calls[t] = MaxCalls
    /\ UNCHANGED vars

Next ==
    \/ \E t \in Threads :
        \/ \E k \in Keys : Resolve(t, k)
        \/ Step(t)
        \/ SpuriousWakeup(t)
    \/ AllDone

\* A thread that can run is eventually scheduled; nobody is obliged to call
\* resolve() and no wakeup is promised that the code does not send.
Fairness == \A t \in Threads : WF_vars(Step(t))

Spec == Init /\ [][Next]_vars
FairSpec == Spec /\ Fairness

-----------------------------------------------------------------------------

\* The state is well typed: frames stand where their lifetime allows, owners are threads.
TypeOK ==
    /\ frames \in [Threads -> Seq(Frame)]
    /\ exc \in [Threads -> {"none", "cycle", "user"}]
    /\ stack \in [Threads -> Seq({Desc[k] : k \in Keys})]
    /\ owner \in [Keys -> Threads \union {NoThread}]
    /\ waits \in [Threads -> Keys \union {NoKey}]
    /\ stored \subseteq Shared
    /\ built \in [Keys -> Nat]
    /\ calls \in [Threads -> 0..MaxCalls]
    /\ outcome \in [Threads -> [key : Keys \union {NoKey},
                                 result : {"none", "ok", "cycle", "user"}]]

\* A frame that has claimed its key and not yet stored or abandoned it.
Holds(f) == f.at \in {"construct", "store"} /\ f.key \in Shared

\* Each shared key is constructed at most once, by whichever thread and however
\* the claims, failures and wakeups interleave, and a stored key has exactly
\* the one instance that was stored (the claim protocol of materializing_).
AtMostOneInstance ==
    \A k \in Shared : built[k] <= 1 /\ (k \in stored => built[k] = 1)

\* materializing_ names exactly the threads with a construction in progress:
\* an entry is never left behind by an exception or taken by a second thread.
ClaimsMatchFrames ==
    \A k \in Shared, t \in Threads :
        owner[k] = t <=> \E i \in 1..Len(frames[t]) :
                            frames[t][i].key = k /\ Holds(frames[t][i])

\* The per-thread stack holds one entry for each construction (and each whole
\* prototype materialization) in progress, innermost last: no pop_back() of an
\* error path removes an entry of another frame.
OnStackFrame(f) ==
    IF f.key \in Prototypes THEN f.at \in {"construct", "hooks"} ELSE Holds(f)
StackMirrorsFrames ==
    \A t \in Threads :
        \E pos \in [1..Len(stack[t]) -> 1..Len(frames[t])] :
            /\ \A m, n \in 1..Len(stack[t]) : m < n => pos[m] < pos[n]
            /\ \A n \in 1..Len(stack[t]) : stack[t][n] = Desc[frames[t][pos[n]].key]
            /\ \A i \in 1..Len(frames[t]) :
                OnStackFrame(frames[t][i]) <=> \E n \in 1..Len(stack[t]) : pos[n] = i

\* No set of threads is blocked on one another: materializationWaitCycleDetected
\* refuses the wait that would close a cycle, in time and along chains of any
\* length.
NoWaitCycle ==
    \A S \in (SUBSET Threads) \ {{}} :
        \E t \in S : \/ frames[t] = <<>>
                     \/ Top(t).at # "waiting"
                     \/ owner[Top(t).key] \notin S \ {t}

\* Keys from which a cycle of the given resolve relation can be reached.
ReachesCycle(R(_)) ==
    UNION {C \in SUBSET Keys : \A k \in C : R(k) \cap C # {}}

CtorDeps(k) == {Deps[k][i] : i \in 1..Len(Deps[k])}
AllDeps(k) == CtorDeps(k) \union {PostDeps[k][i] : i \in 1..Len(PostDeps[k])}

\* A bean whose constructor needs, directly or not, a cycle of constructors is
\* never published, by any race of threads.
CyclicNeverStored == stored \cap ReachesCycle(CtorDeps) = {}

\* A dependency-cycle ResolutionError is reported only to a call whose beans
\* really reach a cycle: waiting on another thread's construction, or finding a
\* stale wait slot, is never mistaken for one.
CycleErrorsAreReal ==
    \A t \in Threads :
        outcome[t].result = "cycle" => outcome[t].key \in ReachesCycle(AllDeps)

\* When a bean is visible in its store, so are the shared beans injected in it.
DepsStoredFirst ==
    \A k \in stored : CtorDeps(k) \subseteq stored \union Prototypes

\* Every resolve() returns or throws: whoever waits for another thread's
\* construction is woken when it ends, well or badly.
EveryCallEnds == \A t \in Threads : frames[t] # <<>> ~> frames[t] = <<>>

-----------------------------------------------------------------------------
(* Refinement of SharedBeans.                                              *)

\* Keys from which a key of S can be reached.
Reaching(S) ==
    {k \in Keys : \A X \in SUBSET Keys :
        S \subseteq X /\ (\A q \in Keys : AllDeps(q) \cap X # {} => q \in X) => k \in X}

Beans == INSTANCE SharedBeans WITH
    Needs   <- [k \in Keys |-> CtorDeps(k)],
    MayFail <- ReachesCycle(AllDeps) \union Reaching(Throwing \union PostThrowing),
    Idle    <- NoKey,
    present <- stored,
    call    <- [t \in Threads |-> IF frames[t] = <<>> THEN NoKey ELSE frames[t][1].key],
    answer  <- [t \in Threads |-> CASE outcome[t].result = "none" -> "none"
                                    [] outcome[t].result = "ok" -> "bean"
                                    [] OTHER -> "error"]

\* The claim protocol keeps the promise of resolve(): once, in dependency order,
\* answered only with an existing bean, refused only for a reachable cause.
ImplementsSharedBeans == Beans!Spec
=============================================================================
