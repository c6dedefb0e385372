---------------------------- MODULE ThreadLocal ----------------------------
(***************************************************************************)
(* Thread-local beans of one registry: each thread's TLData and TLCleanup, *)
(* the registry's list of the threads to sweep, what a thread's exit and   *)
(* Registry::stop destroy, and the tokens by which threads are known to    *)
(* the wait graph.                                                         *)
(*                                                                         *)
(* TLData and TLCleanup are thread_local objects: each is made at its      *)
(* first use, and they are destroyed in the opposite order.  A handle used *)
(* later on its thread finds the empty maps of a destroyed TLData; what    *)
(* stop() reads through its list of a thread that is gone is undefined     *)
(* (here: nothing), and ListedHaveData says when it does.                  *)
(***************************************************************************)
EXTENDS Naturals, Sequences, FiniteSets, SequencesExt

CONSTANTS
    Threads,
    Main,           \* the thread that owns the context
    Beans,          \* the primary descriptors of thread-local beans
    Uses,           \* Uses[b]: thread-local beans injected in b, which its hooks call
    MaxLocal        \* bound: thread-local instances over the whole run

VARIABLES
    thread,     \* of each thread: its state and the thread_local objects it made, in order
    registered, \* threads whose TLCleanup.registered names the registry
    order,      \* TLData: the thread's instances, oldest first
    stores,     \* tlThreadStores_
    local,      \* every thread-local instance so far
    todo,       \* what the thread has collected and not yet destroyed
    token,      \* TLCleanup.materializationThreadToken, 0 for none
    free,       \* freeMaterializationThreadTokens_
    next        \* nextMaterializationThreadToken_

vars == <<thread, registered, order, stores, local, todo, token, free, next>>
tokens == <<token, free, next>>

Init ==
    /\ thread = [t \in Threads |-> [state |-> IF t = Main THEN "running" ELSE "new", made |-> <<>>]]
    /\ registered = {} /\ stores = <<>>
    /\ order = [t \in Threads |-> <<>>]
    /\ local = <<>>
    /\ todo = [t \in Threads |-> <<>>]
    /\ token = [t \in Threads |-> 0] /\ free = <<>> /\ next = 0

-----------------------------------------------------------------------------

Has(made, o) == \E n \in 1..Len(made) : made[n] = o
\* The first use makes the object.
Using(made, o) == IF Has(made, o) THEN made ELSE Append(made, o)

Running(t) == thread[t].state = "running"
Listed(t) == \E n \in 1..Len(stores) : stores[n] = t

FindInstance(t, b) == {i \in 1..Len(local) : local[i].bean = b /\ \E n \in 1..Len(order[t]) : order[t][n] = i}

StoreInstance(t, i) == order' = [order EXCEPT ![t] = Append(@, i)]

Spawn(t) ==
    /\ thread[t].state = "new"
    /\ thread' = [thread EXCEPT ![t].state = "running"]
    /\ UNCHANGED <<registered, order, stores, local, todo, tokens>>

\* Mutant: the TLCleanup knows of the registry, the registry not of the thread.
RegisterHalf(t) ==
    /\ thread' = [thread EXCEPT ![t].made = Using(Using(@, "data"), "cleanup")]
    /\ registered' = registered \union {t}
    /\ stores' = stores

\* First touch: the thread is listed for stop(), unless its TLCleanup already
\* knows of the registry.
Register(t) ==
    /\ thread' = [thread EXCEPT ![t].made = Using(Using(@, "data"), "cleanup")]
    /\ registered' = registered \union {t}
    /\ stores' = IF t \in registered THEN stores ELSE Append(stores, t)

\* Mutant: the instance is kept with the thread's, but not looked up first.
TouchTwice(t, b) ==
    /\ Len(local) < MaxLocal
    /\ Register(t)
    /\ local' = Append(local, [bean |-> b, thread |-> t, life |-> "made", listed |-> TRUE])
    /\ StoreInstance(t, Len(local) + 1)
    /\ UNCHANGED <<todo, tokens>>

\* materializeThreadLocalInstance(), from resolve() or operator-> on this
\* thread; the constructor's own dependencies were touched before.  A hook that
\* throws leaves the instance stored.
Touch(t, b) ==
    /\ FindInstance(t, b) = {} /\ Len(local) < MaxLocal
    /\ \A u \in Uses[b] : FindInstance(t, u) # {}
    /\ Register(t)
    /\ local' = Append(local, [bean |-> b, thread |-> t, life |-> "made",
                               listed |-> Listed(t) \/ t \notin registered])
    /\ StoreInstance(t, Len(local) + 1)
    /\ UNCHANGED <<todo, tokens>>

\* The constructor throws: the thread stays registered.
TouchThrows(t, b) ==
    /\ FindInstance(t, b) = {}
    /\ t \notin registered
    /\ Register(t)
    /\ UNCHANGED <<order, local, todo, tokens>>

-----------------------------------------------------------------------------
(* claimMaterializationOrWait() of a singleton or session bean: the thread *)
(* gets a token, and its TLCleanup knows of the registry from now on.      *)

\* Mutant: the token is not taken off the free list.
TakeTokenAgain(t) ==
    IF token[t] # 0 THEN UNCHANGED tokens
    ELSE IF free # <<>>
    THEN token' = [token EXCEPT ![t] = Last(free)] /\ UNCHANGED <<free, next>>
    ELSE token' = [token EXCEPT ![t] = next + 1] /\ next' = next + 1 /\ UNCHANGED free

TakeToken(t) ==
    IF token[t] # 0 THEN UNCHANGED tokens
    ELSE IF free # <<>>
    THEN token' = [token EXCEPT ![t] = Last(free)] /\ free' = Front(free) /\ UNCHANGED next
    ELSE token' = [token EXCEPT ![t] = next + 1] /\ next' = next + 1 /\ UNCHANGED free

Claim(t) ==
    /\ TakeToken(t)
    /\ thread' = [thread EXCEPT ![t].made = Using(@, "cleanup")]
    /\ registered' = registered \union {t}
    /\ UNCHANGED <<order, stores, local, todo>>

-----------------------------------------------------------------------------
(* Destruction.                                                            *)

Destroyed(i) == [local EXCEPT ![i].life = IF @ = "made" THEN "destroyed" ELSE "corrupt"]

DestroyNext(t) ==
    /\ todo[t] # <<>>
    /\ local' = Destroyed(Head(todo[t]))
    /\ todo' = [todo EXCEPT ![t] = Tail(@)]
    /\ UNCHANGED <<thread, registered, order, stores, tokens>>

\* The preDestroy hook of the next instance calls a bean injected in it.  The
\* handle looks in the TLData of the thread it is used on, where nothing is left.
HookTouches(t) ==
    /\ todo[t] # <<>>
    /\ \E b \in Uses[local[Head(todo[t])].bean] : Touch(t, b)

ExitBegins(t) ==
    /\ Running(t)
    /\ thread' = [thread EXCEPT ![t].state = "exiting"]
    /\ UNCHANGED <<registered, order, stores, local, todo, tokens>>

Exiting(t, o) == thread[t].state = "exiting" /\ thread[t].made # <<>> /\ Last(thread[t].made) = o

\* Mutant: the thread stays on the registry's list with its instances.
CleanupKeeps(t) ==
    /\ todo' = [todo EXCEPT ![t] = Reverse(order[t])]
    /\ UNCHANGED <<order, stores>>

\* cleanupCurrentThread(): collect, and leave the registry's list.
CleanupCurrentThread(t) ==
    /\ todo' = [todo EXCEPT ![t] = Reverse(order[t])]
    /\ order' = [order EXCEPT ![t] = <<>>]
    /\ stores' = FlattenSeq([n \in 1..Len(stores) |-> IF stores[n] = t THEN <<>> ELSE <<stores[n]>>])

\* ~TLCleanup starts; alive is whether the registry still is.
ExitCleans(t, alive) ==
    /\ Exiting(t, "cleanup")
    /\ thread' = [thread EXCEPT ![t].state = "cleaning"]
    /\ IF alive /\ t \in registered /\ order[t] # <<>> THEN CleanupCurrentThread(t)
       ELSE UNCHANGED <<todo, order, stores>>
    /\ UNCHANGED <<registered, local, tokens>>

\* ~TLCleanup ends: the token goes back.
ExitCleaned(t) ==
    /\ thread[t].state = "cleaning" /\ todo[t] = <<>>
    /\ thread' = [thread EXCEPT ![t].state = "exiting", ![t].made = Front(@)]
    /\ token' = [token EXCEPT ![t] = 0]
    /\ free' = IF token[t] = 0 THEN free ELSE Append(free, token[t])
    /\ UNCHANGED <<registered, order, stores, local, todo, next>>

\* ~TLData: the pointers are forgotten.
ExitForgets(t) ==
    /\ Exiting(t, "data")
    /\ thread' = [thread EXCEPT ![t].made = Front(@)]
    /\ order' = [order EXCEPT ![t] = <<>>]
    /\ UNCHANGED <<registered, stores, local, todo, tokens>>

ExitDone(t) ==
    /\ thread[t].state = "exiting" /\ thread[t].made = <<>>
    /\ thread' = [thread EXCEPT ![t].state = "gone"]
    /\ UNCHANGED <<registered, order, stores, local, todo, tokens>>

\* Registry::stop, after the registry's own beans: the instances of the listed
\* threads, collected under the mutex and destroyed on the thread that stops.
Sweep ==
    /\ todo' = [todo EXCEPT ![Main] = Reverse(FlattenSeq([n \in 1..Len(stores) |-> order[stores[n]]]))]
    /\ order' = [t \in Threads |-> IF Listed(t) THEN <<>> ELSE order[t]]
    /\ stores' = <<>>
    /\ UNCHANGED <<thread, registered, local, tokens>>

-----------------------------------------------------------------------------

\* The threads' state is well typed; no instance was destroyed twice.
TypeOK ==
    /\ thread \in [Threads -> [state : {"new", "running", "exiting", "cleaning", "gone"},
                               made : {<<>>, <<"data">>, <<"cleanup">>, <<"data", "cleanup">>,
                                       <<"cleanup", "data">>}]]
    /\ registered \subseteq Threads
    /\ order \in [Threads -> Seq(1..Len(local))] /\ todo \in [Threads -> Seq(1..Len(local))]
    /\ stores \in Seq(Threads)
    /\ local \in Seq([bean : Beans, thread : Threads, life : {"made", "destroyed"}, listed : BOOLEAN])
    /\ Len(local) <= MaxLocal
    /\ token \in [Threads -> 0..next] /\ free \in Seq(1..next) /\ next \in Nat

\* The instance a thread finds is its own, alive, the only one of its bean on
\* that thread, and not one that an exit or stop() is about to destroy.
FoundIsOwn ==
    \A t \in Threads : \A n \in 1..Len(order[t]) :
        LET i == order[t][n]
        IN  /\ local[i].thread = t /\ local[i].life = "made"
            /\ FindInstance(t, local[i].bean) = {i}
            /\ \A u \in Threads : i \notin Range(todo[u])

\* Every instance of a listed thread that stop() or the thread's exit had to
\* destroy is destroyed, or is about to be by one of the two, and not by both.
\* (Not so the instances of a thread that materialized a shared bean before its
\* first thread-local one: that thread is never listed.)
ListedAreDestroyed ==
    \A i \in 1..Len(local) :
        local[i].life = "made" /\ local[i].listed =>
            \/ /\ i \in Range(order[local[i].thread])
               /\ Listed(local[i].thread)
            \/ Cardinality({t \in Threads : i \in Range(todo[t])}) = 1

\* The TLData of every thread that stop() would read still exists.
ListedHaveData == \A n \in 1..Len(stores) : Has(thread[stores[n]].made, "data")

\* Threads are told apart in the wait graph: a token belongs to one thread or to
\* the free list, once.
TokensDistinct ==
    /\ \A t, u \in Threads : t # u /\ token[t] # 0 => token[t] # token[u]
    /\ \A t \in Threads : token[t] \notin Range(free)
    /\ IsInjective(free)
=============================================================================
