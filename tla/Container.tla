----------------------------- MODULE Container -----------------------------
(***************************************************************************)
(* A context and the threads that use it: Lifecycle and ThreadLocal        *)
(* together.  They meet where a singleton is claimed (the thread's         *)
(* TLCleanup then knows of the registry), where stop() sweeps the          *)
(* thread-locals after its own beans, and where the registry's end is seen *)
(* by a thread that exits.                                                 *)
(***************************************************************************)
EXTENDS Lifecycle

CONSTANTS Threads, Main, Beans, Uses, MaxLocal

ASSUME ContainerConstants ==
    /\ Main \in Threads
    /\ Uses \in [Beans -> SUBSET Beans]
    /\ MaxLocal \in Nat
    /\ \A p \in Catalogs : Main \notin p.threads

VARIABLES thread, registered, order, stores, local, todo, token, free, next

TL == INSTANCE ThreadLocal

tlVars == <<thread, registered, order, stores, local, todo, token, free, next>>
allVars == <<vars, tlVars>>

ContainerInit == Init /\ TL!Init

-----------------------------------------------------------------------------

\* A thread may call the context: its owner from user code, the others while
\* nobody starts or stops it.
Calls(t) ==
    /\ started /\ phase = "live" /\ thread[t].state = "running"
    /\ IF t = Main THEN UserCode ELSE InUse

\* The thread-local beans that can be resolved; an alias stands for its primary.
Locals ==
    {descs[Primary(d)].type : d \in {e \in 1..Len(descs) : descs[e].life = "threadLocal"}}

ClaimByOwner == Claims /\ TL!Claim(Main)

OwnerAlone == Others /\ UNCHANGED tlVars

\* Another thread materializes a singleton or a session bean.
ClaimByOther(t) == t # Main /\ Calls(t) /\ token[t] = 0 /\ TL!Claim(t) /\ UNCHANGED vars

TouchLocal(t, b) ==
    /\ Calls(t) /\ b \in Locals
    /\ TL!Touch(t, b) \/ ("local" \in cat.throws /\ TL!TouchThrows(t, b))
    /\ UNCHANGED vars

StopCollects == StopSweeps /\ TL!Sweep

SweepStep ==
    /\ In("stop", "sweeping")
    /\ TL!DestroyNext(Main) \/ TL!HookTouches(Main)
    /\ UNCHANGED vars

StopReturns == todo[Main] = <<>> /\ Stopped /\ UNCHANGED tlVars

\* A thread that cleans up holds the registry.
RegistryEnds ==
    /\ \A t \in Threads : thread[t].state = "cleaning" => todo[t] = <<>>
    /\ DestroyRegistry
    /\ UNCHANGED tlVars

\* Threads other than the owner come and go at any time, also while it stops.
OtherThread(t) ==
    /\ t \in cat.threads
    /\ \/ TL!Spawn(t) \/ TL!ExitBegins(t) \/ TL!ExitCleans(t, phase # "dead")
       \/ thread[t].state = "cleaning" /\ (TL!DestroyNext(t) \/ TL!HookTouches(t))
       \/ TL!ExitCleaned(t) \/ TL!ExitForgets(t) \/ TL!ExitDone(t)
    /\ UNCHANGED vars

Next ==
    \/ ClaimByOwner \/ OwnerAlone \/ StopCollects \/ SweepStep \/ StopReturns \/ RegistryEnds
    \/ \E t \in Threads : ClaimByOther(t) \/ OtherThread(t)
    \/ \E t \in Threads, b \in Beans : TouchLocal(t, b)

Spec == ContainerInit /\ [][Next]_allVars

-----------------------------------------------------------------------------

\* Every variable of the registry and of the threads has its type: no descriptor is
\* stored twice (order is injective), no thread-local instance destroyed twice.
ContainerTypeOK == TypeOK /\ TL!TypeOK

\* A thread finds its own live thread-local instance or none.
LocalIsOwn == TL!FoundIsOwn

\* While there is a registry, exit and stop() destroy each thread-local instance
\* of a listed thread, and only one of them does.
LocalsDestroyed == phase # "dead" => TL!ListedAreDestroyed

\* Tokens tell the threads of the wait graph apart.
TokensDistinct == TL!TokensDistinct

\* "root.stop() destroys all remaining thread-local instances from threads still
\* alive at that point" (guides/guide-12-advanced.md).
StopDestroysLocals ==
    phase = "stopped" => \A i \in 1..Len(local) :
        local[i].life = "made" => thread[local[i].thread].state # "running"

\* "worker.join(); // all threads done / context.stop(); // safe: no concurrent TL
\* access" (guides/guide-12-advanced.md).  Whenever its owner may call stop(), the
\* TLData of every thread on the list that stop() reads is still there: a thread
\* that ended is not on it, whatever its thread-local constructors did.
SweepReadsLive == started /\ Idle => TL!ListedHaveData
=============================================================================
