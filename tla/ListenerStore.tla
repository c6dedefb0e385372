---------------------------- MODULE ListenerStore ----------------------------
(***************************************************************************)
(* Lifecycle listeners: registration before and after start(), removal,    *)
(* and the lock-free dispatch of events from a copy-on-write view that is  *)
(* protected by hazard slots (ListenerStore.hpp, with BeanContext::on,     *)
(* flushDeferredListeners_ and ListenerHandle::remove).                    *)
(*                                                                         *)
(* One lifecycle phase is modelled: the four keep separate lists, and what *)
(* they share, the view and its reclamation, is all here.  Every caller    *)
(* registers with kInvalidTypeId, so a view is its global list.  A view is *)
(* its number: views[v] is what the memory held when it was published.     *)
(* Callbacks are user code: they may add and remove listeners, resolve     *)
(* beans (which dispatches again), throw or return.                        *)
(***************************************************************************)
EXTENDS HazardSlots, Integers, Sequences, FiniteSets

CONSTANTS
    Admins,         \* the threads that register listeners outside of callbacks
    Listeners,      \* the registrations a run may make, each at most once
    Typed,          \* those made with on<T>: deferred while not started
    Prio,           \* Prio[l]: ListenerOptions::priority
    Scopes,         \* emitter scopes of events
    ScopeOf,        \* ScopeOf[l]: a scope, or AllScopes (kAllScopes)
    Kept,           \* listeners whose handle somebody kept to remove them
    Throwing,       \* listeners whose callback may throw
    MaxEvents,      \* bound: events dispatched by a thread
    MaxDepth,       \* bound: dispatches of one thread inside one another
    AllScopes

ASSUME ListenerConstants ==
    /\ Admins \subseteq Threads
    /\ Typed \subseteq Listeners /\ Kept \subseteq Listeners /\ Throwing \subseteq Listeners
    /\ Prio \in [Listeners -> Int]
    /\ ScopeOf \in [Listeners -> Scopes \union {AllScopes}]
    /\ MaxEvents \in Nat /\ MaxDepth \in Nat \ {0}
    /\ None \notin Listeners

VARIABLES
    context,    \* of the root context: configured, starting, started, stopped
    deferred,   \* deferredListeners_
    late,       \* history: listeners that were deferred
    entries,    \* phases_[p]; its length is phaseSizes_[p]
    token,      \* token[l]: the token of a registered listener, or None
    nextToken,  \* nextToken_
    views,      \* every view published so far
    cur,        \* view_: number of the published view, 0 for nullptr
    retired,    \* allViews_
    freed,      \* views whose memory is gone
    hazard,     \* hazardViews_: per slot, a view or 0
    mutex,      \* mutex_: its owner or None
    disp,       \* per thread, the dispatch() calls in progress, outermost first
    edit,       \* per thread, the registration call in progress
    removed,    \* listeners whose removal reached the master list
    missed,     \* listeners for which remove() found nothing to remove
    events      \* per thread, events dispatched so far

vars == <<context, deferred, late, entries, token, nextToken, views, cur, retired, freed,
          hazard, slotVars, mutex, disp, edit, removed, missed, events>>

registry == <<context, deferred, late, entries, token, nextToken, removed, missed>>
viewVars == <<views, cur, retired, freed>>

Idle == [op |-> "idle", lis |-> None, view |-> 0, pos |-> 0, count |-> 0]
Edit(op, l) == [op |-> op, lis |-> l, view |-> 0, pos |-> 0, count |-> 0]

Init ==
    /\ context = "configured"
    /\ deferred = <<>> /\ late = {}
    /\ entries = <<>>
    /\ token = [l \in Listeners |-> None] /\ nextToken = 0
    /\ views = <<>> /\ cur = 0 /\ retired = {} /\ freed = {}
    /\ hazard = [s \in Slots |-> 0]
    /\ SlotInit
    /\ mutex = None
    /\ disp = [t \in Threads |-> <<>>]
    /\ edit = [t \in Threads |-> Idle]
    /\ removed = {} /\ missed = {}
    /\ events = [t \in Threads |-> 0]

-----------------------------------------------------------------------------

Top(t) == disp[t][Len(disp[t])]
\* t is in a dispatch, at op, and in no registration call made by a callback.
At(t, op) == edit[t].op = "idle" /\ disp[t] # <<>> /\ Top(t).op = op
Goto(t, f) == disp' = [disp EXCEPT ![t][Len(disp[t])] = f]
Step(t, op) == Goto(t, [Top(t) EXCEPT !.op = op])
Finish(t) == disp' = [disp EXCEPT ![t] = SubSeq(@, 1, Len(@) - 1)]

\* User code of thread t is running: outside the container or in a callback.
UserCode(t) ==
    /\ edit[t].op = "idle" /\ stage[t] = "idle"
    /\ disp[t] # <<>> => Top(t).op = "call"
Registers(t) == UserCode(t) /\ (disp[t] = <<>> => t \in Admins)

Editing(t, op) == edit[t].op = op
EditStep(t, op) == edit' = [edit EXCEPT ![t].op = op]

-----------------------------------------------------------------------------
(* Registration calls.  Each takes mutex_, changes the master list,        *)
(* publishes a view and reclaims, in steps that dispatchers interleave     *)
(* with.                                                                   *)

\* on<T>() before start(): only a token is reserved.
OnDeferred(t, l) ==
    /\ Registers(t)
    /\ context = "configured"
    /\ l \in Typed /\ token[l] = None
    /\ mutex = None
    /\ token' = [token EXCEPT ![l] = nextToken]
    /\ nextToken' = nextToken + 1
    /\ deferred' = Append(deferred, l)
    /\ late' = late \union {l}
    /\ UNCHANGED <<context, entries, viewVars, hazard, slotVars, mutex, disp, edit, removed,
                   missed, events>>

On(t, l) ==
    /\ Registers(t)
    /\ \/ context = "configured" /\ l \notin Typed
       \/ context \in {"starting", "started"}
    /\ token[l] = None
    /\ \A u \in Threads : edit[u].lis # l
    /\ edit' = [edit EXCEPT ![t] = Edit("add", l)]
    /\ UNCHANGED <<registry, viewVars, hazard, slotVars, mutex, disp, events>>

\* ListenerHandle::remove(): the caller has the handle that on() returned.
Remove(t, l) ==
    /\ Registers(t)
    /\ context # "stopped"
    /\ l \in Kept /\ token[l] # None
    /\ l \notin removed \union missed
    /\ \A u \in Threads : edit[u].lis # l
    /\ edit' = [edit EXCEPT ![t] = Edit("remove", l)]
    /\ UNCHANGED <<registry, viewVars, hazard, slotVars, mutex, disp, events>>

\* Mutant: an entry goes in front of those of its own priority.
InsertSortedFirst(l) ==
    LET n == Cardinality({i \in 1..Len(entries) : Prio[entries[i]] > Prio[l]})
    IN  SubSeq(entries, 1, n) \o <<l>> \o SubSeq(entries, n + 1, Len(entries))

\* push_back, upper_bound and rotate: behind every entry of the same or a
\* higher priority.
InsertSorted(l) ==
    LET n == Cardinality({i \in 1..Len(entries) : Prio[entries[i]] >= Prio[l]})
    IN  SubSeq(entries, 1, n) \o <<l>> \o SubSeq(entries, n + 1, Len(entries))

AddEntry(t) ==
    /\ Editing(t, "add")
    /\ mutex = None
    /\ mutex' = t
    /\ token' = [token EXCEPT ![edit[t].lis] = nextToken]
    /\ nextToken' = nextToken + 1
    /\ entries' = InsertSorted(edit[t].lis)
    /\ EditStep(t, "publish")
    /\ UNCHANGED <<context, deferred, late, removed, missed, viewVars, hazard, slotVars, disp,
                   events>>

\* vector::erase.
Without(s, i) == SubSeq(s, 1, i - 1) \o SubSeq(s, i + 1, Len(s))

\* Mutant: the entry is deleted and no view built without it.
RemoveByTokenOnly(t) ==
    /\ Editing(t, "remove")
    /\ mutex = None
    /\ \E i \in 1..Len(entries) : entries[i] = edit[t].lis /\ entries' = Without(entries, i)
    /\ removed' = removed \union {edit[t].lis}
    /\ mutex' = t
    /\ EditStep(t, "unlock")
    /\ UNCHANGED <<context, deferred, late, token, nextToken, missed, viewVars, hazard,
                   slotVars, disp, events>>

\* removeByToken: nothing happens if the token is not in a list.
RemoveByToken(t) ==
    /\ Editing(t, "remove")
    /\ mutex = None
    /\ LET l == edit[t].lis IN
        \/ /\ \E i \in 1..Len(entries) : entries[i] = l /\ entries' = Without(entries, i)
           /\ removed' = removed \union {l}
           /\ mutex' = t
           /\ EditStep(t, "publish")
           /\ UNCHANGED missed
        \/ /\ \A i \in 1..Len(entries) : entries[i] # l
           /\ missed' = missed \union {l}
           /\ edit' = [edit EXCEPT ![t] = Idle]
           /\ UNCHANGED <<entries, removed, mutex>>
    /\ UNCHANGED <<context, deferred, late, token, nextToken, viewVars, hazard, slotVars, disp,
                   events>>

\* BeanContext::start() with nothing else running: the registry is started, then
\* flushDeferredListeners_ inserts the deferred listeners one by one.
Start(t) ==
    /\ context = "configured"
    /\ \A u \in Threads : disp[u] = <<>> /\ edit[u].op = "idle" /\ stage[u] = "idle"
    /\ context' = IF deferred = <<>> THEN "started" ELSE "starting"
    /\ edit' = IF deferred = <<>> THEN edit ELSE [edit EXCEPT ![t] = Edit("flush", None)]
    /\ UNCHANGED <<deferred, late, entries, token, nextToken, removed, missed, viewVars, hazard,
                   slotVars, mutex, disp, events>>

\* Every context has its own list and flushes it from the front: the root's comes
\* first, then the scopes' in the order of an unordered map.
NextDeferred(i) ==
    /\ \A j \in 1..(i - 1) : ScopeOf[deferred[j]] # ScopeOf[deferred[i]]
    /\ \/ ScopeOf[deferred[i]] = AllScopes
       \/ \A j \in 1..Len(deferred) : ScopeOf[deferred[j]] # AllScopes

AddListenerDeferred(t) ==
    /\ Editing(t, "flush")
    /\ mutex = None
    /\ \E i \in 1..Len(deferred) :
        /\ NextDeferred(i)
        /\ entries' = InsertSorted(deferred[i])
        /\ deferred' = Without(deferred, i)
    /\ UNCHANGED <<context, late, token, nextToken, removed, missed, viewVars, hazard, slotVars,
                   mutex, disp, edit, events>>

FinalizeListeners(t) ==
    /\ Editing(t, "flush")
    /\ deferred = <<>>
    /\ mutex = None
    /\ mutex' = t
    /\ context' = "started"
    /\ EditStep(t, "publish")
    /\ UNCHANGED <<deferred, late, entries, token, nextToken, removed, missed, viewVars, hazard,
                   slotVars, disp, events>>

\* clear(), from Registry::stop(), while other threads may still dispatch.
Clear(t) ==
    /\ context = "started"
    /\ disp[t] = <<>> /\ edit[t].op = "idle" /\ stage[t] = "idle"
    /\ mutex = None
    /\ mutex' = t
    /\ context' = "stopped"
    /\ removed' = removed \union {entries[i] : i \in 1..Len(entries)}
    /\ entries' = <<>>
    /\ edit' = [edit EXCEPT ![t] = Edit("unpublish", None)]
    /\ UNCHANGED <<deferred, late, token, nextToken, missed, viewVars, hazard, slotVars, disp,
                   events>>

\* reclaimRetiredViews_ goes through the retired views, oldest first: the one
\* after view v is examined next, or the scan is over.
ScanFrom(t, vs, v) ==
    LET rest == {w \in vs : w > v} IN
    edit' = [edit EXCEPT ![t] =
        IF rest = {} THEN [@ EXCEPT !.op = "unlock", !.view = 0, !.pos = 0, !.count = 0]
        ELSE [@ EXCEPT !.op = "count", !.pos = 0, !.count = 0,
                       !.view = CHOOSE w \in rest : \A x \in rest : w <= x]]

\* The view in cur is replaced by v and retired.
Replace(t, v) ==
    /\ cur' = v
    /\ retired' = IF cur = 0 THEN retired ELSE retired \union {cur}
    /\ ScanFrom(t, retired', 0)

\* rebuildView_: the new view is stored before the scan starts.
RebuildView(t) ==
    /\ Editing(t, "publish")
    /\ views' = Append(views, entries)
    /\ Replace(t, Len(views) + 1)
    /\ UNCHANGED <<registry, freed, hazard, slotVars, mutex, disp, events>>

Unpublish(t) ==
    /\ Editing(t, "unpublish")
    /\ Replace(t, 0)
    /\ UNCHANGED <<registry, views, freed, hazard, slotVars, mutex, disp, events>>

\* hazardReferences_ for the retired view edit[t].view: the number of slots is
\* loaded once, then edit[t].pos is the slot looked at.
LoadCount(t) ==
    /\ Editing(t, "count")
    /\ edit' = [edit EXCEPT ![t].op = "scan", ![t].count = published]
    /\ UNCHANGED <<registry, viewVars, hazard, slotVars, mutex, disp, events>>

ScanSlot(t) ==
    /\ Editing(t, "scan")
    /\ edit[t].pos < edit[t].count
    /\ IF hazard[edit[t].pos] = edit[t].view
       THEN ScanFrom(t, retired, edit[t].view)
       ELSE edit' = [edit EXCEPT ![t].pos = @ + 1]
    /\ UNCHANGED <<registry, viewVars, hazard, slotVars, mutex, disp, events>>

\* Mutant: a view that no slot protects is not erased.
FreeViewNever(t) ==
    /\ Editing(t, "scan")
    /\ edit[t].pos >= edit[t].count
    /\ ScanFrom(t, retired, edit[t].view)
    /\ UNCHANGED <<registry, viewVars, hazard, slotVars, mutex, disp, events>>

FreeView(t) ==
    /\ Editing(t, "scan")
    /\ edit[t].pos >= edit[t].count
    /\ retired' = retired \ {edit[t].view}
    /\ freed' = freed \union {edit[t].view}
    /\ ScanFrom(t, retired, edit[t].view)
    /\ UNCHANGED <<registry, views, cur, hazard, slotVars, mutex, disp, events>>

Unlock(t) ==
    /\ Editing(t, "unlock")
    /\ mutex' = None
    /\ edit' = [edit EXCEPT ![t] = Idle]
    /\ UNCHANGED <<registry, viewVars, hazard, slotVars, disp, events>>

-----------------------------------------------------------------------------
(* dispatch().                                                             *)

Contents(v) == IF v = 0 THEN {} ELSE {views[v][i] : i \in 1..Len(views[v])}

\* Removed listeners whose remove() has returned.
Gone == {l \in removed : \A u \in Threads : edit[u].lis # l}

\* A lifecycle event of scope sc, past the test of phaseSizes_.  due and gone
\* only remember, for the properties, who must and who must not hear of it.
Dispatch(t, sc) ==
    /\ UserCode(t)
    /\ context \in {"starting", "started"}
    /\ events[t] < MaxEvents
    /\ Len(disp[t]) < MaxDepth
    /\ entries # <<>>
    /\ events' = [events EXCEPT ![t] = @ + 1]
    /\ disp' = [disp EXCEPT ![t] = Append(@,
            [op |-> IF slot[t] = None THEN "slot" ELSE "load", scope |-> sc, view |-> 0, pos |-> 1, locked |-> FALSE,
             heard |-> <<>>, due |-> Contents(cur), gone |-> Gone])]
    /\ UNCHANGED <<registry, viewVars, hazard, slotVars, mutex, edit>>

\* The first acquire() of a thread's dispatchHazardToken_, in the steps of
\* HazardSlots: when the last is done there is a slot, or the fallback begins.
AcquireSlot(t) ==
    /\ At(t, "slot")
    /\ Acquire(t)
    /\ IF stage'[t] = "idle"
       THEN Step(t, IF slot'[t] = None THEN "lock" ELSE "load")
       ELSE UNCHANGED disp
    /\ UNCHANGED <<registry, viewVars, hazard, mutex, edit, events>>

LoadView(t) ==
    /\ At(t, "load")
    /\ IF cur = 0 THEN Finish(t) ELSE Goto(t, [Top(t) EXCEPT !.view = cur, !.op = "protect"])
    /\ UNCHANGED <<registry, viewVars, hazard, slotVars, mutex, edit, events>>

Protect(t) ==
    /\ At(t, "protect")
    /\ hazard' = [hazard EXCEPT ![slot[t]] = Top(t).view]
    /\ Step(t, "recheck")
    /\ UNCHANGED <<registry, viewVars, slotVars, mutex, edit, events>>

\* Mutant: the view is not loaded again after it was protected.
RecheckSkipped(t) ==
    /\ At(t, "recheck")
    /\ Step(t, "run")
    /\ UNCHANGED <<registry, viewVars, hazard, slotVars, mutex, edit, events>>

Recheck(t) ==
    /\ At(t, "recheck")
    /\ \/ /\ cur = Top(t).view
          /\ Step(t, "run")
          /\ UNCHANGED hazard
       \/ /\ cur \notin {0, Top(t).view}
          /\ Goto(t, [Top(t) EXCEPT !.view = cur, !.op = "protect"])
          /\ UNCHANGED hazard
       \/ /\ cur = 0
          /\ hazard' = [hazard EXCEPT ![slot[t]] = 0]
          /\ Finish(t)
    /\ UNCHANGED <<registry, viewVars, slotVars, mutex, edit, events>>

\* dispatchLocked_: mutex_ is held until the last callback has returned.
DispatchLocked(t) ==
    /\ At(t, "lock")
    /\ mutex = None
    /\ IF cur = 0
       THEN Finish(t) /\ UNCHANGED mutex
       ELSE /\ Goto(t, [Top(t) EXCEPT !.view = cur, !.op = "run", !.locked = TRUE])
            /\ mutex' = t
    /\ UNCHANGED <<registry, viewVars, hazard, slotVars, edit, events>>

\* dispatchFromView_ calls the next listener whose scope matches.
CallNext(t) ==
    /\ At(t, "run")
    /\ LET f == Top(t) IN
        /\ f.pos <= Len(views[f.view])
        /\ LET l == views[f.view][f.pos] IN
            Goto(t, IF ScopeOf[l] \in {AllScopes, f.scope}
                    THEN [f EXCEPT !.op = "call", !.heard = Append(@, l)]
                    ELSE [f EXCEPT !.pos = @ + 1])
    /\ UNCHANGED <<registry, viewVars, hazard, slotVars, mutex, edit, events>>

CallbackReturns(t) ==
    /\ At(t, "call")
    /\ Goto(t, [Top(t) EXCEPT !.op = "run", !.pos = @ + 1])
    /\ UNCHANGED <<registry, viewVars, hazard, slotVars, mutex, edit, events>>

CallbackThrows(t) ==
    /\ At(t, "call")
    /\ Top(t).heard[Len(Top(t).heard)] \in Throwing
    /\ Step(t, "throw")
    /\ UNCHANGED <<registry, viewVars, hazard, slotVars, mutex, edit, events>>

Done(t) == At(t, "run") /\ Top(t).pos > Len(views[Top(t).view])

\* Mutant: an exception skips the release of the mutex.
LeaveThrowing(t) ==
    /\ Done(t) \/ At(t, "throw")
    /\ hazard' = IF Top(t).locked THEN hazard ELSE [hazard EXCEPT ![slot[t]] = 0]
    /\ mutex' = IF Top(t).locked /\ Done(t) THEN None ELSE mutex
    /\ Finish(t)
    /\ UNCHANGED <<registry, viewVars, slotVars, edit, events>>

\* The slot is cleared, or the mutex released, on return and on an exception.
Leave(t) ==
    /\ Done(t) \/ At(t, "throw")
    /\ hazard' = IF Top(t).locked THEN hazard ELSE [hazard EXCEPT ![slot[t]] = 0]
    /\ mutex' = IF Top(t).locked THEN None ELSE mutex
    /\ Finish(t)
    /\ UNCHANGED <<registry, viewVars, slotVars, edit, events>>

\* A thread ends: the destructor of its token recycles the slot.
ThreadExit(t) ==
    /\ disp[t] = <<>> /\ edit[t].op = "idle"
    /\ ReleaseSlot(t)
    /\ UNCHANGED <<registry, viewVars, hazard, mutex, disp, edit, events>>

RecycleSlot(t) ==
    /\ Recycle(t)
    /\ UNCHANGED <<registry, viewVars, hazard, mutex, disp, edit, events>>

-----------------------------------------------------------------------------

\* A thread goes on with the call it is in.
Continue(t) ==
    \/ AddEntry(t) \/ RemoveByToken(t) \/ AddListenerDeferred(t) \/ FinalizeListeners(t)
    \/ RebuildView(t) \/ Unpublish(t) \/ LoadCount(t) \/ ScanSlot(t) \/ FreeView(t)
    \/ Unlock(t)
    \/ AcquireSlot(t) \/ LoadView(t) \/ Protect(t) \/ Recheck(t) \/ DispatchLocked(t)
    \/ CallNext(t) \/ CallbackReturns(t) \/ CallbackThrows(t) \/ Leave(t)
    \/ RecycleSlot(t)

Next ==
    \E t \in Threads :
        \/ \E l \in Listeners : OnDeferred(t, l) \/ On(t, l) \/ Remove(t, l)
        \/ \E sc \in Scopes : Dispatch(t, sc)
        \/ Start(t) \/ Clear(t) \/ ThreadExit(t)
        \/ Continue(t)

Spec == Init /\ [][Next]_vars

-----------------------------------------------------------------------------

DispatchFrame ==
    [op : {"slot", "load", "protect", "recheck", "lock", "run", "call", "throw"},
     scope : Scopes, view : Nat, pos : Nat, locked : BOOLEAN,
     heard : Seq(Listeners), due : SUBSET Listeners, gone : SUBSET Listeners]
EditFrame ==
    [op : {"idle", "add", "remove", "flush", "publish", "unpublish", "count", "scan", "unlock"},
     lis : Listeners \union {None}, view : Nat, pos : Nat, count : Nat]

\* The state is well typed: slots in use are slots of the table, views are lists of entries.
TypeOK ==
    /\ context \in {"configured", "starting", "started", "stopped"}
    /\ deferred \in Seq(Listeners) /\ late \subseteq Listeners
    /\ entries \in Seq(Listeners)
    /\ token \in [Listeners -> Nat \union {None}] /\ nextToken \in Nat
    /\ views \in Seq(Seq(Listeners)) /\ cur \in 0..Len(views)
    /\ retired \subseteq 1..Len(views) /\ freed \subseteq 1..Len(views)
    /\ hazard \in [Slots -> 0..Len(views)]
    /\ SlotsTyped
    /\ mutex \in Threads \union {None}
    /\ disp \in [Threads -> Seq(DispatchFrame)]
    /\ edit \in [Threads -> EditFrame]
    /\ removed \subseteq Listeners /\ missed \subseteq Listeners
    /\ events \in [Threads -> 0..MaxEvents]

\* A dispatch never iterates over a view whose memory is gone, whatever
\* callbacks and other threads add, remove or clear meanwhile: "a retired view
\* is freed only when no published hazard slot references it".
ViewOutlivesDispatch ==
    \A t \in Threads : \A i \in 1..Len(disp[t]) :
        disp[t][i].op \in {"run", "call"} => disp[t][i].view \notin freed

\* Retired views do not pile up: between registration calls at most two are left
\* per hazard slot, the one it names and the one its owner was about to name.
RetiredBounded == mutex = None => Cardinality(retired) <= 2 * nextSlot

\* A list in the order of insertSorted_: priority first, then registration (token)
\* order, where a listener that on<T> deferred stands behind whatever was inserted
\* before its context's list was flushed.  HeardAsRegistered has no such exception.
InOrder(s) ==
    \A i, j \in 1..Len(s) : i < j =>
        \/ Prio[s[i]] > Prio[s[j]]
        \/ /\ Prio[s[i]] = Prio[s[j]]
           /\ \/ token[s[i]] < token[s[j]]
              \/ s[j] \in late /\ (s[i] \in late => ScopeOf[s[i]] # ScopeOf[s[j]])

Distinct(s) == \A i, j \in 1..Len(s) : s[i] = s[j] => i = j

\* Every event reaches its listeners each at most once and in the order of the
\* list at its time (insertSorted_, dispatchFromView_), whatever was registered,
\* removed and flushed concurrently.
HeardInOrder ==
    \A t \in Threads : \A i \in 1..Len(disp[t]) :
        InOrder(disp[t][i].heard) /\ Distinct(disp[t][i].heard)

\* What the guide promises of dispatch(): "in priority order, then in registration
\* order at equal priority", typed and global listeners alike.
HeardAsRegistered ==
    \A t \in Threads : \A i \in 1..Len(disp[t]) :
        LET s == disp[t][i].heard IN
        \A m, n \in 1..Len(s) : m < n =>
            \/ Prio[s[m]] > Prio[s[n]]
            \/ Prio[s[m]] = Prio[s[n]] /\ token[s[m]] < token[s[n]]

Matching(S, sc) == {l \in S : ScopeOf[l] \in {AllScopes, sc}}
Heard(f) == {f.heard[n] : n \in 1..Len(f.heard)}

\* An event that ran to its end was heard by every listener of its scope that
\* was registered before it and has not been removed since, and by none whose
\* remove() had found it in the list and returned before it.  A remove() of a
\* listener still deferred finds nothing: see RemovedStaysSilent.
Delivered ==
    \A t \in Threads : \A i \in 1..Len(disp[t]) :
        LET f == disp[t][i] IN
        /\ Heard(f) \cap f.gone = {}
        /\ f.op = "run" /\ f.pos > Len(views[f.view])
            => Matching(f.due, f.scope) \ removed \subseteq Heard(f)
        /\ f.op \in {"load", "recheck"} /\ cur = 0 => f.due \subseteq removed

\* A removed listener is never called by an event that begins after remove()
\* returned, also when it was removed before start() (ListenerHandle::remove).
RemovedStaysSilent ==
    \A t \in Threads : \A i \in 1..Len(disp[t]) :
        Heard(disp[t][i]) \cap missed = {}

\* A callback on the locked fallback that registers, removes or dispatches waits
\* for the mutex its own thread holds: the deadlock dispatch() documents.
SelfLocked ==
    \E t \in Threads :
        /\ mutex = t
        /\ edit[t].op \in {"add", "remove"} \/ At(t, "lock")

Busy(t) == disp[t] # <<>> \/ edit[t].op # "idle" \/ stage[t] # "idle"

\* Calls never all wait for one another: while a call is in progress, some call
\* can take its next step.  The one exception is the documented SelfLocked.
CallsGoOn ==
    (\E t \in Threads : Busy(t)) => SelfLocked \/ \E t \in Threads : ENABLED Continue(t)
=============================================================================
