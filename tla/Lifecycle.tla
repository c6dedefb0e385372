----------------------------- MODULE Lifecycle -----------------------------
(***************************************************************************)
(* The life of a root context and its registry: discover, bindSingleton    *)
(* before and after start(), the phases of start() with its validation     *)
(* errors, the creation of eager singletons, the rollback of a start()     *)
(* that threw and the short path of the next one, defaultNamed, stop() and *)
(* ~Registry.                                                              *)
(*                                                                         *)
(* One thread owns the context ("Start before use, stop after use"); its   *)
(* calls in progress are frames, and user code runs inside most of them.   *)
(* A second thread resolves while the first one binds: it takes no lock,   *)
(* so each read of the tables is a step of its own.                        *)
(***************************************************************************)
EXTENDS TypeIndex, SequencesExt

CONSTANTS
    Identities, NoId,   \* Identity, kNoFactoryMethod
    CtxType,            \* ctr::BeanContext
    CtxInst,            \* the context itself, which the registry does not own
    None,
    Catalogs,           \* the programs: what they discover, bind, ask for
    MaxPending,         \* bound: contributions
    MaxInst,            \* bound: singleton instances over the whole run
    MaxFailed,          \* bound: calls of start() that throw
    MaxDepth            \* bound: calls inside one another

\* A contribution: an annotated type, an alias of one, or the product of a factory.
Lifetimes == {"singleton", "prototype", "session", "threadLocal"}
Param == [type : Types, name : Names, scoped : BOOLEAN]
Contributed ==
    [id : Identities, type : Types, concrete : Types, name : Names, prio : Int, life : Lifetimes,
     lazy : BOOLEAN, alias : Identities \union {NoId}, factory : Identities \union {NoId},
     inject : SUBSET Param]
Key == [type : Types, name : Names, prio : Int]
Query == [type : Types, name : Names]

ASSUME LifecycleConstants ==
    /\ Unnamed \in Names /\ CtxType \in Types
    /\ NoId \notin Identities
    /\ NoDesc \notin Nat /\ Ambiguous \notin Nat /\ NoDesc # Ambiguous
    /\ None \notin Nat /\ CtxInst \notin Nat /\ None # CtxInst
    /\ \A p \in Catalogs :
            /\ p.spans \subseteq Seq(Contributed) /\ p.binds \subseteq Key
            /\ p.asks \subseteq Query /\ p.looks \subseteq Query /\ p.defaults \subseteq Query
    /\ MaxPending \in Nat /\ MaxInst \in Nat /\ MaxFailed \in Nat /\ MaxDepth \in Nat \ {0}

VARIABLES
    cat,        \* the program that runs
    phase,      \* of the context: live, stopped (out of the table), dead (~Registry ran)
    started,    \* started_
    pending,    \* pending_: the contributions
    bindings,   \* pendingRuntimeSingletons_
    interned,   \* typeInterning_: a type's TypeId is its position
    descs,      \* descriptors_
    ix,         \* typeIndex_
    ctxDesc,    \* beanContextDescId_
    store,      \* singletons_
    defaults,   \* defaults_ and the scopedDefaults_ of one scope, with their flags
    inst,       \* every singleton instance so far
    frames,     \* the calls of the owning thread, outermost first
    look,       \* the resolve() of the other thread
    failed,     \* history: how many calls of start() threw
    lost        \* history: bound instances that a rejected start() dropped

registry == <<pending, bindings, interned, descs, ix, ctxDesc>>
vars == <<cat, phase, started, registry, store, defaults, inst, frames, look, failed, lost>>

-----------------------------------------------------------------------------
(* SingletonStore.  frozen is the array that resize() made, base the one   *)
(* that growAndStore() may have put in its place.                          *)

NoStore == [frozen |-> <<>>, base |-> <<>>, order |-> <<>>]
Nulls(n) == [m \in 1..n |-> None]

ResizeStore(s, n) == [s EXCEPT !.frozen = Nulls(n), !.base = Nulls(n)]

\* Mutant: a grown array is not mirrored in the frozen one.
StoreUnmirrored(s, d, i) ==
    [s EXCEPT !.order = Append(@, d),
              !.base[d] = i,
              !.frozen = IF d <= Len(@) /\ Len(s.base) = Len(@) THEN [@ EXCEPT ![d] = i] ELSE @]

StoreAt(s, d, i) ==
    [s EXCEPT !.order = Append(@, d),
              !.base[d] = i,
              !.frozen = IF d <= Len(@) THEN [@ EXCEPT ![d] = i] ELSE @]

GrowAndStore(s, d, i) ==
    StoreAt([s EXCEPT !.base = IF d > Len(@) THEN @ \o Nulls(d - Len(@)) ELSE @], d, i)

FindIn(s, d) ==
    IF d <= Len(s.frozen) THEN s.frozen[d]
    ELSE IF d <= Len(s.base) THEN s.base[d] ELSE None

Find(d) == FindIn(store, d)

-----------------------------------------------------------------------------
(* Descriptors and TypeIds.                                                *)

Prio == [d \in 1..Len(descs) |-> descs[d].prio]
PrioOf(ds) == [d \in 1..Len(ds) |-> ds[d].prio]

Intern(ts, t) == IF \E n \in 1..Len(ts) : ts[n] = t THEN ts ELSE Append(ts, t)

KeyExists(ds, k) ==
    \E d \in 1..Len(ds) : ds[d].type = k.type /\ ds[d].name = k.name /\ ds[d].prio = k.prio

\* A runtime binding: a singleton whose construct thunk does nothing.
BoundDesc(k, d) ==
    [type |-> k.type, name |-> k.name, prio |-> k.prio, life |-> "singleton", lazy |-> TRUE,
     bound |-> TRUE, prim |-> d, factory |-> NoDesc]

\* Where materialization of d happens.
Primary(d) == IF descs[d].prim = NoDesc THEN d ELSE descs[d].prim

-----------------------------------------------------------------------------
(* The owning thread's calls, and the life of instances.                   *)

Call(op, at, d, todo) == [op |-> op, at |-> at, desc |-> d, todo |-> todo, uses |-> {}]
Depth == Len(frames)
Top == frames[Depth]
In(op, at) == frames # <<>> /\ Top.op = op /\ Top.at = at
Goto(f) == frames' = [frames EXCEPT ![Depth] = f]
Push(f) == Depth < MaxDepth /\ frames' = Append(frames, f)
Return == frames' = SubSeq(frames, 1, Depth - 1)

Idle == frames = <<>> /\ phase = "live"
\* A listener, a constructor or a hook runs, and may call the context.
UserCode ==
    phase = "live" /\ (frames # <<>> => Top.at \in {"context", "bound", "constructor", "hooks", "listeners"})
\* Other threads may resolve: nobody is starting or stopping the context.
InUse == started /\ phase = "live" /\ \A n \in 1..Depth : frames[n].op \in {"bind", "make"} /\ frames[1].op # "start"
Quiet == look.at = "idle"

NewInst(d, uses) == [desc |-> d, life |-> "made", uses |-> uses]
InstFits == Len(inst) + Cardinality({n \in 1..Depth : frames[n].at = "constructor"}) < MaxInst
Destroyed(i) ==
    [inst EXCEPT ![i].life = CASE @ = "made" -> "destroyed" [] @ = "raw" -> "raw gone" [] OTHER -> "corrupt"]

Init ==
    /\ cat \in Catalogs
    /\ phase = "live" /\ started = FALSE
    /\ pending = <<>> /\ bindings = <<>> /\ interned = <<>> /\ descs = <<>>
    /\ ix = EmptyIndex /\ ctxDesc = NoDesc
    /\ store = NoStore
    /\ defaults = [size |-> 0, root |-> [t \in Types |-> Unnamed], any |-> FALSE,
                   scopedSize |-> 0, scoped |-> [t \in Types |-> Unnamed], scopedAny |-> FALSE]
    /\ inst = <<>> /\ frames = <<>>
    /\ look = [at |-> "idle"]
    /\ failed = 0 /\ lost = {}

-----------------------------------------------------------------------------
(* Before start().                                                         *)

\* submitContribution(); a ContextStateError once started.
Discover(span) ==
    /\ Idle /\ ~started /\ Len(pending) < MaxPending
    /\ pending' = Append(pending, span)
    /\ UNCHANGED <<cat, phase, started, bindings, interned, descs, ix, ctxDesc, store,
                   defaults, inst, frames, look, failed, lost>>

\* bindSingleton() while not started, which includes the destruction callbacks of
\* stop(), of a rollback and of ~Registry: a queued binding of the same key is a
\* ConfigurationError, another one is queued.
BindEarly(k) ==
    /\ ~started /\ phase = "live" /\ InstFits
    /\ \A n \in 1..Len(bindings) : bindings[n].key # k
    /\ inst' = Append(inst, NewInst(NoDesc, {}))
    /\ bindings' = Append(bindings, [key |-> k, inst |-> Len(inst) + 1])
    /\ UNCHANGED <<cat, phase, started, pending, interned, descs, ix, ctxDesc, store,
                   defaults, frames, look, failed, lost>>

-----------------------------------------------------------------------------
(* Registry::start: the phases, each a function of what was merged so far. *)
(* ids is the identityMap of this call, from the descriptors numbered      *)
(* above first; ok turns FALSE where the code throws.                      *)

Unmerged ==
    [ok |-> TRUE, descs |-> descs, interned |-> interned, ix |-> ix,
     ids |-> [c \in Identities |-> NoDesc], links |-> <<>>, stored |-> <<>>]

AddDesc(m, desc, d) ==
    [m EXCEPT !.descs = Append(@, desc), !.ix = InsertCandidate(@, desc.type, desc.name, d)]

\* Phase 1.  A contribution seen before must agree with its descriptor.
MergeOne(m, c) ==
    LET d == Len(m.descs) + 1
        known == m.descs[m.ids[c.id]]
    IN  IF ~m.ok THEN m
        ELSE IF m.ids[c.id] = NoDesc
        THEN [AddDesc(m, [type |-> c.type, name |-> c.name, prio |-> c.prio, life |-> c.life,
                          lazy |-> c.lazy, bound |-> FALSE, factory |-> NoDesc,
                          prim |-> IF c.alias = NoId THEN d ELSE NoDesc], d)
                EXCEPT !.interned = Intern(Intern(@, c.type), c.concrete),
                       !.ids[c.id] = d,
                       !.links = Append(@, [desc |-> d, alias |-> c.alias, factory |-> c.factory])]
        ELSE [m EXCEPT !.ok = /\ known.type = c.type /\ known.name = c.name
                              /\ known.life = c.life]

Merged ==
    LET cs == FlattenSeq(pending)
        merged[n \in 0..Len(cs)] == IF n = 0 THEN Unmerged ELSE MergeOne(merged[n - 1], cs[n])
    IN  merged[Len(cs)]

\* Phase 1.5: the queued bindings.
AdoptOne(m, b) ==
    LET d == Len(m.descs) + 1
        t == [m EXCEPT !.interned = Intern(@, b.key.type)]
    IN  IF ~m.ok THEN m
        ELSE IF KeyExists(m.descs, b.key) THEN [t EXCEPT !.ok = FALSE]
        ELSE [AddDesc(t, BoundDesc(b.key, d), d) EXCEPT !.stored = Append(@, [desc |-> d, inst |-> b.inst])]

Adopted ==
    LET adopted[n \in 0..Len(bindings)] == IF n = 0 THEN Merged ELSE AdoptOne(adopted[n - 1], bindings[n])
    IN  adopted[Len(bindings)]

\* Phases 2 and 2.5.  Links are resolved in order up to the first that is missing.
Missing(m, link) == link # NoId /\ m.ids[link] = NoDesc
LinkUpTo(m, bad) == IF bad = {} THEN Len(m.links) ELSE (CHOOSE n \in bad : \A o \in bad : n <= o) - 1

LinkFactories(m) ==
    LET bad == {n \in 1..Len(m.links) : Missing(m, m.links[n].factory)}
        at == {n \in 1..LinkUpTo(m, bad) : m.links[n].factory # NoId}
    IN  [m EXCEPT !.ok = bad = {},
                  !.descs = [d \in 1..Len(@) |->
                        IF \E n \in at : m.links[n].desc = d
                        THEN [@[d] EXCEPT !.factory = m.ids[m.links[CHOOSE n \in at : m.links[n].desc = d].factory]]
                        ELSE @[d]]]

LinkAliases(m) ==
    LET bad == {n \in 1..Len(m.links) : Missing(m, m.links[n].alias)}
        at == {n \in 1..LinkUpTo(m, bad) : m.links[n].alias # NoId}
    IN  [m EXCEPT !.ok = bad = {},
                  !.descs = [d \in 1..Len(@) |->
                        IF \E n \in at : m.links[n].desc = d
                        THEN [@[d] EXCEPT !.prim = m.ids[m.links[CHOOSE n \in at : m.links[n].desc = d].alias]]
                        ELSE @[d]]]

\* Phase 3.
Sorted(m) == [m EXCEPT !.ix = SortAllCandidates(@, PrioOf(m.descs))]

\* Phase 3.5: two products of one factory for one type and name.
TwinProducts(m) ==
    \E t \in Types, n \in Names :
        LET cs == m.ix.entries[t][n].candidates
        IN  \E a, b \in 1..Len(cs) :
                /\ a # b
                /\ m.descs[cs[a]].factory # NoDesc
                /\ m.descs[cs[a]].factory = m.descs[cs[b]].factory

\* Phase 3.75: scoped{} on a bean that is no session bean, or a session bean
\* injected without it in a bean that lives longer.
BadInjection(m) ==
    \E n \in 1..Len(pending) : \E i \in 1..Len(pending[n]) : \E p \in pending[n][i].inject :
        LET cs == m.ix.entries[p.type][p.name].candidates
            life == m.descs[cs[1]].life
        IN  /\ cs # <<>>
            /\ IF p.scoped THEN life # "session"
               ELSE life = "session" /\ pending[n][i].life # "session"

Validated(m) == [m EXCEPT !.ok = ~TwinProducts(m) /\ ~BadInjection(m)]

\* Each phase runs if the one before did not throw.
Then(m, n) == IF m.ok THEN n ELSE m
Linked == LET f == Then(Adopted, LinkFactories(Adopted)) IN Then(f, LinkAliases(f))
Built == Then(Linked, Validated(Sorted(Linked)))

\* An exception leaves what was merged behind.  From phase 2 on the queue of
\* bindings is already empty, and nobody holds their instances any more.
StartRejected ==
    /\ Idle /\ ~started /\ ctxDesc = NoDesc /\ failed < MaxFailed
    /\ ~Built.ok
    /\ descs' = Built.descs /\ interned' = Built.interned /\ ix' = Built.ix
    /\ bindings' = IF Adopted.ok THEN <<>> ELSE bindings
    /\ lost' = lost \union IF Adopted.ok THEN {bindings[n].inst : n \in 1..Len(bindings)} ELSE {}
    /\ failed' = failed + 1
    /\ UNCHANGED <<cat, phase, started, pending, ctxDesc, store, defaults, inst, frames, look>>

\* Phase 4: the context's own bean, the arrays, the bound instances, the TypeIds.
WithContext(m) ==
    LET d == Len(m.descs) + 1
        added == AddDesc(m, BoundDesc([type |-> CtxType, name |-> Unnamed, prio |-> 0], d), d)
    IN  [added EXCEPT !.interned = Intern(@, CtxType), !.ix = UpdateSingleUnnamed(@, CtxType)]

\* What resize() and the store() of the context and of each binding give.
FilledStore(m) ==
    LET last == Len(m.descs)
        slots == [d \in 1..last |->
                    IF d = last THEN CtxInst
                    ELSE IF \E n \in 1..Len(m.stored) : m.stored[n].desc = d
                    THEN m.stored[CHOOSE n \in 1..Len(m.stored) : m.stored[n].desc = d].inst
                    ELSE None]
    IN  [frozen |-> slots, base |-> slots,
         order |-> <<last>> \o [n \in 1..Len(m.stored) |-> m.stored[n].desc]]

StartMerged ==
    /\ Idle /\ ~started /\ ctxDesc = NoDesc /\ Built.ok
    /\ LET m == WithContext(Built)
       IN  /\ descs' = m.descs /\ interned' = m.interned /\ ix' = m.ix
           /\ ctxDesc' = Len(m.descs)
           /\ store' = FilledStore(m)
           /\ defaults' = [defaults EXCEPT !.size = Len(m.interned)]
           /\ inst' = [i \in 1..Len(inst) |->
                    IF \E n \in 1..Len(m.stored) : m.stored[n].inst = i
                    THEN [inst[i] EXCEPT !.desc = m.stored[CHOOSE n \in 1..Len(m.stored) : m.stored[n].inst = i].desc]
                    ELSE inst[i]]
           /\ Push(Call("start", "context", NoDesc, [n \in 1..Len(m.stored) |-> m.stored[n].desc]))
    /\ bindings' = <<>> /\ started' = TRUE
    /\ UNCHANGED <<cat, phase, pending, look, failed, lost>>

\* After a start() that got as far as phase 4 and threw later: the tables are
\* kept, and the queues of contributions and bindings are not looked at.
StartAgain ==
    /\ Idle /\ ~started /\ ctxDesc # NoDesc
    /\ store' = StoreAt(ResizeStore(store, Len(descs)), ctxDesc, CtxInst)
    /\ started' = TRUE
    /\ Push(Call("start", "context", NoDesc, <<>>))
    /\ UNCHANGED <<cat, phase, registry, defaults, inst, look, failed, lost>>

-----------------------------------------------------------------------------
(* BeanContext::start after the registry is started: listeners hear of the *)
(* context and of the bound beans, then the eager singletons are made.     *)

EagerIds ==
    {d \in 1..Len(descs) : /\ descs[d].life = "singleton" /\ ~descs[d].bound
                           /\ ~descs[d].lazy /\ descs[d].prim = d}

\* Mutant: only the beans that resolution would select.
EagerHeads ==
    ByPriority({d \in EagerIds : ix.entries[descs[d].type][descs[d].name].head = d}, Prio)

Eager == ByPriority(EagerIds, Prio)

ContextAnnounced ==
    /\ In("start", "context")
    /\ Goto([Top EXCEPT !.at = "bound"])
    /\ UNCHANGED <<cat, phase, started, registry, store, defaults, inst, look, failed, lost>>

BoundAnnounced ==
    /\ In("start", "bound")
    /\ Goto(IF Top.todo # <<>> THEN [Top EXCEPT !.todo = Tail(@)]
            ELSE [Top EXCEPT !.at = "eager", !.todo = Eager])
    /\ UNCHANGED <<cat, phase, started, registry, store, defaults, inst, look, failed, lost>>

\* materializeOneImpl() of the next eager bean, which a constructor may have
\* resolved before.
EagerFound ==
    /\ In("start", "eager") /\ Top.todo # <<>> /\ Find(Head(Top.todo)) # None
    /\ Goto([Top EXCEPT !.todo = Tail(@)])
    /\ UNCHANGED <<cat, phase, started, registry, store, defaults, inst, look, failed, lost>>

EagerClaim ==
    /\ In("start", "eager") /\ Top.todo # <<>> /\ Find(Head(Top.todo)) = None
    /\ InstFits
    /\ Push(Call("make", "constructor", Head(Top.todo), <<>>))
    /\ UNCHANGED <<cat, phase, started, registry, store, defaults, inst, look, failed, lost>>

\* completeStart(): the contributions are released.
StartDone ==
    /\ In("start", "eager") /\ Top.todo = <<>>
    /\ pending' = <<>>
    /\ Return
    /\ UNCHANGED <<cat, phase, started, bindings, interned, descs, ix, ctxDesc, store,
                   defaults, inst, look, failed, lost>>

-----------------------------------------------------------------------------
(* defaultNamed, on the root or on the scope.  Only the types that had a   *)
(* TypeId when the context started have a slot: to set another one is a    *)
(* ConfigurationError, to clear it does nothing.                           *)

HasSlot(t) == \E n \in 1..defaults.size : interned[n] = t

SetDefault(scoped, t, n) ==
    /\ Idle /\ started /\ HasSlot(t)
    /\ defaults' = IF scoped
                   THEN [defaults EXCEPT !.scopedSize = IF @ = 0 THEN defaults.size ELSE @,
                                         !.scoped[t] = n, !.scopedAny = TRUE]
                   ELSE [defaults EXCEPT !.root[t] = n, !.any = TRUE]
    /\ UNCHANGED <<cat, phase, started, registry, store, inst, frames, look, failed, lost>>

ClearDefault(scoped, t) ==
    /\ Idle /\ started /\ HasSlot(t)
    /\ IF scoped THEN defaults.scopedSize # 0 ELSE TRUE
    /\ defaults' = IF scoped THEN [defaults EXCEPT !.scoped[t] = Unnamed]
                   ELSE [defaults EXCEPT !.root[t] = Unnamed]
    /\ UNCHANGED <<cat, phase, started, registry, store, inst, frames, look, failed, lost>>

\* getDefault(): unnamed past the end of the table.
TableDefault(size, table, t) ==
    IF \E n \in 1..size : interned[n] = t THEN table[t] ELSE Unnamed

\* Mutant: the root's default is asked although the scope has one.
RootDefaultFirst(scoped, t) ==
    LET r == IF defaults.any THEN TableDefault(defaults.size, defaults.root, t) ELSE Unnamed
    IN  IF r = Unnamed /\ scoped /\ defaults.scopedAny
        THEN TableDefault(defaults.scopedSize, defaults.scoped, t) ELSE r

\* The name that an unnamed request stands for.
EffectiveName(scoped, t) ==
    LET s == IF scoped /\ defaults.scopedAny
             THEN TableDefault(defaults.scopedSize, defaults.scoped, t) ELSE Unnamed
    IN  IF s = Unnamed /\ defaults.any THEN TableDefault(defaults.size, defaults.root, t) ELSE s

\* What resolve() selects.  A request with a name takes no default.
Request(scoped, t, n) == Lookup(ix, Prio, t, IF n = Unnamed THEN EffectiveName(scoped, t) ELSE n)

\* What a constructor's parameter is given: a scoped{} one a deferred handle, for
\* which the candidates are looked at here and the defaults are not.
InjectParam(p) ==
    IF p.scoped THEN FromCandidates(ix.entries[p.type][p.name].candidates, Prio)
    ELSE Request(FALSE, p.type, p.name)

-----------------------------------------------------------------------------
(* Singletons made by the owning thread.                                   *)

\* A constructor's parameter that is already there: the bean is injected.
ResolveFound(t, n) ==
    /\ In("make", "constructor")
    /\ LET d == InjectParam([type |-> t, name |-> n, scoped |-> FALSE])
       IN  /\ d \notin {NoDesc, Ambiguous}
           /\ descs[d].life = "singleton"
           /\ Find(Primary(d)) \notin {None, CtxInst}
           /\ Goto([Top EXCEPT !.uses = @ \union {Find(Primary(d))}])
    /\ UNCHANGED <<cat, phase, started, registry, store, defaults, inst, look, failed, lost>>

\* The bean is not there: this thread makes it, unless it is already at it.
ResolveClaim(t, n) ==
    /\ UserCode /\ started /\ InstFits
    /\ LET d == Request(FALSE, t, n)
       IN  /\ d \notin {NoDesc, Ambiguous}
           /\ descs[d].life = "singleton"
           /\ Find(Primary(d)) = None
           /\ ~descs[Primary(d)].bound
           /\ \A f \in 1..Depth : frames[f].desc # Primary(d)
           /\ Push(Call("make", "constructor", Primary(d), <<>>))
    /\ UNCHANGED <<cat, phase, started, registry, store, defaults, inst, look, failed, lost>>

\* A bound bean whose instance is gone gets the block of raw memory that its
\* construct thunk leaves alone; a debug build stops at an assertion here.
ResolveUnbuilt(t, n) ==
    /\ Idle /\ started /\ InstFits
    /\ LET d == Request(FALSE, t, n)
       IN  /\ d \notin {NoDesc, Ambiguous}
           /\ descs[d].bound /\ Find(d) = None
           /\ inst' = Append(inst, [NewInst(d, {}) EXCEPT !.life = "raw"])
           /\ store' = StoreAt(store, d, Len(inst) + 1)
    /\ UNCHANGED <<cat, phase, started, registry, defaults, frames, look, failed, lost>>

\* The constructor returns and the instance is stored.
Made ==
    /\ In("make", "constructor")
    /\ inst' = Append(inst, NewInst(Top.desc, Top.uses))
    /\ store' = StoreAt(store, Top.desc, Len(inst) + 1)
    /\ Goto([Top EXCEPT !.at = "hooks"])
    /\ UNCHANGED <<cat, phase, started, registry, defaults, look, failed, lost>>

\* postConstruct and the listeners are done; a constructor below gets the bean.
MadeReturns ==
    /\ In("make", "hooks")
    /\ frames' = [n \in 1..(Depth - 1) |->
            IF n = Depth - 1 /\ frames[n].at = "constructor"
            THEN [frames[n] EXCEPT !.uses = @ \union {Find(Top.desc)}] ELSE frames[n]]
    /\ UNCHANGED <<cat, phase, started, registry, store, defaults, inst, look, failed, lost>>

\* A constructor or a hook throws, and user code below catches it.
MakeThrows ==
    /\ "bean" \in cat.throws
    /\ In("make", "constructor") \/ In("make", "hooks")
    /\ Depth > 1 => frames[Depth - 1].op # "start" \/ frames[Depth - 1].at # "eager"
    /\ Return
    /\ UNCHANGED <<cat, phase, started, registry, store, defaults, inst, look, failed, lost>>

-----------------------------------------------------------------------------
(* stopRegistryOwnedBeans, for rollbackFailedStart, stop and ~Registry.    *)

\* Mutant: in the order of construction.
DestructionForward == store.order

DestructionOrder == Reverse(store.order)

\* A listener, an eager constructor or its hook throws out of start().
StartThrows ==
    /\ "bean" \in cat.throws /\ failed < MaxFailed
    /\ \/ In("start", "context") \/ In("start", "bound")
       \/ In("make", "constructor") /\ Depth = 2 /\ frames[1].at = "eager"
       \/ In("make", "hooks") /\ Depth = 2 /\ frames[1].at = "eager"
    /\ failed' = failed + 1 /\ started' = FALSE
    /\ frames' = <<Call("rollback", "destroying", NoDesc, DestructionOrder)>>
    /\ UNCHANGED <<cat, phase, registry, store, defaults, inst, look, lost>>

\* BeanContext::stop; a context that is not started only leaves the table.
Stop ==
    /\ Idle /\ Quiet
    /\ started' = FALSE
    /\ IF started
       THEN Push(Call("stop", "destroying", NoDesc, DestructionOrder)) /\ phase' = phase
       ELSE phase' = "stopped" /\ frames' = frames
    /\ UNCHANGED <<cat, registry, store, defaults, inst, look, failed, lost>>

\* The program ends and the context was not stopped.
ExitUnstopped ==
    /\ Idle /\ Quiet /\ started
    /\ started' = FALSE
    /\ Push(Call("exit", "destroying", NoDesc, DestructionOrder))
    /\ UNCHANGED <<cat, phase, registry, store, defaults, inst, look, failed, lost>>

DestroyNext ==
    /\ frames # <<>> /\ Top.at = "destroying" /\ Top.todo # <<>>
    /\ inst' = LET i == Find(Head(Top.todo)) IN IF i \in {None, CtxInst} THEN inst ELSE Destroyed(i)
    /\ Goto([Top EXCEPT !.todo = Tail(@)])
    /\ UNCHANGED <<cat, phase, started, registry, store, defaults, look, failed, lost>>

\* releaseAll().  The rollback is over; stop() goes on to the thread-locals.
ReleaseAll ==
    /\ frames # <<>> /\ Top.at = "destroying" /\ Top.todo = <<>>
    /\ store' = NoStore
    /\ IF Top.op = "rollback" THEN Return ELSE Goto([Top EXCEPT !.at = "released"])
    /\ UNCHANGED <<cat, phase, started, registry, defaults, inst, look, failed, lost>>

\* The thread-locals are collected and destroyed, then the context leaves the table.
StopSweeps ==
    /\ In("stop", "released")
    /\ Goto([Top EXCEPT !.at = "sweeping"])
    /\ UNCHANGED <<cat, phase, started, registry, store, defaults, inst, look, failed, lost>>

Stopped ==
    /\ In("stop", "sweeping")
    /\ phase' = "stopped"
    /\ Return
    /\ UNCHANGED <<cat, started, registry, store, defaults, inst, look, failed, lost>>

\* Mutant: the queued bindings are forgotten.
DestroyNothing ==
    /\ phase = "stopped" \/ In("exit", "released")
    /\ phase' = "dead" /\ frames' = <<>> /\ bindings' = <<>>
    /\ UNCHANGED <<cat, started, pending, interned, descs, ix, ctxDesc, store, defaults, inst,
                   look, failed, lost>>

\* The rest of ~Registry: bindings that were never started.
DestroyRegistry ==
    /\ phase = "stopped" \/ In("exit", "released")
    /\ phase' = "dead" /\ frames' = <<>> /\ bindings' = <<>>
    /\ inst' = [i \in 1..Len(inst) |->
            IF \E n \in 1..Len(bindings) : bindings[n].inst = i THEN Destroyed(i)[i] ELSE inst[i]]
    /\ UNCHANGED <<cat, started, pending, interned, descs, ix, ctxDesc, store, defaults,
                   look, failed, lost>>

-----------------------------------------------------------------------------
(* bindSingleton once started.  The write lock is held until the listeners *)
(* are told, but readers take no lock.                                     *)

\* A key that exists is a ConfigurationError; the descriptor is appended and the
\* instance stored before the index knows of them.
BindLate(k) ==
    /\ UserCode /\ started /\ InstFits
    /\ ~KeyExists(descs, k)
    /\ LET d == Len(descs) + 1
       IN  /\ interned' = Intern(interned, k.type)
           /\ descs' = Append(descs, BoundDesc(k, d))
           /\ inst' = Append(inst, NewInst(d, {}))
           /\ store' = GrowAndStore(store, d, Len(inst) + 1)
           /\ Push(Call("bind", "insert", d, <<>>))
    /\ look' = IF Quiet THEN look ELSE [look EXCEPT !.seen = @ \union {Best(descs', look.type, look.name)}]
    /\ UNCHANGED <<cat, phase, started, pending, bindings, ix, ctxDesc, defaults, failed, lost>>

\* insertCandidate, sortAllCandidates and updateSingleUnnamed, write by write.
Stages == <<"insert", "flush", "order", "singles", "heads", "ties", "listeners">>
Rebuilt(at, d) ==
    CASE at = "insert"  -> InsertCandidate(ix, descs[d].type, descs[d].name, d)
      [] at = "flush"   -> Flush(ix)
      [] at = "order"   -> Order(ix, Prio)
      [] at = "singles" -> FindSingles(ix)
      [] at = "heads"   -> FindHeads(ix)
      [] at = "ties"    -> UpdateSingleUnnamed(FindTies(ix, Prio), descs[d].type)

BindStep ==
    /\ frames # <<>> /\ Top.op = "bind"
    /\ \E n \in 1..(Len(Stages) - 1) :
        /\ Top.at = Stages[n]
        /\ ix' = Rebuilt(Top.at, Top.desc)
        /\ Goto([Top EXCEPT !.at = Stages[n + 1]])
    /\ UNCHANGED <<cat, phase, started, pending, bindings, interned, descs, ctxDesc, store,
                   defaults, inst, look, failed, lost>>

\* The listeners return, or throw: the binding stands.
BindDone ==
    /\ In("bind", "listeners")
    /\ Return
    /\ UNCHANGED <<cat, phase, started, registry, store, defaults, inst, look, failed, lost>>

-----------------------------------------------------------------------------
(* The other thread's resolve(), read by read.                             *)

\* The descriptors without the one whose bindSingleton has not returned.
Settled ==
    IF \E n \in 1..Depth : frames[n].op = "bind" /\ frames[n].at # "listeners"
    THEN SubSeq(descs, 1, Len(descs) - 1) ELSE descs

LookBegin(t, n) ==
    /\ Quiet /\ InUse
    /\ LET name == IF n = Unnamed THEN EffectiveName(FALSE, t) ELSE n
       IN  look' = [at |-> "single", type |-> t, name |-> name, desc |-> NoDesc, found |-> None,
                    seen |-> {Best(descs, t, name), Best(Settled, t, name)}]
    /\ UNCHANGED <<cat, phase, started, registry, store, defaults, inst, frames, failed, lost>>

LookSingle ==
    /\ look.at = "single"
    /\ look' = IF look.name = Unnamed /\ ix.single[look.type] # NoDesc
               THEN [look EXCEPT !.at = "find", !.desc = ix.single[look.type]]
               ELSE [look EXCEPT !.at = "entry"]
    /\ UNCHANGED <<cat, phase, started, registry, store, defaults, inst, frames, failed, lost>>

\* The head is read before the flag.
LookEntry ==
    /\ look.at = "entry"
    /\ LET e == ix.entries[look.type][look.name]
           d == IF e.head # NoDesc THEN e.head ELSE FromEntry(e, Prio)
       IN  look' = [look EXCEPT !.desc = d,
                                !.at = IF e.head # NoDesc THEN "flag"
                                       ELSE IF d \in {NoDesc, Ambiguous} THEN "done" ELSE "find"]
    /\ UNCHANGED <<cat, phase, started, registry, store, defaults, inst, frames, failed, lost>>

LookFlag ==
    /\ look.at = "flag"
    /\ look' = IF ix.entries[look.type][look.name].ambiguous
               THEN [look EXCEPT !.at = "done", !.desc = Ambiguous] ELSE [look EXCEPT !.at = "find"]
    /\ UNCHANGED <<cat, phase, started, registry, store, defaults, inst, frames, failed, lost>>

\* What is not found is made as in the module Materialization.
LookFind ==
    /\ look.at = "find"
    /\ look' = [look EXCEPT !.at = "done", !.found = Find(Primary(look.desc))]
    /\ UNCHANGED <<cat, phase, started, registry, store, defaults, inst, frames, failed, lost>>

LookDone ==
    /\ look.at = "done"
    /\ look' = [at |-> "idle"]
    /\ UNCHANGED <<cat, phase, started, registry, store, defaults, inst, frames, failed, lost>>

-----------------------------------------------------------------------------

\* The steps that claim a bean for the owning thread, and the others that are the
\* registry's alone; StopSweeps, Stopped and DestroyRegistry involve the threads.
Claims ==
    \/ EagerClaim
    \/ \E q \in cat.asks : ResolveClaim(q.type, q.name)

Others ==
    \/ \E s \in cat.spans : Discover(s)
    \/ \E k \in cat.binds : BindEarly(k) \/ BindLate(k)
    \/ StartRejected \/ StartMerged \/ StartAgain
    \/ ContextAnnounced \/ BoundAnnounced \/ EagerFound \/ StartDone
    \/ \E q \in cat.asks : ResolveFound(q.type, q.name) \/ ResolveUnbuilt(q.type, q.name)
    \/ Made \/ MadeReturns \/ MakeThrows \/ StartThrows
    \/ Stop \/ ExitUnstopped \/ DestroyNext \/ ReleaseAll
    \/ BindStep \/ BindDone
    \/ \E q \in cat.defaults, scoped \in BOOLEAN : SetDefault(scoped, q.type, q.name) \/ ClearDefault(scoped, q.type)
    \/ \E q \in cat.looks : LookBegin(q.type, q.name)
    \/ LookSingle \/ LookEntry \/ LookFlag \/ LookFind \/ LookDone

-----------------------------------------------------------------------------

Answers == 1..Len(descs) \union {NoDesc, Ambiguous}
Slots == 1..Len(inst) \union {None, CtxInst}
Desc ==
    [type : Types, name : Names, prio : Int, life : Lifetimes,
     lazy : BOOLEAN, bound : BOOLEAN, prim : 1..Len(descs) \union {NoDesc},
     factory : 1..Len(descs) \union {NoDesc}]

\* The registry's state is well typed; no TypeId and no stored descriptor appears twice.
TypeOK ==
    /\ cat \in Catalogs /\ phase \in {"live", "stopped", "dead"} /\ started \in BOOLEAN
    /\ pending \in Seq(Seq(Contributed)) /\ Len(pending) <= MaxPending
    /\ interned \in Seq(Types) /\ IsInjective(interned)
    /\ descs \in Seq(Desc) /\ ctxDesc \in 1..Len(descs) \union {NoDesc}
    /\ store.frozen \in Seq(Slots) /\ store.base \in Seq(Slots)
    /\ store.order \in Seq(1..Len(descs)) /\ IsInjective(store.order)
    /\ Len(store.frozen) <= Len(store.base) /\ Len(store.base) <= Len(descs)
    /\ defaults.root \in [Types -> Names] /\ defaults.scoped \in [Types -> Names]
    /\ inst \in Seq([desc : 1..Len(descs) \union {NoDesc}, life : {"made", "raw", "raw gone", "destroyed", "corrupt"},
                     uses : SUBSET (1..Len(inst))])
    /\ Len(inst) <= MaxInst /\ Depth <= MaxDepth /\ failed \in 0..MaxFailed /\ lost \subseteq 1..Len(inst)
    /\ look.at # "idle" => look.desc \in Answers /\ look.found \in Slots

Binding == \E n \in 1..Depth : frames[n].op = "bind" /\ frames[n].at # "listeners"

\* The name an unnamed request should stand for: the scope's default, else the root's.
DefaultName(scoped, t) ==
    IF scoped /\ defaults.scoped[t] # Unnamed THEN defaults.scoped[t] ELSE defaults.root[t]

\* Nothing that a program contributes or binds has the key of the context's own
\* bean, which start() inserts when the candidates are sorted already.
Rival(k) == k.type = CtxType /\ k.name = Unnamed
ContextUnrivalled ==
    \A p \in Catalogs : /\ \A k \in p.binds : ~Rival(k)
                        /\ \A s \in p.spans : \A n \in 1..Len(s) : ~Rival(s[n])

\* Once a context is started, and between two runtime bindings, the shortcuts of
\* resolve() (single unnamed candidate, precomputed head, flag of a tie, defaults
\* looked at only when there are any) find the descriptor of highest priority
\* among all that were discovered or bound under the name, whatever the order.
\* A scoped{} parameter, which reads the candidates itself and no default, finds
\* the same one if it has a name or the type no default (ScopedFollowsDefault).
SelectionIsBest ==
    started /\ ~Binding =>
        \A t \in Types :
            /\ \A n \in Names :
                    /\ Lookup(ix, Prio, t, n) = Best(descs, t, n)
                    /\ n # Unnamed \/ defaults.root[t] = Unnamed =>
                        InjectParam([type |-> t, name |-> n, scoped |-> TRUE]) = Best(descs, t, n)
            /\ \A scoped \in BOOLEAN :
                    Request(scoped, t, Unnamed) = Best(descs, t, DefaultName(scoped, t))

\* "Because an unnamed injection point (a ctr::Bean<U> parameter with no
\* [[=ctr::named]]) also resolves through the unnamed-key path, it follows the
\* runtime default too" (guides/guide-04-qualifiers.md): also a scoped{} one.
ScopedFollowsDefault ==
    started /\ ~Binding =>
        \A s \in cat.spans : \A i \in 1..Len(s) : \A r \in s[i].inject :
            r.scoped /\ r.name = Unnamed => InjectParam(r) = Best(descs, r.type, DefaultName(FALSE, r.type))

\* A resolve() that runs beside a bindSingleton() selects what was best at some
\* moment between its begin and its end, unless two candidates were tied.
InFlightIsBest ==
    look.at = "done" /\ Ambiguous \notin look.seen => look.desc \in look.seen

\* What resolve() finds in the store, in the array frozen at start() or in one
\* grown since, is the live instance of the bean it selected (after a start()
\* that threw, the memory of one that was never constructed).  It finds every
\* runtime binding, unless some start() threw.
FoundIsLive ==
    /\ \A d \in 1..Len(store.base) : Find(d) = store.base[d]
    /\ look.at = "done" /\ look.found \notin {None, CtxInst} =>
            /\ inst[look.found].life \in (IF failed = 0 THEN {"made"} ELSE {"made", "raw"})
            /\ inst[look.found].desc = Primary(look.desc)
    /\ look.at = "done" /\ look.found = None /\ look.desc \notin {NoDesc, Ambiguous} /\ failed = 0 =>
            ~descs[look.desc].bound

\* Every instance that was handed over or made is held in one place (the queue of
\* bindings or the store) until it is destroyed, once; only a start() that was
\* rejected drops some.
Accounted ==
    \A i \in 1..Len(inst) :
        LET queued == \E n \in 1..Len(bindings) : bindings[n].inst = i
            stored == inst[i].desc # NoDesc /\ Find(inst[i].desc) = i
        IN  CASE inst[i].life = "made" -> (IF i \in lost THEN failed > 0 /\ ~queued /\ ~stored
                                           ELSE queued # stored)
              [] inst[i].life \in {"raw", "raw gone"} -> failed > 0
              [] inst[i].life = "destroyed" -> ~queued /\ (stored => frames # <<>> /\ Top.at = "destroying")
              [] OTHER -> FALSE

\* stop(), a rollback and ~Registry destroy a singleton before the singletons
\* that were injected in it.
UsesOutlive ==
    \A i \in 1..Len(inst) : inst[i].life = "made" =>
        \A u \in inst[i].uses : inst[u].life \in (IF failed = 0 THEN {"made"} ELSE {"made", "raw"})

\* start() returns normally only when every eager singleton is in the store.
EagerMade ==
    started /\ frames = <<>> => \A d \in EagerIds : Find(d) # None
=============================================================================
