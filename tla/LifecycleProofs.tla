-------------------------- MODULE LifecycleProofs --------------------------
(***************************************************************************)
(* What a registry holds, for every number of types, names, programs and   *)
(* threads: a bean outlives what uses it (UsesAlwaysOutlive), every        *)
(* instance is owned until it is destroyed once (InstancesAccounted), a    *)
(* resolve() beside the owner finds live beans (FoundAlwaysLive), a        *)
(* started context has its eager beans (EagerAlwaysMade), and the state is *)
(* well typed (ContainerTyped); a resolve() selects the descriptor of      *)
(* highest priority (SelectionAlwaysBest), beside a bindSingleton one that *)
(* was best meanwhile (InFlightAlwaysBest).                                *)
(*                                                                         *)
(* The inductive invariant LifeInv has five parts.  TablesInv: the tables  *)
(* are well formed.  InstInv: the account of the instances, with the list  *)
(* still to be destroyed while stopRegistryOwnedBeans is at work.          *)
(* FramesInv: the calls in progress make beans that are not there, of live *)
(* ones.  UpInv: what a started context has.  LookInv: where the other     *)
(* thread's resolve() stands.  It holds with CallsInv of ContainerProofs;  *)
(* BoundsInv adds the bounds that the types need.                          *)
(*                                                                         *)
(* SelectInv is about what a lookup reads: the index, complete before      *)
(* start() and right since, but for the stages of the bind in progress;    *)
(* the slots of the defaults.  SeenInv relates it to what the other        *)
(* thread's resolve() has in hand.                                         *)
(***************************************************************************)
EXTENDS LifecycleTableProofs

-----------------------------------------------------------------------------
(* The invariant of the registry.                                          *)

\* A call of stopRegistryOwnedBeans is at work.
Doomed(F) == F # <<>> /\ F[Len(F)].at = "destroying"

\* The store, the instances and the queue of bindings; up is started_, and n the
\* number of calls of start() that threw.
InstAll(s, L, I, B, X, up, F, n) ==
    /\ StoreOK(s, L, Len(I)) /\ InstsOK(I, s, B, X, L)
    /\ up \/ Doomed(F) => Len(s.base) = L
    /\ ~up /\ ~Doomed(F) => s = NoStore
    /\ ~Doomed(F) => Lives(I, s, L)
    /\ Doomed(F) => Undone(I, s, L, F[Len(F)].todo)
    /\ \A i \in 1..Len(I) : I[i].life \in {"raw", "raw gone"} => n > 0
    /\ n \in Nat /\ (X # {} => n > 0)

InstInv == InstAll(store, Len(descs), inst, bindings, lost, started, frames, failed)

\* The descriptors that start() makes beans of.
EagerOf(ds) ==
    {d \in 1..Len(ds) : ds[d].life = "singleton" /\ ~ds[d].bound /\ ~ds[d].lazy /\ ds[d].prim = d}

\* A constructor in progress is for a bean that is not there, and was given live
\* beans; its hooks run when the bean is there.  An eager bean is either still
\* to be looked at or there.
FrameOK(f, ds, s, I) ==
    /\ f.op \in {"make", "bind"} => f.desc \in 1..Len(ds)
    /\ f.at = "constructor" =>
            At(s, f.desc) = None /\ \A u \in f.uses : u \in 1..Len(I) /\ I[u].life \in LiveLife
    /\ f.at = "hooks" => At(s, f.desc) \in 1..Len(I)
    /\ f.at = "eager" => /\ f.todo \in Seq(1..Len(ds))
                         /\ \A d \in EagerOf(ds) : Holds(f.todo, d) \/ At(s, d) # None

\* No bean is made twice at a time.
Making(F, n) == n \in 1..Len(F) /\ F[n].at = "constructor"
FramesAll(F, ds, s, I) ==
    /\ \A n \in 1..Len(F) : FrameOK(F[n], ds, s, I)
    /\ \A m, n : Making(F, m) /\ Making(F, n) /\ F[m].desc = F[n].desc => m = n

FramesInv == FramesAll(frames, descs, store, inst)

\* What a started context has: its eager beans and, if no start() ever threw, its bound ones.
UpInv ==
    /\ \A n \in 1..Len(frames) : frames[n].op = "rollback" => failed > 0
    /\ started /\ (frames = <<>> \/ frames[1].op # "start") => \A d \in EagerOf(descs) : At(store, d) # None
    /\ started /\ failed = 0 => \A d \in 1..Len(descs) : descs[d].bound => At(store, d) # None
    /\ phase = "live" /\ frames = <<>> /\ ~started /\ failed = 0 => descs = <<>>

\* The other thread's resolve().
IsLook(l) == l = [at |-> l.at, type |-> l.type, name |-> l.name, desc |-> l.desc, found |-> l.found, seen |-> l.seen]
LookOK(l, ds, s, n) ==
    /\ IsLook(l) /\ l.at \in {"single", "entry", "flag", "find", "done"}
    /\ l.type \in Types /\ l.name \in Names
    /\ l.desc \in 1..Len(ds) \union {NoDesc, Ambiguous}
    /\ l.at \in {"flag", "find"} => l.desc \in 1..Len(ds)
    /\ l.at # "done" => l.found = None
    /\ l.at = "done" /\ l.found # None =>
            /\ l.desc \in 1..Len(ds)
            /\ At(s, IF ds[l.desc].prim = NoDesc THEN l.desc ELSE ds[l.desc].prim) = l.found
    /\ l.at = "done" /\ l.found = None /\ l.desc \in 1..Len(ds) /\ n = 0 => ~ds[l.desc].bound
LookInv ==
    look.at # "idle" =>
        /\ started /\ phase = "live" /\ (frames # <<>> => frames[1].op # "start")
        /\ LookOK(look, descs, store, failed)

LifeInv == TablesInv /\ InstInv /\ FramesInv /\ UpInv /\ LookInv

\* The parts of it that most steps read.
LEMMA InstParts ==
    ASSUME InstInv
    PROVE  /\ StoreOK(store, Len(descs), Len(inst)) /\ InstsOK(inst, store, bindings, lost, Len(descs))
           /\ BindsOK(bindings, lost, Len(inst)) /\ Len(inst) \in Nat /\ failed \in Nat
<1>1. PICK S : S = InstSet(Len(descs))
  OBVIOUS
<1>2. inst \in Seq(S)
  BY <1>1 DEF InstInv, InstAll, InstsOK
<1>3. Len(inst) \in Nat
  BY <1>2
<1> QED
  BY <1>3 DEF InstInv, InstAll, InstsOK

-----------------------------------------------------------------------------
(* The tables.                                                             *)

tables == <<pending, interned, descs, ix, ctxDesc, defaults>>

\* A step that leaves the tables alone keeps them well formed.
LEMMA TablesSame ==
    ASSUME TablesInv, UNCHANGED tables
    PROVE  TablesInv'
BY DEF TablesInv, tables

\* So does a contribution that is submitted, and the release of all of them.
LEMMA TablesDiscover ==
    ASSUME TablesInv, UNCHANGED <<interned, descs, ix, ctxDesc, defaults>>,
           pending' = <<>> \/ \E s \in Seq(Contributed) : pending' = Append(pending, s)
    PROVE  TablesInv'
<1>1. PICK S : S = Seq(Contributed)
  OBVIOUS
<1>2. pending \in Seq(S)
  BY <1>1 DEF TablesInv
<1>3. pending' \in Seq(S)
  <2>1. CASE pending' = <<>>
    BY <2>1
  <2>2. CASE \E s \in Seq(Contributed) : pending' = Append(pending, s)
    <3>1. PICK s \in S : pending' = Append(pending, s)
      BY <1>1, <2>2
    <3> QED
      BY <1>2, <3>1
  <2> QED
    BY <2>1, <2>2
<1> QED
  BY <1>1, <1>3 DEF TablesInv

\* So does start(), rejected or not.
LEMMA TablesStart ==
    ASSUME TablesInv, InstInv, StartRejected \/ StartMerged
    PROVE  TablesInv'
<1>1. BindsOK(bindings, lost, Len(inst)) /\ Len(inst) \in Nat
  BY InstParts
<1>2. PICK b : b = Built
  OBVIOUS
<1>3. PICK L, B : L = Len(descs) /\ B = bindings
  OBVIOUS
<1>4. MergeOK(b, L, B) /\ L \in Nat /\ (b.ok => Len(b.stored) = Len(B))
  BY <1>1, <1>2, <1>3, BuiltOK
<1>5. CASE StartRejected
  <2>1. /\ descs' = b.descs /\ interned' = b.interned /\ ix' = b.ix /\ ctxDesc = NoDesc
        /\ UNCHANGED <<ctxDesc, pending, defaults>>
    BY <1>2, <1>5 DEF StartRejected
  <2>2. TablesOK(b.descs, b.ix, b.interned)
    BY <1>4, MergeIn
  <2> QED
    BY <2>1, <2>2 DEF TablesInv
<1>6. CASE StartMerged
  <2>1. PICK w : w = WithContext(b)
    OBVIOUS
  <2>2. b.ok /\ descs' = w.descs /\ interned' = w.interned /\ ix' = w.ix /\ ctxDesc' = Len(w.descs)
    BY <1>2, <1>6, <2>1 DEF StartMerged
  <2>3. defaults' = [defaults EXCEPT !.size = Len(w.interned)] /\ pending' = pending
    BY <1>2, <1>6, <2>1 DEF StartMerged
  <2>4. defaults'.root = defaults.root /\ defaults'.scoped = defaults.scoped
    BY <2>3
  <2>5. PICK M : Completes(b, L, B, w, M)
    BY <1>4, <2>1, <2>2, WithContextOK
  <2>6. TablesOK(descs', ix', interned') /\ ctxDesc' \in 1..Len(descs')
    BY <2>2, <2>5 DEF Completes
  <2> QED
    BY <2>3, <2>4, <2>6 DEF TablesInv
<1> QED
  BY <1>5, <1>6

\* So does defaultNamed.
LEMMA TablesDefault ==
    ASSUME TablesInv, NEW scoped, NEW t \in Types, NEW n \in Names, SetDefault(scoped, t, n) \/ ClearDefault(scoped, t)
    PROVE  TablesInv'
<1>1. UNCHANGED <<pending, interned, descs, ix, ctxDesc>>
  BY DEF SetDefault, ClearDefault, registry
<1>2. Unnamed \in Names /\ defaults.root \in [Types -> Names] /\ defaults.scoped \in [Types -> Names]
  BY LifecycleConstants DEF TablesInv
<1>3. CASE SetDefault(scoped, t, n)
  <2>1. CASE scoped
    <3>1. defaults' = [defaults EXCEPT !.scopedSize = IF @ = 0 THEN defaults.size ELSE @,
                                       !.scoped[t] = n, !.scopedAny = TRUE]
      BY <1>3, <2>1 DEF SetDefault
    <3>2. defaults'.root = defaults.root
      BY <3>1
    <3>3. defaults'.scoped = [defaults.scoped EXCEPT ![t] = n] \/ defaults'.scoped = defaults.scoped
      BY <3>1
    <3> QED
      BY <1>1, <1>2, <3>2, <3>3 DEF TablesInv
  <2>2. CASE ~scoped
    <3>1. defaults' = [defaults EXCEPT !.root[t] = n, !.any = TRUE]
      BY <1>3, <2>2 DEF SetDefault
    <3>2. defaults'.scoped = defaults.scoped
      BY <3>1
    <3>3. defaults'.root = [defaults.root EXCEPT ![t] = n] \/ defaults'.root = defaults.root
      BY <3>1
    <3> QED
      BY <1>1, <1>2, <3>2, <3>3 DEF TablesInv
  <2> QED
    BY <2>1, <2>2
<1>4. CASE ClearDefault(scoped, t)
  <2>1. CASE scoped
    <3>1. defaults' = [defaults EXCEPT !.scoped[t] = Unnamed]
      BY <1>4, <2>1 DEF ClearDefault
    <3>2. defaults'.root = defaults.root
      BY <3>1
    <3>3. defaults'.scoped = [defaults.scoped EXCEPT ![t] = Unnamed] \/ defaults'.scoped = defaults.scoped
      BY <3>1
    <3> QED
      BY <1>1, <1>2, <3>2, <3>3 DEF TablesInv
  <2>2. CASE ~scoped
    <3>1. defaults' = [defaults EXCEPT !.root[t] = Unnamed]
      BY <1>4, <2>2 DEF ClearDefault
    <3>2. defaults'.scoped = defaults.scoped
      BY <3>1
    <3>3. defaults'.root = [defaults.root EXCEPT ![t] = Unnamed] \/ defaults'.root = defaults.root
      BY <3>1
    <3> QED
      BY <1>1, <1>2, <3>2, <3>3 DEF TablesInv
  <2> QED
    BY <2>1, <2>2
<1> QED
  BY <1>3, <1>4

\* So does bindSingleton when it appends a descriptor.
LEMMA TablesBind ==
    ASSUME TablesInv, NEW k \in Key, BindLate(k)
    PROVE  /\ TablesInv' /\ Goes(descs, BoundDesc(k, Len(descs) + 1), descs') /\ Len(descs) \in Nat
           /\ BoundDesc(k, Len(descs) + 1).bound
<1>1. TablesOK(descs, ix, interned) /\ DescsOK(descs) /\ Len(descs) \in Nat
  BY DescsIn DEF TablesInv, TablesOK
<1>2. PICK d \in Nat \ {0} : d = Len(descs) + 1
  BY <1>1
<1>3. PICK e : e = BoundDesc(k, d)
  OBVIOUS
<1>4. e \in DescSet(d) /\ e.bound /\ e.prim = d /\ k.type \in Types
  BY <1>3, BoundDescIn
<1>5. /\ interned' = Intern(interned, k.type) /\ descs' = Append(descs, e)
      /\ UNCHANGED <<pending, ix, ctxDesc, defaults>>
  BY <1>2, <1>3 DEF BindLate
<1>6. DescsOK(descs') /\ Goes(descs, e, descs')
  BY <1>1, <1>2, <1>4, <1>5, DescsAdd
<1>7. TablesOK(descs, ix, interned')
  BY <1>1, <1>4, <1>5, TablesIntern
<1>8. Len(descs') = d /\ Len(descs) <= d /\ Len(descs) \in Nat
  BY <1>1, <1>2, <1>6 DEF Goes
<1>9. ix' \in Index(Len(descs'))
  <2>1. ix \in Index(Len(descs))
    BY <1>1 DEF TablesOK
  <2>2. ix \in Index(d)
    BY <1>8, <2>1, IndexUp
  <2> QED
    BY <1>5, <1>8, <2>2
<1>10. TablesOK(descs', ix', interned')
  BY <1>6, <1>7, <1>9 DEF TablesOK
<1>11. ctxDesc' \in 1..Len(descs') \union {NoDesc}
  BY <1>5, <1>8 DEF TablesInv
<1>12. TablesInv'
  BY <1>5, <1>10, <1>11 DEF TablesInv
<1> QED
  BY <1>2, <1>3, <1>4, <1>6, <1>8, <1>12

\* So does each step of the rebuild that follows.
LEMMA TablesRebuild ==
    ASSUME CallsInv, TablesInv, FramesInv, BindStep
    PROVE  TablesInv'
<1>1. /\ frames # <<>> /\ Top.op = "bind" /\ ix' = Rebuilt(Top.at, Top.desc)
      /\ UNCHANGED <<pending, interned, descs, ctxDesc, defaults>>
  BY DEF BindStep
<1>2. Len(frames) \in 1..Len(frames) /\ Top = frames[Len(frames)]
  BY <1>1, TopFacts
<1>3. PICK d : d = Top.desc
  OBVIOUS
<1>4. d \in 1..Len(descs)
  BY <1>1, <1>2, <1>3 DEF FramesInv, FramesAll, FrameOK
<1>5. /\ Len(descs) \in Nat /\ descs[d].type \in Types /\ descs[d].name \in Names
      /\ PrioOf(descs) \in [1..Len(descs) -> Int]
  BY <1>4, DescsIn DEF TablesInv, TablesOK
<1>6. Prio \in [1..Len(descs) -> Int]
  BY <1>5 DEF Prio, PrioOf
<1>7. PICK L, p : L = Len(descs) /\ p = Prio
  OBVIOUS
<1>8. L \in Nat /\ ix \in Index(L) /\ p \in [1..L -> Int] /\ d \in 1..L /\ Unnamed \in Names
  BY <1>4, <1>5, <1>6, <1>7, LifecycleConstants DEF TablesInv, TablesOK
<1>9. Top.at \in {"insert", "flush", "order", "singles", "heads", "ties"}
  <2>1. PICK n \in 1..(Len(Stages) - 1) : Top.at = Stages[n]
    BY DEF BindStep
  <2>2. Len(Stages) = 7
    BY DEF Stages
  <2>3. n \in {1, 2, 3, 4, 5, 6}
    BY <2>2
  <2> QED
    BY <2>1, <2>3 DEF Stages
<1>10. ix' \in Index(L)
  <2>1. CASE Top.at = "insert"
    <3>1. ix' = InsertCandidate(ix, descs[d].type, descs[d].name, d)
      BY <1>1, <1>3, <2>1 DEF Rebuilt
    <3> QED
      BY <1>5, <1>8, <3>1, InsertTyped
  <2>2. CASE Top.at = "flush"
    BY <1>1, <1>8, <2>2, FlushTyped DEF Rebuilt
  <2>3. CASE Top.at = "order"
    <3>1. ix' = Order(ix, p)
      BY <1>1, <1>7, <2>3 DEF Rebuilt
    <3> QED
      BY <1>8, <3>1, OrderTyped
  <2>4. CASE Top.at = "singles"
    BY <1>1, <1>8, <2>4, SinglesTyped DEF Rebuilt
  <2>5. CASE Top.at = "heads"
    BY <1>1, <1>8, <2>5, HeadsTyped DEF Rebuilt
  <2>6. CASE Top.at = "ties"
    <3>1. PICK y : y = FindTies(ix, p)
      OBVIOUS
    <3>2. y \in Index(L)
      BY <1>8, <3>1, TiesTyped
    <3>3. ix' = UpdateSingleUnnamed(y, descs[d].type)
      BY <1>1, <1>3, <1>7, <2>6, <3>1 DEF Rebuilt
    <3> QED
      BY <1>5, <1>8, <3>2, <3>3, SinglesTyped
  <2> QED
    BY <1>9, <2>1, <2>2, <2>3, <2>4, <2>5, <2>6
<1> QED
  BY <1>1, <1>7, <1>10 DEF TablesInv, TablesOK

\* Every step of the registry keeps the tables well formed.
LEMMA TablesStep ==
    ASSUME CallsInv, LifeInv, RegistrySteps \/ Stopped
    PROVE  TablesInv'
<1>1. TablesInv /\ InstInv /\ FramesInv
  BY DEF LifeInv
<1>2. /\ \A q \in cat.asks \union cat.looks \union cat.defaults : q.type \in Types /\ q.name \in Names
      /\ \A k \in cat.binds : k \in Key
      /\ \A s \in cat.spans : s \in Seq(Contributed)
  BY ProgramIn
<1>3. CASE StartRejected \/ StartMerged
  BY <1>1, <1>3, TablesStart
<1>4. CASE \E k \in cat.binds : BindLate(k)
  BY <1>1, <1>2, <1>4, TablesBind
<1>5. CASE BindStep
  BY <1>1, <1>5, TablesRebuild
<1>6. CASE \E q \in cat.defaults, scoped \in BOOLEAN : SetDefault(scoped, q.type, q.name) \/ ClearDefault(scoped, q.type)
  BY <1>1, <1>2, <1>6, TablesDefault
<1>7. CASE StartDone \/ \E s \in cat.spans : Discover(s)
  <2>1. UNCHANGED <<interned, descs, ix, ctxDesc, defaults>>
    BY <1>7 DEF StartDone, Discover
  <2>2. pending' = <<>> \/ \E s \in Seq(Contributed) : pending' = Append(pending, s)
    BY <1>2, <1>7 DEF StartDone, Discover
  <2> QED
    BY <1>1, <2>1, <2>2, TablesDiscover
<1>8. CASE \/ StartAgain \/ ContextAnnounced \/ BoundAnnounced \/ EagerFound \/ EagerClaim
           \/ Made \/ MadeReturns \/ MakeThrows \/ StartThrows \/ Stop \/ ExitUnstopped \/ DestroyNext
           \/ ReleaseAll \/ BindDone \/ StopSweeps \/ Stopped \/ DestroyRegistry
  <2>1. UNCHANGED tables
    BY <1>8 DEF tables, registry, StartAgain, ContextAnnounced, BoundAnnounced, EagerFound, EagerClaim, Made, MadeReturns,
       MakeThrows, StartThrows, Stop, ExitUnstopped, DestroyNext, ReleaseAll, BindDone, StopSweeps, Stopped, DestroyRegistry
  <2> QED
    BY <1>1, <2>1, TablesSame
<1>9. CASE \/ LookSteps \/ (\E k \in cat.binds : BindEarly(k)) \/ (\E q \in cat.looks : LookBegin(q.type, q.name))
           \/ \E q \in cat.asks : \/ ResolveFound(q.type, q.name) \/ ResolveUnbuilt(q.type, q.name)
                                  \/ ResolveClaim(q.type, q.name)
  <2>1. UNCHANGED tables
    BY <1>9 DEF tables, registry, LookSteps, LookSingle, LookEntry, LookFlag, LookFind, LookDone, BindEarly, LookBegin,
       ResolveFound, ResolveUnbuilt, ResolveClaim
  <2> QED
    BY <1>1, <2>1, TablesSame
<1> QED
  BY <1>3, <1>4, <1>5, <1>6, <1>7, <1>8, <1>9 DEF RegistrySteps, Claims, Others, LookSteps

-----------------------------------------------------------------------------
(* The store, the instances and the queue.                                 *)

\* A started context destroys nothing, nor does one without calls.
LEMMA UpNotDoomed ==
    ASSUME CallsInv
    PROVE  started \/ frames = <<>> => ~Doomed(frames)
<1> SUFFICES ASSUME started, Doomed(frames) PROVE FALSE
  BY DEF Doomed
<1>1. frames # <<>>
  BY DEF Doomed
<1>2. CallOK(Top, Len(frames), Len(frames), started) /\ Top = frames[Len(frames)]
  BY <1>1, TopFacts
<1> QED
  BY <1>2 DEF Doomed, CallOK, PointOK, Ending

\* The same of the next state.
LEMMA UpNotDoomedNext ==
    ASSUME CallsInv'
    PROVE  started' \/ frames' = <<>> => ~Doomed(frames')
<1> SUFFICES ASSUME started', frames' # <<>>, frames'[Len(frames')].at = "destroying" PROVE FALSE
  BY DEF Doomed
<1>1. IsSeq(frames') /\ \A n \in 1..Len(frames') : CallOK(frames'[n], n, Len(frames'), started')
  BY DEF CallsInv
<1>2. Len(frames') \in 1..Len(frames')
  BY <1>1, SeqFacts
<1> QED
  BY <1>1, <1>2 DEF CallOK, PointOK, Ending

holdings == <<store, descs, inst, bindings, lost, failed>>

\* A step that leaves all of them alone, and destroys nothing.
LEMMA InstSame ==
    ASSUME InstInv, UNCHANGED holdings, started' = started, ~Doomed(frames), ~Doomed(frames')
    PROVE  InstInv'
BY DEF InstInv, InstAll, holdings

\* The same beside a destruction in progress.
LEMMA InstBeside ==
    ASSUME InstInv, UNCHANGED holdings, started' <=> started, frames' = frames
    PROVE  InstInv'
BY DEF InstInv, InstAll, holdings

\* bindSingleton() before start() keeps the account of the instances.
LEMMA InstBindEarly ==
    ASSUME TablesInv, InstInv, NEW k \in Key, BindEarly(k)
    PROVE  InstInv'
<1>1. /\ StoreOK(store, Len(descs), Len(inst)) /\ InstsOK(inst, store, bindings, lost, Len(descs))
      /\ Len(inst) \in Nat /\ Len(descs) \in Nat
  BY InstParts, DescsIn DEF TablesInv, TablesOK
<1>2. PICK K, L : K = Len(inst) /\ L = Len(descs)
  OBVIOUS
<1>3. /\ inst' = Append(inst, NewInst(NoDesc, {})) /\ bindings' = Append(bindings, [key |-> k, inst |-> K + 1])
      /\ UNCHANGED <<started, store, descs, frames, lost, failed>>
  BY <1>2 DEF BindEarly
<1>4. /\ InstsOK(inst', store, bindings', lost, L)
      /\ Lives(inst, store, L) => Lives(inst', store, L)
      /\ \A q : Undone(inst, store, L, q) => Undone(inst', store, L, q)
  BY <1>1, <1>2, <1>3, InstsQueue
<1>5. PICK S : S = InstSet(L)
  OBVIOUS
<1>6. inst \in Seq(S) /\ NewInst(NoDesc, {}) \in S
  BY <1>1, <1>2, <1>5 DEF InstsOK, NewInst, InstSet
<1>7. /\ Len(inst') = K + 1 /\ \A i \in 1..K : inst'[i] = inst[i]
      /\ inst'[K + 1] = NewInst(NoDesc, {})
  BY <1>2, <1>3, <1>6
<1>8. StoreOK(store, L, K + 1)
  BY <1>1, <1>2, StoreUp
<1>9. \A i \in 1..Len(inst') : inst'[i].life \in {"raw", "raw gone"} => failed > 0
  <2> TAKE i \in 1..Len(inst')
  <2>1. CASE i \in 1..K
    BY <1>2, <1>7, <2>1 DEF InstInv, InstAll
  <2>2. CASE i = K + 1
    <3>1. inst'[i].life = "made"
      BY <1>7, <2>2 DEF NewInst
    <3> QED
      BY <3>1
  <2>3. i \in 1..K \/ i = K + 1
    BY <1>1, <1>2, <1>7
  <2> QED
    BY <2>1, <2>2, <2>3
<1> QED
  BY <1>2, <1>3, <1>4, <1>7, <1>8, <1>9 DEF InstInv, InstAll

\* So does a start() that is rejected.
LEMMA InstRejected ==
    ASSUME TablesInv, InstInv, StartRejected
    PROVE  InstInv'
<1>1. /\ StoreOK(store, Len(descs), Len(inst)) /\ InstsOK(inst, store, bindings, lost, Len(descs))
      /\ Len(inst) \in Nat /\ Len(descs) \in Nat /\ failed \in Nat /\ BindsOK(bindings, lost, Len(inst))
  BY InstParts, DescsIn DEF TablesInv, TablesOK
<1>2. /\ frames = <<>> /\ ~started /\ UNCHANGED <<started, store, inst, frames>> /\ failed' = failed + 1
      /\ descs' = Built.descs
  BY DEF StartRejected, Idle
<1>3. ~Doomed(frames) /\ ~Doomed(frames') /\ store = NoStore
  <2>1. ~Doomed(frames) /\ ~Doomed(frames')
    BY <1>2 DEF Doomed
  <2> QED
    BY <1>2, <2>1 DEF InstInv, InstAll
<1>4. PICK L, M : L = Len(descs) /\ M = Len(descs')
  OBVIOUS
<1>5. L <= M /\ M \in Nat /\ L \in Nat
  <2>1. PICK b, B : b = Built /\ B = bindings
    OBVIOUS
  <2>2. MergeOK(b, L, B)
    BY <1>1, <1>4, <2>1, BuiltOK
  <2>3. L <= Len(b.descs) /\ Len(b.descs) \in Nat
    BY <2>2, MergeIn
  <2> QED
    BY <1>1, <1>2, <1>4, <2>1, <2>3
<1>6. InstsOK(inst, NoStore, bindings, lost, M) /\ Lives(inst, NoStore, M)
  BY <1>1, <1>3, <1>4, <1>5, InstsUp
<1>7. InstsOK(inst, NoStore, bindings', lost', M)
  <2>1. CASE Adopted.ok
    <3>1. bindings' = <<>> /\ lost' = lost \union {bindings[n].inst : n \in 1..Len(bindings)}
      BY <2>1 DEF StartRejected
    <3> QED
      BY <1>5, <1>6, <3>1, InstsLost
  <2>2. CASE ~Adopted.ok
    <3>1. bindings' = bindings /\ lost' = lost
      BY <2>2 DEF StartRejected
    <3> QED
      BY <1>6, <3>1
  <2> QED
    BY <2>1, <2>2
<1>8. StoreOK(NoStore, M, Len(inst))
  BY <1>1, <1>5, NoStoreOK
<1>9. failed' \in Nat /\ failed' > 0
  BY <1>1, <1>2
<1> QED
  BY <1>2, <1>3, <1>4, <1>6, <1>7, <1>8, <1>9 DEF InstInv, InstAll

\* So does start(), which stores the instances that were bound.
LEMMA InstMerged ==
    ASSUME TablesInv, InstInv, StartMerged, ~Doomed(frames')
    PROVE  /\ InstInv'
           /\ \E w, M : /\ Completes(Built, Len(descs), bindings, w, M) /\ descs' = w.descs
                        /\ Filled(store', w.stored, M)
<1>1. /\ StoreOK(store, Len(descs), Len(inst)) /\ InstsOK(inst, store, bindings, lost, Len(descs))
      /\ Len(inst) \in Nat /\ Len(descs) \in Nat /\ failed \in Nat /\ BindsOK(bindings, lost, Len(inst))
  BY InstParts, DescsIn DEF TablesInv, TablesOK
<1>2. /\ frames = <<>> /\ ~started
  BY DEF StartMerged, Idle
<1>3. ~Doomed(frames) /\ store = NoStore
  <2>1. ~Doomed(frames)
    BY <1>2 DEF Doomed
  <2> QED
    BY <1>2, <2>1 DEF InstInv, InstAll
<1>4. PICK b, L, B, w, K : b = Built /\ L = Len(descs) /\ B = bindings /\ w = WithContext(b) /\ K = Len(inst)
  OBVIOUS
<1>5. MergeOK(b, L, B) /\ L \in Nat /\ (b.ok => Len(b.stored) = Len(B))
  BY <1>1, <1>4, BuiltOK
<1>6. b.ok /\ descs' = w.descs /\ store' = FilledStore(w)
  BY <1>4 DEF StartMerged
<1>7. PICK M : Completes(b, L, B, w, M)
  BY <1>4, <1>5, <1>6, WithContextOK
<1>8. M = Len(w.descs) /\ M \in Nat \ {0} /\ L <= M /\ Fills(w.stored, B, M)
  BY <1>7 DEF Completes
<1>9. PICK T : T = w.stored
  OBVIOUS
<1>10. StoreOK(store', M, K) /\ Len(store'.base) = M /\ Filled(store', T, M)
  <2>1. BindsOK(B, lost, K) /\ Fills(T, B, M) /\ Len(w.descs) = M /\ K \in Nat
    BY <1>1, <1>4, <1>8, <1>9
  <2> QED
    BY <1>6, <1>8, <1>9, <2>1, FilledOK
<1>11. Settles(inst, T, inst')
  <2>1. inst' = [i \in 1..Len(inst) |->
                    IF \E n \in 1..Len(w.stored) : w.stored[n].inst = i
                    THEN [inst[i] EXCEPT !.desc = w.stored[CHOOSE n \in 1..Len(w.stored) : w.stored[n].inst = i].desc]
                    ELSE inst[i]]
    BY <1>4 DEF StartMerged
  <2> QED
    BY <1>9, <2>1 DEF Settles
<1>12. /\ InstsOK(inst', store', <<>>, lost, M) /\ Lives(inst', store', M) /\ Len(inst') = K
       /\ \A i \in 1..K : inst'[i].life = inst[i].life
  <2>1. InstsOK(inst, NoStore, B, lost, L) /\ Fills(T, B, M)
    BY <1>1, <1>3, <1>4, <1>8, <1>9
  <2> QED
    BY <1>4, <1>5, <1>8, <1>10, <1>11, <2>1, InstsMerged
<1>13. started' /\ bindings' = <<>> /\ UNCHANGED <<failed, lost>>
  BY DEF StartMerged
<1>14. \A i \in 1..Len(inst') : inst'[i].life \in {"raw", "raw gone"} => failed' > 0
  BY <1>4, <1>12, <1>13 DEF InstInv, InstAll
<1>15. Len(descs') = M
  BY <1>6, <1>8
<1>16. lost' # {} => failed' > 0
  BY <1>13 DEF InstInv, InstAll
<1>17. InstInv'
  BY <1>1, <1>10, <1>12, <1>13, <1>14, <1>15, <1>16 DEF InstInv, InstAll
<1> QED
  BY <1>4, <1>6, <1>7, <1>9, <1>10, <1>17

\* A store with nothing but the context.
LEMMA InstsResized ==
    ASSUME NEW L \in Nat, NEW I, NEW B, NEW X, InstsOK(I, NoStore, B, X, L), NEW r,
           \A d \in 1..L : At(r, d) \in {None, CtxInst}
    PROVE  InstsOK(I, r, B, X, L) /\ Lives(I, r, L)
<1>1. \A i \in 1..Len(I) : I[i].life \in LiveLife => Owed(B, X, i)
  BY InstsUp
<1>2. None \notin Nat /\ CtxInst \notin Nat
  BY NoNumbers
<1>3. \A d \in 1..L : At(r, d) \notin 1..Len(I)
  BY <1>2
<1>4. \A i \in 1..Len(I) : InstOK(I, r, B, X, L, i)
  BY <1>1 DEF InstsOK, InstOK
<1> QED
  BY <1>3, <1>4 DEF InstsOK, Lives

\* So does the start() after one that threw.
LEMMA InstAgain ==
    ASSUME TablesInv, InstInv, StartAgain, ~Doomed(frames')
    PROVE  InstInv'
<1>1. /\ StoreOK(store, Len(descs), Len(inst)) /\ InstsOK(inst, store, bindings, lost, Len(descs))
      /\ Len(inst) \in Nat /\ Len(descs) \in Nat /\ failed \in Nat
  BY InstParts, DescsIn DEF TablesInv, TablesOK
<1>2. frames = <<>> /\ ~started /\ ctxDesc # NoDesc
  BY DEF StartAgain, Idle
<1>3. ~Doomed(frames) /\ store = NoStore
  <2>1. ~Doomed(frames)
    BY <1>2 DEF Doomed
  <2> QED
    BY <1>2, <2>1 DEF InstInv, InstAll
<1>4. PICK L, K : L = Len(descs) /\ K = Len(inst)
  OBVIOUS
<1>5. /\ store' = StoreAt(ResizeStore(NoStore, L), ctxDesc, CtxInst) /\ started'
      /\ UNCHANGED <<descs, inst, bindings, lost, failed>>
  BY <1>3, <1>4 DEF StartAgain, registry
<1>6. ctxDesc \in 1..L
  BY <1>2, <1>4 DEF TablesInv
<1>7. /\ StoreOK(store', L, K) /\ Len(store'.base) = L
      /\ \A d \in 1..L : At(store', d) = IF d = ctxDesc THEN CtxInst ELSE None
  BY <1>1, <1>4, <1>5, <1>6, ResizeOK
<1>8. \A d \in 1..L : At(store', d) \in {None, CtxInst}
  BY <1>7
<1>9. InstsOK(inst, store', bindings, lost, L) /\ Lives(inst, store', L)
  BY <1>1, <1>3, <1>4, <1>8, InstsResized
<1> QED
  BY <1>4, <1>5, <1>7, <1>9 DEF InstInv, InstAll

\* An instance is made and stored: x for the descriptor d.
Makes(d, x) ==
    /\ d \in 1..Len(descs) /\ At(store, d) = None /\ started /\ started' /\ ~Doomed(frames) /\ ~Doomed(frames')
    /\ x \in InstSet(Len(descs)) /\ x.desc = d /\ x.life \in LiveLife /\ (x.life = "raw" => failed > 0)
    /\ \A u \in x.uses : u \in 1..Len(inst) /\ inst[u].life \in LiveLife
    /\ inst' = Append(inst, x) /\ store' = StoreAt(store, d, Len(inst) + 1)
    /\ UNCHANGED <<descs, bindings, lost, failed>>

\* What a step adds to the store and to the instances.
Adds(d) ==
    /\ Len(inst') = Len(inst) + 1 /\ \A i \in 1..Len(inst) : inst'[i] = inst[i]
    /\ \A e \in 1..Len(descs') : At(store', e) = IF e = d THEN Len(inst) + 1 ELSE At(store, e)

\* That keeps the account, and adds to the store what it says.
LEMMA InstMakes ==
    ASSUME TablesInv, InstInv, NEW d, NEW x, Makes(d, x)
    PROVE  InstInv' /\ Adds(d)
<1>1. /\ StoreOK(store, Len(descs), Len(inst)) /\ InstsOK(inst, store, bindings, lost, Len(descs))
      /\ Len(inst) \in Nat /\ Len(descs) \in Nat /\ failed \in Nat
  BY InstParts, DescsIn DEF TablesInv, TablesOK
<1>2. PICK L, K : L = Len(descs) /\ K = Len(inst)
  OBVIOUS
<1>3. /\ d \in 1..L /\ At(store, d) = None /\ started /\ started' /\ ~Doomed(frames) /\ ~Doomed(frames')
      /\ x \in InstSet(L) /\ x.desc = d /\ x.life \in LiveLife /\ (x.life = "raw" => failed > 0)
      /\ \A u \in x.uses : u \in 1..K /\ inst[u].life \in LiveLife
      /\ inst' = Append(inst, x) /\ store' = StoreAt(store, d, K + 1)
      /\ UNCHANGED <<descs, bindings, lost, failed>>
  BY <1>2 DEF Makes
<1>4. Len(store.base) = L /\ Lives(inst, store, L)
  BY <1>2, <1>3 DEF InstInv, InstAll
<1>5. StoreOK(store', L, K + 1) /\ Len(store'.base) = L /\ Puts(store, d, K + 1, L, store')
  BY <1>1, <1>2, <1>3, <1>4, StoreAtOK
<1>6. Gains(inst, store, L, d, x, inst', store', L)
  <2>1. \A e \in 1..L : e \notin 1..L => At(store, e) = None
    OBVIOUS
  <2>2. L <= L
    BY <1>1, <1>2
  <2> QED
    BY <1>1, <1>2, <1>3, <1>5, <2>1, <2>2 DEF Gains
<1>9. /\ InstsOK(inst', store', bindings, lost, L) /\ Lives(inst', store', L)
      /\ Len(inst') = K + 1 /\ (\A i \in 1..K : inst'[i] = inst[i]) /\ inst'[K + 1] = x
  BY <1>1, <1>2, <1>4, <1>6, InstsAdd
<1>10. \A i \in 1..Len(inst') : inst'[i].life \in {"raw", "raw gone"} => failed > 0
  <2> TAKE i \in 1..Len(inst')
  <2>1. CASE i \in 1..K
    BY <1>2, <1>9, <2>1 DEF InstInv, InstAll
  <2>2. CASE i = K + 1
    BY <1>3, <1>9, <2>2 DEF LiveLife
  <2>3. i \in 1..K \/ i = K + 1
    BY <1>1, <1>2, <1>9
  <2> QED
    BY <2>1, <2>2, <2>3
<1>11. InstInv'
  BY <1>2, <1>3, <1>5, <1>9, <1>10 DEF InstInv, InstAll
<1> QED
  BY <1>2, <1>3, <1>5, <1>9, <1>11 DEF Adds, Puts

\* Past the array there is nothing.
LEMMA AtPast ==
    ASSUME NEW L \in Nat, NEW K \in Nat, NEW s, StoreOK(s, L, K), NEW d \in Nat, d \notin 1..L
    PROVE  At(s, d) = None
<1>1. Len(s.base) <= L
  BY DEF StoreOK
<1>2. PICK S : S = SlotSet(K)
  OBVIOUS
<1>3. s.base \in Seq(S)
  BY <1>2 DEF StoreOK
<1>4. Len(s.base) \in Nat
  BY <1>3
<1>5. d \notin 1..Len(s.base)
  BY <1>1, <1>4
<1> QED
  BY <1>5 DEF At

\* So does bindSingleton once started, which adds a descriptor and its instance.
LEMMA InstBindLate ==
    ASSUME TablesInv, InstInv, ~Doomed(frames), ~Doomed(frames'), NEW k \in Key, BindLate(k)
    PROVE  InstInv' /\ Adds(Len(descs) + 1)
<1>1. /\ StoreOK(store, Len(descs), Len(inst)) /\ InstsOK(inst, store, bindings, lost, Len(descs))
      /\ Len(inst) \in Nat /\ Len(descs) \in Nat /\ failed \in Nat
  BY InstParts, DescsIn DEF TablesInv, TablesOK
<1>2. PICK L, K, M : L = Len(descs) /\ K = Len(inst) /\ M = L + 1
  OBVIOUS
<1>3. /\ started /\ started' /\ inst' = Append(inst, NewInst(M, {})) /\ store' = GrowAndStore(store, M, K + 1)
      /\ UNCHANGED <<bindings, lost, failed>>
  BY <1>2 DEF BindLate
<1>4. Len(descs') = M
  <2>1. Goes(descs, BoundDesc(k, Len(descs) + 1), descs')
    BY TablesBind
  <2> QED
    BY <1>2, <2>1 DEF Goes
<1>5. Len(store.base) = L /\ Lives(inst, store, L)
  BY <1>2, <1>3 DEF InstInv, InstAll
<1>6. L \in Nat /\ K \in Nat /\ M \in Nat /\ L <= M /\ M \in 1..M /\ M \notin 1..L
  BY <1>1, <1>2
<1>7. StoreOK(store', M, K + 1) /\ Len(store'.base) = M /\ Puts(store, M, K + 1, M, store')
  <2>1. store' = GrowAndStore(store, L + 1, K + 1) /\ StoreOK(store, L, K)
    BY <1>1, <1>2, <1>3
  <2> QED
    BY <1>2, <1>5, <1>6, <2>1, GrowOK
<1>8. PICK x : x = NewInst(M, {})
  OBVIOUS
<1>9. x \in InstSet(M) /\ x.desc = M /\ x.life = "made" /\ x.uses = {}
  BY <1>6, <1>8 DEF NewInst, InstSet
<1>10. \A d \in 1..M : d \notin 1..L => At(store, d) = None
  BY <1>1, <1>2, <1>6, AtPast
<1>11. Gains(inst, store, L, M, x, inst', store', M)
  BY <1>2, <1>3, <1>6, <1>7, <1>8, <1>9, <1>10 DEF Gains, LiveLife
<1>12. /\ InstsOK(inst', store', bindings, lost, M) /\ Lives(inst', store', M)
       /\ Len(inst') = K + 1 /\ (\A i \in 1..K : inst'[i] = inst[i]) /\ inst'[K + 1] = x
  BY <1>1, <1>2, <1>5, <1>11, InstsAdd
<1>13. \A i \in 1..Len(inst') : inst'[i].life \in {"raw", "raw gone"} => failed > 0
  <2> TAKE i \in 1..Len(inst')
  <2>1. CASE i \in 1..K
    BY <1>2, <1>12, <2>1 DEF InstInv, InstAll
  <2>2. CASE i = K + 1
    BY <1>9, <1>12, <2>2
  <2>3. i \in 1..K \/ i = K + 1
    BY <1>6, <1>12
  <2> QED
    BY <2>1, <2>2, <2>3
<1>14. InstInv'
  BY <1>3, <1>4, <1>7, <1>12, <1>13 DEF InstInv, InstAll
<1> QED
  BY <1>2, <1>4, <1>7, <1>12, <1>14 DEF Adds, Puts

\* Destruction begins with the account as it is: all that is stored is to be destroyed.
LEMMA InstDoom ==
    ASSUME TablesInv, InstInv, started, ~Doomed(frames), ~started', Doomed(frames'),
           UNCHANGED <<store, descs, inst, bindings, lost>>,
           failed' \in Nat, failed' >= failed, frames'[Len(frames')].todo = DestructionOrder
    PROVE  InstInv'
<1>1. /\ StoreOK(store, Len(descs), Len(inst)) /\ InstsOK(inst, store, bindings, lost, Len(descs))
      /\ Len(inst) \in Nat /\ Len(descs) \in Nat /\ failed \in Nat
  BY InstParts, DescsIn DEF TablesInv, TablesOK
<1>2. PICK q, L, K : q = DestructionOrder /\ L = Len(descs) /\ K = Len(inst)
  OBVIOUS
<1>3. q = Reverse(store.order)
  BY <1>2 DEF DestructionOrder
<1>4. Lives(inst, store, L) /\ Len(store.base) = L
  BY <1>2 DEF InstInv, InstAll
<1>5. Undone(inst, store, L, q)
  BY <1>1, <1>2, <1>3, <1>4, ReverseUndone
<1>6. /\ \A i \in 1..Len(inst) : inst[i].life \in {"raw", "raw gone"} => failed' > 0
      /\ lost # {} => failed' > 0
  <2>1. /\ \A i \in 1..Len(inst) : inst[i].life \in {"raw", "raw gone"} => failed > 0
        /\ lost # {} => failed > 0
    BY DEF InstInv, InstAll
  <2>2. failed > 0 => failed' > 0
    BY <1>1
  <2> QED
    BY <2>1, <2>2
<1> QED
  BY <1>1, <1>2, <1>4, <1>5, <1>6 DEF InstInv, InstAll

\* It goes on: the next one is destroyed, and its own dependencies later.
LEMMA InstDestroyNext ==
    ASSUME CallsInv, TablesInv, InstInv, DestroyNext
    PROVE  InstInv'
<1>1. /\ StoreOK(store, Len(descs), Len(inst)) /\ InstsOK(inst, store, bindings, lost, Len(descs))
      /\ Len(inst) \in Nat /\ Len(descs) \in Nat /\ failed \in Nat
  BY InstParts, DescsIn DEF TablesInv, TablesOK
<1>2. frames # <<>> /\ Top.at = "destroying" /\ Top.todo # <<>>
  BY DEF DestroyNext
<1>3. /\ Top = frames[Len(frames)] /\ IsCall(Top) /\ CallOK(Top, Len(frames), Len(frames), started) /\ Doomed(frames)
      /\ Depth = Len(frames) /\ Len(frames) \in 1..Len(frames)
  BY <1>2, TopFacts DEF CallOK, Doomed
<1>4. PICK L, K, q : L = Len(descs) /\ K = Len(inst) /\ q = Top.todo
  OBVIOUS
<1>5. Undone(inst, store, L, q) /\ Len(store.base) = L
  BY <1>3, <1>4 DEF InstInv, InstAll
<1>6. q \in Seq(1..L) /\ q # <<>> /\ q[1] \in 1..L /\ Head(q) = q[1]
  <2>1. q \in Seq(1..L) /\ q # <<>>
    BY <1>2, <1>4, <1>5 DEF Undone
  <2>2. PICK S : S = 1..L
    OBVIOUS
  <2>3. q \in Seq(S) /\ q # <<>>
    BY <2>1, <2>2
  <2>4. q[1] \in S /\ Head(q) = q[1]
    BY <2>3
  <2> QED
    BY <2>1, <2>2, <2>4
<1>7. PICK i : i = Find(Head(q))
  OBVIOUS
<1>8. i = At(store, q[1])
  BY <1>1, <1>4, <1>6, <1>7, FindIs DEF Find
<1>9. Ends(inst, i, inst')
  <2>1. inst' = IF i \in {None, CtxInst} THEN inst ELSE Destroyed(i)
    BY <1>4, <1>7 DEF DestroyNext
  <2> QED
    BY <2>1 DEF Ends, Destroyed
<1>10. /\ InstsOK(inst', store, bindings, lost, L) /\ Undone(inst', store, L, Tail(q)) /\ Len(inst') = K
       /\ \A k \in 1..K : inst'[k].life \in {"raw", "raw gone"} => inst[k].life \in {"raw", "raw gone"}
  <2>1. PICK I, s, B, X, J, y : y = Tail(q) /\ I = inst /\ s = store /\ B = bindings /\ X = lost /\ J = inst'
    OBVIOUS
  <2>2. /\ K \in Nat /\ L \in Nat /\ K = Len(I) /\ StoreOK(s, L, K) /\ InstsOK(I, s, B, X, L) /\ Undone(I, s, L, q)
        /\ DestroysFirst(I, s, q, y, J)
    BY <1>1, <1>4, <1>5, <1>6, <1>8, <1>9, <2>1 DEF DestroysFirst
  <2>3. InstsOK(J, s, B, X, L) /\ Undone(J, s, L, y) /\ NoNewRaw(I, J)
    BY <2>2, InstsDestroy
  <2> QED
    BY <2>1, <2>2, <2>3 DEF NoNewRaw
<1>11. PICK f : SetTodo(Top, Tail(q), f)
  BY DEF SetTodo
<1>12. Goto(f) /\ UNCHANGED <<phase, started, cat, store, descs, bindings, lost, failed>>
  <2>1. Goto([Top EXCEPT !.todo = Tail(@)])
    BY DEF DestroyNext
  <2>2. f = [Top EXCEPT !.todo = Tail(@)]
    BY <1>3, <1>4, <1>11 DEF SetTodo
  <2> QED
    BY <2>1, <2>2 DEF DestroyNext, registry
<1>13. /\ IsCall(f) /\ f.op = Top.op /\ f.at = "destroying" /\ f.todo = Tail(q)
  <2>1. PICK t, y : t = Top /\ y = Tail(q)
    OBVIOUS
  <2>2. IsCall(t) /\ SetTodo(t, y, f)
    BY <1>3, <1>11, <2>1
  <2>3. IsCall(f) /\ f.op = t.op /\ f.at = t.at /\ f.todo = y
    BY <2>2, CallTodo
  <2> QED
    BY <1>2, <2>1, <2>3
<1>14. PointOK(f)
  BY <1>2, <1>3, <1>13 DEF CallOK, PointOK
<1>15. Len(frames') = Len(frames) /\ frames'[Len(frames)] = f
  BY <1>2, <1>3, <1>12, <1>13, <1>14, CallsGoto
<1>16. Doomed(frames') /\ frames'[Len(frames')].todo = Tail(q)
  <2>1. frames' # <<>>
    BY <1>3, <1>15
  <2> QED
    BY <1>13, <1>15, <2>1 DEF Doomed
<1>17. \A k \in 1..Len(inst') : inst'[k].life \in {"raw", "raw gone"} => failed > 0
  BY <1>4, <1>10 DEF InstInv, InstAll
<1> QED
  BY <1>1, <1>4, <1>5, <1>10, <1>12, <1>16, <1>17 DEF InstInv, InstAll

\* It ends with releaseAll(), of a store in which nothing is alive.
LEMMA InstReleaseAll ==
    ASSUME CallsInv, TablesInv, InstInv, ReleaseAll, ~Doomed(frames')
    PROVE  InstInv'
<1>1. /\ StoreOK(store, Len(descs), Len(inst)) /\ InstsOK(inst, store, bindings, lost, Len(descs))
      /\ Len(inst) \in Nat /\ Len(descs) \in Nat /\ failed \in Nat
  BY InstParts, DescsIn DEF TablesInv, TablesOK
<1>2. frames # <<>> /\ Top.at = "destroying" /\ Top.todo = <<>>
  BY DEF ReleaseAll
<1>3. Top = frames[Len(frames)] /\ CallOK(Top, Len(frames), Len(frames), started) /\ Doomed(frames)
  BY <1>2, TopFacts DEF Doomed
<1>4. ~started
  BY <1>2, <1>3 DEF CallOK, PointOK, Ending
<1>5. PICK L, K : L = Len(descs) /\ K = Len(inst)
  OBVIOUS
<1>6. Undone(inst, store, L, <<>>)
  BY <1>2, <1>3, <1>5 DEF InstInv, InstAll
<1>7. InstsOK(inst, NoStore, bindings, lost, L) /\ Lives(inst, NoStore, L)
  BY <1>1, <1>5, <1>6, InstsReleased
<1>8. store' = NoStore /\ UNCHANGED <<started, descs, inst, bindings, lost, failed>>
  BY DEF ReleaseAll, registry
<1>9. StoreOK(NoStore, L, K)
  BY <1>1, <1>5, NoStoreOK
<1> QED
  BY <1>4, <1>5, <1>7, <1>8, <1>9 DEF InstInv, InstAll

\* ~Registry destroys the queue, which is all that is left.
LEMMA InstRegistryEnds ==
    ASSUME CallsInv, TablesInv, InstInv, DestroyRegistry
    PROVE  InstInv'
<1>1. /\ StoreOK(store, Len(descs), Len(inst)) /\ InstsOK(inst, store, bindings, lost, Len(descs))
      /\ Len(inst) \in Nat /\ Len(descs) \in Nat /\ failed \in Nat
  BY InstParts, DescsIn DEF TablesInv, TablesOK
<1>2. ~started /\ ~Doomed(frames)
  <2>1. CASE phase = "stopped"
    BY <2>1 DEF CallsInv, Doomed
  <2>2. CASE In("exit", "released")
    <3>1. frames # <<>> /\ Top.op = "exit" /\ Top.at = "released"
      BY <2>2 DEF In
    <3>2. Top = frames[Len(frames)] /\ CallOK(Top, Len(frames), Len(frames), started)
      BY <3>1, TopFacts
    <3> QED
      BY <3>1, <3>2 DEF CallOK, Ending, Doomed
  <2> QED
    BY <2>1, <2>2 DEF DestroyRegistry
<1>3. store = NoStore /\ ~Doomed(<<>>)
  BY <1>2 DEF InstInv, InstAll, Doomed
<1>4. frames' = <<>> /\ bindings' = <<>> /\ UNCHANGED <<started, store, descs, lost, failed>>
  BY DEF DestroyRegistry
<1>5. EndsAll(inst, bindings, inst')
  <2>1. inst' = [i \in 1..Len(inst) |->
                    IF \E n \in 1..Len(bindings) : bindings[n].inst = i THEN Destroyed(i)[i] ELSE inst[i]]
    BY DEF DestroyRegistry
  <2>2. inst' = [i \in 1..Len(inst) |-> inst'[i]]
    BY <2>1
  <2>3. ASSUME NEW i \in 1..Len(inst)
        PROVE IF \E n \in 1..Len(bindings) : bindings[n].inst = i
              THEN \E G : Ends(inst, i, G) /\ inst'[i] = G[i] ELSE inst'[i] = inst[i]
    <3>1. CASE \E n \in 1..Len(bindings) : bindings[n].inst = i
      <4>1. PICK G : G = Destroyed(i)
        OBVIOUS
      <4>2. inst'[i] = G[i]
        BY <2>1, <3>1, <4>1
      <4>3. i \notin {None, CtxInst}
        BY <1>1, NoNumbers
      <4>4. Ends(inst, i, G)
        BY <4>1, <4>3 DEF Ends, Destroyed
      <4> QED
        BY <3>1, <4>2, <4>4
    <3>2. CASE ~\E n \in 1..Len(bindings) : bindings[n].inst = i
      BY <2>1, <3>2
    <3> QED
      BY <3>1, <3>2
  <2> QED
    BY <2>2, <2>3 DEF EndsAll
<1>6. PICK L : L = Len(descs)
  OBVIOUS
<1>7. /\ InstsOK(inst', NoStore, <<>>, lost, L) /\ Len(inst') = Len(inst)
      /\ \A i \in 1..Len(inst) : inst'[i].life \in {"raw", "raw gone"} => inst[i].life \in {"raw", "raw gone"}
  <2>1. PICK I, B, X, J : I = inst /\ B = bindings /\ X = lost /\ J = inst'
    OBVIOUS
  <2>2. L \in Nat /\ InstsOK(I, NoStore, B, X, L) /\ EndsAll(I, B, J)
    BY <1>1, <1>3, <1>5, <1>6, <2>1
  <2>3. /\ InstsOK(J, NoStore, <<>>, X, L) /\ Len(J) = Len(I)
        /\ \A i \in 1..Len(I) : J[i].life \in {"raw", "raw gone"} => I[i].life \in {"raw", "raw gone"}
    BY <2>2, InstsEnd
  <2> QED
    BY <2>1, <2>3
<1>8. Lives(inst', NoStore, L) /\ StoreOK(NoStore, L, Len(inst'))
  <2>1. StoreOK(NoStore, L, Len(inst')) /\ \A d : At(NoStore, d) = None
    BY <1>1, <1>6, <1>7, NoStoreOK
  <2>2. None \notin 1..Len(inst')
    <3>1. Len(inst') \in Nat /\ None \notin Nat
      BY <1>1, <1>7, NoNumbers
    <3> QED
      BY <3>1
  <2> QED
    BY <2>1, <2>2 DEF Lives
<1>9. \A k \in 1..Len(inst') : inst'[k].life \in {"raw", "raw gone"} => failed > 0
  BY <1>7 DEF InstInv, InstAll
<1>10. lost # {} => failed > 0
  BY DEF InstInv, InstAll
<1> QED
  BY <1>1, <1>2, <1>3, <1>4, <1>6, <1>7, <1>8, <1>9, <1>10 DEF InstInv, InstAll

\* A constructor that returns makes an instance of the bean its call is for.
LEMMA MadeMakes ==
    ASSUME CallsInv, CallsInv', LifeInv, Made
    PROVE  /\ Makes(Top.desc, NewInst(Top.desc, Top.uses))
           /\ started /\ started' /\ frames # <<>> /\ Top.desc \in 1..Len(descs)
<1>1. TablesInv /\ InstInv /\ FramesInv
  BY DEF LifeInv
<1>2. /\ frames # <<>> /\ Top.op = "make" /\ Top.at = "constructor"
      /\ inst' = Append(inst, NewInst(Top.desc, Top.uses)) /\ store' = StoreAt(store, Top.desc, Len(inst) + 1)
      /\ UNCHANGED <<started, descs, bindings, lost, failed>>
  BY DEF Made, In, registry
<1>3. Top = frames[Len(frames)] /\ CallOK(Top, Len(frames), Len(frames), started) /\ Len(frames) \in 1..Len(frames)
  BY <1>2, TopFacts
<1>4. started
  BY <1>2, <1>3 DEF CallOK, Ending
<1>5. ~Doomed(frames) /\ ~Doomed(frames')
  BY <1>2, <1>4, UpNotDoomed, UpNotDoomedNext
<1>6. PICK d, U : d = Top.desc /\ U = Top.uses
  OBVIOUS
<1>7. d \in 1..Len(descs) /\ At(store, d) = None /\ \A u \in U : u \in 1..Len(inst) /\ inst[u].life \in LiveLife
  BY <1>1, <1>2, <1>3, <1>6 DEF FramesInv, FramesAll, FrameOK
<1>8. PICK x : x = NewInst(d, U)
  OBVIOUS
<1>9. x \in InstSet(Len(descs)) /\ x.desc = d /\ x.life = "made" /\ x.uses = U
  <2>1. U \in SUBSET Nat
    BY <1>7
  <2> QED
    BY <1>7, <1>8, <2>1 DEF NewInst, InstSet
<1>10. Makes(d, x)
  BY <1>2, <1>4, <1>5, <1>6, <1>7, <1>8, <1>9 DEF Makes, LiveLife
<1> QED
  BY <1>2, <1>4, <1>6, <1>7, <1>8, <1>10

\* resolve() of a bean whose factory was not linked stores memory as an instance.
LEMMA UnbuiltMakes ==
    ASSUME CallsInv, CallsInv', LifeInv, NEW t \in Types, NEW n \in Names, ResolveUnbuilt(t, n)
    PROVE  \E d, x : Makes(d, x)
<1>1. TablesInv /\ InstInv /\ UpInv
  BY DEF LifeInv
<1>2. PICK d : d = Request(FALSE, t, n)
  OBVIOUS
<1>3. /\ frames = <<>> /\ started /\ d \notin {NoDesc, Ambiguous} /\ descs[d].bound /\ Find(d) = None
      /\ inst' = Append(inst, [NewInst(d, {}) EXCEPT !.life = "raw"]) /\ store' = StoreAt(store, d, Len(inst) + 1)
      /\ UNCHANGED <<started, descs, bindings, lost, failed, frames>>
  BY <1>2 DEF ResolveUnbuilt, Idle, registry
<1>4. d \in 1..Len(descs)
  BY <1>1, <1>2, <1>3, RequestDesc
<1>5. At(store, d) = None
  <2>1. Len(descs) \in Nat /\ Len(inst) \in Nat /\ StoreOK(store, Len(descs), Len(inst))
    BY <1>1, InstParts, DescsIn DEF TablesInv, TablesOK
  <2> QED
    BY <1>3, <1>4, <2>1, FindIs DEF Find
<1>6. failed > 0
  <2>1. failed # 0
    BY <1>1, <1>3, <1>4, <1>5 DEF UpInv
  <2>2. failed \in Nat
    BY <1>1, InstParts
  <2> QED
    BY <2>1, <2>2
<1>7. ~Doomed(frames) /\ ~Doomed(frames')
  BY <1>3, UpNotDoomed, UpNotDoomedNext
<1>8. PICK x : x = [NewInst(d, {}) EXCEPT !.life = "raw"]
  OBVIOUS
<1>9. x \in InstSet(Len(descs)) /\ x.desc = d /\ x.life = "raw" /\ x.uses = {}
  BY <1>4, <1>8 DEF NewInst, InstSet
<1>10. Makes(d, x)
  BY <1>3, <1>4, <1>5, <1>6, <1>7, <1>8, <1>9 DEF Makes, LiveLife
<1> QED
  BY <1>10

\* A stack of one call.
LEMMA OneCall ==
    ASSUME NEW c
    PROVE  <<c>> # <<>> /\ Len(<<c>>) = 1 /\ <<c>>[1] = c /\ Append(<<>>, c) = <<c>>
OBVIOUS

\* Destruction begins with a call of its own.
LEMMA DoomBegins ==
    ASSUME CallsInv, StartThrows \/ (Stop /\ started) \/ ExitUnstopped
    PROVE  /\ started /\ ~started' /\ Doomed(frames') /\ frames'[Len(frames')].todo = DestructionOrder
           /\ Len(frames') = 1 /\ frames'[1].at = "destroying" /\ frames'[1].op \in {"stop", "exit", "rollback"}
           /\ frames'[1].op = "rollback" => StartThrows
           /\ UNCHANGED <<store, descs, inst, bindings, lost, look, phase>>
           /\ failed' = IF StartThrows THEN failed + 1 ELSE failed
           /\ StartThrows \/ look.at = "idle"
           /\ StartThrows => frames # <<>> /\ frames[1].op = "start"
<1>1. CASE StartThrows
  <2>1. PICK c : c = Call("rollback", "destroying", NoDesc, DestructionOrder)
    OBVIOUS
  <2>2. /\ frames' = <<c>> /\ ~started' /\ failed' = failed + 1
        /\ UNCHANGED <<store, descs, inst, bindings, lost, look, phase>>
    BY <1>1, <2>1 DEF StartThrows, registry
  <2>3. c.at = "destroying" /\ c.op = "rollback" /\ c.todo = DestructionOrder
    BY <2>1 DEF Call
  <2>4. started /\ frames # <<>> /\ frames[1].op = "start"
    <3>1. frames # <<>>
      BY <1>1 DEF StartThrows, In
    <3>2. /\ Top = frames[Len(frames)] /\ CallOK(Top, Len(frames), Len(frames), started) /\ Depth = Len(frames)
          /\ Len(frames) \in Nat \ {0}
      BY <3>1, TopFacts
    <3>3. started
      BY <1>1, <3>2 DEF StartThrows, In, CallOK, Ending
    <3>4. CASE In("start", "context") \/ In("start", "bound")
      BY <3>1, <3>2, <3>3, <3>4 DEF In, CallOK
    <3>5. CASE Depth = 2 /\ frames[1].at = "eager"
      <4>1. CallOK(frames[1], 1, Len(frames), started)
        BY <3>2, <3>5 DEF CallsInv
      <4> QED
        BY <3>1, <3>3, <3>5, <4>1 DEF CallOK, PointOK
    <3> QED
      BY <1>1, <3>4, <3>5 DEF StartThrows
  <2>5. frames' # <<>> /\ Len(frames') = 1 /\ frames'[1] = c
    BY <2>2, OneCall
  <2> QED
    BY <1>1, <2>2, <2>3, <2>4, <2>5 DEF Doomed
<1>2. CASE ~StartThrows /\ ((Stop /\ started) \/ ExitUnstopped)
  <2>1. PICK c : /\ \/ c = Call("stop", "destroying", NoDesc, DestructionOrder)
                    \/ c = Call("exit", "destroying", NoDesc, DestructionOrder)
                 /\ frames' = Append(frames, c)
    BY <1>2 DEF Stop, ExitUnstopped, Push
  <2>2. /\ frames = <<>> /\ look.at = "idle" /\ started /\ ~started'
        /\ UNCHANGED <<store, descs, inst, bindings, lost, failed, look, phase>>
    BY <1>2 DEF Stop, ExitUnstopped, Idle, Quiet, registry
  <2>3. c.at = "destroying" /\ c.op \in {"stop", "exit"} /\ c.todo = DestructionOrder
    BY <2>1 DEF Call
  <2>4. frames' # <<>> /\ Len(frames') = 1 /\ frames'[1] = c
    BY <2>1, <2>2, OneCall
  <2> QED
    BY <1>2, <2>2, <2>3, <2>4 DEF Doomed
<1> QED
  BY <1>1, <1>2

\* After releaseAll() the call goes on, or the rollback is over.
LEMMA ReleasedCalls ==
    ASSUME CallsInv, ReleaseAll
    PROVE  /\ ~Doomed(frames') /\ ~started /\ frames # <<>> /\ Len(frames) = 1 /\ Ending(frames[1])
           /\ IF frames[1].op = "rollback" THEN frames' = <<>>
              ELSE Len(frames') = 1 /\ frames'[1].op = frames[1].op /\ frames'[1].at = "released"
<1>1. frames # <<>> /\ Top.at = "destroying"
  BY DEF ReleaseAll
<1>2. /\ Top = frames[Len(frames)] /\ CallOK(Top, Len(frames), Len(frames), started) /\ Depth = Len(frames)
      /\ Len(frames) \in Nat \ {0}
  BY <1>1, TopFacts
<1>3. Ending(Top) /\ Len(frames) = 1 /\ ~started /\ IsCall(Top)
  BY <1>1, <1>2 DEF CallOK, PointOK, Ending
<1>4. CASE Top.op = "rollback"
  <2>1. Return
    BY <1>4 DEF ReleaseAll
  <2>2. frames' = SubSeq(frames, 1, 0)
    <3>1. PICK k : k = Depth - 1
      OBVIOUS
    <3>2. frames' = SubSeq(frames, 1, k)
      BY <2>1, <3>1 DEF Return
    <3>3. k = 0
      BY <1>2, <1>3, <3>1
    <3> QED
      BY <3>2, <3>3
  <2>3. frames' = <<>>
    BY <2>2
  <2> QED
    BY <1>1, <1>2, <1>3, <1>4, <2>3 DEF Doomed
<1>5. CASE Top.op # "rollback"
  <2>1. PICK f : SetAt(Top, "released", f)
    BY DEF SetAt
  <2>2. Goto(f) /\ UNCHANGED <<phase, started, cat>>
    BY <1>5, <2>1 DEF ReleaseAll, SetAt, registry
  <2>3. IsCall(f) /\ f.op = Top.op /\ f.at = "released"
    BY <1>3, <2>1, CallAt
  <2>4. PointOK(f)
    BY <1>3, <1>5, <2>3 DEF PointOK, Ending
  <2>5. Len(frames') = Len(frames) /\ frames'[1] = f
    BY <1>1, <1>2, <1>3, <2>2, <2>3, <2>4, CallsGoto
  <2> QED
    BY <1>1, <1>2, <1>3, <1>5, <2>3, <2>5 DEF Doomed
<1> QED
  BY <1>4, <1>5

\* The end of stop() has one call, and leaves the holdings alone.
LEMMA StopEnds ==
    ASSUME CallsInv, StopSweeps \/ Stopped
    PROVE  /\ ~Doomed(frames) /\ ~Doomed(frames') /\ ~started /\ UNCHANGED holdings /\ started' = started
           /\ frames # <<>> /\ Len(frames) = 1 /\ frames[1].op = "stop" /\ look' = look
           /\ IF Stopped THEN frames' = <<>> /\ phase' = "stopped"
              ELSE Len(frames') = 1 /\ frames'[1].op = "stop" /\ frames'[1].at = "sweeping" /\ phase' = phase
<1>1. frames # <<>> /\ Top.op = "stop" /\ Top.at \in {"released", "sweeping"}
  BY DEF StopSweeps, Stopped, In
<1>2. /\ Top = frames[Len(frames)] /\ CallOK(Top, Len(frames), Len(frames), started) /\ Depth = Len(frames)
      /\ Len(frames) \in Nat \ {0}
  BY <1>1, TopFacts
<1>3. Ending(Top) /\ Len(frames) = 1 /\ ~started /\ IsCall(Top)
  BY <1>1, <1>2 DEF CallOK, PointOK, Ending
<1>4. UNCHANGED holdings /\ started' = started /\ look' = look
  BY DEF StopSweeps, Stopped, holdings, registry
<1>5. CASE Stopped
  <2>1. Return /\ phase' = "stopped"
    BY <1>5 DEF Stopped
  <2>2. frames' = SubSeq(frames, 1, 0)
    <3>1. PICK k : k = Depth - 1
      OBVIOUS
    <3>2. frames' = SubSeq(frames, 1, k)
      BY <2>1, <3>1 DEF Return
    <3>3. k = 0
      BY <1>2, <1>3, <3>1
    <3> QED
      BY <3>2, <3>3
  <2>3. frames' = <<>>
    BY <2>2
  <2> QED
    BY <1>1, <1>2, <1>3, <1>4, <1>5, <2>1, <2>3 DEF Doomed
<1>6. CASE StopSweeps /\ ~Stopped
  <2>1. PICK f : SetAt(Top, "sweeping", f)
    BY DEF SetAt
  <2>2. Goto(f) /\ UNCHANGED <<phase, started, cat>>
    BY <1>6, <2>1 DEF StopSweeps, SetAt, registry
  <2>3. IsCall(f) /\ f.op = Top.op /\ f.at = "sweeping"
    BY <1>3, <2>1, CallAt
  <2>4. PointOK(f)
    BY <1>1, <2>3 DEF PointOK
  <2>5. Len(frames') = Len(frames) /\ frames'[1] = f
    BY <1>1, <1>2, <1>3, <2>2, <2>3, <2>4, CallsGoto
  <2> QED
    BY <1>1, <1>2, <1>3, <1>4, <1>6, <2>2, <2>3, <2>5 DEF Doomed
<1> QED
  BY <1>5, <1>6

\* The steps of a started context that only change the stack of calls (and the
\* index, and the contributions).
SteadySteps ==
    \/ ContextAnnounced \/ BoundAnnounced \/ EagerFound \/ EagerClaim \/ (\E t \in Types, n \in Names : ResolveFound(t, n))
    \/ (\E t \in Types, n \in Names : ResolveClaim(t, n)) \/ MadeReturns \/ MakeThrows \/ StartDone \/ BindStep \/ BindDone

\* They do that, and the context stays started.
LEMMA SteadyUp ==
    ASSUME CallsInv, SteadySteps
    PROVE  started /\ started' /\ phase' = phase /\ UNCHANGED holdings /\ look' = look
<1>1. started' = started /\ phase' = phase /\ UNCHANGED holdings /\ look' = look
  BY DEF SteadySteps, ContextAnnounced, BoundAnnounced, EagerFound, EagerClaim, ResolveFound, ResolveClaim, MadeReturns,
     MakeThrows, StartDone, BindStep, BindDone, holdings, registry
<1>2. CASE \E t, n : ResolveClaim(t, n)
  BY <1>1, <1>2 DEF ResolveClaim
<1>3. CASE ~\E t, n : ResolveClaim(t, n)
  <2>1. frames # <<>> /\ Top.op \in {"start", "make", "bind"}
    BY <1>3 DEF SteadySteps, ContextAnnounced, BoundAnnounced, EagerFound, EagerClaim, ResolveFound,
       MadeReturns, MakeThrows,
       StartDone, BindStep, BindDone, In
  <2>2. CallOK(Top, Len(frames), Len(frames), started)
    BY <2>1, TopFacts
  <2>3. started
    BY <2>1, <2>2 DEF CallOK, Ending
  <2> QED
    BY <1>1, <2>3
<1> QED
  BY <1>2, <1>3

\* The steps that leave the registry's holdings and its calls alone.
BesideSteps ==
    \/ (\E s : Discover(s)) \/ (\E c, t, n : SetDefault(c, t, n) \/ ClearDefault(c, t))
    \/ (\E t \in Types, n \in Names : LookBegin(t, n)) \/ LookSteps \/ (Stop /\ ~started)

\* They do that, and at most stop a context nobody started.
LEMMA BesideSame ==
    ASSUME BesideSteps
    PROVE  /\ UNCHANGED holdings /\ (started' <=> started) /\ frames' = frames
           /\ (phase' = phase \/ (phase' = "stopped" /\ look.at = "idle"))
<1>1. CASE Stop /\ ~started
  BY <1>1 DEF Stop, Quiet, holdings, registry
<1>2. CASE \E s : Discover(s)
  BY <1>2 DEF Discover, holdings
<1>3. CASE \E c, t, n : SetDefault(c, t, n) \/ ClearDefault(c, t)
  BY <1>3 DEF SetDefault, ClearDefault, holdings, registry
<1>4. CASE (\E t, n : LookBegin(t, n)) \/ LookSteps
  <2>1. UNCHANGED holdings /\ UNCHANGED <<started, frames, phase>>
    BY <1>4 DEF LookBegin, LookSteps, LookSingle, LookEntry, LookFlag, LookFind, LookDone, holdings, registry
  <2> QED
    BY <2>1
<1> QED
  BY <1>1, <1>2, <1>3, <1>4 DEF BesideSteps

\* Every step of the registry is of one of these kinds.
LEMMA StepKinds ==
    ASSUME CallsInv, RegistrySteps \/ Stopped
    PROVE  \/ BesideSteps \/ SteadySteps \/ (\E k \in Key : BindEarly(k) \/ BindLate(k))
           \/ StartRejected \/ StartMerged \/ StartAgain
           \/ Made \/ (\E t \in Types, n \in Names : ResolveUnbuilt(t, n))
           \/ StartThrows \/ (Stop /\ started) \/ ExitUnstopped \/ DestroyNext \/ ReleaseAll
           \/ StopSweeps \/ Stopped \/ DestroyRegistry
<1>1. /\ \A q \in cat.asks \union cat.looks \union cat.defaults : q.type \in Types /\ q.name \in Names
      /\ \A k \in cat.binds : k \in Key
  BY ProgramIn
<1>2. CASE Claims
  BY <1>1, <1>2 DEF Claims, SteadySteps
<1>3. CASE Others
  <2>1. CASE \E k \in cat.binds : BindEarly(k) \/ BindLate(k)
    BY <1>1, <2>1
  <2>2. CASE \E q \in cat.asks : ResolveFound(q.type, q.name) \/ ResolveUnbuilt(q.type, q.name)
    BY <1>1, <2>2 DEF SteadySteps
  <2>3. CASE \/ (\E s \in cat.spans : Discover(s)) \/ (\E q \in cat.looks : LookBegin(q.type, q.name)) \/ LookSteps
             \/ (\E q \in cat.defaults, c \in BOOLEAN : SetDefault(c, q.type, q.name) \/ ClearDefault(c, q.type))
             \/ (Stop /\ ~started)
    BY <1>1, <2>3 DEF BesideSteps
  <2>4. CASE \/ ContextAnnounced \/ BoundAnnounced \/ EagerFound \/ StartDone
             \/ MadeReturns \/ MakeThrows \/ BindStep \/ BindDone
    BY <2>4 DEF SteadySteps
  <2> QED
    BY <1>3, <2>1, <2>2, <2>3, <2>4 DEF Others, LookSteps
<1> QED
  BY <1>2, <1>3 DEF RegistrySteps

\* Every step of the registry keeps the account of the instances.
LEMMA InstStep ==
    ASSUME CallsInv, CallsInv', LifeInv, RegistrySteps \/ Stopped
    PROVE  InstInv'
<1>1. TablesInv /\ InstInv /\ FramesInv /\ UpInv
  BY DEF LifeInv
<1>2. CASE BesideSteps
  BY <1>1, <1>2, BesideSame, InstBeside
<1>3. CASE SteadySteps
  BY <1>1, <1>3, SteadyUp, UpNotDoomed, UpNotDoomedNext, InstSame
<1>4. CASE \E k \in Key : BindEarly(k)
  BY <1>1, <1>4, InstBindEarly
<1>5. CASE \E k \in Key : BindLate(k)
  <2>1. started /\ started'
    BY <1>5 DEF BindLate
  <2> QED
    BY <1>1, <1>5, <2>1, UpNotDoomed, UpNotDoomedNext, InstBindLate
<1>6. CASE StartRejected
  BY <1>1, <1>6, InstRejected
<1>7. CASE StartMerged
  <2>1. started'
    BY <1>7 DEF StartMerged
  <2> QED
    BY <1>1, <1>7, <2>1, UpNotDoomedNext, InstMerged
<1>8. CASE StartAgain
  <2>1. started'
    BY <1>8 DEF StartAgain
  <2> QED
    BY <1>1, <1>8, <2>1, UpNotDoomedNext, InstAgain
<1>9. CASE Made
  BY <1>1, <1>9, MadeMakes, InstMakes
<1>10. CASE \E t \in Types, n \in Names : ResolveUnbuilt(t, n)
  BY <1>1, <1>10, UnbuiltMakes, InstMakes
<1>11. CASE StartThrows \/ (Stop /\ started) \/ ExitUnstopped
  <2>1. /\ started /\ ~started' /\ Doomed(frames') /\ frames'[Len(frames')].todo = DestructionOrder
        /\ UNCHANGED <<store, descs, inst, bindings, lost>> /\ failed' = IF StartThrows THEN failed + 1 ELSE failed
    BY <1>11, DoomBegins
  <2>2. ~Doomed(frames)
    BY <2>1, UpNotDoomed
  <2>3. failed' \in Nat /\ failed' >= failed
    <3>1. failed \in Nat
      BY <1>1, InstParts
    <3> QED
      BY <2>1, <3>1
  <2> QED
    BY <1>1, <2>1, <2>2, <2>3, InstDoom
<1>12. CASE DestroyNext
  BY <1>1, <1>12, InstDestroyNext
<1>13. CASE ReleaseAll
  BY <1>1, <1>13, ReleasedCalls, InstReleaseAll
<1>14. CASE StopSweeps \/ Stopped
  BY <1>1, <1>14, StopEnds, InstSame
<1>15. CASE DestroyRegistry
  BY <1>1, <1>15, InstRegistryEnds
<1> QED
  BY <1>2, <1>3, <1>4, <1>5, <1>6, <1>7, <1>8, <1>9, <1>10, <1>11, <1>12, <1>13, <1>14, <1>15, StepKinds

-----------------------------------------------------------------------------
(* The stack of calls.                                                     *)

\* More descriptors (none of them eager), more instances, more of them stored.
Grown(ds, s, I, es, r, J) ==
    /\ Len(ds) \in Nat /\ Len(es) \in Nat /\ Len(ds) <= Len(es) /\ EagerOf(es) \subseteq EagerOf(ds)
    /\ Len(I) \in Nat /\ Len(J) \in Nat /\ Len(I) <= Len(J)
    /\ \A u \in 1..Len(I) : I[u].life \in LiveLife => J[u].life \in LiveLife
    /\ \A d \in 1..Len(ds) : At(s, d) \in 1..Len(I) => At(r, d) \in 1..Len(J)
    /\ \A d \in 1..Len(ds) : At(s, d) # None => At(r, d) # None

\* A call that says something of beans stays right, unless the bean that it makes
\* is stored by another.
LEMMA FrameKept ==
    ASSUME NEW ds, NEW s, NEW I, NEW es, NEW r, NEW J, Grown(ds, s, I, es, r, J), NEW f, PointOK(f), FrameOK(f, ds, s, I),
           f.at = "constructor" => At(r, f.desc) = None
    PROVE  FrameOK(f, es, r, J)
<1>0. /\ Len(ds) \in Nat /\ Len(es) \in Nat /\ Len(ds) <= Len(es) /\ EagerOf(es) \subseteq EagerOf(ds)
      /\ Len(I) \in Nat /\ Len(J) \in Nat /\ Len(I) <= Len(J)
      /\ \A u \in 1..Len(I) : I[u].life \in LiveLife => J[u].life \in LiveLife
      /\ \A d \in 1..Len(ds) : At(s, d) \in 1..Len(I) => At(r, d) \in 1..Len(J)
      /\ \A d \in 1..Len(ds) : At(s, d) # None => At(r, d) # None
  BY DEF Grown
<1>1. 1..Len(ds) \subseteq 1..Len(es) /\ 1..Len(I) \subseteq 1..Len(J)
  BY <1>0
<1>2. f.op \in {"make", "bind"} => f.desc \in 1..Len(es)
  BY <1>1 DEF FrameOK
<1>3. f.at = "constructor" => At(r, f.desc) = None /\ \A u \in f.uses : u \in 1..Len(J) /\ J[u].life \in LiveLife
  BY <1>0, <1>1 DEF FrameOK
<1>4. f.at = "hooks" => At(r, f.desc) \in 1..Len(J)
  <2>1. f.at = "hooks" => f.op = "make"
    BY DEF PointOK
  <2> QED
    BY <1>0, <2>1 DEF FrameOK
<1>5. ASSUME f.at = "eager"
      PROVE  /\ f.todo \in Seq(1..Len(es))
             /\ \A d \in EagerOf(es) : Holds(f.todo, d) \/ At(r, d) # None
  <2>1. f.todo \in Seq(1..Len(ds)) /\ \A d \in EagerOf(ds) : Holds(f.todo, d) \/ At(s, d) # None
    BY <1>5 DEF FrameOK
  <2>2. f.todo \in Seq(1..Len(es))
    BY <1>1, <2>1, SeqUp
  <2>3. EagerOf(ds) \subseteq 1..Len(ds)
    BY DEF EagerOf
  <2> QED
    BY <1>0, <2>1, <2>2, <2>3
<1> QED
  BY <1>2, <1>3, <1>4, <1>5 DEF FrameOK

\* No call, or one that says nothing of beans, is right.
LEMMA FramesSingle ==
    ASSUME \/ frames' = <<>>
           \/ /\ Len(frames') = 1 /\ frames'[1].op \notin {"make", "bind"}
              /\ frames'[1].at \notin {"constructor", "hooks", "eager"}
    PROVE  FramesInv'
<1>1. CASE frames' = <<>>
  <2>1. Len(frames') = 0
    BY <1>1
  <2> QED
    BY <2>1 DEF FramesInv, FramesAll, Making
<1>2. CASE /\ Len(frames') = 1 /\ frames'[1].op \notin {"make", "bind"}
           /\ frames'[1].at \notin {"constructor", "hooks", "eager"}
  <2>1. \A n \in 1..Len(frames') : n = 1
    BY <1>2
  <2>2. FrameOK(frames'[1], descs', store', inst')
    BY <1>2 DEF FrameOK
  <2> QED
    BY <2>1, <2>2 DEF FramesInv, FramesAll, Making
<1> QED
  BY <1>1, <1>2

\* The top call goes on as f: the others are what they were.
LEMMA GotoIs ==
    ASSUME CallsInv, frames # <<>>, NEW f, Goto(f)
    PROVE  /\ Len(frames') = Len(frames) /\ Len(frames) \in Nat \ {0}
           /\ \A n \in 1..Len(frames) : frames'[n] = IF n = Len(frames) THEN f ELSE frames[n]
<1>1. IsSeq(frames) /\ Len(frames) \in Nat \ {0} /\ Depth = Len(frames) /\ Len(frames) \in 1..Len(frames)
  BY TopFacts DEF CallsInv
<1>2. Changed(frames, Len(frames), f, frames')
  BY <1>1 DEF Goto, Changed
<1> QED
  BY <1>1, <1>2, ExceptFacts

\* Then the calls are right if f is, makes no other bean, and the rest still are.
LEMMA FramesGoto ==
    ASSUME CallsInv, FramesInv, frames # <<>>, NEW f, Goto(f), FrameOK(f, descs', store', inst'),
           f.at = "constructor" => Top.at = "constructor" /\ f.desc = Top.desc,
           \A n \in 1..(Len(frames) - 1) : FrameOK(frames[n], descs', store', inst')
    PROVE  FramesInv'
<1>1. /\ Len(frames') = Len(frames) /\ Len(frames) \in Nat \ {0}
      /\ \A n \in 1..Len(frames) : frames'[n] = IF n = Len(frames) THEN f ELSE frames[n]
  BY GotoIs
<1>2. Top = frames[Len(frames)]
  BY TopFacts
<1>3. \A n \in 1..Len(frames') : FrameOK(frames'[n], descs', store', inst')
  <2> TAKE n \in 1..Len(frames')
  <2>1. CASE n = Len(frames)
    BY <1>1, <2>1
  <2>2. CASE n # Len(frames)
    BY <1>1, <2>2
  <2> QED
    BY <2>1, <2>2
<1>4. \A n : Making(frames', n) => Making(frames, n) /\ frames'[n].desc = frames[n].desc
  BY <1>1, <1>2 DEF Making
<1>5. \A m, n : Making(frames, m) /\ Making(frames, n) /\ frames[m].desc = frames[n].desc => m = n
  BY DEF FramesInv, FramesAll
<1> QED
  BY <1>3, <1>4, <1>5 DEF FramesInv, FramesAll

\* The same when descriptors, store and instances stay.
LEMMA FramesGoes ==
    ASSUME CallsInv, FramesInv, frames # <<>>, NEW f, Goto(f), FrameOK(f, descs, store, inst),
           f.at = "constructor" => Top.at = "constructor" /\ f.desc = Top.desc, UNCHANGED holdings
    PROVE  FramesInv'
<1>1. FrameOK(f, descs', store', inst')
  BY DEF holdings
<1>2. Len(frames) \in Nat
  BY TopFacts
<1>3. \A n \in 1..(Len(frames) - 1) : n \in 1..Len(frames)
  BY <1>2
<1>4. \A n \in 1..(Len(frames) - 1) : FrameOK(frames[n], descs', store', inst')
  BY <1>3 DEF FramesInv, FramesAll, holdings
<1> QED
  BY <1>1, <1>4, FramesGoto

\* A new call f is right beside the others if none of them makes its bean.
LEMMA FramesPush ==
    ASSUME CallsInv, NEW f, Push(f), FrameOK(f, descs', store', inst'),
           f.at = "constructor" => \A n \in 1..Len(frames) : frames[n].at = "constructor" => frames[n].desc # f.desc,
           FramesInv, \A n \in 1..Len(frames) : FrameOK(frames[n], descs', store', inst')
    PROVE  FramesInv'
<1>1. IsSeq(frames) /\ frames' = Append(frames, f)
  BY DEF CallsInv, Push
<1>2. /\ Len(frames') = Len(frames) + 1 /\ (\A n \in 1..Len(frames) : frames'[n] = frames[n])
      /\ frames'[Len(frames) + 1] = f /\ Len(frames) \in Nat
  BY <1>1, AppendFacts, SeqFacts
<1>3. \A n \in 1..Len(frames') : n \in 1..Len(frames) \/ n = Len(frames) + 1
  BY <1>2
<1>4. \A n \in 1..Len(frames') : FrameOK(frames'[n], descs', store', inst')
  BY <1>2, <1>3
<1>5. ASSUME NEW m, NEW n, Making(frames', m), Making(frames', n), frames'[m].desc = frames'[n].desc PROVE m = n
  <2>1. /\ m \in 1..Len(frames) \/ m = Len(frames) + 1
        /\ n \in 1..Len(frames) \/ n = Len(frames) + 1
        /\ frames'[m].at = "constructor" /\ frames'[n].at = "constructor"
    BY <1>3, <1>5 DEF Making
  <2>2. CASE m \in 1..Len(frames) /\ n \in 1..Len(frames)
    BY <1>2, <1>5, <2>1, <2>2 DEF FramesInv, FramesAll, Making
  <2>3. CASE m \in 1..Len(frames) /\ n = Len(frames) + 1
    BY <1>2, <1>5, <2>1, <2>3
  <2>4. CASE m = Len(frames) + 1 /\ n \in 1..Len(frames)
    BY <1>2, <1>5, <2>1, <2>4
  <2> QED
    BY <2>1, <2>2, <2>3, <2>4
<1> QED
  BY <1>4, <1>5 DEF FramesInv, FramesAll

\* The top call returns, and the one below may be given a bean.
LEMMA FramesReturn ==
    ASSUME FramesInv, UNCHANGED holdings, Len(frames) \in Nat \ {0}, Len(frames') = Len(frames) - 1,
           \A n \in 1..Len(frames') : \/ frames'[n] = frames[n]
                                      \/ /\ frames'[n].at = frames[n].at /\ frames'[n].desc = frames[n].desc
                                         /\ FrameOK(frames'[n], descs, store, inst)
    PROVE  FramesInv'
<1>1. \A n \in 1..Len(frames') : n \in 1..Len(frames)
  OBVIOUS
<1>2. \A n \in 1..Len(frames') : FrameOK(frames'[n], descs', store', inst')
  BY <1>1 DEF FramesInv, FramesAll, holdings
<1>3. \A n : Making(frames', n) => Making(frames, n) /\ frames'[n].desc = frames[n].desc
  BY <1>1 DEF Making
<1>4. \A m, n : Making(frames, m) /\ Making(frames, n) /\ frames[m].desc = frames[n].desc => m = n
  BY DEF FramesInv, FramesAll
<1> QED
  BY <1>2, <1>3, <1>4 DEF FramesInv, FramesAll

\* A step that leaves calls, descriptors, store and instances alone.
LEMMA FramesBeside ==
    ASSUME FramesInv, UNCHANGED holdings, frames' = frames
    PROVE  FramesInv'
BY DEF FramesInv, holdings

\* What the top call says.
LEMMA TopOK ==
    ASSUME CallsInv, FramesInv, frames # <<>>
    PROVE  /\ FrameOK(Top, descs, store, inst) /\ IsCall(Top) /\ PointOK(Top)
           /\ Top.op = "start" => Len(frames) = 1 /\ Top = frames[1]
<1>1. /\ Len(frames) \in Nat \ {0} /\ Len(frames) \in 1..Len(frames) /\ Top = frames[Len(frames)]
      /\ CallOK(Top, Len(frames), Len(frames), started)
  BY TopFacts
<1>2. FrameOK(Top, descs, store, inst)
  BY <1>1 DEF FramesInv, FramesAll
<1> QED
  BY <1>1, <1>2 DEF CallOK

\* The eager beans, in the order in which start() makes them.
LEMMA EagerIs ==
    ASSUME TablesInv
    PROVE  /\ EagerIds = EagerOf(descs) /\ Eager \in Seq(1..Len(descs))
           /\ \A d \in EagerOf(descs) : Holds(Eager, d)
<1>1. EagerIds = EagerOf(descs)
  BY DEF EagerIds, EagerOf
<1>2. PICK S : S = EagerIds
  OBVIOUS
<1>3. S \subseteq 1..Len(descs) /\ Len(descs) \in Nat
  BY <1>2, DescsIn DEF EagerIds, TablesInv, TablesOK
<1>4. IsFiniteSet(S) /\ S \in SUBSET Nat
  <2>1. IsFiniteSet(1..Len(descs))
    BY <1>3, FS_Interval
  <2>2. IsFiniteSet(S)
    BY <1>3, <2>1, FS_Subset
  <2>3. S \in SUBSET Nat
    BY <1>3
  <2> QED
    BY <2>2, <2>3
<1>5. PICK p : p = Prio
  OBVIOUS
<1>6. p \in [1..Len(descs) -> Int]
  BY <1>5, DescsIn DEF Prio, PrioOf, TablesInv, TablesOK
<1>7. \A c \in S : p[c] \in Int
  BY <1>3, <1>6
<1>8. Sorts(ByPriority(S, p), S, p)
  BY <1>4, <1>7, PrioritySorts
<1>9. Eager = ByPriority(S, p)
  BY <1>2, <1>5 DEF Eager
<1>10. Eager \in Seq(S) /\ \A c : Holds(Eager, c) <=> c \in S
  BY <1>8, <1>9 DEF Sorts
<1>11. Eager \in Seq(1..Len(descs))
  BY <1>3, <1>10, SeqUp
<1> QED
  BY <1>1, <1>2, <1>10, <1>11

\* What is in the store is live while the context is started.
LEMMA StoredLives ==
    ASSUME CallsInv, TablesInv, InstInv, started, NEW d \in 1..Len(descs)
    PROVE  /\ Find(d) = At(store, d) /\ At(store, d) \in SlotSet(Len(inst))
           /\ At(store, d) \in 1..Len(inst) => inst[At(store, d)].life \in LiveLife
<1>1. Len(descs) \in Nat
  BY DescsIn DEF TablesInv, TablesOK
<1>2. StoreOK(store, Len(descs), Len(inst)) /\ Len(inst) \in Nat
  BY InstParts
<1>3. ~Doomed(frames)
  BY UpNotDoomed
<1>4. Lives(inst, store, Len(descs))
  BY <1>3 DEF InstInv, InstAll
<1> QED
  BY <1>1, <1>2, <1>4, FindIs DEF Find, Lives

\* A queue is its first element and the rest.
LEMMA HeadOrTail ==
    ASSUME NEW S, NEW q \in Seq(S), q # <<>>
    PROVE  /\ Tail(q) \in Seq(S) /\ Head(q) \in S
           /\ \A d : Holds(q, d) => Holds(Tail(q), d) \/ d = Head(q)
<1>1. IsSeq(q)
  BY DEF IsSeq
<1>2. Len(q) \in Nat /\ Len(Tail(q)) = Len(q) - 1 /\ Head(q) = q[1] /\ \A n \in 1..(Len(q) - 1) : Tail(q)[n] = q[n + 1]
  BY <1>1, TailFacts, SeqFacts
<1>3. Tail(q) \in Seq(S) /\ Head(q) \in S
  OBVIOUS
<1>4. ASSUME NEW m \in 1..Len(q), m # 1 PROVE Holds(Tail(q), q[m])
  <2>1. m - 1 \in 1..(Len(q) - 1) /\ (m - 1) + 1 = m
    BY <1>2, <1>4
  <2>2. Tail(q)[m - 1] = q[m] /\ m - 1 \in 1..Len(Tail(q))
    BY <1>2, <2>1
  <2> QED
    BY <2>2 DEF Holds
<1>5. ASSUME NEW d, Holds(q, d) PROVE Holds(Tail(q), d) \/ d = Head(q)
  BY <1>2, <1>4, <1>5 DEF Holds
<1> QED
  BY <1>3, <1>5

\* start() between its callbacks: an eager bean leaves the list when it is there.
LEMMA FramesStart ==
    ASSUME CallsInv, TablesInv, InstInv, FramesInv, ContextAnnounced \/ BoundAnnounced \/ EagerFound
    PROVE  FramesInv'
<1>1. frames # <<>> /\ Top.op = "start" /\ UNCHANGED holdings
  BY DEF ContextAnnounced, BoundAnnounced, EagerFound, In, holdings, registry
<1>2. FrameOK(Top, descs, store, inst) /\ IsCall(Top) /\ PointOK(Top) /\ started
  BY <1>1, TopOK, TopFacts DEF CallOK, Ending
<1>3. PICK g : Goto(g) /\ g.op = "start" /\ FrameOK(g, descs, store, inst) /\ g.at # "constructor"
  <2>1. CASE ContextAnnounced
    <3>1. PICK g : g = [Top EXCEPT !.at = "bound"]
      OBVIOUS
    <3>2. SetAt(Top, "bound", g)
      BY <3>1 DEF SetAt
    <3>3. g.op = "start" /\ g.at = "bound"
      BY <1>1, <1>2, <3>2, CallAt
    <3> QED
      BY <2>1, <3>1, <3>3 DEF ContextAnnounced, FrameOK
  <2>2. CASE BoundAnnounced /\ Top.todo # <<>>
    <3>1. PICK g : g = [Top EXCEPT !.todo = Tail(@)]
      OBVIOUS
    <3>2. SetTodo(Top, Tail(Top.todo), g)
      BY <3>1 DEF SetTodo
    <3>3. g.op = "start" /\ g.at = "bound"
      <4>1. Top.at = "bound"
        BY <2>2 DEF BoundAnnounced, In
      <4> QED
        BY <1>1, <1>2, <3>2, <4>1, CallTodo
    <3> QED
      BY <2>2, <3>1, <3>3 DEF BoundAnnounced, FrameOK
  <2>3. CASE BoundAnnounced /\ Top.todo = <<>>
    <3>1. PICK g : g = [Top EXCEPT !.at = "eager", !.todo = Eager]
      OBVIOUS
    <3>2. SetNext(Top, "eager", Eager, g)
      BY <3>1 DEF SetNext
    <3>3. g.op = "start" /\ g.at = "eager" /\ g.todo = Eager
      BY <1>1, <1>2, <3>2, CallNext
    <3>4. FrameOK(g, descs, store, inst)
      BY <3>3, EagerIs DEF FrameOK
    <3> QED
      BY <2>3, <3>1, <3>3, <3>4 DEF BoundAnnounced
  <2>4. CASE EagerFound
    <3>1. PICK g, q, y : g = [Top EXCEPT !.todo = Tail(@)] /\ q = Top.todo /\ y = Tail(q)
      OBVIOUS
    <3>2. SetTodo(Top, y, g)
      BY <3>1 DEF SetTodo
    <3>3. Top.at = "eager" /\ q # <<>> /\ Find(Head(q)) # None /\ Goto(g)
      BY <2>4, <3>1 DEF EagerFound, In
    <3>4. g.op = "start" /\ g.at = "eager" /\ g.todo = Tail(q)
      <4>1. g.op = Top.op /\ g.at = Top.at /\ g.todo = y
        BY <1>2, <3>2, CallTodo
      <4> QED
        BY <1>1, <3>1, <3>3, <4>1
    <3>5. q \in Seq(1..Len(descs)) /\ \A d \in EagerOf(descs) : Holds(q, d) \/ At(store, d) # None
      BY <1>2, <3>1, <3>3 DEF FrameOK
    <3>6. /\ Tail(q) \in Seq(1..Len(descs)) /\ Head(q) \in 1..Len(descs)
          /\ \A d : Holds(q, d) => Holds(Tail(q), d) \/ d = Head(q)
      BY <3>3, <3>5, HeadOrTail
    <3>7. At(store, Head(q)) # None
      BY <1>2, <3>3, <3>6, StoredLives
    <3>8. \A d \in EagerOf(descs) : Holds(Tail(q), d) \/ At(store, d) # None
      BY <3>5, <3>6, <3>7
    <3>9. FrameOK(g, descs, store, inst)
      BY <3>4, <3>6, <3>8 DEF FrameOK
    <3> QED
      BY <3>3, <3>4, <3>9
  <2> QED
    BY <2>1, <2>2, <2>3, <2>4
<1> QED
  BY <1>1, <1>3, FramesGoes

\* A step of bindSingleton() is for the same bean at another point.
LEMMA FramesRebuild ==
    ASSUME CallsInv, FramesInv, BindStep
    PROVE  FramesInv'
<1>1. frames # <<>> /\ Top.op = "bind" /\ UNCHANGED holdings
  BY DEF BindStep, holdings
<1>2. FrameOK(Top, descs, store, inst)
  BY <1>1, TopOK
<1>3. PICK g : Goto(g) /\ IsCall(g) /\ PointOK(g) /\ GoesOn(g)
  BY StepGoesOn DEF GotoSteps
<1>4. g.op = "bind" /\ g.desc = Top.desc
  BY <1>1, <1>3 DEF GoesOn
<1>5. g.at \notin {"constructor", "hooks", "eager"}
  BY <1>3, <1>4 DEF PointOK
<1>6. FrameOK(g, descs, store, inst)
  BY <1>1, <1>2, <1>4, <1>5 DEF FrameOK
<1> QED
  BY <1>1, <1>3, <1>5, <1>6, FramesGoes

\* A constructor is given a bean that is there.
LEMMA FramesGiven ==
    ASSUME CallsInv, TablesInv, InstInv, FramesInv, NEW t \in Types, NEW n \in Names, ResolveFound(t, n)
    PROVE  FramesInv'
<1>1. frames # <<>> /\ Top.op = "make" /\ Top.at = "constructor" /\ UNCHANGED holdings
  BY DEF ResolveFound, In, holdings, registry
<1>2. FrameOK(Top, descs, store, inst) /\ IsCall(Top) /\ PointOK(Top) /\ started
  BY <1>1, TopOK, TopFacts DEF CallOK, Ending
<1>3. PICK d : d = Request(FALSE, t, n)
  OBVIOUS
<1>4. InjectParam([type |-> t, name |-> n, scoped |-> FALSE]) = d
  BY <1>3 DEF InjectParam
<1>5. PICK u : u = Find(Primary(d))
  OBVIOUS
<1>6. d \notin {NoDesc, Ambiguous} /\ u \notin {None, CtxInst} /\ Goto([Top EXCEPT !.uses = @ \union {u}])
  BY <1>4, <1>5 DEF ResolveFound
<1>7. Primary(d) \in 1..Len(descs)
  BY <1>3, <1>6, RequestDesc
<1>8. u \in 1..Len(inst) /\ inst[u].life \in LiveLife
  <2>1. u \in SlotSet(Len(inst)) /\ (u \in 1..Len(inst) => inst[u].life \in LiveLife)
    BY <1>2, <1>5, <1>7, StoredLives
  <2> QED
    BY <1>6, <2>1 DEF SlotSet
<1>9. PICK g : g = [Top EXCEPT !.uses = @ \union {u}]
  OBVIOUS
<1>10. SetUses(Top, Top.uses \union {u}, g)
  BY <1>9 DEF SetUses
<1>11. g.op = "make" /\ g.at = "constructor" /\ g.desc = Top.desc /\ g.uses = Top.uses \union {u}
  BY <1>1, <1>2, <1>10, CallUses
<1>12. FrameOK(g, descs, store, inst)
  BY <1>1, <1>2, <1>8, <1>11 DEF FrameOK
<1> QED
  BY <1>1, <1>6, <1>9, <1>11, <1>12, FramesGoes

\* A claim: the bean is not there and nobody is making it.
LEMMA FramesClaim ==
    ASSUME CallsInv, FramesInv, UNCHANGED holdings, NEW d \in 1..Len(descs), At(store, d) = None,
           \A n \in 1..Len(frames) : frames[n].at = "constructor" => frames[n].desc # d,
           Push(Call("make", "constructor", d, <<>>))
    PROVE  FramesInv'
<1>1. PICK g : g = Call("make", "constructor", d, <<>>)
  OBVIOUS
<1>2. g.op = "make" /\ g.at = "constructor" /\ g.desc = d /\ g.uses = {}
  BY <1>1, CallIs
<1>3. FrameOK(g, descs', store', inst')
  BY <1>2 DEF FrameOK, holdings
<1>4. \A n \in 1..Len(frames) : FrameOK(frames[n], descs', store', inst')
  BY DEF FramesInv, FramesAll, holdings
<1> QED
  BY <1>1, <1>2, <1>3, <1>4, FramesPush

\* Both places that claim: the walk of start() and resolve().
LEMMA FramesClaims ==
    ASSUME CallsInv, TablesInv, InstInv, FramesInv, EagerClaim \/ \E t \in Types, n \in Names : ResolveClaim(t, n)
    PROVE  FramesInv'
<1>1. CASE EagerClaim
  <2>1. PICK q : q = Top.todo
    OBVIOUS
  <2>2. /\ frames # <<>> /\ Top.op = "start" /\ Top.at = "eager" /\ q # <<>> /\ Find(Head(q)) = None /\ UNCHANGED holdings
        /\ Push(Call("make", "constructor", Head(q), <<>>))
    BY <1>1, <2>1 DEF EagerClaim, In, holdings, registry
  <2>3. /\ FrameOK(Top, descs, store, inst) /\ IsCall(Top) /\ PointOK(Top) /\ started
        /\ Len(frames) = 1 /\ Top = frames[1]
    BY <2>2, TopOK, TopFacts DEF CallOK, Ending
  <2>4. q \in Seq(1..Len(descs))
    BY <2>1, <2>2, <2>3 DEF FrameOK
  <2>5. Head(q) \in 1..Len(descs)
    BY <2>2, <2>4, HeadOrTail
  <2>6. At(store, Head(q)) = None
    BY <2>2, <2>3, <2>5, StoredLives
  <2>7. \A n \in 1..Len(frames) : frames[n].at # "constructor"
    BY <2>2, <2>3
  <2> QED
    BY <2>2, <2>5, <2>6, <2>7, FramesClaim
<1>2. CASE \E t \in Types, n \in Names : ResolveClaim(t, n)
  <2>1. PICK t \in Types, n \in Names : ResolveClaim(t, n)
    BY <1>2
  <2>2. PICK d : d = Request(FALSE, t, n)
    OBVIOUS
  <2>3. PICK p : p = Primary(d)
    OBVIOUS
  <2>4. /\ d \notin {NoDesc, Ambiguous} /\ Find(p) = None /\ (\A f \in 1..Depth : frames[f].desc # p)
        /\ Push(Call("make", "constructor", p, <<>>)) /\ UNCHANGED holdings /\ started
    BY <2>1, <2>2, <2>3 DEF ResolveClaim, holdings, registry
  <2>5. p \in 1..Len(descs)
    BY <2>2, <2>3, <2>4, RequestDesc
  <2>6. At(store, p) = None
    BY <2>4, <2>5, StoredLives
  <2> QED
    BY <2>4, <2>5, <2>6, FramesClaim DEF Depth
<1> QED
  BY <1>1, <1>2

\* A call that returns leaves the ones below right.
LEMMA FramesReturns ==
    ASSUME CallsInv, FramesInv, StartDone \/ MakeThrows \/ BindDone
    PROVE  FramesInv'
<1>1. frames # <<>> /\ Return /\ started' = started /\ cat' = cat /\ phase' = phase
  BY StepReturns DEF ReturnSteps, EarlyReturns, StartDone, MakeThrows, BindDone
<1>2. Len(frames') = Len(frames) - 1 /\ \A n \in 1..Len(frames') : frames'[n] = frames[n]
  BY <1>1, CallsReturn
<1>3. Len(frames) \in Nat \ {0} /\ UNCHANGED holdings
  BY <1>1, TopFacts DEF StartDone, MakeThrows, BindDone, holdings, registry
<1> QED
  BY <1>2, <1>3, FramesReturn

\* A call that returns its bean gives the constructor below a live one.
LEMMA FramesMade ==
    ASSUME CallsInv, TablesInv, InstInv, FramesInv, MadeReturns
    PROVE  FramesInv'
<1>1. frames # <<>> /\ Top.op = "make" /\ Top.at = "hooks" /\ UNCHANGED holdings
  BY DEF MadeReturns, In, holdings, registry
<1>2. FrameOK(Top, descs, store, inst) /\ started /\ Len(frames) \in Nat \ {0} /\ Depth = Len(frames)
  BY <1>1, TopOK, TopFacts DEF CallOK, Ending
<1>3. PICK u, k : u = Find(Top.desc) /\ k = Len(frames) - 1
  OBVIOUS
<1>4. u \in 1..Len(inst) /\ inst[u].life \in LiveLife
  BY <1>1, <1>2, <1>3, StoredLives DEF FrameOK
<1>5. k \in Nat /\ frames' = [n \in 1..k |-> IF n = k /\ frames[n].at = "constructor"
                                             THEN [frames[n] EXCEPT !.uses = @ \union {u}] ELSE frames[n]]
  BY <1>2, <1>3 DEF MadeReturns
<1>6. Len(frames') = k
  <2>1. frames' = [n \in 1..k |-> frames'[n]]
    BY <1>5
  <2> QED
    BY <1>5, <2>1, DomIsSeq
<1>7. ASSUME NEW n \in 1..k
      PROVE  \/ frames'[n] = frames[n]
             \/ /\ frames'[n].at = frames[n].at /\ frames'[n].desc = frames[n].desc
                /\ FrameOK(frames'[n], descs, store, inst)
  <2>1. CASE n = k /\ frames[n].at = "constructor"
    <3>1. PICK f, g : f = frames[n] /\ g = [f EXCEPT !.uses = @ \union {u}]
      OBVIOUS
    <3>2. frames'[n] = g
      BY <1>5, <2>1, <3>1
    <3>3. n \in 1..Len(frames)
      BY <1>2, <1>3
    <3>4. IsCall(f) /\ FrameOK(f, descs, store, inst)
      BY <3>1, <3>3 DEF CallsInv, CallOK, FramesInv, FramesAll
    <3>5. SetUses(f, f.uses \union {u}, g)
      BY <3>1 DEF SetUses
    <3>6. g.op = f.op /\ g.at = f.at /\ g.desc = f.desc /\ g.todo = f.todo /\ g.uses = f.uses \union {u}
      BY <3>4, <3>5, CallUses
    <3>7. f.at = "constructor"
      BY <2>1, <3>1
    <3>8. FrameOK(g, descs, store, inst)
      BY <1>4, <3>4, <3>6, <3>7 DEF FrameOK
    <3> QED
      BY <3>1, <3>2, <3>6, <3>8
  <2>2. CASE ~(n = k /\ frames[n].at = "constructor")
    BY <1>5, <2>2
  <2> QED
    BY <2>1, <2>2
<1> QED
  BY <1>1, <1>2, <1>3, <1>6, <1>7, FramesReturn

\* All the steps of a started context that change neither descriptors, store nor
\* instances keep the calls right.
LEMMA FramesSteady ==
    ASSUME CallsInv, TablesInv, InstInv, FramesInv, SteadySteps
    PROVE  FramesInv'
<1>1. CASE ContextAnnounced \/ BoundAnnounced \/ EagerFound
  BY <1>1, FramesStart
<1>2. CASE EagerClaim \/ \E t \in Types, n \in Names : ResolveClaim(t, n)
  BY <1>2, FramesClaims
<1>3. CASE \E t \in Types, n \in Names : ResolveFound(t, n)
  BY <1>3, FramesGiven
<1>4. CASE StartDone \/ MakeThrows \/ BindDone
  BY <1>4, FramesReturns
<1>5. CASE MadeReturns
  BY <1>5, FramesMade
<1>6. CASE BindStep
  BY <1>6, FramesRebuild
<1> QED
  BY <1>1, <1>2, <1>3, <1>4, <1>5, <1>6 DEF SteadySteps

\* An instance is added for d; the descriptors stay, or d is bound and the last of them.
LEMMA AddsGrow ==
    ASSUME TablesInv, TablesInv', InstInv, NEW d, Adds(d),
           UNCHANGED descs \/ \E e : e.bound /\ Goes(descs, e, descs')
    PROVE  Grown(descs, store, inst, descs', store', inst')
<1>1. Len(descs) \in Nat /\ Len(inst) \in Nat
  BY DescsIn, InstParts DEF TablesInv, TablesOK
<1>2. Len(descs) <= Len(descs') /\ Len(descs') \in Nat /\ EagerOf(descs') \subseteq EagerOf(descs)
  <2>1. CASE UNCHANGED descs
    BY <1>1, <2>1
  <2>2. CASE \E e : e.bound /\ Goes(descs, e, descs')
    <3>1. PICK e : e.bound /\ Goes(descs, e, descs')
      BY <2>2
    <3>2. Len(descs') = Len(descs) + 1 /\ descs'[Len(descs) + 1].bound /\ \A x \in 1..Len(descs) : descs'[x] = descs[x]
      BY <3>1 DEF Goes
    <3>3. \A x \in 1..Len(descs') : x \in 1..Len(descs) \/ x = Len(descs) + 1
      BY <1>1, <3>2
    <3>4. ASSUME NEW x \in EagerOf(descs') PROVE x \in EagerOf(descs)
      <4>1. /\ x \in 1..Len(descs')
            /\ descs'[x].life = "singleton" /\ ~descs'[x].bound /\ ~descs'[x].lazy /\ descs'[x].prim = x
        BY <3>4 DEF EagerOf
      <4>2. x \in 1..Len(descs)
        BY <3>2, <3>3, <4>1
      <4> QED
        BY <3>2, <4>1, <4>2 DEF EagerOf
    <3> QED
      BY <1>1, <3>2, <3>4
  <2> QED
    BY <2>1, <2>2
<1>3. /\ Len(inst') = Len(inst) + 1 /\ (\A i \in 1..Len(inst) : inst'[i] = inst[i])
      /\ \A e \in 1..Len(descs') : At(store', e) = IF e = d THEN Len(inst) + 1 ELSE At(store, e)
  BY DEF Adds
<1>4. \A e \in 1..Len(descs) : e \in 1..Len(descs')
  BY <1>1, <1>2
<1>5. Len(inst) + 1 \in 1..Len(inst') /\ Len(inst) + 1 # None /\ Len(inst') \in Nat /\ Len(inst) <= Len(inst')
  BY <1>1, <1>3, NoNumbers
<1>6. \A e \in 1..Len(descs) : At(store, e) \in 1..Len(inst) => At(store', e) \in 1..Len(inst')
  BY <1>1, <1>3, <1>4, <1>5
<1>7. \A e \in 1..Len(descs) : At(store, e) # None => At(store', e) # None
  BY <1>3, <1>4, <1>5
<1>8. \A u \in 1..Len(inst) : inst[u].life \in LiveLife => inst'[u].life \in LiveLife
  BY <1>3
<1> QED
  BY <1>1, <1>2, <1>5, <1>6, <1>7, <1>8 DEF Grown

\* Then the calls below stay right, if none is making that bean.
LEMMA BelowKept ==
    ASSUME CallsInv, FramesInv, TablesInv, TablesInv', InstInv, NEW d, Adds(d),
           UNCHANGED descs \/ \E e : e.bound /\ Goes(descs, e, descs'),
           NEW n \in 1..Len(frames), frames[n].at = "constructor" => frames[n].desc # d
    PROVE  FrameOK(frames[n], descs', store', inst')
<1>1. PICK f : f = frames[n]
  OBVIOUS
<1>2. PointOK(f) /\ FrameOK(f, descs, store, inst)
  BY <1>1 DEF CallsInv, CallOK, FramesInv, FramesAll
<1>3. Grown(descs, store, inst, descs', store', inst')
  BY AddsGrow
<1>4. f.at = "constructor" => At(store', f.desc) = None
  <2>1. f.at = "constructor" => f.op = "make"
    BY <1>2 DEF PointOK
  <2>2. \A x \in 1..Len(descs) : x \in 1..Len(descs')
    BY <1>3 DEF Grown
  <2> QED
    BY <1>1, <1>2, <2>1, <2>2 DEF FrameOK, Adds
<1> QED
  BY <1>1, <1>2, <1>3, <1>4, FrameKept

\* A constructor returns: the instance is stored and the hooks run.
LEMMA FramesStores ==
    ASSUME CallsInv, CallsInv', LifeInv, TablesInv', Made
    PROVE  FramesInv'
<1>1. TablesInv /\ InstInv /\ FramesInv
  BY DEF LifeInv
<1>2. PICK d : d = Top.desc
  OBVIOUS
<1>3. Adds(d) /\ d \in 1..Len(descs) /\ frames # <<>>
  <2>1. Makes(d, NewInst(d, Top.uses)) /\ d \in 1..Len(descs) /\ frames # <<>>
    BY <1>2, MadeMakes
  <2> QED
    BY <1>1, <2>1, InstMakes
<1>4. Top.op = "make" /\ Top.at = "constructor" /\ UNCHANGED descs /\ Goto([Top EXCEPT !.at = "hooks"])
  BY DEF Made, In, registry
<1>5. /\ Len(frames) \in Nat \ {0} /\ Len(frames) \in 1..Len(frames) /\ Top = frames[Len(frames)] /\ IsCall(Top)
  BY <1>3, TopFacts DEF CallOK
<1>6. PICK g : g = [Top EXCEPT !.at = "hooks"]
  OBVIOUS
<1>7. SetAt(Top, "hooks", g)
  BY <1>6 DEF SetAt
<1>8. g.op = "make" /\ g.at = "hooks" /\ g.desc = d
  BY <1>2, <1>4, <1>5, <1>7, CallAt
<1>9. At(store', d) \in 1..Len(inst')
  <2>1. Len(inst) \in Nat
    BY <1>1, InstParts
  <2> QED
    BY <1>3, <1>4, <2>1 DEF Adds
<1>10. FrameOK(g, descs', store', inst')
  BY <1>3, <1>4, <1>8, <1>9 DEF FrameOK
<1>11. ASSUME NEW n \in 1..(Len(frames) - 1) PROVE FrameOK(frames[n], descs', store', inst')
  <2>1. n \in 1..Len(frames) /\ n # Len(frames)
    BY <1>5
  <2>2. frames[n].at = "constructor" => frames[n].desc # d
    BY <1>1, <1>2, <1>4, <1>5, <2>1 DEF FramesInv, FramesAll, Making
  <2> QED
    BY <1>1, <1>3, <1>4, <2>1, <2>2, BelowKept
<1> QED
  BY <1>1, <1>3, <1>4, <1>6, <1>8, <1>10, <1>11, FramesGoto

\* bindSingleton() of a started context: the calls below stay right.
LEMMA FramesBind ==
    ASSUME CallsInv, CallsInv', LifeInv, NEW k \in Key, BindLate(k)
    PROVE  FramesInv'
<1>1. TablesInv /\ InstInv /\ FramesInv
  BY DEF LifeInv
<1>2. PICK d : d = Len(descs) + 1
  OBVIOUS
<1>3. started /\ started' /\ Push(Call("bind", "insert", d, <<>>))
  BY <1>2 DEF BindLate
<1>4. TablesInv' /\ Goes(descs, BoundDesc(k, d), descs') /\ BoundDesc(k, d).bound
  BY <1>1, <1>2, TablesBind
<1>5. Adds(d)
  BY <1>1, <1>2, <1>3, UpNotDoomed, UpNotDoomedNext, InstBindLate
<1>6. PICK g : g = Call("bind", "insert", d, <<>>)
  OBVIOUS
<1>7. g.op = "bind" /\ g.at = "insert" /\ g.desc = d
  BY <1>6, CallIs
<1>8. Len(descs) \in Nat
  BY <1>1, DescsIn DEF TablesInv, TablesOK
<1>9. FrameOK(g, descs', store', inst')
  <2>1. d \in 1..Len(descs')
    BY <1>2, <1>4, <1>8 DEF Goes
  <2> QED
    BY <1>7, <2>1 DEF FrameOK
<1>10. ASSUME NEW n \in 1..Len(frames) PROVE FrameOK(frames[n], descs', store', inst')
  <2>1. frames[n].at = "constructor" => frames[n].desc # d
    <3>1. PointOK(frames[n]) /\ FrameOK(frames[n], descs, store, inst)
      BY <1>1 DEF CallsInv, CallOK, FramesInv, FramesAll
    <3>2. frames[n].at = "constructor" => frames[n].op = "make"
      BY <3>1 DEF PointOK
    <3>3. frames[n].at = "constructor" => frames[n].desc \in 1..Len(descs)
      BY <3>1, <3>2 DEF FrameOK
    <3> QED
      BY <1>2, <1>8, <3>3
  <2> QED
    BY <1>1, <1>4, <1>5, <2>1, BelowKept
<1> QED
  BY <1>1, <1>3, <1>6, <1>7, <1>9, <1>10, FramesPush

\* start(), stop(), a rollback and ~Registry have one call at a time.
LEMMA FramesAlone ==
    ASSUME CallsInv, \/ (\E k : BindEarly(k)) \/ StartRejected \/ StartMerged \/ StartAgain
                     \/ (\E t, n : ResolveUnbuilt(t, n)) \/ StartThrows \/ (Stop /\ started) \/ ExitUnstopped
                     \/ DestroyNext \/ ReleaseAll \/ StopSweeps \/ Stopped \/ DestroyRegistry
    PROVE  FramesInv'
<1>1. CASE \E k : BindEarly(k)
  <2>1. frames' = frames /\ ~started
    BY <1>1 DEF BindEarly
  <2>2. CASE frames = <<>>
    BY <2>1, <2>2, FramesSingle
  <2>3. CASE frames # <<>>
    <3>1. Top = frames[Len(frames)] /\ CallOK(Top, Len(frames), Len(frames), started)
      BY <2>3, TopFacts
    <3>2. Len(frames) = 1 /\ Ending(Top) /\ PointOK(Top)
      BY <2>1, <3>1 DEF CallOK
    <3>3. Top.op \notin {"make", "bind"} /\ Top.at \notin {"constructor", "hooks", "eager"}
      BY <3>2 DEF Ending, PointOK
    <3> QED
      BY <2>1, <3>1, <3>2, <3>3, FramesSingle
  <2> QED
    BY <2>2, <2>3
<1>2. CASE StartRejected \/ \E t, n : ResolveUnbuilt(t, n)
  <2>1. frames' = <<>>
    BY <1>2 DEF StartRejected, ResolveUnbuilt, Idle
  <2> QED
    BY <2>1, FramesSingle
<1>3. CASE StartMerged \/ StartAgain
  <2>1. frames = <<>> /\ \E q : frames' = Append(frames, Call("start", "context", NoDesc, q))
    BY <1>3 DEF StartMerged, StartAgain, Idle, Push
  <2>2. PICK q : frames' = Append(<<>>, Call("start", "context", NoDesc, q))
    BY <2>1
  <2>3. PICK c : c = Call("start", "context", NoDesc, q)
    OBVIOUS
  <2>4. c.op = "start" /\ c.at = "context"
    BY <2>3, CallIs
  <2>5. frames' = <<c>>
    BY <2>2, <2>3, OneCall
  <2>6. Len(frames') = 1 /\ frames'[1] = c
    BY <2>5, OneCall
  <2> QED
    BY <2>4, <2>6, FramesSingle
<1>4. CASE StartThrows \/ (Stop /\ started) \/ ExitUnstopped
  <2>1. Len(frames') = 1 /\ frames'[1].at = "destroying" /\ frames'[1].op \in {"stop", "exit", "rollback"}
    BY <1>4, DoomBegins
  <2> QED
    BY <2>1, FramesSingle
<1>5. CASE DestroyNext
  <2>1. frames # <<>> /\ Top.at = "destroying"
    BY <1>5 DEF DestroyNext
  <2>2. CallOK(Top, Len(frames), Len(frames), started)
    BY <2>1, TopFacts
  <2>3. Ending(Top) /\ Len(frames) = 1
    BY <2>1, <2>2 DEF CallOK, PointOK, Ending
  <2>4. PICK g : Goto(g) /\ IsCall(g) /\ PointOK(g) /\ GoesOn(g)
    BY <1>5, StepGoesOn DEF GotoSteps
  <2>5. g.op = Top.op /\ g.at \in {"destroying", "released", "sweeping"}
    BY <2>3, <2>4 DEF GoesOn, PointOK, Ending
  <2>6. Len(frames') = 1 /\ frames'[1] = g
    BY <2>1, <2>3, <2>4, GotoIs
  <2> QED
    BY <2>3, <2>5, <2>6, FramesSingle DEF Ending
<1>6. CASE ReleaseAll
  <2>1. /\ Ending(frames[1])
        /\ IF frames[1].op = "rollback" THEN frames' = <<>>
           ELSE Len(frames') = 1 /\ frames'[1].op = frames[1].op /\ frames'[1].at = "released"
    BY <1>6, ReleasedCalls
  <2> QED
    BY <2>1, FramesSingle DEF Ending
<1>7. CASE StopSweeps \/ Stopped
  <2>1. frames' = <<>> \/ (Len(frames') = 1 /\ frames'[1].op = "stop" /\ frames'[1].at = "sweeping")
    BY <1>7, StopEnds
  <2> QED
    BY <2>1, FramesSingle
<1>8. CASE DestroyRegistry
  BY <1>8, FramesSingle DEF DestroyRegistry
<1> QED
  BY <1>1, <1>2, <1>3, <1>4, <1>5, <1>6, <1>7, <1>8

\* Every step of the registry keeps the calls right.
LEMMA FramesStep ==
    ASSUME CallsInv, CallsInv', LifeInv, RegistrySteps \/ Stopped
    PROVE  FramesInv'
<1>1. TablesInv /\ InstInv /\ FramesInv /\ TablesInv'
  BY TablesStep DEF LifeInv
<1>2. CASE BesideSteps
  BY <1>1, <1>2, BesideSame, FramesBeside
<1>3. CASE SteadySteps
  BY <1>1, <1>3, FramesSteady
<1>4. CASE \E k \in Key : BindLate(k)
  BY <1>4, FramesBind
<1>5. CASE Made
  BY <1>1, <1>5, FramesStores
<1> QED
  BY <1>2, <1>3, <1>4, <1>5, StepKinds, FramesAlone

-----------------------------------------------------------------------------
(* What a started context has.                                             *)

\* A step after which the context is started, with all that a started one has.
LEMMA UpUp ==
    ASSUME CallsInv', started',
           frames' = <<>> \/ frames'[1].op # "start" => \A d \in EagerOf(descs') : At(store', d) # None,
           failed' = 0 => \A d \in 1..Len(descs') : descs'[d].bound => At(store', d) # None
    PROVE  UpInv'
<1>1. \A n \in 1..Len(frames') : frames'[n].op # "rollback"
  BY DEF CallsInv, CallOK, Ending
<1> QED
  BY <1>1 DEF UpInv

\* A step after which it is not.
LEMMA UpDown ==
    ASSUME ~started', \A n \in 1..Len(frames') : frames'[n].op = "rollback" => failed' > 0,
           phase' = "live" /\ frames' = <<>> /\ failed' = 0 => descs' = <<>>
    PROVE  UpInv'
BY DEF UpInv

\* start() is on the stack until it is done.
LEMMA StartStays ==
    ASSUME CallsInv, SteadySteps, ~StartDone, frames # <<>>, frames[1].op = "start"
    PROVE  frames' # <<>> /\ frames'[1].op = "start"
<1>1. /\ Len(frames) \in Nat \ {0} /\ Depth = Len(frames) /\ Top = frames[Len(frames)] /\ IsSeq(frames)
  BY TopFacts DEF CallsInv
<1>2. CASE \/ ContextAnnounced \/ BoundAnnounced \/ EagerFound \/ BindStep
           \/ (\E t \in Types, n \in Names : ResolveFound(t, n))
  <2>1. PICK g : Goto(g) /\ GoesOn(g)
    BY <1>2, StepGoesOn DEF GotoSteps
  <2>2. Len(frames') = Len(frames) /\ \A n \in 1..Len(frames) : frames'[n] = IF n = Len(frames) THEN g ELSE frames[n]
    BY <2>1, GotoIs
  <2>3. g.op = Top.op
    BY <2>1 DEF GoesOn
  <2>4. frames'[1].op = "start"
    BY <1>1, <2>2, <2>3
  <2>5. Len(frames') # 0
    BY <1>1, <2>2
  <2> QED
    BY <2>4, <2>5
<1>3. CASE EagerClaim \/ \E t \in Types, n \in Names : ResolveClaim(t, n)
  <2>1. PICK g : Push(g)
    BY <1>3 DEF EagerClaim, ResolveClaim
  <2>2. frames' = Append(frames, g)
    BY <2>1 DEF Push
  <2>3. Len(frames') = Len(frames) + 1 /\ \A n \in 1..Len(frames) : frames'[n] = frames[n]
    BY <1>1, <2>2, AppendFacts
  <2>4. Len(frames') # 0 /\ frames'[1] = frames[1]
    BY <1>1, <2>3
  <2> QED
    BY <2>4
<1>4. CASE MakeThrows \/ BindDone \/ MadeReturns
  <2>1. Top.op # "start"
    BY <1>4 DEF MakeThrows, BindDone, MadeReturns, In
  <2>2. Len(frames) > 1
    BY <1>1, <2>1
  <2>3. CASE MakeThrows \/ BindDone
    <3>1. Return /\ started' = started /\ cat' = cat /\ phase' = phase
      BY <2>3, StepReturns DEF ReturnSteps, EarlyReturns, MakeThrows, BindDone
    <3>2. Len(frames') = Len(frames) - 1 /\ \A n \in 1..Len(frames') : frames'[n] = frames[n]
      BY <3>1, CallsReturn
    <3>3. Len(frames') # 0 /\ frames'[1] = frames[1]
      BY <1>1, <2>2, <3>2
    <3> QED
      BY <3>3
  <2>4. CASE MadeReturns
    <3>1. PICK u, k : u = Find(Top.desc) /\ k = Len(frames) - 1
      OBVIOUS
    <3>2. k \in Nat /\ 1 \in 1..k /\ k \in 1..Len(frames)
      BY <1>1, <2>2, <3>1
    <3>3. frames' = [n \in 1..k |-> IF n = k /\ frames[n].at = "constructor"
                                    THEN [frames[n] EXCEPT !.uses = @ \union {u}] ELSE frames[n]]
      BY <1>1, <2>4, <3>1 DEF MadeReturns
    <3>4. frames' = [n \in 1..k |-> frames'[n]]
      BY <3>3
    <3>5. Len(frames') = k
      BY <3>2, <3>4, DomIsSeq
    <3>6. frames'[1].op = "start"
      <4>1. PICK f, g : f = frames[1] /\ g = [f EXCEPT !.uses = @ \union {u}]
        OBVIOUS
      <4>2. SetUses(f, f.uses \union {u}, g)
        BY <4>1 DEF SetUses
      <4>3. IsCall(f)
        BY <1>1, <4>1 DEF CallsInv, CallOK
      <4>4. g.op = f.op
        BY <4>2, <4>3, CallUses
      <4>5. frames'[1] = f \/ frames'[1] = g
        BY <3>2, <3>3, <4>1
      <4> QED
        BY <4>1, <4>4, <4>5
    <3>7. Len(frames') # 0
      BY <3>2, <3>5
    <3> QED
      BY <3>6, <3>7
  <2> QED
    BY <1>4, <2>3, <2>4
<1> QED
  BY <1>2, <1>3, <1>4 DEF SteadySteps

\* When it is, all eager beans are there.
LEMMA EagerDone ==
    ASSUME CallsInv, FramesInv, StartDone
    PROVE  \A d \in EagerOf(descs) : At(store, d) # None
<1>1. frames # <<>> /\ Top.op = "start" /\ Top.at = "eager" /\ Top.todo = <<>>
  BY DEF StartDone, In
<1>2. FrameOK(Top, descs, store, inst)
  BY <1>1, TopOK
<1>3. \A d \in EagerOf(descs) : Holds(Top.todo, d) \/ At(store, d) # None
  BY <1>1, <1>2 DEF FrameOK
<1> QED
  BY <1>1, <1>3, HoldsNone

\* A started context keeps what it has; start() returns when it has it all.
LEMMA UpSteady ==
    ASSUME CallsInv, CallsInv', FramesInv, UpInv, SteadySteps
    PROVE  UpInv'
<1>1. started /\ started' /\ UNCHANGED <<store, descs, failed>>
  BY SteadyUp DEF holdings
<1>2. frames' = <<>> \/ frames'[1].op # "start" => \A d \in EagerOf(descs) : At(store, d) # None
  <2>1. CASE frames = <<>> \/ frames[1].op # "start"
    BY <1>1, <2>1 DEF UpInv
  <2>2. CASE StartDone
    BY <2>2, EagerDone
  <2>3. CASE ~StartDone /\ frames # <<>> /\ frames[1].op = "start"
    BY <2>3, StartStays
  <2> QED
    BY <2>1, <2>2, <2>3
<1>3. failed = 0 => \A d \in 1..Len(descs) : descs[d].bound => At(store, d) # None
  BY <1>1 DEF UpInv
<1>4. frames' = <<>> \/ frames'[1].op # "start" => \A d \in EagerOf(descs') : At(store', d) # None
  BY <1>1, <1>2
<1>5. failed' = 0 => \A d \in 1..Len(descs') : descs'[d].bound => At(store', d) # None
  BY <1>1, <1>3
<1> QED
  BY <1>1, <1>4, <1>5, UpUp

\* An instance is added: what was there is still there.
LEMMA UpAdds ==
    ASSUME CallsInv, CallsInv', UpInv, TablesInv, TablesInv', InstInv, started, started', failed' = failed, NEW d, Adds(d),
           UNCHANGED descs \/ (d = Len(descs) + 1 /\ \E e : e.bound /\ Goes(descs, e, descs')),
           frames' = <<>> \/ frames'[1].op # "start" => frames = <<>> \/ frames[1].op # "start"
    PROVE  UpInv'
<1>1. Grown(descs, store, inst, descs', store', inst')
  BY AddsGrow
<1>2. /\ EagerOf(descs') \subseteq EagerOf(descs) /\ Len(descs) \in Nat /\ EagerOf(descs) \subseteq 1..Len(descs)
      /\ Len(inst) \in Nat /\ Len(inst) + 1 # None
  BY <1>1, NoNumbers DEF Grown, EagerOf
<1>3. \A x \in 1..Len(descs) : At(store, x) # None => At(store', x) # None
  BY <1>1 DEF Grown
<1>4. frames' = <<>> \/ frames'[1].op # "start" => \A x \in EagerOf(descs') : At(store', x) # None
  BY <1>2, <1>3 DEF UpInv
<1>5. ASSUME failed' = 0, NEW x \in 1..Len(descs'), descs'[x].bound PROVE At(store', x) # None
  <2>1. CASE x \in 1..Len(descs)
    <3>1. descs'[x] = descs[x]
      BY <2>1 DEF Goes
    <3> QED
      BY <1>3, <1>5, <2>1, <3>1 DEF UpInv
  <2>2. CASE x \notin 1..Len(descs)
    <3>1. x = d
      BY <1>2, <1>5, <2>2 DEF Goes
    <3>2. At(store', d) = Len(inst) + 1
      BY <1>5, <3>1 DEF Adds
    <3> QED
      BY <1>2, <3>1, <3>2
  <2> QED
    BY <2>1, <2>2
<1> QED
  BY <1>4, <1>5, UpUp

\* start() begins: without a failure before, it finds no descriptor, and stores
\* the instances of all bindings that it adopts.
LEMMA UpMerged ==
    ASSUME CallsInv, CallsInv', TablesInv, InstInv, UpInv, StartMerged
    PROVE  UpInv'
<1>1. started' /\ failed' = failed /\ Idle /\ ~started
  BY DEF StartMerged
<1>2. frames' # <<>> /\ frames'[1].op = "start"
  <2>1. frames = <<>> /\ \E q : frames' = Append(frames, Call("start", "context", NoDesc, q))
    BY DEF StartMerged, Idle, Push
  <2>2. PICK q : frames' = Append(<<>>, Call("start", "context", NoDesc, q))
    BY <2>1
  <2>3. PICK c : c = Call("start", "context", NoDesc, q)
    OBVIOUS
  <2>4. c.op = "start"
    BY <2>3, CallIs
  <2>5. frames' = <<c>>
    BY <2>2, <2>3, OneCall
  <2> QED
    BY <2>4, <2>5, OneCall
<1>3. ~Doomed(frames')
  BY <1>1, UpNotDoomedNext
<1>4. PICK w, M : /\ Completes(Built, Len(descs), bindings, w, M) /\ descs' = w.descs /\ Filled(store', w.stored, M)
  BY <1>3, InstMerged
<1>5. ASSUME failed' = 0, NEW d \in 1..Len(descs'), descs'[d].bound PROVE At(store', d) # None
  <2>1. Len(descs) = 0
    <3>1. descs = <<>>
      BY <1>1, <1>5 DEF UpInv, Idle
    <3> QED
      BY <3>1
  <2>2. PICK L : L = Len(descs)
    OBVIOUS
  <2>3. d \in 1..M /\ d > L /\ w.descs[d].bound /\ M \in Nat
    BY <1>4, <1>5, <2>1, <2>2 DEF Completes
  <2>4. d = M \/ \E n \in 1..Len(w.stored) : w.stored[n].desc = d
    BY <1>4, <2>2, <2>3 DEF Completes
  <2>5. CASE d = M
    BY <1>4, <2>5, NoNumbers DEF Filled
  <2>6. CASE \E n \in 1..Len(w.stored) : w.stored[n].desc = d
    <3>1. PICK n \in 1..Len(w.stored) : w.stored[n].desc = d
      BY <2>6
    <3>2. At(store', d) = w.stored[n].inst
      BY <1>4, <3>1 DEF Filled
    <3>3. PICK S : S = [desc : 1..M, inst : Nat]
      OBVIOUS
    <3>4. w.stored \in Seq(S)
      BY <1>4, <3>3 DEF Completes, Fills
    <3>5. w.stored[n] \in S
      BY <3>1, <3>4
    <3>6. w.stored[n].inst \in Nat
      BY <3>3, <3>5
    <3> QED
      BY <3>2, <3>6, NoNumbers
  <2> QED
    BY <2>4, <2>5, <2>6
<1> QED
  BY <1>1, <1>2, <1>5, UpUp

\* start() after one that threw: nothing is promised of what was bound before.
LEMMA UpAgain ==
    ASSUME CallsInv, CallsInv', TablesInv, UpInv, StartAgain
    PROVE  UpInv'
<1>1. started' /\ failed' = failed /\ Idle /\ ~started /\ ctxDesc # NoDesc
  BY DEF StartAgain
<1>2. frames' # <<>> /\ frames'[1].op = "start"
  <2>1. frames' = Append(<<>>, Call("start", "context", NoDesc, <<>>))
    BY DEF StartAgain, Idle, Push
  <2>2. PICK c : c = Call("start", "context", NoDesc, <<>>)
    OBVIOUS
  <2>3. c.op = "start"
    BY <2>2, CallIs
  <2>4. frames' = <<c>>
    BY <2>1, <2>2, OneCall
  <2> QED
    BY <2>3, <2>4, OneCall
<1>3. failed' # 0
  <2>1. SUFFICES ASSUME failed = 0 PROVE FALSE
    BY <1>1
  <2>2. descs = <<>>
    BY <1>1, <2>1 DEF UpInv, Idle
  <2>3. Len(descs) = 0
    BY <2>2
  <2> QED
    BY <1>1, <2>3 DEF TablesInv
<1> QED
  BY <1>1, <1>2, <1>3, UpUp

\* The steps after which the context is not started keep UpInv.
LEMMA UpEnds ==
    ASSUME CallsInv, CallsInv', InstInv, UpInv,
           \/ (\E k : BindEarly(k)) \/ StartRejected \/ StartThrows \/ (Stop /\ started) \/ ExitUnstopped
           \/ DestroyNext \/ ReleaseAll \/ StopSweeps \/ Stopped \/ DestroyRegistry
    PROVE  UpInv'
<1>0. failed \in Nat
  BY InstParts
<1>1. CASE \E k : BindEarly(k)
  BY <1>1 DEF BindEarly, UpInv
<1>2. CASE StartRejected
  <2>1. ~started' /\ frames' = <<>> /\ failed' = failed + 1
    BY <1>2 DEF StartRejected, Idle
  <2>2. failed' > 0 /\ failed' # 0
    BY <1>0, <2>1
  <2> QED
    BY <2>1, <2>2, UpDown
<1>3. CASE StartThrows \/ (Stop /\ started) \/ ExitUnstopped
  <2>1. /\ ~started' /\ Len(frames') = 1 /\ (frames'[1].op = "rollback" => StartThrows)
        /\ failed' = IF StartThrows THEN failed + 1 ELSE failed
    BY <1>3, DoomBegins
  <2>2. frames' # <<>>
    BY <2>1
  <2>3. \A n \in 1..Len(frames') : n = 1
    BY <2>1
  <2>4. StartThrows => failed' > 0
    BY <1>0, <2>1
  <2> QED
    BY <2>1, <2>2, <2>3, <2>4, UpDown
<1>4. CASE DestroyNext
  <2>1. frames # <<>> /\ Top.at = "destroying" /\ failed' = failed /\ started' = started
    BY <1>4 DEF DestroyNext
  <2>2. CallOK(Top, Len(frames), Len(frames), started) /\ Top = frames[Len(frames)]
    BY <2>1, TopFacts
  <2>3. Ending(Top) /\ Len(frames) = 1 /\ ~started
    BY <2>1, <2>2 DEF CallOK, PointOK, Ending
  <2>4. PICK g : Goto(g) /\ IsCall(g) /\ PointOK(g) /\ GoesOn(g)
    BY <1>4, StepGoesOn DEF GotoSteps
  <2>5. g.op = Top.op
    BY <2>4 DEF GoesOn
  <2>6. Len(frames') = 1 /\ frames'[1] = g
    BY <2>1, <2>3, <2>4, GotoIs
  <2>7. frames' # <<>> /\ \A n \in 1..Len(frames') : n = 1 /\ n \in 1..Len(frames)
    BY <2>3, <2>6
  <2>8. \A n \in 1..Len(frames') : frames'[n].op = "rollback" => failed' > 0
    BY <2>1, <2>2, <2>3, <2>5, <2>6, <2>7 DEF UpInv
  <2> QED
    BY <2>1, <2>3, <2>7, <2>8, UpDown
<1>5. CASE ReleaseAll
  <2>1. /\ ~started /\ Len(frames) = 1
        /\ IF frames[1].op = "rollback" THEN frames' = <<>>
           ELSE Len(frames') = 1 /\ frames'[1].op = frames[1].op /\ frames'[1].at = "released"
    BY <1>5, ReleasedCalls
  <2>2. failed' = failed /\ started' = started
    BY <1>5 DEF ReleaseAll
  <2>3. frames[1].op = "rollback" => failed > 0
    BY <2>1 DEF UpInv
  <2>4. CASE frames[1].op = "rollback"
    <3>1. frames' = <<>> /\ failed' # 0
      BY <1>0, <2>1, <2>2, <2>3, <2>4
    <3>2. Len(frames') = 0
      BY <3>1
    <3> QED
      BY <2>1, <2>2, <3>1, <3>2, UpDown
  <2>5. CASE frames[1].op # "rollback"
    <3>0. Len(frames') = 1
      BY <2>1, <2>5
    <3>1. frames' # <<>> /\ \A n \in 1..Len(frames') : n = 1
      BY <3>0
    <3> QED
      BY <2>1, <2>2, <2>5, <3>1, UpDown
  <2> QED
    BY <2>4, <2>5
<1>6. CASE StopSweeps \/ Stopped
  <2>1. /\ ~started /\ started' = started
        /\ IF Stopped THEN frames' = <<>> /\ phase' = "stopped"
           ELSE Len(frames') = 1 /\ frames'[1].op = "stop"
    BY <1>6, StopEnds
  <2>2. CASE Stopped
    <3>1. Len(frames') = 0
      BY <2>1, <2>2
    <3> QED
      BY <2>1, <2>2, <3>1, UpDown
  <2>3. CASE ~Stopped
    <3>0. Len(frames') = 1
      BY <2>1, <2>3
    <3>1. frames' # <<>> /\ \A n \in 1..Len(frames') : n = 1
      BY <3>0
    <3> QED
      BY <2>1, <2>3, <3>1, UpDown
  <2> QED
    BY <2>2, <2>3
<1>7. CASE DestroyRegistry
  <2>1. frames' = <<>> /\ phase' = "dead"
    BY <1>7 DEF DestroyRegistry
  <2>2. ~started' /\ Len(frames') = 0
    BY <2>1 DEF CallsInv
  <2> QED
    BY <2>1, <2>2, UpDown
<1> QED
  BY <1>1, <1>2, <1>3, <1>4, <1>5, <1>6, <1>7

\* Every step of the registry keeps UpInv.
LEMMA UpStep ==
    ASSUME CallsInv, CallsInv', LifeInv, RegistrySteps \/ Stopped
    PROVE  UpInv'
<1>1. TablesInv /\ InstInv /\ FramesInv /\ UpInv /\ TablesInv'
  BY TablesStep DEF LifeInv
<1>2. CASE BesideSteps
  <2>1. UNCHANGED holdings /\ (started' <=> started) /\ frames' = frames /\ (phase' = "live" => phase = "live")
    BY <1>2, BesideSame
  <2> QED
    BY <1>1, <2>1 DEF UpInv, holdings
<1>3. CASE SteadySteps
  BY <1>1, <1>3, UpSteady
<1>4. CASE \E k \in Key : BindLate(k)
  <2>1. PICK k \in Key : BindLate(k)
    BY <1>4
  <2>2. PICK d : d = Len(descs) + 1
    OBVIOUS
  <2>3. started /\ started' /\ failed' = failed /\ \E f : frames' = Append(frames, f) /\ f.op = "bind"
    BY <2>1, CallIs DEF BindLate, Push
  <2>4. \E e : e.bound /\ Goes(descs, e, descs')
    BY <1>1, <2>1, TablesBind
  <2>5. Adds(d)
    BY <1>1, <2>1, <2>2, <2>3, UpNotDoomed, UpNotDoomedNext, InstBindLate
  <2>6. frames' = <<>> \/ frames'[1].op # "start" => frames = <<>> \/ frames[1].op # "start"
    <3>1. SUFFICES ASSUME frames # <<>>, frames[1].op = "start" PROVE frames' # <<>> /\ frames'[1].op = "start"
      OBVIOUS
    <3>2. IsSeq(frames) /\ Len(frames) \in Nat \ {0}
      BY <3>1, TopFacts DEF CallsInv
    <3>3. Len(frames') = Len(frames) + 1 /\ \A n \in 1..Len(frames) : frames'[n] = frames[n]
      BY <2>3, <3>2, AppendFacts
    <3>4. Len(frames') # 0 /\ frames'[1] = frames[1]
      BY <3>2, <3>3
    <3> QED
      BY <3>1, <3>4
  <2> QED
    BY <1>1, <2>2, <2>3, <2>4, <2>5, <2>6, UpAdds
<1>5. CASE StartMerged
  BY <1>1, <1>5, UpMerged
<1>6. CASE StartAgain
  BY <1>1, <1>6, UpAgain
<1>7. CASE Made
  <2>1. PICK d : d = Top.desc
    OBVIOUS
  <2>2. Makes(d, NewInst(d, Top.uses)) /\ started /\ started' /\ frames # <<>>
    BY <1>7, <2>1, MadeMakes
  <2>3. Adds(d)
    BY <1>1, <2>2, InstMakes
  <2>4. UNCHANGED descs /\ failed' = failed
    BY <1>7 DEF Made, registry
  <2>5. frames' = <<>> \/ frames'[1].op # "start" => frames = <<>> \/ frames[1].op # "start"
    <3>1. PICK g : Goto(g) /\ GoesOn(g)
      BY <1>7, StepGoesOn DEF GotoSteps
    <3>2. /\ Len(frames') = Len(frames) /\ Len(frames) \in Nat \ {0}
          /\ \A n \in 1..Len(frames) : frames'[n] = IF n = Len(frames) THEN g ELSE frames[n]
      BY <2>2, <3>1, GotoIs
    <3>3. g.op = Top.op /\ Top = frames[Len(frames)]
      BY <2>2, <3>1, TopFacts DEF GoesOn
    <3>4. frames'[1].op = frames[1].op /\ Len(frames') # 0
      BY <3>2, <3>3
    <3> QED
      BY <3>4
  <2> QED
    BY <1>1, <2>2, <2>3, <2>4, <2>5, UpAdds
<1>8. CASE \E t \in Types, n \in Names : ResolveUnbuilt(t, n)
  <2>1. PICK d, x : Makes(d, x)
    BY <1>8, UnbuiltMakes
  <2>2. Adds(d) /\ started /\ started' /\ UNCHANGED descs /\ failed' = failed
    BY <1>1, <2>1, InstMakes DEF Makes
  <2>3. frames' = frames
    BY <1>8 DEF ResolveUnbuilt
  <2> QED
    BY <1>1, <2>2, <2>3, UpAdds
<1> QED
  BY <1>1, <1>2, <1>3, <1>4, <1>5, <1>6, <1>7, <1>8, StepKinds, UpEnds

-----------------------------------------------------------------------------
(* The other thread's resolve().                                           *)

\* The same request m as l, at the point a with the answer d and the instance f.
Looks(l, a, d, f, m) ==
    IsLook(m) /\ m.at = a /\ m.type = l.type /\ m.name = l.name /\ m.desc = d /\ m.found = f

\* The steps of a request in those terms.
LEMMA LooksOn ==
    ASSUME NEW l, IsLook(l), NEW m, NEW a, NEW d
    PROVE  /\ m = [l EXCEPT !.at = a] => Looks(l, a, l.desc, l.found, m)
           /\ m = [l EXCEPT !.at = a, !.desc = d] => Looks(l, a, d, l.found, m)
           /\ m = [l EXCEPT !.desc = d, !.at = a] => Looks(l, a, d, l.found, m)
           /\ m = [l EXCEPT !.at = a, !.found = d] => Looks(l, a, l.desc, d, m)
           /\ m = [l EXCEPT !.seen = d] => Looks(l, l.at, l.desc, l.found, m)
<1>1. PICK t, n, e, f, s, b : l = [at |-> b, type |-> t, name |-> n, desc |-> e, found |-> f, seen |-> s]
                              /\ l.at = b /\ l.type = t /\ l.name = n /\ l.desc = e /\ l.found = f
  BY DEF IsLook
<1>2. ASSUME m = [l EXCEPT !.at = a] PROVE Looks(l, a, l.desc, l.found, m)
  <2>1. m = [at |-> a, type |-> t, name |-> n, desc |-> e, found |-> f, seen |-> s]
    BY <1>1, <1>2
  <2> QED
    BY <1>1, <2>1 DEF Looks, IsLook
<1>3. ASSUME m = [l EXCEPT !.at = a, !.desc = d] PROVE Looks(l, a, d, l.found, m)
  <2>1. m = [at |-> a, type |-> t, name |-> n, desc |-> d, found |-> f, seen |-> s]
    BY <1>1, <1>3
  <2> QED
    BY <1>1, <2>1 DEF Looks, IsLook
<1>4. ASSUME m = [l EXCEPT !.desc = d, !.at = a] PROVE Looks(l, a, d, l.found, m)
  <2>1. m = [at |-> a, type |-> t, name |-> n, desc |-> d, found |-> f, seen |-> s]
    BY <1>1, <1>4
  <2> QED
    BY <1>1, <2>1 DEF Looks, IsLook
<1>5. ASSUME m = [l EXCEPT !.at = a, !.found = d] PROVE Looks(l, a, l.desc, d, m)
  <2>1. m = [at |-> a, type |-> t, name |-> n, desc |-> e, found |-> d, seen |-> s]
    BY <1>1, <1>5
  <2> QED
    BY <1>1, <2>1 DEF Looks, IsLook
<1>6. ASSUME m = [l EXCEPT !.seen = d] PROVE Looks(l, l.at, l.desc, l.found, m)
  <2>1. m = [at |-> b, type |-> t, name |-> n, desc |-> e, found |-> f, seen |-> d]
    BY <1>1, <1>6
  <2> QED
    BY <1>1, <2>1 DEF Looks, IsLook
<1> QED
  BY <1>2, <1>3, <1>4, <1>5, <1>6

\* A point before the instance is known is right with any descriptor that exists.
LEMMA LookOn ==
    ASSUME NEW l, NEW m, NEW ds, NEW s, NEW n, LookOK(l, ds, s, n), l.at # "done",
           NEW a \in {"single", "entry", "flag", "find", "done"}, NEW d \in 1..Len(ds) \union {NoDesc, Ambiguous},
           a \in {"flag", "find"} => d \in 1..Len(ds), a = "done" => d \notin 1..Len(ds),
           Looks(l, a, d, None, m)
    PROVE  LookOK(m, ds, s, n)
<1>1. /\ IsLook(m) /\ m.at = a /\ m.type = l.type /\ m.name = l.name /\ m.desc = d /\ m.found = None
  BY DEF Looks
<1>2. m.type \in Types /\ m.name \in Names
  BY <1>1 DEF LookOK
<1> QED
  BY <1>1, <1>2 DEF LookOK

\* The reads of the tables, whatever bindSingleton() has rebuilt so far.
LEMMA LookReads ==
    ASSUME TablesInv, LookOK(look, descs, store, failed), LookSingle \/ LookEntry \/ LookFlag
    PROVE  LookOK(look', descs, store, failed)
<1>1. IsLook(look) /\ look.at # "done" /\ look.found = None /\ look.type \in Types /\ look.name \in Names
  BY DEF LookOK, LookSingle, LookEntry, LookFlag
<1>2. Len(descs) \in Nat /\ ix \in Index(Len(descs))
  BY DescsIn DEF TablesInv, TablesOK
<1>3. /\ ix.single[look.type] \in 1..Len(descs) \union {NoDesc}
      /\ ix.entries[look.type][look.name].head \in 1..Len(descs) \union {NoDesc}
      /\ FromEntry(ix.entries[look.type][look.name], Prio) \in 1..Len(descs) \union {NoDesc, Ambiguous}
  BY <1>1, <1>2, LookupTyped
<1>4. NoDesc \notin 1..Len(descs) /\ Ambiguous \notin 1..Len(descs)
  BY <1>2, NoNumbers
<1>5. CASE LookSingle
  <2>1. CASE look.name = Unnamed /\ ix.single[look.type] # NoDesc
    <3>1. PICK d : d = ix.single[look.type]
      OBVIOUS
    <3>2. look' = [look EXCEPT !.at = "find", !.desc = d] /\ d \in 1..Len(descs)
      BY <1>3, <1>5, <2>1, <3>1 DEF LookSingle
    <3>3. Looks(look, "find", d, None, look')
      BY <1>1, <3>2, LooksOn
    <3> QED
      BY <1>1, <3>2, <3>3, LookOn
  <2>2. CASE ~(look.name = Unnamed /\ ix.single[look.type] # NoDesc)
    <3>1. look' = [look EXCEPT !.at = "entry"]
      BY <1>5, <2>2 DEF LookSingle
    <3>2. Looks(look, "entry", look.desc, None, look')
      BY <1>1, <3>1, LooksOn
    <3>3. look.desc \in 1..Len(descs) \union {NoDesc, Ambiguous}
      BY DEF LookOK
    <3> QED
      BY <1>1, <3>2, <3>3, LookOn
  <2> QED
    BY <2>1, <2>2
<1>6. CASE LookEntry
  <2>1. PICK e, p : e = ix.entries[look.type][look.name] /\ p = FromEntry(e, Prio)
    OBVIOUS
  <2>2. PICK d, a : /\ d = (IF e.head # NoDesc THEN e.head ELSE p)
                    /\ a = (IF e.head # NoDesc THEN "flag" ELSE IF d \in {NoDesc, Ambiguous} THEN "done" ELSE "find")
    OBVIOUS
  <2>3. look' = [look EXCEPT !.desc = d, !.at = a]
    BY <1>6, <2>1, <2>2 DEF LookEntry
  <2>4. Looks(look, a, d, None, look')
    BY <1>1, <2>3, LooksOn
  <2>5. d \in 1..Len(descs) \union {NoDesc, Ambiguous} /\ (a \in {"flag", "find"} => d \in 1..Len(descs))
    BY <1>3, <2>1, <2>2
  <2>6. a \in {"single", "entry", "flag", "find", "done"} /\ (a = "done" => d \notin 1..Len(descs))
    BY <1>4, <2>2
  <2> QED
    BY <1>1, <2>4, <2>5, <2>6, LookOn
<1>7. CASE LookFlag
  <2>1. look.desc \in 1..Len(descs) /\ look.at = "flag"
    BY <1>7 DEF LookFlag, LookOK
  <2>2. CASE ix.entries[look.type][look.name].ambiguous
    <3>1. look' = [look EXCEPT !.at = "done", !.desc = Ambiguous]
      BY <1>7, <2>2 DEF LookFlag
    <3>2. Looks(look, "done", Ambiguous, None, look')
      BY <1>1, <3>1, LooksOn
    <3> QED
      BY <1>1, <1>4, <3>2, LookOn
  <2>3. CASE ~ix.entries[look.type][look.name].ambiguous
    <3>1. look' = [look EXCEPT !.at = "find"]
      BY <1>7, <2>3 DEF LookFlag
    <3>2. Looks(look, "find", look.desc, None, look')
      BY <1>1, <3>1, LooksOn
    <3> QED
      BY <1>1, <2>1, <3>2, LookOn
  <2> QED
    BY <2>2, <2>3
<1> QED
  BY <1>5, <1>6, <1>7

\* The read of the store: what it finds is stored, and nothing is only if nothing
\* is bound there.
LEMMA LookFinds ==
    ASSUME CallsInv, TablesInv, InstInv, UpInv, started, LookOK(look, descs, store, failed), LookFind
    PROVE  LookOK(look', descs, store, failed)
<1>1. PICK d, p : d = look.desc /\ p = Primary(d)
  OBVIOUS
<1>2. look' = [look EXCEPT !.at = "done", !.found = Find(p)] /\ look.at = "find"
  BY <1>1 DEF LookFind
<1>3. IsLook(look) /\ look.type \in Types /\ look.name \in Names /\ d \in 1..Len(descs)
  BY <1>1, <1>2 DEF LookOK
<1>4. Looks(look, "done", d, Find(p), look')
  BY <1>1, <1>2, <1>3, LooksOn
<1>5. /\ IsLook(look') /\ look'.at = "done" /\ look'.type = look.type /\ look'.name = look.name
      /\ look'.desc = d /\ look'.found = Find(p)
  BY <1>4 DEF Looks
<1>6. p \in 1..Len(descs) /\ (descs[d].bound => p = d) /\ p = IF descs[d].prim = NoDesc THEN d ELSE descs[d].prim
  BY <1>1, <1>3, PrimaryIn DEF Primary
<1>7. Find(p) = At(store, p)
  BY <1>6, StoredLives
<1>8. Find(p) = None /\ failed = 0 => ~descs[d].bound
  BY <1>3, <1>6, <1>7 DEF UpInv
<1> QED
  BY <1>3, <1>5, <1>6, <1>7, <1>8 DEF LookOK

\* A request begins while the context is in use.
LEMMA LookBegins ==
    ASSUME CallsInv, TablesInv, NEW t \in Types, NEW n \in Names, LookBegin(t, n)
    PROVE  LookInv'
<1>1. /\ started' = started /\ phase' = phase /\ frames' = frames /\ UNCHANGED <<descs, store, failed>> /\ InUse
  BY DEF LookBegin, registry
<1>2. started /\ phase = "live" /\ (frames # <<>> => frames[1].op # "start")
  <2>1. frames # <<>> => 1 \in 1..Depth
    BY TopFacts
  <2> QED
    BY <1>1, <2>1 DEF InUse
<1>3. PICK m, b : /\ m = (IF n = Unnamed THEN EffectiveName(FALSE, t) ELSE n)
                  /\ b = {Best(descs, t, m), Best(Settled, t, m)}
  OBVIOUS
<1>4. look' = [at |-> "single", type |-> t, name |-> m, desc |-> NoDesc, found |-> None, seen |-> b]
  BY <1>3 DEF LookBegin
<1>5. m \in Names
  BY <1>3, EffectiveNameIn
<1>6. /\ look'.at = "single" /\ look'.type = t /\ look'.name = m /\ look'.desc = NoDesc /\ look'.found = None
      /\ IsLook(look')
  BY <1>4 DEF IsLook
<1>7. LookOK(look', descs, store, failed)
  BY <1>5, <1>6 DEF LookOK
<1> QED
  BY <1>1, <1>2, <1>7 DEF LookInv

\* The other steps leave it alone, or tell it what was best meanwhile.
LEMMA LookKept ==
    ASSUME NEW l, NEW m, NEW ds, NEW s, NEW es, NEW r, NEW n, LookOK(l, ds, s, n), Looks(l, l.at, l.desc, l.found, m),
           Len(ds) \in Nat, Len(es) \in Nat, Len(ds) <= Len(es), \A d \in 1..Len(ds) : es[d] = ds[d],
           \A d \in 1..Len(ds) : ds[d].prim \in 1..Len(ds) \union {NoDesc},
           \A d \in 1..Len(ds) : At(s, d) # None => At(r, d) = At(s, d)
    PROVE  LookOK(m, es, r, n)
<1>1. /\ IsLook(m) /\ m.at = l.at /\ m.type = l.type /\ m.name = l.name /\ m.desc = l.desc /\ m.found = l.found
  BY DEF Looks
<1>2. 1..Len(ds) \subseteq 1..Len(es) /\ NoDesc \notin 1..Len(es) /\ Ambiguous \notin 1..Len(es)
  BY NoNumbers
<1>3. /\ m.at \in {"single", "entry", "flag", "find", "done"} /\ m.type \in Types /\ m.name \in Names
      /\ m.desc \in 1..Len(es) \union {NoDesc, Ambiguous} /\ (m.at \in {"flag", "find"} => m.desc \in 1..Len(es))
      /\ (m.at # "done" => m.found = None)
  BY <1>1, <1>2 DEF LookOK
<1>4. ASSUME m.at = "done", m.found # None
      PROVE  m.desc \in 1..Len(es) /\ At(r, IF es[m.desc].prim = NoDesc THEN m.desc ELSE es[m.desc].prim) = m.found
  <2>1. PICK d, p : d = l.desc /\ p = IF ds[d].prim = NoDesc THEN d ELSE ds[d].prim
    OBVIOUS
  <2>2. d \in 1..Len(ds) /\ At(s, p) = m.found
    BY <1>1, <1>4, <2>1 DEF LookOK
  <2>3. p \in 1..Len(ds) /\ es[d] = ds[d]
    BY <2>1, <2>2
  <2>4. At(r, p) = m.found
    BY <1>4, <2>2, <2>3
  <2> QED
    BY <1>1, <1>2, <2>1, <2>2, <2>3, <2>4
<1>5. m.at = "done" /\ m.found = None /\ m.desc \in 1..Len(es) /\ n = 0 => ~es[m.desc].bound
  <2>1. l.desc \in 1..Len(ds) \union {NoDesc, Ambiguous}
    BY DEF LookOK
  <2>2. l.desc \in 1..Len(es) => l.desc \in 1..Len(ds) /\ es[l.desc] = ds[l.desc]
    BY <1>2, <2>1
  <2> QED
    BY <1>1, <2>2 DEF LookOK
<1> QED
  BY <1>1, <1>3, <1>4, <1>5 DEF LookOK

\* An instance is added for d, which had none: what was found is still stored.
LEMMA LookAdds ==
    ASSUME TablesInv, TablesInv', NEW d, Adds(d), d \in 1..Len(descs) => At(store, d) = None,
           UNCHANGED descs \/ \E e : Goes(descs, e, descs'), failed' = failed,
           LookOK(look, descs, store, failed), look' = look \/ \E b : look' = [look EXCEPT !.seen = b]
    PROVE  LookOK(look', descs', store', failed')
<1>1. Looks(look, look.at, look.desc, look.found, look')
  <2>1. IsLook(look)
    BY DEF LookOK
  <2>2. CASE look' = look
    BY <2>1, <2>2 DEF Looks
  <2>3. CASE \E b : look' = [look EXCEPT !.seen = b]
    BY <2>1, <2>3, LooksOn
  <2> QED
    BY <2>2, <2>3
<1>2. /\ Len(descs) \in Nat /\ \A x \in 1..Len(descs) : descs[x].prim \in 1..Len(descs) \union {NoDesc}
  BY DescsIn DEF TablesInv, TablesOK
<1>3. Len(descs') \in Nat /\ Len(descs) <= Len(descs') /\ \A x \in 1..Len(descs) : descs'[x] = descs[x]
  BY <1>2 DEF Goes
<1>4. \A x \in 1..Len(descs) : x \in 1..Len(descs')
  BY <1>2, <1>3
<1>5. \A x \in 1..Len(descs) : At(store, x) # None => At(store', x) = At(store, x)
  BY <1>4 DEF Adds
<1>6. LookOK(look', descs', store', failed)
  BY <1>1, <1>2, <1>3, <1>5, LookKept
<1> QED
  BY <1>6

\* No start() comes on the stack of a started context.
LEMMA NoStart ==
    ASSUME CallsInv, started, SteadySteps \/ Made \/ (\E k : BindLate(k)), frames # <<>> => frames[1].op # "start"
    PROVE  frames' # <<>> => frames'[1].op # "start"
<1>1. SUFFICES ASSUME frames' # <<>> PROVE frames'[1].op # "start"
  OBVIOUS
<1>2. IsSeq(frames) /\ Len(frames) \in Nat
  BY SeqFacts DEF CallsInv
<1>3. CASE \/ ContextAnnounced \/ BoundAnnounced \/ EagerFound \/ BindStep \/ Made
           \/ (\E t \in Types, n \in Names : ResolveFound(t, n))
  <2>1. PICK g : frames # <<>> /\ Goto(g) /\ GoesOn(g)
    BY <1>3, StepGoesOn DEF GotoSteps
  <2>2. /\ Len(frames) \in Nat \ {0}
        /\ \A n \in 1..Len(frames) : frames'[n] = IF n = Len(frames) THEN g ELSE frames[n]
    BY <2>1, GotoIs
  <2>3. g.op = Top.op /\ Top = frames[Len(frames)]
    BY <2>1, TopFacts DEF GoesOn
  <2>4. frames'[1].op = frames[1].op
    BY <2>2, <2>3
  <2> QED
    BY <2>1, <2>4
<1>4. CASE EagerClaim \/ (\E t \in Types, n \in Names : ResolveClaim(t, n)) \/ (\E k : BindLate(k))
  <2>1. PICK g : Push(g) /\ Comes(g)
    BY <1>4, StepPushes DEF PushSteps
  <2>2. frames' = Append(frames, g) /\ g.op # "start"
    BY <2>1 DEF Push, Comes
  <2>3. /\ \A n \in 1..Len(frames) : frames'[n] = frames[n]
        /\ frames'[Len(frames) + 1] = g
    BY <1>2, <2>2, AppendFacts
  <2>4. CASE Len(frames) = 0
    BY <2>2, <2>3, <2>4
  <2>5. CASE Len(frames) # 0
    <3>1. frames # <<>> /\ 1 \in 1..Len(frames)
      BY <1>2, <2>5
    <3> QED
      BY <2>3, <3>1
  <2> QED
    BY <2>4, <2>5
<1>5. CASE StartDone \/ MakeThrows \/ BindDone
  <2>1. frames # <<>> /\ Return /\ started' = started /\ cat' = cat /\ phase' = phase
    BY <1>5, StepReturns DEF ReturnSteps, EarlyReturns, StartDone, MakeThrows, BindDone
  <2>2. CallsInv' /\ \A n \in 1..Len(frames') : frames'[n] = frames[n]
    BY <2>1, CallsReturn
  <2>3. 1 \in 1..Len(frames')
    <3>1. IsSeq(frames')
      BY <2>2 DEF CallsInv
    <3>2. Len(frames') \in Nat /\ Len(frames') # 0
      BY <1>1, <3>1, SeqFacts
    <3> QED
      BY <3>2
  <2> QED
    BY <2>1, <2>2, <2>3
<1>6. CASE MadeReturns
  <2>1. frames # <<>>
    BY <1>6 DEF MadeReturns, In
  <2>2. PICK u, k : u = Find(Top.desc) /\ k = Len(frames) - 1
    OBVIOUS
  <2>3. k \in Nat /\ k <= Len(frames) /\ Depth = Len(frames)
    BY <2>1, <2>2, TopFacts
  <2>4. frames' = [n \in 1..k |-> IF n = k /\ frames[n].at = "constructor"
                                  THEN [frames[n] EXCEPT !.uses = @ \union {u}] ELSE frames[n]]
    BY <1>6, <2>2, <2>3 DEF MadeReturns
  <2>5. 1 \in 1..k
    <3>1. frames' = [n \in 1..k |-> frames'[n]]
      BY <2>4
    <3>2. IsSeq(frames') /\ Len(frames') = k
      BY <2>3, <3>1, DomIsSeq
    <3>3. k # 0
      BY <1>1, <3>2, SeqFacts
    <3> QED
      BY <2>3, <3>3
  <2>6. PICK f, g : f = frames[1] /\ g = [f EXCEPT !.uses = @ \union {u}]
    OBVIOUS
  <2>7. SetUses(f, f.uses \union {u}, g)
    BY <2>6 DEF SetUses
  <2>8. IsCall(f)
    <3>1. 1 \in 1..Len(frames)
      BY <1>2, <2>3, <2>5
    <3> QED
      BY <2>6, <3>1 DEF CallsInv, CallOK
  <2>9. g.op = f.op
    BY <2>7, <2>8, CallUses
  <2>10. frames'[1] = f \/ frames'[1] = g
    BY <2>4, <2>5, <2>6
  <2> QED
    BY <2>1, <2>6, <2>9, <2>10
<1> QED
  BY <1>3, <1>4, <1>5, <1>6 DEF SteadySteps

\* Every step of the registry keeps LookInv.
LEMMA LookStep ==
    ASSUME CallsInv, CallsInv', LifeInv, TablesInv', RegistrySteps \/ Stopped
    PROVE  LookInv'
<1>1. TablesInv /\ InstInv /\ FramesInv /\ UpInv /\ LookInv
  BY DEF LifeInv
<1>2. CASE \E t \in Types, n \in Names : LookBegin(t, n)
  BY <1>1, <1>2, LookBegins
<1>3. CASE LookSteps
  <2>1. UNCHANGED <<started, phase, frames, descs, store, failed>>
    BY <1>3 DEF LookSteps, LookSingle, LookEntry, LookFlag, LookFind, LookDone, registry
  <2>2. CASE LookDone
    <3>1. look'.at = "idle"
      BY <2>2 DEF LookDone
    <3> QED
      BY <3>1 DEF LookInv
  <2>3. CASE ~LookDone
    <3>1. look.at # "idle"
      BY <1>3, <2>3 DEF LookSteps, LookSingle, LookEntry, LookFlag, LookFind
    <3>2. started /\ phase = "live" /\ (frames # <<>> => frames[1].op # "start") /\ LookOK(look, descs, store, failed)
      BY <1>1, <3>1 DEF LookInv
    <3>3. LookOK(look', descs, store, failed)
      BY <1>1, <1>3, <2>3, <3>2, LookReads, LookFinds DEF LookSteps
    <3> QED
      BY <2>1, <3>2, <3>3 DEF LookInv
  <2> QED
    BY <2>2, <2>3
<1>4. CASE (\E s : Discover(s)) \/ (\E c, t, n : SetDefault(c, t, n) \/ ClearDefault(c, t))
                      \/ (Stop /\ ~started)
  <2>1. look' = look
    BY <1>4 DEF Discover, SetDefault, ClearDefault, Stop
  <2>2. UNCHANGED holdings /\ (started' <=> started) /\ frames' = frames /\ (phase' = phase \/ look.at = "idle")
    BY <1>4, BesideSame DEF BesideSteps
  <2> QED
    BY <1>1, <2>1, <2>2 DEF LookInv, holdings
<1>5. CASE SteadySteps
  <2>1. started /\ started' /\ phase' = phase /\ UNCHANGED holdings /\ look' = look
    BY <1>5, SteadyUp
  <2>2. (frames # <<>> => frames[1].op # "start") => (frames' # <<>> => frames'[1].op # "start")
    BY <1>5, <2>1, NoStart
  <2> QED
    BY <1>1, <2>1, <2>2 DEF LookInv, holdings
<1>6. CASE Made \/ \E t \in Types, n \in Names : ResolveUnbuilt(t, n)
  <2>1. PICK d, x : Makes(d, x)
    BY <1>6, MadeMakes, UnbuiltMakes
  <2>2. Adds(d) /\ started /\ started' /\ UNCHANGED descs /\ failed' = failed /\ At(store, d) = None
    BY <1>1, <2>1, InstMakes DEF Makes
  <2>3. look' = look /\ phase' = phase
    BY <1>6 DEF Made, ResolveUnbuilt
  <2>4. (frames # <<>> => frames[1].op # "start") => (frames' # <<>> => frames'[1].op # "start")
    <3>1. CASE Made
      BY <2>2, <3>1, NoStart
    <3>2. CASE ~Made
      <4>1. frames' = frames
        BY <1>6, <3>2 DEF ResolveUnbuilt
      <4> QED
        BY <4>1
    <3> QED
      BY <3>1, <3>2
  <2>5. LookOK(look, descs, store, failed) => LookOK(look', descs', store', failed')
    BY <1>1, <2>2, <2>3, LookAdds
  <2> QED
    BY <1>1, <2>2, <2>3, <2>4, <2>5 DEF LookInv
<1>7. CASE \E k \in Key : BindLate(k)
  <2>1. PICK k \in Key : BindLate(k)
    BY <1>7
  <2>2. PICK d : d = Len(descs) + 1
    OBVIOUS
  <2>3. started /\ started' /\ failed' = failed /\ phase' = phase
    BY <2>1 DEF BindLate
  <2>4. (\E e : Goes(descs, e, descs')) /\ Len(descs) \in Nat
    BY <1>1, <2>1, TablesBind
  <2>5. Adds(d)
    BY <1>1, <2>1, <2>2, <2>3, UpNotDoomed, UpNotDoomedNext, InstBindLate
  <2>6. d \notin 1..Len(descs)
    BY <2>2, <2>4
  <2>7. look' = look \/ (look.at # "idle" /\ \E b : look' = [look EXCEPT !.seen = b])
    BY <2>1 DEF BindLate, Quiet
  <2>8. (frames # <<>> => frames[1].op # "start") => (frames' # <<>> => frames'[1].op # "start")
    BY <2>1, <2>3, NoStart
  <2>9. LookOK(look, descs, store, failed) => LookOK(look', descs', store', failed')
    BY <1>1, <2>3, <2>4, <2>5, <2>6, <2>7, LookAdds
  <2> QED
    BY <1>1, <2>3, <2>7, <2>8, <2>9 DEF LookInv
<1>8. CASE \/ (\E k : BindEarly(k)) \/ StartRejected \/ StartMerged \/ StartAgain
           \/ DestroyNext \/ ReleaseAll \/ StopSweeps \/ Stopped \/ DestroyRegistry
  <2>1. look' = look
    BY <1>8 DEF BindEarly, StartRejected, StartMerged, StartAgain, DestroyNext, ReleaseAll,
       StopSweeps, Stopped, DestroyRegistry
  <2>2. ~started
    <3>1. CASE (\E k : BindEarly(k)) \/ StartRejected \/ StartMerged \/ StartAgain
      BY <3>1 DEF BindEarly, StartRejected, StartMerged, StartAgain
    <3>2. CASE DestroyNext \/ ReleaseAll \/ StopSweeps \/ Stopped \/ In("exit", "released")
      <4>1. frames # <<>> /\ Top.at \in {"destroying", "released", "sweeping"}
        BY <3>2 DEF DestroyNext, ReleaseAll, StopSweeps, Stopped, In
      <4>2. CallOK(Top, Len(frames), Len(frames), started)
        BY <4>1, TopFacts
      <4> QED
        BY <4>1, <4>2 DEF CallOK, PointOK, Ending
    <3>3. CASE phase = "stopped"
      BY <3>3 DEF CallsInv
    <3> QED
      BY <1>8, <3>1, <3>2, <3>3 DEF DestroyRegistry
  <2> QED
    BY <1>1, <2>1, <2>2 DEF LookInv
<1>9. CASE StartThrows \/ (Stop /\ started) \/ ExitUnstopped
  <2>1. look' = look /\ (look.at = "idle" \/ (frames # <<>> /\ frames[1].op = "start"))
    BY <1>9, DoomBegins
  <2> QED
    BY <1>1, <2>1 DEF LookInv
<1>10. BesideSteps => \/ (\E t \in Types, n \in Names : LookBegin(t, n)) \/ LookSteps
                      \/ (\E s : Discover(s)) \/ (\E c, t, n : SetDefault(c, t, n) \/ ClearDefault(c, t))
                      \/ (Stop /\ ~started)
  BY DEF BesideSteps
<1> QED
  BY <1>2, <1>3, <1>4, <1>5, <1>6, <1>7, <1>8, <1>9, <1>10, StepKinds

-----------------------------------------------------------------------------
(* The invariant holds at all times.                                       *)

\* LifeInv does not read what the threads keep.
LEMMA LifeSame ==
    ASSUME LifeInv, UNCHANGED vars
    PROVE  LifeInv'
<1>1. UNCHANGED <<phase, started, pending, bindings, interned, descs, ix, ctxDesc, store,
                defaults, inst, frames, look, failed, lost>>
  BY DEF vars, registry
<1>2. TablesInv' /\ InstInv'
  BY <1>1 DEF LifeInv, TablesInv, InstInv
<1>3. FramesInv' /\ UpInv' /\ LookInv'
  BY <1>1 DEF LifeInv, FramesInv, UpInv, LookInv
<1> QED
  BY <1>2, <1>3 DEF LifeInv

\* Every step keeps LifeInv, those of the threads too.
LEMMA LifeNext ==
    ASSUME CallsInv, LifeInv, Next
    PROVE  LifeInv'
<1>1. CallsInv'
  BY CallsNext
<1>2. CASE RegistrySteps \/ Stopped
  <2>1. TablesInv'
    BY <1>2, TablesStep
  <2> QED
    BY <1>1, <1>2, <2>1, InstStep, FramesStep, UpStep, LookStep DEF LifeInv
<1>3. CASE UNCHANGED vars
  BY <1>3, LifeSame
<1>4. RegistrySteps \/ Stopped \/ UNCHANGED vars
  BY DEF Next, RegistrySteps, ClaimByOwner, OwnerAlone, StopCollects, RegistryEnds, StopReturns,
     SweepStep, ClaimByOther, OtherThread, TouchLocal
<1> QED
  BY <1>2, <1>3, <1>4

\* A context that nobody has used has it.
LEMMA LifeInit ==
    ASSUME Init
    PROVE  LifeInv
<1>1. /\ started = FALSE /\ pending = <<>> /\ bindings = <<>> /\ interned = <<>> /\ descs = <<>> /\ ix = EmptyIndex
      /\ ctxDesc = NoDesc /\ store = NoStore /\ inst = <<>> /\ frames = <<>> /\ look.at = "idle" /\ failed = 0 /\ lost = {}
      /\ defaults.root = [t \in Types |-> Unnamed] /\ defaults.scoped = [t \in Types |-> Unnamed]
  BY DEF Init
<1>2. Len(descs) = 0 /\ Len(inst) = 0 /\ Len(frames) = 0 /\ Len(bindings) = 0 /\ Len(interned) = 0
  BY <1>1
<1>3. TablesInv
  <2>1. DescsOK(descs)
    BY <1>1, <1>2 DEF DescsOK
  <2>2. ix \in Index(Len(descs))
    BY <1>1, <1>2, EmptyTyped
  <2>3. interned \in Seq(Types) /\ Once(interned)
    BY <1>1, HoldsNone
  <2>4. defaults.root \in [Types -> Names] /\ defaults.scoped \in [Types -> Names]
    BY <1>1, LifecycleConstants
  <2>5. pending \in Seq(Seq(Contributed))
    <3>1. PICK S : S = Seq(Contributed)
      OBVIOUS
    <3>2. <<>> \in Seq(S)
      OBVIOUS
    <3> QED
      BY <1>1, <3>1, <3>2
  <2> QED
    BY <1>1, <2>1, <2>2, <2>3, <2>4, <2>5 DEF TablesInv, TablesOK
<1>4. InstInv
  <2>1. StoreOK(store, Len(descs), Len(inst))
    BY <1>1, <1>2, NoStoreOK
  <2>2. BindsOK(bindings, lost, Len(inst))
    <3>1. PICK S : S = [key : Key, inst : 1..Len(inst)]
      OBVIOUS
    <3>2. <<>> \in Seq(S)
      OBVIOUS
    <3> QED
      BY <1>1, <1>2, <3>1, <3>2 DEF BindsOK
  <2>3. InstsOK(inst, store, bindings, lost, Len(descs))
    <3>1. PICK S : S = InstSet(Len(descs))
      OBVIOUS
    <3>2. <<>> \in Seq(S)
      OBVIOUS
    <3> QED
      BY <1>1, <1>2, <2>2, <3>1, <3>2 DEF InstsOK
  <2>4. ~Doomed(frames)
    BY <1>1 DEF Doomed
  <2>5. Lives(inst, store, Len(descs))
    BY <1>2 DEF Lives
  <2> QED
    BY <1>1, <1>2, <2>1, <2>3, <2>4, <2>5 DEF InstInv, InstAll
<1>5. FramesInv
  BY <1>2 DEF FramesInv, FramesAll, Making
<1>6. UpInv /\ LookInv
  BY <1>1, <1>2 DEF UpInv, LookInv
<1> QED
  BY <1>3, <1>4, <1>5, <1>6 DEF LifeInv

\* LifeInv, with what CallsInv says of the calls, holds at all times, whatever the owner
\* of the Registry, its callbacks and the other threads do.
THEOREM LifeHolds == Spec => [](CallsInv /\ LifeInv)
<1>1. ContainerInit => CallsInv /\ LifeInv
  BY LocalsStart, LifeInit DEF ContainerInit
<1>2. CallsInv /\ LifeInv /\ [Next]_allVars => (CallsInv /\ LifeInv)'
  <2> SUFFICES ASSUME CallsInv, LifeInv, [Next]_allVars PROVE CallsInv' /\ LifeInv'
    OBVIOUS
  <2>1. CASE Next
    BY <2>1, CallsNext, LifeNext
  <2>2. CASE UNCHANGED allVars
    <3>1. UNCHANGED vars /\ UNCHANGED <<frames, phase, started, cat>>
      BY <2>2 DEF allVars, vars
    <3> QED
      BY <3>1, LifeSame, CallsSame
  <2> QED
    BY <2>1, <2>2
<1> QED
  BY <1>1, <1>2, PTL DEF Spec

\* What the invariant says of an instance.
LEMMA InstSays ==
    ASSUME LifeInv, NEW i \in 1..Len(inst)
    PROVE  /\ InstOK(inst, store, bindings, lost, Len(descs), i)
           /\ inst[i].life \in {"made", "raw", "raw gone", "destroyed"}
           /\ inst[i].desc \in 1..Len(descs) \union {NoDesc}
           /\ inst[i].life \in {"raw", "raw gone"} => failed > 0
<1>1. InstInv /\ TablesInv
  BY DEF LifeInv
<1>2. PICK S : S = InstSet(Len(descs))
  OBVIOUS
<1>3. inst \in Seq(S) /\ InstOK(inst, store, bindings, lost, Len(descs), i)
  BY <1>1, <1>2 DEF InstInv, InstAll, InstsOK
<1>4. inst[i] \in S
  BY <1>3
<1> QED
  BY <1>1, <1>2, <1>3, <1>4 DEF InstSet, InstInv, InstAll

\* Live means constructed, unless some start() threw.
LEMMA LiveIsMade ==
    ASSUME LifeInv, NEW i \in 1..Len(inst), inst[i].life \in LiveLife
    PROVE  inst[i].life \in (IF failed = 0 THEN {"made"} ELSE {"made", "raw"})
<1>1. failed \in Nat
  BY InstParts DEF LifeInv
<1>2. inst[i].life = "made" \/ inst[i].life = "raw"
  BY DEF LiveLife
<1>3. inst[i].life = "raw" => failed > 0
  BY InstSays
<1>4. inst[i].life = "raw" => failed # 0
  BY <1>1, <1>3
<1> QED
  BY <1>2, <1>4

\* stopRegistryOwnedBeans destroys in the reverse of the order of construction, and
\* a constructor is only given beans that are already in the store: whatever is
\* started, bound, resolved, stopped or rolled back, a live singleton never holds
\* an injected one that was destroyed before it.
THEOREM UsesAlwaysOutlive == Spec => []UsesOutlive
<1>1. CallsInv /\ LifeInv => UsesOutlive
  <2> SUFFICES ASSUME CallsInv, LifeInv PROVE UsesOutlive
    OBVIOUS
  <2>1. Len(inst) \in Nat
    BY InstParts DEF LifeInv
  <2>2. ASSUME NEW i \in 1..Len(inst), inst[i].life = "made", NEW u \in inst[i].uses
        PROVE  inst[u].life \in (IF failed = 0 THEN {"made"} ELSE {"made", "raw"})
    <3>1. u \in 1..(i - 1) /\ inst[u].life \in LiveLife
      BY <2>2, InstSays DEF InstOK, LiveLife
    <3>2. u \in 1..Len(inst)
      BY <2>1, <3>1
    <3> QED
      BY <3>1, <3>2, LiveIsMade
  <2> QED
    BY <2>2 DEF UsesOutlive
<1> QED
  BY <1>1, LifeHolds, PTL

\* An instance that bindSingleton() was handed or a constructor made is in the queue
\* of bindings or in the store, never in both and never in neither, until it is
\* destroyed once: no interleaving of failed starts, late bindings and stop() leaks
\* one or destroys it twice, but for those a rejected start() drops.
THEOREM InstancesAccounted == Spec => []Accounted
<1>1. CallsInv /\ LifeInv => Accounted
  <2> SUFFICES ASSUME CallsInv, LifeInv, NEW i \in 1..Len(inst)
               PROVE  LET queued == \E n \in 1..Len(bindings) : bindings[n].inst = i
                          stored == inst[i].desc # NoDesc /\ Find(inst[i].desc) = i
                      IN  CASE inst[i].life = "made" -> (IF i \in lost THEN failed > 0 /\ ~queued /\ ~stored
                                                         ELSE queued # stored)
                            [] inst[i].life \in {"raw", "raw gone"} -> failed > 0
                            [] inst[i].life = "destroyed" ->
                                    ~queued /\ (stored => frames # <<>> /\ Top.at = "destroying")
                            [] OTHER -> FALSE
    BY DEF Accounted
  <2> DEFINE queued == \E n \in 1..Len(bindings) : bindings[n].inst = i
             stored == inst[i].desc # NoDesc /\ Find(inst[i].desc) = i
  <2>1. /\ InstOK(inst, store, bindings, lost, Len(descs), i)
        /\ inst[i].life \in {"made", "raw", "raw gone", "destroyed"}
        /\ inst[i].desc \in 1..Len(descs) \union {NoDesc}
        /\ inst[i].life \in {"raw", "raw gone"} => failed > 0
    BY InstSays
  <2>2. /\ StoreOK(store, Len(descs), Len(inst)) /\ BindsOK(bindings, lost, Len(inst)) /\ Len(inst) \in Nat
        /\ Len(descs) \in Nat /\ InstInv
    BY InstParts, DescsIn DEF LifeInv, TablesInv, TablesOK
  <2>3. inst[i].desc # NoDesc => inst[i].desc \in 1..Len(descs) /\ Find(inst[i].desc) = At(store, inst[i].desc)
    BY <2>1, <2>2, FindIs DEF Find
  <2>4. NoDesc \notin 1..Len(descs)
    BY <2>2, NoNumbers
  <2>5. Owed(bindings, lost, i) <=> (i \in lost \/ queued)
    BY DEF Owed
  <2>6. Owed(bindings, lost, i) => inst[i].life = "made" /\ ~stored
    BY <2>1 DEF InstOK
  <2>7. CASE inst[i].life = "made"
    <3>1. CASE i \in lost
      <4>1. ~queued
        BY <2>2, <3>1 DEF BindsOK
      <4>2. failed > 0
        BY <2>2, <3>1 DEF InstInv, InstAll
      <4> QED
        BY <2>5, <2>6, <2>7, <3>1, <4>1, <4>2
    <3>2. CASE i \notin lost
      <4>1. CASE queued
        BY <2>5, <2>6, <2>7, <3>2, <4>1
      <4>2. CASE ~queued
        <5>1. inst[i].desc \in 1..Len(descs) /\ At(store, inst[i].desc) = i
          BY <2>1, <2>5, <2>7, <3>2, <4>2 DEF InstOK, LiveLife
        <5>2. stored
          BY <2>3, <2>4, <5>1
        <5> QED
          BY <2>7, <3>2, <4>2, <5>2
      <4> QED
        BY <4>1, <4>2
    <3> QED
      BY <3>1, <3>2
  <2>8. CASE inst[i].life \in {"raw", "raw gone"}
    BY <2>1, <2>8
  <2>9. CASE inst[i].life = "destroyed"
    <3>1. ~queued
      BY <2>5, <2>6, <2>9
    <3>2. stored => Doomed(frames)
      <4>1. SUFFICES ASSUME stored, ~Doomed(frames) PROVE FALSE
        OBVIOUS
      <4>2. Lives(inst, store, Len(descs))
        BY <2>2, <4>1 DEF InstInv, InstAll
      <4>3. inst[i].desc \in 1..Len(descs) /\ At(store, inst[i].desc) = i
        BY <2>3, <4>1
      <4>4. inst[i].life \in LiveLife
        BY <4>2, <4>3 DEF Lives
      <4> QED
        BY <2>9, <4>4 DEF LiveLife
    <3>3. Doomed(frames) => frames # <<>> /\ Top.at = "destroying"
      BY DEF Doomed, Top, Depth
    <3> QED
      BY <2>9, <3>1, <3>2, <3>3
  <2> QED
    BY <2>1, <2>7, <2>8, <2>9
<1> QED
  BY <1>1, LifeHolds, PTL

\* A resolve() that takes no lock, beside bindings that grow the store under it,
\* finds the live instance of the bean it selected, in the array frozen at start()
\* or in a grown one; unless some start() threw it finds every bound bean.
THEOREM FoundAlwaysLive == Spec => []FoundIsLive
<1>1. CallsInv /\ LifeInv => FoundIsLive
  <2> SUFFICES ASSUME CallsInv, LifeInv PROVE FoundIsLive
    OBVIOUS
  <2>1. /\ StoreOK(store, Len(descs), Len(inst)) /\ Len(inst) \in Nat /\ Len(descs) \in Nat
        /\ InstInv /\ TablesInv /\ LookInv /\ InstsOK(inst, store, bindings, lost, Len(descs))
    BY InstParts, DescsIn DEF LifeInv, TablesInv, TablesOK
  <2>2. ASSUME NEW d \in 1..Len(store.base) PROVE Find(d) = store.base[d]
    <3>1. Len(store.base) \in Nat /\ Len(store.base) <= Len(descs)
      <4>1. PICK S : S = SlotSet(Len(inst))
        OBVIOUS
      <4>2. store.base \in Seq(S) /\ Len(store.base) <= Len(descs)
        BY <2>1, <4>1 DEF StoreOK
      <4> QED
        BY <4>2
    <3>2. d \in 1..Len(descs)
      BY <2>1, <3>1
    <3> QED
      BY <2>1, <3>2, FindIs DEF Find, At
  <2>3. ASSUME look.at = "done", look.found \notin {None, CtxInst}
        PROVE  /\ inst[look.found].life \in (IF failed = 0 THEN {"made"} ELSE {"made", "raw"})
               /\ inst[look.found].desc = Primary(look.desc)
    <3>1. LookOK(look, descs, store, failed) /\ started
      BY <2>1, <2>3 DEF LookInv
    <3>2. PICK p : p = Primary(look.desc)
      OBVIOUS
    <3>3. look.desc \in 1..Len(descs) /\ At(store, p) = look.found
      BY <2>3, <3>1, <3>2 DEF LookOK, Primary
    <3>4. p \in 1..Len(descs)
      BY <2>1, <3>2, <3>3, PrimaryIn
    <3>5. At(store, p) \in SlotSet(Len(inst)) /\ (At(store, p) \in 1..Len(inst) => inst[At(store, p)].life \in LiveLife)
      BY <2>1, <3>1, <3>4, StoredLives
    <3>6. look.found \in 1..Len(inst) /\ inst[look.found].life \in LiveLife
      BY <2>3, <3>3, <3>5 DEF SlotSet
    <3>7. inst[look.found].desc = p
      BY <2>1, <3>3, <3>4, <3>6 DEF InstsOK
    <3> QED
      BY <3>2, <3>6, <3>7, LiveIsMade
  <2>4. ASSUME look.at = "done", look.found = None, look.desc \notin {NoDesc, Ambiguous}, failed = 0
        PROVE  ~descs[look.desc].bound
    BY <2>1, <2>4 DEF LookInv, LookOK
  <2> QED
    BY <2>2, <2>3, <2>4 DEF FoundIsLive
<1> QED
  BY <1>1, LifeHolds, PTL

\* start() walks the eager beans by priority while constructors resolve, bind and
\* throw under it: when it has returned normally, and as long as the context is
\* started, each of them is in the store.
THEOREM EagerAlwaysMade == Spec => []EagerMade
<1>1. CallsInv /\ LifeInv => EagerMade
  <2> SUFFICES ASSUME CallsInv, LifeInv, started, frames = <<>>, NEW d \in EagerIds PROVE Find(d) # None
    BY DEF EagerMade
  <2>1. TablesInv /\ InstInv /\ UpInv
    BY DEF LifeInv
  <2>2. d \in EagerOf(descs) /\ d \in 1..Len(descs)
    BY <2>1, EagerIs DEF EagerIds
  <2>3. At(store, d) # None
    BY <2>1, <2>2 DEF UpInv
  <2> QED
    BY <2>1, <2>2, <2>3, StoredLives
<1> QED
  BY <1>1, LifeHolds, PTL

-----------------------------------------------------------------------------
(* Types and bounds.                                                       *)

\* The constructors in progress.
Makers(F) == {n \in 1..Len(F) : F[n].at = "constructor"}

\* How a step changes their number, and that of the calls.
CallsBound ==
    \/ (Len(frames') <= Len(frames) \/ Len(frames') <= MaxDepth) /\ Makers(frames') \subseteq Makers(frames)
    \/ /\ InstFits /\ inst' = inst /\ Len(frames') <= MaxDepth
       /\ Makers(frames') \subseteq Makers(frames) \union {Len(frames) + 1}

\* A new call is within the bound, and makes at most one bean more.
LEMMA PushBounded ==
    ASSUME CallsInv, NEW g, Push(g)
    PROVE  /\ Len(frames') <= MaxDepth /\ Makers(frames') \subseteq Makers(frames) \union {Len(frames) + 1}
           /\ g.at # "constructor" => Makers(frames') \subseteq Makers(frames)
<1>1. IsSeq(frames) /\ Len(frames) \in Nat
  BY SeqFacts DEF CallsInv
<1>2. Len(frames) < MaxDepth /\ frames' = Append(frames, g)
  BY DEF Push, Depth
<1>3. /\ Len(frames') = Len(frames) + 1 /\ \A n \in 1..Len(frames) : frames'[n] = frames[n]
      /\ frames'[Len(frames) + 1] = g
  BY <1>1, <1>2, AppendFacts
<1>4. Len(frames') <= MaxDepth /\ \A n \in 1..Len(frames') : n \in 1..Len(frames) \/ n = Len(frames) + 1
  BY <1>1, <1>2, <1>3, LifecycleConstants
<1>5. \A n \in Makers(frames') : n \in 1..Len(frames') /\ frames'[n].at = "constructor"
  BY DEF Makers
<1>6. \A n \in 1..Len(frames) : n \in Makers(frames') => n \in Makers(frames)
  BY <1>3 DEF Makers
<1> QED
  BY <1>3, <1>4, <1>5, <1>6

\* Every step of the registry is of one of the two kinds.
LEMMA CallsBounded ==
    ASSUME CallsInv, RegistrySteps \/ Stopped
    PROVE  CallsBound
<1>0. IsSeq(frames) /\ Len(frames) \in Nat
  BY SeqFacts DEF CallsInv
<1>1. CASE GotoSteps
  <2>1. PICK g : frames # <<>> /\ Goto(g) /\ IsCall(g) /\ PointOK(g) /\ GoesOn(g)
    BY <1>1, StepGoesOn
  <2>2. /\ Len(frames') = Len(frames) /\ Len(frames) \in Nat \ {0}
        /\ \A n \in 1..Len(frames) : frames'[n] = IF n = Len(frames) THEN g ELSE frames[n]
    BY <2>1, GotoIs
  <2>3. g.at = "constructor" => Top.at = "constructor"
    BY <2>1 DEF GoesOn, PointOK, Ending
  <2>4. Top = frames[Len(frames)]
    BY <2>1, TopFacts
  <2>5. Makers(frames') \subseteq Makers(frames)
    BY <2>2, <2>3, <2>4 DEF Makers
  <2> QED
    BY <2>2, <2>5 DEF CallsBound
<1>2. CASE EagerClaim \/ \E t, n : ResolveClaim(t, n)
  <2>1. InstFits /\ inst' = inst /\ \E g : Push(g)
    BY <1>2 DEF EagerClaim, ResolveClaim
  <2> QED
    BY <2>1, PushBounded DEF CallsBound
<1>3. CASE StartMerged \/ StartAgain \/ (Stop /\ started) \/ ExitUnstopped \/ (\E k : BindLate(k))
  <2>1. \E o, a, d, q : Push(Call(o, a, d, q)) /\ a # "constructor"
    BY <1>3 DEF StartMerged, StartAgain, Stop, ExitUnstopped, BindLate
  <2>2. PICK g : Push(g) /\ g.at # "constructor"
    BY <2>1, CallIs
  <2> QED
    BY <2>2, PushBounded DEF CallsBound
<1>4. CASE EarlyReturns \/ Stopped
  <2>1. Len(frames') = Len(frames) - 1 /\ \A n \in 1..Len(frames') : n \in 1..Len(frames) /\ frames'[n] = frames[n]
    BY <1>4, StepReturns, CallsReturn DEF ReturnSteps
  <2>2. Makers(frames') \subseteq Makers(frames) /\ Len(frames') <= Len(frames)
    BY <1>0, <2>1 DEF Makers
  <2> QED
    BY <2>2 DEF CallsBound
<1>5. CASE QuietSteps \/ (Stop /\ ~started)
  <2>1. frames' = frames
    BY <1>5, QuietCalls DEF QuietSteps, Stop
  <2> QED
    BY <1>0, <2>1 DEF CallsBound
<1>6. CASE MadeReturns
  <2>1. frames # <<>>
    BY <1>6 DEF MadeReturns, In
  <2>2. PICK u, k : u = Find(Top.desc) /\ k = Len(frames) - 1
    OBVIOUS
  <2>3. k \in Nat /\ k <= Len(frames) /\ Depth = Len(frames)
    BY <2>1, <2>2, TopFacts
  <2>4. frames' = [n \in 1..k |-> IF n = k /\ frames[n].at = "constructor"
                                  THEN [frames[n] EXCEPT !.uses = @ \union {u}] ELSE frames[n]]
    BY <1>6, <2>2, <2>3 DEF MadeReturns
  <2>5. Len(frames') = k
    <3>1. frames' = [n \in 1..k |-> frames'[n]]
      BY <2>4
    <3> QED
      BY <2>3, <3>1, DomIsSeq
  <2>6. \A n \in 1..k : n \in 1..Len(frames) /\ (frames'[n] = frames[n] \/ frames[n].at = "constructor")
    BY <1>0, <2>3, <2>4
  <2>7. Makers(frames') \subseteq Makers(frames)
    BY <2>5, <2>6 DEF Makers
  <2> QED
    BY <2>3, <2>5, <2>7 DEF CallsBound
<1>7. CASE StartThrows
  <2>1. Len(frames') = 1 /\ frames'[1].at = "destroying"
    BY <1>7, DoomBegins
  <2>2. \A n \in 1..Len(frames') : n = 1
    BY <2>1
  <2>3. Makers(frames') = {}
    BY <2>1, <2>2 DEF Makers
  <2>4. Len(frames') <= MaxDepth
    BY <2>1, LifecycleConstants
  <2> QED
    BY <2>3, <2>4 DEF CallsBound
<1>8. CASE DestroyRegistry
  <2>1. frames' = <<>>
    BY <1>8 DEF DestroyRegistry
  <2>2. Len(frames') = 0
    BY <2>1
  <2>3. Makers(frames') = {} /\ Len(frames') <= Len(frames)
    BY <1>0, <2>2 DEF Makers
  <2> QED
    BY <2>3 DEF CallsBound
<1> QED
  BY <1>1, <1>2, <1>3, <1>4, <1>5, <1>6, <1>7, <1>8, StepsSorted DEF PushSteps

\* A constructor that returns is one less.
LEMMA MadeBounded ==
    ASSUME CallsInv, Made
    PROVE  Len(frames) \in Makers(frames) /\ Len(frames) \notin Makers(frames')
<1>1. frames # <<>> /\ Top.at = "constructor" /\ Goto([Top EXCEPT !.at = "hooks"])
  BY DEF Made, In
<1>2. PICK h : h = [Top EXCEPT !.at = "hooks"]
  OBVIOUS
<1>3. IsCall(Top) /\ SetAt(Top, "hooks", h) /\ Top = frames[Len(frames)]
  BY <1>1, <1>2, TopFacts DEF SetAt, CallOK
<1>4. h.at = "hooks"
  BY <1>3, CallAt
<1>5. frames'[Len(frames)] = h /\ Len(frames) \in 1..Len(frames)
  BY <1>1, <1>2, GotoIs
<1> QED
  BY <1>1, <1>3, <1>4, <1>5 DEF Makers

\* What a step does to the instances: it adds one, or none.
InstBound ==
    /\ \A i \in 1..Len(inst) : inst'[i].uses = inst[i].uses
    /\ \/ Len(inst') = Len(inst)
       \/ /\ Len(inst') = Len(inst) + 1 /\ inst'[Len(inst) + 1].uses \subseteq 1..Len(inst)
          /\ Made \/ InstFits

\* Only the life or the descriptor of an instance changes.
Retouched(I, J) ==
    /\ J = [i \in 1..Len(I) |-> J[i]]
    /\ \A i \in 1..Len(I) : J[i] = I[i] \/ \E v : J[i] = [I[i] EXCEPT !.life = v] \/ J[i] = [I[i] EXCEPT !.desc = v]

\* Such a step adds none.
LEMMA RetouchedBound ==
    ASSUME InstInv, Retouched(inst, inst')
    PROVE  InstBound
<1>1. PICK L : L = Len(descs)
  OBVIOUS
<1>2. PICK S : S = InstSet(L)
  OBVIOUS
<1>3. inst \in Seq(S) /\ Len(inst) \in Nat
  BY <1>1, <1>2, InstParts DEF InstsOK
<1>4. inst' = [i \in 1..Len(inst) |-> inst'[i]]
  BY DEF Retouched
<1>5. Len(inst') = Len(inst)
  BY <1>3, <1>4, DomIsSeq
<1>6. ASSUME NEW i \in 1..Len(inst) PROVE inst'[i].uses = inst[i].uses
  <2>1. PICK x : x = inst[i]
    OBVIOUS
  <2>2. x \in InstSet(L)
    BY <1>2, <1>3, <2>1
  <2>3. \A v : [x EXCEPT !.life = v].uses = x.uses /\ [x EXCEPT !.desc = v].uses = x.uses
    BY <2>2 DEF InstSet
  <2> QED
    BY <2>1, <2>3 DEF Retouched
<1> QED
  BY <1>5, <1>6 DEF InstBound

\* A step that appends an instance adds one.
LEMMA AppendBound ==
    ASSUME InstInv, NEW x, inst' = Append(inst, x), x.uses \subseteq 1..Len(inst), Made \/ InstFits
    PROVE  InstBound
<1>1. PICK S : S = InstSet(Len(descs))
  OBVIOUS
<1>2. inst \in Seq(S) /\ Len(inst) \in Nat
  BY <1>1, InstParts DEF InstsOK
<1>3. IsSeq(inst)
  BY <1>2 DEF IsSeq
<1>4. /\ Len(inst') = Len(inst) + 1 /\ \A n \in 1..Len(inst) : inst'[n] = inst[n]
      /\ inst'[Len(inst) + 1] = x
  BY <1>3, AppendFacts
<1> QED
  BY <1>4 DEF InstBound

\* Every step of the registry adds one, or none.
LEMMA InstBounded ==
    ASSUME CallsInv, CallsInv', LifeInv, RegistrySteps \/ Stopped
    PROVE  InstBound
<1>1. TablesInv /\ InstInv /\ FramesInv /\ Len(inst) \in Nat
  BY InstParts DEF LifeInv
<1>2. ASSUME inst' = inst PROVE InstBound
  BY <1>2 DEF InstBound
<1>3. CASE BesideSteps \/ SteadySteps
  BY <1>2, <1>3, BesideSame, SteadyUp DEF holdings
<1>4. CASE \E k \in Key : BindEarly(k) \/ BindLate(k)
  <2>1. PICK d : inst' = Append(inst, NewInst(d, {})) /\ InstFits
    BY <1>4 DEF BindEarly, BindLate
  <2>2. NewInst(d, {}).uses = {}
    BY DEF NewInst
  <2> QED
    BY <1>1, <2>1, <2>2, AppendBound
<1>5. CASE Made
  <2>1. PICK x : x = NewInst(Top.desc, Top.uses)
    OBVIOUS
  <2>2. inst' = Append(inst, x) /\ frames # <<>> /\ Top.at = "constructor"
    BY <1>5, <2>1 DEF Made, In
  <2>3. x.uses = Top.uses
    BY <2>1 DEF NewInst
  <2>4. FrameOK(Top, descs, store, inst)
    BY <1>1, <2>2, TopOK
  <2>5. x.uses \subseteq 1..Len(inst)
    BY <2>2, <2>3, <2>4 DEF FrameOK
  <2> QED
    BY <1>1, <1>5, <2>2, <2>5, AppendBound
<1>6. CASE \E t \in Types, n \in Names : ResolveUnbuilt(t, n)
  <2>1. PICK d : inst' = Append(inst, [NewInst(d, {}) EXCEPT !.life = "raw"]) /\ InstFits
    BY <1>6 DEF ResolveUnbuilt
  <2>2. [NewInst(d, {}) EXCEPT !.life = "raw"].uses = {}
    BY DEF NewInst
  <2> QED
    BY <1>1, <2>1, <2>2, AppendBound
<1>7. CASE StartRejected \/ StartAgain \/ StartThrows \/ Stop \/ ExitUnstopped \/ ReleaseAll \/ StopSweeps \/ Stopped
  BY <1>2, <1>7 DEF StartRejected, StartAgain, StartThrows, Stop, ExitUnstopped, ReleaseAll, StopSweeps, Stopped
<1>8. CASE StartMerged
  <2>1. PICK T : inst' = [i \in 1..Len(inst) |->
                    IF \E n \in 1..Len(T) : T[n].inst = i
                    THEN [inst[i] EXCEPT !.desc = T[CHOOSE n \in 1..Len(T) : T[n].inst = i].desc]
                    ELSE inst[i]]
    BY <1>8 DEF StartMerged
  <2>2. Retouched(inst, inst')
    BY <2>1 DEF Retouched
  <2> QED
    BY <1>1, <2>2, RetouchedBound
<1>9. CASE DestroyNext
  <2>1. PICK i : inst' = inst \/ inst' = Destroyed(i)
    BY <1>9 DEF DestroyNext
  <2>2. CASE inst' = Destroyed(i)
    <3>1. \E v : inst' = [inst EXCEPT ![i].life = v]
      BY <2>2 DEF Destroyed
    <3>2. IsSeq(inst) /\ inst = [n \in 1..Len(inst) |-> inst[n]]
      <4>1. PICK S : S = InstSet(Len(descs))
        OBVIOUS
      <4>2. inst \in Seq(S)
        BY <1>1, <4>1, InstParts DEF InstsOK
      <4>3. IsSeq(inst)
        BY <4>2 DEF IsSeq
      <4> QED
        BY <4>3, SeqFacts
    <3>3. Retouched(inst, inst')
      BY <3>1, <3>2 DEF Retouched
    <3> QED
      BY <1>1, <3>3, RetouchedBound
  <2> QED
    BY <1>2, <2>1, <2>2
<1>10. CASE DestroyRegistry
  <2>1. inst' = [i \in 1..Len(inst) |->
                    IF \E n \in 1..Len(bindings) : bindings[n].inst = i THEN Destroyed(i)[i] ELSE inst[i]]
    BY <1>10 DEF DestroyRegistry
  <2>2. \A i \in 1..Len(inst) : \E v : Destroyed(i)[i] = [inst[i] EXCEPT !.life = v]
    <3> TAKE i \in 1..Len(inst)
    <3>1. \E v : Destroyed(i) = [inst EXCEPT ![i].life = v]
      BY DEF Destroyed
    <3>2. DOMAIN inst = 1..Len(inst)
      <4>1. PICK S : S = InstSet(Len(descs))
        OBVIOUS
      <4>2. inst \in Seq(S)
        BY <1>1, <4>1, InstParts DEF InstsOK
      <4>3. IsSeq(inst)
        BY <4>2 DEF IsSeq
      <4> QED
        BY <4>3, SeqFacts
    <3> QED
      BY <3>1, <3>2
  <2>3. Retouched(inst, inst')
    BY <2>1, <2>2 DEF Retouched
  <2> QED
    BY <1>1, <2>3, RetouchedBound
<1> QED
  BY <1>3, <1>4, <1>5, <1>6, <1>7, <1>8, <1>9, <1>10, StepKinds

\* What the guards bound; a constructor in progress counts as an instance, since the
\* guard is that of the claim and the instance comes with the return.
BoundsInv ==
    /\ phase \in {"live", "stopped", "dead"} /\ started \in BOOLEAN
    /\ Len(pending) <= MaxPending /\ failed <= MaxFailed /\ Len(frames) <= MaxDepth
    /\ Len(inst) + Cardinality(Makers(frames)) <= MaxInst
    /\ \A i \in 1..Len(inst) : inst[i].uses \subseteq 1..Len(inst)

\* The constructors in progress can be counted.
LEMMA MakersFinite ==
    ASSUME NEW F, Len(F) \in Nat
    PROVE  IsFiniteSet(Makers(F)) /\ Cardinality(Makers(F)) \in Nat
<1>1. IsFiniteSet(1..Len(F)) /\ Makers(F) \subseteq 1..Len(F)
  BY FS_Interval DEF Makers
<1>2. IsFiniteSet(Makers(F))
  BY <1>1, FS_Subset
<1> QED
  BY <1>2, FS_CardinalityType

\* The instances, with those that are being constructed, stay within the bound.
LEMMA InstFew ==
    ASSUME CallsInv, CallsInv', LifeInv, BoundsInv, RegistrySteps \/ Stopped
    PROVE  Len(inst') + Cardinality(Makers(frames')) <= MaxInst
<1>1. Len(frames) \in Nat /\ Len(frames') \in Nat
  BY SeqFacts DEF CallsInv
<1>2. Len(inst) \in Nat /\ MaxInst \in Nat
  BY InstParts, LifecycleConstants DEF LifeInv
<1>3. PICK A, B : A = Makers(frames) /\ B = Makers(frames')
  OBVIOUS
<1>4. IsFiniteSet(A) /\ IsFiniteSet(B) /\ Cardinality(A) \in Nat /\ Cardinality(B) \in Nat
  BY <1>1, <1>3, MakersFinite
<1>5. Len(inst) + Cardinality(A) <= MaxInst
  BY <1>3 DEF BoundsInv
<1>6. InstFits => Len(inst) + Cardinality(A) < MaxInst
  <2>1. {n \in 1..Depth : frames[n].at = "constructor"} = A
    BY <1>3 DEF Makers, Depth
  <2> QED
    BY <2>1 DEF InstFits
<1>7. InstBound /\ CallsBound
  BY InstBounded, CallsBounded
<1>8. B \subseteq A => Cardinality(B) <= Cardinality(A)
  BY <1>4, FS_Subset
<1>9. CASE Made
  <2>1. Len(frames) \in A /\ Len(frames) \notin B
    BY <1>3, <1>9, MadeBounded
  <2>2. B \subseteq A
    <3>1. inst' # inst
      <4>1. PICK S : S = InstSet(Len(descs))
        OBVIOUS
      <4>2. inst \in Seq(S)
        BY <4>1, InstParts DEF InstsOK, LifeInv
      <4>3. IsSeq(inst)
        BY <4>2 DEF IsSeq
      <4>4. Len(inst') = Len(inst) + 1
        BY <1>9, <4>3, AppendFacts DEF Made
      <4> QED
        BY <1>2, <4>4
    <3> QED
      BY <1>3, <1>7, <3>1 DEF CallsBound
  <2>3. B \subseteq A \ {Len(frames)}
    BY <2>1, <2>2
  <2>4. Cardinality(A \ {Len(frames)}) = Cardinality(A) - 1 /\ IsFiniteSet(A \ {Len(frames)})
    BY <1>4, <2>1, FS_RemoveElement
  <2>5. Cardinality(B) <= Cardinality(A) - 1
    BY <2>3, <2>4, FS_Subset
  <2>6. Len(inst') = Len(inst) \/ Len(inst') = Len(inst) + 1
    BY <1>7 DEF InstBound
  <2> QED
    BY <1>2, <1>3, <1>4, <1>5, <2>5, <2>6
<1>10. CASE ~Made /\ B \subseteq A
  <2>1. Len(inst') = Len(inst) \/ (Len(inst') = Len(inst) + 1 /\ InstFits)
    BY <1>7, <1>10 DEF InstBound
  <2> QED
    BY <1>2, <1>3, <1>4, <1>5, <1>6, <1>8, <1>10, <2>1
<1>11. CASE ~(B \subseteq A)
  <2>1. InstFits /\ inst' = inst /\ B \subseteq A \union {Len(frames) + 1}
    BY <1>3, <1>7, <1>11 DEF CallsBound
  <2>2. IsFiniteSet(A \union {Len(frames) + 1}) /\ Cardinality(A \union {Len(frames) + 1}) <= Cardinality(A) + 1
    <3>1. /\ IsFiniteSet(A \union {Len(frames) + 1})
          /\ Cardinality(A \union {Len(frames) + 1}) =
                IF Len(frames) + 1 \in A THEN Cardinality(A) ELSE Cardinality(A) + 1
      BY <1>4, FS_AddElement
    <3> QED
      BY <1>4, <3>1
  <2>3. Cardinality(B) <= Cardinality(A \union {Len(frames) + 1}) /\ Cardinality(A \union {Len(frames) + 1}) \in Nat
    BY <2>1, <2>2, FS_Subset, FS_CardinalityType
  <2> QED
    BY <1>2, <1>3, <1>4, <1>6, <2>1, <2>2, <2>3
<1> QED
  BY <1>9, <1>10, <1>11

\* Every step of the registry keeps BoundsInv.
LEMMA BoundsNext ==
    ASSUME CallsInv, CallsInv', LifeInv, LifeInv', BoundsInv, RegistrySteps \/ Stopped
    PROVE  BoundsInv'
<1>1. Len(inst') + Cardinality(Makers(frames')) <= MaxInst
  BY InstFew
<1>2. Len(frames') <= MaxDepth
  <2>1. Len(frames) \in Nat /\ Len(frames') \in Nat /\ MaxDepth \in Nat
    BY SeqFacts, LifecycleConstants DEF CallsInv
  <2>2. Len(frames') <= Len(frames) \/ Len(frames') <= MaxDepth
    BY CallsBounded DEF CallsBound
  <2> QED
    BY <2>1, <2>2 DEF BoundsInv
<1>3. \A i \in 1..Len(inst') : inst'[i].uses \subseteq 1..Len(inst')
  <2>1. Len(inst) \in Nat /\ InstBound
    BY InstParts, InstBounded DEF LifeInv
  <2>2. \A i \in 1..Len(inst) : inst'[i].uses \subseteq 1..Len(inst)
    BY <2>1 DEF InstBound, BoundsInv
  <2>3. CASE Len(inst') = Len(inst)
    BY <2>2, <2>3
  <2>4. CASE Len(inst') = Len(inst) + 1 /\ inst'[Len(inst) + 1].uses \subseteq 1..Len(inst)
    <3>1. 1..Len(inst) \subseteq 1..Len(inst') /\ \A i \in 1..Len(inst') : i \in 1..Len(inst) \/ i = Len(inst) + 1
      BY <2>1, <2>4
    <3>2. ASSUME NEW i \in 1..Len(inst') PROVE inst'[i].uses \subseteq 1..Len(inst)
      BY <2>2, <2>4, <3>1
    <3> QED
      BY <3>1, <3>2
  <2> QED
    BY <2>1, <2>3, <2>4 DEF InstBound
<1>4. phase' \in {"live", "stopped", "dead"} /\ started' \in BOOLEAN /\ failed' <= MaxFailed
  <2>1. failed \in Nat /\ MaxFailed \in Nat
    BY InstParts, LifecycleConstants DEF LifeInv
  <2>2. CASE Claims
    BY <2>2 DEF Claims, EagerClaim, ResolveClaim, BoundsInv
  <2>3. CASE \/ (\E s : Discover(s)) \/ (\E k : BindEarly(k) \/ BindLate(k)) \/ StartMerged \/ StartAgain
             \/ ContextAnnounced \/ BoundAnnounced \/ EagerFound \/ StartDone
             \/ (\E t, n : ResolveFound(t, n) \/ ResolveUnbuilt(t, n))
    BY <2>3 DEF Discover, BindEarly, BindLate, StartMerged, StartAgain, ContextAnnounced, BoundAnnounced, EagerFound,
       StartDone, ResolveFound, ResolveUnbuilt, BoundsInv
  <2>4. CASE StartRejected \/ StartThrows
    <3>1. failed < MaxFailed /\ failed' = failed + 1 /\ phase' = phase /\ (started' = started \/ started' = FALSE)
      BY <2>4 DEF StartRejected, StartThrows
    <3>2. failed' <= MaxFailed
      BY <2>1, <3>1
    <3>3. started' \in BOOLEAN
      BY <3>1 DEF BoundsInv
    <3> QED
      BY <3>1, <3>2, <3>3 DEF BoundsInv
  <2>5. CASE Made \/ MadeReturns \/ MakeThrows \/ Stop \/ ExitUnstopped \/ DestroyNext \/ ReleaseAll \/ BindStep \/ BindDone
    BY <2>5 DEF Made, MadeReturns, MakeThrows, Stop, ExitUnstopped, DestroyNext, ReleaseAll, BindStep, BindDone, BoundsInv
  <2>6. CASE \/ (\E c, t, n : SetDefault(c, t, n) \/ ClearDefault(c, t)) \/ (\E t, n : LookBegin(t, n)) \/ LookSteps
    BY <2>6 DEF SetDefault, ClearDefault, LookBegin, LookSteps, LookSingle, LookEntry, LookFlag,
       LookFind, LookDone, BoundsInv
  <2>7. CASE StopSweeps \/ Stopped \/ DestroyRegistry
    BY <2>7 DEF StopSweeps, Stopped, DestroyRegistry, BoundsInv
  <2> QED
    BY <2>2, <2>3, <2>4, <2>5, <2>6, <2>7 DEF RegistrySteps, Others, LookSteps
<1>5. Len(pending') <= MaxPending
  <2>1. MaxPending \in Nat /\ Len(pending) \in Nat /\ IsSeq(pending)
    <3>1. PICK S : S = Seq(Contributed)
      OBVIOUS
    <3>2. pending \in Seq(S)
      BY <3>1 DEF LifeInv, TablesInv
    <3> QED
      BY <3>2, LifecycleConstants DEF IsSeq
  <2>2. CASE \E s : Discover(s)
    <3>1. PICK s : Len(pending) < MaxPending /\ pending' = Append(pending, s)
      BY <2>2 DEF Discover
    <3>2. Len(pending') = Len(pending) + 1
      BY <2>1, <3>1, AppendFacts
    <3> QED
      BY <2>1, <3>1, <3>2
  <2>3. CASE StartDone
    <3>1. pending' = <<>>
      BY <2>3 DEF StartDone
    <3>2. Len(pending') = 0
      BY <3>1
    <3> QED
      BY <2>1, <3>2
  <2>4. CASE ~StartDone /\ ~\E s : Discover(s)
    <3>1. pending' = pending
      BY <2>4 DEF RegistrySteps, Others, LookSteps, Claims, EagerClaim, ResolveClaim,
         BindEarly, BindLate, StartRejected, StartMerged, StartAgain, ContextAnnounced, BoundAnnounced, EagerFound,
         ResolveFound, ResolveUnbuilt, Made, MadeReturns, MakeThrows, StartThrows, Stop, ExitUnstopped, DestroyNext,
         ReleaseAll, BindStep, BindDone, SetDefault, ClearDefault, LookBegin, LookSingle, LookEntry, LookFlag, LookFind,
         LookDone, StopSweeps, Stopped, DestroyRegistry, registry
    <3> QED
      BY <3>1 DEF BoundsInv
  <2> QED
    BY <2>2, <2>3, <2>4
<1> QED
  BY <1>1, <1>2, <1>3, <1>4, <1>5 DEF BoundsInv

\* Every step keeps the bound on the thread-local instances.
LEMMA LocalsFew ==
    ASSUME LocalInv, Len(local) <= MaxLocal, Next
    PROVE  Len(local') <= MaxLocal
<1>1. Len(local) \in Nat /\ MaxLocal \in Nat
  BY LocalFacts, ContainerConstants DEF LocalInv
<1>2. local \in Seq(Instance) /\ IsSeq(local)
  BY DEF LocalInv, LocalTypes, IsSeq
<1>3. ASSUME NEW t, NEW b, TL!Touch(t, b) PROVE Len(local') <= MaxLocal
  <2>1. PICK x : local' = Append(local, x) /\ Len(local) < MaxLocal
    BY <1>3 DEF TL!Touch
  <2>2. Len(local') = Len(local) + 1
    BY <1>2, <2>1, AppendFacts
  <2> QED
    BY <1>1, <2>1, <2>2
<1>4. ASSUME NEW t, TL!DestroyNext(t) PROVE Len(local') <= MaxLocal
  <2>1. \E i, v : local' = [local EXCEPT ![i].life = v]
    BY <1>4 DEF TL!DestroyNext, TL!Destroyed
  <2>2. local = [n \in 1..Len(local) |-> local[n]]
    BY <1>2, SeqFacts
  <2>3. local' = [n \in 1..Len(local) |-> local'[n]]
    BY <2>1, <2>2
  <2>4. Len(local') = Len(local)
    BY <1>1, <2>3, DomIsSeq
  <2> QED
    BY <2>4
<1>5. ASSUME NEW t, TL!HookTouches(t) PROVE Len(local') <= MaxLocal
  BY <1>3, <1>5 DEF TL!HookTouches
<1>6. CASE ClaimByOwner \/ OwnerAlone \/ StopReturns \/ RegistryEnds
  BY <1>6 DEF ClaimByOwner, OwnerAlone, StopReturns, RegistryEnds, tlVars, TL!Claim
<1>7. CASE StopCollects
  BY <1>7 DEF StopCollects, TL!Sweep
<1>8. CASE SweepStep
  BY <1>4, <1>5, <1>8 DEF SweepStep
<1>9. ASSUME NEW t \in Threads, ClaimByOther(t) PROVE Len(local') <= MaxLocal
  BY <1>9 DEF ClaimByOther, TL!Claim
<1>10. ASSUME NEW t \in Threads, OtherThread(t) PROVE Len(local') <= MaxLocal
  <2>1. CASE \/ TL!Spawn(t) \/ TL!ExitBegins(t) \/ TL!ExitCleans(t, phase # "dead")
             \/ TL!ExitCleaned(t) \/ TL!ExitForgets(t) \/ TL!ExitDone(t)
    BY <2>1 DEF TL!Spawn, TL!ExitBegins, TL!ExitCleans, TL!ExitCleaned, TL!ExitForgets, TL!ExitDone
  <2>2. CASE TL!DestroyNext(t) \/ TL!HookTouches(t)
    BY <1>4, <1>5, <2>2
  <2> QED
    BY <1>10, <2>1, <2>2 DEF OtherThread
<1>11. ASSUME NEW t \in Threads, NEW b \in Beans, TouchLocal(t, b) PROVE Len(local') <= MaxLocal
  <2>1. CASE TL!Touch(t, b)
    BY <1>3, <2>1
  <2>2. CASE TL!TouchThrows(t, b)
    BY <2>2 DEF TL!TouchThrows
  <2> QED
    BY <1>11, <2>1, <2>2 DEF TouchLocal
<1> QED
  BY <1>6, <1>7, <1>8, <1>9, <1>10, <1>11 DEF Next

\* BoundsInv does not read what the threads keep.
LEMMA BoundsSame ==
    ASSUME BoundsInv, UNCHANGED vars
    PROVE  BoundsInv'
<1>1. UNCHANGED <<phase, started, pending, failed, frames, inst>>
  BY DEF vars, registry
<1> QED
  BY <1>1 DEF BoundsInv

\* The initial states are within the bounds.
LEMMA BoundsInit ==
    ASSUME ContainerInit
    PROVE  BoundsInv /\ Len(local) <= MaxLocal
<1>1. phase = "live" /\ started = FALSE /\ pending = <<>> /\ inst = <<>> /\ frames = <<>> /\ failed = 0 /\ local = <<>>
  BY DEF ContainerInit, Init, TL!Init
<1>2. Len(pending) = 0 /\ Len(inst) = 0 /\ Len(frames) = 0 /\ Len(local) = 0
  BY <1>1
<1>3. Makers(frames) = {}
  BY <1>2 DEF Makers
<1>4. Cardinality(Makers(frames)) = 0
  BY <1>3, FS_EmptySet
<1>5. Len(inst) + Cardinality(Makers(frames)) <= MaxInst
  BY <1>2, <1>4, LifecycleConstants
<1>6. Len(pending) <= MaxPending /\ failed <= MaxFailed /\ Len(frames) <= MaxDepth /\ Len(local) <= MaxLocal
  BY <1>1, <1>2, LifecycleConstants, ContainerConstants
<1>7. \A i \in 1..Len(inst) : inst[i].uses \subseteq 1..Len(inst)
  <2>1. 1..Len(inst) = {}
    BY <1>2
  <2> QED
    BY <2>1
<1>8. phase \in {"live", "stopped", "dead"} /\ started \in BOOLEAN
  BY <1>1
<1> QED
  BY <1>5, <1>6, <1>7, <1>8 DEF BoundsInv

\* The bounds hold at all times.
LEMMA BoundsHold == Spec => []BoundsInv /\ [](Len(local) <= MaxLocal)
<1>1. ContainerInit => BoundsInv /\ Len(local) <= MaxLocal
  BY BoundsInit
<1>2. CallsInv /\ LifeInv /\ (CallsInv /\ LifeInv)' /\ LocalInv /\ BoundsInv /\ Len(local) <= MaxLocal /\ [Next]_allVars
        => (BoundsInv /\ Len(local) <= MaxLocal)'
  <2> SUFFICES ASSUME CallsInv, LifeInv, CallsInv', LifeInv', LocalInv, BoundsInv, Len(local) <= MaxLocal, [Next]_allVars
               PROVE  BoundsInv' /\ Len(local') <= MaxLocal
    OBVIOUS
  <2>1. CASE Next
    <3>1. RegistrySteps \/ Stopped \/ UNCHANGED vars
      BY <2>1 DEF Next, RegistrySteps, ClaimByOwner, OwnerAlone, StopCollects, RegistryEnds, StopReturns,
         SweepStep, ClaimByOther, OtherThread, TouchLocal
    <3>2. BoundsInv'
      BY <3>1, BoundsNext, BoundsSame
    <3> QED
      BY <2>1, <3>2, LocalsFew
  <2>2. CASE UNCHANGED allVars
    <3>1. UNCHANGED vars /\ local' = local
      BY <2>2 DEF allVars, tlVars
    <3> QED
      BY <3>1, BoundsSame
  <2> QED
    BY <2>1, <2>2
<1> QED
  BY <1>1, <1>2, LifeHolds, LocalsInductive, PTL DEF Spec

\* What does not occur twice is injective.
LEMMA OnceInjective ==
    ASSUME NEW s, IsSeq(s), Once(s)
    PROVE  IsInjective(s)
<1>1. DOMAIN s = 1..Len(s)
  BY SeqFacts
<1> QED
  BY <1>1 DEF Once, IsInjective

\* The store is well typed, and no descriptor is in its order twice.
LEMMA StoreTyped ==
    ASSUME NEW L \in Nat, NEW K \in Nat, NEW s, StoreOK(s, L, K)
    PROVE  /\ IsInjective(s.order)
           /\ \A d : At(s, d) \in SlotSet(K)
<1>1. s.order \in Seq(1..L) /\ IsSeq(s.order)
  BY DEF StoreOK, IsSeq
<1>2. \A d : At(s, d) \in SlotSet(K)
  <2>1. PICK S : S = SlotSet(K)
    OBVIOUS
  <2>2. s.base \in Seq(S)
    BY <2>1 DEF StoreOK
  <2>3. \A d \in 1..Len(s.base) : s.base[d] \in S
    BY <2>2
  <2>4. None \in S
    BY <2>1 DEF SlotSet
  <2> QED
    BY <2>1, <2>3, <2>4 DEF At
<1>3. \A k \in 1..Len(s.order) : Num(s, s.order[k]) \in Nat
  <2> TAKE k \in 1..Len(s.order)
  <2>1. s.order[k] \in 1..L /\ Holds(s.order, s.order[k])
    BY <1>1 DEF Holds
  <2>2. At(s, s.order[k]) # None
    BY <2>1 DEF StoreOK
  <2>3. At(s, s.order[k]) \in 1..K \/ At(s, s.order[k]) = CtxInst
    BY <1>2, <2>2 DEF SlotSet
  <2> QED
    BY <2>3 DEF Num
<1>4. Once(s.order)
  <2> SUFFICES ASSUME NEW m \in 1..Len(s.order), NEW n \in 1..Len(s.order), s.order[m] = s.order[n], m # n PROVE FALSE
    BY DEF Once
  <2>1. Len(s.order) \in Nat
    BY <1>1
  <2>2. m < n \/ n < m
    BY <2>1
  <2>3. \A j, k \in 1..Len(s.order) : j < k => Num(s, s.order[j]) < Num(s, s.order[k])
    BY DEF StoreOK
  <2>4. Num(s, s.order[m]) < Num(s, s.order[n]) \/ Num(s, s.order[n]) < Num(s, s.order[m])
    BY <2>2, <2>3
  <2>5. PICK x \in Nat : x = Num(s, s.order[m]) /\ x = Num(s, s.order[n])
    BY <1>3
  <2> QED
    BY <2>4, <2>5
<1> QED
  BY <1>1, <1>2, <1>4, OnceInjective

\* The registry's own state is well typed.
LEMMA RegistryTyped ==
    ASSUME CallsInv, LifeInv, BoundsInv
    PROVE  TypeOK
<1>1. TablesInv /\ InstInv /\ LookInv
  BY DEF LifeInv
<1>2. /\ StoreOK(store, Len(descs), Len(inst)) /\ Len(inst) \in Nat /\ failed \in Nat
      /\ BindsOK(bindings, lost, Len(inst)) /\ InstsOK(inst, store, bindings, lost, Len(descs))
  BY <1>1, InstParts
<1>3. Len(descs) \in Nat /\ DescsOK(descs)
  BY <1>1, DescsIn DEF TablesInv, TablesOK
<1>4. cat \in Catalogs /\ phase \in {"live", "stopped", "dead"} /\ started \in BOOLEAN
  BY DEF CallsInv, BoundsInv
<1>5. pending \in Seq(Seq(Contributed)) /\ Len(pending) <= MaxPending
  BY <1>1 DEF TablesInv, BoundsInv
<1>6. interned \in Seq(Types) /\ IsInjective(interned)
  <2>1. interned \in Seq(Types) /\ Once(interned)
    BY <1>1 DEF TablesInv, TablesOK
  <2>2. IsSeq(interned)
    BY <2>1 DEF IsSeq
  <2> QED
    BY <2>1, <2>2, OnceInjective
<1>7. descs \in Seq(Desc) /\ ctxDesc \in 1..Len(descs) \union {NoDesc}
  <2>1. Desc = DescSet(Len(descs))
    BY DEF Desc, DescSet
  <2> QED
    BY <1>1, <1>3, <2>1 DEF DescsOK, TablesInv
<1>8. /\ store.frozen \in Seq(Slots) /\ store.base \in Seq(Slots)
      /\ store.order \in Seq(1..Len(descs)) /\ IsInjective(store.order)
      /\ Len(store.frozen) <= Len(store.base) /\ Len(store.base) <= Len(descs)
  <2>1. Slots = SlotSet(Len(inst))
    BY DEF Slots, SlotSet
  <2>2. IsInjective(store.order)
    BY <1>2, <1>3, StoreTyped
  <2> QED
    BY <1>2, <2>1, <2>2 DEF StoreOK
<1>9. defaults.root \in [Types -> Names] /\ defaults.scoped \in [Types -> Names]
  BY <1>1 DEF TablesInv
<1>10. inst \in Seq([desc : 1..Len(descs) \union {NoDesc}, life : {"made", "raw", "raw gone", "destroyed", "corrupt"},
                     uses : SUBSET (1..Len(inst))])
  <2>1. PICK S, U : S = InstSet(Len(descs)) /\ U = 1..Len(inst)
    OBVIOUS
  <2>2. PICK T : T = [desc : 1..Len(descs) \union {NoDesc},
                      life : {"made", "raw", "raw gone", "destroyed", "corrupt"}, uses : SUBSET U]
    OBVIOUS
  <2>3. inst \in Seq(S)
    BY <1>2, <2>1 DEF InstsOK
  <2>4. ASSUME NEW i \in 1..Len(inst) PROVE inst[i] \in T
    <3>1. inst[i] \in S
      BY <2>3
    <3>2. inst[i].uses \subseteq U
      BY <2>1 DEF BoundsInv
    <3> QED
      BY <2>1, <2>2, <3>1, <3>2 DEF InstSet
  <2>5. inst \in Seq(T)
    BY <2>3, <2>4
  <2> QED
    BY <2>1, <2>2, <2>5
<1>11. Len(inst) <= MaxInst
  <2>1. Len(frames) \in Nat
    BY SeqFacts DEF CallsInv
  <2>2. PICK c \in Nat : c = Cardinality(Makers(frames))
    BY <2>1, MakersFinite
  <2>3. Len(inst) + c <= MaxInst /\ MaxInst \in Nat
    BY <2>2, LifecycleConstants DEF BoundsInv
  <2> QED
    BY <1>2, <2>2, <2>3
<1>12. Depth <= MaxDepth /\ lost \subseteq 1..Len(inst)
  BY <1>2 DEF BoundsInv, Depth, BindsOK
<1>13. failed \in 0..MaxFailed
  BY <1>2, LifecycleConstants DEF BoundsInv
<1>14. look.at # "idle" => look.desc \in Answers /\ look.found \in Slots
  <2> SUFFICES ASSUME look.at # "idle" PROVE look.desc \in Answers /\ look.found \in Slots
    OBVIOUS
  <2>1. LookOK(look, descs, store, failed)
    BY <1>1 DEF LookInv
  <2>2. \A d : At(store, d) \in SlotSet(Len(inst))
    BY <1>2, <1>3, StoreTyped
  <2>3. look.found = None \/ look.found \in SlotSet(Len(inst))
    BY <2>1, <2>2 DEF LookOK
  <2>4. look.desc \in Answers
    BY <2>1 DEF LookOK, Answers
  <2> QED
    BY <2>3, <2>4 DEF Slots, SlotSet
<1> QED
  BY <1>4, <1>5, <1>6, <1>7, <1>8, <1>9, <1>10, <1>11, <1>12, <1>13, <1>14 DEF TypeOK

\* So is that of the threads.
LEMMA ThreadsTyped ==
    ASSUME LocalInv, TokenInv, Len(local) <= MaxLocal
    PROVE  TL!TypeOK
<1>1. LocalTypes /\ TokenType
  BY DEF LocalInv, TokenInv
<1>2. token \in [Threads -> 0..next] /\ free \in Seq(1..next) /\ next \in Nat
  <2>1. token \in [Threads -> Nat] /\ next \in Nat /\ free \in Seq(Nat)
    BY <1>1 DEF TokenType
  <2>2. \A t \in Threads : token[t] \in 0..next
    BY <1>1, <2>1 DEF TokenType
  <2>3. \A n \in 1..Len(free) : free[n] \in 1..next
    BY <1>1 DEF TokenType
  <2>4. free \in Seq(1..next)
    BY <2>1, <2>3
  <2>5. token \in [Threads -> 0..next]
    BY <2>1, <2>2
  <2> QED
    BY <2>1, <2>4, <2>5
<1> QED
  BY <1>1, <1>2 DEF LocalTypes, ThreadStates, Objects, Instance, TL!TypeOK

\* The fields of the Registry and of its threads are well typed in every state: no
\* TypeId is handed out twice, no singleton enters the construction order twice, no
\* descriptor or instance number dangles, and every bound the model puts on the
\* number of instances, frames, spans and failures is respected.
THEOREM ContainerTyped == Spec => []ContainerTypeOK
<1>1. CallsInv /\ LifeInv /\ LocalInv /\ TokenInv /\ BoundsInv /\ Len(local) <= MaxLocal => ContainerTypeOK
  BY RegistryTyped, ThreadsTyped DEF ContainerTypeOK
<1> QED
  BY <1>1, LifeHolds, LocalsInductive, TokenInvHolds, BoundsHold, PTL

-----------------------------------------------------------------------------
(* The selection.                                                          *)

\* A bindSingleton whose index is not rebuilt yet; no call is one, only the innermost
\* call may be one; how far it has come.
Staged(f) == f.op = "bind" /\ f.at # "listeners"
NoneStaged(F) == \A n \in 1..Len(F) : ~Staged(F[n])
StagesOK(F) == \A n \in 1..Len(F) : Staged(F[n]) => n = Len(F)
StageOf(F) == IF F # <<>> /\ Staged(F[Len(F)]) THEN F[Len(F)].at ELSE "listeners"

\* No call is one if the innermost is not.
LEMMA Unstaged ==
    ASSUME CallsInv, StagesOK(frames), frames # <<>> => ~Staged(Top)
    PROVE  NoneStaged(frames)
<1>1. ASSUME NEW n \in 1..Len(frames), Staged(frames[n]) PROVE FALSE
  <2>1. n = Len(frames) /\ Len(frames) \in Nat /\ (frames = <<>> <=> Len(frames) = 0)
    BY <1>1, SeqFacts DEF StagesOK, CallsInv
  <2>2. frames # <<>>
    BY <2>1
  <2>3. Top = frames[n]
    BY <2>1, <2>2, TopFacts
  <2> QED
    BY <1>1, <2>2, <2>3
<1> QED
  BY <1>1 DEF NoneStaged

\* Then nothing is being rebuilt.
LEMMA NoneOf ==
    ASSUME NEW F, NoneStaged(F), IsSeq(F)
    PROVE  StagesOK(F) /\ StageOf(F) = "listeners"
<1>1. Len(F) \in Nat /\ (F = <<>> <=> Len(F) = 0)
  BY SeqFacts
<1>2. F # <<>> => Len(F) \in 1..Len(F)
  BY <1>1
<1> QED
  BY <1>2 DEF NoneStaged, StagesOK, StageOf

\* A new call that is none makes none.
LEMMA PushUnstaged ==
    ASSUME CallsInv, NoneStaged(frames), NEW g, Push(g), ~Staged(g)
    PROVE  NoneStaged(frames')
<1>1. IsSeq(frames) /\ Len(frames) \in Nat /\ frames' = Append(frames, g)
  BY SeqFacts DEF CallsInv, Push
<1>2. /\ Len(frames') = Len(frames) + 1 /\ \A n \in 1..Len(frames) : frames'[n] = frames[n]
      /\ frames'[Len(frames) + 1] = g
  BY <1>1, AppendFacts
<1>3. \A n \in 1..Len(frames') : n \in 1..Len(frames) \/ n = Len(frames) + 1
  BY <1>1, <1>2
<1> QED
  BY <1>2, <1>3 DEF NoneStaged

\* The steps of a bind apart, every step that changes the calls finds none and leaves
\* none: no user code runs while the index is rebuilt.
LEMMA StepStages ==
    ASSUME CallsInv, StagesOK(frames), RegistrySteps \/ Stopped
    PROVE  \/ frames' = frames \/ BindStep \/ (\E k : BindLate(k))
           \/ (NoneStaged(frames) /\ NoneStaged(frames'))
<1>0. IsSeq(frames) /\ Len(frames) \in Nat
  BY SeqFacts DEF CallsInv
<1>1. CASE GotoSteps /\ ~BindStep
  <2>1. PICK g : frames # <<>> /\ Goto(g) /\ IsCall(g) /\ PointOK(g) /\ GoesOn(g)
    BY <1>1, StepGoesOn
  <2>2. /\ Len(frames') = Len(frames) /\ Len(frames) \in Nat \ {0}
        /\ \A n \in 1..Len(frames) : frames'[n] = IF n = Len(frames) THEN g ELSE frames[n]
    BY <2>1, GotoIs
  <2>3. CallOK(Top, Len(frames), Len(frames), started)
    BY <2>1, TopFacts
  <2>4. Top.op # "bind"
    <3>1. \/ Top.op \in {"start", "make", "stop"} \/ Top.at = "destroying"
      BY <1>1 DEF GotoSteps, ContextAnnounced, BoundAnnounced, EagerFound, Made, DestroyNext, StopSweeps,
         ReleaseAll, ResolveFound, In
    <3> QED
      BY <2>3, <3>1 DEF CallOK, PointOK
  <2>5. g.op # "bind"
    BY <2>1, <2>4 DEF GoesOn
  <2>6. NoneStaged(frames)
    BY <2>4, Unstaged DEF Staged
  <2>7. NoneStaged(frames')
    BY <2>2, <2>5, <2>6 DEF NoneStaged, Staged
  <2> QED
    BY <2>6, <2>7
<1>2. CASE PushSteps /\ ~\E k : BindLate(k)
  <2>0. \/ EagerClaim \/ (\E t, n : ResolveClaim(t, n)) \/ StartMerged \/ StartAgain \/ (Stop /\ started) \/ ExitUnstopped
    BY <1>2 DEF PushSteps
  <2>1. \E o, a, d, q : Push(Call(o, a, d, q)) /\ o # "bind"
    <3>1. CASE EagerClaim
      BY <3>1 DEF EagerClaim
    <3>2. CASE \E t, n : ResolveClaim(t, n)
      <4>1. PICK t, n : ResolveClaim(t, n)
        BY <3>2
      <4>2. PICK d : d = Primary(Request(FALSE, t, n))
        OBVIOUS
      <4>3. Push(Call("make", "constructor", d, <<>>))
        BY <4>1, <4>2 DEF ResolveClaim
      <4> QED
        BY <4>3
    <3>3. CASE StartMerged
      BY <3>3 DEF StartMerged
    <3>4. CASE StartAgain \/ (Stop /\ started) \/ ExitUnstopped
      BY <3>4 DEF StartAgain, Stop, ExitUnstopped
    <3> QED
      BY <2>0, <3>1, <3>2, <3>3, <3>4
  <2>2. PICK g : Push(g) /\ ~Staged(g)
    BY <2>1, CallIs DEF Staged
  <2>3. frames # <<>> => ~Staged(Top)
    <3>1. frames = <<>> \/ In("start", "eager") \/ UserCode
      BY <2>0 DEF EagerClaim, ResolveClaim, StartMerged, StartAgain, Stop, ExitUnstopped, Idle
    <3>2. ASSUME UserCode, frames # <<>> PROVE ~Staged(Top)
      <4>1. CallOK(Top, Len(frames), Len(frames), started)
        BY <3>2, TopFacts
      <4> QED
        BY <3>2, <4>1 DEF UserCode, CallOK, PointOK, Staged
    <3> QED
      BY <3>1, <3>2 DEF In, Staged
  <2> QED
    BY <2>2, <2>3, Unstaged, PushUnstaged
<1>3. CASE EarlyReturns \/ Stopped
  <2>1. /\ frames # <<>> /\ Len(frames') = Len(frames) - 1
        /\ \A n \in 1..Len(frames') : n \in 1..Len(frames) /\ frames'[n] = frames[n]
    BY <1>3, StepReturns, CallsReturn DEF ReturnSteps
  <2>2. \/ Top.op \in {"start", "make", "stop", "rollback"} \/ Top.at = "listeners"
    BY <1>3 DEF EarlyReturns, StartDone, MakeThrows, BindDone, Stopped, In
  <2>3. NoneStaged(frames)
    BY <2>2, Unstaged DEF Staged
  <2> QED
    BY <2>1, <2>3 DEF NoneStaged
<1>4. CASE QuietSteps \/ (Stop /\ ~started)
  BY <1>4, QuietCalls DEF QuietSteps, Stop
<1>5. CASE MadeReturns
  <2>1. frames # <<>> /\ Top.op = "make"
    BY <1>5 DEF MadeReturns, In
  <2>2. NoneStaged(frames)
    BY <2>1, Unstaged DEF Staged
  <2>3. PICK u, k : u = Find(Top.desc) /\ k = Len(frames) - 1
    OBVIOUS
  <2>4. k \in Nat /\ k <= Len(frames) /\ Depth = Len(frames)
    BY <2>1, <2>3, TopFacts
  <2>5. frames' = [n \in 1..k |-> IF n = k /\ frames[n].at = "constructor"
                                  THEN [frames[n] EXCEPT !.uses = @ \union {u}] ELSE frames[n]]
    BY <1>5, <2>3, <2>4 DEF MadeReturns
  <2>6. Len(frames') = k
    <3>1. frames' = [n \in 1..k |-> frames'[n]]
      BY <2>5
    <3> QED
      BY <2>4, <3>1, DomIsSeq
  <2>7. ASSUME NEW n \in 1..k PROVE ~Staged(frames'[n])
    <3>1. PICK f, g, U : f = frames[n] /\ g = frames'[n] /\ U = f.uses \union {u}
      OBVIOUS
    <3>2. n \in 1..Len(frames) /\ IsCall(f) /\ ~Staged(f)
      BY <1>0, <2>2, <2>4, <3>1 DEF CallsInv, CallOK, NoneStaged
    <3>3. g = f \/ SetUses(f, U, g)
      BY <2>5, <3>1 DEF SetUses
    <3>4. g.op = f.op /\ g.at = f.at
      BY <3>2, <3>3, CallUses
    <3> QED
      BY <3>1, <3>2, <3>4 DEF Staged
  <2>8. NoneStaged(frames')
    BY <2>6, <2>7 DEF NoneStaged
  <2> QED
    BY <2>2, <2>8
<1>6. CASE StartThrows
  <2>1. Len(frames') = 1 /\ frames'[1].op \in {"stop", "exit", "rollback"}
    BY <1>6, DoomBegins
  <2>2. NoneStaged(frames')
    <3>1. \A n \in 1..Len(frames') : n = 1
      BY <2>1
    <3> QED
      BY <2>1, <3>1 DEF NoneStaged, Staged
  <2>3. Top.op \in {"start", "make"}
    BY <1>6 DEF StartThrows, In
  <2> QED
    BY <2>2, <2>3, Unstaged DEF Staged
<1>7. CASE DestroyRegistry
  <2>1. frames' = <<>> /\ (frames # <<>> => Top.op = "exit")
    BY <1>7 DEF DestroyRegistry, In, CallsInv
  <2>2. NoneStaged(frames')
    BY <2>1 DEF NoneStaged
  <2> QED
    BY <2>1, <2>2, Unstaged DEF Staged
<1> QED
  BY <1>1, <1>2, <1>3, <1>4, <1>5, <1>6, <1>7, StepsSorted

\* What is queued does not rival the context's own bean.
OfferOK(P, B) == P \in Seq(Seq(Plain)) /\ \A n \in 1..Len(B) : ~Rival(B[n].key)

\* The index: of what it was told before the start, and right from then on, as far
\* as the bind in progress has come.
Indexed(c, x, ds, F) ==
    /\ c = NoDesc => Gathered(x, ds) /\ \A d \in 1..Len(ds) : ~Rival(ds[d])
    /\ c # NoDesc => Flushed(x) /\ Sited(StageOf(F), x, Old(ds), ds)
    /\ StageOf(F) # "listeners" => F[Len(F)].desc = Len(ds) /\ ~Rival(ds[Len(ds)])

\* The tables of defaults: no slot for a type without a TypeId, and none before the start.
SlotFor(ts, n, t) == \E k \in 1..n : ts[k] = t
SlotsOK(D, ts, c) ==
    /\ D = [size |-> D.size, root |-> D.root, any |-> D.any,
            scopedSize |-> D.scopedSize, scoped |-> D.scoped, scopedAny |-> D.scopedAny]
    /\ D.size \in Nat /\ D.size <= Len(ts) /\ D.scopedSize \in {0, D.size}
    /\ \A t \in Types : D.root[t] # Unnamed => D.any /\ SlotFor(ts, D.size, t)
    /\ \A t \in Types : D.scoped[t] # Unnamed => D.scopedAny /\ SlotFor(ts, D.scopedSize, t)
    /\ c = NoDesc => D.size = 0

\* What makes a selection right: the index and the tables of defaults.
SelectInv ==
    /\ StagesOK(frames) /\ OfferOK(pending, bindings) /\ (started => ctxDesc # NoDesc)
    /\ Indexed(ctxDesc, ix, descs, frames) /\ SlotsOK(defaults, interned, ctxDesc)

\* A step that leaves the tables alone.
Still ==
    /\ UNCHANGED <<descs, ix, ctxDesc, interned, defaults>>
    /\ (pending' = pending \/ pending' = <<>>) /\ (bindings' = bindings \/ bindings' = <<>>)
    /\ started' => started \/ ctxDesc # NoDesc

\* What a program discovers is no rival of the context's own bean.
LEMMA SpanPlain ==
    ASSUME ContextUnrivalled, CallsInv, NEW s \in cat.spans
    PROVE  s \in Seq(Plain)
<1>1. s \in Seq(Contributed) /\ \A n \in 1..Len(s) : ~Rival(s[n])
  BY ProgramIn DEF ContextUnrivalled, CallsInv
<1>2. PICK S : S = Contributed
  OBVIOUS
<1>3. s \in Seq(S)
  BY <1>1, <1>2
<1>4. Len(s) \in Nat /\ \A n \in 1..Len(s) : s[n] \in S
  BY <1>3
<1>5. PICK T : T = Plain
  OBVIOUS
<1>6. \A n \in 1..Len(s) : s[n] \in T
  BY <1>1, <1>2, <1>4, <1>5 DEF Plain
<1>7. s = [n \in 1..Len(s) |-> s[n]]
  BY <1>3
<1>8. s \in Seq(T)
  BY <1>4, <1>6, <1>7
<1> QED
  BY <1>5, <1>8

\* Announcements, claims, returns and ends of calls leave the tables alone.
LEMMA SteadyStill ==
    ASSUME SteadySteps
    PROVE  Still \/ BindStep
BY DEF SteadySteps, ContextAnnounced, BoundAnnounced, EagerFound, EagerClaim, ResolveFound, ResolveClaim, MadeReturns,
     MakeThrows, StartDone, BindDone, Still, registry

\* So do constructors, rollbacks, stop() and ~Registry.
LEMMA RestStill ==
    ASSUME \/ StartAgain \/ Made \/ (\E t \in Types, n \in Names : ResolveUnbuilt(t, n))
           \/ StartThrows \/ (Stop /\ started) \/ ExitUnstopped \/ DestroyNext \/ ReleaseAll
           \/ StopSweeps \/ Stopped \/ DestroyRegistry
    PROVE  Still
<1>1. CASE StartAgain
  BY <1>1 DEF StartAgain, Still, registry
<1>5. CASE Made
  BY <1>5 DEF Made, Still, registry
<1>6. CASE \E t \in Types, n \in Names : ResolveUnbuilt(t, n)
  BY <1>6 DEF ResolveUnbuilt, Still, registry
<1>2. CASE StartThrows \/ (Stop /\ started) \/ ExitUnstopped
  BY <1>2 DEF StartThrows, Stop, ExitUnstopped, Still, registry
<1>3. CASE DestroyNext \/ ReleaseAll \/ StopSweeps \/ Stopped
  BY <1>3 DEF DestroyNext, ReleaseAll, StopSweeps, Stopped, Still, registry
<1>4. CASE DestroyRegistry
  BY <1>4 DEF DestroyRegistry, Still
<1> QED
  BY <1>1, <1>2, <1>3, <1>4, <1>5, <1>6

\* Every step of the registry discovers, binds, merges, sets a default or leaves the
\* tables alone.
LEMMA SelectKinds ==
    ASSUME ContextUnrivalled, CallsInv, RegistrySteps \/ Stopped
    PROVE  \/ (\E s \in Seq(Plain) : Discover(s))
           \/ (\E k \in Key : ~Rival(k) /\ (BindEarly(k) \/ BindLate(k)))
           \/ BindStep \/ StartRejected \/ StartMerged
           \/ (\E c \in BOOLEAN, t \in Types, n \in Names : SetDefault(c, t, n) \/ ClearDefault(c, t))
           \/ Still
<1>1. CASE Others
  <2>1. CASE \E s \in cat.spans : Discover(s)
    BY <2>1, SpanPlain
  <2>2. CASE \E k \in cat.binds : BindEarly(k) \/ BindLate(k)
    <3>1. \A k \in cat.binds : k \in Key /\ ~Rival(k)
      BY ProgramIn DEF ContextUnrivalled, CallsInv
    <3> QED
      BY <2>2, <3>1
  <2>3. CASE \E q \in cat.defaults, c \in BOOLEAN : SetDefault(c, q.type, q.name) \/ ClearDefault(c, q.type)
    <3>1. \A q \in cat.defaults : q.type \in Types /\ q.name \in Names
      BY ProgramIn
    <3> QED
      BY <2>3, <3>1
  <2>4. CASE \/ ContextAnnounced \/ BoundAnnounced \/ EagerFound \/ StartDone
             \/ MadeReturns \/ MakeThrows \/ BindStep \/ BindDone
    BY <2>4, SteadyStill DEF SteadySteps
  <2>5. CASE \E q \in cat.asks : ResolveFound(q.type, q.name) \/ ResolveUnbuilt(q.type, q.name)
    <3>1. \A q \in cat.asks : q.type \in Types /\ q.name \in Names
      BY ProgramIn
    <3> QED
      BY <2>5, <3>1, SteadyStill, RestStill DEF SteadySteps
  <2>6. CASE (\E q \in cat.looks : LookBegin(q.type, q.name)) \/ LookSteps \/ (Stop /\ ~started)
    <3>1. (\E t, n : LookBegin(t, n)) \/ LookSteps \/ (Stop /\ ~started)
      BY <2>6
    <3> QED
      BY <3>1 DEF LookBegin, LookSteps, LookSingle, LookEntry, LookFlag, LookFind, LookDone, Stop, Still, registry
  <2>7. CASE StartAgain \/ Made \/ StartThrows \/ (Stop /\ started) \/ ExitUnstopped \/ DestroyNext \/ ReleaseAll
    BY <2>7, RestStill
  <2> QED
    BY <1>1, <2>1, <2>2, <2>3, <2>4, <2>5, <2>6, <2>7 DEF Others, LookSteps
<1>2. CASE Claims
  <2>1. \A q \in cat.asks : q.type \in Types /\ q.name \in Names
    BY ProgramIn
  <2>2. EagerClaim \/ \E t \in Types, n \in Names : ResolveClaim(t, n)
    BY <1>2, <2>1 DEF Claims
  <2> QED
    BY <2>2 DEF EagerClaim, ResolveClaim, Still, registry
<1>3. CASE StopSweeps \/ DestroyRegistry \/ Stopped
  BY <1>3, RestStill
<1> QED
  BY <1>1, <1>2, <1>3 DEF RegistrySteps

\* An empty table has no slot.
LEMMA SlotNone ==
    ASSUME NEW ts, NEW t
    PROVE  ~SlotFor(ts, 0, t)
BY DEF SlotFor

\* What TablesInv says of the lengths and of the index.
LEMMA TablesLens ==
    ASSUME TablesInv
    PROVE  /\ Len(descs) \in Nat /\ Len(interned) \in Nat /\ IsSeq(descs) /\ IsSeq(interned)
           /\ Ranked(descs) /\ ix \in Index(Len(descs)) /\ Prio = PrioOf(descs)
<1>1. TablesOK(descs, ix, interned) /\ DescsOK(descs) /\ Len(descs) \in Nat
  BY DescsIn DEF TablesInv, TablesOK
<1>2. interned \in Seq(Types)
  BY <1>1 DEF TablesOK
<1>3. PICK S : S = DescSet(Len(descs))
  OBVIOUS
<1>4. descs \in Seq(S)
  BY <1>1, <1>3 DEF DescsOK
<1> QED
  BY <1>1, <1>2, <1>4, DescsRanked DEF IsSeq, TablesOK, Prio, PrioOf

\* A step that leaves the tables alone keeps SelectInv.
LEMMA SelectStill ==
    ASSUME CallsInv, CallsInv', TablesInv, SelectInv, RegistrySteps \/ Stopped, Still, ~BindStep
    PROVE  SelectInv'
<1>1. ~\E k : BindLate(k)
  <2>1. ASSUME NEW k, BindLate(k) PROVE FALSE
    <3>1. PICK e : descs' = Append(descs, e)
      BY <2>1 DEF BindLate
    <3>2. Len(descs') = Len(descs) + 1 /\ descs' = descs /\ Len(descs) \in Nat
      BY <3>1, TablesLens, AppendFacts DEF Still
    <3> QED
      BY <3>2
  <2> QED
    BY <2>1
<1>2. frames' = frames \/ (NoneStaged(frames) /\ NoneStaged(frames'))
  BY <1>1, StepStages DEF SelectInv
<1>3. IsSeq(frames) /\ IsSeq(frames')
  BY DEF CallsInv
<1>4. StagesOK(frames') /\ (frames' = frames \/ (StageOf(frames') = "listeners" /\ StageOf(frames) = "listeners"))
  BY <1>2, <1>3, NoneOf DEF SelectInv
<1>5. OfferOK(pending', bindings')
  <2>1. pending' \in Seq(Seq(Plain))
    <3>1. PICK S : S = Seq(Plain)
      OBVIOUS
    <3>2. pending \in Seq(S)
      BY <3>1 DEF SelectInv, OfferOK
    <3>3. pending' \in Seq(S)
      <4>1. pending' = pending \/ pending' = <<>>
        BY DEF Still
      <4>2. <<>> \in Seq(S)
        OBVIOUS
      <4> QED
        BY <3>2, <4>1, <4>2
    <3> QED
      BY <3>1, <3>3
  <2>2. \A n \in 1..Len(bindings') : ~Rival(bindings'[n].key)
    BY DEF SelectInv, OfferOK, Still
  <2> QED
    BY <2>1, <2>2 DEF OfferOK
<1>6. Indexed(ctxDesc', ix', descs', frames')
  <2>1. Indexed(ctxDesc, ix, descs, frames)
    BY DEF SelectInv
  <2>2. Indexed(ctxDesc, ix, descs, frames')
    BY <1>4, <2>1 DEF Indexed
  <2> QED
    BY <2>2 DEF Still
<1>7. SlotsOK(defaults', interned', ctxDesc')
  BY DEF SelectInv, Still
<1> QED
  BY <1>4, <1>5, <1>6, <1>7 DEF SelectInv, Still

\* discover() and bindSingleton() before start() queue what is no rival.
LEMMA SelectOffer ==
    ASSUME SelectInv, (\E s \in Seq(Plain) : Discover(s)) \/ (\E k : ~Rival(k) /\ BindEarly(k)), TablesInv,
           IsSeq(bindings)
    PROVE  SelectInv'
<1>1. UNCHANGED <<started, frames, descs, ix, ctxDesc, interned, defaults>>
  BY DEF Discover, BindEarly
<1>2. OfferOK(pending', bindings')
  <2>1. CASE \E s \in Seq(Plain) : Discover(s)
    <3>1. PICK S : S = Seq(Plain)
      OBVIOUS
    <3>2. PICK s \in S : pending' = Append(pending, s) /\ bindings' = bindings
      BY <2>1, <3>1 DEF Discover
    <3>3. pending \in Seq(S)
      BY <3>1 DEF SelectInv, OfferOK
    <3>4. pending' \in Seq(S)
      BY <3>2, <3>3
    <3> QED
      BY <3>1, <3>2, <3>4 DEF SelectInv, OfferOK
  <2>2. CASE \E k : ~Rival(k) /\ BindEarly(k)
    <3>1. PICK k : ~Rival(k) /\ BindEarly(k)
      BY <2>2
    <3>2. PICK b : b = [key |-> k, inst |-> Len(inst) + 1]
      OBVIOUS
    <3>3. bindings' = Append(bindings, b) /\ pending' = pending /\ b.key = k
      BY <3>1, <3>2 DEF BindEarly
    <3>4. /\ Len(bindings') = Len(bindings) + 1 /\ Len(bindings) \in Nat
          /\ \A n \in 1..Len(bindings) : bindings'[n] = bindings[n]
          /\ bindings'[Len(bindings) + 1] = b
      BY <3>3, AppendFacts, SeqFacts
    <3>5. \A n \in 1..Len(bindings') : n \in 1..Len(bindings) \/ n = Len(bindings) + 1
      BY <3>4
    <3>6. \A n \in 1..Len(bindings) : ~Rival(bindings[n].key)
      BY DEF SelectInv, OfferOK
    <3> QED
      BY <3>1, <3>3, <3>4, <3>5, <3>6 DEF SelectInv, OfferOK
  <2> QED
    BY <2>1, <2>2
<1> QED
  BY <1>1, <1>2 DEF SelectInv

\* One default set or cleared, in either table.
DefaultSet(D, t, n, E) ==
    \/ E = [D EXCEPT !.scopedSize = D.size, !.scoped[t] = n, !.scopedAny = TRUE]
    \/ E = [D EXCEPT !.root[t] = n, !.any = TRUE]
    \/ n = Unnamed /\ E = [D EXCEPT !.scoped[t] = n]
    \/ n = Unnamed /\ E = [D EXCEPT !.root[t] = n]

\* That keeps the tables: a default has a slot, and the mark that there is some.
LEMMA SlotsSet ==
    ASSUME NEW D, NEW ts, NEW c, SlotsOK(D, ts, c), D.root \in [Types -> Names], D.scoped \in [Types -> Names],
           NEW t \in Types, NEW n, SlotFor(ts, D.size, t), c # NoDesc, NEW E, DefaultSet(D, t, n, E)
    PROVE  SlotsOK(E, ts, c)
<1>1. PICK z, r, a, y, s, b : D = [size |-> z, root |-> r, any |-> a, scopedSize |-> y, scoped |-> s, scopedAny |-> b]
  BY DEF SlotsOK
<1>2. /\ z \in Nat /\ z <= Len(ts) /\ y \in {0, z} /\ r \in [Types -> Names] /\ s \in [Types -> Names]
      /\ (\A u \in Types : r[u] # Unnamed => a /\ SlotFor(ts, z, u))
      /\ (\A u \in Types : s[u] # Unnamed => b /\ SlotFor(ts, y, u))
      /\ SlotFor(ts, z, t)
  BY <1>1 DEF SlotsOK
<1>3. PICK R, S : R = [r EXCEPT ![t] = n] /\ S = [s EXCEPT ![t] = n]
  OBVIOUS
<1>4. /\ R[t] = n /\ S[t] = n
      /\ \A u \in Types : u # t => R[u] = r[u] /\ S[u] = s[u]
  BY <1>2, <1>3
<1>5. ~SlotFor(ts, 0, t) /\ \A u : ~SlotFor(ts, 0, u)
  BY SlotNone
<1>6. CASE E = [D EXCEPT !.scopedSize = D.size, !.scoped[t] = n, !.scopedAny = TRUE]
  <2>1. E = [size |-> z, root |-> r, any |-> a, scopedSize |-> z, scoped |-> S, scopedAny |-> TRUE]
    BY <1>1, <1>3, <1>6
  <2>2. \A u \in Types : S[u] # Unnamed => SlotFor(ts, z, u)
    BY <1>2, <1>4, <1>5
  <2> QED
    BY <1>2, <2>1, <2>2 DEF SlotsOK
<1>7. CASE E = [D EXCEPT !.root[t] = n, !.any = TRUE]
  <2>1. E = [size |-> z, root |-> R, any |-> TRUE, scopedSize |-> y, scoped |-> s, scopedAny |-> b]
    BY <1>1, <1>3, <1>7
  <2>2. \A u \in Types : R[u] # Unnamed => SlotFor(ts, z, u)
    BY <1>2, <1>4
  <2> QED
    BY <1>2, <2>1, <2>2 DEF SlotsOK
<1>8. CASE n = Unnamed /\ E = [D EXCEPT !.scoped[t] = n]
  <2>1. E = [size |-> z, root |-> r, any |-> a, scopedSize |-> y, scoped |-> S, scopedAny |-> b]
    BY <1>1, <1>3, <1>8
  <2>2. \A u \in Types : S[u] # Unnamed => b /\ SlotFor(ts, y, u)
    BY <1>2, <1>4, <1>8
  <2> QED
    BY <1>2, <2>1, <2>2 DEF SlotsOK
<1>9. CASE n = Unnamed /\ E = [D EXCEPT !.root[t] = n]
  <2>1. E = [size |-> z, root |-> R, any |-> a, scopedSize |-> y, scoped |-> s, scopedAny |-> b]
    BY <1>1, <1>3, <1>9
  <2>2. \A u \in Types : R[u] # Unnamed => a /\ SlotFor(ts, z, u)
    BY <1>2, <1>4, <1>9
  <2> QED
    BY <1>2, <2>1, <2>2 DEF SlotsOK
<1> QED
  BY <1>6, <1>7, <1>8, <1>9 DEF DefaultSet

\* setDefault and clearDefault keep SelectInv.
LEMMA SelectDefault ==
    ASSUME TablesInv, SelectInv, NEW c \in BOOLEAN, NEW t \in Types, NEW n, SetDefault(c, t, n) \/ ClearDefault(c, t)
    PROVE  SelectInv'
<1>1. UNCHANGED <<started, frames, descs, ix, ctxDesc, interned, pending, bindings>> /\ started /\ HasSlot(t)
  BY DEF SetDefault, ClearDefault, registry
<1>2. /\ SlotsOK(defaults, interned, ctxDesc) /\ SlotFor(interned, defaults.size, t) /\ ctxDesc # NoDesc
      /\ defaults.root \in [Types -> Names] /\ defaults.scoped \in [Types -> Names]
  BY <1>1 DEF SelectInv, HasSlot, SlotFor, TablesInv
<1>3. \E m : DefaultSet(defaults, t, m, defaults')
  <2>1. CASE SetDefault(c, t, n)
    <3>1. PICK D, z, y : D = defaults /\ z = D.size /\ y = D.scopedSize
      OBVIOUS
    <3>2. y \in {0, z}
      BY <1>2, <3>1 DEF SlotsOK
    <3>3. defaults' = IF c THEN [D EXCEPT !.scopedSize = IF @ = 0 THEN z ELSE @, !.scoped[t] = n, !.scopedAny = TRUE]
                      ELSE [D EXCEPT !.root[t] = n, !.any = TRUE]
      BY <2>1, <3>1 DEF SetDefault
    <3>4. [D EXCEPT !.scopedSize = IF @ = 0 THEN z ELSE @, !.scoped[t] = n, !.scopedAny = TRUE]
        = [D EXCEPT !.scopedSize = z, !.scoped[t] = n, !.scopedAny = TRUE]
      <4>1. (IF y = 0 THEN z ELSE y) = z
        BY <3>2
      <4> QED
        BY <3>1, <4>1
    <3> QED
      BY <3>1, <3>3, <3>4 DEF DefaultSet
  <2>2. CASE ClearDefault(c, t)
    BY <2>2 DEF ClearDefault, DefaultSet
  <2> QED
    BY <2>1, <2>2
<1>4. SlotsOK(defaults', interned, ctxDesc)
  <2>1. PICK D, E, ts, d : D = defaults /\ E = defaults' /\ ts = interned /\ d = ctxDesc
    OBVIOUS
  <2>2. PICK m : DefaultSet(D, t, m, E)
    BY <1>3, <2>1
  <2>3. /\ SlotsOK(D, ts, d) /\ SlotFor(ts, D.size, t) /\ d # NoDesc
        /\ D.root \in [Types -> Names] /\ D.scoped \in [Types -> Names]
    BY <1>2, <2>1
  <2>4. SlotsOK(E, ts, d)
    BY <2>2, <2>3, SlotsSet
  <2> QED
    BY <2>1, <2>4
<1> QED
  BY <1>1, <1>4 DEF SelectInv

\* Nothing being rebuilt, every part of the index is for all descriptors.
LEMMA SitedRight ==
    ASSUME NEW x, NEW os, NEW ds
    PROVE  Sited("listeners", x, os, ds) <=> Right(x, ds)
BY DEF Sited, Right

\* start() makes the slots, when there are no defaults yet.
LEMMA SlotsFresh ==
    ASSUME NEW D, NEW ts, SlotsOK(D, ts, NoDesc), NEW us, Len(us) \in Nat, NEW c, NEW z \in Nat, z <= Len(us),
           c = NoDesc => z = 0, NEW E, E = [D EXCEPT !.size = z]
    PROVE  SlotsOK(E, us, c)
<1>1. PICK y, r, a, w, s, b : D = [size |-> y, root |-> r, any |-> a, scopedSize |-> w, scoped |-> s, scopedAny |-> b]
  BY DEF SlotsOK
<1>2. /\ w = 0 /\ (\A u \in Types : r[u] # Unnamed => a /\ SlotFor(ts, 0, u))
      /\ (\A u \in Types : s[u] # Unnamed => b /\ SlotFor(ts, 0, u))
  BY <1>1 DEF SlotsOK
<1>3. \A u \in Types : r[u] = Unnamed /\ s[u] = Unnamed
  BY <1>2, SlotNone
<1>4. E = [size |-> z, root |-> r, any |-> a, scopedSize |-> w, scoped |-> s, scopedAny |-> b]
  BY <1>1
<1> QED
  BY <1>2, <1>3, <1>4 DEF SlotsOK

\* What the phases of start() make of the state they begin with.
LEMMA StartBuilt ==
    ASSUME TablesInv, InstInv, SelectInv, ctxDesc = NoDesc
    PROVE  /\ Kept(Built) /\ (Built.ok => Right(Built.ix, Built.descs) /\ Flushed(Built.ix))
           /\ MergeOK(Built, Len(descs), bindings) /\ Len(descs) \in Nat /\ (Built.ok => Len(Built.stored) = Len(bindings))
<1>1. BindsOK(bindings, lost, Len(inst)) /\ Len(inst) \in Nat
  BY InstParts
<1>2. PICK X, K : X = lost /\ K = Len(inst)
  OBVIOUS
<1>3. K \in Nat /\ BindsOK(bindings, X, K)
  BY <1>1, <1>2
<1>4. /\ pending \in Seq(Seq(Plain)) /\ (\A n \in 1..Len(bindings) : ~Rival(bindings[n].key))
      /\ Gathered(ix, descs) /\ (\A d \in 1..Len(descs) : ~Rival(descs[d]))
  BY DEF SelectInv, OfferOK, Indexed
<1>5. Kept(Built) /\ (Built.ok => Right(Built.ix, Built.descs) /\ Flushed(Built.ix))
  BY <1>3, <1>4, BuiltKept
<1>6. /\ MergeOK(Built, Len(descs), bindings) /\ Len(descs) \in Nat /\ (Built.ok => Len(Built.stored) = Len(bindings))
  BY <1>3, BuiltOK
<1> QED
  BY <1>5, <1>6

\* A start() that rejects the program keeps SelectInv: the index it leaves was told of
\* every descriptor it leaves.
LEMMA SelectRejected ==
    ASSUME TablesInv, InstInv, SelectInv, StartRejected
    PROVE  SelectInv'
<1>1. /\ ctxDesc = NoDesc /\ descs' = Built.descs /\ interned' = Built.interned /\ ix' = Built.ix
      /\ frames = <<>> /\ UNCHANGED <<pending, ctxDesc, defaults, frames, started>>
      /\ bindings' = bindings \/ bindings' = <<>>
  BY DEF StartRejected, Idle
<1>2. Kept(Built) /\ MergeOK(Built, Len(descs), bindings)
  BY <1>1, StartBuilt
<1>3. PICK b, L, B : b = Built /\ L = Len(descs) /\ B = bindings
  OBVIOUS
<1>4. b.interned \in Seq(Types)
  BY <1>2, <1>3 DEF MergeOK, TablesOK
<1>5. Len(b.interned) \in Nat
  BY <1>4
<1>6. SlotsOK(defaults', interned', ctxDesc')
  <2>1. PICK D, ts, us, z : D = defaults /\ ts = interned /\ us = b.interned /\ z = D.size
    OBVIOUS
  <2>2. SlotsOK(D, ts, NoDesc) /\ Len(us) \in Nat
    BY <1>1, <1>5, <2>1 DEF SelectInv
  <2>3. z = 0 /\ 0 <= Len(us)
    BY <2>1, <2>2 DEF SlotsOK
  <2>4. D = [D EXCEPT !.size = z]
    BY <2>1, <2>2 DEF SlotsOK
  <2>5. SlotsOK(D, us, NoDesc)
    BY <2>2, <2>3, <2>4, SlotsFresh
  <2> QED
    BY <1>1, <1>3, <2>1, <2>5
<1>7. Indexed(ctxDesc', ix', descs', frames')
  <2>1. Kept(b) /\ StageOf(frames') = "listeners"
    BY <1>1, <1>2, <1>3 DEF StageOf
  <2> QED
    BY <1>1, <1>3, <2>1 DEF Kept, Indexed
<1>8. OfferOK(pending', bindings')
  BY <1>1 DEF SelectInv, OfferOK
<1> QED
  BY <1>1, <1>6, <1>7, <1>8 DEF SelectInv

\* start() that accepts it makes the index right.
LEMMA SelectMerged ==
    ASSUME CallsInv, CallsInv', TablesInv, InstInv, SelectInv, RegistrySteps, StartMerged
    PROVE  SelectInv'
<1>1. PICK b, w : b = Built /\ w = WithContext(b)
  OBVIOUS
<1>2. /\ ctxDesc = NoDesc /\ b.ok /\ descs' = w.descs /\ interned' = w.interned /\ ix' = w.ix
      /\ ctxDesc' = Len(w.descs) /\ defaults' = [defaults EXCEPT !.size = Len(w.interned)]
      /\ frames = <<>> /\ bindings' = <<>> /\ pending' = pending
  BY <1>1 DEF StartMerged, Idle
<1>3. /\ Kept(b) /\ Right(b.ix, b.descs) /\ Flushed(b.ix)
      /\ MergeOK(b, Len(descs), bindings) /\ Len(descs) \in Nat /\ Len(b.stored) = Len(bindings)
  BY <1>1, <1>2, StartBuilt
<1>4. PICK L, B : L = Len(descs) /\ B = bindings
  OBVIOUS
<1>5. MergeOK(b, L, B) /\ L \in Nat /\ Len(b.stored) = Len(B)
  BY <1>3, <1>4
<1>6. Right(w.ix, w.descs) /\ Flushed(w.ix)
  BY <1>1, <1>3, <1>5, ContextRight
<1>7. PICK M : Completes(b, L, B, w, M)
  BY <1>1, <1>5, WithContextOK
<1>8. w.interned \in Seq(Types) /\ Len(w.descs) \in Nat
  BY <1>7 DEF Completes, TablesOK
<1>9. Len(w.interned) \in Nat /\ ctxDesc' # NoDesc
  BY <1>2, <1>8, LifecycleConstants
<1>10. StagesOK(frames') /\ StageOf(frames') = "listeners"
  <2>1. frames' = frames \/ (NoneStaged(frames) /\ NoneStaged(frames')) \/ BindStep \/ \E k : BindLate(k)
    BY StepStages DEF SelectInv
  <2>2. ~BindStep /\ ~\E k : BindLate(k)
    BY <1>2 DEF BindStep, BindLate, StartMerged
  <2>3. NoneStaged(frames')
    BY <1>2, <2>1, <2>2 DEF NoneStaged
  <2> QED
    BY <2>3, NoneOf DEF CallsInv
<1>11. Indexed(ctxDesc', ix', descs', frames')
  BY <1>2, <1>6, <1>9, <1>10, SitedRight DEF Indexed
<1>12. SlotsOK(defaults', interned', ctxDesc')
  <2>1. PICK D, ts, us, z, c, E : D = defaults /\ ts = interned /\ us = w.interned /\ z = Len(us) /\ c = ctxDesc' /\ E = defaults'
    OBVIOUS
  <2>2. SlotsOK(D, ts, NoDesc) /\ z \in Nat /\ z <= z /\ c # NoDesc /\ E = [D EXCEPT !.size = z] /\ z <= Len(us) /\ Len(us) \in Nat
    BY <1>2, <1>9, <2>1 DEF SelectInv
  <2>3. SlotsOK(E, us, c)
    BY <2>2, SlotsFresh
  <2> QED
    BY <1>2, <2>1, <2>3
<1>13. OfferOK(pending', bindings')
  BY <1>2 DEF SelectInv, OfferOK
<1> QED
  BY <1>9, <1>10, <1>11, <1>12, <1>13 DEF SelectInv

\* The descriptors before an appended one.
LEMMA OldAppend ==
    ASSUME NEW ds, IsSeq(ds), NEW e, NEW es, es = Append(ds, e)
    PROVE  Old(es) = ds
<1>1. /\ IsSeq(es) /\ Len(es) = Len(ds) + 1 /\ Len(ds) \in Nat
      /\ \A n \in 1..Len(ds) : es[n] = ds[n]
  BY AppendFacts, SeqFacts
<1>2. es # <<>> /\ Len(es) - 1 = Len(ds)
  BY <1>1, SeqFacts
<1>3. /\ IsSeq(Old(es)) /\ Len(Old(es)) = Len(ds)
      /\ \A n \in 1..Len(ds) : Old(es)[n] = es[n]
  BY <1>1, <1>2, PrefixFacts DEF Old
<1>4. PICK o : o = Old(es)
  OBVIOUS
<1>5. o = [n \in 1..Len(ds) |-> o[n]] /\ ds = [n \in 1..Len(ds) |-> ds[n]]
  BY <1>3, <1>4, SeqFacts
<1>6. \A n \in 1..Len(ds) : o[n] = ds[n]
  BY <1>1, <1>3, <1>4
<1>7. [n \in 1..Len(ds) |-> o[n]] = [n \in 1..Len(ds) |-> ds[n]]
  BY <1>6
<1> QED
  BY <1>4, <1>5, <1>7

\* The last descriptor is one more than those before it.
LEMMA OldGoes ==
    ASSUME NEW ds, IsSeq(ds), Len(ds) # 0, Ranked(ds)
    PROVE  Goes(Old(ds), ds[Len(ds)], ds) /\ Ranked(Old(ds))
<1>1. Len(ds) \in Nat /\ ds # <<>>
  BY SeqFacts
<1>2. /\ Len(Old(ds)) = Len(ds) - 1 /\ \A n \in 1..(Len(ds) - 1) : Old(ds)[n] = ds[n]
  BY <1>1, PrefixFacts DEF Old
<1>3. PICK o, K : o = Old(ds) /\ K = Len(ds) - 1
  OBVIOUS
<1>4. K \in Nat /\ Len(ds) = K + 1 /\ Len(o) = K /\ \A n \in 1..K : o[n] = ds[n] /\ n \in 1..Len(ds)
  BY <1>1, <1>2, <1>3
<1>5. Goes(o, ds[Len(ds)], ds)
  BY <1>4 DEF Goes
<1>6. Ranked(o)
  BY <1>4 DEF Ranked
<1> QED
  BY <1>3, <1>5, <1>6

\* A new TypeId takes no slot from another type.
LEMMA SlotsIntern ==
    ASSUME NEW D, NEW ts, NEW c, SlotsOK(D, ts, c), IsSeq(ts), NEW t, NEW us, us = Intern(ts, t)
    PROVE  SlotsOK(D, us, c)
<1>1. us = ts \/ us = Append(ts, t)
  BY DEF Intern
<1>2. Len(ts) \in Nat /\ Len(us) \in Nat /\ Len(ts) <= Len(us) /\ \A n \in 1..Len(ts) : us[n] = ts[n]
  <2>1. CASE us = ts
    BY <2>1, SeqFacts
  <2>2. CASE us = Append(ts, t)
    BY <2>2, SeqFacts, AppendFacts
  <2> QED
    BY <1>1, <2>1, <2>2
<1>3. D.size \in Nat /\ D.size <= Len(ts) /\ D.scopedSize \in Nat /\ D.scopedSize <= Len(ts)
  BY <1>2 DEF SlotsOK
<1>4. \A n \in Nat : n <= Len(ts) => 1..n \subseteq 1..Len(ts)
  BY <1>2
<1>5. \A n \in Nat : \A u : n <= Len(ts) /\ SlotFor(ts, n, u) => SlotFor(us, n, u)
  BY <1>2, <1>4 DEF SlotFor
<1>6. D.size <= Len(us)
  BY <1>2, <1>3
<1> QED
  BY <1>3, <1>5, <1>6 DEF SlotsOK

\* User code runs only when nothing is being rebuilt.
LEMMA UserUnstaged ==
    ASSUME CallsInv, StagesOK(frames), UserCode
    PROVE  NoneStaged(frames) /\ StageOf(frames) = "listeners"
<1>1. ASSUME frames # <<>> PROVE ~Staged(Top)
  <2>1. CallOK(Top, Len(frames), Len(frames), started)
    BY <1>1, TopFacts
  <2> QED
    BY <1>1, <2>1 DEF UserCode, CallOK, PointOK, Staged
<1> QED
  BY <1>1, Unstaged, NoneOf DEF CallsInv

\* bindSingleton after start() begins with an index for the descriptors before it.
LEMMA SelectBind ==
    ASSUME CallsInv, TablesInv, SelectInv, NEW k \in Key, ~Rival(k), BindLate(k)
    PROVE  /\ SelectInv' /\ StageOf(frames) = "listeners" /\ StageOf(frames') = "insert" /\ Old(descs') = descs
<1>1. PICK e, d, g : d = Len(descs) + 1 /\ e = BoundDesc(k, d) /\ g = Call("bind", "insert", d, <<>>)
  OBVIOUS
<1>2. /\ UserCode /\ started /\ interned' = Intern(interned, k.type) /\ descs' = Append(descs, e)
      /\ Push(g) /\ UNCHANGED <<started, pending, bindings, ix, ctxDesc, defaults>>
  BY <1>1 DEF BindLate
<1>3. Goes(descs, e, descs') /\ Len(descs) \in Nat /\ IsSeq(descs) /\ IsSeq(interned)
  BY <1>1, TablesBind, TablesLens
<1>4. Len(descs') = d /\ descs'[Len(descs')] = e /\ Old(descs') = descs
  BY <1>1, <1>2, <1>3, OldAppend DEF Goes
<1>5. NoneStaged(frames) /\ StageOf(frames) = "listeners"
  BY <1>2, UserUnstaged DEF SelectInv
<1>6. /\ Staged(g) /\ g.at = "insert" /\ g.desc = d
  BY <1>1, CallIs DEF Staged
<1>7. /\ IsSeq(frames') /\ Len(frames') = Len(frames) + 1 /\ (\A n \in 1..Len(frames) : frames'[n] = frames[n])
      /\ frames'[Len(frames) + 1] = g /\ Len(frames) \in Nat
  BY <1>2, AppendFacts, SeqFacts DEF Push, CallsInv
<1>8. frames' # <<>> /\ frames'[Len(frames')] = g /\ \A n \in 1..Len(frames') : n \in 1..Len(frames) \/ n = Len(frames')
  BY <1>7, SeqFacts
<1>9. StagesOK(frames') /\ StageOf(frames') = "insert"
  BY <1>5, <1>6, <1>7, <1>8 DEF StagesOK, StageOf, NoneStaged
<1>10. ctxDesc # NoDesc /\ Flushed(ix) /\ Right(ix, descs)
  BY <1>2, <1>5, SitedRight DEF SelectInv, Indexed
<1>11. Sited("insert", ix, descs, descs')
  BY <1>10 DEF Sited, Right
<1>12. ~Rival(e)
  BY <1>1 DEF Rival, BoundDesc
<1>13. Indexed(ctxDesc', ix', descs', frames')
  BY <1>2, <1>4, <1>6, <1>8, <1>9, <1>10, <1>11, <1>12 DEF Indexed
<1>14. SlotsOK(defaults', interned', ctxDesc')
  <2>1. PICK D, ts, us, c : D = defaults /\ ts = interned /\ us = interned' /\ c = ctxDesc
    OBVIOUS
  <2>2. SlotsOK(D, ts, c) /\ IsSeq(ts) /\ us = Intern(ts, k.type)
    BY <1>2, <1>3, <2>1 DEF SelectInv
  <2>3. SlotsOK(D, us, c)
    BY <2>2, SlotsIntern
  <2> QED
    BY <1>2, <2>1, <2>3
<1> QED
  BY <1>2, <1>4, <1>5, <1>9, <1>10, <1>13, <1>14 DEF SelectInv

\* What the bindSingleton in progress works on.
LEMMA BindingIs ==
    ASSUME CallsInv, TablesInv, FramesInv, SelectInv, StageOf(frames) # "listeners"
    PROVE  /\ Binds(Old(descs), descs, ix) /\ frames # <<>> /\ Staged(Top) /\ Top.at = StageOf(frames) /\ Top.desc = Len(descs)
           /\ Top.at \in {"insert", "flush", "order", "singles", "heads", "ties"}
           /\ Sited(Top.at, ix, Old(descs), descs) /\ ~Rival(descs[Len(descs)]) /\ ctxDesc # NoDesc
<1>1. frames # <<>> /\ Staged(frames[Len(frames)]) /\ StageOf(frames) = frames[Len(frames)].at
  BY DEF StageOf
<1>2. Top = frames[Len(frames)] /\ CallOK(Top, Len(frames), Len(frames), started) /\ Len(frames) \in 1..Len(frames)
  BY <1>1, TopFacts
<1>3. started /\ Top.at \in {"insert", "flush", "order", "singles", "heads", "ties"}
  BY <1>1, <1>2 DEF CallOK, PointOK, Ending, Staged
<1>4. ctxDesc # NoDesc /\ Flushed(ix) /\ Sited(Top.at, ix, Old(descs), descs) /\ Top.desc = Len(descs) /\ ~Rival(descs[Len(descs)])
  BY <1>1, <1>2, <1>3 DEF SelectInv, Indexed
<1>5. Len(descs) \in 1..Len(descs) /\ Len(descs) \in Nat
  BY <1>1, <1>2, <1>4, TablesLens DEF FramesInv, FramesAll, FrameOK, Staged
<1>6. descs[Len(descs)].type \in Types /\ descs[Len(descs)].name \in Names
  BY <1>5, DescsIn DEF TablesInv, TablesOK
<1>7. Len(descs) # 0 /\ IsSeq(descs) /\ Ranked(descs) /\ ix \in Index(Len(descs))
  BY <1>5, TablesLens
<1>8. Goes(Old(descs), descs[Len(descs)], descs) /\ Ranked(Old(descs))
  BY <1>7, OldGoes
<1>9. Binds(Old(descs), descs, ix)
  BY <1>4, <1>6, <1>7, <1>8 DEF Binds
<1> QED
  BY <1>1, <1>2, <1>3, <1>4, <1>9

\* The stages, one after the other.
Follows(a, b) ==
    \/ a = "insert" /\ b = "flush"
    \/ a = "flush" /\ b = "order"
    \/ a = "order" /\ b = "singles"
    \/ a = "singles" /\ b = "heads"
    \/ a = "heads" /\ b = "ties"
    \/ a = "ties" /\ b = "listeners"

\* Every step of a bind does one stage and goes to the next.
LEMMA StagesFollow ==
    ASSUME BindStep
    PROVE  \E b : Follows(Top.at, b) /\ Goto([Top EXCEPT !.at = b]) /\ ix' = Rebuilt(Top.at, Top.desc)
<1>1. PICK n \in 1..(Len(Stages) - 1) :
         Top.at = Stages[n] /\ ix' = Rebuilt(Top.at, Top.desc) /\ Goto([Top EXCEPT !.at = Stages[n + 1]])
  BY DEF BindStep
<1>2. Len(Stages) = 7
  BY DEF Stages
<1>3. n \in {1, 2, 3, 4, 5, 6}
  BY <1>2
<1>a. /\ Stages[1] = "insert" /\ Stages[2] = "flush" /\ Stages[3] = "order" /\ Stages[4] = "singles"
      /\ Stages[5] = "heads" /\ Stages[6] = "ties" /\ Stages[7] = "listeners"
  BY DEF Stages
<1>4. Follows(Stages[n], Stages[n + 1])
  <2>1. CASE n = 1
    <3>1. n + 1 = 2
      BY <2>1
    <3> QED
      BY <1>a, <2>1, <3>1 DEF Follows
  <2>2. CASE n = 2
    <3>1. n + 1 = 3
      BY <2>2
    <3> QED
      BY <1>a, <2>2, <3>1 DEF Follows
  <2>3. CASE n = 3
    <3>1. n + 1 = 4
      BY <2>3
    <3> QED
      BY <1>a, <2>3, <3>1 DEF Follows
  <2>4. CASE n = 4
    <3>1. n + 1 = 5
      BY <2>4
    <3> QED
      BY <1>a, <2>4, <3>1 DEF Follows
  <2>5. CASE n = 5
    <3>1. n + 1 = 6
      BY <2>5
    <3> QED
      BY <1>a, <2>5, <3>1 DEF Follows
  <2>6. CASE n = 6
    <3>1. n + 1 = 7
      BY <2>6
    <3> QED
      BY <1>a, <2>6, <3>1 DEF Follows
  <2> QED
    BY <1>3, <2>1, <2>2, <2>3, <2>4, <2>5, <2>6
<1>5. PICK b : b = Stages[n + 1]
  OBVIOUS
<1> QED
  BY <1>1, <1>4, <1>5

\* Each stage keeps SelectInv.
LEMMA SelectRebuild ==
    ASSUME CallsInv, TablesInv, FramesInv, SelectInv, BindStep
    PROVE  SelectInv'
<1>1. PICK b : Follows(Top.at, b) /\ Goto([Top EXCEPT !.at = b]) /\ ix' = Rebuilt(Top.at, Top.desc)
  BY StagesFollow
<1>2. /\ frames # <<>> /\ Top.op = "bind"
      /\ UNCHANGED <<started, pending, bindings, interned, descs, ctxDesc, defaults>>
  BY DEF BindStep
<1>3. /\ Len(frames) \in Nat \ {0} /\ Top = frames[Len(frames)] /\ IsCall(Top) /\ Staged(Top)
  BY <1>1, <1>2, TopFacts DEF CallOK, Follows, Staged
<1>4. StageOf(frames) # "listeners"
  BY <1>2, <1>3 DEF StageOf, Staged
<1>5. /\ Binds(Old(descs), descs, ix) /\ Top.desc = Len(descs)
      /\ Sited(Top.at, ix, Old(descs), descs) /\ ~Rival(descs[Len(descs)]) /\ ctxDesc # NoDesc
  BY <1>4, BindingIs
<1>6. PICK os, ds, x, y, a : os = Old(descs) /\ ds = descs /\ x = ix /\ y = ix' /\ a = Top.at
  OBVIOUS
<1>7. Binds(os, ds, x) /\ Sited(a, x, os, ds) /\ Follows(a, b) /\ Prio = PrioOf(ds) /\ ds[Len(ds)].type \in Types
  BY <1>1, <1>5, <1>6, TablesLens DEF Binds
<1>8. Sited(b, y, os, ds) /\ Flushed(y)
  <2>1. CASE a = "insert" /\ b = "flush"
    <3>1. y = InsertCandidate(x, ds[Len(ds)].type, ds[Len(ds)].name, Len(ds))
      BY <1>1, <1>5, <1>6, <2>1 DEF Rebuilt
    <3> QED
      BY <1>7, <2>1, <3>1, StageInsert
  <2>2. CASE a = "flush" /\ b = "order"
    <3>1. y = Flush(x)
      BY <1>1, <1>5, <1>6, <2>2 DEF Rebuilt
    <3> QED
      BY <1>7, <2>2, <3>1, StageFlush
  <2>3. CASE a = "order" /\ b = "singles"
    <3>1. y = Order(x, PrioOf(ds))
      BY <1>1, <1>5, <1>6, <1>7, <2>3 DEF Rebuilt
    <3> QED
      BY <1>7, <2>3, <3>1, StageOrder
  <2>4. CASE a = "singles" /\ b = "heads"
    <3>1. y = FindSingles(x)
      BY <1>1, <1>5, <1>6, <2>4 DEF Rebuilt
    <3> QED
      BY <1>7, <2>4, <3>1, StageSingles
  <2>5. CASE a = "heads" /\ b = "ties"
    <3>1. y = FindHeads(x)
      BY <1>1, <1>5, <1>6, <2>5 DEF Rebuilt
    <3> QED
      BY <1>7, <2>5, <3>1, StageHeads
  <2>6. CASE a = "ties" /\ b = "listeners"
    <3>1. y = UpdateSingleUnnamed(FindTies(x, PrioOf(ds)), ds[Len(ds)].type)
      BY <1>1, <1>5, <1>6, <1>7, <2>6 DEF Rebuilt
    <3> QED
      BY <1>7, <2>6, <3>1, StageTies
  <2> QED
    BY <1>7, <2>1, <2>2, <2>3, <2>4, <2>5, <2>6 DEF Follows
<1>9. PICK g : g = [Top EXCEPT !.at = b]
  OBVIOUS
<1>10. g.at = b /\ g.desc = Top.desc /\ g.op = "bind"
  BY <1>2, <1>3, <1>9, CallAt DEF SetAt
<1>11. /\ Len(frames') = Len(frames) /\ \A n \in 1..Len(frames) : frames'[n] = IF n = Len(frames) THEN g ELSE frames[n]
  BY <1>1, <1>2, <1>9, GotoIs
<1>12. IsSeq(frames')
  <2>1. Changed(frames, Len(frames), g, frames') /\ IsSeq(frames) /\ Len(frames) \in 1..Len(frames)
    BY <1>1, <1>2, <1>9, TopFacts DEF Changed, Goto, CallsInv
  <2> QED
    BY <2>1, ExceptFacts
<1>13. frames' # <<>> /\ frames'[Len(frames')] = g
  <2>1. Len(frames) \in 1..Len(frames) /\ Len(frames) # 0
    BY <1>3
  <2> QED
    BY <1>11, <1>12, <2>1, SeqFacts
<1>14. StagesOK(frames')
  BY <1>11 DEF SelectInv, StagesOK
<1>15. StageOf(frames') = b
  BY <1>10, <1>13 DEF StageOf, Staged
<1>16. Indexed(ctxDesc', ix', descs', frames')
  BY <1>2, <1>5, <1>6, <1>8, <1>10, <1>13, <1>15 DEF Indexed
<1> QED
  BY <1>2, <1>14, <1>16 DEF SelectInv

\* Every step of the registry keeps SelectInv.
LEMMA SelectNext ==
    ASSUME ContextUnrivalled, CallsInv, CallsInv', LifeInv, SelectInv, RegistrySteps \/ Stopped
    PROVE  SelectInv'
<1>1. TablesInv /\ InstInv /\ FramesInv
  BY DEF LifeInv
<1>2. CASE BindStep
  BY <1>1, <1>2, SelectRebuild
<1>3. CASE Still /\ ~BindStep
  BY <1>1, <1>3, SelectStill
<1>4. CASE (\E s \in Seq(Plain) : Discover(s)) \/ (\E k \in Key : ~Rival(k) /\ BindEarly(k))
  <2>1. IsSeq(bindings)
    <3>1. PICK S : S = [key : Key, inst : 1..Len(inst)]
      OBVIOUS
    <3>2. bindings \in Seq(S)
      BY <1>1, <3>1, InstParts DEF BindsOK
    <3> QED
      BY <3>2 DEF IsSeq
  <2> QED
    BY <1>1, <1>4, <2>1, SelectOffer
<1>5. CASE \E k \in Key : ~Rival(k) /\ BindLate(k)
  BY <1>1, <1>5, SelectBind
<1>6. CASE StartRejected
  BY <1>1, <1>6, SelectRejected
<1>7. CASE StartMerged
  <2>1. RegistrySteps
    BY <1>7 DEF RegistrySteps, Others
  <2> QED
    BY <1>1, <1>7, <2>1, SelectMerged
<1>8. CASE \E c \in BOOLEAN, t \in Types, n \in Names : SetDefault(c, t, n) \/ ClearDefault(c, t)
  BY <1>1, <1>8, SelectDefault
<1> QED
  BY <1>2, <1>3, <1>4, <1>5, <1>6, <1>7, <1>8, SelectKinds

\* What resolve() reads of the index of a started context, while another thread is at
\* any stage of a bind or at none.
LEMMA ReadsGood ==
    ASSUME CallsInv, TablesInv, FramesInv, SelectInv, started, NEW t \in Types, NEW n \in Names, NEW S,
           Best(descs, t, n) \in S, StageOf(frames) # "listeners" => Best(Old(descs), t, n) \in S,
           NEW e, e = ix.entries[t][n]
    PROVE  /\ n = Unnamed /\ ix.single[t] # NoDesc => ix.single[t] \in S
           /\ e.head # NoDesc => e.head \in S \/ Ambiguous \in S
           /\ e.head = NoDesc => FromCandidates(e.candidates, Prio) \in S
           /\ e.ambiguous => Ambiguous \in S
<1>1. PICK os, ds, x : os = Old(descs) /\ ds = descs /\ x = ix
  OBVIOUS
<1>2. Prio = PrioOf(ds) /\ Ranked(ds) /\ e = x.entries[t][n] /\ Best(ds, t, n) \in S
  BY <1>1, TablesLens
<1>3. CASE StageOf(frames) # "listeners"
  <2>1. /\ Binds(os, ds, x) /\ ~Rival(ds[Len(ds)]) /\ Sited(Top.at, x, os, ds)
        /\ Top.at \in {"insert", "flush", "order", "singles", "heads", "ties"}
    BY <1>1, <1>3, BindingIs
  <2>2. PICK B, a : B = {Best(ds, t, n), Best(os, t, n)} /\ a = Top.at
    OBVIOUS
  <2>3. B \subseteq S
    BY <1>1, <1>2, <1>3, <2>2
  <2>4. Reading(os, ds, x, a, t, n, e, B)
    BY <1>2, <2>1, <2>2 DEF Reading
  <2>5. /\ n = Unnamed /\ x.single[t] # NoDesc => x.single[t] \in B
        /\ e.head # NoDesc => e.head \in B \/ Ambiguous \in B
        /\ e.head = NoDesc => FromCandidates(e.candidates, PrioOf(ds)) \in B
        /\ e.ambiguous => Ambiguous \in B
    BY <2>4, ReadsSited
  <2> QED
    BY <1>1, <1>2, <2>3, <2>5
<1>4. CASE StageOf(frames) = "listeners"
  <2>1. Right(x, ds)
    BY <1>1, <1>4, SitedRight DEF SelectInv, Indexed
  <2>2. FromCandidates(x.entries[t][n].candidates, PrioOf(ds)) = Best(ds, t, n)
    BY <1>2, <2>1, LookupRight
  <2>3. x.single[t] # NoDesc => x.single[t] = Best(ds, t, Unnamed)
    BY <2>1 DEF Right, SinglesOf
  <2>4. e.head # NoDesc => e.head \in TopsOf(ds, t, n)
    BY <1>2, <2>1 DEF Right, HeadsOf, HeadOK
  <2>5. e.head # NoDesc /\ Best(ds, t, n) # Ambiguous => Best(ds, t, n) = e.head
    BY <1>2, <2>4, TopIsBest
  <2>6. e.ambiguous <=> Best(ds, t, n) = Ambiguous
    BY <1>2, <2>1 DEF Right, FlagsOf
  <2> QED
    BY <1>1, <1>2, <2>2, <2>3, <2>5, <2>6
<1> QED
  BY <1>3, <1>4

\* The shortcuts of the defaults find the scope's default, else the root's.
LEMMA DefaultsRight ==
    ASSUME SlotsOK(defaults, interned, ctxDesc), NEW scoped, NEW t \in Types
    PROVE  EffectiveName(scoped, t) = DefaultName(scoped, t)
<1>1. TableDefault(defaults.size, defaults.root, t) = defaults.root[t]
  BY DEF TableDefault, SlotsOK, SlotFor
<1>2. TableDefault(defaults.scopedSize, defaults.scoped, t) = defaults.scoped[t]
  BY DEF TableDefault, SlotsOK, SlotFor
<1>3. defaults.root[t] # Unnamed => defaults.any
  BY DEF SlotsOK
<1>4. defaults.scoped[t] # Unnamed => defaults.scopedAny
  BY DEF SlotsOK
<1> QED
  BY <1>1, <1>2, <1>3, <1>4 DEF EffectiveName, DefaultName

\* SelectInv says what SelectionIsBest states.
LEMMA SelectedBest ==
    ASSUME CallsInv, TablesInv, SelectInv
    PROVE  SelectionIsBest
<1> SUFFICES ASSUME started, ~Binding, NEW t \in Types
             PROVE  /\ \A n \in Names :
                        /\ Lookup(ix, Prio, t, n) = Best(descs, t, n)
                        /\ InjectParam([type |-> t, name |-> n, scoped |-> TRUE]) = Best(descs, t, n)
                    /\ \A scoped \in BOOLEAN : Request(scoped, t, Unnamed) = Best(descs, t, DefaultName(scoped, t))
  BY DEF SelectionIsBest
<1>1. StageOf(frames) = "listeners"
  <2>1. NoneStaged(frames)
    BY DEF Binding, NoneStaged, Staged, Depth
  <2> QED
    BY <2>1, NoneOf DEF CallsInv
<1>2. Right(ix, descs) /\ Ranked(descs) /\ Prio = PrioOf(descs)
  BY <1>1, SitedRight, TablesLens DEF SelectInv, Indexed
<1>3. ASSUME NEW n \in Names
      PROVE  /\ Lookup(ix, Prio, t, n) = Best(descs, t, n)
             /\ FromCandidates(ix.entries[t][n].candidates, Prio) = Best(descs, t, n)
  BY <1>2, LookupRight
<1>4. ASSUME NEW n \in Names
      PROVE  InjectParam([type |-> t, name |-> n, scoped |-> TRUE]) = Best(descs, t, n)
  BY <1>3 DEF InjectParam
<1>5. ASSUME NEW scoped \in BOOLEAN
      PROVE  Request(scoped, t, Unnamed) = Best(descs, t, DefaultName(scoped, t))
  <2>1. EffectiveName(scoped, t) = DefaultName(scoped, t)
    BY DefaultsRight DEF SelectInv
  <2>2. EffectiveName(scoped, t) \in Names
    BY EffectiveNameIn
  <2> QED
    BY <1>3, <2>1, <2>2 DEF Request
<1> QED
  BY <1>3, <1>4, <1>5

\* The other thread's resolve(): it was told of every best one of its time, and what it
\* has in hand is one of them, unless there was a tie.
SeenAll(l, ds, F) ==
    l.at # "idle" =>
        /\ Best(ds, l.type, l.name) \in l.seen
        /\ StageOf(F) # "listeners" => Best(Old(ds), l.type, l.name) \in l.seen
        /\ l.at \in {"flag", "find", "done"} => l.desc \in l.seen \/ Ambiguous \in l.seen

SeenInv == SeenAll(look, descs, frames)

\* It begins with the best one, and with the one before the bind in progress.
LEMMA SeenBegins ==
    ASSUME CallsInv, SelectInv, NEW t, NEW n, LookBegin(t, n)
    PROVE  SeenInv'
<1>1. PICK m : m = IF n = Unnamed THEN EffectiveName(FALSE, t) ELSE n
  OBVIOUS
<1>2. /\ UNCHANGED <<descs, frames>>
      /\ look' = [at |-> "single", type |-> t, name |-> m, desc |-> NoDesc, found |-> None,
                  seen |-> {Best(descs, t, m), Best(Settled, t, m)}]
  BY <1>1 DEF LookBegin, registry
<1>3. StageOf(frames) # "listeners" => Settled = Old(descs)
  <2>1. ASSUME StageOf(frames) # "listeners" PROVE \E k \in 1..Depth : frames[k].op = "bind" /\ frames[k].at # "listeners"
    <3>1. frames # <<>> /\ Staged(frames[Len(frames)])
      BY <2>1 DEF StageOf
    <3>2. Len(frames) \in 1..Depth
      BY <3>1, TopFacts
    <3> QED
      BY <3>1, <3>2 DEF Staged
  <2> QED
    BY <2>1 DEF Settled, Old
<1> QED
  BY <1>2, <1>3 DEF SeenInv, SeenAll

\* Each of its reads keeps that.
LEMMA SeenReads ==
    ASSUME CallsInv, TablesInv, FramesInv, LookInv, SelectInv, SeenInv, LookSteps
    PROVE  SeenInv'
<1>1. UNCHANGED <<descs, frames>>
  BY DEF LookSteps, LookSingle, LookEntry, LookFlag, LookFind, LookDone, registry
<1>2. CASE LookDone
  <2>1. look'.at = "idle"
    BY <1>2 DEF LookDone
  <2> QED
    BY <2>1 DEF SeenInv, SeenAll
<1>3. CASE ~LookDone
  <2>1. look.at # "idle"
    BY <1>3 DEF LookSteps, LookSingle, LookEntry, LookFlag, LookFind
  <2>2. started /\ IsLook(look) /\ look.type \in Types /\ look.name \in Names
    BY <2>1 DEF LookInv, LookOK
  <2>3. PICK a, t, n, d, f, S : look = [at |-> a, type |-> t, name |-> n, desc |-> d, found |-> f, seen |-> S]
    BY <2>2 DEF IsLook
  <2>4. /\ t \in Types /\ n \in Names /\ look.at = a /\ look.type = t /\ look.name = n /\ look.desc = d /\ look.seen = S
    BY <2>2, <2>3
  <2>5. /\ Best(descs, t, n) \in S /\ (StageOf(frames) # "listeners" => Best(Old(descs), t, n) \in S)
        /\ a \in {"flag", "find", "done"} => d \in S \/ Ambiguous \in S
    BY <2>1, <2>4 DEF SeenInv, SeenAll
  <2>6. PICK e : e = ix.entries[t][n]
    OBVIOUS
  <2>7. /\ n = Unnamed /\ ix.single[t] # NoDesc => ix.single[t] \in S
        /\ e.head # NoDesc => e.head \in S \/ Ambiguous \in S
        /\ e.head = NoDesc => FromCandidates(e.candidates, Prio) \in S
        /\ e.ambiguous => Ambiguous \in S
    BY <2>2, <2>4, <2>5, <2>6, ReadsGood
  <2>8. \E b, c, g : /\ look' = [at |-> b, type |-> t, name |-> n, desc |-> c, found |-> g, seen |-> S]
                     /\ b \in {"flag", "find", "done"} => c \in S \/ Ambiguous \in S
    <3>1. CASE LookSingle
      BY <2>3, <2>4, <2>7, <3>1 DEF LookSingle
    <3>2. CASE LookEntry
      <4>1. PICK c, b : /\ c = (IF e.head # NoDesc THEN e.head ELSE FromEntry(e, Prio))
                        /\ b = IF e.head # NoDesc THEN "flag" ELSE IF c \in {NoDesc, Ambiguous} THEN "done" ELSE "find"
        OBVIOUS
      <4>2. look' = [look EXCEPT !.desc = c, !.at = b]
        BY <2>4, <2>6, <3>2, <4>1 DEF LookEntry
      <4>3. look' = [at |-> b, type |-> t, name |-> n, desc |-> c, found |-> f, seen |-> S]
        BY <2>3, <4>2
      <4>4. c \in S \/ Ambiguous \in S
        BY <2>7, <4>1 DEF FromEntry
      <4> QED
        BY <4>3, <4>4
    <3>3. CASE LookFlag
      BY <2>3, <2>4, <2>5, <2>6, <2>7, <3>3 DEF LookFlag
    <3>4. CASE LookFind
      BY <2>3, <2>4, <2>5, <3>4 DEF LookFind
    <3> QED
      BY <1>3, <3>1, <3>2, <3>3, <3>4 DEF LookSteps
  <2>9. PICK b, c, g : /\ look' = [at |-> b, type |-> t, name |-> n, desc |-> c, found |-> g, seen |-> S]
                       /\ b \in {"flag", "find", "done"} => c \in S \/ Ambiguous \in S
    BY <2>8
  <2>10. /\ look'.at = b /\ look'.type = t /\ look'.name = n /\ look'.desc = c /\ look'.seen = S
    BY <2>9
  <2> QED
    BY <1>1, <2>5, <2>9, <2>10 DEF SeenInv, SeenAll
<1> QED
  BY <1>2, <1>3

\* The steps of the other thread's resolve(); a bindSingleton after start().
LookMoves == (\E t, n : LookBegin(t, n)) \/ LookSteps
LateBind == \E k : BindLate(k)

\* Every other step of the registry leaves it.
LEMMA LookLeft ==
    ASSUME RegistrySteps \/ Stopped
    PROVE  look' = look \/ LookMoves \/ LateBind
<1>1. CASE Claims
  BY <1>1 DEF Claims, EagerClaim, ResolveClaim
<1>2. CASE StopSweeps \/ DestroyRegistry \/ Stopped
  BY <1>2 DEF StopSweeps, DestroyRegistry, Stopped
<1>3. CASE Others
  <2>1. CASE (\E s \in cat.spans : Discover(s)) \/ (\E k \in cat.binds : BindEarly(k)) \/ StartRejected \/ StartMerged \/ StartAgain
    BY <2>1 DEF Discover, BindEarly, StartRejected, StartMerged, StartAgain
  <2>2. CASE ContextAnnounced \/ BoundAnnounced \/ EagerFound \/ StartDone
    BY <2>2 DEF ContextAnnounced, BoundAnnounced, EagerFound, StartDone
  <2>3. CASE \E q \in cat.asks : ResolveFound(q.type, q.name) \/ ResolveUnbuilt(q.type, q.name)
    BY <2>3 DEF ResolveFound, ResolveUnbuilt
  <2>4. CASE Made \/ MadeReturns \/ MakeThrows \/ StartThrows \/ Stop \/ ExitUnstopped
    BY <2>4 DEF Made, MadeReturns, MakeThrows, StartThrows, Stop, ExitUnstopped
  <2>5. CASE DestroyNext \/ ReleaseAll \/ BindStep \/ BindDone
    BY <2>5 DEF DestroyNext, ReleaseAll, BindStep, BindDone
  <2>6. CASE \E q \in cat.defaults, scoped \in BOOLEAN : SetDefault(scoped, q.type, q.name) \/ ClearDefault(scoped, q.type)
    BY <2>6 DEF SetDefault, ClearDefault
  <2> QED
    BY <1>3, <2>1, <2>2, <2>3, <2>4, <2>5, <2>6 DEF Others, LookSteps, LookMoves, LateBind
<1>4. Claims \/ Others \/ (StopSweeps \/ DestroyRegistry \/ Stopped)
  BY DEF RegistrySteps
<1> QED
  BY <1>1, <1>2, <1>3, <1>4

\* A bind that begins meanwhile makes another best one, which it is told of.
LEMMA SeenBind ==
    ASSUME CallsInv, TablesInv, LookInv, SelectInv, SeenInv, NEW k \in Key, ~Rival(k), BindLate(k)
    PROVE  SeenInv'
<1>1. StageOf(frames') = "insert" /\ Old(descs') = descs
  BY SelectBind
<1>2. CASE Quiet
  BY <1>2 DEF BindLate, Quiet, SeenInv, SeenAll
<1>3. CASE ~Quiet
  <2>1. look.at # "idle" /\ IsLook(look)
    BY <1>3 DEF Quiet, LookInv, LookOK
  <2>2. PICK S : S = look.seen \union {Best(descs', look.type, look.name)}
    OBVIOUS
  <2>3. look' = [look EXCEPT !.seen = S]
    BY <1>3, <2>2 DEF BindLate
  <2>4. /\ look'.at = look.at /\ look'.type = look.type /\ look'.name = look.name /\ look'.desc = look.desc /\ look'.seen = S
    BY <2>1, <2>3 DEF IsLook
  <2> QED
    BY <1>1, <2>1, <2>2, <2>4 DEF SeenInv, SeenAll
<1> QED
  BY <1>2, <1>3

\* Every step of the registry keeps SeenInv.
LEMMA SeenNext ==
    ASSUME ContextUnrivalled, CallsInv, LifeInv, SelectInv, SeenInv, RegistrySteps \/ Stopped
    PROVE  SeenInv'
<1>1. TablesInv /\ FramesInv /\ LookInv
  BY DEF LifeInv
<1>2. CASE LookMoves
  BY <1>1, <1>2, SeenBegins, SeenReads DEF LookMoves
<1>3. CASE \E k \in Key : ~Rival(k) /\ BindLate(k)
  BY <1>1, <1>3, SeenBind
<1>4. CASE StartRejected \/ StartMerged
  <2>1. look' = look /\ ~started
    BY <1>4 DEF StartRejected, StartMerged
  <2>2. look'.at = "idle"
    BY <1>1, <2>1 DEF LookInv
  <2> QED
    BY <2>2 DEF SeenInv, SeenAll
<1>5. CASE ~LookMoves /\ ~LateBind /\ descs' = descs
  <2>1. look' = look
    BY <1>5, LookLeft
  <2>2. StageOf(frames') # "listeners" => StageOf(frames) # "listeners"
    <3>1. \/ frames' = frames \/ BindStep \/ (NoneStaged(frames) /\ NoneStaged(frames'))
      BY <1>5, StepStages DEF SelectInv, LateBind
    <3>2. CASE BindStep
      <4>1. /\ frames # <<>> /\ Top.op = "bind" /\ Top = frames[Len(frames)]
        BY <3>2, TopFacts DEF BindStep
      <4>2. PICK b : Follows(Top.at, b)
        BY <3>2, StagesFollow
      <4> QED
        BY <4>1, <4>2 DEF Follows, StageOf, Staged
    <3>3. CASE NoneStaged(frames')
      <4>1. IsSeq(frames')
        BY CallsStep DEF CallsInv
      <4> QED
        BY <3>3, <4>1, NoneOf
    <3> QED
      BY <3>1, <3>2, <3>3
  <2> QED
    BY <1>5, <2>1, <2>2 DEF SeenInv, SeenAll
<1>6. \/ (\E k \in Key : ~Rival(k) /\ BindLate(k)) \/ StartRejected \/ StartMerged \/ descs' = descs
  BY SelectKinds DEF Discover, BindEarly, BindStep, SetDefault, ClearDefault, Still, registry
<1>7. ASSUME NEW k, BindLate(k), descs' = descs PROVE FALSE
  <2>1. PICK e : descs' = Append(descs, e)
    BY <1>7 DEF BindLate
  <2>2. Len(descs') = Len(descs) + 1 /\ descs' = descs /\ Len(descs) \in Nat
    BY <1>1, <1>7, <2>1, TablesLens, AppendFacts
  <2> QED
    BY <2>2
<1> QED
  BY <1>2, <1>3, <1>4, <1>5, <1>6, <1>7 DEF LateBind

\* SelectInv and SeenInv do not read what the threads keep.
LEMMA SelectSame ==
    ASSUME SelectInv, SeenInv, UNCHANGED vars
    PROVE  SelectInv' /\ SeenInv'
BY DEF SelectInv, SeenInv, vars, registry

\* The initial states satisfy both.
LEMMA SelectInit ==
    ASSUME Init
    PROVE  SelectInv /\ SeenInv
<1>1. /\ started = FALSE /\ pending = <<>> /\ bindings = <<>> /\ interned = <<>> /\ descs = <<>> /\ ix = EmptyIndex
      /\ ctxDesc = NoDesc /\ frames = <<>> /\ look.at = "idle"
      /\ defaults = [size |-> 0, root |-> [t \in Types |-> Unnamed], any |-> FALSE,
                     scopedSize |-> 0, scoped |-> [t \in Types |-> Unnamed], scopedAny |-> FALSE]
  BY DEF Init
<1>2. Len(descs) = 0 /\ Len(frames) = 0 /\ Len(bindings) = 0 /\ Len(interned) = 0
  BY <1>1
<1>3. StagesOK(frames) /\ StageOf(frames) = "listeners"
  BY <1>1, <1>2 DEF StagesOK, StageOf
<1>4. OfferOK(pending, bindings)
  <2>1. PICK S : S = Seq(Plain)
    OBVIOUS
  <2>2. <<>> \in Seq(S)
    OBVIOUS
  <2> QED
    BY <1>1, <1>2, <2>1, <2>2 DEF OfferOK
<1>5. Gathered(ix, descs)
  <2>1. ASSUME NEW t \in Types, NEW n \in Names, NEW d
        PROVE  Holds(ix.entries[t][n].candidates, d) \/ Holds(ix.pending[t][n], d) <=> d \in OwnOf(descs, t, n)
    <3>1. ix.entries[t][n].candidates = <<>> /\ ix.pending[t][n] = <<>>
      BY <1>1 DEF EmptyIndex, NoEntry
    <3>2. OwnOf(descs, t, n) = {}
      BY <1>2 DEF OwnOf
    <3> QED
      BY <3>1, <3>2, HoldsNone
  <2> QED
    BY <2>1 DEF Gathered
<1>6. Indexed(ctxDesc, ix, descs, frames)
  BY <1>1, <1>2, <1>3, <1>5 DEF Indexed
<1>7. SlotsOK(defaults, interned, ctxDesc)
  BY <1>1, <1>2 DEF SlotsOK
<1> QED
  BY <1>1, <1>3, <1>4, <1>6, <1>7 DEF SelectInv, SeenInv, SeenAll

\* The index, the defaults and the other thread's resolve() stay right at all times, if
\* no bean of the program has the key of the context's own.
THEOREM SelectHolds ==
    ASSUME ContextUnrivalled
    PROVE  Spec => [](CallsInv /\ LifeInv /\ SelectInv /\ SeenInv)
<1>1. ContainerInit => CallsInv /\ LifeInv /\ SelectInv /\ SeenInv
  BY LocalsStart, LifeInit, SelectInit DEF ContainerInit
<1>2. CallsInv /\ LifeInv /\ SelectInv /\ SeenInv /\ [Next]_allVars => (CallsInv /\ LifeInv /\ SelectInv /\ SeenInv)'
  <2> SUFFICES ASSUME CallsInv, LifeInv, SelectInv, SeenInv, [Next]_allVars
               PROVE  CallsInv' /\ LifeInv' /\ SelectInv' /\ SeenInv'
    OBVIOUS
  <2>1. CASE Next
    <3>1. CallsInv' /\ LifeInv'
      BY <2>1, CallsNext, LifeNext
    <3>2. RegistrySteps \/ Stopped \/ UNCHANGED vars
      BY <2>1 DEF Next, RegistrySteps, ClaimByOwner, OwnerAlone, StopCollects, RegistryEnds, StopReturns,
         SweepStep, ClaimByOther, OtherThread, TouchLocal
    <3> QED
      BY <3>1, <3>2, SelectNext, SeenNext, SelectSame
  <2>2. CASE UNCHANGED allVars
    <3>1. UNCHANGED vars /\ UNCHANGED <<frames, phase, started, cat>>
      BY <2>2 DEF allVars, vars
    <3> QED
      BY <3>1, LifeSame, CallsSame, SelectSame
  <2> QED
    BY <2>1, <2>2
<1> QED
  BY <1>1, <1>2, PTL DEF Spec

\* Once a context is started, and between two runtime bindings, every lookup (by the
\* single unnamed candidate, the precomputed head, the flag of a tie, the candidates
\* themselves, and by a default name) finds the descriptor of highest priority, whatever
\* was discovered and bound, and in which order.
THEOREM SelectionAlwaysBest ==
    ASSUME ContextUnrivalled
    PROVE  Spec => []SelectionIsBest
<1>1. CallsInv /\ LifeInv /\ SelectInv /\ SeenInv => SelectionIsBest
  BY SelectedBest DEF LifeInv
<1>2. Spec => [](CallsInv /\ LifeInv /\ SelectInv /\ SeenInv)
  BY SelectHolds
<1> QED
  BY <1>1, <1>2, PTL

\* A resolve() that reads the index beside a bindSingleton, between any two of its
\* writes, selects what was best at some moment of its own, unless two were tied.
THEOREM InFlightAlwaysBest ==
    ASSUME ContextUnrivalled
    PROVE  Spec => []InFlightIsBest
<1>1. CallsInv /\ LifeInv /\ SelectInv /\ SeenInv => InFlightIsBest
  BY DEF SeenInv, SeenAll, InFlightIsBest
<1>2. Spec => [](CallsInv /\ LifeInv /\ SelectInv /\ SeenInv)
  BY SelectHolds
<1> QED
  BY <1>1, <1>2, PTL
=============================================================================
