# A TLA+ model of ctorium

ctorium is a dependency-injection container for C++26. Descriptors of beans are
generated during compilation; at run time a `BeanContext` merges them, selects a
bean for a type and a name, creates it lazily from any thread, runs hooks and
listeners, and destroys what it created. This directory models the run-time part.
Paths below are relative to `src/include/internal/detail/` unless they start with
another directory.

## 1. Inventory

| Component | State | Operations | What makes it correct |
|---|---|---|---|
| **Materialization** `RegistryResolutionImpl.hpp` 190-670, `RegistryScopedRuntimeImpl.hpp` 51-187, `CycleGuard` in `Registry.hpp` | `materializing_`, wait slots, `cv_`, the thread-local stack, the singleton and session stores | resolve, claim or wait, construct, abandon, store, notify, hooks | a shared bean is built once; a cycle is reported, never published and never a deadlock; a waiter always wakes |
| **Prototype store and handles** `PrototypeStore.hpp`, `TreiberFreelist.hpp`, `HandleInlineImpl.hpp` | slots with memory, count and generation; freelist; live-slot count | allocate, activate, reclaim, acquire, release, sweep, delete itself | a handle keeps its instance alive; every instance dies once; the freelist is a partition; the store outlives its last handle and no longer |
| **Listener store** `ListenerStore.hpp`, `TreiberFreelist.hpp`, `api/ctr/ListenerHandle.hpp`, `on`/`flush` in `ContextLifecycleImpl.hpp` | master lists, copy-on-write view, hazard slots, retired views, deferred listeners | on, remove, flush, clear, dispatch | no two threads share a hazard slot; no view is freed under a dispatch; who is registered hears the event, in order, once; who was removed does not |
| **Registry lifecycle** `Registry.hpp` 274-640, `RegistryStartupImpl.hpp`, `RegistryRuntimeCoreImpl.hpp`, `BeanContext::start/stop` | phase flags, pending descriptors, merged tables, runtime-bound instances | merge phases of start, eager creation, rollback, stop | a failed start destroys what it made, once; destruction is in reverse order |
| **Scopes and session beans** `ContextLifecycleImpl.hpp` 170-267, `SessionStore.hpp`, `RegistryScopedRuntimeImpl.hpp` 250-340 | scope state, session array, insertion order, retired memory, pending bindings | start, stop, restart, bindSession, resolve through a proxy | a session bean lives exactly as long as its run of the scope; memory of a restarted scope is freed once |
| **Thread-local beans** `ThreadLocalStore.hpp`, `RegistryThreadLocalImpl.hpp` | a store per thread and registry, the registry's list of threads | materialize, thread exit, sweep of stop | each thread has its own instance, destroyed by whichever of thread exit and stop comes first |
| **Singleton store** `SingletonStore.hpp` | base pointer, size, frozen snapshot, insertion order | store, growAndStore, find, freeze | a lock-free find returns null or the instance that was stored |
| **Runtime bindings** `BindReflectiveImpl.hpp` | appended descriptors, candidate lists | bindSingleton, bindSession | a binding conflicts with an existing candidate or becomes visible whole |
| **Resolution tables** `TypeIndex.hpp`, `DefaultsTable.hpp`, `NameInterning.hpp`, `TypeInterning.hpp`, `DescriptorTable.hpp`, `RegistryResolutionImpl.hpp` 31-151 | candidate lists by type, precomputed heads, defaults | resolve by type, name and priority | the shortcuts give what the full selection gives |
| **Context table, casts** | a map under a mutex; lookups | resolveContext, exact/compatible/cast | not modelled |
| **Compile-time reflection** | none at run time | generates descriptors and thunks | not modelled |

How they interact. `resolve()` selects a descriptor in the tables and hands it to
materialization, which calls user constructors outside the lock; those call
`resolve()` again. A created instance goes to the singleton, session or prototype
store; hooks and listener callbacks run after that, outside the lock, and may
resolve, register listeners or bind. Handles (`Bean<T>`, `AnyBean`) outlive calls,
and prototype handles outlive the registry. `stop()` sweeps the stores while
destructors release handles back into them.

What is hard. All threads share `materializing_`, one condition variable and the
wait edges; the freelist, the reference counts and the listener view are lock-free;
user code runs re-entrantly at every point where the container calls out; exceptions
can leave any of those points; hooks run after publication; destruction of beans
that own handles re-enters the store that is being swept. `PROJECT.json` lists these
hazards at their lines.

## 2. The modules

### SharedBeans, Materialization, MCMaterialization

`SharedBeans` is what `resolve()` promises: a shared bean comes into being once and
after the beans injected in it, a call is answered with an existing bean, and refused
only if something reachable from it can fail. `Materialization` is the protocol that
implements it.

| Model | Code |
|---|---|
| a key | `MaterializationKey` (descriptor and scope) of one registry |
| `frames[t]`, `exc[t]` | the C++ call stack of thread t inside `materializeOneImpl` / `materializeSessionInstance`, and the exception that unwinds it |
| `stack[t]` | `materializationStack()`, thread-local and common to all registries |
| `owner`, `waits` | `materializing_` and the active wait slots |
| `stored` | what `singletons_.find` / `sessionStore_.find` would return |
| `FindHit`, `FindMiss` | the lock-free fast path |
| `ClaimFound/Own/Wait/Cycle` | one iteration of `claimMaterializationOrWait` under `writeLock_` |
| `WaitCycleDetected` | `materializationWaitCycleDetected`, with its limit on the walk |
| `ConstructDep`, `Constructed`, `ConstructorThrows`, `Abandon`, `NotifyAbandoned` | phase 2 and its catch block; erasing and notifying are two steps, as in the code |
| `Store`, `Notify`, `HookDep`, `HooksThrow`, `HooksLeft`, `HooksDone` | phase 3 and what follows it outside the lock |
| `Prototype*` | the `CycleGuard` branch |

User code is `Deps`, `PostDeps`, `Throwing` and `PostThrowing`: what constructors and
hooks resolve and whether they may throw. A session bean is a key like any other; the
scope is assumed to be running. `built` counts instances and only the properties read it.

### PrototypeStore

Every atomic operation of the freelist, of a count and of the live-slot count is a step.
`PopLoad`, `PopNext`, `PopCas` are `popTreiberFreelist`, `PushLoad`, `PushLink`, `PushCas`
its counterpart; `Grow` and `LimitReached` the path that makes a new slot; `Resolve`,
`ConstructMember`, `Constructed`, `ConstructorThrows`, `Unwind`, `Activate`, `HooksDone`,
`HooksThrow` the creation of a prototype (with `OwnAlloc`, the descriptors that construct
before they take a slot); `Copy`, `Drop`, `ReleaseAcquire`, `ReleaseLast`, `TakeSlotMeta`,
`Bump` the handles; `Stop`, `Sweep`, `DestroyRegistry`, `ReleaseLiveSlot`, `CheckLive`,
`DeleteIfDead` the end of the store. An instance of a `Holder` kind owns a handle to
another prototype, so creating and destroying it nests frames. `generation` is the
generation in the freelist word; `frees`, `lost` and `destroyed` are history.

### HazardSlots, ListenerStore, MCListenerStore

`HazardSlots` is how a thread gets the slot in which it announces the view it reads, and how it gives it
back when it ends. Every load and every compare-and-swap on the freelist is a step: `LoadHead`,
`LoadNext`, `PopSlot` are `popTreiberFreelist` (whose swap writes generation 0), `NewSlot` and
`PublishSlotCount` the path without a free slot, `ReleaseSlot`, `LinkSlot`, `PushSlot` the release. `slot`
is the thread's token, `stage`, `seen` and `link` are the locals of a call in progress,
`freeHead`, `nextFree` and `generation` the list, `nextSlot` and `published` the two counts.

`ListenerStore` extends it: its steps `AcquireSlot`, `ThreadExit` and `RecycleSlot` are those of
`HazardSlots`. `entries` is the master list of one phase, `views`/`cur`/`retired`/`freed` the
copy-on-write views, `hazard` what the slots name.
A registration (`On`, `Remove`, `Start`, `Clear`) takes `mutex_`, edits the list, publishes a view
(`RebuildView`, `Unpublish`) and, for each retired view, loads the number of slots once (`LoadCount`)
and looks at them one by one (`ScanSlot`, `FreeView`) before `Unlock`. A dispatch takes a slot, protects
the view (`LoadView`, `Protect`, `Recheck`), calls back (`CallNext`, `CallbackReturns`,
`CallbackThrows`) and leaves; without a free slot it runs under the mutex
(`DispatchLocked`). `OnDeferred`, `AddListenerDeferred`, `FinalizeListeners` are `on<T>`
before start and the flush at start: every context has its own list, the root's is flushed
first and the scopes' in any order (`NextDeferred`). Callbacks are arbitrary: they register, remove,
dispatch (by resolving) or throw.

### Scopes, MCScopes

One thread drives the scopes, as the guides require of `stop()`; the difficulty is
re-entrance. `frames` holds the calls in progress; a frame at `"callback"` runs hooks and
listeners, which may resolve, bind, start, stop or restart other scopes, throw or return.
`Throwing` names the beans and bindings whose user code may throw; the exception leaves the
constructors that wait for it (`Raise`) and is caught by some callback below or by nobody.

| Model | Code |
|---|---|
| `state`, `pending` | `scopeState_`, `pendingRuntimeSessions_` |
| `array`, `order`, `retired` | `instancesBase_` with its size, `insertionOrder_`, `retiredBlocks_` of `SessionStore` |
| `slots`, `bound` | `Descriptor::sessionSlot`, and the descriptors `bindSession` made |
| `inst[i].life` | `made`, `destroyed` (block kept), `freed`; `corrupt` after a second destruction or deallocation |
| `RootStart` | phase 4 of `Registry::start`, which numbers the session slots |
| `BindQueued`, `BindRunning` | `bindSession` in a scope that is not running, and in one that is |
| `Resolve`, `ConstructDep`, `Constructed`, `ConstructorThrows`, `CreationCallback*` | `proxyResolve_`, `resolve` and `materializeSessionInstance` |
| `ScopeStart`, `StartStores`, `StartCallback*`, `StartDone` | `ScopedContext::start` and its loop over the queued bindings |
| `ScopeStop`, `Restart`, `Sweep`, `SweepDestroys`, `StopDone`, `RestartDone` | `stop`, `restart` and `Registry::stopScope` without and with deferred deallocation |
| `RootStop`, `RootStopsScope`, `RootStopDone` | `BeanContext::stop`, `~ScopedContext`, `~SessionStore` |

Assumed of the program: `start`, `stop` and `restart` of a scope are not called from
callbacks of that scope's own operations, nor of the root's stop. Calls that the code
refuses (a duplicate binding, a stopped scope, a start while stopping) change nothing and
are no steps. A listener that binds in the scope that is being started makes the vector
grow under its iteration, which is undefined; the model takes the outcome in which the
loop ends where it would have, and `lost` names the instances that `clear()` then drops.

### TypeIndex, Lifecycle, ThreadLocal, Container, MCContainer

`TypeIndex` has the candidate tables as values and no state: `InsertCandidate`, the stages of
`SortAllCandidates` in the order of their writes, the lookups, and `Best`, what a lookup
should find. `Lifecycle` is the registry of one root context, `ThreadLocal` the thread-local
beans of its threads, and `Container` composes them: a step is one of the registry's, one of
a thread's, or one of both (a claim, the sweep of `stop()`).

| Model | Code |
|---|---|
| `pending`, `bindings` | `pending_`, `pendingRuntimeSingletons_` |
| `interned`, `descs`, `ix`, `ctxDesc` | `typeInterning_`, `descriptors_`, `typeIndex_`, `beanContextDescId_` |
| `store` | `SingletonStore`: the array of `resize()`, the one `growAndStore()` put in its place, `insertionOrder_` |
| `defaults` | `defaults_`, the `scopedDefaults_` of a scope, their sizes and "any" flags |
| `frames` | the owning thread's calls: start, make (a singleton), bind, stop, rollback, exit |
| `look` | a `resolve()` of another thread, one read of the tables per step |
| `Discover`, `BindEarly`, `BindLate`, `BindStep`, `BindDone` | `submitContribution`, `bindSingleton` before and after start; also before it is a call from the destruction callbacks of `stop()`, of a rollback and of `~Registry` |
| `Merged`, `Adopted`, `Linked`, `Sorted`, `Validated`, `WithContext` | phases 1, 1.5, 2-2.5, 3, 3.5-3.75, 4 of `Registry::start` |
| `StartRejected`, `StartMerged`, `StartAgain` | a phase throws; it does not; the short path after a start that threw later |
| `ContextAnnounced`, `BoundAnnounced`, `Eager*`, `StartDone` | the rest of `BeanContext::start` |
| `Request`, `InjectParam`, `Resolve*`, `Made*`, `MakeThrows` | `resolve`, the injection of a parameter, creation of a singleton |
| `StartThrows`, `Stop`, `ExitUnstopped`, `DestroyNext`, `ReleaseAll`, `StopSweeps`, `Stopped`, `DestroyRegistry` | `rollbackFailedStart`, `stop`, `~Registry` and `stopRegistryOwnedBeans` |
| `thread[t].made` | the thread's `TLData` and `TLCleanup`, in the order of their first use |
| `order`, `stores`, `registered` | a thread's instances, `tlThreadStores_`, `TLCleanup::registered` |
| `token`, `free`, `next` | the tokens of the wait graph |
| `Touch`, `TouchThrows`, `HookTouches` | `materializeThreadLocalInstance`, from `resolve` or a handle |
| `Exit*`, `Sweep` | `~TLCleanup`, `~TLData`, `cleanupCurrentThread`, the second half of `Registry::stop` |

A program is a catalog: what it may discover, bind, ask for and look up, its defaults, whether
its user code throws, its threads. Nothing fixes the order, which is the model checker's.
Assumed of the program is "Start before use, stop after use" (guide-03:214-216): other
threads call the context only while its owner is in no `start()` or `stop()`; they may exit
at any time. How threads race for one singleton is `Materialization`'s; here a second
thread's claim only leaves its traces in `TLCleanup`.

## 3. The runs

| Run | Instance | What it shows |
|---|---|---|
| `materialization_dag` | 2 threads, 2 calls each; `a` needs `b` and prototype `p`, both need `c`; the hook of `b` resolves `c`; the constructor of `c` and the hook of `b` may throw | one instance per bean, claims match constructions, the stack mirrors the frames, dependencies stored first, no false cycle, every call ends, and the refinement of `SharedBeans` |
| `materialization_ring` | 3 threads, 1 call each, on the ring `a → b → p → c → a` | no circle of waiting threads, no member of the ring is published |
| `prototype_store` | 2 threads of which one resolves, 3 kinds, 2 slots, 4 instances, 1 handle per thread and instance | slots partitioned, counts exact, handles lead to live instances, destroyed once, store deleted once and last, and eventually |
| `freelist_aba` (violated) | two threads resolve | finding 2 |
| `listener_store` | 2 threads, 3 listeners, 2 scopes, 1 hazard slot, 1 event per thread | view lives as long as its dispatch, retired views bounded, delivery, order of the list (a listener that `on<T>` deferred stands behind what was inserted before the flush), no blocking |
| `nested_dispatch` (violated) | one thread, a callback that dispatches | finding 3 |
| `deferred_removal` (violated) | one thread | finding 4 |
| `registration_order` (violated) | one thread, `on<T>` and `on` before start, equal priorities | finding 11 |
| `hazard_aba` (violated) | `HazardSlots` alone: 3 threads, 2 slots, a slot returned at most 3 times | finding 12 |
| `scopes` | 2 scopes; `doc`, and `history` with `doc` injected; one bind key; the user code of `doc` and of bindings may throw; 4 instances, calls nested 3 deep | a proxy leads to a live instance of its scope or to none, every instance is accounted for and destroyed and freed once, none outlives its run of the scope, injected beans outlive their holders, memory of a restart is kept until it is replaced |
| `container` | six programs (tables and an alias, defaults, a tie, rejected contributions, eager beans that throw, two worker threads with two thread-local beans); 2 contributions, 4 singletons, 3 thread-local instances, 2 failed starts, calls nested 3 deep | lookups select the best candidate, also beside a bind; what is found is live; every instance is held in one place and destroyed once, after its users; a start that returns has made its eager beans; a thread finds its own instance, exit and `stop()` destroy each listed one once; tokens are distinct |
| `stop_sweep` (violated) | the program with threads | finding 6 |

Six more configurations are kept beside the runs; each is checked with `tlc -config <file> <module>`.

| Configuration | Module | Result |
|---|---|---|
| `MaterializationIsolation.cfg` | `MCMaterialization` | two contexts whose beans have equal descriptor ids: `CycleErrorsAreReal` is violated, finding 1 |
| `ScopeBinding.cfg` | `MCScopes` | two scopes and one bind key: `BoundIsResolvable` is violated, finding 5 |
| `ScopedDefault.cfg` | `MCContainer` | a default and a `scoped{}` parameter: `ScopedFollowsDefault` is violated, finding 13 |
| `SweepRead.cfg` | `MCContainer` | a worker whose thread-local constructor throws: `SweepReadsLive` is violated, finding 14 |
| `HazardSlots.cfg` | `HazardSlots` | 4 threads, 3 slots, `CalmSpec` (nobody gives a slot back while another is inside a pop): `SlotsExclusive` and `SlotsRecycled` hold, 461,218 states |
| `FlushOrder.cfg` | `MCListenerStore` | 5 listeners, the deferred lists of two contexts: `HeardInOrder` holds, 263,566 states |

Bounds. `MaxCalls = 2` lets a thread retry after a failure it or its peer caused and
resolve what the other made. Two threads are enough for every race on one key; the
circle of waiting threads needs three threads to exercise a walk of more than one edge
and a limit that is exact. `MaxSlots = 2` reaches the limit of the store and a freelist of
two, `MaxInst = 4` lets a slot be used again. One hazard slot for two threads exercises
both the hazard and the locked path and the return of a slot at thread exit; with one slot the
freelist is right however threads come and go (proved, section 4), which is why what
`listener_store` shows of a dispatch does not depend on finding 12. Several slots are `HazardSlots`' own
instances, where `MaxReturns` bounds how often a slot is given back; three returns of two slots are the least
that show the finding with three threads. One event
per thread suffices because a dispatch keeps no state but its slot; registrations are
bounded by the number of listeners. Four instances are a binding and a bean with its holder
in one cycle and one more in the next; depth 3 is a callback inside a callback of another
scope. Every `start()` that throws leaves an entry in `insertionOrder_`, so the number of
such failures is bounded by `MaxOrder`; one failure followed by a start that succeeds
already gives the sweep a descriptor twice. In `container` two contributions are enough for a
duplicate, a conflict and a missing link; four singletons are a start that failed after one and
one that made three; two failed starts are one by the short path after another; three
thread-local instances are one thread's two and another's, or a hook's; the two workers are
interchangeable (`SYMMETRY`).

Fairness. `WF_vars(Step(t))` and `WF_vars(Continue(t))`: a thread inside a call of the
library that can run is eventually run, which any scheduler the code is written for
provides. Nobody is obliged to call resolve, to drop a handle or to stop; a notification
the code does not send is not assumed (spurious wakeups happen but are not fair). User
code inside a call is assumed to return or throw.

`CHECK_DEADLOCK FALSE` in the store and container runs: a program that makes no more calls stops.
`Materialization` and `Scopes` check for deadlock, their ends are explicit (`AllDone`, `Gone`).

## 4. Proofs

A proof holds for every value of the constants that satisfies the named assumption of its
module. Those about `Materialization` hold for every set of threads and keys, every dependency
graph and every choice of throwing constructors and hooks, from `ConstantsOK` (the constants have their
types, the "no thread", "no key" values are not threads or keys, and a program has finitely many
beans, without which the size of `materializing_` would mean nothing).

`MaterializationProofs`. `AtMostOneInstance` is not inductive: that a thread about to
count an instance is the only one needs the claims. `IInv == TypeOK /\ Shape /\ Claims` is:

* `Shape`: only the innermost frame of a thread stands at a point where its own code
  runs; those below stand in a constructor or a hook, which is where they called from;
* `HeldIsOwned`, `HeldOnce`, `OwnedIsHeld`: `materializing_` and the frames that hold a
  claim are in bijection;
* `BuiltCount`: a key has an instance exactly if it is stored or its claim has reached
  the store.

The steps fall into those that change no claim (`QuietSteps`, `ClaimsQuiet`) and the four
that do (`ClaimOwn`, `Constructed`, `Abandon`, `Store`). From `Inductive` follow
`TypeCorrect`, `BuiltOnce` (`AtMostOneInstance`) and `ClaimsCorrect` (`ClaimsMatchFrames`).

Its second part is about order. `OrderInv` says that a frame called the frame above it for
its next dependency (`Linked`), that the dependencies before `next` are stored or
prototypes (`ResolvedIn`), and hence that a frame past its constructor has all of them.
`DependenciesFirst` follows. For cycles `CycleInv` says that no frame of a bean that
reaches a cycle of constructors gets past its constructor: its next cyclic dependency
would have had to return before. `CyclesNeverPublished` follows, for every race.

Its third part adds two layers above `IInv`:

* `CallInv`: a call was made by the constructor or hook of the call below it (`Chained`), an
  active wait slot names the key of its thread's innermost call (`WaitSlots`), and
  `StackMirrorsFrames` itself, in which increasing positions say which call pushed which entry.
  `StackCorrect` follows.
* `CauseInv`: every exception in flight and every failed outcome has a cause that the calls it
  passes through can reach: a cycle, or a constructor or hook that may throw. A cycle error of
  the stack is a path of calls back to the same bean; one of the wait edges is a ring made of
  the paths of several threads, each from a bean it constructs to the one it waits for.

Two hypotheses are not assumptions of the module but are named in the theorems that need them.
`DescsDiffer` (no two beans share a descriptor) is what `MaterializationIsolation.cfg` (finding 1)
shows to be necessary; with it `CyclesAreReal` and `SharedBeansImplemented` hold. The latter is
the refinement: the initial state maps to the initial state of `SharedBeans`, and each action is
one of its steps or changes nothing it sees. `SingleRegistry` (all keys belong to one registry) is
needed by `NoDeadlock`, because the code looks at the wait edges of one registry only.
`NoWaitCycle` is inductive above `IInv` and `CallInv`. Suppose a wait closes a ring and the walk does
not meet the caller. Then every step of the walk leads to another waiting thread of the ring, never
twice to the same one, for those in between would have been a ring before. So it meets one thread
more than `materializing_` has entries, while each of them owns an entry of its own, which the
pigeonhole principle excludes (`ClosingWalk`, `ClosingDistinct`, `ClosingDetected`). The
walk is a recursive function; that it exists is proved with the least number at which it
would not (`WalkExists`), and its equations follow (`WalkIs`).

`PrototypeCallProofs` and `PrototypeStoreProofs`, from `StoreConstants`, for any finite set of
threads, any kinds, slots, instances, handles and depth of calls. All theorems have the hypothesis
`OneAllocator`: at most one thread takes slots, while any number of them give slots back, copy,
drop and sweep. `freelist_aba` (finding 2) is the counterexample without it. The inductive
invariant is `IInv == Shape /\ Ids /\ Partition /\ Pushing /\ RefcountIsHandles /\ LiveCount /\ End`:

* `Shape`: types, and which call of a thread may stand below which;
* `Ids`: which instance each call is about, that a slot's memory and the slot of an instance agree,
  that an instance no call has begun is untouched, and `DestroyedOnce`;
* `Partition`: the freelist is a finite list without repetition, and a slot is on it, in the hands of
  one call or counted, only one of the three. `SlotsPartitioned` alone is not inductive: the
  compare-and-swap of a pop uses a `next` read before. What keeps it right is that the slot the pop
  read stays on the list with the same successor, for others only push on top (`OneAllocator`);
* `Pushing`: a slot about to be pushed is linked to the head its compare-and-swap expects;
* `LiveCount`: the count of live slots is the number of slots in use and of calls that have not yet
  counted theirs out; `End`: when the registry is dead and the count zero, either the store is
  deleted and nobody is in a call, or one thread, alone, is about to find out.

`PrototypeCallProofs` turns each action into what it does to the set of calls and to the sets
that are counted; the cardinalities are compared by bijections and removals there and nowhere else.
From `Inductive` follow `StoreTyped`, `StorePartitioned`, `StoreCounted`, `StoreHeld`,
`StoreDestroysOnce` and `StoreDeletedLast`, one for each safety property of the run.

`ContainerProofs`, from `ContainerConstants`. `TokensDistinct` is inductive once the tokens in
use and those in the free list are known to be at most `next` (`TokenInv`): a fresh token is
then nobody's. `StepTokens` shows that of all the steps of the registry and the threads only a
claim and the end of `~TLCleanup` touch tokens; `TokenTaken` and `TokenReturned` are the two
cases. `TokensNeverShared` follows for every set of threads.

`LocalsAreOwn` and `LocalsDestroyedOnce` need more: who may destroy an instance depends on what
the owner is doing. `CallsInv` says which call stands below which (a call is inside user code of the one
below, and only the outermost one starts, stops or ends the context), hence that the main thread has a list of
instances to destroy only while `stop()` sweeps. `LocalInv`, inductive above it, says that the instances of a
thread are its own, live and once in its list (`OrderOwn`), that those waiting for destruction are
in one list once and in no thread's own (`TodoOwn`), at which point of its exit a thread has which
lists (`ThreadsOK`, `ExitsOK`), and that an instance of a listed thread is in one of them
(`ListedKept`). The sweep concatenates the lists of all threads; what `FlattenSeq` gives is shown
with the least prefix for which it would not (`LeastElement`), as the library's induction rules
cannot be instantiated. Assumed is that the owner of the context is not one of the threads that exit.

`LifecycleTableProofs` and `LifecycleProofs`, from `LifecycleConstants`, for any types, names,
catalogs (what is discovered, bound, asked for, injected, thrown), numbers of calls, instances and
failed starts. The first module is about values: the candidate tables stay well formed under each
stage of the sort, `ByPriority` is a sort, and the folds of `start()` over contributions
and bindings (`Merged`, `Adopted`, recursive functions whose equations are shown with
`LeastElement`) take a well formed merge to a well formed one. The second has the inductive invariant
`LifeInv == TablesInv /\ InstInv /\ FramesInv /\ UpInv /\ LookInv`, kept above `CallsInv`
(`LifeHolds`; TLC first checked it on the run's instance):

* `TablesInv`: ids in the tables are ids of descriptors, and a primary descriptor is its own primary;
* `InstInv`: every live instance is in the store or in the queue of bindings and in no other place; the
  order of construction is an order by age; an instance uses older ones. While
  `stopRegistryOwnedBeans` is at work this is about what it has still to destroy, a suffix that is
  closed under "is used by", and this is why reverse order of construction respects injection although
  constructors resolve, bind and throw at will;
* `FramesInv`: a constructor in progress is for a bean that is not in the store, no bean has two, the
  beans it was given are live, and an eager bean is still before `start()` or already made. Without it a bean could
  be stored over one that its own constructor had resolved;
* `UpInv`: what a started context has, unless some `start()` threw (finding 8); `LookInv`: the
  other thread's `resolve()` stands at a bean that exists and, when it reports one, found what the
  store holds.

`UsesAlwaysOutlive`, `InstancesAccounted`, `FoundAlwaysLive` and `EagerAlwaysMade` follow.
`ContainerTyped` adds the bounds, which are inductive only if a constructor in progress is
counted as the instance it will make (`BoundsInv`), and that no descriptor is twice in the order
of construction and no type twice interned.

Which candidate a lookup selects is the last part of `LifecycleProofs`. `SelectInv`, inductive above
`LifeInv`, says that the candidate lists hold exactly the descriptors of their key, sorted
by priority, with the heads and flags that belong to them, except behind the stage that a bind in
progress has reached, where they are still those without its descriptor; `SeenInv` says the same of what the other
thread's lookup has read so far. `SelectionAlwaysBest` and `InFlightAlwaysBest` follow. Both have the
hypothesis `ContextUnrivalled`: no program discovers or binds a second unnamed candidate of the type `BeanContext`.
`bindSingleton<BeanContext>` is refused (`BindReflectiveImpl.hpp:69-72`), but a bean publicly derived from
`BeanContext` would get an alias descriptor of that type (`DescriptorBuilderGen.hpp:256`); the
context's own descriptor is appended after the heads were computed, and with a rival the head would be
stale. `MCContainer` assumes it of its programs (`Unrivalled`).

`ListenerStoreProofs`, from `ListenerConstants` and `SlotConstants`, for any threads, listeners, scopes,
number of hazard slots and depth of nested dispatches. It begins with the slots by themselves:

* `SlotsKnown` (a slot that is owned or may be found on the freelist was given out, and is published
  unless its owner is about to do so) is kept by every step.
* That a slot has one owner is not: finding 12. `FreelistExact` (the freelist from its head is exactly what nobody
  has, and a pop in progress expects a head that is current or a slot that is no longer free)
  is kept while `Calm` holds, that is while no thread gives a slot back when another is between the load
  and the swap of a pop; `OneSlot` is kept without that if the table has one slot. `SlotsStayExclusive` is
  `SlotSpec /\ [](NumSlots <= 1 \/ Calm) => []SlotsExclusive`, `SlotsNeverLost` has `SlotsRecycled`
  under `[]Calm`, and `StoreUsesSlots` (`Spec => SlotSpec`) carries both to the store.

Three layers of the store follow:

* `Structure` (type, the points at which frames stand, who holds `mutex_`, which views are current,
  retired or freed) is inductive on its own (`StructureHolds`); the other layers take it for granted.
  It says nothing of who owns a slot. `TypeCorrect` follows.
* `Protection`: from `recheck` on the slot of a dispatch names its view, and a scan that looks
  at this view has not passed the slot. `ViewOutlivesDispatch` alone is not inductive: a view
  is freed long after the scan looked at the slot. The layer needs that slots have one owner and `Unnested`,
  that no callback dispatches in turn: `UnnestedDispatchSafe` is
  `Spec /\ []SlotsExclusive /\ []Unnested => []ViewOutlivesDispatch`. `ViewsProtected` derives both from
  `MaxDepth = 1` and `[](NumSlots <= 1 \/ Calm)`. The runs `nested_dispatch` (finding 3) and `hazard_aba`
  (finding 12) show what happens without either, so no hypothesis can be dropped.
* `Retention`: every retired view but the one under the scan is named by a slot, or loaded by
  the owner of a slot that is about to name it. Two functions from slots to views say which, so
  the cardinality in `RetiredBounded` is a bound on an image (`RetiredViewsBounded`, under
  `[]SlotsExclusive`).

The second part of the module adds three layers above `Structure`, for any depth of nesting: `Listing`
(the master list, the deferred listeners and all views are in order and without repetition, the
position that `insertSorted_` finds being the least one that fits), `Hearing` (a dispatch has
heard what its view holds before its index) and `Delivery` (a listener due to a dispatch is in
its view, or in what it is about to load, unless it was removed). `EventsInOrder` and
`EventsDelivered` follow. The order is that of the list: priority, then registration, except
that a deferred listener stands behind what was inserted before the flush (finding 11); the
deferred listeners of one context keep their own order.

`ScopesProofs`, from `ScopeConstants`, for any scopes, session beans,
injections (cyclic ones too), bindings, throwing user code and depth of callbacks. The
assumptions name what the model's encoding needs: a descriptor is discovered once
(`IsInjective`), discovered beans are not numbers (which stand for bound descriptors), `None`
is nothing else. The inductive invariant is `Inv == Shape /\ Ledger /\ Arranged /\ Calls`:

* `Shape`: slots are numbered injectively and arrays are no longer than the numbering; the
  scope of every call is in the state the call needs; no other call in progress is in the scope
  of a `start()`, `stop()` or `restart()`; constructors in progress are of different beans.
  The first part of the module proves it kept, and turns each action into what it does to `Find`, so that
  slot numbers and array lengths do not occur afterwards.
* `Ledger`: an instance is in the place its life says: `made` in its slot, queued or lost;
  `destroyed` in the retired blocks; and what is found, queued or retired is an instance in that
  life. This alone gives `HandlesLeadToLive`, `NoneForgotten`, `NoneOutlives` and
  `NoneDestroyedTwice`, but it is not inductive: the end of `stop()` drops the array, which
  forgets nothing only because the sweep has emptied it.
* `Arranged`: the insertion order of a scope names everything stored; in a running scope each
  bean is in it once and behind the beans injected in it. In a stopped scope it may hold what a
  failed `start()` left (a binding, several times), never a bean.
* `Calls`: a sweep still has before it every stored descriptor, in an order with that property;
  a constructor in progress finds its own bean absent, so no second one has overtaken it.

`DependenciesOutlive` needs the last two: construction order is carried from constructors
through callbacks that resolve, bind and throw, into the insertion order and to the sweep.
`RetiredKept` is the action property `KeptUntilReplaced`, from the same invariant.

What the provers cannot do here, and stays with TLC: liveness (`EveryCallEnds`, `StoreGoes`);
`ENABLED` (`CallsGoOn`); what a recursive definition computes (induction over data; where the
argument only needs the least element of a set of numbers, `LeastElement` gives it, from the
library's theorem on well-founded relations).

## 5. Findings

1. `materializationStack()` is shared by all registries, so a constructor that resolves a
   bean of another context with the same descriptor index gets a false "dependency cycle"
   (`Registry.hpp:1383`, against guide-12:72-74).
2. The freelist is not ABA-safe: `reclaim()` keeps the generation and the pop writes
   generation zero (`PrototypeStore.hpp:140`, `TreiberFreelist.hpp:32`, against
   `PrototypeStore.hpp:31`). This is why `prototype_store` has one resolving thread.
3. The dispatch inside a callback empties the hazard slot of the outer dispatch, whose
   view may then be freed (`ListenerStore.hpp:254`, against `ListenerStore.hpp:43`). This is
   why `listener_store` has `MaxDepth = 1`.
4. A listener registered with `on<T>` and removed before `start()` is called after all
   (`ListenerStore.hpp:294`, against `api/ctr/ListenerHandle.hpp:71`).
5. Two scopes that bind the same type before the root starts get two descriptors of equal
   priority, and resolving the type is ambiguous in both (`BindReflectiveImpl.hpp:263`,
   against guide-08:138, guide-15:48 and the comment at `BindReflectiveImpl.hpp:260`).
6. A thread that materializes a shared bean before its first thread-local one never enters
   `tlThreadStores_`, so `stop()` leaves its thread-local beans alive
   (`RegistryThreadLocalImpl.hpp:64`, against guide-12:90). `LocalsDestroyed` is therefore
   about listed threads.
7. On such a thread `TLData` is destroyed before `TLCleanup`, which then reads it
   (`ThreadLocalStore.hpp:186`, against guide-12:88): its beans are not destroyed at exit.
8. A start that throws after the merge destroys the singletons bound before it and keeps
   their descriptors; after the retry `resolve()` hands out raw memory (`Registry.hpp:278`,
   against `Registry.hpp:266-268` and the assertion at `RegistryResolutionImpl.hpp:511`).
   `Accounted`, `FoundIsLive` and `UsesOutlive` except it.
9. `bindSingleton` after start reallocates what lock-free readers read
   (`BindReflectiveImpl.hpp:152`, against guide-05:134).
10. Before start a binding that collides with a discovered bean is refused only by `start()`,
    and every later start collides too (`BindReflectiveImpl.hpp:180`, against guide-05:91-93).

11. Listeners of equal priority are not always called in the order of their registration: one that
    `on<T>` deferred is inserted by `start()`, behind global listeners registered after it, and the
    scopes' deferred lists are flushed in the order of an unordered map (`ListenerStore.hpp:174`,
    `ContextLifecycleImpl.hpp:100-112`, against guide-07:129, guide-17:33 and
    `ListenerStore.hpp:30`; the test at `contract-listeners.cpp:87` registers after start only).
12. The freelist of hazard slots is not ABA-safe either: releasing a slot bumps its generation,
    but popping the slot above it writes generation zero, so a head can come back with another
    successor and one slot goes to two threads (`TreiberFreelist.hpp:30`, against
    `TreiberFreelist.hpp:13` and `ListenerStore.hpp:43`).
13. A constructor parameter with `scoped{}` and no `named{}` ignores the default that
    `defaultNamed()` set (`DescriptorThunkGen.hpp:178-235`, against guide-04:128-130).
    `SelectionIsBest` claims the selection for such parameters only where no default is involved.
14. A thread whose first thread-local constructor throws is listed with no entries, and its exit does not
    take it off the list; `stop()` then reads the `TLData` of a thread that is gone
    (`Registry.hpp:577`, `RegistryThreadLocalImpl.hpp:19`, against guide-12:95-96).
15. A start that is rejected by its validation has already emptied the queue of bindings: the
    bound objects are never destroyed (`Registry.hpp:418`, against guide-05:202). `Accounted` of
    `Lifecycle` excepts them by name (`lost`).
16. A listener that calls `bindSession` on the scope being started changes the vector that `start()` iterates over,
    and `clear()` drops its binding undestroyed (`ContextLifecycleImpl.hpp:228`, against
    guide-07:202). `Accounted` of `Scopes` excepts it by name (`lost`).

Findings 2, 3, 4, 6, 11 and 12 have a run that TLC refutes, and 1, 5, 13 and 14 a configuration of
section 3; the others were met while modelling, and the steps that show them are named in
`PROJECT.json`.

## 6. What is abstracted

* Memory order: atomics are sequentially consistent.
* In `PrototypeStore`, a weak compare-and-swap that fails for no reason: its retry changes nothing.
* In `HazardSlots`, the loops that raise the two counts are one step each: a failed turn only reads again.
* The chunks in which slots, wait slots and hazard slots are allocated, and the mutex
  around growing them (one step).
* The temporary `AnyBean` that hooks of a prototype see: its net effect on the count is nil.
* The typed part of a listener view, which no caller fills; four phases are one.
* `~ListenerStore`; `stop()` and `~Registry` happen when no call is in progress, which is
  what the guides require of the caller.
* In `Lifecycle`: names are their own ids; ids cached at call sites (they keep what was found
  and are keyed by registry); `ambiguous_`, a second copy of the flags; where `std::sort`
  leaves a tie (a tie at the top is an error whichever comes first; the model puts the older first). A read of a table gives
  its whole value before or after a write, although the code may reallocate under it
  (finding 9). Prototype and session beans have descriptors and no instances here. The raw
  memory of finding 8 is a life of its own.
* In `Lifecycle`: a binding made by the destructor of a queued binding in the last loop of `~Registry`.
* In `ThreadLocal`: one registry. A `TLData` that was destroyed is read as empty, which is one of the
  outcomes the code may have; that `stop()` comes to read one is finding 14 (`SweepReadsLive`).
* In `Scopes`: `userData`, the map of scopes by name, aliases of a
  session bean (resolution goes to the primary descriptor), and the old arrays that
  `SessionStore` keeps until the scope stops. `Store` lets the array grow where
  `SessionStore::store` would write without a check: `ScopedContext::start` sizes the
  array for every slot known then and `store()` is called for those only, so the write is never out of range.
* Compile-time reflection, formatting of errors, casts, the table of contexts.

### Not modelled

* The table of contexts: a map under one mutex, whose two operations are atomic. Two contexts
  side by side are an instance of `Materialization`.
* Casts (`exact`, `compatible`, `cast`, `tryCast`): functions of the descriptor table that change
  nothing but a reference count, which is `Copy` in `PrototypeStore`.
* Compile-time reflection: it runs in the compiler and yields the constants of the models.
* Deadlock across two registries: nothing in the repository claims its absence (`NoDeadlock`
  has one registry as its hypothesis).

## 7. Plan

Every safety property of the passing runs is proved, under the hypotheses the theorems name; the
liveness properties and the one with `ENABLED` are model-checked only. What could come next: two
contexts in one `Container`, with the table of contexts; readers that see a reallocated table
(finding 9) as an explicit outcome; a corrected freelist (a generation that the pop keeps), for which
`SlotsExclusive` should hold without `Calm`.
