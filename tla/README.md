# TLA+ models of ThreadPoolPro

ThreadPoolPro is a C++20 work-stealing thread pool. This directory models its
core (`src/ThreadPoolPro` and `include/ThreadPoolPro`), the example programs that use it (`examples`) and the
regression tools (`regression`), checks the models with
TLC and proves most of what they say of the core's and the tools' safety with TLAPS. Paths and line numbers below are relative to
the repository's root; `PROJECT.json` maps every definition to its lines.

## 1. The system

| Component | State | Operations | Talks to |
|---|---|---|---|
| `WorkStealingQueue`, `Buffer` | `topIndex_`, `bottomIndex_`, `buffer_` and the retired buffers, a free list of nodes | `pushBottom`, `popBottom` (owner), `steal` (thieves), `size` | one per worker of a pool |
| `ThreadPool` | `runState_`, `paused_`, five counters, the local queues, the injection shards, `wakeToken_` | `enqueue`/`detach` -> `submit`, `pause`, `resume`, `waitIdle`, `shutdown`, the destructor, `workerLoop`, statistics | queues, market, `Future`, its clients |
| `spinYieldPark` | the token it parks on | wait for a condition | the pool's waits, `ResultState::wait` |
| `ThreadMarket`, `MarketThread` | `allThreads_`, `idleThreads_`; `hasWork_`, `exiting_`, `job_` per thread | `lease`, `assign`, `waitDone`, `loop`, `returnToIdle`, destructors | the constructors and `shutdown` of all pools in the process |
| `ResultState`, `Future` | `ready_`, `refCount_`, value or exception; `state_` | publish, `get`, move, destroy, `release` | the closure `enqueue` makes, clients |
| `Task`, vtables | a callable in place or on the heap | construct, move, assign, call, destroy | everything that holds tasks |
| Examples | the registry; each suite's locals, Futures and pools | the arguments, the list, 20 suites | the pool's public interface |
| Regression tools (custom, google) | baseline folders, live results, two reports per tool | `list`, `methods`, a comparison of two snapshots, the exports | the benchmarks' files |

A client submits into a shard, round-robin under the shard's mutex; a task that submits pushes
into its own worker's queue. `submit` queues, then counts (`pendingTasks_`), then, if somebody is
idle, bumps the token and notifies one thread. Workers look in their own queue, in the others' from
a random offset, in the shards; finding nothing they park on the token. A thread in `waitIdle`
helps: it takes and runs tasks itself until both counters are 0. `shutdown` wins a CAS on
`runState_`, wakes everybody and waits for every worker's job, except its caller's own. Worker
threads belong to the market and serve one pool after the other. `currentWorker_` belongs to the thread: a task that calls
another pool's `submit` pushes into its own worker's queue.

What is hard here: all coordination is by separate atomics, so that every operation is a
sequence of steps that others interleave with; conditions of two loads; wake-ups that are
skipped when they look unnecessary, or go to one of several kinds of sleepers; control operations
from inside tasks; threads and memory that outlive the object that used them. What makes each part
correct:

* queue: a pushed task is taken once, by whoever wins it, and delivered intact, also across growth;
* pool: tasks are in one place; counters tell the truth; nobody sleeps through work; `waitIdle`,
  `pause` and both modes of `shutdown` mean what they say; a stopped pool is left alone;
* market: a thread serves one pool at a time, every job runs, "done" means done, the process ends;
* result: freed once, under nobody; `get` returns what was produced;
* task: a callable has one owner at a time, is destroyed once, and so is its storage freed;
* examples: what is printed is what the suite says, in every order; locals and pools outlive the tasks that use them;
* regression tools: like is compared with like, ids mean what was listed, reports are those of a run that succeeded.

`PROJECT.json` lists the hazards, each at its line.

## 2. The modules

| Module | Models |
|---|---|
| `StealDeque` | what the queue promises: an atomic deque with a bottom and a top |
| `WorkStealingQueue`, `WorkStealingQueue_proof` | the Chase-Lev queue at the grain of its atomic accesses; implements `StealDeque`; its theorems |
| `TaskPool`, `TaskPool_proof` | what the pool promises its users: which task may run when, what `waitIdle` and `shutdown` wait for, what `pause` holds back; the theorems that `ThreadPool` implements it, and for which users |
| `ThreadPool`, `ThreadPool_proof` | the pool: clients' programs, workers, helpers, the waits; implements `TaskPool`; its theorems |
| `CrossPool`, `CrossPool_proof` | several pools whose tasks submit to each other's; its theorem |
| `ThreadMarket`, `ThreadMarket_proof` | the market's threads and the users that create and end pools; its theorems |
| `ResultFuture`, `ResultFuture_proof` | `enqueue`'s result, from `new State` to the last `release`; its theorems |
| `TaskBox` | what a `Task` promises: a box that holds a callable or nothing |
| `Task`, `Task_proof` | the type-erased callable, its two kinds of storage and the vtable's functions; implements `TaskBox`; its theorems |
| `Examples` | the example program: the registry, the arguments and the suites, on `TaskPool` |
| `Regression`, `Regression_proof` | the two regression tools, from the arguments to the reports; their theorems |
| `MC*` | instances for TLC |

How they compose. The pool's local queues are sequences with a pop at the back and a take at the front,
the operations of `StealDeque`, so the refinement proved of `WorkStealingQueue` is what entitles
`ThreadPool` to use them. (`StealMiss` keeps the one thing a deque does not show: a
`steal()` may come back empty because another thread has just won the CAS.) A worker's `"done"` in `ThreadPool` is
`JobReturns` in `ThreadMarket`, and `JoinWorker`'s wait is `WaitDone`. A task's `get` in `ThreadPool` is the
call `ResultFuture` describes in detail. `TaskPool` stands between the pool and its users: `ThreadPool` refines it under
`Promise`, and `Examples` takes its actions for the calls the suites make, so that what the examples are shown to print
rests on what the pool has been shown to promise. `CrossPool` takes from `ThreadPool` that a fetch loses nothing and that a count that is
notified wakes a worker, and keeps the counts.

Mutants. A module holds, right before the definition concerned, changed forms of it, marked
`Mutant:`. They are not part of the specification; `PROJECT.json` names for each property one that
breaks it.

### WorkStealingQueue
One owner, any number of thieves. The owner's `push*`/`pop*` actions and each thief's `Steal*` and `Size*`
actions are the atomic loads, stores and CAS of lines 80-171 and 216-221, in order. A buffer is a function from slots to
nodes, reached through the index modulo its capacity; growing copies the live slots and retires the old buffer, which
thieves may still read. A slot that was reused or whose node was freed is visible as such to a thief that comes late. `claimed`
and `delivered` are histories. Steps were merged only where one of the two touches what nobody else can see.

### ThreadPool
`pc` is a thread's place in the code and `frame` its locals. Clients run programs of operations, tasks have bodies
of operations (`submit`, `get`, `throw`, `pause`, `shutdown`), so the same actions serve clients, workers and
clients that help in `waitIdle`. Each atomic access of `submit`, `waitIdle`, `workerLoop`
and `spinYieldPark` that others can tell apart is an action; a shard is one atomic step because its mutex is held.
Merged steps, and why that changes nothing: loads of `runState_` behind one decision (it leaves `Running` once and for all);
token bump and `notify_all` (who parks in between has seen the new token and sleeps rightly either way);
the increment of `idleWorkers_` with the start of the wait (the wait checks again, and nobody acts on the
difference). `wakeToken_` itself is abstracted to `fresh`, the threads that have captured its present value. Counters
are `size_t`: `Wrap` is modulo `SizeModulus`, small so that a wrap-around is an ordinary event.
`TaskPool`'s variables are the pool's own or histories; a task is `submitting` from `submit`'s check to its push, and `committed` if a thread
that runs it was past its last check of `paused_` when `pause` came. `Close` is the moment `shutdown` has gone through the workers.
`notify_one` wakes any one parked thread; waits do not wake spuriously, because `std::atomic::wait` does not return
unless the value has changed.

### ThreadMarket
Per thread `loop` is the place in `MarketThread::loop()`. Users create pools (`Lease`, then `Assign` and `Start` for each
worker), end them from outside (`"wait"`), from the task of a worker (`"detach"`), or never (`"keep"`). `assign`'s two
stores are two actions, as are the end of a job's four: clear, `hasWork_.store(false)`, `returnToIdle`,
`notify_all`. `lease` is one step: it holds the mutex. A pool is destroyed as soon as its `shutdown` has returned. The market's
destructor runs when the last user is done.

### ResultFuture
`closure` is where `runAndPublish` is, `client` where a client's call is. The release of a share is one step: after `fetch_sub` the one who
got 1 is alone with the state. A Future is used by one thread at a time, as its contract asks; clients may hand
them on to each other. A closure that is destroyed with its queue, unrun, gives up nothing (`DiscardClosure`). `enqueue` allocates the state (`EnqueueState`), copies the callable
and its arguments (`"copy"`), and only then enters the `try` that deletes the state if `submit` throws: a copy that throws, which `CopiesThrow`
admits, leaves a state with both shares that no closure, call or Future will ever give up (`EnqueueCopyThrows`, `"unmade"`). `Lost` names these two kinds of states.

### CrossPool
The same threads and operations as `ThreadPool`, with a pool in each operation, at a coarser grain: fetching, starting and ending a task are
one step each, and a worker that sleeps is woken by a count on its own pool. `Push` looks only at whether the caller is a
worker, as `submit` does; `SubmitCount` counts where `submit` was called; `Start` takes off the count of the pool whose worker it is. `Notice` is the
worker that has not parked yet and sees a changed count that nobody notified: it may happen, and fairness does not help it along.

### Task
`heap` is memory: what object each place (a Task's inline storage, or a block) holds, which blocks are allocated, and whether an
operation was ever applied to memory that holds no object of its kind. A move constructs at the destination, leaves a husk, and the
husk is destroyed, as `moveTo_` and `destroy_` do. Each callable has a type of its own, so the vtable pointer is the callable's name.

### Examples
A suite is a sequence of scenes (the blocks in which it has a pool), a scene the operations of `main` and of each task, in the order
of the source. Loops are run `Batch` times and ranges have `ItemCount` items. A line that a comment or the printed text states a fact
about is `expect`; a line whose fact depends on what the pool does not promise is `claim`, checked by a scenario only; a line whose value the
timing decides is left out. Suites register in the order in which the build lists their files (`GLOB_RECURSE`, alphabetical); another order of
static initialisation would change ids and groups.

### Regression
One module for both tools: `tool` chooses where they differ (which snapshots they own, how a benchmark is named, whether the iterations
must match, and how tables are laid out). Names, versions and ids are records, compared by what the code's comparison does with them:
`Before` compares the numbers of a version and, if they are equal, its name: the case of its first letter and what follows the number, by their place in
the alphabet that `Tails` gives, as `Spelling` does for the names. Sorting (`InOrder`) puts each element behind those that are less, and what a loop keeps of a
sequence (`Pick`) is the elements at given positions, in their order. A run is the chain from `Start` to an exit; a failure at any step leaves
by `Fail`. Tables are sequences of events (a heading, a line, a row, an end).

## 3. The runs

`tlc -config <cfg> <module>`, deadlock checked unless the cfg says otherwise.

| Run | Bounds | Shows |
|---|---|---|
| `wsq_safety` | 2 thieves, 4 pushes, buffers of 1, 2, 4 | each task claimed once, live slots and the retired buffers a thief may still win with intact, and delivery, once, both until a thief is overtaken, `top` monotone, refinement of `StealDeque` |
| `wsq_liveness` | 2 thieves, 2 pushes | every pushed task is claimed |
| `pool_leaf` | 2 workers, 1 client, 2 tasks, one throwing, 2 shards, both modes, with and without `waitIdle` | counters, one place per task, every promise of `TaskPool` (both `shutdown`s, `waitIdle` complete, exceptions visible), `waitIdle` returns |
| `pool_control` | 2 workers, 2 clients, 4 tasks: one pauses, one shuts down and throws, one submits | pause, resume and shutdown racing each other and the workers: `TaskPool`'s promises, no lost wake-up, the stopped pool left alone, `shutdown` returns |
| `pool_nested` | 2 workers, 2 clients, 4 tasks: submit from a task and block on it | no stuck pool with work queued; every task runs |
| `cross_pool` | pools of 2 and 1 workers, 1 client, 5 tasks, two that cross | one place per task, the counts balance but for the crossings, every task runs, a pool that is even stops |
| `market` | 2 users, 3 pools of 1 worker, ended either way, then process exit | one pool per thread, jobs unshared and run, done means done, exit |
| `future` | 2 clients, 2 results, 2 Futures, discards, copies that throw | memory, freed unless lost, one consumer who finds a result, `get` returns |
| `task` | 3 places, 2 blocks, 4 callables, 2 of them inline, one that throws | one owner per callable and block, refinement of `TaskBox` |
| `examples` | all 20 suites and 6 other arguments, loops of 2, 5 items | the expected lines, scopes that outlive tasks, the suites asked for, the end |
| `regression` | 2 runs in a row of either tool, 5 disks, 21 argument lists | the comparison that was asked for, listings that agree, reports of the last success |
| `wsq_overtaken` | violation | a thief overtaken by a capacity of pushes delivers the wrong task |

| Run | Module, cfg | Properties |
|---|---|---|
| `wsq_safety` | `MCWorkStealingQueue`, `WSQSafety.cfg` | `TypeOK`, `ClaimedExactlyOnce`, `LiveSlotsIntact`, `DeliveredUnlessOvertaken`, `TopNeverMovesBack`, `ImplementsDeque` |
| `wsq_liveness` | `MCWorkStealingQueue`, `WSQLiveness.cfg` | `EveryTaskClaimed` |
| `wsq_overtaken` | `MCWorkStealingQueue`, `WSQOvertaken.cfg` | `DeliveredExactlyOnce` |
| `pool_leaf` | `MCThreadPool`, `PoolLeaf.cfg` | `TypeOK`, `CountersAgree`, `QueuedInOnePlace`, `ImplementsTaskPool`, `WaitIdleReturns` |
| `pool_control` | `MCThreadPool`, `PoolControl.cfg` | `NoLostWakeup`, `ImplementsTaskPool`, `PoolLeftAlone`, `ShutdownReturns` |
| `pool_nested` | `MCThreadPool`, `PoolNested.cfg` | `SomeWorkerAwake`, `EveryTaskRuns` |
| `cross_pool` | `MCCrossPool`, `CrossPool.cfg` | `AccountsBalance`, `PoolsServe` |
| `market` | `MCThreadMarket`, `Market.cfg` | `LeasedOnce`, `JobsIntact`, `DoneMeansDone`, `EveryJobRuns`, `ShutdownReturns`, `QuietExitCompletes` |
| `future` | `ResultFuture`, `Future.cfg` | `TypeOK`, `NoUseAfterFree`, `FreedUnlessLost`, `ResultTakenOnce`, `GetReturns` |
| `task` | `Task`, `Task.cfg` | `CallablesOwned`, `ImplementsBox` |
| `regression` | `MCRegression`, `Regression.cfg` | `ComparisonShown`, `ListingsAgree`, `ReportsOfLastSuccess` |
| `examples` | `MCExamples`, `Examples.cfg` | `ExpectedOutput`, `ScopesOutliveTasks`, `RequestHonoured`, `ProgramEnds` |

The violation run checks what a comment of a test says, quoted in `PROJECT.json`'s finding. Properties are gathered where one claim has
several parts: `JobsIntact`, `ResultTakenOnce`, `CallablesOwned`, `ScopesOutliveTasks`, `ComparisonShown`, `ListingsAgree`, `PoolsServe` and
`DeliveredUnlessOvertaken` are conjunctions of named ones.

Why the bounds are enough. Two workers are the least with stealing, sleeping and stopping apart; two clients the
least for two submissions or a submission and a control operation at once; a nested task needs one more task
than workers. A queue with capacity 1 grows twice with four pushes, so that a thief can hold either retired buffer. Two users and
three pools let a thread be leased, given back and leased by the other user while the first still waits for it. Three places
hold a chain of moves and its return; a callable of each kind and a second one to displace it are four. A version with two digits, two
candidates of it, a plain file, a folder of another kind and one that only begins like a version are the cases in which the tools' readings of a folder's name
differ; two runs let the second find what the first left. Loops of 2 are the least in which a task may be queued behind another.

The passing pool runs state under which use `TaskPool`'s promises hold. The
programs of `pool_leaf` have one client because with two submitting clients `WaitIdleComplete` fails (`PoolUncounted`); for the same reason
none has a `waitIdle` beside other clients' submissions, and none shuts down a pool with nested `get`.

Fairness. Every thread is weakly fair: the operating system runs a thread that can run, and code between two waits has no
other obstacle. A user's callable returns or throws; a user ends the pools it does not keep. Nothing is
assumed of which thread `notify_one` picks or which way a client goes. `future`'s clients need not call anything,
but continue a call they are in. In `examples` fairness is that of the whole program: no step can be repeated for ever, so it does not matter which
is taken. `task` and `regression` have only safety properties and need none.

Deadlock is not checked where the program may really stop: in the scenarios that hang, in `future`, where
a `get` of a discarded closure waits for ever, and in `cross_pool`, where a pool that owes tasks never stops. `ThreadMarket`'s `Rest` admits the stop that `MarketExitHangs` is about.

### Further scenarios

Configurations kept beside the runs, run by hand with `tlc -config <cfg>.cfg <module>`. Each reproduces one more disagreement between the code and what
it says of itself.

| cfg | Module | Property violated | What happens |
|---|---|---|---|
| `PoolUncounted` | `MCThreadPool` | `WaitIdleComplete` | `submit` queues (ThreadPool.cpp:551-566) before it counts (568): a task that runs in between cancels another's count and `waitIdle` returns early (against ThreadPool.h:259-260) |
| `PoolTwoLoads` | `MCThreadPool` | `WaitIdleDrains` | `waitIdle` loads `pendingTasks_` before, `activeTasks_` after a task submits another and ends (145-146) |
| `PoolStranded` | `MCThreadPool` | `WaitIdleReturns` | the last count makes `waitIdle`'s condition true without a wake-up (568, against Utility.h:133-135) |
| `PoolSwallowed` | `MCThreadPool` | `SomeWorkerAwake` | `wakeOne`'s one notification goes to a `waitIdle` caller, which parks again (587, against ThreadPool.h:307) |
| `PoolHelperPaused` | `MCThreadPool` | `PauseStopsEveryone` | a helper starts a task of a paused pool (149, against ThreadPool.h:188-189) |
| `PoolSelfStop` | `MCThreadPool` | `ShutdownDrains` | a task of a pool of one calls `shutdown(FinishTasks)` and the tasks behind it never run (385, against ThreadPool.h:69) |
| `PoolHelperStop` | `MCThreadPool` | `ShutdownDrains` | `shutdown(FinishTasks)` returns while a helper runs a task (341-343) |
| `PoolRaceStop` | `MCThreadPool` | `ShutdownDrains` | a `submit` past its check is accepted and never run (548, against 325-328) |
| `PoolNestedStop` | `MCThreadPool` | `ShutdownReturns` | the other worker leaves on `pendingTasks_ == 0` while a task's `submit` is between push and count; the task waits for the result for ever (343, against ThreadPool.h:197) |
| `CrossPoolIdle` | `MCCrossPool` | `WaitIdleReturns` | after one task has crossed, the pool it was submitted to counts it for ever and its `waitIdle` never returns (551, against ThreadPool.h:259-260) |
| `CrossPoolStop` | `MCCrossPool` | `ShutdownReturns` | nor does its `shutdown`, and so the destructor (342-344 and 417, against ThreadPool.h:197) |
| `CrossPoolGet` | `MCCrossPool` | `EveryTaskRuns` | the submitter waits for the task in its own queue; no worker of either pool is told of it (551-579) |
| `MarketExitHangs` | `MCThreadMarket` | `ExitCompletes` | the end of a detached worker's job overwrites the exit's wake-up, and the join never returns (ThreadMarket.cpp:68, against 87-92) |
| `MarketSpawns` | `MCThreadMarket` | `WarmThreadsReused` | `waitDone` returns before `returnToIdle`, the next pool makes a new thread (51-69) |
| `MarketOtherPool` | `MCThreadMarket` | `ShutdownReturns` | `shutdown` waits for a job that another pool gave the same thread (37-39) |
| `FutureDiscarded` | `ResultFuture` | `GetAlwaysReturns` | `get` of a task discarded by `shutdown(DiscardTasks)` waits for ever |
| `FutureLeaks` | `ResultFuture` | `StatesFreed` | copying the callable or an argument throws (ThreadPool.tpp:46-47) before the `try` (62): the state, allocated at 44, is never deleted (against 65-70 and Future.h:101-104) |
| `TaskLeaks` | `Task` | `BlocksOwned` | a callable whose constructor throws in a heap block: the block is never freed (Task.tpp:38-48) |
| `ExampleSelfJoin` | `MCExamples` | `PoolOutlivesEveryTask` | `main` sees `isStopped()`, leaves the scope, and the second `shutdown` returns at once: the pool is destroyed while its worker is still in `shutdown` (ThreadPool.cpp:221, against worker_self_join.cpp:33-34) |
| `ExampleNested` | `MCExamples` | `LocalsOutliveChildren` | what `waitIdle` promises does not cover the tasks that tasks submit: a suite's locals may go before them |
| `ExampleClaims` | `MCExamples` | `ClaimsHold` | `queuedTasks()` need not be 0 after a discarding shutdown (against discard_shutdown.cpp:6) |

One more has no cfg of its own. `FasterIsMeasured` of `Regression`, put among the invariants of `Regression.cfg`, is violated: a benchmark that the current snapshot lacks is
reported as infinitely faster.

Also seen while reading, and not about a property: the infinite percentage makes `regression_results.json` invalid JSON; `convertIter` labels every other count
"1M"; the google tool never converts `time_unit`; `regression/README.md` says reports go to `benchmarks/results/` where the code has `regression/results/`, and a missing directory is not reported;
a folder whose name begins with `v` and is no version breaks `list`, `methods` and every run that names no version;
"v1.10.0-rc" is accepted as a folder and not as an argument; nested_submit.cpp:38-40 says that a worker helps to drain while it
blocks in `get()`, which it does not; framework.h:211 of the examples gives as an example a suite that does not exist.

## 4. The proofs

`tlapm <module>_proof.tla` for `WorkStealingQueue`, `ThreadPool`, `TaskPool`, `CrossPool`, `ThreadMarket`, `ResultFuture`, `Task` and `Regression`; `ThreadPool`'s
takes some minutes. A theorem holds for all values of the constants that the named assumptions of its module admit. Each proof is the same in shape: an inductive
invariant (`IInv`), preserved by each action in a lemma of its own, and what follows from it.

| Module | Theorem | States |
|---|---|---|
| `WorkStealingQueue_proof` | `TypeCorrect`, `ClaimedOnce`, `TopMonotone` | `TypeOK`, `ClaimedExactlyOnce`, `TopNeverMovesBack` |
| | `SlotsIntact`, `DeliveredOnce` | `LiveSlotsIntact`, `DeliveredUnlessOvertaken` |
| | `Refinement` | `ImplementsDeque` |
| `ThreadPool_proof` | `TypeCorrect`, `CountersSpec`, `OnePlace` | `TypeOK`, `CountersAgree`, `QueuedInOnePlace` |
| | `WakeUpsKept`, `LeftAlone` | `NoLostWakeup`, `PoolLeftAlone` |
| | `WorkerAwake` | `SomeWorkerAwake`, if nobody calls `waitIdle` and no task blocks in a `get` |
| `TaskPool_proof` | `KeptElsewhere` | every step is one of `TaskPool`, except those of threads at four places in the code (`Exposed`) |
| | `KeepsPromises`, `PausesAndFinishes` | `ImplementsTaskPool`; `PauseStopsEveryone`, `ShutdownDrains`: if nobody calls `waitIdle` and `shutdown(FinishTasks)` meets no submission |
| | `ServesOneUser`, `WaitsForAll` | `ImplementsTaskPool`; `WaitIdleDrains`, `PauseStopsEveryone`, `ShutdownDrains`: for a single user |
| `CrossPool_proof` | `Balance` | `AccountsBalance` |
| `ThreadMarket_proof` | `TypeCorrect`, `LeasedToOne`, `JobsSafe`, `WaitedIsDone` | `TypeOK`, `LeasedOnce`, `JobsIntact`, `DoneMeansDone` |
| `ResultFuture_proof` | `TypeCorrect`, `MemoryOutlivesUse`, `MemoryIsFreed`, `ResultOnce` | `TypeOK`, `NoUseAfterFree`, `FreedUnlessLost`, `ResultTakenOnce` |
| `Task_proof` | `TypeCorrect`, `HeldOnce`, `Refinement` | `TypeOK`, `HeldByOneTask`, `ImplementsBox` |
| | `CallablesKept` | `CallablesOwned`, if only callables that fit in place have constructors that throw |
| `Regression_proof` | `ListingsHold`, `ReportsHold` | `ListingsAgree`, `ReportsOfLastSuccess` |
| | `ComparisonHolds` | `ComparisonShown`, of snapshots as the benchmarks write them (`OrderlySnapshots`) |

**WorkStealingQueue**, for any number of thieves, any initial capacity and any number of pushes. `ClaimedExactlyOnce` is not inductive alone: that
the owner may take the bottom task without a CAS needs that every thief that could still win that index has
seen an older `bottom`, and that `top` has not passed it. The inductive invariant `IInv` adds: `topIndex` is at most the
end of the live range (`LiveEnd`), which is at most the number pushed, and an owner that popped knows where `top`
stood (`RangeInv`); a thief past its emptiness check cannot win an index that is no longer live (`ThiefInv`); the live
indices hold distinct tasks that were pushed (`LogInv`). The refinement maps the abstract deque to the log over
`[topIndex, LiveEnd)`: a push takes effect when it publishes `bottomIndex_`, an uncontended pop when it loads
`topIndex_`, a steal and a contended pop at the CAS that succeeds, and all
other steps to stutters. The slots need more (`SlotsInv`): always, that the live range is no longer than the buffer in force, also while the owner
decides on a stale `top` whether to grow (`CapacityInv`); and, until a push overtakes a thief, that each live index and each thief that has won
one and not read it yet has a node of its own that holds that task (`HeldInv`, `LootInv`), that the free list has no other node twice (`FreeInv`), that a thief with a
retired buffer that may still win finds there what the buffer in force has (`AimInv`; with `LootInv` it gives `LiveSlotsIntact` its part about retired buffers), and that a claimed task is delivered or in one hand (`HandInv`).
The arithmetic of the ring is one lemma, `ModApart`: indices less than a capacity apart use different slots.

**ThreadPool**, for any number of workers, clients, shards and tasks, and whatever programs and bodies do. None of the three state properties is
inductive: a counter is right only if it is known at each place in the code which threads are counted, and that a task enters one
queue needs that it has not been submitted before. `IInv` says what each place implies of a thread's locals (`ControlInv`) and of the status of its
task (`StatusInv`); that the submissions still to be made, in the rest of a program, of a running task, in a call before its push or in a body not begun, are disjoint
and of unsubmitted tasks (`OwedInv`); that a task is in one queue at one position or in one thread's hands, and is queued exactly then (`PlaceInv`); and the
five counts (`CountInv`). `WakeUpsKept` rests on it and on `WakeInv`, the property already for a worker that is about to park: it parks only after its
condition was false on a token that has not changed, whoever makes the condition true is then before its look at `idleWorkers_`, and that worker is counted
there. `LeftAlone` adds that each worker `shutdown` has passed has returned or carries its flag, and that a worker with the flag goes from its task
to the end (`JoinInv`). `WorkerAwake` adds that when all workers sleep behind a token that has changed, its notification is still to come (`StaleInv`): `notify_one` then
wakes one of them. Its hypotheses are about the programs: a thread in `waitIdle` may swallow the notification (`PoolSwallowed`), and that workers blocked in a `get` leave another one awake
is checked by `pool_nested` only.

**TaskPool**, for any number of workers, clients, shards and tasks. The refinement is proved step by step: `PromiseInv` says what `IInv` does not and the mapping needs (a
thread past its last check of `paused_` stays there until it starts its task; a held pool has no other worker there; a task that runs is in a thread's hands; a submission
returns once, after its push), most steps change nothing a user sees (`Unseen`) and are stutters, and each of the others is one action of `TaskPool`. The
code does not keep these promises to everybody. `KeptElsewhere` says where it always does, whatever programs and bodies do: at every step but those of an exposed thread (`Exposed`), which is at the
end of a `shutdown` that finishes tasks or stands beside a thread that runs a task in `waitIdle`, or is itself in `waitIdle`, about to start a task of a pool that is paused or stopped, to leave a running pool, or to
end a `shutdown` called by the task it runs. So submissions, `pause`, `resume`, the tasks of workers, their exceptions and a discarding `shutdown` beside no helper
are never at fault. It says nothing of the ends of `waitIdle` and `shutdown(FinishTasks)`; those depend on the programs. A step of an exposed thread is right in
a state that satisfies `Sound`, which says what `TaskPool` asks of it (lemma `KeptWhileSound`), and the other four theorems discharge `Sound` for two kinds of programs:

* `KeepsPromises`, `PausesAndFinishes`: nobody calls `waitIdle`; `shutdown(FinishTasks)` is called by no task, and by a client only if no other
  client submits (`FinishesAlone`). Clients and tasks may submit, pause, resume, throw, wait for results and call `shutdown(DiscardTasks)` beside each other as they like.
  The invariant is `FinishInv`: in a pool that finishes its tasks no client is in a submission and no worker in `shutdown`, and while anything is queued there is a worker that
  has not returned. The programs of `pool_control` are of this kind.
* `ServesOneUser`, `WaitsForAll`: one client does what it likes, except call `waitIdle` between its own `pause` and `resume`; the other clients wait for results at most, and
  so do the tasks, which may also throw (`SingleUser`). The invariant is `UserInv`: the user in `waitIdle` has not paused the pool, and at each of its two loads, and when it leaves,
  knows what is queued and running (`Drained`). The programs of `pool_leaf` are of this kind.

The hypotheses cannot be dropped. A second client that submits, or a task that does, lets `waitIdle` leave early (`PoolUncounted`, `PoolTwoLoads`); a helper starts a task of a
paused pool (`PoolHelperPaused`) and outlasts `shutdown` (`PoolHelperStop`); a submission beside `shutdown(FinishTasks)` is left behind (`PoolRaceStop`), as are the tasks behind one that
calls it (`PoolSelfStop`).

**CrossPool**, for any pools, workers, clients, tasks and programs, and any modulus. The invariant is `ThreadPool`'s at the coarser grain, with the pool of each
queue (`PlaceInv` says that a queued task is in the pool it was put in) and the count of each pool (`CountInv`): queued there, plus those of its own that others took, less
guests, less calls between push and count. That each step changes both sides alike, modulo the width, is `WrapStep`.

**ThreadMarket**, for any users, pools (finitely many) and workers per pool, any ending and with or without the process's exit. That a job is not overwritten depends on who may
assign: `idleThreads_` and the pools in use share no thread (`LeaseInv`), an idle thread has no job and no work unless it is to exit, and what `hasWork_` means at each
place of `loop()` (`ThreadInv`); a leased thread has no job before its pool's `assign` and that job afterwards (`LeasedInv`); a job that is not of a pool in use is of one that
has been told to stop and will be cleared (`JobInv`). The counts of jobs run and threads made are `RanInv` and `SizeInv`.

**ResultFuture**, for any sets of clients, results and Futures, with or without discards. That no pointer dangles does not follow from itself,
because the count could be wrong; the invariant says that `refCount_` is exactly the closure's share plus the
other one (a Future's or a call's; both before `submit`), or both of a closure that could not be made, that there is at most one such other pointer
(`OnePointer`), which moving preserves by clearing its source, and that the closure's share begins with `submit`
and ends with its `release`. Then the memory is there exactly while the count is not 0, which is `MemoryIsFreed`: a state outlives its Futures and calls only by a closure
that will still run, or because it is `Lost`. The two exceptions are the code's (`FutureDiscarded`, `FutureLeaks`), and the theorem says that there is no third. `TypeCorrect` says in passing
that the count never leaves 0..2. `ResultOnce` adds that the outcome is
in the state before `ready_` is set, and that a call goes on to take it only after that (`Published`); that only one call does is `OnePointer` again.

**Task**, for any places, blocks and callables. The invariant (`Sound`) is about any members, memory and wrapped callables, because a move assignment passes through a
state between two of the specification: what a vtable expects is where its Task looks, no two full Tasks have the same callable, memory holds nothing else, and a wrapped callable
is in a Task or destroyed, not both. `CallablesKept` has its hypothesis because the code leaks the block otherwise (`TaskLeaks`). The refinement maps a Task to the
callable that its vtable names.

**Regression**, for any baseline folders, snapshots, arguments and number of runs. A sorted sequence is given by ranks, and three lemmas about finite sets with a strict order carry the
rest: ranks increase (`RanksIncrease`), every rank is taken once (`OrderedBy`), and so the positions that `Pick` keeps increase (`KeptBy`). That the versions are strictly
ordered, tails included, is `VersionsOrdered`. `ListInv` is what `list`, `methods` and the choice of the newest version have found while the disk cannot change. `RunInv` follows a comparison from the snapshots to
the tables: what was loaded is what the files hold, filtered, each row is that of its entry, and the rows of the tables are the rows counted
(`RowsOf`). `WrittenInv` is `ReportsOfLastSuccess` at every moment, not only between runs. `TableInv` follows the tables item by item: a table is open or closed, its heading is that of the
last row, and as many have begun as there are headings so far. `ComparisonHolds` has a hypothesis about the snapshots: a benchmark (a name, in the custom tool with its
number of iterations) has one time, and those of one heading follow each other. The benchmarks write them so, as the two snapshots in `benchmarks/baselines/v1.0.0` show; of
others the code compares with the first entry of a name and prints a heading twice. `MCRegression` has TLC confirm that the run's snapshots meet it.

What is assumed: that the sets of clients, tasks, workers and pools are finite and their names apart; that a `size_t` can count the tasks and the threads (`ThreadPool`; `CrossPool`
assumes nothing of the modulus, its counts are equal modulo it); that programs and bodies are sequences of the public operations, without `waitIdle` in a task, which the
header rules out (ThreadPool.h:262-264); and that a task of the model stands for one submission, so that no two operations submit the same one (`SubmittedOnce`). Of the regression tools: that there are finitely
many folders, and what a folder's name and a snapshot consist of (`DisksAssumption`), and that `Tails` is an alphabet, naming nothing twice (`TailsAssumption`).

Model-checked only, of the safety properties: those of `Examples` (`ExpectedOutput`, `ScopesOutliveTasks`, `RequestHonoured`). They are about twenty concrete programs, with their text and in
their order, and there is no constant to prove them for every value of; what the
programs rely on is `TaskPool`, and the theorems of `TaskPool_proof` say for which users the pool keeps those promises.
Liveness under fairness and what depends on ENABLED are out of the prover's reach and stay with TLC; no module that theorems are about uses RECURSIVE.

## 5. Not modelled

* Weak memory. All steps are sequentially consistent. The code's fences make the queue's decisive accesses so; for the
  pool's count-then-look-for-sleepers pattern (ThreadPool.cpp:568-577 against 432-437), which is release/acquire only,
  the models show the algorithm right and say nothing of the orders.
* Allocation failure (`std::bad_alloc`); copies of callables and arguments that throw are modelled. The queue's destructor, beside which nothing runs: what becomes of the closures it destroys is `DiscardClosure` of `ResultFuture`.
* Statistics functions: single loads of the counters that `CountersAgree` describes.
* In `Regression`, wording, colours, column widths and the JSON's syntax; `methods` lists nothing if one of the versions fails, where the tool
  has then printed those before it; a snapshot that exists and does not parse is treated like one that is missing: the message differs, and both end the run with an error.
* In `CrossPool`, `pause`, exceptions, and the races inside one fetch or one shutdown that `ThreadPool` has.
* Benchmarks, tests, fuzzing, packaging and build files: no behaviour of the library's.

## 6. Plan

Order: what everything rests on first. Done: the queue with its refinement proof; the pool and the promises it implements; pools that submit
to each other; the market; the result; the task; the examples; the regression tools; and the theorems of section 4. Next:

1. `SomeWorkerAwake` with tasks that block, by counting the notifications that are due.
2. The queue's destructor; the pool's lifetime, composing `ThreadPool` with `ThreadMarket`.
