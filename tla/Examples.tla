------------------------------ MODULE Examples ------------------------------
(***************************************************************************)
(* The example programs under examples/ and the program that runs them.    *)
(* Each suite is a sequence of scenes, the blocks in which it has a pool;  *)
(* a scene is what the main thread does and what each task does.  The pool *)
(* is TaskPool: the examples see of it what ThreadPool.tla has been shown  *)
(* to promise.  What a suite prints is modelled where a comment or its     *)
(* text says what is to be seen; what depends on timing is left open.      *)
(***************************************************************************)
EXTENDS Naturals, Sequences, FiniteSets, TLC

CONSTANTS
    Batch,                 \* the rounds of a loop that submits tasks
    ItemCount,             \* the items that parallelFor() and its like split
    Registered,            \* what the suites' registrars register, in their order
    Initial,               \* the upper-case first letter of each category
    Requests               \* the arguments the program may be given

ASSUME BatchAssumption == Batch \in Nat \ {0}
ASSUME ItemAssumption == ItemCount \in Nat \ {0}

\* The most tasks a scene submits; the main thread is 0.
Tasks == 1..(3 * Batch + 7)
Main == 0
Threads == Tasks \cup {Main}

\* A Future is known by a number, that of its task unless it was moved.
Handles == Tasks
NoTask == 0

VARIABLES
    workers, mode, paused, status, accepted, committed, waiting, seen, stopper,
    closed, exceptions,    \* the pool (see TaskPool)
    request,               \* argv[1], or "" if there is none
    agenda,                \* the suites still to run
    opened,                \* how many scenes of the one that runs have been opened
    todo,                  \* what each thread has still to do in this scene
    future,                \* the task whose result each Future has a share of
    outcome,               \* the result of each task, as its Future shows it
    counter,               \* the atomics the tasks increment
    cells,                 \* how often each item has been written
    inScope,               \* of "locals" and "pool", what has not been destroyed
    children,              \* history: the tasks that tasks have submitted
    ran,                   \* history: the suites that have run
    report                 \* the totals printed at the end, and the exit code

localVars == <<future, outcome, counter, cells, inScope, children>>
sceneVars == <<todo, localVars>>
runVars == <<request, agenda, opened, ran, report>>

Pool == INSTANCE TaskPool WITH Clients <- {Main}
poolVars == <<workers, mode, paused, status, accepted, committed, waiting, seen,
              stopper, closed, exceptions>>
vars == <<poolVars, sceneVars, runVars>>

----------------------------------------------------------------------------
\* The suites.  A thread's operations, for short.

Detach(k) == <<<<"detach", k>>>>
Enqueue(k) == <<<<"enqueue", k>>>>
Get(f) == <<<<"get", f>>>>
MoveFuture(f, g) == <<<<"move", f, g>>>>
Catch(kind) == <<<<"catch", kind>>>>
WaitIdle == <<<<"waitIdle">>>>
Pause == <<<<"pause">>>>
Resume == <<<<"resume">>>>
Shutdown(how) == <<<<"shutdown", how>>>>
AwaitStopped == <<<<"awaitStopped">>>>
LeaveScope == <<<<"leaveScope">>, <<"destroyPool">>>>

\* What a task does to the variables it refers to.
Add(c) == <<<<"add", c>>>>
Write(items) == <<<<"write", items>>>>

\* The end of a task that was enqueued: its Future shows a value, or what it
\* threw.  The exception of a detached one leaves it.
Value == <<<<"publish", "value">>>>
Error == <<<<"publish", "error">>>>
Throw == <<<<"throw">>>>

\* What is printed, with what a comment, the suite's own text or the meaning
\* of the call says it shows.  A claim is such a line that need not be true.
Expect(what, of, value) == <<<<"expect", what, of, value>>>>
Claim(what, of, value) == <<<<"claim", what, of, value>>>>

\* A loop's operations: Op for first, first + 1, ...
Loop(Op(_), first, rounds) == [i \in 1..rounds |-> Op(first + i - 1)[1]]

Scene(size, bodies, main) ==
    [size |-> size, main |-> main,
     body |-> [k \in Tasks |-> IF k \in DOMAIN bodies THEN bodies[k] ELSE <<>>]]

\* Tasks first, first + 1, ... have this body.
Bodies(first, rounds, body) == [k \in first..(first + rounds - 1) |-> body]

basic_usage == <<
    Scene(4, 1 :> Value,
          Expect("threads", Main, 4) \o Expect("paused", Main, FALSE)
          \o Expect("stopped", Main, FALSE)
          \o Enqueue(1) \o Get(1)
          \o Detach(2) \o WaitIdle
          \o Loop(Detach, 3, Batch) \o WaitIdle
          \o Expect("queued", Main, 0) \o Expect("active", Main, 0)
          \o Shutdown("Finish") \o Expect("stopped", Main, TRUE) \o LeaveScope) >>

enqueue_future == <<
    Scene(4, Bodies(1, Batch + 2, Value) @@ (Batch + 3 :> Error),
          Enqueue(1) \o Get(1)
          \o Loop(Enqueue, 2, Batch) \o Loop(Get, 2, Batch)
          \o Enqueue(Batch + 2) \o Expect("valid", Batch + 2, TRUE)
          \o Get(Batch + 2) \o Expect("valid", Batch + 2, FALSE)
          \o Enqueue(Batch + 3) \o Get(Batch + 3) \o Catch("task's own")
          \o WaitIdle \o LeaveScope) >>

detach_task == <<
    Scene(4, (Batch + 2) :> Throw,
          Detach(1) \o WaitIdle \o Loop(Detach, 2, Batch) \o WaitIdle
          \o Expect("exceptions", Main, 0)
          \o Detach(Batch + 2) \o WaitIdle
          \o Expect("exceptions", Main, 1) \o LeaveScope) >>

pool_shutdown == <<
    Scene(2, Bodies(1, Batch, Add("completed")),
          Loop(Detach, 1, Batch) \o Shutdown("Finish")
          \o Expect("stopped", Main, TRUE) \o Expect("completed", Main, Batch)
          \o LeaveScope),
    Scene(1, Bodies(1, Batch, Add("completed")),
          Loop(Detach, 1, Batch) \o Shutdown("Discard")
          \o Expect("stopped", Main, TRUE) \o LeaveScope),
    Scene(2, <<>>, Detach(1) \o LeaveScope \o Expect("finished", 1, TRUE)) >>

wait_idle == <<
    Scene(2, Bodies(1, Batch, Add("completed")),
          Loop(Detach, 1, Batch) \o WaitIdle
          \o Expect("completed", Main, Batch) \o Expect("queued", Main, 0)
          \o Expect("paused", Main, FALSE) \o WaitIdle \o LeaveScope) >>

pause_resume == <<
    Scene(2, Bodies(1, Batch, Add("started")),
          Expect("paused", Main, FALSE) \o Pause \o Expect("paused", Main, TRUE)
          \o Loop(Detach, 1, Batch)
          \o Expect("started", Main, 0) \o Expect("queued", Main, Batch)
          \o Resume \o WaitIdle \o Expect("started", Main, Batch) \o LeaveScope) >>

batch_enqueue == <<
    Scene(4, Bodies(1, Batch, Value),
          Loop(Enqueue, 1, Batch) \o Loop(Get, 1, Batch) \o LeaveScope) >>

\* Mutant: on a single worker, where the parent waits for a child nobody can run.
nested_submitOnOne == <<
    Scene(1, (1 :> (Enqueue(2) \o Get(2) \o Value)) @@ (2 :> Value),
          Enqueue(1) \o Get(1) \o LeaveScope) >>

\* childRan is printed once waitIdle() has returned.
nested_submit == <<
    Scene(4, (1 :> Detach(2)) @@ (2 :> Add("completed"))
             @@ (3 :> (Enqueue(4) \o Get(4) \o Value)) @@ (4 :> Value)
             @@ (5 :> (Loop(Enqueue, 6, Batch) \o Loop(Get, 6, Batch) \o Value))
             @@ Bodies(6, Batch, Value),
          Detach(1) \o WaitIdle \o Claim("completed", Main, 1)
          \o Enqueue(3) \o Get(3) \o Enqueue(5) \o Get(5) \o LeaveScope) >>

\* One task submits the batch: on four workers, and on one.
FanOut(size) ==
    Scene(size, (1 :> Loop(Detach, 2, Batch)) @@ Bodies(2, Batch, Add("completed")),
          Detach(1) \o WaitIdle \o Claim("completed", Main, Batch) \o LeaveScope)

worker_stealing == <<FanOut(4), FanOut(1)>>

runtime_stats == <<
    Scene(4, Bodies(1, Batch, Add("completed")) @@ Bodies(Batch + 1, 2, Throw),
          Expect("threads", Main, 4)
          \o Loop(Detach, 1, Batch) \o WaitIdle
          \o Expect("active", Main, 0) \o Expect("queued", Main, 0)
          \o Loop(Detach, Batch + 1, 2) \o WaitIdle
          \o Expect("exceptions", Main, 2) \o LeaveScope) >>

exception_handling == <<
    Scene(4, Bodies(1, 2, Error) @@ (3 :> Throw) @@ (4 :> Value),
          Enqueue(1) \o Get(1) \o Catch("task's own")
          \o Enqueue(2) \o Get(2) \o Catch("task's own")
          \o Expect("exceptions", Main, 0) \o Detach(3) \o WaitIdle
          \o Expect("exceptions", Main, 1)
          \o Enqueue(4) \o Get(4) \o LeaveScope) >>

\* Of the tasks that were queued nobody knows how many had started, only that
\* what had started has finished.
discard_shutdown == <<
    Scene(1, Bodies(1, Batch + 1, Add("started") \o Add("completed")),
          Loop(Detach, 1, Batch + 1) \o Shutdown("Discard")
          \o Expect("inFlight", Main, 0) \o Claim("queued", Main, 0) \o LeaveScope),
    Scene(2, Bodies(1, Batch, Add("completed")),
          Loop(Detach, 1, Batch) \o Shutdown("Finish") \o Shutdown("Discard")
          \o Expect("completed", Main, Batch) \o Expect("stopped", Main, TRUE)
          \o LeaveScope) >>

\* Mutant: the chunks' size is rounded down.
ChunkSizeRoundedDown(n, chunks) == n \div chunks

\* A range is split into contiguous chunks of one size, the last one shorter
\* and those behind it not at all.
ChunkSize(n, chunks) == (n + chunks - 1) \div chunks
ChunkCount(n, chunks) ==
    Cardinality({c \in 0..(chunks - 1) : c * ChunkSize(n, chunks) < n})
Chunk(n, chunks, c) == {i \in 0..(n - 1) : i \div ChunkSize(n, chunks) = c}

Items == 0..(ItemCount - 1)
Chunks(size) == ChunkCount(ItemCount, size)

parallelFor(first, size) ==
    Loop(Enqueue, first, Chunks(size)) \o Loop(Get, first, Chunks(size))

\* The tasks of parallelFor(): the chunks' items, moved up by offset.
ChunkBodies(first, size, offset) ==
    [k \in first..(first + Chunks(size) - 1) |->
        Write({offset + i : i \in Chunk(ItemCount, size, k - first)}) \o Value]

\* Each chunk's sum goes to the slot its first item belongs to.
SlotBodies(first, size) ==
    [k \in first..(first + Chunks(size) - 1) |->
        Write({ItemCount + (((k - first) * ChunkSize(ItemCount, size))
                            \div ChunkSize(ItemCount, size))}) \o Value]

parallel_for == <<
    Scene(4, ChunkBodies(1, 4, 0) @@ SlotBodies(1 + Chunks(4), 4),
          parallelFor(1, 4) \o Expect("written", Main, Items)
          \o parallelFor(1 + Chunks(4), 4)
          \o Expect("written", Main, 0..(ItemCount + Chunks(4) - 1)) \o LeaveScope) >>

\* parallelTransform() and parallelCountIf() split as parallelFor() does.
stl_algorithms == <<
    Scene(4, ChunkBodies(1, 4, 0) @@ ChunkBodies(1 + Chunks(4), 4, ItemCount),
          parallelFor(1, 4) \o Expect("written", Main, Items)
          \o parallelFor(1 + Chunks(4), 4)
          \o Expect("written", Main, 0..(2 * ItemCount - 1)) \o LeaveScope) >>

producer_consumer == <<
    Scene(4, Bodies(1, Batch, Add("completed")) @@ Bodies(Batch + 1, Batch, Add("started")),
          Loop(Detach, 1, Batch) \o WaitIdle \o Expect("completed", Main, Batch)
          \o Loop(Detach, Batch + 1, Batch) \o WaitIdle
          \o Expect("started", Main, Batch) \o LeaveScope) >>

\* One stage after the other, the same inside a task, and two pipelines at once.
Stages(first) == [i \in 1..6 |-> IF i % 2 = 1 THEN Enqueue(first + (i \div 2))[1]
                                 ELSE Get(first + (i \div 2) - 1)[1]]

pipeline_stages == <<
    Scene(4, Bodies(1, 3, Value) @@ (4 :> (Stages(5) \o Value)) @@ Bodies(5, 3 + 3 * Batch, Value),
          Stages(1) \o Enqueue(4) \o Get(4)
          \o Loop(Enqueue, 8, Batch) \o Loop(Get, 8, Batch)
          \o Loop(Enqueue, Batch + 8, Batch) \o Loop(Get, Batch + 8, Batch)
          \o Loop(Enqueue, 2 * Batch + 8, Batch) \o Loop(Get, 2 * Batch + 8, Batch)
          \o LeaveScope) >>

double_get == <<
    Scene(2, Bodies(1, 3, Value),
          Enqueue(1) \o Get(1) \o Get(1) \o Catch("logic_error")
          \o Enqueue(2) \o Get(2) \o Expect("valid", 2, FALSE)
          \o Enqueue(3) \o MoveFuture(3, 4) \o Expect("valid", 3, FALSE)
          \o Expect("valid", 4, TRUE) \o Get(4) \o LeaveScope) >>

\* Futures 2 and 4 are default-constructed.
empty_future_get == <<
    Scene(2, 1 :> Value,
          Expect("valid", 2, FALSE) \o Get(2) \o Catch("logic_error")
          \o Enqueue(1) \o MoveFuture(1, 3)
          \o Expect("valid", 1, FALSE) \o Expect("valid", 3, TRUE)
          \o Get(1) \o Catch("logic_error") \o Get(3)
          \o Expect("valid", 4, FALSE) \o LeaveScope) >>

\* The second pool is made while the first, stopped, still is there.
submit_after_shutdown == <<
    Scene(2, 1 :> Value,
          Shutdown("Finish") \o Enqueue(1) \o Get(1) \o Catch("runtime_error")
          \o Detach(2) \o Catch("runtime_error") \o LeaveScope),
    Scene(2, <<>>, Shutdown("Finish") \o Expect("stopped", Main, TRUE) \o LeaveScope) >>

worker_self_join == <<
    Scene(2, 1 :> (Add("completed") \o Shutdown("Finish")),
          Detach(1) \o AwaitStopped \o Expect("completed", Main, 1)
          \o Expect("stopped", Main, TRUE) \o LeaveScope),
    Scene(2, 1 :> Value, Enqueue(1) \o Get(1) \o LeaveScope) >>

ScenesOf == [
    basic_usage |-> basic_usage, enqueue_future |-> enqueue_future,
    detach_task |-> detach_task, pool_shutdown |-> pool_shutdown,
    wait_idle |-> wait_idle, pause_resume |-> pause_resume,
    batch_enqueue |-> batch_enqueue, nested_submit |-> nested_submit,
    worker_stealing |-> worker_stealing, runtime_stats |-> runtime_stats,
    exception_handling |-> exception_handling, discard_shutdown |-> discard_shutdown,
    parallel_for |-> parallel_for, stl_algorithms |-> stl_algorithms,
    producer_consumer |-> producer_consumer, pipeline_stages |-> pipeline_stages,
    double_get |-> double_get, empty_future_get |-> empty_future_get,
    submit_after_shutdown |-> submit_after_shutdown,
    worker_self_join |-> worker_self_join]

----------------------------------------------------------------------------
\* The registry: each suite gets the next number of its category.

\* Mutant: the number of the category, and not of the suite in it.
NumberOfCategory(i) == Cardinality({Registered[j].category : j \in 1..i})
Number(i) == Cardinality({j \in 1..i : Registered[j].category = Registered[i].category})

example_registry ==
    [i \in DOMAIN Registered |->
        [id |-> Initial[Registered[i].category] \o ToString(Number(i)),
         category |-> Registered[i].category, name |-> Registered[i].name]]

Suites == {example_registry[i] : i \in DOMAIN example_registry}
Categories == {suite.category : suite \in Suites}

\* The groups of the list: a suite opens a new one if the last is not its own.
grouped ==
    {i \in DOMAIN example_registry :
        i = 1 \/ example_registry[i].category # example_registry[i - 1].category}

\* The suites an argument names: one, by its name or id, or else a category's.
\* Case, and underscores for spaces, are not told apart.
Exact(argument) ==
    {i \in DOMAIN example_registry :
        argument \in {example_registry[i].name, example_registry[i].id}}
First(S) == CHOOSE i \in S : \A j \in S : i <= j

Matching(argument) ==
    IF Exact(argument) # {} THEN <<example_registry[First(Exact(argument))]>>
    ELSE SelectSeq(example_registry, LAMBDA suite : suite.category = argument)

----------------------------------------------------------------------------
\* main(), and the drivers of the suites.

NoReport == [kind |-> "none", examples |-> 0, categories |-> 0]
Report(kind, examples, categories) ==
    [kind |-> kind, examples |-> examples, categories |-> categories]

\* Nothing is left of a scene.
NoScene ==
    /\ todo = [t \in Threads |-> <<>>]
    /\ future = [f \in Handles |-> NoTask]
    /\ outcome = [k \in Tasks |-> "none"]
    /\ counter = [c \in {"started", "completed"} |-> 0]
    /\ cells = [i \in 0..(2 * ItemCount + 3) |-> 0]
    /\ inScope = {"locals", "pool"}
    /\ children = {}

Init ==
    /\ Pool!NewPool(0)
    /\ NoScene
    /\ request \in Requests
    /\ agenda = <<>>
    /\ opened = 0
    /\ ran = <<>>
    /\ report = NoReport

Starting == report = NoReport /\ ran = <<>> /\ agenda = <<>>

\* The requests that run nothing.
Answer(kind, examples, categories) ==
    /\ report' = Report(kind, examples, categories)
    /\ UNCHANGED <<poolVars, sceneVars, request, agenda, opened, ran>>

printUsage == Starting /\ request \in {"-h", "--help"} /\ Answer("usage", 0, 0)

printExampleSuiteList ==
    Starting /\ request = "list" /\ Answer("list", Len(example_registry), Cardinality(grouped))

Unknown ==
    /\ Starting
    /\ request \notin {"", "-h", "--help", "list"}
    /\ Matching(request) = <<>>
    /\ Answer("unknown", 0, 0)

\* printAllExampleSuite(), runSuites() or printOneSuite().
Choose ==
    /\ Starting
    /\ request \notin {"-h", "--help", "list"}
    /\ agenda' = IF request = "" THEN example_registry ELSE Matching(request)
    /\ agenda' # <<>>
    /\ UNCHANGED <<poolVars, sceneVars, request, opened, ran, report>>

\* The scenes of the suite that runs, or ran last.
Scenes == IF ran = <<>> THEN <<>> ELSE ScenesOf[ran[Len(ran)].name]
Idle == todo[Main] = <<>>

\* run_examples() of the next suite.
RunSuite ==
    /\ Idle
    /\ opened = Len(Scenes)
    /\ agenda # <<>>
    /\ agenda' = Tail(agenda)
    /\ opened' = 0
    /\ ran' = Append(ran, Head(agenda))
    /\ UNCHANGED <<poolVars, sceneVars, request, report>>

\* ThreadPool pool(size), and the locals behind it.
OpenScene ==
    /\ Idle
    /\ opened < Len(Scenes)
    /\ opened' = opened + 1
    /\ LET scene == Scenes[opened + 1]
       IN  /\ Pool!Construct(scene.size)
           /\ todo' = [t \in Threads |-> IF t = Main THEN scene.main ELSE scene.body[t]]
    /\ future' = [f \in Handles |-> NoTask]
    /\ outcome' = [k \in Tasks |-> "none"]
    /\ counter' = [c \in DOMAIN counter |-> 0]
    /\ cells' = [i \in DOMAIN cells |-> 0]
    /\ inScope' = {"locals", "pool"}
    /\ children' = {}
    /\ UNCHANGED <<request, agenda, ran, report>>

\* printRunSummary(): not behind a single suite asked for by name or id.
printRunSummary ==
    /\ Idle
    /\ opened = Len(Scenes) /\ agenda = <<>>
    /\ ran # <<>>
    /\ report = NoReport
    /\ IF request = "" THEN Answer("summary", Len(ran), Cardinality(Categories))
       ELSE IF Exact(request) # {} THEN Answer("one", Len(ran), 1)
       ELSE Answer("summary", Len(ran), 1)

----------------------------------------------------------------------------
\* What a thread of a scene does: main, or a task that is running.

Acts(t) == t # Main => status[t] = "running"
At(t, name) == todo[t] # <<>> /\ Head(todo[t])[1] = name /\ Acts(t)
Arg(t, i) == Head(todo[t])[i]
Advance(t) == todo' = [todo EXCEPT ![t] = Tail(@)]

\* An exception goes to the next handler for its type; a task has none.
Unwind(t, kind) ==
    LET handlers == {i \in DOMAIN todo[t] : todo[t][i] = Catch(kind)[1]}
    IN  todo' = [todo EXCEPT ![t] = IF handlers = {} THEN Throw
                                    ELSE SubSeq(@, First(handlers) + 1, Len(@))]

AtSubmit(t) == At(t, "detach") \/ At(t, "enqueue")

SubmitAccepted(t) ==
    /\ AtSubmit(t)
    /\ Pool!Submit(Arg(t, 2))
    /\ children' = IF t = Main THEN children ELSE children \cup {Arg(t, 2)}
    /\ UNCHANGED <<todo, future, outcome, counter, cells, inScope, runVars>>

SubmitRefused(t) ==
    /\ AtSubmit(t)
    /\ Pool!Refuse(Arg(t, 2))
    /\ Unwind(t, "runtime_error")
    /\ UNCHANGED <<localVars, runVars>>

SubmitReturns(t) ==
    /\ AtSubmit(t)
    /\ Pool!Return(Arg(t, 2))
    /\ future' = IF At(t, "enqueue") THEN [future EXCEPT ![Arg(t, 2)] = @ + Arg(t, 2)]
                 ELSE future
    /\ Advance(t)
    /\ UNCHANGED <<outcome, counter, cells, inScope, children, runVars>>

MovesFuture(t) ==
    /\ At(t, "move")
    /\ future' = [future EXCEPT ![Arg(t, 3)] = future[Arg(t, 2)], ![Arg(t, 2)] = NoTask]
    /\ Advance(t)
    /\ UNCHANGED <<poolVars, outcome, counter, cells, inScope, children, runVars>>

\* get() of a Future without a state.
GetThrows(t) ==
    /\ At(t, "get")
    /\ future[Arg(t, 2)] = NoTask
    /\ Unwind(t, "logic_error")
    /\ UNCHANGED <<poolVars, localVars, runVars>>

\* get() waits for the result, and leaves the Future without its state.
GetReturns(t) ==
    /\ At(t, "get")
    /\ LET k == future[Arg(t, 2)]
       IN  /\ k # NoTask
           /\ \/ outcome[k] = "value" /\ Advance(t)
              \/ outcome[k] = "error" /\ Unwind(t, "task's own")
    /\ future' = [future EXCEPT ![Arg(t, 2)] = NoTask]
    /\ UNCHANGED <<poolVars, outcome, counter, cells, inScope, children, runVars>>

WaitIdleBegins ==
    /\ At(Main, "waitIdle")
    /\ Pool!WaitBegin(Main)
    /\ UNCHANGED <<sceneVars, runVars>>

WaitIdleReturns ==
    /\ At(Main, "waitIdle")
    /\ Pool!WaitEnd(Main)
    /\ Advance(Main)
    /\ UNCHANGED <<localVars, runVars>>

Pauses ==
    /\ \/ At(Main, "pause") /\ Pool!Pause
       \/ At(Main, "resume") /\ Pool!Resume
    /\ Advance(Main)
    /\ UNCHANGED <<localVars, runVars>>

\* The first shutdown(), the destructor's for one, waits for the workers; a
\* later one does not.
By(t) == {t} \ {Main}

ShutdownBegins(t) ==
    /\ \/ At(t, "shutdown") /\ Pool!Stop(Arg(t, 2), By(t))
       \/ At(t, "destroyPool") /\ Pool!Stop("Finish", By(t))
    /\ UNCHANGED <<sceneVars, runVars>>

\* Mutant: the first shutdown() waits for nobody either.
MayLeaveAtOnce(t) == mode # "Running"
MayLeaveShutdown(t) == mode # "Running" /\ (stopper = By(t) => closed)

ShutdownReturns(t) ==
    /\ At(t, "shutdown")
    /\ MayLeaveShutdown(t)
    /\ Advance(t)
    /\ UNCHANGED <<poolVars, localVars, runVars>>

\* A block ends: its locals are destroyed, and then its pool, made first.
LeavesScope ==
    /\ \/ At(Main, "leaveScope") /\ inScope' = inScope \ {"locals"}
       \/ At(Main, "destroyPool") /\ MayLeaveShutdown(Main) /\ inScope' = inScope \ {"pool"}
    /\ Advance(Main)
    /\ UNCHANGED <<poolVars, future, outcome, counter, cells, children, runVars>>

SeesStopped ==
    /\ At(Main, "awaitStopped")
    /\ mode # "Running"
    /\ Advance(Main)
    /\ UNCHANGED <<poolVars, localVars, runVars>>

\* The value of what a line prints.
Observed(what, of) ==
    CASE what = "threads" -> workers
      [] what = "paused" -> paused
      [] what = "stopped" -> mode # "Running"
      [] what = "queued" -> Cardinality(Pool!Queued)
      [] what = "active" -> Cardinality(Pool!Running)
      [] what = "exceptions" -> exceptions
      [] what \in {"started", "completed"} -> counter[what]
      [] what = "inFlight" -> counter["started"] - counter["completed"]
      [] what = "finished" -> of \in Pool!Finished
      [] what = "valid" -> future[of] # NoTask
      [] what = "written" -> {i \in DOMAIN cells : cells[i] = 1}

Prints ==
    /\ At(Main, "expect") \/ At(Main, "claim")
    /\ Advance(Main)
    /\ UNCHANGED <<poolVars, localVars, runVars>>

\* A task writes to the variables it captured.
TaskAdds(k) ==
    /\ At(k, "add")
    /\ counter' = [counter EXCEPT ![Arg(k, 2)] = @ + 1]
    /\ Advance(k)
    /\ UNCHANGED <<poolVars, future, outcome, cells, inScope, children, runVars>>

TaskWrites(k) ==
    /\ At(k, "write")
    /\ cells' = [i \in DOMAIN cells |-> IF i \in Arg(k, 2) THEN cells[i] + 1 ELSE cells[i]]
    /\ Advance(k)
    /\ UNCHANGED <<poolVars, future, outcome, counter, inScope, children, runVars>>

TaskPublishes(k) ==
    /\ At(k, "publish")
    /\ outcome' = [outcome EXCEPT ![k] = Arg(k, 2)]
    /\ Advance(k)
    /\ UNCHANGED <<poolVars, future, counter, cells, inScope, children, runVars>>

TaskEnds(k) ==
    /\ \/ Acts(k) /\ todo[k] = <<>> /\ Pool!End(k, "done")
       \/ At(k, "throw") /\ Pool!End(k, "threw")
    /\ UNCHANGED <<sceneVars, runVars>>

\* A task, or the pool, by itself.
TaskStep(k) == k \in Tasks /\ (TaskAdds(k) \/ TaskWrites(k) \/ TaskPublishes(k) \/ TaskEnds(k))

ThreadStep(t) ==
    \/ SubmitAccepted(t) \/ SubmitRefused(t) \/ SubmitReturns(t) \/ MovesFuture(t)
    \/ GetThrows(t) \/ GetReturns(t) \/ ShutdownBegins(t) \/ ShutdownReturns(t)
    \/ TaskStep(t)

MainStep ==
    \/ WaitIdleBegins \/ WaitIdleReturns \/ Pauses \/ LeavesScope \/ SeesStopped \/ Prints
    \/ printUsage \/ printExampleSuiteList \/ Unknown \/ Choose \/ RunSuite \/ OpenScene
    \/ printRunSummary

Work(k) == (Pool!Enqueue(k) \/ Pool!Begin(k)) /\ UNCHANGED <<sceneVars, runVars>>
Settle == (Pool!CountException \/ Pool!Close) /\ UNCHANGED <<sceneVars, runVars>>

\* The program has come to its end.
Ended == report # NoReport /\ UNCHANGED vars

Next ==
    \/ \E t \in Threads : ThreadStep(t)
    \/ MainStep
    \/ \E k \in Tasks : Work(k)
    \/ Settle
    \/ Ended

\* Something that can happen does: no step but the last can be repeated, so
\* that it does not matter which.
FairSpec == Init /\ [][Next]_vars /\ WF_vars(Next)

----------------------------------------------------------------------------
\* Properties.

\* Every line shows what the suite says it shows, in every order of the tasks,
\* and every exception a suite provokes is thrown and caught by the handler it
\* has for it.
Shows(lines) ==
    \A line \in lines : At(Main, line) => Observed(Arg(Main, 2), Arg(Main, 3)) = Arg(Main, 4)

ExpectedOutput ==
    /\ Shows({"expect"})
    /\ ~At(Main, "catch")
    /\ ~At(Main, "throw")

\* The same, with the claims that depend on what the pool does not promise.
ClaimsHold == Shows({"expect", "claim"})

\* The tasks that may still run, and that write to what they captured.
Unfinished == Pool!Running \cup (IF closed THEN {} ELSE Pool!Queued)
Writes(k) == \E i \in DOMAIN todo[k] : todo[k][i][1] \in {"add", "write"}

\* A scene's locals are destroyed before its pool.  No task that main has
\* submitted still has to write to them then: main has waited for it, or it
\* will not run.
LocalsOutliveTasks ==
    "locals" \notin inScope => \A k \in Unfinished : Writes(k) => k \in children

\* The same of the tasks that tasks submit.
LocalsOutliveChildren ==
    "locals" \notin inScope => \A k \in Unfinished : ~Writes(k)

\* A pool that no task has shut down is destroyed only once shutdown() has been
\* through its workers, whoever called it first and however often: no task
\* runs or is about to.
PoolOutlivesTasks ==
    "pool" \notin inScope /\ stopper = {} => closed /\ Pool!Running = {}

\* Both: what a task uses, its scene's locals and its pool, outlives it.
ScopesOutliveTasks == LocalsOutliveTasks /\ PoolOutlivesTasks

\* The same of every pool: what a suite says of a task that shuts its pool down.
PoolOutlivesEveryTask == "pool" \notin inScope => closed /\ Pool!Running = {}

\* At its end the program has run the suites the argument names, each once and
\* in the registry's order, and printed their number and that of their
\* categories; and each suite can be asked for alone by its id and its name.
RequestHonoured ==
    report.kind # "none" =>
        /\ report.kind \in {"one", "summary"} =>
              /\ report.examples = Len(ran)
              /\ report.categories = Cardinality({ran[i].category : i \in DOMAIN ran})
              /\ ran = SelectSeq(example_registry, LAMBDA suite :
                          request \in {"", suite.id, suite.name, suite.category})
        /\ report.kind = "list" => report.categories = Cardinality(Categories)
        /\ report.kind = "unknown" =>
              request \notin UNION {{suite.id, suite.name, suite.category} : suite \in Suites}
        /\ \A suite \in Suites : \A argument \in {suite.id, suite.name} :
              Matching(argument) = <<suite>>

\* The program ends, whatever it was asked for: no scene is stuck in a get(), a
\* waitIdle() or a shutdown().
ProgramEnds == <>(report # NoReport)
=============================================================================
