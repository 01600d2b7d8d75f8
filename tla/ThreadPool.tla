----------------------------- MODULE ThreadPool -----------------------------
(***************************************************************************)
(* ThreadPool: the workers' loop, submit(), waitIdle(), pause(), resume()  *)
(* and shutdown(), with the counters and the wake token they share.  The   *)
(* threads are the pool's workers and its clients; a step is one access to *)
(* shared state or several that no other thread can tell apart.  A queue   *)
(* operation is one step: WorkStealingQueue.tla shows that the local       *)
(* queues behave so, and a shard is locked.  Memory is sequentially        *)
(* consistent.                                                             *)
(*                                                                         *)
(* What clients and tasks do is a constant: a sequence of operations for   *)
(* each.  <<"submit", k>> is detach() or enqueue() of task k, <<"get", k>> *)
(* a get() on k's future, <<"throw">> an exception that leaves the task;   *)
(* <<"pause">>, <<"resume">>, <<"waitIdle">> and <<"shutdown", mode>> are  *)
(* the calls of those names.                                               *)
(***************************************************************************)
EXTENDS Integers, Sequences, FiniteSets

CONSTANTS
    WorkerCount,           \* workerCount_
    Clients,               \* the threads outside the pool that use it
    Tasks,                 \* the tasks that may be submitted, each once
    ShardCount,            \* injectionShardCount_
    SizeModulus,           \* values of size_t, the counters' type
    Programs,              \* the operation sequences each client may run
    Bodies                 \* the operation sequence each task runs

ASSUME WorkerAssumption == WorkerCount \in Nat \ {0}
ASSUME ShardAssumption == ShardCount \in Nat \ {0}

Workers == 0..(WorkerCount - 1)
Threads == Workers \cup Clients
Shards == 0..(ShardCount - 1)

NoTask == "no task"
NoCall == <<"none">>
NoQueue == -1

ASSUME ClientsAssumption == IsFiniteSet(Clients) /\ Clients \cap Workers = {}
ASSUME TasksAssumption == IsFiniteSet(Tasks) /\ NoTask \notin Tasks
\* A size_t can count the tasks and the threads.
ASSUME SizeAssumption ==
    SizeModulus \in Nat /\ SizeModulus > Cardinality(Tasks)
                        /\ SizeModulus > Cardinality(Threads)

\* waitIdle() is for clients alone: a task that called it would wait for itself.
\* What a client would throw is its own affair.
Operations == {<<"submit", k>> : k \in Tasks} \cup {<<"get", k>> : k \in Tasks}
              \cup {<<"pause">>, <<"resume">>, <<"shutdown", "Finish">>,
                    <<"shutdown", "Discard">>}
ClientOperations == Operations \cup {<<"waitIdle">>}
TaskOperations == Operations \cup {<<"throw">>}

ASSUME ProgramsAssumption ==
    /\ \A c \in Clients : \A p \in Programs[c] : p \in Seq(ClientOperations)
    /\ \A k \in Tasks : Bodies[k] \in Seq(TaskOperations)

\* The tasks that a sequence of operations submits.
Submits(ops) == {k \in Tasks : \E i \in 1..Len(ops) : ops[i] = <<"submit", k>>}
NoneTwice(ops) == \A i, j \in 1..Len(ops) :
                     ops[i] = ops[j] /\ ops[i][1] = "submit" => i = j

\* A task stands for one submission, so that no two operations of a behaviour
\* submit the same one.
ASSUME SubmittedOnce ==
    /\ \A c \in Clients : \A p \in Programs[c] : NoneTwice(p)
    /\ \A k \in Tasks : NoneTwice(Bodies[k])
    /\ \A c, d \in Clients : c # d => \A p \in Programs[c], q \in Programs[d] :
          Submits(p) \cap Submits(q) = {}
    /\ \A c \in Clients, k \in Tasks : \A p \in Programs[c] :
          Submits(p) \cap Submits(Bodies[k]) = {}
    /\ \A j, k \in Tasks : j # k => Submits(Bodies[j]) \cap Submits(Bodies[k]) = {}

VARIABLES
    runState,              \* runState_: "Running", "Finish" or "Discard"
    paused,                \* paused_
    pendingTasks,          \* pendingTasks_, a size_t
    activeTasks,           \* activeTasks_
    idleWorkers,           \* idleWorkers_
    waitIdleWaiters,       \* waitIdleWaiters_
    exceptionCounter,      \* exceptionCounter_
    local,                 \* each worker's queue_, its top first
    shard,                 \* each injection shard's queue_, its front first
    roundRobin,            \* injectionRoundRobin_, modulo the shards
    fresh,                 \* the threads that observed wakeToken_'s value
    joining,               \* the worker shutdown() is waiting for
    selfDetach,            \* the workers whose selfDetachRequested_ is set
    pc,                    \* where each thread is
    frame,                 \* each thread's locals (see Frames)
    status,                \* history: what has become of each task
    accepted,              \* history: tasks whose submit() has returned
    passed                 \* history: workers past their check of paused_
                           \* when pause() last set it

stateVars == <<runState, paused>>
countVars == <<pendingTasks, activeTasks, idleWorkers, waitIdleWaiters,
               exceptionCounter>>
queueVars == <<local, shard, roundRobin>>
joinVars == <<joining, selfDetach>>
poolVars == <<stateVars, countVars, queueVars, joinVars>>
historyVars == <<status, accepted, passed>>
restVars == <<stateVars, queueVars, fresh, joinVars, historyVars>>
vars == <<stateVars, countVars, queueVars, fresh, joinVars, pc, frame, historyVars>>

----------------------------------------------------------------------------
\* A thread's locals: the rest of a client's program, the task it has fetched
\* or runs and the rest of that, the call it is in, where its scan for a task
\* has got to, the local queue its task came from, what it waits for, whether
\* it is in waitIdle(), and the tasks accepted when it called that.
IdleFrame == [todo |-> <<>>, task |-> NoTask, ops |-> <<>>, call |-> NoCall,
              offset |-> 0, probe |-> 0, from |-> NoQueue, waitFor |-> "none",
              draining |-> FALSE, seen |-> {}]

Goto(t, label) == pc' = [pc EXCEPT ![t] = label]

\* The thread moves on and nothing else changes.
Move(t, label) == Goto(t, label) /\ UNCHANGED <<poolVars, fresh, frame, historyVars>>

\* The operations the thread is to do next, and the frame past the first.
InTask(t) == frame[t].task # NoTask
Ops(t) == IF InTask(t) THEN frame[t].ops ELSE frame[t].todo
AtOp(t, op) == pc[t] = "run" /\ Ops(t) # <<>> /\ Head(Ops(t))[1] = op
Advanced(t) == IF InTask(t) THEN [frame[t] EXCEPT !.ops = Tail(@)]
                            ELSE [frame[t] EXCEPT !.todo = Tail(@)]
Advance(t) == frame' = [frame EXCEPT ![t] = Advanced(t)]

\* Mutant: a counter that goes below 0.
WrapSigned(n) == n

\* A counter of type size_t.
Wrap(n) == n % SizeModulus

Init ==
    /\ runState = "Running"
    /\ paused = FALSE
    /\ pendingTasks = 0
    /\ activeTasks = 0
    /\ idleWorkers = 0
    /\ waitIdleWaiters = 0
    /\ exceptionCounter = 0
    /\ local = [w \in Workers |-> <<>>]
    /\ shard = [s \in Shards |-> <<>>]
    /\ roundRobin = 0
    /\ fresh = {}
    /\ joining = 0
    /\ selfDetach = {}
    /\ pc = [t \in Threads |-> IF t \in Workers THEN "top" ELSE "run"]
    /\ \E program \in [Clients -> UNION {Programs[c] : c \in Clients}] :
          /\ \A c \in Clients : program[c] \in Programs[c]
          /\ frame = [t \in Threads |-> IF t \in Workers THEN IdleFrame
                                        ELSE [IdleFrame EXCEPT !.todo = program[t]]]
    /\ status = [k \in Tasks |-> "unsubmitted"]
    /\ accepted = {}
    /\ passed = {}

----------------------------------------------------------------------------
\* submit(), from a client, a worker's task or a task a client helps with.

SubmitBegin(t) ==
    /\ AtOp(t, "submit")
    /\ frame' = [frame EXCEPT ![t] = [Advanced(t) EXCEPT !.call = Head(Ops(t))]]
    /\ Goto(t, "submitCheck")
    /\ UNCHANGED <<poolVars, fresh, historyVars>>

SubmitAllowed(t) ==
    /\ pc[t] = "submitCheck"
    /\ runState = "Running"
    /\ Move(t, "submitPush")

\* The exception ends the task that called submit(), or returns to the client.
SubmitRefused(t) ==
    /\ pc[t] = "submitCheck"
    /\ runState # "Running"
    /\ frame' = [frame EXCEPT ![t].call = NoCall, ![t].ops = <<>>]
    /\ status' = [status EXCEPT ![frame[t].call[2]] = "refused"]
    /\ Goto(t, IF InTask(t) THEN "threw" ELSE "run")
    /\ UNCHANGED <<poolVars, fresh, accepted, passed>>

\* The task is in a queue before it is counted.
SubmitPush(t) ==
    LET task == frame[t].call[2]
    IN  /\ pc[t] = "submitPush"
        /\ IF t \in Workers
           THEN /\ local' = [local EXCEPT ![t] = Append(@, task)]
                /\ UNCHANGED <<shard, roundRobin>>
           ELSE /\ shard' = [shard EXCEPT ![roundRobin] = Append(@, task)]
                /\ roundRobin' = (roundRobin + 1) % ShardCount
                /\ UNCHANGED local
        /\ status' = [status EXCEPT ![task] = "queued"]
        /\ Goto(t, "submitCount")
        /\ UNCHANGED <<stateVars, countVars, fresh, joinVars, frame, accepted, passed>>

SubmitCount(t) ==
    /\ pc[t] = "submitCount"
    /\ pendingTasks' = Wrap(pendingTasks + 1)
    /\ Goto(t, "submitIdle")
    /\ UNCHANGED <<restVars, activeTasks, idleWorkers, waitIdleWaiters,
                   exceptionCounter, frame>>

SubmitReturn(t) ==
    /\ accepted' = accepted \cup {frame[t].call[2]}
    /\ frame' = [frame EXCEPT ![t].call = NoCall]
    /\ UNCHANGED <<poolVars, status, passed>>

\* Mutant: one idle worker is left asleep.
SubmitOneIdleSkips(t) ==
    /\ pc[t] = "submitIdle"
    /\ idleWorkers <= 1
    /\ Goto(t, "run")
    /\ SubmitReturn(t)
    /\ UNCHANGED fresh

SubmitNobodyIdle(t) ==
    /\ pc[t] = "submitIdle"
    /\ idleWorkers = 0
    /\ Goto(t, "run")
    /\ SubmitReturn(t)
    /\ UNCHANGED fresh

SubmitSomebodyIdle(t) ==
    /\ pc[t] = "submitIdle"
    /\ idleWorkers # 0
    /\ Move(t, "submitBump")

\* wakeOne(): the token changes, and then one parked thread is notified.
SubmitBump(t) ==
    /\ pc[t] = "submitBump"
    /\ fresh' = {}
    /\ Goto(t, "submitNotify")
    /\ UNCHANGED <<poolVars, frame, historyVars>>

\* notify_one() chooses any thread parked on the token, worker or waitIdle()
\* caller; one that parked on the token's present value goes back to sleep.
SubmitNotify(t) ==
    /\ pc[t] = "submitNotify"
    /\ LET parked == {u \in Threads : pc[u] = "parked"}
       IN  \/ parked = {} /\ Goto(t, "run")
           \/ \E u \in parked :
                 pc' = [pc EXCEPT ![t] = "run",
                                  ![u] = IF u \in fresh THEN "parked" ELSE "spin"]
    /\ SubmitReturn(t)
    /\ UNCHANGED fresh

----------------------------------------------------------------------------
\* pause() and resume().

\* What is running, or has passed its last check of paused_, goes on.
Pause(t) ==
    /\ AtOp(t, "pause")
    /\ paused' = TRUE
    /\ passed' = {u \in Threads : pc[u] \in {"act", "pend"}}
    /\ Advance(t)
    /\ UNCHANGED <<runState, countVars, queueVars, fresh, joinVars, pc, status,
                   accepted>>

\* Mutant: resume() without wakeAll().
ResumeQuiet(t) ==
    /\ AtOp(t, "resume")
    /\ paused' = FALSE
    /\ Advance(t)
    /\ UNCHANGED <<runState, countVars, queueVars, fresh, joinVars, pc, historyVars>>

Resume(t) ==
    /\ AtOp(t, "resume")
    /\ paused' = FALSE
    /\ frame' = [frame EXCEPT ![t] = [Advanced(t) EXCEPT !.call = Head(Ops(t))]]
    /\ Goto(t, "wake")
    /\ UNCHANGED <<runState, countVars, queueVars, fresh, joinVars, historyVars>>

\* wakeAll(), from resume(), from shutdown() or behind a finished task.  A
\* thread that parks between the token's change and notify_all() has seen the
\* new token and sleeps on, so the two are one step.
WakeAll(t) ==
    /\ pc[t] = "wake"
    /\ LET after == CASE frame[t].call[1] = "resume" -> "run"
                      [] frame[t].call[1] = "shutdown" -> "join"
                      [] OTHER -> IF t \in Workers THEN "top" ELSE "waitTop"
       IN  pc' = [u \in Threads |-> IF u = t THEN after
                                    ELSE IF pc[u] = "parked" THEN "spin" ELSE pc[u]]
    /\ fresh' = {}
    /\ frame' = [frame EXCEPT ![t].call = IF @[1] = "resume" THEN NoCall ELSE @]
    /\ UNCHANGED <<poolVars, historyVars>>

----------------------------------------------------------------------------
\* shutdown(), and the destructor, which calls it.

ShutdownWon(t) ==
    /\ AtOp(t, "shutdown")
    /\ runState = "Running"
    /\ runState' = Head(Ops(t))[2]
    /\ frame' = [frame EXCEPT ![t] = [Advanced(t) EXCEPT !.call = Head(Ops(t))]]
    /\ Goto(t, "wake")
    /\ UNCHANGED <<paused, countVars, queueVars, fresh, joinVars, historyVars>>

\* A later call returns at once, without waiting for the workers.
ShutdownLost(t) ==
    /\ AtOp(t, "shutdown")
    /\ runState # "Running"
    /\ Advance(t)
    /\ UNCHANGED <<poolVars, fresh, pc, historyVars>>

\* Mutant: no waitDone().
JoinWorkerUnwaited(t) ==
    /\ pc[t] = "join"
    /\ joining < WorkerCount
    /\ selfDetach' = selfDetach \cup ({t} \cap {joining})
    /\ joining' = joining + 1
    /\ UNCHANGED <<stateVars, countVars, queueVars, fresh, pc, frame, historyVars>>

\* waitDone() on the next worker, or the flag if that worker is the caller.
JoinWorker(t) ==
    /\ pc[t] = "join"
    /\ joining < WorkerCount
    /\ \/ joining = t /\ selfDetach' = selfDetach \cup {t}
       \/ joining # t /\ pc[joining] = "done" /\ UNCHANGED selfDetach
    /\ joining' = joining + 1
    /\ UNCHANGED <<stateVars, countVars, queueVars, fresh, pc, frame, historyVars>>

ShutdownReturn(t) ==
    /\ pc[t] = "join"
    /\ joining = WorkerCount
    /\ frame' = [frame EXCEPT ![t].call = NoCall]
    /\ Goto(t, "run")
    /\ UNCHANGED <<poolVars, fresh, historyVars>>

----------------------------------------------------------------------------
\* workerLoop(), up to the fetch.  runState_ leaves "Running" once and for all,
\* so the loads behind one decision are one step.

\* Nothing is left to do for a worker that sees this.
Stopped == \/ runState = "Discard"
           \/ runState = "Finish" /\ pendingTasks = 0

\* Mutant: a stopped pool can still be held up by pause().
HeldWhenStopped == paused

Held == paused /\ runState = "Running"

\* The increment of idleWorkers_ and the wait: waitUntil() checks again, so
\* a thread between the check and the increment differs from no other.
StartWait(w, reason) ==
    /\ idleWorkers' = idleWorkers + 1
    /\ frame' = [frame EXCEPT ![w].waitFor = reason]
    /\ Goto(w, "spin")
    /\ UNCHANGED <<restVars, pendingTasks, activeTasks, waitIdleWaiters,
                   exceptionCounter>>

TopPaused(w) ==
    /\ pc[w] = "top"
    /\ Held
    /\ StartWait(w, "resumed")

WorkerStops(w) ==
    /\ w \in Workers
    /\ pc[w] \in {"top", "none"}
    /\ Stopped
    /\ Move(w, "done")

TopFetch(w) ==
    /\ pc[w] = "top"
    /\ ~Held
    /\ ~Stopped
    /\ Move(w, "pop")

----------------------------------------------------------------------------
\* fetchTask() and fetchTaskExternal().

\* A worker checks paused_ once more before it runs the task; a thread in
\* waitIdle() does not.
Fetched(t, task, queue) ==
    /\ frame' = [frame EXCEPT ![t] = [@ EXCEPT !.task = task, !.from = queue,
                                               !.offset = 0, !.probe = 0]]
    /\ Goto(t, IF t \in Workers THEN "recheck" ELSE "act")
    /\ UNCHANGED <<stateVars, countVars, fresh, joinVars, historyVars>>

PopOwn(w) ==
    /\ pc[w] = "pop"
    /\ local[w] # <<>>
    /\ local' = [local EXCEPT ![w] = SubSeq(@, 1, Len(@) - 1)]
    /\ Fetched(w, local[w][Len(local[w])], w)
    /\ UNCHANGED <<shard, roundRobin>>

\* Mutant: nobody steals from a pool of two.
PopNothingNoSteal(w) ==
    /\ pc[w] = "pop"
    /\ local[w] = <<>>
    /\ Move(w, "inject")

\* The random offset is never 0 for a worker; alone, it has no victim.
PopNothing(w) ==
    /\ pc[w] = "pop"
    /\ local[w] = <<>>
    /\ IF WorkerCount = 1
       THEN Goto(w, "inject") /\ UNCHANGED frame
       ELSE /\ \E offset \in 1..(WorkerCount - 1) :
                  frame' = [frame EXCEPT ![w].offset = offset]
            /\ Goto(w, "steal")
    /\ UNCHANGED <<poolVars, fresh, historyVars>>

Victim(t) == IF t \in Workers
             THEN (t + frame[t].offset + frame[t].probe) % WorkerCount
             ELSE (frame[t].offset + frame[t].probe) % WorkerCount

Victims(t) == IF t \in Workers THEN WorkerCount - 1 ELSE WorkerCount

StealTop(t) ==
    /\ pc[t] = "steal"
    /\ local[Victim(t)] # <<>>
    /\ local' = [local EXCEPT ![Victim(t)] = Tail(@)]
    /\ Fetched(t, Head(local[Victim(t)]), Victim(t))
    /\ UNCHANGED <<shard, roundRobin>>

\* The victim's queue is empty, or another thread has just won the CAS on it.
StealMiss(t) ==
    /\ pc[t] = "steal"
    /\ \/ local[Victim(t)] = <<>>
       \/ \E u \in Threads \ {t, Victim(t)} : frame[u].from = Victim(t)
    /\ IF frame[t].probe + 1 < Victims(t)
       THEN frame' = [frame EXCEPT ![t].probe = @ + 1] /\ UNCHANGED pc
       ELSE /\ frame' = [frame EXCEPT ![t].probe = 0, ![t].offset = 0]
            /\ Goto(t, "inject")
    /\ UNCHANGED <<poolVars, fresh, historyVars>>

Probed(t) == IF t \in Workers THEN (t + frame[t].probe) % ShardCount
                              ELSE frame[t].probe

\* Mutant: the task at the front is taken but not popped.
InjectTakeCopies(t) ==
    /\ pc[t] = "inject"
    /\ shard[Probed(t)] # <<>>
    /\ Fetched(t, Head(shard[Probed(t)]), NoQueue)
    /\ UNCHANGED queueVars

InjectTake(t) ==
    /\ pc[t] = "inject"
    /\ shard[Probed(t)] # <<>>
    /\ shard' = [shard EXCEPT ![Probed(t)] = Tail(@)]
    /\ Fetched(t, Head(shard[Probed(t)]), NoQueue)
    /\ UNCHANGED <<local, roundRobin>>

InjectMiss(t) ==
    /\ pc[t] = "inject"
    /\ shard[Probed(t)] = <<>>
    /\ IF frame[t].probe + 1 < ShardCount
       THEN frame' = [frame EXCEPT ![t].probe = @ + 1] /\ UNCHANGED pc
       ELSE frame' = [frame EXCEPT ![t].probe = 0] /\ Goto(t, "none")
    /\ UNCHANGED <<poolVars, fresh, historyVars>>

----------------------------------------------------------------------------
\* Running the task that was fetched.

\* pause() came between the check at the top and here: the task goes back.
RecheckPaused(w) ==
    /\ pc[w] = "recheck"
    /\ Held
    /\ local' = [local EXCEPT ![w] = Append(@, frame[w].task)]
    /\ frame' = [frame EXCEPT ![w].task = NoTask, ![w].from = NoQueue]
    /\ Goto(w, "top")
    /\ UNCHANGED <<stateVars, countVars, shard, roundRobin, fresh, joinVars,
                   historyVars>>

\* Mutant: paused_ is not checked again.
RecheckSkipped(w) == pc[w] = "recheck" /\ Move(w, "act")

RecheckClear(w) ==
    /\ pc[w] = "recheck"
    /\ ~Held
    /\ Move(w, "act")

CountActive(t) ==
    /\ pc[t] = "act"
    /\ activeTasks' = activeTasks + 1
    /\ frame' = [frame EXCEPT ![t].from = NoQueue]
    /\ Goto(t, "pend")
    /\ UNCHANGED <<restVars, pendingTasks, idleWorkers, waitIdleWaiters,
                   exceptionCounter>>

\* Mutant: pendingTasks_ is not decremented.
StartTaskUncounted(t) ==
    /\ pc[t] = "pend"
    /\ frame' = [frame EXCEPT ![t].ops = Bodies[frame[t].task]]
    /\ status' = [status EXCEPT ![frame[t].task] = "running"]
    /\ passed' = passed \ {t}
    /\ Goto(t, "run")
    /\ UNCHANGED <<poolVars, fresh, accepted>>

StartTask(t) ==
    /\ pc[t] = "pend"
    /\ pendingTasks' = Wrap(pendingTasks - 1)
    /\ frame' = [frame EXCEPT ![t].ops = Bodies[frame[t].task]]
    /\ status' = [status EXCEPT ![frame[t].task] = "running"]
    /\ passed' = passed \ {t}
    /\ Goto(t, "run")
    /\ UNCHANGED <<stateVars, activeTasks, idleWorkers, waitIdleWaiters,
                   exceptionCounter, queueVars, fresh, joinVars, accepted>>

\* get() on the future of a task: blocks until the result is there.
Get(t) ==
    /\ AtOp(t, "get")
    /\ status[Head(Ops(t))[2]] \in {"done", "threw"}
    /\ Advance(t)
    /\ UNCHANGED <<poolVars, fresh, pc, historyVars>>

Throw(t) ==
    /\ AtOp(t, "throw")
    /\ Advance(t)
    /\ Goto(t, "threw")
    /\ UNCHANGED <<poolVars, fresh, historyVars>>

\* Mutant: the flag of a worker whose task shut the pool down is not looked at.
TaskDoneTouches(t, label) == Goto(t, label)

\* A worker whose task shut the pool down touches the pool no more.
TaskDone(t, label) == IF t \in selfDetach THEN Goto(t, "done") ELSE Goto(t, label)

TaskReturns(t) ==
    /\ pc[t] = "run"
    /\ InTask(t)
    /\ Ops(t) = <<>>
    /\ status' = [status EXCEPT ![frame[t].task] = "done"]
    /\ TaskDone(t, "retire")
    /\ UNCHANGED <<poolVars, fresh, frame, accepted, passed>>

TaskThrows(t) ==
    /\ pc[t] = "threw"
    /\ status' = [status EXCEPT ![frame[t].task] = "threw"]
    /\ frame' = [frame EXCEPT ![t].ops = <<>>]
    /\ TaskDone(t, "except")
    /\ UNCHANGED <<poolVars, fresh, accepted, passed>>

CountException(t) ==
    /\ pc[t] = "except"
    /\ exceptionCounter' = exceptionCounter + 1
    /\ Goto(t, "retire")
    /\ UNCHANGED <<restVars, pendingTasks, activeTasks, idleWorkers,
                   waitIdleWaiters, frame>>

Retire(t) ==
    /\ pc[t] = "retire"
    /\ activeTasks' = activeTasks - 1
    /\ frame' = [frame EXCEPT ![t].task = NoTask]
    /\ Goto(t, "tell")
    /\ UNCHANGED <<restVars, pendingTasks, idleWorkers, waitIdleWaiters,
                   exceptionCounter>>

\* Only a thread in waitIdle() cares; a helper does not count itself.
Tell(t) ==
    /\ pc[t] = "tell"
    /\ LET others == IF t \in Workers THEN waitIdleWaiters # 0 ELSE waitIdleWaiters > 1
       IN  Goto(t, IF others THEN "wake" ELSE IF t \in Workers THEN "top" ELSE "waitTop")
    /\ UNCHANGED <<poolVars, fresh, frame, historyVars>>

----------------------------------------------------------------------------
\* Nothing fetched: stop, poll, or wait for work.

NonePoll(w) ==
    /\ w \in Workers
    /\ pc[w] = "none"
    /\ runState = "Finish"
    /\ pendingTasks # 0
    /\ Move(w, "top")

NoneIdle(w) ==
    /\ w \in Workers
    /\ pc[w] = "none"
    /\ runState = "Running"
    /\ StartWait(w, "work")

\* A thread in waitIdle() has found nothing to help with.
NoneDrained(c) ==
    /\ c \in Clients
    /\ pc[c] = "none"
    /\ frame' = [frame EXCEPT ![c].waitFor = "drained"]
    /\ Goto(c, "spin")
    /\ UNCHANGED <<poolVars, fresh, historyVars>>

----------------------------------------------------------------------------
\* waitUntil(), that is spinYieldPark() on wakeToken_: the predicate, the
\* token's value, the predicate again, and the park, which returns at once if
\* the token has changed.

\* The predicate holds; for waitIdle() it needs a second load if this is false.
Ready(t) ==
    \/ runState # "Running"
    \/ frame[t].waitFor = "resumed" /\ ~paused
    \/ frame[t].waitFor = "work" /\ (paused \/ pendingTasks # 0)

\* The first of waitIdle()'s two loads sees no task pending.
HalfReady(t) ==
    /\ runState = "Running"
    /\ frame[t].waitFor = "drained"
    /\ pendingTasks = 0

\* Mutant: a worker that goes back to work still counts as idle.
EndWaitStaysIdle(t) ==
    /\ frame' = [frame EXCEPT ![t].waitFor = "none"]
    /\ fresh' = fresh \ {t}
    /\ Goto(t, IF t \in Workers THEN "top" ELSE "waitTop")
    /\ UNCHANGED <<poolVars, historyVars>>

\* waitUntil() returns; a worker is no longer idle.
EndWait(t) ==
    /\ idleWorkers' = IF t \in Workers THEN idleWorkers - 1 ELSE idleWorkers
    /\ frame' = [frame EXCEPT ![t].waitFor = "none"]
    /\ fresh' = fresh \ {t}
    /\ Goto(t, IF t \in Workers THEN "top" ELSE "waitTop")
    /\ UNCHANGED <<stateVars, pendingTasks, activeTasks, waitIdleWaiters,
                   exceptionCounter, queueVars, joinVars, historyVars>>

CheckReady(t) == pc[t] \in {"spin", "look"} /\ Ready(t) /\ EndWait(t)

CheckHalf(t) ==
    /\ HalfReady(t)
    /\ \/ pc[t] = "spin" /\ Move(t, "spinActive")
       \/ pc[t] = "look" /\ Move(t, "lookActive")

CheckActive(t) ==
    /\ pc[t] \in {"spinActive", "lookActive"}
    /\ IF activeTasks = 0 THEN EndWait(t)
       ELSE Move(t, IF pc[t] = "spinActive" THEN "observe" ELSE "park")

CheckFalse(t) ==
    /\ ~Ready(t)
    /\ ~HalfReady(t)
    /\ \/ pc[t] = "spin" /\ Move(t, "observe")
       \/ pc[t] = "look" /\ Move(t, "park")

Observe(t) ==
    /\ pc[t] = "observe"
    /\ fresh' = fresh \cup {t}
    /\ Goto(t, "look")
    /\ UNCHANGED <<poolVars, frame, historyVars>>

Park(t) ==
    /\ pc[t] = "park"
    /\ Move(t, IF t \in fresh THEN "parked" ELSE "spin")

----------------------------------------------------------------------------
\* waitIdle(), for a client outside any task.

WaitBegin(c) ==
    /\ AtOp(c, "waitIdle")
    /\ waitIdleWaiters' = waitIdleWaiters + 1
    /\ frame' = [frame EXCEPT ![c] = [Advanced(c) EXCEPT !.draining = TRUE,
                                                         !.seen = accepted]]
    /\ Goto(c, "waitTop")
    /\ UNCHANGED <<restVars, pendingTasks, activeTasks, idleWorkers,
                   exceptionCounter>>

\* fetchTaskExternal(), from a random victim.
WaitHelp(c) ==
    /\ \E offset \in Workers : frame' = [frame EXCEPT ![c].offset = offset]
    /\ Goto(c, "steal")

WaitTop(c) ==
    /\ pc[c] = "waitTop"
    /\ \/ runState # "Running" /\ Goto(c, "waitExit") /\ UNCHANGED frame
       \/ runState = "Running" /\ pendingTasks = 0 /\ Goto(c, "waitActive")
          /\ UNCHANGED frame
       \/ runState = "Running" /\ pendingTasks # 0 /\ WaitHelp(c)
    /\ UNCHANGED <<poolVars, fresh, historyVars>>

\* The second of the two loads that say the pool is idle.
WaitActive(c) ==
    /\ pc[c] = "waitActive"
    /\ \/ activeTasks = 0 /\ Goto(c, "waitExit") /\ UNCHANGED frame
       \/ activeTasks # 0 /\ WaitHelp(c)
    /\ UNCHANGED <<poolVars, fresh, historyVars>>

WaitExit(c) ==
    /\ pc[c] = "waitExit"
    /\ waitIdleWaiters' = waitIdleWaiters - 1
    /\ frame' = [frame EXCEPT ![c].draining = FALSE, ![c].seen = {}]
    /\ Goto(c, "run")
    /\ UNCHANGED <<restVars, pendingTasks, activeTasks, idleWorkers,
                   exceptionCounter>>

----------------------------------------------------------------------------
Submit(t) ==
    \/ SubmitBegin(t) \/ SubmitAllowed(t) \/ SubmitRefused(t) \/ SubmitPush(t)
    \/ SubmitCount(t) \/ SubmitNobodyIdle(t) \/ SubmitSomebodyIdle(t)
    \/ SubmitBump(t) \/ SubmitNotify(t)

Control(t) ==
    \/ Pause(t) \/ Resume(t) \/ WakeAll(t)
    \/ ShutdownWon(t) \/ ShutdownLost(t) \/ JoinWorker(t) \/ ShutdownReturn(t)

Fetch(t) ==
    \/ TopPaused(t) \/ WorkerStops(t) \/ TopFetch(t)
    \/ PopOwn(t) \/ PopNothing(t) \/ StealTop(t) \/ StealMiss(t)
    \/ InjectTake(t) \/ InjectMiss(t)
    \/ NonePoll(t) \/ NoneIdle(t) \/ NoneDrained(t)

Execute(t) ==
    \/ RecheckPaused(t) \/ RecheckClear(t) \/ CountActive(t) \/ StartTask(t)
    \/ Get(t) \/ Throw(t) \/ TaskReturns(t) \/ TaskThrows(t)
    \/ CountException(t) \/ Retire(t) \/ Tell(t)

Wait(t) ==
    \/ CheckReady(t) \/ CheckHalf(t) \/ CheckActive(t) \/ CheckFalse(t)
    \/ Observe(t) \/ Park(t)

WaitIdle(c) == WaitBegin(c) \/ WaitTop(c) \/ WaitActive(c) \/ WaitExit(c)

Step(t) == Submit(t) \/ Control(t) \/ Fetch(t) \/ Execute(t) \/ Wait(t) \/ WaitIdle(t)

\* The system at rest: every client has finished its program, and every worker
\* has returned or sleeps with nothing to run.
AtRest ==
    /\ \A c \in Clients : pc[c] = "run" /\ ~InTask(c) /\ Ops(c) = <<>>
    /\ \A w \in Workers : \/ pc[w] = "done"
                          \/ pc[w] = "parked" /\ (Held \/ pendingTasks = 0)

Rest == AtRest /\ UNCHANGED vars

Next == (\E t \in Threads : Step(t)) \/ Rest

Spec == Init /\ [][Next]_vars

\* The scheduler runs every thread that can run.
FairSpec == Spec /\ \A t \in Threads : WF_vars(Step(t))

----------------------------------------------------------------------------
\* Properties.

Finished == {k \in Tasks : status[k] \in {"done", "threw"}}
Queued == {k \in Tasks : status[k] = "queued"}
ThreadsAt(labels) == {t \in Threads : pc[t] \in labels}

Labels == {"top", "pop", "steal", "inject", "recheck", "act", "pend", "run", "threw",
           "except", "retire", "tell", "wake", "none", "spin", "spinActive", "observe",
           "look", "lookActive", "park", "parked", "done", "submitCheck", "submitPush",
           "submitCount", "submitIdle", "submitBump", "submitNotify", "join",
           "waitTop", "waitActive", "waitExit"}

Frames == [todo : Seq(ClientOperations), task : Tasks \cup {NoTask},
           ops : Seq(TaskOperations), call : Operations \cup {NoCall},
           offset : Workers, probe : Workers \cup Shards,
           from : Workers \cup {NoQueue},
           waitFor : {"none", "resumed", "work", "drained"},
           draining : BOOLEAN, seen : SUBSET Tasks]

\* Every variable has its type.
TypeOK ==
    /\ runState \in {"Running", "Finish", "Discard"}
    /\ paused \in BOOLEAN
    /\ pendingTasks \in 0..(SizeModulus - 1)
    /\ {activeTasks, idleWorkers, waitIdleWaiters} \subseteq 0..Cardinality(Threads)
    /\ exceptionCounter \in 0..Cardinality(Tasks)
    /\ local \in [Workers -> Seq(Tasks)]
    /\ shard \in [Shards -> Seq(Tasks)]
    /\ roundRobin \in Shards
    /\ fresh \subseteq Threads
    /\ joining \in 0..WorkerCount
    /\ selfDetach \subseteq Workers
    /\ pc \in [Threads -> Labels]
    /\ frame \in [Threads -> Frames]
    /\ status \in [Tasks -> {"unsubmitted", "refused", "queued", "running", "done",
                             "threw"}]
    /\ accepted \subseteq Tasks
    /\ passed \subseteq Threads

\* queuedTasks(), activeTaskCount(), idleThreadCount() and exceptionCount()
\* tell the truth: each counter is the number of tasks or threads it stands
\* for.  A task pushed by a submit() that has not counted it yet is missing
\* from pendingTasks_, which may wrap below 0 for a moment and no longer.
CountersAgree ==
    /\ pendingTasks = Wrap(Cardinality(Queued) - Cardinality(ThreadsAt({"submitCount"})))
    /\ activeTasks = Cardinality({t \in Threads : InTask(t)
                                                  /\ pc[t] \notin {"recheck", "act"}})
    /\ idleWorkers = Cardinality({w \in Workers : frame[w].waitFor # "none"})
    /\ waitIdleWaiters = Cardinality({c \in Clients : frame[c].draining})
    /\ exceptionCounter = Cardinality({k \in Tasks : status[k] = "threw"})
                          - Cardinality({t \in Threads : InTask(t)
                               /\ status[frame[t].task] = "threw"
                               /\ pc[t] \in {"except", "done"}})

\* The queues and the hands a task may be in.
Places(k) ==
    {<<"local", w, i>> : w \in Workers, i \in 1..Cardinality(Tasks)}
    \cup {<<"shard", s, i>> : s \in Shards, i \in 1..Cardinality(Tasks)}

Holds(place, k) ==
    LET queue == IF place[1] = "local" THEN local[place[2]] ELSE shard[place[2]]
    IN  place[3] \in DOMAIN queue /\ queue[place[3]] = k

\* A submitted task is in one place until it starts, in one queue or in the
\* hands of one thread, and in none afterwards: fetching, putting back for
\* pause() and stealing neither lose a task nor run one twice.
QueuedInOnePlace ==
    \A k \in Tasks :
        Cardinality({p \in Places(k) : Holds(p, k)})
        + Cardinality({t \in Threads : frame[t].task = k
                                       /\ pc[t] \in {"recheck", "act", "pend"}})
        = IF status[k] = "queued" THEN 1 ELSE 0

\* A worker that sleeps on the token's present value and has reason to wake
\* will be woken: some thread is on its way to change the token.  (pause()
\* changes no token, and a worker without work need not notice it.)
NoLostWakeup ==
    \A w \in Workers :
        /\ pc[w] = "parked" /\ w \in fresh
        /\ \/ runState # "Running"
           \/ ~paused /\ (frame[w].waitFor = "resumed" \/ pendingTasks # 0)
        => ThreadsAt({"submitCount", "submitIdle", "submitBump", "wake"}) # {}

\* Tasks are not left to a pool asleep: while one is queued and nothing holds
\* it back, a worker is up, neither asleep nor blocked in a get(), or a thread
\* is about to wake one.
Blocked(t) == AtOp(t, "get") /\ Head(Ops(t))[2] \notin Finished

SomeWorkerAwake ==
    (Queued # {} /\ runState = "Running" /\ ~paused)
    => \/ \E w \in Workers : pc[w] # "parked" /\ ~Blocked(w)
       \/ ThreadsAt({"submitCount", "submitIdle", "submitBump", "submitNotify",
                     "wake"}) # {}

\* The step by which waitIdle() finds the pool idle.
FindsIdle(c) == pc[c] = "waitActive" /\ pc'[c] = "waitExit"

\* waitIdle() returns, unless the pool stops, only once every task whose
\* submission had returned before the call has finished.
WaitIdleComplete ==
    [][\A c \in Clients : FindsIdle(c) => frame[c].seen \subseteq Finished]_vars

\* waitIdle() returns only once every submitted task has finished, those
\* that a task submitted while waitIdle() waited included.
WaitIdleDrains ==
    [][\A c \in Clients : FindsIdle(c) => accepted \subseteq Finished]_vars

\* While the pool is paused a thread starts a task only if it was past its
\* last check of paused_ when pause() was called, threads in waitIdle()
\* included: what pause() promises.
PauseStopsEveryone ==
    [][\A t \in Threads : (Held /\ pc[t] = "pend" /\ pc'[t] = "run") => t \in passed]_vars

\* shutdown() has gone through the workers; each has returned but one whose own
\* task called shutdown().
Joined == joining = WorkerCount

\* shutdown(FinishTasks) has run every task the pool accepted by the time the
\* last worker has returned.
ShutdownDrains ==
    (Joined /\ runState = "Finish" /\ \A w \in Workers : pc[w] = "done")
    => accepted \subseteq Finished

\* The pool may be destroyed once shutdown() has returned, the tasks that were
\* running have, and no client is in a call, or about to wait for it: no thread
\* changes the pool's counters or queues any more, not even the worker whose
\* own task called shutdown().
PoolLeftAlone ==
    [][/\ Joined
       /\ \A w \in Workers : InTask(w) => frame[w].task \in Finished
       /\ \A c \in Clients : pc[c] = "run" /\ ~AtOp(c, "waitIdle")
       => UNCHANGED <<countVars, queueVars>>]_vars

\* Every task whose submission has returned runs, unless the pool is paused or
\* stopped before.
EveryTaskRuns ==
    \A k \in Tasks : k \in accepted ~> \/ k \in Finished
                                       \/ paused \/ runState # "Running"

\* waitIdle() returns.
WaitIdleReturns == \A c \in Clients : frame[c].draining ~> ~frame[c].draining

\* shutdown() returns and every worker with it, paused or not.
ShutdownReturns == runState # "Running" ~> (Joined /\ \A w \in Workers : pc[w] = "done")

----------------------------------------------------------------------------
\* The pool keeps TaskPool's promises, for every order of the threads: tasks are
\* accepted, held back, started, ended and waited for as they say.
Submitting == {frame[t].call[2] : t \in ThreadsAt({"submitPush"})}
Stoppers == selfDetach \cup {t \in Threads : frame[t].call[1] = "shutdown" /\ InTask(t)}

Promise == INSTANCE TaskPool WITH
    workers <- WorkerCount, mode <- runState,
    status <- [k \in Tasks |-> IF k \in Submitting THEN "submitting" ELSE status[k]],
    committed <- {frame[t].task : t \in passed},
    waiting <- {c \in Clients : frame[c].draining},
    seen <- [c \in Clients |-> frame[c].seen],
    stopper <- {frame[t].task : t \in Stoppers},
    closed <- Joined, exceptions <- exceptionCounter

ImplementsTaskPool == Promise!Spec
=============================================================================
