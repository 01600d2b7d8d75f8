------------------------------ MODULE CrossPool ------------------------------
(***************************************************************************)
(* Several ThreadPools whose tasks submit to each other's pools.           *)
(* currentWorker_ belongs to the thread, not to a pool, so that submit()   *)
(* pushes onto the queue of the worker that runs it, whichever pool that   *)
(* worker is of, and then counts the task in the pool it was called on.    *)
(* What ThreadPool.tla shows of one pool is taken for granted: a fetch, a  *)
(* wake-up and the start of a task are one step each.                      *)
(***************************************************************************)
EXTENDS Integers, Sequences, FiniteSets

CONSTANTS
    Pools,                 \* the pools
    WorkersOf,             \* each pool's workers_
    Clients,               \* the threads outside every pool
    Tasks,                 \* the tasks that may be submitted, each once
    SizeModulus,           \* values of size_t, the counters' type
    Programs,              \* the operation sequences each client may run
    Bodies                 \* the operation sequence each task runs

ASSUME SizeAssumption == SizeModulus \in Nat \ {0}

Workers == UNION {WorkersOf[p] : p \in Pools}
Threads == Workers \cup Clients
NoTask == "no task"
NoPool == "no pool"

ASSUME WorkersAssumption ==
    /\ \A p, q \in Pools : WorkersOf[p] # {} /\ (p # q => WorkersOf[p] \cap WorkersOf[q] = {})
    /\ IsFiniteSet(Workers) /\ NoPool \notin Pools
ASSUME ClientsAssumption == IsFiniteSet(Clients) /\ Clients \cap Workers = {}
ASSUME TasksAssumption == IsFiniteSet(Tasks) /\ NoTask \notin Tasks

\* waitIdle() is for clients alone, as in ThreadPool.tla.
Operations == ({"submit"} \X Pools \X Tasks) \cup ({"get"} \X Tasks)
              \cup ({"shutdown"} \X Pools \X {"Finish", "Discard"})
ClientOperations == Operations \cup ({"waitIdle"} \X Pools)

ASSUME ProgramsAssumption ==
    /\ \A c \in Clients : \A p \in Programs[c] : p \in Seq(ClientOperations)
    /\ \A k \in Tasks : Bodies[k] \in Seq(Operations)

\* The tasks that a sequence of operations submits, to any pool.
Submits(ops) == {k \in Tasks : \E i \in 1..Len(ops) : ops[i][1] = "submit" /\ ops[i][3] = k}
NoneTwice(ops) ==
    \A i, j \in 1..Len(ops) :
       ops[i][1] = "submit" /\ ops[j][1] = "submit" /\ ops[i][3] = ops[j][3] => i = j

\* A task stands for one submission, so that no two operations of a behaviour
\* submit the same one.
ASSUME SubmittedOnce ==
    /\ \A c \in Clients : \A p \in Programs[c] : NoneTwice(p)
    /\ \A k \in Tasks : NoneTwice(Bodies[k])
    /\ \A c, d \in Clients : c # d => \A p \in Programs[c], q \in Programs[d] :
          Submits(p) \cap Submits(q) = {}
    /\ \A c \in Clients, k \in Tasks : \A p \in Programs[c] :
          Submits(p) \cap Submits(Bodies[k]) = {}
    /\ \A j, k \in Tasks : j # k => Submits(Bodies[j]) \cap Submits(Bodies[k]) = {}

VARIABLES
    runState,              \* each pool's runState_: "Running", "Finish" or "Discard"
    pending,               \* each pool's pendingTasks_
    active,                \* each pool's activeTasks_
    local,                 \* each worker's queue_, its top first
    shard,                 \* each pool's injection queue, its front first
    pc,                    \* where each thread is
    frame,                 \* its locals (see Frame)
    status,                \* history: what has become of each task
    home,                  \* history: the pool each task was submitted to
    at                     \* history: the pool in whose queues it was put

poolVars == <<runState, pending, active, local, shard>>
historyVars == <<status, home, at>>
vars == <<poolVars, pc, frame, historyVars>>

\* The pool a thread works for, a worker's own or the one it helps in
\* waitIdle(), the rest of its program, and the task it runs with the rest of
\* that.  An operation is <<"submit", pool, task>>, <<"get", task>>,
\* <<"waitIdle", pool>> or <<"shutdown", pool, mode>>.
Frame(pool, program) == [pool |-> pool, todo |-> program, task |-> NoTask, ops |-> <<>>]

PoolOf(w) == CHOOSE p \in Pools : w \in WorkersOf[p]

Init ==
    /\ runState = [p \in Pools |-> "Running"]
    /\ pending = [p \in Pools |-> 0]
    /\ active = [p \in Pools |-> 0]
    /\ local = [w \in Workers |-> <<>>]
    /\ shard = [p \in Pools |-> <<>>]
    /\ pc = [t \in Threads |-> IF t \in Workers THEN "fetch" ELSE "run"]
    /\ \E program \in [Clients -> UNION {Programs[c] : c \in Clients}] :
          /\ \A c \in Clients : program[c] \in Programs[c]
          /\ frame = [t \in Threads |-> IF t \in Workers THEN Frame(PoolOf(t), <<>>)
                                        ELSE Frame(NoPool, program[t])]
    /\ status = [k \in Tasks |-> "unsubmitted"]
    /\ home = [k \in Tasks |-> NoPool]
    /\ at = [k \in Tasks |-> NoPool]

----------------------------------------------------------------------------
Wrap(n) == n % SizeModulus

InTask(t) == frame[t].task # NoTask
Ops(t) == IF InTask(t) THEN frame[t].ops ELSE frame[t].todo
Op(t) == Head(Ops(t))
AtOp(t, op) == pc[t] = "run" /\ Ops(t) # <<>> /\ Op(t)[1] = op
Advanced(t) == IF InTask(t) THEN [frame[t] EXCEPT !.ops = Tail(@)]
                            ELSE [frame[t] EXCEPT !.todo = Tail(@)]
Advance(t) == frame' = [frame EXCEPT ![t] = Advanced(t)]
Goto(t, label) == pc' = [pc EXCEPT ![t] = label]

Asleep(p) == {w \in WorkersOf[p] : pc[w] = "asleep"}

\* The queue submit() puts a task in when it is called on pool p, and the pool
\* that queue is of: a worker's own, or the pool's injection queue.
Receiver(t, p) == IF t \in Workers THEN PoolOf(t) ELSE p

Push(t, p, k) ==
    IF t \in Workers
    THEN local' = [local EXCEPT ![t] = Append(@, k)] /\ UNCHANGED shard
    ELSE shard' = [shard EXCEPT ![p] = Append(@, k)] /\ UNCHANGED local

SubmitPush(t) ==
    /\ AtOp(t, "submit")
    /\ LET p == Op(t)[2]
           k == Op(t)[3]
       IN  /\ runState[p] = "Running"
           /\ Push(t, p, k)
           /\ status' = [status EXCEPT ![k] = "queued"]
           /\ home' = [home EXCEPT ![k] = p]
           /\ at' = [at EXCEPT ![k] = Receiver(t, p)]
    /\ Goto(t, "count")
    /\ UNCHANGED <<runState, pending, active, frame>>

\* The exception ends a task, and a client goes on.
SubmitRefused(t) ==
    /\ AtOp(t, "submit")
    /\ runState[Op(t)[2]] # "Running"
    /\ frame' = [frame EXCEPT ![t] = IF InTask(t) THEN [@ EXCEPT !.ops = <<>>] ELSE Advanced(t)]
    /\ UNCHANGED <<poolVars, pc, historyVars>>

\* The pool the call was made on counts the task and wakes one of its workers,
\* wherever the task is.
SubmitCount(t) ==
    LET p == Op(t)[2]
    IN  /\ pc[t] = "count"
        /\ pending' = [pending EXCEPT ![p] = Wrap(@ + 1)]
        /\ Advance(t)
        /\ \/ Asleep(p) = {} /\ Goto(t, "run")
           \/ \E w \in Asleep(p) : pc' = [pc EXCEPT ![t] = "run", ![w] = "fetch"]
        /\ UNCHANGED <<runState, active, local, shard, historyVars>>

----------------------------------------------------------------------------
\* A worker, or a client in waitIdle(), fetches a task of its pool and runs it.

\* Nothing is left to do for a worker that sees this.
Stopped(p) == \/ runState[p] = "Discard"
              \/ runState[p] = "Finish" /\ pending[p] = 0

TakeOwn(t) ==
    /\ t \in Workers
    /\ local[t] # <<>>
    /\ local' = [local EXCEPT ![t] = SubSeq(@, 1, Len(@) - 1)]
    /\ frame' = [frame EXCEPT ![t].task = local[t][Len(local[t])]]
    /\ UNCHANGED shard

\* Mutant: what is stolen stays in the victim's queue.
TakeOtherCopies(t) ==
    /\ t \in Workers => local[t] = <<>>
    /\ \/ \E v \in WorkersOf[frame[t].pool] \ {t} :
             /\ local[v] # <<>>
             /\ frame' = [frame EXCEPT ![t].task = Head(local[v])]
             /\ UNCHANGED <<local, shard>>
       \/ LET queue == shard[frame[t].pool]
          IN  /\ queue # <<>>
              /\ shard' = [shard EXCEPT ![frame[t].pool] = Tail(@)]
              /\ frame' = [frame EXCEPT ![t].task = Head(queue)]
              /\ UNCHANGED local

\* The scan of the other workers' queues and of the shards may come to any of them.
TakeOther(t) ==
    /\ t \in Workers => local[t] = <<>>
    /\ \/ \E v \in WorkersOf[frame[t].pool] \ {t} :
             /\ local[v] # <<>>
             /\ local' = [local EXCEPT ![v] = Tail(@)]
             /\ frame' = [frame EXCEPT ![t].task = Head(local[v])]
             /\ UNCHANGED shard
       \/ LET queue == shard[frame[t].pool]
          IN  /\ queue # <<>>
              /\ shard' = [shard EXCEPT ![frame[t].pool] = Tail(@)]
              /\ frame' = [frame EXCEPT ![t].task = Head(queue)]
              /\ UNCHANGED local

Idle(p) == pending[p] = 0 /\ active[p] = 0

Fetch(t) ==
    /\ \/ pc[t] = "fetch" /\ ~Stopped(frame[t].pool)
       \/ pc[t] = "drain" /\ runState[frame[t].pool] = "Running" /\ ~Idle(frame[t].pool)
    /\ TakeOwn(t) \/ TakeOther(t)
    /\ Goto(t, "start")
    /\ UNCHANGED <<runState, pending, active, historyVars>>

\* The pool whose worker runs the task takes it off its count.
Start(t) ==
    LET p == frame[t].pool
    IN  /\ pc[t] = "start"
        /\ active' = [active EXCEPT ![p] = @ + 1]
        /\ pending' = [pending EXCEPT ![p] = Wrap(@ - 1)]
        /\ status' = [status EXCEPT ![frame[t].task] = "running"]
        /\ frame' = [frame EXCEPT ![t].ops = Bodies[frame[t].task]]
        /\ Goto(t, "run")
        /\ UNCHANGED <<runState, local, shard, home, at>>

Get(t) ==
    /\ AtOp(t, "get")
    /\ status[Op(t)[2]] = "done"
    /\ Advance(t)
    /\ UNCHANGED <<poolVars, pc, historyVars>>

End(t) ==
    /\ pc[t] = "run"
    /\ InTask(t)
    /\ frame[t].ops = <<>>
    /\ active' = [active EXCEPT ![frame[t].pool] = @ - 1]
    /\ status' = [status EXCEPT ![frame[t].task] = "done"]
    /\ frame' = [frame EXCEPT ![t].task = NoTask]
    /\ Goto(t, IF t \in Workers THEN "fetch" ELSE "drain")
    /\ UNCHANGED <<runState, pending, local, shard, home, at>>

\* Mutant: nothing pending, nothing to look for.
SleepUnlooked(w) ==
    /\ pc[w] = "fetch"
    /\ runState[frame[w].pool] = "Running"
    /\ pending[frame[w].pool] = 0
    /\ Goto(w, "asleep")
    /\ UNCHANGED <<poolVars, frame, historyVars>>

\* Its own queue is empty, and what it saw of the others' was.
Sleep(w) ==
    /\ pc[w] = "fetch"
    /\ local[w] = <<>>
    /\ runState[frame[w].pool] = "Running"
    /\ pending[frame[w].pool] = 0
    /\ Goto(w, "asleep")
    /\ UNCHANGED <<poolVars, frame, historyVars>>

\* A worker that has not parked yet sees that a count has changed, although
\* nobody notifies it: it may, and need not.
Notice(w) ==
    /\ pc[w] = "asleep"
    /\ pending[frame[w].pool] # 0
    /\ Goto(w, "fetch")
    /\ UNCHANGED <<poolVars, frame, historyVars>>

Leave(w) ==
    /\ pc[w] = "fetch"
    /\ Stopped(frame[w].pool)
    /\ Goto(w, "done")
    /\ UNCHANGED <<poolVars, frame, historyVars>>

----------------------------------------------------------------------------
\* waitIdle() and shutdown(), from a client or, the latter, from a task of
\* another pool.

WaitBegin(c) ==
    /\ AtOp(c, "waitIdle")
    /\ ~InTask(c)
    /\ frame' = [frame EXCEPT ![c].pool = Op(c)[2]]
    /\ Goto(c, "drain")
    /\ UNCHANGED <<poolVars, historyVars>>

WaitReturn(c) ==
    /\ pc[c] = "drain"
    /\ runState[frame[c].pool] # "Running" \/ Idle(frame[c].pool)
    /\ frame' = [frame EXCEPT ![c] = [Advanced(c) EXCEPT !.pool = NoPool]]
    /\ Goto(c, "run")
    /\ UNCHANGED <<poolVars, historyVars>>

Shutdown(t) ==
    /\ AtOp(t, "shutdown")
    /\ LET p == Op(t)[2]
       IN  /\ runState[p] = "Running"
           /\ runState' = [runState EXCEPT ![p] = Op(t)[3]]
           /\ pc' = [u \in Threads |-> IF u = t THEN "join"
                                       ELSE IF u \in Asleep(p) THEN "fetch" ELSE pc[u]]
    /\ UNCHANGED <<pending, active, local, shard, frame, historyVars>>

ShutdownAgain(t) ==
    /\ AtOp(t, "shutdown")
    /\ runState[Op(t)[2]] # "Running"
    /\ Advance(t)
    /\ UNCHANGED <<poolVars, pc, historyVars>>

ShutdownReturn(t) ==
    /\ pc[t] = "join"
    /\ \A w \in WorkersOf[Op(t)[2]] : pc[w] = "done"
    /\ Advance(t)
    /\ Goto(t, "run")
    /\ UNCHANGED <<poolVars, historyVars>>

----------------------------------------------------------------------------
Submit(t) == SubmitPush(t) \/ SubmitRefused(t) \/ SubmitCount(t)
Execute(t) == Fetch(t) \/ Start(t) \/ Get(t) \/ End(t) \/ Sleep(t) \/ Leave(t)
Control(t) ==
    \/ WaitBegin(t) \/ WaitReturn(t)
    \/ Shutdown(t) \/ ShutdownAgain(t) \/ ShutdownReturn(t)
Step(t) == Submit(t) \/ Execute(t) \/ Control(t)

Next == (\E t \in Threads : Step(t)) \/ (\E w \in Workers : Notice(w))

Spec == Init /\ [][Next]_vars

\* The scheduler runs every thread that can run; what Notice shows is luck.
FairSpec == Spec /\ \A t \in Threads : WF_vars(Step(t))

----------------------------------------------------------------------------
Labels == {"run", "count", "fetch", "start", "asleep", "done", "drain", "join"}

\* Every variable has its type.
TypeOK ==
    /\ runState \in [Pools -> {"Running", "Finish", "Discard"}]
    /\ pending \in [Pools -> 0..(SizeModulus - 1)]
    /\ active \in [Pools -> 0..Cardinality(Threads)]
    /\ local \in [Workers -> Seq(Tasks)]
    /\ shard \in [Pools -> Seq(Tasks)]
    /\ pc \in [Threads -> Labels]
    /\ \A t \in Threads : frame[t].pool \in Pools \cup {NoPool}
                          /\ frame[t].task \in Tasks \cup {NoTask}
    /\ status \in [Tasks -> {"unsubmitted", "queued", "running", "done"}]
    /\ {home, at} \subseteq [Tasks -> Pools \cup {NoPool}]

\* The tasks of other pools among p's, and p's among other pools'.
Guests(p) == {k \in Tasks : at[k] = p /\ home[k] # p}
Strays(p) == {k \in Tasks : home[k] = p /\ at[k] # p}

\* The number of times pool p has k, in a queue or in a thread's hands.
Copies(p, k) ==
    Cardinality({q \in WorkersOf[p] \X (1..Cardinality(Tasks)) :
                    q[2] <= Len(local[q[1]]) /\ local[q[1]][q[2]] = k})
    + Cardinality({i \in 1..Len(shard[p]) : shard[p][i] = k})
    + Cardinality({t \in Threads : frame[t].pool = p /\ frame[t].task = k /\ pc[t] = "start"})

\* However pools submit to each other, a task that waits to run is in one pool,
\* once, and the pools' counts add up: each is the number of tasks the pool
\* has, but that it keeps counting every one of its own that another pool
\* took, and owes one for every guest.  (queuedTasks(), and what waitIdle() and
\* shutdown() conclude from it, is wrong by that difference for good.)
AccountsBalance ==
    /\ \A k \in Tasks, p \in Pools :
          Copies(p, k) = IF status[k] = "queued" /\ at[k] = p THEN 1 ELSE 0
    /\ \A p \in Pools :
          pending[p] = Wrap(Cardinality({k \in Tasks : status[k] = "queued" /\ at[k] = p})
                            + Cardinality(Strays(p)) - Cardinality(Guests(p))
                            - Cardinality({t \in Threads : pc[t] = "count" /\ Op(t)[2] = p}))

AllRunning == \A p \in Pools : runState[p] = "Running"

\* A task that was submitted runs, on whichever pool, unless one is stopped.
EveryTaskRuns == \A k \in Tasks : status[k] = "queued" ~> status[k] = "done" \/ ~AllRunning

\* A FinishTasks shutdown comes to its end, unless the pool has given away more
\* tasks, or fewer, than it has taken in.
Ended(p) == \A w \in WorkersOf[p] : pc[w] = "done"
Owing(p) == Cardinality(Strays(p)) # Cardinality(Guests(p))

StopsIfEven ==
    \A p \in Pools : runState[p] # "Running" ~> (Ended(p) \/ [](runState[p] = "Finish" /\ Owing(p)))

\* Between them, pools that submit to each other run every task, and stop if
\* they are even.
PoolsServe == EveryTaskRuns /\ StopsIfEven

\* What shutdown() says: it requests shutdown and joins every worker.
ShutdownReturns == \A p \in Pools : runState[p] # "Running" ~> Ended(p)

\* What waitIdle() says: it returns when every submitted task has finished.
WaitIdleReturns ==
    \A c \in Clients : pc[c] = "drain" ~> pc[c] = "run" /\ ~InTask(c)
=============================================================================
