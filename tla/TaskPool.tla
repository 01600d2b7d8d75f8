------------------------------ MODULE TaskPool ------------------------------
(***************************************************************************)
(* What ThreadPool promises its users, without its queues, counters and    *)
(* wake-ups: which tasks may run when, what waitIdle() and shutdown() wait *)
(* for, and what pause() holds back.  ThreadPool.tla implements it, and    *)
(* Examples.tla runs the repository's example programs on it.              *)
(***************************************************************************)
EXTENDS Naturals, FiniteSets

CONSTANTS
    Tasks,                 \* the tasks that may be submitted, each once
    Clients                \* the threads that may call waitIdle()

VARIABLES
    workers,               \* threadCount()
    mode,                  \* "Running", "Finish" or "Discard"
    paused,                \* isPaused()
    status,                \* what has become of each task
    accepted,              \* the tasks whose submission has returned
    committed,             \* the tasks that start although the pool is paused
    waiting,               \* the clients in waitIdle()
    seen,                  \* the tasks accepted when each of them called it
    stopper,               \* the task that called shutdown(), if it was one
    closed,                \* shutdown() has been through the workers
    exceptions             \* exceptionCount()

stateVars == <<workers, mode, paused, committed, stopper, closed>>
taskVars == <<status, accepted, exceptions>>
waitVars == <<waiting, seen>>
poolVars == <<stateVars, taskVars, waitVars>>

InState(s) == {k \in Tasks : status[k] = s}
Queued == InState("queued")
Running == InState("running")
Threw == InState("threw")
Finished == InState("done") \cup Threw

\* A pool of the given size with nothing submitted to it.
NewPool(size) ==
    /\ workers = size
    /\ mode = "Running"
    /\ paused = FALSE
    /\ status = [k \in Tasks |-> "unsubmitted"]
    /\ accepted = {}
    /\ committed = {}
    /\ waiting = {}
    /\ seen = [c \in Clients |-> {}]
    /\ stopper = {}
    /\ closed = FALSE
    /\ exceptions = 0

\* The same, of a pool that is constructed in the course of things.
Construct(size) ==
    /\ workers' = size
    /\ mode' = "Running"
    /\ paused' = FALSE
    /\ status' = [k \in Tasks |-> "unsubmitted"]
    /\ accepted' = {}
    /\ committed' = {}
    /\ waiting' = {}
    /\ seen' = [c \in Clients |-> {}]
    /\ stopper' = {}
    /\ closed' = FALSE
    /\ exceptions' = 0

----------------------------------------------------------------------------
\* detach() and enqueue(): accepted or refused, then queued, then returned
\* from, which may be after the task has run.

Become(k, s) == status' = [status EXCEPT ![k] = s]

Submit(k) ==
    /\ status[k] = "unsubmitted"
    /\ mode = "Running"
    /\ Become(k, "submitting")
    /\ UNCHANGED <<stateVars, accepted, exceptions, waitVars>>

\* The call throws; there is no such task.
Refuse(k) ==
    /\ status[k] = "unsubmitted"
    /\ mode # "Running"
    /\ Become(k, "refused")
    /\ UNCHANGED <<stateVars, accepted, exceptions, waitVars>>

Enqueue(k) ==
    /\ status[k] = "submitting"
    /\ Become(k, "queued")
    /\ UNCHANGED <<stateVars, accepted, exceptions, waitVars>>

Return(k) ==
    /\ status[k] \in {"queued", "running", "done", "threw"}
    /\ k \notin accepted
    /\ accepted' = accepted \cup {k}
    /\ UNCHANGED <<stateVars, status, exceptions, waitVars>>

----------------------------------------------------------------------------
\* A worker, or a thread in waitIdle(), runs a task.

\* The threads that may be running a task.
Hands == workers + Cardinality(waiting)

Begin(k) ==
    /\ status[k] = "queued"
    /\ ~closed
    /\ paused /\ mode = "Running" => k \in committed
    /\ Cardinality(Running) < Hands
    /\ Become(k, "running")
    /\ committed' = committed \ {k}
    /\ UNCHANGED <<workers, mode, paused, stopper, closed, accepted, exceptions, waitVars>>

End(k, how) ==
    /\ status[k] = "running"
    /\ Become(k, how)
    /\ UNCHANGED <<stateVars, accepted, exceptions, waitVars>>

CountException ==
    /\ exceptions < Cardinality(Threw)
    /\ exceptions' = exceptions + 1
    /\ UNCHANGED <<stateVars, status, accepted, waitVars>>

----------------------------------------------------------------------------
\* Control.

\* What threads had committed themselves to still starts.
Pause ==
    /\ paused' = TRUE
    /\ \E some \in SUBSET Queued :
          /\ Cardinality(some) <= Hands
          /\ committed' = some
    /\ UNCHANGED <<workers, mode, stopper, closed, taskVars, waitVars>>

Resume ==
    /\ paused' = FALSE
    /\ UNCHANGED <<workers, mode, committed, stopper, closed, taskVars, waitVars>>

\* shutdown() is called for the first time, by a task or from outside.
Stop(how, by) ==
    /\ mode = "Running"
    /\ by \subseteq Running
    /\ mode' = how
    /\ stopper' = by
    /\ UNCHANGED <<workers, paused, committed, closed, taskVars, waitVars>>

\* It has been through the workers: no task is running, nor will be, but the
\* one that called it, and if it was to finish the tasks it has.
Close ==
    /\ mode # "Running"
    /\ ~closed
    /\ Running \subseteq stopper
    /\ mode = "Finish" => accepted \subseteq Finished \cup stopper
    /\ closed' = TRUE
    /\ UNCHANGED <<workers, mode, paused, committed, stopper, taskVars, waitVars>>

WaitBegin(c) ==
    /\ c \notin waiting
    /\ waiting' = waiting \cup {c}
    /\ seen' = [seen EXCEPT ![c] = accepted]
    /\ UNCHANGED <<stateVars, taskVars>>

\* waitIdle() returns: the pool has been stopped, or all that had been accepted
\* has finished, and its exceptions have been counted.
WaitEnd(c) ==
    /\ c \in waiting
    /\ \/ mode # "Running"
       \/ /\ seen[c] \subseteq Finished
          /\ exceptions >= Cardinality(seen[c] \cap Threw)
    /\ waiting' = waiting \ {c}
    /\ seen' = [seen EXCEPT ![c] = {}]
    /\ UNCHANGED <<stateVars, taskVars>>

----------------------------------------------------------------------------
Init == workers \in Nat /\ NewPool(workers)

\* What a task does, and a pool at its own pace.
Work ==
    \/ \E k \in Tasks : Enqueue(k) \/ Begin(k)
    \/ CountException
    \/ Close

Next ==
    \/ Work
    \/ \E k \in Tasks : Submit(k) \/ Refuse(k) \/ Return(k) \/ End(k, "done") \/ End(k, "threw")
    \/ Pause \/ Resume
    \/ \E how \in {"Finish", "Discard"} :
          Stop(how, {}) \/ \E k \in Running : Stop(how, {k})
    \/ \E c \in Clients : WaitBegin(c) \/ WaitEnd(c)

Spec == Init /\ [][Next]_poolVars
=============================================================================
