---------------------------- MODULE ThreadMarket ----------------------------
(***************************************************************************)
(* ThreadMarket and MarketThread: the threads that outlive the pools, how  *)
(* a pool leases them and gives each a job (its workerLoop()), how         *)
(* shutdown() waits for the jobs, and the market's destructor.  A user is  *)
(* a thread that creates pools and destroys them, one after the other.     *)
(***************************************************************************)
EXTENDS Naturals, Sequences, FiniteSets

CONSTANTS
    Users,
    PoolSize,              \* the workers of a pool
    Rounds,                \* bound on the pools that each user creates
    Endings,               \* the ways each user may end a pool: "wait" for every
                           \* worker, "detach" the first, whose own task calls
                           \* shutdown(), or "keep" the pool for ever
    ProcessExits           \* whether the market is destroyed in the end

ASSUME PoolAssumption == PoolSize \in Nat \ {0} /\ Rounds \in [Users -> Nat]
ASSUME ExitAssumption == ProcessExits \in BOOLEAN

Pools == UNION {{u} \X (1..Rounds[u]) : u \in Users}
\* Any number of pools, but not infinitely many.
ASSUME PoolsAssumption == IsFiniteSet(Pools)

\* No more threads than pools can lease are ever created.
MarketThreads == 1..(PoolSize * Cardinality(Pools))
NoJob == <<"no job">>
NoThread == 0              \* nullptr

VARIABLES
    allThreads,            \* the size of allThreads_: threads 1..allThreads exist
    idleThreads,           \* idleThreads_
    hasWork, exiting, job, \* each thread's hasWork_, exiting_ and job_
    loop,                  \* where each thread is in loop()
    user,                  \* where each user is
    round,                 \* the pool it is at
    leased,                \* the threads its pool has leased, workers_ in order
    index,                 \* the worker its assign() or waitDone() is at
    stopped,               \* the pools that have been told to stop
    teardown,              \* where the market's destructor is
    victim,                \* the thread it is at
    ran                    \* history: how many jobs of each pool have begun

marketVars == <<allThreads, idleThreads>>
threadVars == <<hasWork, exiting, job>>
userVars == <<user, round, leased, index, stopped>>
exitVars == <<teardown, victim>>
vars == <<marketVars, threadVars, loop, userVars, exitVars, ran>>

Init ==
    /\ allThreads = 0
    /\ idleThreads = <<>>
    /\ hasWork = [m \in MarketThreads |-> FALSE]
    /\ exiting = [m \in MarketThreads |-> FALSE]
    /\ job = [m \in MarketThreads |-> NoJob]
    /\ loop = [m \in MarketThreads |-> "unborn"]
    /\ user = [u \in Users |-> "idle"]
    /\ round = [u \in Users |-> 1]
    /\ leased = [u \in Users |-> <<>>]
    /\ index = [u \in Users |-> 1]
    /\ stopped = {}
    /\ teardown = "up"
    /\ victim = 1
    /\ ran = [p \in Pools |-> 0]

Current(u) == leased[u][index[u]]

\* hasWork_.notify_all() on a thread: it and the users parked there look again.
WakeThread(m) == loop' = [loop EXCEPT ![m] = IF @ = "parked" THEN "wait" ELSE @]
WokenUsers(m) == [u \in Users |-> IF user[u] = "parked" /\ Current(u) = m
                                  THEN "waitDone" ELSE user[u]]

----------------------------------------------------------------------------
\* MarketThread::loop().

AtLoop(m, from, to) == loop[m] = from /\ loop' = [loop EXCEPT ![m] = to]

WaitForWork(m) ==
    /\ AtLoop(m, "wait", IF hasWork[m] THEN "check" ELSE "parked")
    /\ UNCHANGED <<marketVars, threadVars, userVars, exitVars, ran>>

CheckExiting(m) ==
    /\ AtLoop(m, "check", IF exiting[m] THEN "exited" ELSE "run")
    /\ ran' = IF exiting[m] THEN ran ELSE [ran EXCEPT ![job[m]] = @ + 1]
    /\ UNCHANGED <<marketVars, threadVars, userVars, exitVars>>

\* The job called shutdown() itself, which waits for the others in it.
Stopping(m) ==
    \E u \in Users : /\ user[u] \in {"waitDone", "parked"}
                    /\ job[m] = <<u, round[u]>>
                    /\ \A i \in 1..PoolSize : leased[u][i] # m

\* workerLoop() returns once its pool has been shut down.
JobReturns(m) ==
    /\ job[m] \in stopped
    /\ ~Stopping(m)
    /\ AtLoop(m, "run", "clear")
    /\ UNCHANGED <<marketVars, threadVars, userVars, exitVars, ran>>

ClearJob(m) ==
    /\ AtLoop(m, "clear", "release")
    /\ job' = [job EXCEPT ![m] = NoJob]
    /\ UNCHANGED <<marketVars, hasWork, exiting, userVars, exitVars, ran>>

\* From here on waitDone() may return, if it comes to look.
ReleaseJob(m) ==
    /\ AtLoop(m, "release", "return")
    /\ hasWork' = [hasWork EXCEPT ![m] = FALSE]
    /\ UNCHANGED <<marketVars, exiting, job, userVars, exitVars, ran>>

ReturnToIdle(m) ==
    /\ AtLoop(m, "return", "notify")
    /\ idleThreads' = Append(idleThreads, m)
    /\ UNCHANGED <<allThreads, threadVars, userVars, exitVars, ran>>

\* Mutant: nobody is notified.
NotifyNobody(m) ==
    /\ AtLoop(m, "notify", "wait")
    /\ UNCHANGED <<marketVars, threadVars, userVars, exitVars, ran>>

NotifyDone(m) ==
    /\ AtLoop(m, "notify", "wait")
    /\ user' = WokenUsers(m)
    /\ UNCHANGED <<marketVars, threadVars, round, leased, index, stopped, exitVars, ran>>

----------------------------------------------------------------------------
\* The pool's constructor: lease(), then assign() for each worker.

\* Mutant: the idle threads stay in idleThreads_.
LeaseKeepsIdle(u) ==
    LET idle == Len(idleThreads)
        reused == IF idle < PoolSize THEN idle ELSE PoolSize
    IN  /\ user[u] = "idle"
        /\ round[u] <= Rounds[u]
        /\ leased' = [leased EXCEPT ![u] =
                         [i \in 1..PoolSize |->
                            IF i <= reused THEN idleThreads[idle - i + 1]
                            ELSE allThreads + i - reused]]
        /\ allThreads' = allThreads + PoolSize - reused
        /\ loop' = [m \in MarketThreads |->
                       IF m \in (allThreads + 1)..allThreads' THEN "wait" ELSE loop[m]]
        /\ user' = [user EXCEPT ![u] = "assign"]
        /\ index' = [index EXCEPT ![u] = 1]
        /\ UNCHANGED <<idleThreads, threadVars, round, stopped, exitVars, ran>>

\* Idle threads from the back of idleThreads_, then new ones.
Lease(u) ==
    LET idle == Len(idleThreads)
        reused == IF idle < PoolSize THEN idle ELSE PoolSize
    IN  /\ user[u] = "idle"
        /\ round[u] <= Rounds[u]
        /\ leased' = [leased EXCEPT ![u] =
                         [i \in 1..PoolSize |->
                            IF i <= reused THEN idleThreads[idle - i + 1]
                            ELSE allThreads + i - reused]]
        /\ idleThreads' = SubSeq(idleThreads, 1, idle - reused)
        /\ allThreads' = allThreads + PoolSize - reused
        /\ loop' = [m \in MarketThreads |->
                       IF m \in (allThreads + 1)..allThreads' THEN "wait" ELSE loop[m]]
        /\ user' = [user EXCEPT ![u] = "assign"]
        /\ index' = [index EXCEPT ![u] = 1]
        /\ UNCHANGED <<threadVars, round, stopped, exitVars, ran>>

Assign(u) ==
    /\ user[u] = "assign"
    /\ job' = [job EXCEPT ![Current(u)] = <<u, round[u]>>]
    /\ user' = [user EXCEPT ![u] = "start"]
    /\ UNCHANGED <<marketVars, hasWork, exiting, loop, round, leased, index, stopped,
                   exitVars, ran>>

\* Mutant: nobody is notified.
StartQuiet(u) ==
    /\ user[u] = "start"
    /\ hasWork' = [hasWork EXCEPT ![Current(u)] = TRUE]
    /\ user' = [user EXCEPT ![u] = IF index[u] < PoolSize THEN "assign" ELSE "use"]
    /\ index' = [index EXCEPT ![u] = IF @ < PoolSize THEN @ + 1 ELSE 1]
    /\ UNCHANGED <<marketVars, exiting, job, loop, round, leased, stopped, exitVars, ran>>

\* The notification also reaches a user that still waits on this thread for an
\* earlier pool: it sees hasWork_ set and waits on.
Start(u) ==
    /\ user[u] = "start"
    /\ hasWork' = [hasWork EXCEPT ![Current(u)] = TRUE]
    /\ WakeThread(Current(u))
    /\ user' = [WokenUsers(Current(u)) EXCEPT
                   ![u] = IF index[u] < PoolSize THEN "assign" ELSE "use"]
    /\ index' = [index EXCEPT ![u] = IF @ < PoolSize THEN @ + 1 ELSE 1]
    /\ UNCHANGED <<marketVars, exiting, job, round, leased, stopped, exitVars, ran>>

----------------------------------------------------------------------------
\* shutdown(): the pool's jobs are told to return, and each is waited for
\* except one that called it.

AtWork(m, p) == loop[m] = "run" /\ job[m] = p

Shutdown(u) ==
    /\ user[u] = "use"
    /\ \E ending \in Endings[u] :
          IF ending = "keep"
          THEN user' = [user EXCEPT ![u] = "kept"] /\ UNCHANGED <<leased, stopped>>
          ELSE /\ user' = [user EXCEPT ![u] = "waitDone"]
               /\ ending = "detach" => AtWork(leased[u][1], <<u, round[u]>>)
               /\ leased' = IF ending = "detach" THEN [leased EXCEPT ![u][1] = NoThread]
                                                 ELSE leased
               /\ stopped' = stopped \cup {<<u, round[u]>>}
    /\ UNCHANGED <<marketVars, threadVars, loop, round, index, exitVars, ran>>

\* Mutant: waitDone() does not wait.
WaitDoneSkipped(u) ==
    /\ user[u] = "waitDone"
    /\ index[u] <= PoolSize
    /\ index' = [index EXCEPT ![u] = @ + 1]
    /\ UNCHANGED <<marketVars, threadVars, loop, user, round, leased, stopped, exitVars,
                   ran>>

\* waitDone() on the next worker: hasWork_.wait(true).
WaitDone(u) ==
    /\ user[u] = "waitDone"
    /\ index[u] <= PoolSize
    /\ IF Current(u) # NoThread /\ hasWork[Current(u)]
       THEN user' = [user EXCEPT ![u] = "parked"] /\ UNCHANGED index
       ELSE index' = [index EXCEPT ![u] = @ + 1] /\ UNCHANGED user
    /\ UNCHANGED <<marketVars, threadVars, loop, round, leased, stopped, exitVars, ran>>

Destroy(u) ==
    /\ user[u] = "waitDone"
    /\ index[u] > PoolSize
    /\ user' = [user EXCEPT ![u] = "idle"]
    /\ round' = [round EXCEPT ![u] = @ + 1]
    /\ leased' = [leased EXCEPT ![u] = <<>>]
    /\ index' = [index EXCEPT ![u] = 1]
    /\ UNCHANGED <<marketVars, threadVars, loop, stopped, exitVars, ran>>

----------------------------------------------------------------------------
\* ~ThreadMarket() at the end of the process: ~MarketThread() for each thread.

UsersDone == \A u \in Users : user[u] = "idle" /\ round[u] > Rounds[u]

SetExiting ==
    /\ ProcessExits
    /\ UsersDone
    /\ teardown = "up"
    /\ victim <= allThreads
    /\ exiting' = [exiting EXCEPT ![victim] = TRUE]
    /\ teardown' = "wake"
    /\ UNCHANGED <<marketVars, hasWork, job, loop, userVars, victim, ran>>

\* Mutant: hasWork_ is left alone.
WakeToExitForgotten ==
    /\ teardown = "wake"
    /\ WakeThread(victim)
    /\ teardown' = "join"
    /\ UNCHANGED <<marketVars, threadVars, userVars, victim, ran>>

WakeToExit ==
    /\ teardown = "wake"
    /\ hasWork' = [hasWork EXCEPT ![victim] = TRUE]
    /\ WakeThread(victim)
    /\ teardown' = "join"
    /\ UNCHANGED <<marketVars, exiting, job, userVars, victim, ran>>

JoinThread ==
    /\ teardown = "join"
    /\ loop[victim] = "exited"
    /\ victim' = victim + 1
    /\ teardown' = "up"
    /\ UNCHANGED <<marketVars, threadVars, loop, userVars, ran>>

----------------------------------------------------------------------------
\* Mutant: the thread goes back to idleThreads_ before hasWork_ is reset.
LoopIdleFirst(m) ==
    \/ WaitForWork(m) \/ CheckExiting(m) \/ JobReturns(m) \/ ClearJob(m)
    \/ NotifyDone(m)
    \/ /\ AtLoop(m, "release", "return")
       /\ idleThreads' = Append(idleThreads, m)
       /\ UNCHANGED <<allThreads, threadVars, userVars, exitVars, ran>>
    \/ /\ AtLoop(m, "return", "notify")
       /\ hasWork' = [hasWork EXCEPT ![m] = FALSE]
       /\ UNCHANGED <<marketVars, exiting, job, userVars, exitVars, ran>>

Loop(m) ==
    \/ WaitForWork(m) \/ CheckExiting(m) \/ JobReturns(m) \/ ClearJob(m)
    \/ ReleaseJob(m) \/ ReturnToIdle(m) \/ NotifyDone(m)

UserStep(u) ==
    \/ Lease(u) \/ Assign(u) \/ Start(u) \/ Shutdown(u) \/ WaitDone(u) \/ Destroy(u)

\* The process has ended, or the pools that are kept are all there is; or the
\* destructor joins a thread that parked again (see ExitCompletes).
Rest ==
    /\ \A u \in Users : user[u] = "kept" \/ (user[u] = "idle" /\ round[u] > Rounds[u])
    /\ \A m \in 1..allThreads : loop[m] \in {"parked", "run", "exited"}
    /\ \/ ~ProcessExits \/ ~UsersDone
       \/ victim > allThreads
       \/ teardown = "join" /\ loop[victim] = "parked" /\ ~hasWork[victim]
    /\ UNCHANGED vars

Teardown == SetExiting \/ WakeToExit \/ JoinThread

Next == (\E m \in MarketThreads : Loop(m)) \/ (\E u \in Users : UserStep(u)) \/ Teardown
        \/ Rest

Spec == Init /\ [][Next]_vars

\* The scheduler runs every thread that can run; a shut-down workerLoop()
\* returns.
FairSpec ==
    /\ Spec
    /\ \A m \in MarketThreads : WF_vars(Loop(m))
    /\ \A u \in Users : WF_vars(UserStep(u))
    /\ WF_vars(Teardown)

----------------------------------------------------------------------------
\* Properties.

\* Every variable has its type.
TypeOK ==
    /\ allThreads \in 0..Cardinality(MarketThreads)
    /\ idleThreads \in Seq(1..allThreads)
    /\ hasWork \in [MarketThreads -> BOOLEAN]
    /\ exiting \in [MarketThreads -> BOOLEAN]
    /\ job \in [MarketThreads -> Pools \cup {NoJob}]
    /\ loop \in [MarketThreads -> {"unborn", "wait", "parked", "check", "run", "clear",
                                   "release", "return", "notify", "exited"}]
    /\ user \in [Users -> {"idle", "assign", "start", "use", "kept", "waitDone",
                           "parked"}]
    /\ round \in [Users -> Nat] /\ \A u \in Users : round[u] \in 1..(Rounds[u] + 1)
    /\ leased \in [Users -> Seq(0..allThreads)]
    /\ index \in [Users -> 1..(PoolSize + 1)]
    /\ stopped \subseteq Pools
    /\ teardown \in {"up", "wake", "join"}
    /\ victim \in 1..(allThreads + 1)
    /\ ran \in [Pools -> 0..PoolSize]

\* The users whose pools count on a thread, and its places in idleThreads_.
Holders(m) == {u \in Users : /\ user[u] \in {"assign", "start", "use", "kept"}
                             /\ \E i \in 1..PoolSize : leased[u][i] = m}
IdlePlaces(m) == {i \in 1..Len(idleThreads) : idleThreads[i] = m}

\* A thread is leased to one pool at a time, and is never idle and leased, nor
\* idle twice: the lease of a pool ends with its job, not with its waitDone().
LeasedOnce ==
    \A m \in 1..allThreads : Cardinality(Holders(m)) + Cardinality(IdlePlaces(m)) <= 1

\* assign() writes job_ only while the thread is not using it.
JobUnshared ==
    \A u \in Users : user[u] \in {"assign", "start"}
                     => loop[Current(u)] \in {"wait", "parked", "notify"}

\* A pool in use has all its workers: each leased thread has its job and will
\* run it, or does.
WorkersAtWork ==
    \A u \in Users : user[u] \in {"use", "kept"} =>
        \A i \in 1..PoolSize : LET m == leased[u][i]
                               IN  job[m] = <<u, round[u]>> /\ hasWork[m]

\* No job is written under a thread that uses it, nor lost to the end of the
\* thread's last one.
JobsIntact == JobUnshared /\ WorkersAtWork

\* When shutdown() has waited for a worker, that worker's job has ended: the
\* pool's memory may go, whatever pool the thread serves by then.
DoneMeansDone ==
    \A u \in Users : user[u] \in {"waitDone", "parked"} =>
        \A i \in 1..(index[u] - 1) :
            LET m == leased[u][i]
            IN  m # NoThread => ~(loop[m] \in {"check", "run"} /\ job[m] = <<u, round[u]>>)

\* Every job of every pool runs.
EveryJobRuns ==
    \A p \in Pools :
        (user[p[1]] = "use" /\ round[p[1]] = p[2]) ~> ran[p] = PoolSize

\* shutdown() returns.
ShutdownReturns == \A u \in Users : user[u] \in {"waitDone", "parked"} ~> user[u] = "idle"

\* When the process ends, every thread is joined, whatever it is doing.
ExitCompletes == (ProcessExits /\ UsersDone) ~> (UsersDone /\ victim > allThreads)

\* The same if no thread still had a job when the last user was done.
QuietExitCompletes ==
    (/\ ProcessExits /\ UsersDone /\ teardown = "up" /\ victim = 1
     /\ \A m \in 1..allThreads : loop[m] \in {"wait", "parked", "return", "notify"}
                                 /\ ~hasWork[m])
    ~> (UsersDone /\ victim > allThreads)

\* A user that creates pools one after the other is served by the threads of
\* the first.
WarmThreadsReused == Cardinality(Users) = 1 => allThreads <= PoolSize
=============================================================================
