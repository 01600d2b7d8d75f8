------------------------- MODULE ThreadMarket_proof -------------------------
(***************************************************************************)
(* Theorems about ThreadMarket for any number of users, pools and workers, *)
(* and any endings: a thread serves one pool at a time, its job is neither *)
(* overwritten nor lost, and a pool that has waited for a worker may go.   *)
(***************************************************************************)
EXTENDS ThreadMarket, FiniteSetTheorems, SequenceTheorems, TLAPS

\* A user whose pool has its threads, and one that waits for their jobs to end.
Active == {"assign", "start", "use", "kept"}
Ending == {"waitDone", "parked"}

\* The places in loop() of a thread with no job yet.
Waiting == {"wait", "parked", "notify"}

Workers == 1..PoolSize
Pool(u) == <<u, round[u]>>
Idle == {idleThreads[k] : k \in 1..Len(idleThreads)}

\* The workers of a pool that have been given their job.
Given(u, i) == user[u] \in {"use", "kept"} \/ i < index[u]

UsersInv ==
    /\ \A u \in Users : user[u] # "idle" => /\ leased[u] \in [Workers -> 0..allThreads]
                                            /\ Pool(u) \in Pools
    /\ \A u \in Users : user[u] \in Active => \A i \in Workers : leased[u][i] # NoThread
    /\ \A u \in Users : user[u] \in Active \cup {"parked"} => index[u] <= PoolSize
    /\ \A u \in Users : user[u] \in {"use", "kept"} => index[u] = 1
    /\ \A u \in Users : user[u] \notin Ending => Pool(u) \notin stopped
    /\ \A p \in stopped : p[2] <= round[p[1]]

\* idleThreads_ and the pools share no thread.
LeaseInv ==
    /\ \A j, k \in 1..Len(idleThreads) : idleThreads[j] = idleThreads[k] => j = k
    /\ \A u, v \in Users : \A i, j \in Workers :
          user[u] \in Active /\ user[v] \in Active /\ leased[u][i] = leased[v][j]
          => u = v /\ i = j
    /\ \A u \in Users : \A i \in Workers : user[u] \in Active => leased[u][i] \notin Idle

\* What a thread's place in loop() says of its job_ and hasWork_; an idle
\* thread has neither.
ThreadOK(m) ==
    /\ loop[m] = "unborn" <=> m > allThreads
    /\ loop[m] = "unborn" => job[m] = NoJob /\ ~hasWork[m] /\ ~exiting[m]
    /\ loop[m] \in {"check", "run", "clear", "release"} => hasWork[m]
    /\ loop[m] \in {"run", "clear"} => job[m] # NoJob
    /\ loop[m] \in {"release", "return"} => job[m] = NoJob
    /\ loop[m] = "clear" => job[m] \in stopped
    /\ loop[m] \in Waiting \cup {"check", "return"} /\ hasWork[m]
          => job[m] # NoJob \/ exiting[m]
    /\ loop[m] = "exited" => exiting[m]
    /\ exiting[m] => UsersDone
    /\ m \in Idle => /\ loop[m] \in Waiting \cup {"check", "exited"}
                     /\ job[m] = NoJob
                     /\ hasWork[m] => exiting[m]

ThreadInv == \A m \in MarketThreads : ThreadOK(m)

\* A leased thread has its pool's job from assign() on, and none before.
LeasedInv ==
    \A u \in Users : \A i \in Workers : user[u] \in Active =>
       LET m == leased[u][i]
       IN  IF Given(u, i) THEN job[m] = Pool(u) /\ hasWork[m]
           ELSE /\ ~hasWork[m] /\ loop[m] \in Waiting
                /\ job[m] = IF user[u] = "start" /\ i = index[u] THEN Pool(u) ELSE NoJob

\* A job is of a pool that leases its thread, or of one that has been told to
\* stop, and then hasWork_ is set; no thread for which a pool has waited has
\* that pool's job.
JobInv ==
    /\ \A m \in MarketThreads : job[m] # NoJob =>
          \/ \E u \in Users : /\ user[u] \in Active /\ job[m] = Pool(u)
                              /\ \E i \in Workers : leased[u][i] = m
          \/ job[m] \in stopped /\ hasWork[m]
    /\ \A u \in Users : user[u] \in Ending => \A i \in 1..(index[u] - 1) :
          leased[u][i] # NoThread => job[leased[u][i]] # Pool(u)

ExitInv ==
    teardown # "up" => UsersDone /\ victim <= allThreads /\ exiting[victim]

\* The jobs of a pool that have not begun and those that have are no more than
\* those it has given.
Pending(p) == {m \in MarketThreads : job[m] = p /\ loop[m] \in Waiting \cup {"check"}}

AssignedTo(p) ==
    IF p[2] < round[p[1]] THEN PoolSize
    ELSE IF p[2] > round[p[1]] \/ user[p[1]] = "idle" THEN 0
    ELSE IF user[p[1]] = "assign" THEN index[p[1]] - 1
    ELSE IF user[p[1]] = "start" THEN index[p[1]]
    ELSE PoolSize

RanInv == \A p \in Pools : ran[p] + Cardinality(Pending(p)) <= AssignedTo(p)

\* No more threads than the pools so far have workers.
Begun == {p \in Pools : p[2] < round[p[1]] \/ (p[2] = round[p[1]] /\ user[p[1]] # "idle")}
SizeInv == allThreads <= PoolSize * Cardinality(Begun)

Types ==
    /\ allThreads \in Nat /\ allThreads <= PoolSize * Cardinality(Pools)
    /\ idleThreads \in Seq(1..allThreads)
    /\ hasWork \in [MarketThreads -> BOOLEAN]
    /\ exiting \in [MarketThreads -> BOOLEAN]
    /\ job \in [MarketThreads -> Pools \cup {NoJob}]
    /\ loop \in [MarketThreads -> {"unborn", "wait", "parked", "check", "run", "clear",
                                   "release", "return", "notify", "exited"}]
    /\ user \in [Users -> Active \cup Ending \cup {"idle"}]
    /\ round \in [Users -> Nat] /\ \A u \in Users : round[u] \in 1..(Rounds[u] + 1)
    /\ leased \in [Users -> Seq(0..allThreads)]
    /\ index \in [Users -> 1..(PoolSize + 1)]
    /\ stopped \subseteq Pools
    /\ teardown \in {"up", "wake", "join"}
    /\ victim \in Nat /\ victim \in 1..(allThreads + 1)
    /\ ran \in [Pools -> Nat]

IInv == /\ Types /\ UsersInv /\ LeaseInv /\ ThreadInv /\ LeasedInv /\ JobInv /\ ExitInv
        /\ RanInv /\ SizeInv

PCs == {"unborn", "wait", "parked", "check", "run", "clear", "release", "return",
        "notify", "exited"}

LEMMA Sizes ==
  /\ PoolSize \in Nat \ {0} /\ Cardinality(Pools) \in Nat /\ IsFiniteSet(Pools)
  /\ PoolSize * Cardinality(Pools) \in Nat
  /\ MarketThreads \subseteq Nat \ {0} /\ IsFiniteSet(MarketThreads)
  /\ Cardinality(MarketThreads) = PoolSize * Cardinality(Pools)
<1>1. PoolSize \in Nat \ {0} /\ Cardinality(Pools) \in Nat /\ IsFiniteSet(Pools)
  BY PoolAssumption, PoolsAssumption, FS_CardinalityType
<1>2. PoolSize * Cardinality(Pools) \in Nat
  BY <1>1
<1> DEFINE N == PoolSize * Cardinality(Pools)
<1> HIDE DEF N
<1>3. N \in Nat => 1..N \subseteq Nat \ {0} /\ IsFiniteSet(1..N) /\ Cardinality(1..N) = N
  BY FS_Interval
<1> QED BY <1>1, <1>2, <1>3 DEF MarketThreads, N

LEMMA PoolsAre ==
  /\ \A p \in Pools : p[1] \in Users /\ p[2] \in 1..Rounds[p[1]] /\ p = <<p[1], p[2]>>
  /\ \A u \in Users : \A k \in 1..Rounds[u] : <<u, k>> \in Pools
  /\ NoJob \notin Pools
<1>1. \A p : p \in Pools <=> \E u \in Users : p \in {u} \X (1..Rounds[u])
  BY DEF Pools
<1>2. ASSUME NEW p \in Pools
      PROVE  p[1] \in Users /\ p[2] \in 1..Rounds[p[1]] /\ p = <<p[1], p[2]>> /\ p # NoJob
  <2>1. PICK u \in Users : p \in {u} \X (1..Rounds[u])
    BY <1>1
  <2>2. Len(p) = 2 /\ Len(NoJob) = 1
    BY <2>1 DEF NoJob
  <2> QED BY <2>1, <2>2
<1>3. \A u \in Users : \A k \in 1..Rounds[u] : <<u, k>> \in Pools
  BY <1>1
<1> QED BY <1>2, <1>3

\* What a pool leases are threads, except where a worker was detached.
LEMMA LeasedAre ==
  ASSUME Types, UsersInv, NEW u \in Users, user[u] # "idle", NEW i \in Workers
  PROVE  /\ leased[u][i] # NoThread => leased[u][i] \in MarketThreads
         /\ leased[u][i] # NoThread => leased[u][i] \in 1..allThreads
         /\ user[u] \in Active => leased[u][i] # NoThread
<1>1. leased[u][i] \in 0..allThreads
  BY DEF UsersInv
<1>2. allThreads \in Nat /\ allThreads <= PoolSize * Cardinality(Pools)
  BY DEF Types
<1> DEFINE N == PoolSize * Cardinality(Pools)
<1>3. N \in Nat /\ allThreads <= N /\ MarketThreads = 1..N
  BY <1>2, Sizes DEF MarketThreads
<1> HIDE DEF N
<1>4. user[u] \in Active => leased[u][i] # NoThread
  BY DEF UsersInv
<1> QED BY <1>1, <1>2, <1>3, <1>4 DEF NoThread

LEMMA InitInv == Init => IInv
<1> SUFFICES ASSUME Init PROVE IInv
  OBVIOUS
<1> USE DEF Init
<1>1. Types
  <2>1. /\ idleThreads \in Seq(1..allThreads)
        /\ leased \in [Users -> Seq(0..allThreads)]
    BY EmptySeq
  <2>2. /\ round \in [Users -> Nat] /\ \A u \in Users : round[u] \in 1..(Rounds[u] + 1)
        /\ index \in [Users -> 1..(PoolSize + 1)]
    BY PoolAssumption
  <2>3. /\ allThreads \in Nat /\ allThreads <= PoolSize * Cardinality(Pools)
        /\ victim \in 1..(allThreads + 1)
    BY Sizes
  <2> QED BY <2>1, <2>2, <2>3 DEF Types, Active, Ending
<1>2. UsersInv /\ LeasedInv /\ ExitInv
  BY DEF UsersInv, LeasedInv, ExitInv, Active, Ending
<1>3. Idle = {}
  BY DEF Idle
<1>4. LeaseInv
  BY <1>3 DEF LeaseInv, Active
<1>5. ThreadInv
  BY <1>3, Sizes DEF ThreadInv, ThreadOK, Waiting
<1>6. JobInv
  BY DEF JobInv, Ending
<1>7. RanInv
  <2> SUFFICES ASSUME NEW p \in Pools
               PROVE  ran[p] + Cardinality(Pending(p)) <= AssignedTo(p)
    BY DEF RanInv
  <2>1. Pending(p) = {}
    BY PoolsAre DEF Pending
  <2>2. AssignedTo(p) = 0
    BY PoolsAre, PoolAssumption DEF AssignedTo
  <2> QED BY <2>1, <2>2, FS_EmptySet
<1>8. SizeInv
  <2>1. Cardinality(Begun) \in Nat
    BY Sizes, FS_Subset, FS_CardinalityType DEF Begun
  <2> QED BY <2>1, Sizes DEF SizeInv
<1> QED BY <1>1, <1>2, <1>4, <1>5, <1>6, <1>7, <1>8 DEF IInv

----------------------------------------------------------------------------
\* The thread's own steps.

\* A thread that has its hasWork_ set and no job of a pool in use is leased by
\* nobody.
LEMMA NotLeased ==
  ASSUME IInv, NEW m \in MarketThreads, hasWork[m], job[m] \in stopped \cup {NoJob},
         NEW u \in Users, user[u] \in Active, NEW i \in Workers
  PROVE  leased[u][i] # m
<1>1. Pool(u) \in Pools \ stopped
  BY DEF IInv, UsersInv, Active, Ending
<1> QED BY <1>1, PoolsAre DEF IInv, LeasedInv

\* A notification may wake users, and does nothing else to them.
Woken ==
    /\ UNCHANGED <<round, leased, index, stopped>>
    /\ user' \in [Users -> Active \cup Ending \cup {"idle"}]
    /\ \A u \in Users : user'[u] # user[u] => user[u] = "parked" /\ user'[u] = "waitDone"

LEMMA WokenSame ==
  ASSUME Types, Woken, NEW u \in Users
  PROVE  /\ user'[u] \in Active <=> user[u] \in Active
         /\ user'[u] \in Active => user'[u] = user[u]
         /\ user'[u] \in Ending <=> user[u] \in Ending
         /\ user'[u] = "idle" <=> user[u] = "idle"
         /\ user'[u] = "parked" => user[u] = "parked"
<1> QED BY DEF Types, Woken, Active, Ending

LEMMA WokenCounts ==
  ASSUME Types, Woken
  PROVE  UsersDone' = UsersDone /\ Begun' = Begun /\ \A p \in Pools : AssignedTo(p)' = AssignedTo(p)
<1>1. \A u \in Users : user'[u] = user[u] \/ (user[u] = "parked" /\ user'[u] = "waitDone")
  BY DEF Woken
<1>2. \A p \in Pools : p[1] \in Users
  BY PoolsAre
<1>3. \A p \in Pools : AssignedTo(p)' = AssignedTo(p)
  BY <1>1, <1>2 DEF AssignedTo, Woken
<1>4. \A p \in Pools : p \in Begun' <=> p \in Begun
  BY <1>1, <1>2 DEF Begun, Woken
<1>5. Begun' \subseteq Pools /\ Begun \subseteq Pools
  BY DEF Begun
<1>6. Begun' = Begun
  BY <1>4, <1>5
<1>7. UsersDone' = UsersDone
  BY <1>1 DEF UsersDone, Woken
<1> QED BY <1>3, <1>6, <1>7

\* What a step of one thread, which leaves idleThreads_ alone, has to show.
LEMMA ThreadStep ==
  ASSUME IInv, NEW m \in MarketThreads,
         UNCHANGED <<marketVars, exiting, exitVars>>, Woken,
         \A n \in MarketThreads \ {m} : /\ loop'[n] = loop[n] /\ job'[n] = job[n]
                                       /\ hasWork'[n] = hasWork[n],
         ThreadOK(m)',
         \/ /\ job'[m] = job[m] /\ hasWork'[m] = hasWork[m]
            /\ loop[m] \in Waiting /\ ~hasWork[m] => loop'[m] \in Waiting
         \/ hasWork[m] /\ job[m] \in stopped \cup {NoJob} /\ job'[m] = NoJob
  PROVE  UsersInv' /\ LeaseInv' /\ ThreadInv' /\ LeasedInv' /\ JobInv' /\ ExitInv' /\ SizeInv'
<1> USE DEF marketVars, exitVars
<1>0. UsersInv /\ LeaseInv /\ ThreadInv /\ LeasedInv /\ JobInv /\ ExitInv /\ SizeInv /\ Types
  BY DEF IInv
<1>1. /\ UsersDone' = UsersDone
      /\ \A u \in Users : /\ user'[u] \in Active <=> user[u] \in Active
                          /\ user'[u] \in Active => user'[u] = user[u]
                          /\ user'[u] \in Ending <=> user[u] \in Ending
                          /\ user'[u] = "idle" <=> user[u] = "idle"
                          /\ user'[u] = "parked" => user[u] = "parked"
      /\ Begun' = Begun
      /\ UNCHANGED <<round, leased, index, stopped>>
      /\ Idle' = Idle
  BY <1>0, WokenSame, WokenCounts DEF Woken, Idle
<1> HIDE DEF Woken
<1>2. UsersInv' /\ SizeInv'
  BY <1>0, <1>1 DEF UsersInv, SizeInv, Pool, Active
<1>3. LeaseInv'
  BY <1>0, <1>1 DEF LeaseInv
<1>4. ThreadInv'
  BY <1>0, <1>1 DEF ThreadInv, ThreadOK
<1>5. ExitInv'
  BY <1>0, <1>1 DEF ExitInv
<1>6. LeasedInv'
  <2> SUFFICES ASSUME NEW u \in Users, NEW i \in Workers, user[u] \in Active
               PROVE  LET n == leased[u][i]
                      IN  IF Given(u, i) THEN job'[n] = Pool(u) /\ hasWork'[n]
                          ELSE /\ ~hasWork'[n] /\ loop'[n] \in Waiting
                               /\ job'[n] = IF user[u] = "start" /\ i = index[u]
                                            THEN Pool(u) ELSE NoJob
    BY <1>1 DEF LeasedInv, Given, Pool, Active
  <2>1. leased[u][i] \in MarketThreads
    BY <1>0, LeasedAre DEF Active
  <2>2. CASE leased[u][i] # m
    BY <1>0, <2>1, <2>2 DEF LeasedInv
  <2>3. CASE leased[u][i] = m
    BY <1>0, <2>3, NotLeased DEF LeasedInv
  <2> QED BY <2>2, <2>3
<1>7. JobInv'
  <2>1. ASSUME NEW n \in MarketThreads, job'[n] # NoJob
        PROVE  \/ \E u \in Users : /\ user[u] \in Active /\ job'[n] = Pool(u)
                                   /\ \E i \in Workers : leased[u][i] = n
               \/ job'[n] \in stopped /\ hasWork'[n]
    BY <1>0, <2>1 DEF JobInv
  <2>2. ASSUME NEW u \in Users, user[u] \in Ending, NEW i \in 1..(index[u] - 1),
               leased[u][i] # NoThread
        PROVE  job'[leased[u][i]] # Pool(u)
    <3>1. leased[u][i] \in MarketThreads
      <4>1. i \in Workers
        BY <1>0, <2>2, PoolAssumption DEF Types, Workers
      <4> QED BY <1>0, <2>2, <4>1, LeasedAre DEF Ending
    <3>2. Pool(u) # NoJob
      BY <1>0, <2>2, PoolsAre DEF UsersInv, Ending
    <3> QED BY <1>0, <2>2, <3>1, <3>2 DEF JobInv
  <2> QED BY <1>1, <2>1, <2>2 DEF JobInv, Pool
<1> QED BY <1>2, <1>3, <1>4, <1>5, <1>6, <1>7

\* The number of jobs given and not begun never grows with what has begun.
LEMMA Counts ==
  ASSUME Types, NEW p \in Pools
  PROVE  /\ IsFiniteSet(Pending(p)) /\ Cardinality(Pending(p)) \in Nat
         /\ AssignedTo(p) \in Nat /\ ran[p] \in Nat
<1>1. IsFiniteSet(Pending(p)) /\ Cardinality(Pending(p)) \in Nat
  BY Sizes, FS_Subset, FS_CardinalityType DEF Pending
<1>2. AssignedTo(p) \in Nat
  BY PoolsAre, PoolAssumption DEF AssignedTo, Types
<1> QED BY <1>1, <1>2 DEF Types

LEMMA RanKept ==
  ASSUME IInv, ran' = ran,
         \A p \in Pools : Pending(p)' \subseteq Pending(p) /\ AssignedTo(p)' = AssignedTo(p)
  PROVE  RanInv'
<1> SUFFICES ASSUME NEW p \in Pools
             PROVE  ran[p] + Cardinality(Pending(p)') <= AssignedTo(p)
  BY DEF RanInv
<1>1. /\ IsFiniteSet(Pending(p)) /\ Cardinality(Pending(p)) \in Nat
      /\ AssignedTo(p) \in Nat /\ ran[p] \in Nat
  BY Counts DEF IInv
<1>2. IsFiniteSet(Pending(p)') /\ Cardinality(Pending(p)') <= Cardinality(Pending(p))
  BY <1>1, FS_Subset
<1>3. Cardinality(Pending(p)') \in Nat
  BY <1>2, FS_CardinalityType
<1>4. ran[p] + Cardinality(Pending(p)) <= AssignedTo(p)
  BY DEF IInv, RanInv
<1> QED BY <1>1, <1>2, <1>3, <1>4

LEMMA WaitForWorkStep ==
  ASSUME IInv, NEW m \in MarketThreads, WaitForWork(m)
  PROVE  IInv'
<1> USE DEF marketVars, threadVars, userVars, exitVars
<1>1. Types /\ ThreadOK(m)
  BY DEF IInv, ThreadInv
<1>2. /\ loop[m] = "wait"
      /\ loop' = [loop EXCEPT ![m] = IF hasWork[m] THEN "check" ELSE "parked"]
      /\ UNCHANGED <<marketVars, threadVars, userVars, exitVars, ran>>
  BY DEF WaitForWork, AtLoop
<1>3. Types'
  BY <1>1, <1>2 DEF Types
<1>4. /\ loop'[m] = IF hasWork[m] THEN "check" ELSE "parked"
      /\ \A n \in MarketThreads \ {m} : loop'[n] = loop[n]
  BY <1>1, <1>2 DEF Types
<1>5. ThreadOK(m)'
  BY <1>1, <1>2, <1>4 DEF ThreadOK, Idle, UsersDone, Waiting
<1>6. UsersInv' /\ LeaseInv' /\ ThreadInv' /\ LeasedInv' /\ JobInv' /\ ExitInv' /\ SizeInv'
  BY <1>1, <1>2, <1>4, <1>5, ThreadStep DEF Waiting, Woken, Types
<1>7. RanInv'
  BY <1>2, <1>4, RanKept DEF Pending, AssignedTo, Waiting
<1> QED BY <1>3, <1>6, <1>7 DEF IInv

LEMMA CheckExitingStep ==
  ASSUME IInv, NEW m \in MarketThreads, CheckExiting(m)
  PROVE  IInv'
<1> USE DEF marketVars, threadVars, userVars, exitVars
<1>1. Types /\ ThreadOK(m)
  BY DEF IInv, ThreadInv
<1>2. /\ loop[m] = "check"
      /\ loop' = [loop EXCEPT ![m] = IF exiting[m] THEN "exited" ELSE "run"]
      /\ ran' = IF exiting[m] THEN ran ELSE [ran EXCEPT ![job[m]] = @ + 1]
      /\ UNCHANGED <<marketVars, threadVars, userVars, exitVars>>
  BY DEF CheckExiting, AtLoop
<1>3. Types'
  <2>1. ran' \in [Pools -> Nat]
    <3>1. CASE exiting[m]
      BY <1>1, <1>2, <3>1 DEF Types
    <3>2. CASE ~exiting[m]
      <4>1. ran \in [Pools -> Nat] /\ ran' = [ran EXCEPT ![job[m]] = @ + 1]
        BY <1>1, <1>2, <3>2 DEF Types
      <4>2. job[m] \in Pools
        BY <1>1, <1>2, <3>2 DEF Types, ThreadOK
      <4> QED BY <4>1, <4>2
    <3> QED BY <3>1, <3>2
  <2> QED BY <1>1, <1>2, <2>1 DEF Types
<1>4. /\ loop'[m] = IF exiting[m] THEN "exited" ELSE "run"
      /\ \A n \in MarketThreads \ {m} : loop'[n] = loop[n]
  BY <1>1, <1>2 DEF Types
<1>5. ThreadOK(m)'
  BY <1>1, <1>2, <1>4 DEF ThreadOK, Idle, UsersDone, Waiting
<1>6. UsersInv' /\ LeaseInv' /\ ThreadInv' /\ LeasedInv' /\ JobInv' /\ ExitInv' /\ SizeInv'
  BY <1>1, <1>2, <1>4, <1>5, ThreadStep DEF Waiting, Woken, Types
<1>7. \A p \in Pools : Pending(p)' \subseteq Pending(p) /\ AssignedTo(p)' = AssignedTo(p)
  BY <1>2, <1>4 DEF Pending, AssignedTo, Waiting
<1>8. CASE exiting[m]
  <2>1. RanInv'
    BY <1>2, <1>7, <1>8, RanKept
  <2> QED BY <1>3, <1>6, <2>1 DEF IInv
<1>9. CASE ~exiting[m]
  <2>1. job[m] # NoJob /\ job[m] \in Pools
    BY <1>1, <1>2, <1>9 DEF Types, ThreadOK
  <2>2. ASSUME NEW p \in Pools
        PROVE  ran'[p] + Cardinality(Pending(p)') <= AssignedTo(p)'
    <3>1. /\ IsFiniteSet(Pending(p)) /\ Cardinality(Pending(p)) \in Nat
          /\ AssignedTo(p) \in Nat /\ ran[p] \in Nat
          /\ ran[p] + Cardinality(Pending(p)) <= AssignedTo(p)
      BY <1>1, Counts DEF IInv, RanInv
    <3>2. IsFiniteSet(Pending(p)') /\ Cardinality(Pending(p)') <= Cardinality(Pending(p))
      BY <1>7, <3>1, FS_Subset
    <3>3. Cardinality(Pending(p)') \in Nat
      BY <3>2, FS_CardinalityType
    <3>4. CASE p = job[m]
      <4>1. Pending(p)' = Pending(p) \ {m} /\ m \in Pending(p)
        BY <1>2, <1>4, <1>9, <3>4 DEF Pending, Waiting
      <4>2. Cardinality(Pending(p)') = Cardinality(Pending(p)) - 1
        BY <3>1, <4>1, FS_RemoveElement
      <4>3. ran'[p] = ran[p] + 1
        BY <1>1, <1>2, <1>9, <3>4 DEF Types
      <4> QED BY <1>7, <3>1, <3>3, <4>2, <4>3
    <3>5. CASE p # job[m]
      <4>1. ran'[p] = ran[p]
        BY <1>1, <1>2, <1>9, <3>5 DEF Types
      <4> QED BY <1>7, <3>1, <3>2, <3>3, <4>1
    <3> QED BY <3>4, <3>5
  <2>3. RanInv'
    BY <2>2 DEF RanInv
  <2> QED BY <1>3, <1>6, <2>3 DEF IInv
<1> QED BY <1>8, <1>9

LEMMA JobReturnsStep ==
  ASSUME IInv, NEW m \in MarketThreads, JobReturns(m)
  PROVE  IInv'
<1> USE DEF marketVars, threadVars, userVars, exitVars
<1>1. Types /\ ThreadOK(m)
  BY DEF IInv, ThreadInv
<1>2. /\ loop[m] = "run" /\ job[m] \in stopped
      /\ loop' = [loop EXCEPT ![m] = "clear"]
      /\ UNCHANGED <<marketVars, threadVars, userVars, exitVars, ran>>
  BY DEF JobReturns, AtLoop
<1>3. Types'
  BY <1>1, <1>2 DEF Types
<1>4. loop'[m] = "clear" /\ \A n \in MarketThreads \ {m} : loop'[n] = loop[n]
  BY <1>1, <1>2 DEF Types
<1>5. ThreadOK(m)'
  BY <1>1, <1>2, <1>4 DEF ThreadOK, Idle, UsersDone, Waiting
<1>6. UsersInv' /\ LeaseInv' /\ ThreadInv' /\ LeasedInv' /\ JobInv' /\ ExitInv' /\ SizeInv'
  BY <1>1, <1>2, <1>4, <1>5, ThreadStep DEF Waiting, Woken, Types
<1>7. RanInv'
  BY <1>2, <1>4, RanKept DEF Pending, AssignedTo, Waiting
<1> QED BY <1>3, <1>6, <1>7 DEF IInv

LEMMA ClearJobStep ==
  ASSUME IInv, NEW m \in MarketThreads, ClearJob(m)
  PROVE  IInv'
<1> USE DEF marketVars, userVars, exitVars
<1>1. Types /\ ThreadOK(m)
  BY DEF IInv, ThreadInv
<1>2. /\ loop[m] = "clear"
      /\ loop' = [loop EXCEPT ![m] = "release"] /\ job' = [job EXCEPT ![m] = NoJob]
      /\ UNCHANGED <<marketVars, hasWork, exiting, userVars, exitVars, ran>>
  BY DEF ClearJob, AtLoop
<1>3. Types'
  BY <1>1, <1>2 DEF Types
<1>4. /\ loop'[m] = "release" /\ job'[m] = NoJob
      /\ \A n \in MarketThreads \ {m} : loop'[n] = loop[n] /\ job'[n] = job[n]
  BY <1>1, <1>2 DEF Types
<1>5. ThreadOK(m)'
  BY <1>1, <1>2, <1>4 DEF ThreadOK, Idle, UsersDone, Waiting
<1>6. UsersInv' /\ LeaseInv' /\ ThreadInv' /\ LeasedInv' /\ JobInv' /\ ExitInv' /\ SizeInv'
  BY <1>1, <1>2, <1>4, <1>5, ThreadStep DEF ThreadOK, Woken, Types
<1>7. RanInv'
  BY <1>2, <1>4, RanKept DEF Pending, AssignedTo, Waiting
<1> QED BY <1>3, <1>6, <1>7 DEF IInv

LEMMA ReleaseJobStep ==
  ASSUME IInv, NEW m \in MarketThreads, ReleaseJob(m)
  PROVE  IInv'
<1> USE DEF marketVars, userVars, exitVars
<1>1. Types /\ ThreadOK(m)
  BY DEF IInv, ThreadInv
<1>2. /\ loop[m] = "release"
      /\ loop' = [loop EXCEPT ![m] = "return"] /\ hasWork' = [hasWork EXCEPT ![m] = FALSE]
      /\ UNCHANGED <<marketVars, exiting, job, userVars, exitVars, ran>>
  BY DEF ReleaseJob, AtLoop
<1>3. Types'
  BY <1>1, <1>2 DEF Types
<1>4. /\ loop'[m] = "return" /\ ~hasWork'[m]
      /\ \A n \in MarketThreads \ {m} : loop'[n] = loop[n] /\ hasWork'[n] = hasWork[n]
  BY <1>1, <1>2 DEF Types
<1>5. ThreadOK(m)'
  BY <1>1, <1>2, <1>4 DEF ThreadOK, Idle, UsersDone, Waiting
<1>6. UsersInv' /\ LeaseInv' /\ ThreadInv' /\ LeasedInv' /\ JobInv' /\ ExitInv' /\ SizeInv'
  BY <1>1, <1>2, <1>4, <1>5, ThreadStep DEF ThreadOK, Woken, Types
<1>7. RanInv'
  BY <1>2, <1>4, RanKept DEF Pending, AssignedTo, Waiting
<1> QED BY <1>3, <1>6, <1>7 DEF IInv

\* Users wake up only once they have been told to: nothing else of theirs changes.
LEMMA WokenUsersAre ==
  ASSUME Types, NEW m
  PROVE  /\ WokenUsers(m) \in [Users -> Active \cup Ending \cup {"idle"}]
         /\ \A u \in Users : WokenUsers(m)[u] # user[u]
                             => user[u] = "parked" /\ WokenUsers(m)[u] = "waitDone"
<1> QED BY DEF WokenUsers, Types, Active, Ending

LEMMA NotifyDoneStep ==
  ASSUME IInv, NEW m \in MarketThreads, NotifyDone(m)
  PROVE  IInv'
<1> USE DEF marketVars, threadVars, exitVars
<1>1. Types /\ ThreadOK(m)
  BY DEF IInv, ThreadInv
<1>2. /\ loop[m] = "notify" /\ loop' = [loop EXCEPT ![m] = "wait"]
      /\ user' = WokenUsers(m)
      /\ UNCHANGED <<marketVars, threadVars, round, leased, index, stopped, exitVars, ran>>
  BY DEF NotifyDone, AtLoop
<1>3. Woken
  BY <1>1, <1>2, WokenUsersAre DEF Woken
<1>4. Types'
  BY <1>1, <1>2, <1>3 DEF Types, Woken
<1>5. loop'[m] = "wait" /\ \A n \in MarketThreads \ {m} : loop'[n] = loop[n]
  BY <1>1, <1>2 DEF Types
<1>6. ThreadOK(m)'
  <2>1. UsersDone' = UsersDone
    BY <1>1, <1>3, WokenCounts
  <2> QED BY <1>1, <1>2, <1>5, <2>1 DEF ThreadOK, Idle, Waiting
<1>7. UsersInv' /\ LeaseInv' /\ ThreadInv' /\ LeasedInv' /\ JobInv' /\ ExitInv' /\ SizeInv'
  BY <1>2, <1>3, <1>5, <1>6, ThreadStep DEF Waiting
<1>8. RanInv'
  <2>1. \A p \in Pools : AssignedTo(p)' = AssignedTo(p)
    BY <1>1, <1>3, WokenCounts
  <2> QED BY <1>2, <1>5, <2>1, RanKept DEF Pending, Waiting
<1> QED BY <1>4, <1>7, <1>8 DEF IInv

\* The idle threads after a thread has been added to them.
LEMMA AppendIdle ==
  ASSUME Types, NEW m \in 1..allThreads, idleThreads' = Append(idleThreads, m)
  PROVE  /\ idleThreads' \in Seq(1..allThreads)
         /\ Len(idleThreads') = Len(idleThreads) + 1 /\ Len(idleThreads) \in Nat
         /\ \A k \in 1..Len(idleThreads) : idleThreads'[k] = idleThreads[k]
         /\ idleThreads'[Len(idleThreads) + 1] = m
         /\ Idle' = Idle \cup {m}
<1>1. /\ idleThreads' \in Seq(1..allThreads)
      /\ Len(idleThreads') = Len(idleThreads) + 1 /\ Len(idleThreads) \in Nat
      /\ \A k \in 1..Len(idleThreads) : idleThreads'[k] = idleThreads[k]
      /\ idleThreads'[Len(idleThreads) + 1] = m
  BY DEF Types
<1>2. Idle' = Idle \cup {m}
  BY <1>1 DEF Idle
<1> QED BY <1>1, <1>2

LEMMA ReturnToIdleStep ==
  ASSUME IInv, NEW m \in MarketThreads, ReturnToIdle(m)
  PROVE  IInv'
<1> USE DEF threadVars, userVars, exitVars
<1>1. /\ Types /\ ThreadOK(m) /\ UsersInv /\ LeaseInv /\ ThreadInv /\ LeasedInv /\ JobInv
      /\ ExitInv /\ SizeInv
  BY DEF IInv, ThreadInv
<1>2. /\ loop[m] = "return" /\ loop' = [loop EXCEPT ![m] = "notify"]
      /\ idleThreads' = Append(idleThreads, m)
      /\ UNCHANGED <<allThreads, threadVars, userVars, exitVars, ran>>
  BY DEF ReturnToIdle, AtLoop
<1>3. m \in 1..allThreads
  BY <1>1, <1>2, Sizes DEF ThreadOK, Types
<1>4. /\ idleThreads' \in Seq(1..allThreads)
      /\ Len(idleThreads') = Len(idleThreads) + 1 /\ Len(idleThreads) \in Nat
      /\ \A k \in 1..Len(idleThreads) : idleThreads'[k] = idleThreads[k]
      /\ idleThreads'[Len(idleThreads) + 1] = m
      /\ Idle' = Idle \cup {m}
  BY <1>1, <1>2, <1>3, AppendIdle
<1>5. Types'
  BY <1>1, <1>2, <1>4 DEF Types
<1>6. loop'[m] = "notify" /\ \A n \in MarketThreads \ {m} : loop'[n] = loop[n]
  BY <1>1, <1>2 DEF Types
<1>7. job[m] = NoJob /\ m \notin Idle
  <2>1. ThreadOK(m) /\ loop[m] = "return"
    BY <1>1, <1>2
  <2>2. job[m] = NoJob
    BY <2>1 DEF ThreadOK
  <2>3. m \notin Idle
    BY <2>1 DEF ThreadOK, Waiting
  <2> QED BY <2>2, <2>3
<1>8. \A u \in Users : \A i \in Workers : user[u] \in Active => leased[u][i] # m
  <2>1. \A u \in Users : user[u] \in Active => Pool(u) # NoJob
    BY <1>1, PoolsAre DEF UsersInv, Active
  <2> QED BY <1>1, <1>2, <1>7, <2>1 DEF LeasedInv, Waiting
<1>9. UsersInv' /\ JobInv' /\ ExitInv' /\ SizeInv'
  BY <1>1, <1>2 DEF UsersInv, JobInv, ExitInv, SizeInv, Begun, Pool, UsersDone
<1>10. LeaseInv'
  <2>1. ASSUME NEW j \in 1..Len(idleThreads'), NEW k \in 1..Len(idleThreads'),
               idleThreads'[j] = idleThreads'[k]
        PROVE  j = k
    BY <1>1, <1>4, <1>7, <2>1 DEF LeaseInv, Idle
  <2> QED BY <1>1, <1>2, <1>4, <1>8, <2>1 DEF LeaseInv
<1>11. ThreadInv'
  BY <1>1, <1>2, <1>4, <1>6, <1>7 DEF ThreadInv, ThreadOK, Waiting, UsersDone
<1>12. LeasedInv'
  <2>1. \A u \in Users : \A i \in Workers : user[u] \in Active
                          => leased[u][i] \in MarketThreads \ {m}
    BY <1>1, <1>8, LeasedAre DEF Active
  <2>2. \A u \in Users : \A i \in Workers : user[u] \in Active
                          => loop'[leased[u][i]] = loop[leased[u][i]]
    BY <1>6, <2>1
  <2>3. user' = user /\ round' = round /\ leased' = leased /\ index' = index
        /\ job' = job /\ hasWork' = hasWork
    BY <1>2
  <2>4. \A u \in Users : \A i \in Workers : Given(u, i)' <=> Given(u, i)
    BY <2>3 DEF Given
  <2> QED BY <1>1, <2>2, <2>3, <2>4 DEF LeasedInv, Pool
<1>13. RanInv'
  BY <1>2, <1>6, <1>7, PoolsAre, RanKept DEF Pending, AssignedTo, Waiting
<1> QED BY <1>5, <1>9, <1>10, <1>11, <1>12, <1>13 DEF IInv

----------------------------------------------------------------------------
\* The users' steps.

\* While a user has a pool, or is to have one, the market stays.
LEMMA Up ==
  ASSUME IInv, ~UsersDone
  PROVE  teardown = "up" /\ \A n \in MarketThreads : ~exiting[n]
<1> QED BY DEF IInv, ExitInv, ThreadInv, ThreadOK

LEMMA AssignStep ==
  ASSUME IInv, NEW u \in Users, Assign(u)
  PROVE  IInv'
<1> USE DEF marketVars, exitVars
<1>1. /\ Types /\ UsersInv /\ LeaseInv /\ ThreadInv /\ LeasedInv /\ JobInv
      /\ ExitInv /\ RanInv /\ SizeInv
  BY DEF IInv
<1> DEFINE m == leased[u][index[u]]
<1>2. /\ user[u] = "assign"
      /\ job' = [job EXCEPT ![m] = Pool(u)] /\ user' = [user EXCEPT ![u] = "start"]
      /\ UNCHANGED <<marketVars, hasWork, exiting, loop, round, leased, index, stopped,
                     exitVars, ran>>
  BY DEF Assign, Current, Pool
<1>3. index[u] \in Workers /\ Pool(u) \in Pools /\ Pool(u) # NoJob
  BY <1>1, <1>2, PoolsAre, PoolAssumption DEF Types, UsersInv, Active, Workers
<1>4. m \in MarketThreads /\ m \in 1..allThreads
  BY <1>1, <1>2, <1>3, LeasedAre DEF Active
<1>5. ~hasWork[m] /\ loop[m] \in Waiting /\ job[m] = NoJob /\ m \notin Idle
  <2>1. ~Given(u, index[u]) /\ user[u] \in Active
    BY <1>1, <1>2 DEF Given, Active, Types
  <2>2. ~hasWork[m] /\ loop[m] \in Waiting /\ job[m] = NoJob
    BY <1>1, <1>2, <1>3, <2>1 DEF LeasedInv
  <2>3. m \notin Idle
    BY <1>1, <1>3, <2>1 DEF LeaseInv
  <2> QED BY <2>2, <2>3
<1>6. /\ ~UsersDone /\ ~UsersDone' /\ teardown = "up"
      /\ \A n \in MarketThreads : ~exiting[n]
  BY <1>1, <1>2, Up DEF UsersDone, Types
<1>7. /\ \A v, w \in Users : \A i, j \in Workers :
            user[v] \in Active /\ user[w] \in Active /\ leased[v][i] = leased[w][j]
            => v = w /\ i = j
  BY <1>1 DEF LeaseInv
<1> HIDE DEF m
<1>8. /\ user'[u] = "start" /\ \A v \in Users \ {u} : user'[v] = user[v]
      /\ job'[m] = Pool(u) /\ \A n \in MarketThreads \ {m} : job'[n] = job[n]
      /\ \A v \in Users : user'[v] \in Active <=> user[v] \in Active
  BY <1>1, <1>2, <1>4 DEF Types, Active
<1>9. Types'
  BY <1>1, <1>2, <1>3 DEF Types, Active
<1>10. UsersInv'
  BY <1>1, <1>2, <1>8 DEF UsersInv, Pool, Active, Ending
<1>11. LeaseInv'
  BY <1>1, <1>2, <1>8 DEF LeaseInv, Idle
<1>12. ThreadInv'
  BY <1>1, <1>2, <1>3, <1>5, <1>6, <1>8 DEF ThreadInv, ThreadOK, Idle, Waiting
<1>13. LeasedInv'
  <2> SUFFICES ASSUME NEW v \in Users, NEW i \in Workers, user'[v] \in Active
               PROVE  LET n == leased[v][i]
                      IN  IF Given(v, i)' THEN job'[n] = Pool(v) /\ hasWork[n]
                          ELSE /\ ~hasWork[n] /\ loop[n] \in Waiting
                               /\ job'[n] = IF user'[v] = "start" /\ i = index[v]
                                            THEN Pool(v) ELSE NoJob
    BY <1>2 DEF LeasedInv, Pool
  <2>1. Given(v, i)' <=> Given(v, i)
    BY <1>2, <1>8 DEF Given
  <2>2. leased[v][i] \in MarketThreads /\ user[v] \in Active
    BY <1>1, <1>8, LeasedAre DEF Active
  <2>3. CASE v = u /\ i = index[u]
    BY <1>1, <1>2, <1>5, <1>8, <2>1, <2>3 DEF m, Given, Types
  <2>4. CASE ~(v = u /\ i = index[u])
    <3>1. leased[v][i] # m
      BY <1>2, <1>3, <1>7, <2>2, <2>4 DEF m, Active
    <3>2. job'[leased[v][i]] = job[leased[v][i]]
      BY <1>8, <2>2, <3>1
    <3>3. (user'[v] = "start" /\ i = index[v]) <=> (user[v] = "start" /\ i = index[v])
      BY <1>2, <1>8, <2>4
    <3> QED BY <1>1, <2>1, <2>2, <3>2, <3>3 DEF LeasedInv
  <2> QED BY <2>3, <2>4
<1>14. JobInv'
  <2>1. ASSUME NEW n \in MarketThreads, job'[n] # NoJob
        PROVE  \/ \E v \in Users : /\ user'[v] \in Active /\ job'[n] = Pool(v)
                                   /\ \E i \in Workers : leased[v][i] = n
               \/ job'[n] \in stopped /\ hasWork[n]
    <3>1. CASE n = m
      BY <1>2, <1>3, <1>8, <3>1 DEF m, Active
    <3>2. CASE n # m
      BY <1>1, <1>8, <2>1, <3>2 DEF JobInv
    <3> QED BY <3>1, <3>2
  <2>2. ASSUME NEW v \in Users, user'[v] \in Ending, NEW i \in 1..(index[v] - 1),
               leased[v][i] # NoThread
        PROVE  job'[leased[v][i]] # Pool(v)
    <3>1. v # u /\ user[v] \in Ending
      BY <1>8, <2>2 DEF Ending
    <3>2. i \in Workers
      BY <1>1, <2>2, PoolAssumption DEF Types, Workers
    <3>3. leased[v][i] \in MarketThreads
      BY <1>1, <2>2, <3>1, <3>2, LeasedAre DEF Ending
    <3>4. Pool(v) # Pool(u)
      BY <3>1 DEF Pool
    <3> QED BY <1>1, <1>8, <2>2, <3>1, <3>3, <3>4 DEF JobInv
  <2> QED BY <1>2, <2>1, <2>2 DEF JobInv, Pool
<1>15. ExitInv'
  BY <1>2, <1>6 DEF ExitInv
<1>16. RanInv'
  <2> SUFFICES ASSUME NEW p \in Pools
               PROVE  ran[p] + Cardinality(Pending(p)') <= AssignedTo(p)'
    BY <1>2 DEF RanInv
  <2>1. /\ IsFiniteSet(Pending(p)) /\ Cardinality(Pending(p)) \in Nat
        /\ AssignedTo(p) \in Nat /\ ran[p] \in Nat
        /\ ran[p] + Cardinality(Pending(p)) <= AssignedTo(p)
    BY <1>1, Counts DEF RanInv
  <2>2. CASE p = Pool(u)
    <3>1. Pending(p)' = Pending(p) \cup {m} /\ m \notin Pending(p)
      BY <1>2, <1>3, <1>4, <1>5, <1>8, <2>2 DEF Pending
    <3>2. Cardinality(Pending(p)') = Cardinality(Pending(p)) + 1
      BY <2>1, <3>1, FS_AddElement
    <3>3. AssignedTo(p)' = AssignedTo(p) + 1
      BY <1>1, <1>2, <1>8, <2>2 DEF AssignedTo, Pool, Types
    <3> QED BY <2>1, <3>2, <3>3
  <2>3. CASE p # Pool(u)
    <3>1. Pending(p)' = Pending(p)
      BY <1>2, <1>3, <1>4, <1>5, <1>8, <2>3, PoolsAre DEF Pending
    <3>2. AssignedTo(p)' = AssignedTo(p)
      BY <1>1, <1>2, <1>8, <2>3, PoolsAre DEF AssignedTo, Pool, Types
    <3> QED BY <2>1, <3>1, <3>2
  <2> QED BY <2>2, <2>3
<1>17. SizeInv'
  <2>1. \A p \in Pools : p \in Begun' <=> p \in Begun
    BY <1>2, <1>8, PoolsAre DEF Begun
  <2>2. Begun' = Begun
    BY <2>1 DEF Begun
  <2> QED BY <1>1, <1>2, <2>2 DEF SizeInv
<1> QED BY <1>9, <1>10, <1>11, <1>12, <1>13, <1>14, <1>15, <1>16, <1>17 DEF IInv

LEMMA StartStep ==
  ASSUME IInv, NEW u \in Users, Start(u)
  PROVE  IInv'
<1> USE DEF marketVars, exitVars
<1>1. /\ Types /\ UsersInv /\ LeaseInv /\ ThreadInv /\ LeasedInv /\ JobInv
      /\ ExitInv /\ RanInv /\ SizeInv
  BY DEF IInv
<1> DEFINE m == leased[u][index[u]]
           W == WokenUsers(m)
<1>2. /\ user[u] = "start"
      /\ hasWork' = [hasWork EXCEPT ![m] = TRUE]
      /\ loop' = [loop EXCEPT ![m] = IF @ = "parked" THEN "wait" ELSE @]
      /\ user' = [W EXCEPT ![u] = IF index[u] < PoolSize THEN "assign" ELSE "use"]
      /\ index' = [index EXCEPT ![u] = IF @ < PoolSize THEN @ + 1 ELSE 1]
      /\ UNCHANGED <<marketVars, exiting, job, round, leased, stopped, exitVars, ran>>
  BY DEF Start, Current, WakeThread
<1>3. /\ W \in [Users -> Active \cup Ending \cup {"idle"}]
      /\ \A v \in Users : W[v] # user[v] => user[v] = "parked" /\ W[v] = "waitDone"
  BY <1>1, WokenUsersAre
<1> HIDE DEF W
<1>4. index[u] \in Workers /\ Pool(u) \in Pools /\ Pool(u) # NoJob
  BY <1>1, <1>2, PoolsAre, PoolAssumption DEF Types, UsersInv, Active, Workers
<1>5. m \in MarketThreads /\ m \in 1..allThreads
  BY <1>1, <1>2, <1>4, LeasedAre DEF Active
<1>6. ~hasWork[m] /\ loop[m] \in Waiting /\ job[m] = Pool(u) /\ m \notin Idle
  <2>1. ~Given(u, index[u]) /\ user[u] \in Active
    BY <1>1, <1>2 DEF Given, Active, Types
  <2>2. ~hasWork[m] /\ loop[m] \in Waiting /\ job[m] = Pool(u)
    BY <1>1, <1>2, <1>4, <2>1 DEF LeasedInv
  <2>3. m \notin Idle
    BY <1>1, <1>4, <2>1 DEF LeaseInv
  <2> QED BY <2>2, <2>3
<1>7. /\ \A v, w \in Users : \A i, j \in Workers :
            user[v] \in Active /\ user[w] \in Active /\ leased[v][i] = leased[w][j]
            => v = w /\ i = j
  BY <1>1 DEF LeaseInv
<1> HIDE DEF m
<1>8. /\ user'[u] = IF index[u] < PoolSize THEN "assign" ELSE "use"
      /\ \A v \in Users \ {u} : user'[v] # user[v]
                                => user[v] = "parked" /\ user'[v] = "waitDone"
      /\ index'[u] = IF index[u] < PoolSize THEN index[u] + 1 ELSE 1
      /\ \A v \in Users \ {u} : index'[v] = index[v]
  BY <1>1, <1>2, <1>3 DEF Types
<1>9. /\ loop'[m] \in Waiting /\ hasWork'[m]
      /\ \A n \in MarketThreads \ {m} : loop'[n] = loop[n] /\ hasWork'[n] = hasWork[n]
  BY <1>1, <1>2, <1>5, <1>6 DEF Types, Waiting
<1>10. \A v \in Users : /\ user'[v] \in Active <=> user[v] \in Active
                        /\ user'[v] \in Active /\ v # u => user'[v] = user[v]
                        /\ user'[v] \in Ending <=> user[v] \in Ending
                        /\ user'[v] = "idle" <=> user[v] = "idle"
                        /\ user'[v] = "parked" => user[v] = "parked"
  BY <1>2, <1>8 DEF Active, Ending
<1>11. /\ ~UsersDone /\ ~UsersDone' /\ teardown = "up"
       /\ \A n \in MarketThreads : ~exiting[n]
  BY <1>1, <1>2, <1>10, Up DEF UsersDone, Types
<1>12. Types'
  <2>1. user' \in [Users -> Active \cup Ending \cup {"idle"}]
    BY <1>2, <1>3 DEF Active
  <2>2. index' \in [Users -> 1..(PoolSize + 1)]
    BY <1>1, <1>2, PoolAssumption DEF Types
  <2>3. loop' \in [MarketThreads -> PCs]
    BY <1>1, <1>2 DEF Types, PCs
  <2>4. hasWork' \in [MarketThreads -> BOOLEAN]
    BY <1>1, <1>2 DEF Types
  <2> QED BY <1>1, <1>2, <2>1, <2>2, <2>3, <2>4 DEF Types, PCs
<1>13. UsersInv'
  <2>1. \A v \in Users : user'[v] \in Active \cup {"parked"} => index'[v] <= PoolSize
    <3>1. index'[u] <= PoolSize
      BY <1>1, <1>4, <1>8, PoolAssumption DEF Types, Workers
    <3>2. \A v \in Users \ {u} : user'[v] \in Active \cup {"parked"}
                                => user[v] \in Active \cup {"parked"}
      BY <1>10
    <3> QED BY <1>1, <1>8, <3>1, <3>2 DEF UsersInv
  <2>2. ASSUME NEW v \in Users, user'[v] \in {"use", "kept"} PROVE index'[v] = 1
    BY <1>1, <1>2, <1>8, <2>2 DEF UsersInv
  <2> QED BY <1>1, <1>2, <1>10, <2>1, <2>2 DEF UsersInv, Pool
<1>14. LeaseInv'
  BY <1>1, <1>2, <1>10 DEF LeaseInv, Idle
<1>15. ThreadInv'
  BY <1>1, <1>2, <1>4, <1>5, <1>6, <1>9, <1>11 DEF ThreadInv, ThreadOK, Idle, Waiting
<1>16. LeasedInv'
  <2> SUFFICES ASSUME NEW v \in Users, NEW i \in Workers, user'[v] \in Active
               PROVE  LET n == leased[v][i]
                      IN  IF Given(v, i)' THEN job[n] = Pool(v) /\ hasWork'[n]
                          ELSE /\ ~hasWork'[n] /\ loop'[n] \in Waiting
                               /\ job[n] = IF user'[v] = "start" /\ i = index'[v]
                                           THEN Pool(v) ELSE NoJob
    BY <1>2 DEF LeasedInv, Pool
  <2>1. leased[v][i] \in MarketThreads /\ user[v] \in Active
    BY <1>1, <1>10, LeasedAre DEF Active
  <2>2. CASE v = u
    <3>1. /\ Given(u, i)' <=> i <= index[u]
          /\ Given(u, i) <=> i < index[u]
      <4>1. i \in Nat /\ index[u] \in Nat /\ PoolSize \in Nat /\ i <= PoolSize
            /\ index[u] <= PoolSize /\ 1 <= i
        BY <1>4, PoolAssumption DEF Workers
      <4>2. CASE index[u] < PoolSize
        BY <1>2, <1>8, <4>1, <4>2 DEF Given
      <4>3. CASE ~(index[u] < PoolSize)
        BY <1>2, <1>8, <4>1, <4>3 DEF Given
      <4> QED BY <4>2, <4>3
    <3>2. user'[u] # "start"
      BY <1>8
    <3>3. CASE i = index[u]
      BY <1>1, <1>4, <1>6, <1>9, <2>2, <3>1, <3>3 DEF m, Types
    <3>4. CASE i # index[u]
      <4>1. leased[u][i] # m
        BY <1>2, <1>4, <1>7, <3>4 DEF m, Active
      <4>2. /\ loop'[leased[u][i]] = loop[leased[u][i]]
            /\ hasWork'[leased[u][i]] = hasWork[leased[u][i]]
        BY <1>9, <2>1, <2>2, <4>1
      <4>3. Given(u, i)' <=> Given(u, i)
        BY <1>1, <1>4, <3>1, <3>4 DEF Types, Workers
      <4> QED BY <1>1, <2>1, <2>2, <3>2, <3>4, <4>2, <4>3 DEF LeasedInv
    <3> QED BY <3>3, <3>4
  <2>3. CASE v # u
    <3>1. leased[v][i] # m
      BY <1>2, <1>4, <1>7, <2>1, <2>3 DEF m, Active
    <3>2. /\ loop'[leased[v][i]] = loop[leased[v][i]]
          /\ hasWork'[leased[v][i]] = hasWork[leased[v][i]]
      BY <1>9, <2>1, <3>1
    <3>3. user'[v] = user[v] /\ index'[v] = index[v] /\ (Given(v, i)' <=> Given(v, i))
      BY <1>8, <1>10, <2>3 DEF Given
    <3> QED BY <1>1, <2>1, <3>2, <3>3 DEF LeasedInv
  <2> QED BY <2>2, <2>3
<1>17. JobInv'
  <2>1. ASSUME NEW n \in MarketThreads, job[n] # NoJob
        PROVE  \/ \E v \in Users : /\ user'[v] \in Active /\ job[n] = Pool(v)
                                   /\ \E i \in Workers : leased[v][i] = n
               \/ job[n] \in stopped /\ hasWork'[n]
    BY <1>1, <1>9, <1>10, <2>1 DEF JobInv
  <2>2. ASSUME NEW v \in Users, user'[v] \in Ending, NEW i \in 1..(index'[v] - 1),
               leased[v][i] # NoThread
        PROVE  job[leased[v][i]] # Pool(v)
    <3>1. v # u /\ user[v] \in Ending
      BY <1>2, <1>10, <2>2 DEF Ending
    <3> QED BY <1>1, <1>8, <2>2, <3>1 DEF JobInv
  <2> QED BY <1>2, <2>1, <2>2 DEF JobInv, Pool
<1>18. ExitInv'
  BY <1>2, <1>11 DEF ExitInv
<1>19. RanInv'
  <2>1. ASSUME NEW p \in Pools PROVE AssignedTo(p)' = AssignedTo(p)
    <3>1. CASE p[1] = u
      BY <1>1, <1>2, <1>4, <1>8, <3>1, PoolAssumption DEF AssignedTo, Types, Workers
    <3>2. CASE p[1] # u
      BY <1>2, <1>8, <3>2, PoolsAre DEF AssignedTo
    <3> QED BY <3>1, <3>2
  <2>2. ASSUME NEW p \in Pools PROVE Pending(p)' \subseteq Pending(p)
    BY <1>2, <1>6, <1>9 DEF Pending
  <2> QED BY <1>2, <2>1, <2>2, RanKept
<1>20. SizeInv'
  <2>1. \A p \in Pools : p \in Begun' <=> p \in Begun
    BY <1>2, <1>10, PoolsAre DEF Begun
  <2>2. Begun' = Begun
    BY <2>1 DEF Begun
  <2> QED BY <1>1, <1>2, <2>2 DEF SizeInv
<1> QED BY <1>12, <1>13, <1>14, <1>15, <1>16, <1>17, <1>18, <1>19, <1>20 DEF IInv

LEMMA ShutdownStep ==
  ASSUME IInv, NEW u \in Users, Shutdown(u)
  PROVE  IInv'
<1> USE DEF marketVars, threadVars, exitVars
<1>1. /\ Types /\ UsersInv /\ LeaseInv /\ ThreadInv /\ LeasedInv /\ JobInv
      /\ ExitInv /\ RanInv /\ SizeInv
  BY DEF IInv
<1>2. /\ user[u] = "use"
      /\ \/ user'[u] = "kept" /\ leased'[u] = leased[u] /\ stopped' = stopped
         \/ /\ user'[u] = "waitDone" /\ stopped' = stopped \cup {Pool(u)}
            /\ \A i \in Workers : leased'[u][i] \in {leased[u][i], NoThread}
      /\ \A v \in Users \ {u} : user'[v] = user[v] /\ leased'[v] = leased[v]
      /\ UNCHANGED <<marketVars, threadVars, loop, round, index, exitVars, ran>>
      /\ user' \in [Users -> Active \cup Ending \cup {"idle"}]
      /\ leased' \in [Users -> Seq(0..allThreads)] /\ leased'[u] \in [Workers -> 0..allThreads]
  <2>1. /\ user[u] = "use" /\ leased[u] \in [Workers -> 0..allThreads]
        /\ leased[u] \in Seq(0..allThreads) /\ leased \in [Users -> Seq(0..allThreads)]
        /\ 1 \in Workers /\ user \in [Users -> Active \cup Ending \cup {"idle"}]
    BY <1>1, PoolAssumption DEF Shutdown, UsersInv, Types, Workers
  <2>2. /\ UNCHANGED <<marketVars, threadVars, loop, round, index, exitVars, ran>>
        /\ \/ user' = [user EXCEPT ![u] = "kept"] /\ UNCHANGED <<leased, stopped>>
           \/ /\ user' = [user EXCEPT ![u] = "waitDone"]
              /\ leased' \in {leased, [leased EXCEPT ![u][1] = NoThread]}
              /\ stopped' = stopped \cup {Pool(u)}
    BY DEF Shutdown, Pool
  <2>3. /\ user' \in [Users -> Active \cup Ending \cup {"idle"}]
        /\ \/ user'[u] = "kept" /\ leased' = leased /\ stopped' = stopped
           \/ user'[u] = "waitDone" /\ stopped' = stopped \cup {Pool(u)}
        /\ \A v \in Users \ {u} : user'[v] = user[v]
    BY <2>1, <2>2 DEF Active, Ending
  <2>4. CASE leased' = leased
    BY <2>1, <2>2, <2>3, <2>4
  <2>5. CASE leased' = [leased EXCEPT ![u][1] = NoThread]
    <3> DEFINE g == [leased[u] EXCEPT ![1] = NoThread]
    <3>1. Len(leased[u]) = PoolSize
      BY <2>1, PoolAssumption, LenProperties DEF Workers
    <3>2. g \in Seq(0..allThreads)
      BY <1>1, <2>1, <3>1, ExceptSeq DEF Types, NoThread, Workers
    <3>3. g \in [Workers -> 0..allThreads]
      BY <1>1, <2>1 DEF NoThread, Types
    <3>4. leased' = [leased EXCEPT ![u] = g]
      BY <2>5
    <3>5. leased'[u] = g /\ \A i \in Workers : g[i] \in {leased[u][i], NoThread}
      BY <2>1, <3>4
    <3> HIDE DEF g
    <3>6. \A v \in Users \ {u} : leased'[v] = leased[v]
      BY <2>1, <3>4
    <3>7. leased' \in [Users -> Seq(0..allThreads)]
      BY <2>1, <3>2, <3>4
    <3> QED BY <2>1, <2>2, <2>3, <3>3, <3>5, <3>6, <3>7
  <2> QED BY <2>2, <2>4, <2>5
<1>3. Pool(u) \in Pools \ stopped
  BY <1>1, <1>2 DEF UsersInv, Ending
<1>4. /\ ~UsersDone /\ ~UsersDone' /\ teardown = "up"
      /\ \A n \in MarketThreads : ~exiting[n]
  BY <1>1, <1>2, Up DEF UsersDone
<1>5. /\ \A v \in Users : user'[v] \in Active => /\ user[v] \in Active /\ leased'[v] = leased[v]
                                                 /\ \A i : Given(v, i)' <=> Given(v, i)
                                                 /\ user'[v] = "start" <=> user[v] = "start"
      /\ \A v \in Users : user'[v] = "idle" <=> user[v] = "idle"
      /\ \A v \in Users : user'[v] = "parked" => user[v] = "parked"
      /\ Idle' = Idle
  BY <1>2 DEF Active, Given, Idle
<1>6. Types'
  BY <1>1, <1>2, <1>3 DEF Types
<1>7. UsersInv'
  <2>1. \A v \in Users : user'[v] \notin Ending => Pool(v) \notin stopped'
    <3>1. CASE stopped' = stopped
      BY <1>1, <1>2, <3>1 DEF UsersInv, Ending
    <3>2. CASE user'[u] = "waitDone" /\ stopped' = stopped \cup {Pool(u)}
      <4>1. \A v \in Users \ {u} : Pool(v) # Pool(u)
        BY DEF Pool
      <4> QED BY <1>1, <1>2, <3>2, <4>1 DEF UsersInv, Ending
    <3> QED BY <1>2, <3>1, <3>2
  <2>2. \A p \in stopped' : p[2] <= round[p[1]]
    <3>1. round[u] <= round[u]
      BY <1>1 DEF Types
    <3> QED BY <1>1, <1>2, <3>1 DEF UsersInv, Pool
  <2>3. \A v \in Users : user'[v] # "idle" => /\ leased'[v] \in [Workers -> 0..allThreads]
                                              /\ Pool(v) \in Pools
    BY <1>1, <1>2, <1>5 DEF UsersInv
  <2>4. \A v \in Users : user'[v] \in Active => \A i \in Workers : leased'[v][i] # NoThread
    BY <1>1, <1>5 DEF UsersInv
  <2>5. \A v \in Users : user'[v] \in Active \cup {"parked"} => index[v] <= PoolSize
    BY <1>1, <1>5 DEF UsersInv
  <2>6. \A v \in Users : user'[v] \in {"use", "kept"} => index[v] = 1
    BY <1>1, <1>2 DEF UsersInv
  <2> QED BY <1>2, <2>1, <2>2, <2>3, <2>4, <2>5, <2>6 DEF UsersInv, Pool
<1>8. LeaseInv'
  <2>1. ASSUME NEW v \in Users, NEW w \in Users, NEW i \in Workers, NEW j \in Workers,
               user'[v] \in Active, user'[w] \in Active, leased'[v][i] = leased'[w][j]
        PROVE  v = w /\ i = j
    BY <1>1, <1>5, <2>1 DEF LeaseInv
  <2>2. ASSUME NEW v \in Users, NEW i \in Workers, user'[v] \in Active
        PROVE  leased'[v][i] \notin Idle'
    <3>1. user[v] \in Active /\ leased'[v] = leased[v]
      BY <1>5, <2>2
    <3> QED BY <1>1, <1>5, <3>1 DEF LeaseInv
  <2>3. \A j, k \in 1..Len(idleThreads') : idleThreads'[j] = idleThreads'[k] => j = k
    BY <1>1, <1>2 DEF LeaseInv
  <2> QED BY <2>1, <2>2, <2>3 DEF LeaseInv
<1>9. ThreadInv'
  BY <1>1, <1>2, <1>4, <1>5 DEF ThreadInv, ThreadOK
<1>10. LeasedInv'
  <2> SUFFICES ASSUME NEW v \in Users, NEW i \in Workers, user'[v] \in Active
               PROVE  LET n == leased'[v][i]
                      IN  IF Given(v, i)' THEN job[n] = Pool(v) /\ hasWork[n]
                          ELSE /\ ~hasWork[n] /\ loop[n] \in Waiting
                               /\ job[n] = IF user'[v] = "start" /\ i = index[v]
                                           THEN Pool(v) ELSE NoJob
    BY <1>2 DEF LeasedInv, Pool
  <2>1. /\ user[v] \in Active /\ leased'[v] = leased[v] /\ (Given(v, i)' <=> Given(v, i))
        /\ (user'[v] = "start") <=> (user[v] = "start")
    BY <1>5
  <2> QED BY <1>1, <2>1 DEF LeasedInv
<1>11. JobInv'
  <2>1. ASSUME NEW n \in MarketThreads, job[n] # NoJob
        PROVE  \/ \E v \in Users : /\ user'[v] \in Active /\ job[n] = Pool(v)
                                   /\ \E i \in Workers : leased'[v][i] = n
               \/ job[n] \in stopped' /\ hasWork[n]
    <3>1. CASE job[n] \in stopped /\ hasWork[n]
      BY <1>2, <3>1
    <3>2. ASSUME NEW v \in Users, user[v] \in Active, job[n] = Pool(v),
                 NEW i \in Workers, leased[v][i] = n
          PROVE  \/ \E w \in Users : /\ user'[w] \in Active /\ job[n] = Pool(w)
                                     /\ \E j \in Workers : leased'[w][j] = n
                 \/ job[n] \in stopped' /\ hasWork[n]
      <4>1. CASE user'[v] \in Active
        BY <1>5, <3>2, <4>1
      <4>2. CASE user'[v] \notin Active
        <5>1. v = u /\ job[n] \in stopped'
          BY <1>2, <3>2, <4>2 DEF Active
        <5>2. Given(u, i)
          BY <1>2 DEF Given
        <5>3. hasWork[n]
          BY <1>1, <3>2, <5>1, <5>2 DEF LeasedInv
        <5> QED BY <5>1, <5>3
      <4> QED BY <4>1, <4>2
    <3> QED BY <1>1, <2>1, <3>1, <3>2 DEF JobInv
  <2>2. ASSUME NEW v \in Users, user'[v] \in Ending, NEW i \in 1..(index[v] - 1),
               leased'[v][i] # NoThread
        PROVE  job[leased'[v][i]] # Pool(v)
    <3>1. CASE v = u
      <4>1. index[u] = 1
        BY <1>1, <1>2 DEF UsersInv
      <4> QED BY <2>2, <3>1, <4>1
    <3>2. CASE v # u
      BY <1>1, <1>2, <2>2, <3>2 DEF JobInv
    <3> QED BY <3>1, <3>2
  <2> QED BY <1>2, <2>1, <2>2 DEF JobInv, Pool
<1>12. ExitInv'
  BY <1>2, <1>4 DEF ExitInv
<1>13. RanInv'
  <2>1. ASSUME NEW p \in Pools PROVE AssignedTo(p)' = AssignedTo(p)
    BY <1>2, PoolsAre DEF AssignedTo
  <2>2. ASSUME NEW p \in Pools PROVE Pending(p)' \subseteq Pending(p)
    BY <1>2 DEF Pending
  <2> QED BY <1>2, <2>1, <2>2, RanKept
<1>14. SizeInv'
  <2>1. \A p \in Pools : p \in Begun' <=> p \in Begun
    BY <1>2, <1>5, PoolsAre DEF Begun
  <2>2. Begun' = Begun
    BY <2>1 DEF Begun
  <2> QED BY <1>1, <1>2, <2>2 DEF SizeInv
<1> QED BY <1>6, <1>7, <1>8, <1>9, <1>10, <1>11, <1>12, <1>13, <1>14 DEF IInv

LEMMA WaitDoneStep ==
  ASSUME IInv, NEW u \in Users, WaitDone(u)
  PROVE  IInv'
<1> USE DEF marketVars, threadVars, exitVars
<1>1. /\ Types /\ UsersInv /\ LeaseInv /\ ThreadInv /\ LeasedInv /\ JobInv
      /\ ExitInv /\ RanInv /\ SizeInv
  BY DEF IInv
<1>2. /\ user[u] = "waitDone" /\ index[u] <= PoolSize
      /\ \/ user' = [user EXCEPT ![u] = "parked"] /\ index' = index
         \/ /\ user' = user /\ index' = [index EXCEPT ![u] = @ + 1]
            /\ leased[u][index[u]] = NoThread \/ ~hasWork[leased[u][index[u]]]
      /\ UNCHANGED <<marketVars, threadVars, loop, round, leased, stopped, exitVars, ran>>
  BY DEF WaitDone, Current
<1>3. index[u] \in Workers /\ Pool(u) # NoJob
  BY <1>1, <1>2, PoolsAre DEF Types, Workers, UsersInv
<1>4. /\ user' \in [Users -> Active \cup Ending \cup {"idle"}]
      /\ index' \in [Users -> 1..(PoolSize + 1)]
  <2>1. index[u] + 1 \in 1..(PoolSize + 1)
    BY <1>1, <1>2, PoolAssumption DEF Types
  <2>2. index' \in [Users -> 1..(PoolSize + 1)]
    BY <1>1, <1>2, <2>1 DEF Types
  <2>3. user' \in [Users -> Active \cup Ending \cup {"idle"}]
    BY <1>1, <1>2 DEF Types, Ending
  <2> QED BY <2>2, <2>3
<1>5. /\ user'[u] \in Ending
      /\ \A v \in Users \ {u} : user'[v] = user[v] /\ index'[v] = index[v]
  BY <1>1, <1>2 DEF Types, Ending
<1>6. /\ \A v \in Users : /\ user'[v] \in Active <=> user[v] \in Active
                          /\ user'[v] \in Active => user'[v] = user[v] /\ index'[v] = index[v]
                          /\ user'[v] \in Ending <=> user[v] \in Ending
                          /\ user'[v] = "idle" <=> user[v] = "idle"
      /\ Idle' = Idle
  BY <1>2, <1>5 DEF Active, Ending, Idle
<1>7. /\ ~UsersDone /\ ~UsersDone' /\ teardown = "up"
      /\ \A n \in MarketThreads : ~exiting[n]
  BY <1>2, <1>6, Up DEF UsersDone
<1>8. Types'
  BY <1>1, <1>2, <1>4 DEF Types
<1>9. UsersInv'
  <2>1. \A v \in Users : user'[v] \in Active \cup {"parked"} => index'[v] <= PoolSize
    <3>1. user'[u] \in Active \cup {"parked"} => index'[u] <= PoolSize
      BY <1>1, <1>2 DEF Types, Active
    <3> QED BY <1>1, <1>5, <3>1 DEF UsersInv
  <2>2. \A v \in Users : user'[v] \in {"use", "kept"} => index'[v] = 1
    BY <1>1, <1>6 DEF UsersInv, Active
  <2> QED BY <1>1, <1>2, <1>6, <2>1, <2>2 DEF UsersInv, Pool
<1>10. LeaseInv'
  BY <1>1, <1>2, <1>6 DEF LeaseInv
<1>11. ThreadInv'
  BY <1>1, <1>2, <1>6, <1>7 DEF ThreadInv, ThreadOK
<1>12. LeasedInv'
  <2> SUFFICES ASSUME NEW v \in Users, NEW i \in Workers, user'[v] \in Active
               PROVE  LET n == leased[v][i]
                      IN  IF Given(v, i)' THEN job[n] = Pool(v) /\ hasWork[n]
                          ELSE /\ ~hasWork[n] /\ loop[n] \in Waiting
                               /\ job[n] = IF user'[v] = "start" /\ i = index'[v]
                                           THEN Pool(v) ELSE NoJob
    BY <1>2 DEF LeasedInv, Pool
  <2>1. /\ user[v] \in Active /\ user'[v] = user[v] /\ index'[v] = index[v]
        /\ (Given(v, i)' <=> Given(v, i))
    BY <1>6 DEF Given
  <2> QED BY <1>1, <2>1 DEF LeasedInv
<1>13. JobInv'
  <2>1. ASSUME NEW n \in MarketThreads, job[n] # NoJob
        PROVE  \/ \E v \in Users : /\ user'[v] \in Active /\ job[n] = Pool(v)
                                   /\ \E i \in Workers : leased[v][i] = n
               \/ job[n] \in stopped /\ hasWork[n]
    BY <1>1, <1>6, <2>1 DEF JobInv
  <2>2. ASSUME NEW v \in Users, user'[v] \in Ending, NEW i \in 1..(index'[v] - 1),
               leased[v][i] # NoThread
        PROVE  job[leased[v][i]] # Pool(v)
    <3>1. CASE v # u \/ i < index[u]
      <4>1. user[v] \in Ending /\ i \in 1..(index[v] - 1)
        BY <1>1, <1>2, <1>5, <1>6, <2>2, <3>1 DEF Types
      <4> QED BY <1>1, <2>2, <4>1 DEF JobInv
    <3>2. CASE v = u /\ ~(i < index[u])
      <4>1. i = index[u] /\ index'[u] = index[u] + 1 /\ ~hasWork[leased[u][i]]
        BY <1>1, <1>2, <2>2, <3>2 DEF Types
      <4>2. leased[u][i] \in MarketThreads
        BY <1>1, <1>2, <1>3, <2>2, <3>2, <4>1, LeasedAre
      <4>3. ASSUME job[leased[u][i]] = Pool(u) PROVE FALSE
        <5>1. PICK w \in Users : user[w] \in Active /\ Pool(u) = Pool(w)
          BY <1>1, <1>3, <4>1, <4>2, <4>3 DEF JobInv
        <5> QED BY <1>2, <5>1 DEF Pool, Active
      <4> QED BY <3>2, <4>3
    <3> QED BY <3>1, <3>2
  <2> QED BY <1>2, <2>1, <2>2 DEF JobInv, Pool
<1>14. ExitInv'
  BY <1>2, <1>7 DEF ExitInv
<1>15. RanInv'
  <2>1. ASSUME NEW p \in Pools PROVE AssignedTo(p)' = AssignedTo(p)
    <3>1. p[1] # u => user'[p[1]] = user[p[1]] /\ index'[p[1]] = index[p[1]]
      BY <1>5, PoolsAre
    <3>2. user'[u] \in {"waitDone", "parked"}
      BY <1>5 DEF Ending
    <3> QED BY <1>2, <3>1, <3>2 DEF AssignedTo
  <2>2. ASSUME NEW p \in Pools PROVE Pending(p)' \subseteq Pending(p)
    BY <1>2 DEF Pending
  <2> QED BY <1>2, <2>1, <2>2, RanKept
<1>16. SizeInv'
  <2>1. \A p \in Pools : p \in Begun' <=> p \in Begun
    BY <1>2, <1>6, PoolsAre DEF Begun
  <2>2. Begun' = Begun
    BY <2>1 DEF Begun
  <2> QED BY <1>1, <1>2, <2>2 DEF SizeInv
<1> QED BY <1>8, <1>9, <1>10, <1>11, <1>12, <1>13, <1>14, <1>15, <1>16 DEF IInv

LEMMA DestroyStep ==
  ASSUME IInv, NEW u \in Users, Destroy(u)
  PROVE  IInv'
<1> USE DEF marketVars, threadVars, exitVars
<1>1. /\ Types /\ UsersInv /\ LeaseInv /\ ThreadInv /\ LeasedInv /\ JobInv
      /\ ExitInv /\ RanInv /\ SizeInv
  BY DEF IInv
<1>2. /\ user[u] = "waitDone"
      /\ user' = [user EXCEPT ![u] = "idle"] /\ round' = [round EXCEPT ![u] = @ + 1]
      /\ leased' = [leased EXCEPT ![u] = <<>>] /\ index' = [index EXCEPT ![u] = 1]
      /\ UNCHANGED <<marketVars, threadVars, loop, stopped, exitVars, ran>>
  BY DEF Destroy
<1>3. /\ user'[u] = "idle" /\ round'[u] = round[u] + 1 /\ round[u] \in 1..Rounds[u]
      /\ \A v \in Users \ {u} : /\ user'[v] = user[v] /\ round'[v] = round[v]
                                /\ leased'[v] = leased[v] /\ index'[v] = index[v]
  <2>1. Pool(u) \in Pools
    BY <1>1, <1>2 DEF UsersInv
  <2> QED BY <1>1, <1>2, <2>1, PoolsAre DEF Types, Pool
<1>4. /\ ~UsersDone /\ teardown = "up" /\ \A n \in MarketThreads : ~exiting[n]
      /\ Idle' = Idle
  BY <1>1, <1>2, Up DEF UsersDone, Idle
<1>5. Types'
  <2>1. leased' \in [Users -> Seq(0..allThreads)]
    BY <1>1, <1>2, EmptySeq DEF Types
  <2>2. /\ user' \in [Users -> Active \cup Ending \cup {"idle"}]
        /\ index' \in [Users -> 1..(PoolSize + 1)]
    BY <1>1, <1>2, PoolAssumption DEF Types
  <2>3. round' \in [Users -> Nat] /\ \A v \in Users : round'[v] \in 1..(Rounds[v] + 1)
    <3>1. round' \in [Users -> Nat]
      BY <1>1, <1>2 DEF Types
    <3>2. round'[u] \in 1..(Rounds[u] + 1)
      BY <1>3, PoolAssumption
    <3> QED BY <1>1, <1>3, <3>1, <3>2 DEF Types
  <2> QED BY <1>1, <1>2, <2>1, <2>2, <2>3 DEF Types
<1>6. UsersInv'
  <2>1. \A v \in Users : user'[v] \notin Ending => Pool(v)' \notin stopped
    <3>1. Pool(u)' \notin stopped
      BY <1>1, <1>3 DEF UsersInv, Pool, Types
    <3> QED BY <1>1, <1>3, <3>1 DEF UsersInv, Pool
  <2>2. \A p \in stopped : p[2] <= round'[p[1]]
    <3> TAKE p \in stopped
    <3>1. p[1] \in Users /\ p[2] \in Nat /\ p[2] <= round[p[1]] /\ round[p[1]] \in Nat
      BY <1>1, PoolsAre, PoolAssumption DEF UsersInv, Types
    <3> QED BY <1>3, <3>1
  <2>3. \A v \in Users : user'[v] # "idle" => /\ leased'[v] \in [Workers -> 0..allThreads]
                                              /\ Pool(v)' \in Pools
    BY <1>1, <1>3 DEF UsersInv, Pool
  <2>4. \A v \in Users : user'[v] \in Active => \A i \in Workers : leased'[v][i] # NoThread
    BY <1>1, <1>3 DEF UsersInv, Active
  <2>5. \A v \in Users : user'[v] \in Active \cup {"parked"} => index'[v] <= PoolSize
    BY <1>1, <1>3 DEF UsersInv, Active
  <2>6. \A v \in Users : user'[v] \in {"use", "kept"} => index'[v] = 1
    BY <1>1, <1>3 DEF UsersInv
  <2> QED BY <1>2, <2>1, <2>2, <2>3, <2>4, <2>5, <2>6 DEF UsersInv
<1>7. LeaseInv'
  <2>1. ASSUME NEW v \in Users, NEW w \in Users, NEW i \in Workers, NEW j \in Workers,
               user'[v] \in Active, user'[w] \in Active, leased'[v][i] = leased'[w][j]
        PROVE  v = w /\ i = j
    BY <1>1, <1>3, <2>1 DEF LeaseInv, Active
  <2>2. ASSUME NEW v \in Users, NEW i \in Workers, user'[v] \in Active
        PROVE  leased'[v][i] = leased[v][i] /\ leased[v][i] \notin Idle
    BY <1>1, <1>3, <2>2 DEF LeaseInv, Active
  <2> QED BY <1>1, <1>2, <1>4, <2>1, <2>2 DEF LeaseInv
<1>8. ThreadInv'
  BY <1>1, <1>2, <1>4 DEF ThreadInv, ThreadOK
<1>9. LeasedInv'
  <2> SUFFICES ASSUME NEW v \in Users, NEW i \in Workers, user'[v] \in Active
               PROVE  LET n == leased'[v][i]
                      IN  IF Given(v, i)' THEN job[n] = Pool(v)' /\ hasWork[n]
                          ELSE /\ ~hasWork[n] /\ loop[n] \in Waiting
                               /\ job[n] = IF user'[v] = "start" /\ i = index'[v]
                                           THEN Pool(v)' ELSE NoJob
    BY <1>2 DEF LeasedInv
  <2>1. /\ user[v] \in Active /\ leased'[v] = leased[v] /\ user'[v] = user[v]
        /\ index'[v] = index[v] /\ (Given(v, i)' <=> Given(v, i)) /\ Pool(v)' = Pool(v)
    BY <1>3 DEF Active, Given, Pool
  <2> QED BY <1>1, <2>1 DEF LeasedInv
<1>10. JobInv'
  <2>1. ASSUME NEW n \in MarketThreads, job[n] # NoJob
        PROVE  \/ \E v \in Users : /\ user'[v] \in Active /\ job[n] = Pool(v)'
                                   /\ \E i \in Workers : leased'[v][i] = n
               \/ job[n] \in stopped /\ hasWork[n]
    <3>1. ASSUME NEW v \in Users, user[v] \in Active
          PROVE  v # u /\ user'[v] = user[v] /\ Pool(v)' = Pool(v) /\ leased'[v] = leased[v]
      BY <1>2, <1>3, <3>1 DEF Active, Pool
    <3> QED BY <1>1, <2>1, <3>1 DEF JobInv
  <2>2. ASSUME NEW v \in Users, user'[v] \in Ending, NEW i \in 1..(index'[v] - 1),
               leased'[v][i] # NoThread
        PROVE  job[leased'[v][i]] # Pool(v)'
    <3>1. v # u
      BY <1>3, <2>2 DEF Ending
    <3> QED BY <1>1, <1>3, <2>2, <3>1 DEF JobInv, Pool
  <2> QED BY <1>2, <2>1, <2>2 DEF JobInv
<1>11. ExitInv'
  BY <1>2, <1>4 DEF ExitInv
<1>12. RanInv'
  <2>1. ASSUME NEW p \in Pools PROVE AssignedTo(p)' = AssignedTo(p)
    <3>1. CASE p[1] = u
      BY <1>1, <1>2, <1>3, <3>1, PoolsAre, PoolAssumption DEF AssignedTo, Types
    <3>2. CASE p[1] # u
      BY <1>2, <1>3, <3>2, PoolsAre DEF AssignedTo
    <3> QED BY <3>1, <3>2
  <2>2. ASSUME NEW p \in Pools PROVE Pending(p)' \subseteq Pending(p)
    BY <1>2 DEF Pending
  <2> QED BY <1>2, <2>1, <2>2, RanKept
<1>13. SizeInv'
  <2>1. \A p \in Pools : p \in Begun' <=> p \in Begun
    <3>1. \A p \in Pools : p[1] \in Users /\ p[2] \in Nat
      BY PoolsAre, PoolAssumption
    <3> QED BY <1>1, <1>2, <1>3, <3>1 DEF Begun, Types
  <2>2. Begun' = Begun
    BY <2>1 DEF Begun
  <2> QED BY <1>1, <1>2, <2>2 DEF SizeInv
<1> QED BY <1>5, <1>6, <1>7, <1>8, <1>9, <1>10, <1>11, <1>12, <1>13 DEF IInv

LEMMA FunctionIsSeq ==
  ASSUME NEW S, NEW n \in Nat, NEW f \in [1..n -> S]
  PROVE  f \in Seq(S)
<1> QED BY SeqDef

\* lease(): a pool gets threads that nobody else has, neither a pool nor
\* idleThreads_, and that have no job.
LEMMA LeaseFields ==
  ASSUME IInv, NEW u \in Users, Lease(u)
  PROVE  /\ allThreads' \in Nat /\ allThreads <= allThreads'
         /\ SizeInv' /\ allThreads' <= PoolSize * Cardinality(Pools)
         /\ idleThreads' \in Seq(1..allThreads') /\ Idle' \subseteq Idle
         /\ \A j, k \in 1..Len(idleThreads') : idleThreads'[j] = idleThreads'[k] => j = k
         /\ \E L \in [Workers -> 1..allThreads'] :
               /\ leased' = [leased EXCEPT ![u] = L] /\ L \in Seq(0..allThreads')
               /\ \A i, j \in Workers : L[i] = L[j] => i = j
               /\ \A i \in Workers : L[i] \notin Idle' /\ (L[i] > allThreads \/ L[i] \in Idle)
<1> DEFINE idle == Len(idleThreads)
           reused == IF idle < PoolSize THEN idle ELSE PoolSize
           L == [i \in 1..PoolSize |-> IF i <= reused THEN idleThreads[idle - i + 1]
                                       ELSE allThreads + i - reused]
<1>1. Types /\ UsersInv /\ LeaseInv /\ SizeInv
  BY DEF IInv
<1>2. /\ user[u] = "idle" /\ round[u] <= Rounds[u]
      /\ leased' = [leased EXCEPT ![u] = L]
      /\ idleThreads' = SubSeq(idleThreads, 1, idle - reused)
      /\ allThreads' = allThreads + PoolSize - reused
      /\ user' = [user EXCEPT ![u] = "assign"]
      /\ round' = round
  BY DEF Lease, userVars, exitVars
<1>3. /\ idle \in Nat /\ allThreads \in Nat /\ PoolSize \in Nat \ {0}
      /\ reused \in Nat /\ reused <= idle /\ reused <= PoolSize
      /\ \A k \in 1..idle : idleThreads[k] \in 1..allThreads
      /\ idleThreads \in Seq(1..allThreads)
      /\ \A j, k \in 1..idle : idleThreads[j] = idleThreads[k] => j = k
  BY <1>1, PoolAssumption, LenProperties, ElementOfSeq DEF Types, LeaseInv
<1> HIDE DEF reused
<1>4. allThreads' \in Nat /\ allThreads <= allThreads'
  BY <1>2, <1>3
<1>5. /\ L \in [Workers -> 1..allThreads']
      /\ \A i \in Workers : L[i] = IF i <= reused THEN idleThreads[idle - i + 1]
                                   ELSE allThreads + i - reused
      /\ leased'[u] = L
  <2>1. L = [i \in Workers |-> L[i]]
    BY DEF Workers
  <2>2. \A i \in Workers : L[i] = IF i <= reused THEN idleThreads[idle - i + 1]
                                  ELSE allThreads + i - reused
    BY DEF Workers
  <2>3. \A i \in Workers : L[i] \in 1..allThreads'
    <3> TAKE i \in Workers
    <3>1. i \in Nat /\ 1 <= i /\ i <= PoolSize
      BY <1>3 DEF Workers
    <3> HIDE DEF L
    <3>2. CASE i <= reused
      <4>1. idle - i + 1 \in 1..idle
        BY <1>3, <3>1, <3>2
      <4>2. L[i] \in 1..allThreads
        BY <1>3, <2>2, <3>2, <4>1
      <4> QED BY <1>3, <1>4, <4>2
    <3>3. CASE ~(i <= reused)
      BY <1>2, <1>3, <2>2, <3>1, <3>3
    <3> QED BY <3>2, <3>3
  <2> HIDE DEF L
  <2>4. L \in [Workers -> 1..allThreads']
    BY <2>1, <2>3
  <2> QED BY <1>1, <1>2, <2>2, <2>4 DEF Types
<1> HIDE DEF L
<1>6. L \in Seq(0..allThreads')
  <2>1. L \in [1..PoolSize -> 0..allThreads']
    BY <1>4, <1>5 DEF Workers
  <2> QED BY <1>3, <2>1, FunctionIsSeq
<1>7. /\ idleThreads' \in Seq(1..allThreads') /\ Len(idleThreads') = idle - reused
      /\ \A k \in 1..(idle - reused) : idleThreads'[k] = idleThreads[k]
  <2>1. \A k \in 1..(idle - reused) : idleThreads[k] \in 1..allThreads'
    BY <1>3, <1>4
  <2>2. 1 \in Int /\ idle - reused \in Int
    BY <1>3
  <2>3. /\ SubSeq(idleThreads, 1, idle - reused) \in Seq(1..allThreads')
        /\ Len(SubSeq(idleThreads, 1, idle - reused))
           = IF 1 <= idle - reused THEN (idle - reused) - 1 + 1 ELSE 0
        /\ \A k \in 1..((idle - reused) - 1 + 1) :
              SubSeq(idleThreads, 1, idle - reused)[k] = idleThreads[1 + k - 1]
    BY <2>1, <2>2, SubSeqProperties
  <2> QED BY <1>2, <1>3, <2>3
<1>8. /\ \A j, k \in 1..Len(idleThreads') : idleThreads'[j] = idleThreads'[k] => j = k
      /\ Idle' = {idleThreads[k] : k \in 1..(idle - reused)}
      /\ Idle' \subseteq Idle
  <2>1. \A j, k \in 1..Len(idleThreads') : idleThreads'[j] = idleThreads'[k] => j = k
    <3>1. 1..(idle - reused) \subseteq 1..idle
      BY <1>3
    <3> QED BY <1>3, <1>7, <3>1
  <2>2. Idle' = {idleThreads[k] : k \in 1..(idle - reused)}
    BY <1>7 DEF Idle
  <2>3. {idleThreads[k] : k \in 1..(idle - reused)} \subseteq Idle
    BY <1>3 DEF Idle
  <2> QED BY <2>1, <2>2, <2>3
<1>9. \A i, j \in Workers : L[i] = L[j] => i = j
  <2> SUFFICES ASSUME NEW i \in Workers, NEW j \in Workers, L[i] = L[j] PROVE i = j
    OBVIOUS
  <2>1. i \in Nat /\ 1 <= i /\ i <= PoolSize /\ j \in Nat /\ 1 <= j /\ j <= PoolSize
    BY <1>3 DEF Workers
  <2>2. \A k \in {i, j} : k <= reused => idle - k + 1 \in 1..idle
    BY <1>3, <2>1
  <2>3. CASE i <= reused /\ j <= reused
    <3>1. idle - i + 1 = idle - j + 1
      BY <1>3, <1>5, <2>2, <2>3
    <3> QED BY <1>3, <2>1, <3>1
  <2>4. CASE ~(i <= reused) /\ ~(j <= reused)
    BY <1>3, <1>5, <2>1, <2>4
  <2>5. CASE i <= reused /\ ~(j <= reused)
    <3>1. L[i] \in 1..allThreads /\ L[j] = allThreads + j - reused
      BY <1>3, <1>5, <2>2, <2>5
    <3> QED BY <1>3, <2>1, <2>5, <3>1
  <2>6. CASE ~(i <= reused) /\ j <= reused
    <3>1. L[j] \in 1..allThreads /\ L[i] = allThreads + i - reused
      BY <1>3, <1>5, <2>2, <2>6
    <3> QED BY <1>3, <2>1, <2>6, <3>1
  <2> QED BY <2>3, <2>4, <2>5, <2>6
<1>10. \A i \in Workers : L[i] \notin Idle' /\ (L[i] > allThreads \/ L[i] \in Idle)
  <2> SUFFICES ASSUME NEW i \in Workers
               PROVE  /\ \A k \in 1..(idle - reused) : idleThreads[k] # L[i]
                      /\ L[i] > allThreads \/ L[i] \in Idle
    BY <1>8
  <2>1. i \in Nat /\ 1 <= i /\ i <= PoolSize
    BY <1>3 DEF Workers
  <2>2. CASE i <= reused
    <3>1. idle - i + 1 \in 1..idle /\ L[i] = idleThreads[idle - i + 1]
      BY <1>3, <1>5, <2>1, <2>2
    <3>2. L[i] \in Idle
      BY <3>1 DEF Idle
    <3>3. \A k \in 1..(idle - reused) : k \in 1..idle /\ k # idle - i + 1
      BY <1>3, <2>1, <2>2
    <3> QED BY <1>3, <3>1, <3>2, <3>3
  <2>3. CASE ~(i <= reused)
    <3>1. L[i] = allThreads + i - reused
      BY <1>5, <2>3
    <3>2. L[i] > allThreads
      BY <1>3, <2>1, <2>3, <3>1
    <3>3. \A k \in 1..(idle - reused) : idleThreads[k] \in 1..allThreads
      BY <1>3
    <3> QED BY <1>3, <3>1, <3>2, <3>3
  <2> QED BY <2>2, <2>3
<1>11. SizeInv' /\ allThreads' <= PoolSize * Cardinality(Pools)
  <2>1. Pool(u) \in Pools /\ Pool(u) \notin Begun
    BY <1>1, <1>2, PoolsAre, PoolAssumption DEF Pool, Begun, Types
  <2>2. Begun' = Begun \cup {Pool(u)}
    <3>1. \A p \in Pools : p \in Begun' <=> p \in Begun \/ p = Pool(u)
      BY <1>1, <1>2, PoolsAre DEF Begun, Pool, Types
    <3>2. Begun' \subseteq Pools /\ Begun \subseteq Pools
      BY DEF Begun
    <3> QED BY <2>1, <3>1, <3>2
  <2>3. Begun \subseteq Pools /\ Begun' \subseteq Pools
    BY DEF Begun
  <2>4. IsFiniteSet(Begun) /\ Cardinality(Begun) \in Nat
    BY <2>3, Sizes, FS_Subset, FS_CardinalityType
  <2>5. Cardinality(Begun') = Cardinality(Begun) + 1
    BY <2>1, <2>2, <2>4, FS_AddElement
  <2>6. Cardinality(Begun') <= Cardinality(Pools)
    BY <2>3, Sizes, FS_Subset
  <2> DEFINE c == Cardinality(Begun)
             d == Cardinality(Begun')
             e == Cardinality(Pools)
  <2>7. /\ c \in Nat /\ d = c + 1 /\ e \in Nat /\ d <= e
        /\ allThreads <= PoolSize * c /\ allThreads' <= allThreads + PoolSize
    BY <1>1, <1>2, <1>3, <2>4, <2>5, <2>6, Sizes DEF SizeInv
  <2> HIDE DEF c, d, e
  <2>8. PoolSize * d = PoolSize * c + PoolSize /\ PoolSize * c \in Nat
    BY <1>3, <2>7
  <2>9. allThreads' <= PoolSize * d
    BY <1>3, <1>4, <2>7, <2>8
  <2>10. PoolSize * d <= PoolSize * e /\ PoolSize * e \in Nat /\ PoolSize * d \in Nat
    BY <1>3, <2>7
  <2>11. allThreads' <= PoolSize * e
    BY <1>4, <2>9, <2>10
  <2> QED BY <2>9, <2>11 DEF SizeInv, d, e
<1>12. \E M \in [Workers -> 1..allThreads'] :
          /\ leased' = [leased EXCEPT ![u] = M] /\ M \in Seq(0..allThreads')
          /\ \A i, j \in Workers : M[i] = M[j] => i = j
          /\ \A i \in Workers : M[i] \notin Idle' /\ (M[i] > allThreads \/ M[i] \in Idle)
  BY <1>2, <1>5, <1>6, <1>9, <1>10
<1> QED BY <1>4, <1>7, <1>8, <1>11, <1>12

LEMMA LeaseStep ==
  ASSUME IInv, NEW u \in Users, Lease(u)
  PROVE  IInv'
<1> USE DEF threadVars, exitVars
<1>1. /\ Types /\ UsersInv /\ LeaseInv /\ ThreadInv /\ LeasedInv /\ JobInv
      /\ ExitInv /\ RanInv /\ SizeInv
  BY DEF IInv
<1>2. /\ user[u] = "idle" /\ round[u] <= Rounds[u]
      /\ loop' = [m \in MarketThreads |->
                    IF m \in (allThreads + 1)..allThreads' THEN "wait" ELSE loop[m]]
      /\ user' = [user EXCEPT ![u] = "assign"] /\ index' = [index EXCEPT ![u] = 1]
      /\ UNCHANGED <<threadVars, round, stopped, exitVars, ran>>
  BY DEF Lease
<1>3. /\ allThreads' \in Nat /\ allThreads <= allThreads'
      /\ SizeInv' /\ allThreads' <= PoolSize * Cardinality(Pools)
      /\ idleThreads' \in Seq(1..allThreads') /\ Idle' \subseteq Idle
      /\ \A j, k \in 1..Len(idleThreads') : idleThreads'[j] = idleThreads'[k] => j = k
  BY LeaseFields
<1>4. PICK L \in [Workers -> 1..allThreads'] :
        /\ leased' = [leased EXCEPT ![u] = L] /\ L \in Seq(0..allThreads')
        /\ \A i, j \in Workers : L[i] = L[j] => i = j
        /\ \A i \in Workers : L[i] \notin Idle' /\ (L[i] > allThreads \/ L[i] \in Idle)
  BY LeaseFields
<1>5. /\ user'[u] = "assign" /\ index'[u] = 1 /\ leased'[u] = L
      /\ \A v \in Users \ {u} : /\ user'[v] = user[v] /\ index'[v] = index[v]
                                /\ leased'[v] = leased[v]
  BY <1>1, <1>2, <1>4 DEF Types
<1>6. /\ ~UsersDone /\ ~UsersDone' /\ teardown = "up"
      /\ \A n \in MarketThreads : ~exiting[n]
  <2>1. round[u] \in Nat /\ Rounds[u] \in Nat
    BY <1>1, PoolAssumption DEF Types
  <2>2. ~UsersDone /\ ~UsersDone'
    BY <1>2, <1>5, <2>1 DEF UsersDone
  <2> QED BY <2>2, Up
<1>7. Pool(u) \in Pools
  BY <1>1, <1>2, PoolsAre, PoolAssumption DEF Types, Pool
<1>8. \A n \in MarketThreads :
         IF n \in (allThreads + 1)..allThreads' THEN loop'[n] = "wait" ELSE loop'[n] = loop[n]
  BY <1>2
<1>9. MarketThreads \subseteq Nat \ {0} /\ 1..allThreads' \subseteq MarketThreads
  <2> DEFINE N == PoolSize * Cardinality(Pools)
  <2>1. N \in Nat /\ allThreads' <= N /\ MarketThreads = 1..N
    BY <1>3, Sizes DEF MarketThreads
  <2> HIDE DEF N
  <2> QED BY <1>3, <2>1
<1>10. \A n \in MarketThreads :
         IF n \in (allThreads + 1)..allThreads'
         THEN n > allThreads /\ ~(n > allThreads')
         ELSE n > allThreads' <=> n > allThreads
  BY <1>1, <1>3, <1>9 DEF Types
<1>11. \A n \in MarketThreads : n \in (allThreads + 1)..allThreads'
         => loop[n] = "unborn" /\ job[n] = NoJob /\ ~hasWork[n] /\ ~exiting[n]
  BY <1>1, <1>10 DEF ThreadInv, ThreadOK
<1>12. \A i \in Workers : /\ L[i] \in MarketThreads /\ job[L[i]] = NoJob /\ ~hasWork[L[i]]
                          /\ loop'[L[i]] \in Waiting
  <2> TAKE i \in Workers
  <2>1. L[i] \in MarketThreads /\ L[i] \in 1..allThreads'
    BY <1>4, <1>9
  <2>2. CASE L[i] > allThreads
    <3>1. L[i] \in (allThreads + 1)..allThreads'
      BY <1>1, <1>3, <2>1, <2>2 DEF Types
    <3> QED BY <1>8, <1>11, <2>1, <3>1 DEF Waiting
  <2>3. CASE L[i] \in Idle /\ ~(L[i] > allThreads)
    <3>1. /\ loop[L[i]] \in Waiting \cup {"check", "exited"}
          /\ job[L[i]] = NoJob /\ (hasWork[L[i]] => exiting[L[i]])
          /\ (loop[L[i]] = "check" => hasWork[L[i]])
          /\ (loop[L[i]] = "exited" => exiting[L[i]])
      BY <1>1, <2>1, <2>3 DEF ThreadInv, ThreadOK
    <3>2. ~hasWork[L[i]] /\ loop[L[i]] \in Waiting
      BY <1>6, <2>1, <3>1
    <3>3. loop'[L[i]] \in Waiting
      BY <1>8, <2>1, <3>2 DEF Waiting
    <3> QED BY <2>1, <3>1, <3>2, <3>3
  <2> QED BY <1>4, <2>2, <2>3
<1>13. \A v \in Users \ {u} : \A i, j \in Workers : user[v] \in Active => leased[v][i] # L[j]
  <2> SUFFICES ASSUME NEW v \in Users \ {u}, NEW i \in Workers, NEW j \in Workers,
                      user[v] \in Active
               PROVE  leased[v][i] # L[j]
    OBVIOUS
  <2>1. leased[v][i] \in 1..allThreads /\ leased[v][i] \notin Idle
    BY <1>1, LeasedAre DEF LeaseInv, Active
  <2>2. ~(leased[v][i] > allThreads)
    BY <1>1, <2>1 DEF Types
  <2> QED BY <1>4, <2>1, <2>2
<1>14. Types'
  <2>1. leased' \in [Users -> Seq(0..allThreads')]
    <3>1. \A v \in Users : leased'[v] \in Seq(0..allThreads')
      <4> TAKE v \in Users
      <4>1. CASE v = u
        BY <1>4, <1>5, <4>1
      <4>2. CASE v # u
        <5>1. leased[v] \in Seq(0..allThreads) /\ leased'[v] = leased[v]
          BY <1>1, <1>5, <4>2 DEF Types
        <5>2. 0..allThreads \subseteq 0..allThreads'
          BY <1>1, <1>3 DEF Types
        <5>3. leased[v] \in Seq(0..allThreads')
          BY <5>1, <5>2, SeqMonotonic
        <5> QED BY <5>1, <5>3
      <4> QED BY <4>1, <4>2
    <3>2. leased \in [Users -> Seq(0..allThreads)]
      BY <1>1 DEF Types
    <3> QED BY <1>4, <3>1, <3>2
  <2>2. user' \in [Users -> Active \cup Ending \cup {"idle"}]
    BY <1>1, <1>2 DEF Types, Active
  <2>3. index' \in [Users -> 1..(PoolSize + 1)]
    BY <1>1, <1>2, PoolAssumption DEF Types
  <2>4. loop' \in [MarketThreads -> PCs]
    BY <1>1, <1>2 DEF Types, PCs
  <2>5. victim \in Nat /\ victim \in 1..(allThreads' + 1)
    <3>1. /\ victim \in Nat /\ victim \in 1..(allThreads + 1) /\ allThreads \in Nat
          /\ allThreads' \in Nat /\ allThreads <= allThreads'
      BY <1>1, <1>3 DEF Types
    <3>2. \A x, a, b \in Nat : x \in 1..(a + 1) /\ a <= b => x \in 1..(b + 1)
      OBVIOUS
    <3> QED BY <3>1, <3>2
  <2>6. /\ hasWork' = hasWork /\ exiting' = exiting /\ job' = job /\ round' = round
        /\ stopped' = stopped /\ teardown' = teardown /\ victim' = victim /\ ran' = ran
    BY <1>2
  <2> HIDE DEF threadVars, exitVars
  <2> QED BY <1>1, <1>3, <2>1, <2>2, <2>3, <2>4, <2>5, <2>6 DEF Types, PCs
<1>15. UsersInv'
  <2>1. \A v \in Users : user'[v] # "idle" => /\ leased'[v] \in [Workers -> 0..allThreads']
                                              /\ Pool(v) \in Pools
    <3> SUFFICES ASSUME NEW v \in Users, user'[v] # "idle"
                 PROVE  leased'[v] \in [Workers -> 0..allThreads'] /\ Pool(v) \in Pools
      OBVIOUS
    <3>1. CASE v = u
      <4>1. 1..allThreads' \subseteq 0..allThreads'
        BY <1>3
      <4> QED BY <1>4, <1>5, <1>7, <3>1, <4>1
    <3>2. CASE v # u
      <4>1. 0..allThreads \subseteq 0..allThreads'
        BY <1>1, <1>3 DEF Types
      <4> QED BY <1>1, <1>5, <3>2, <4>1 DEF UsersInv
    <3> QED BY <3>1, <3>2
  <2>2. \A v \in Users : user'[v] \in Active => \A i \in Workers : leased'[v][i] # NoThread
    <3>1. \A i \in Workers : L[i] # NoThread
      BY <1>9, <1>12 DEF NoThread
    <3> QED BY <1>1, <1>5, <3>1 DEF UsersInv
  <2>3. \A v \in Users : user'[v] \in Active \cup {"parked"} => index'[v] <= PoolSize
    BY <1>1, <1>5, PoolAssumption DEF UsersInv
  <2>4. \A v \in Users : user'[v] \in {"use", "kept"} => index'[v] = 1
    BY <1>1, <1>5 DEF UsersInv
  <2>5. \A v \in Users : user'[v] \notin Ending => Pool(v) \notin stopped
    BY <1>1, <1>2, <1>5 DEF UsersInv, Ending
  <2>6. \A p \in stopped : p[2] <= round[p[1]]
    BY <1>1 DEF UsersInv
  <2> QED BY <1>2, <2>1, <2>2, <2>3, <2>4, <2>5, <2>6 DEF UsersInv, Pool
<1>16. LeaseInv'
  <2>1. ASSUME NEW v \in Users, NEW w \in Users, NEW i \in Workers, NEW j \in Workers,
               user'[v] \in Active, user'[w] \in Active, leased'[v][i] = leased'[w][j]
        PROVE  v = w /\ i = j
    <3>1. CASE v = u /\ w = u
      BY <1>4, <1>5, <2>1, <3>1
    <3>2. CASE v # u /\ w # u
      BY <1>1, <1>5, <2>1, <3>2 DEF LeaseInv
    <3>3. CASE (v = u /\ w # u) \/ (v # u /\ w = u)
      BY <1>5, <1>13, <2>1, <3>3
    <3> QED BY <3>1, <3>2, <3>3
  <2>2. ASSUME NEW v \in Users, NEW i \in Workers, user'[v] \in Active
        PROVE  leased'[v][i] \notin Idle'
    <3>1. CASE v = u
      BY <1>4, <1>5, <3>1
    <3>2. CASE v # u
      BY <1>1, <1>3, <1>5, <2>2, <3>2 DEF LeaseInv
    <3> QED BY <3>1, <3>2
  <2> QED BY <1>3, <2>1, <2>2 DEF LeaseInv
<1>17. ThreadInv'
  <2> SUFFICES ASSUME NEW n \in MarketThreads PROVE ThreadOK(n)'
    BY DEF ThreadInv
  <2>1. n \in Idle' => n \in Idle
    BY <1>3
  <2>2. CASE n \in (allThreads + 1)..allThreads'
    <3>1. loop'[n] = "wait" /\ ~(n > allThreads')
      BY <1>8, <1>10, <2>2
    <3>2. job'[n] = NoJob /\ ~hasWork'[n] /\ ~exiting'[n]
      BY <1>2, <1>11, <2>2
    <3> QED BY <3>1, <3>2 DEF ThreadOK, Waiting
  <2>3. CASE n \notin (allThreads + 1)..allThreads'
    <3>1. loop'[n] = loop[n] /\ (n > allThreads' <=> n > allThreads)
      BY <1>8, <1>10, <2>3
    <3>2. ThreadOK(n)
      BY <1>1 DEF ThreadInv
    <3>3. job' = job /\ hasWork' = hasWork /\ exiting' = exiting /\ stopped' = stopped
      BY <1>2
    <3>4. ~exiting[n]
      BY <1>6
    <3> QED BY <2>1, <3>1, <3>2, <3>3, <3>4 DEF ThreadOK
  <2> QED BY <2>2, <2>3
<1>18. LeasedInv'
  <2> SUFFICES ASSUME NEW v \in Users, NEW i \in Workers, user'[v] \in Active
               PROVE  LET n == leased'[v][i]
                      IN  IF Given(v, i)' THEN job[n] = Pool(v) /\ hasWork[n]
                          ELSE /\ ~hasWork[n] /\ loop'[n] \in Waiting
                               /\ job[n] = IF user'[v] = "start" /\ i = index'[v]
                                           THEN Pool(v) ELSE NoJob
    BY <1>2 DEF LeasedInv, Pool
  <2>1. CASE v = u
    <3>1. ~Given(u, i)'
      BY <1>5 DEF Given, Workers
    <3> QED BY <1>5, <1>12, <2>1, <3>1
  <2>2. CASE v # u
    <3>1. /\ user[v] \in Active /\ leased'[v] = leased[v] /\ user'[v] = user[v]
          /\ index'[v] = index[v] /\ (Given(v, i)' <=> Given(v, i))
      BY <1>5, <2>2 DEF Given
    <3>2. leased[v][i] \in MarketThreads
      BY <1>1, <3>1, LeasedAre DEF Active
    <3>3. loop[leased[v][i]] \in Waiting => loop'[leased[v][i]] \in Waiting
      BY <1>8, <3>2 DEF Waiting
    <3> QED BY <1>1, <3>1, <3>3 DEF LeasedInv
  <2> QED BY <2>1, <2>2
<1>19. JobInv'
  <2>1. ASSUME NEW n \in MarketThreads, job[n] # NoJob
        PROVE  \/ \E v \in Users : /\ user'[v] \in Active /\ job[n] = Pool(v)
                                   /\ \E i \in Workers : leased'[v][i] = n
               \/ job[n] \in stopped /\ hasWork[n]
    <3>1. ASSUME NEW v \in Users, user[v] \in Active
          PROVE  user'[v] = user[v] /\ leased'[v] = leased[v]
      BY <1>2, <1>5, <3>1 DEF Active
    <3> QED BY <1>1, <2>1, <3>1 DEF JobInv
  <2>2. ASSUME NEW v \in Users, user'[v] \in Ending, NEW i \in 1..(index'[v] - 1),
               leased'[v][i] # NoThread
        PROVE  job[leased'[v][i]] # Pool(v)
    <3>1. v # u
      BY <1>5, <2>2 DEF Ending
    <3> QED BY <1>1, <1>5, <2>2, <3>1 DEF JobInv
  <2> QED BY <1>2, <2>1, <2>2 DEF JobInv, Pool
<1>20. ExitInv'
  BY <1>2, <1>6 DEF ExitInv
<1>21. RanInv'
  <2>1. ASSUME NEW p \in Pools PROVE AssignedTo(p)' = AssignedTo(p)
    <3>1. CASE p[1] = u
      BY <1>2, <1>5, <3>1 DEF AssignedTo
    <3>2. CASE p[1] # u
      BY <1>2, <1>5, <3>2, PoolsAre DEF AssignedTo
    <3> QED BY <3>1, <3>2
  <2>2. ASSUME NEW p \in Pools PROVE Pending(p)' \subseteq Pending(p)
    <3>1. ASSUME NEW n \in Pending(p)' PROVE n \in Pending(p)
      <4>1. n \in MarketThreads /\ job[n] = p /\ loop'[n] \in Waiting \cup {"check"}
        BY <1>2 DEF Pending
      <4>2. n \notin (allThreads + 1)..allThreads'
        BY <1>11, <4>1, PoolsAre
      <4> QED BY <1>8, <4>1, <4>2 DEF Pending
    <3> QED BY <3>1
  <2> QED BY <1>2, <2>1, <2>2, RanKept
<1> QED BY <1>3, <1>14, <1>15, <1>16, <1>17, <1>18, <1>19, <1>20, <1>21 DEF IInv

----------------------------------------------------------------------------
\* The market's destructor.

LEMMA SetExitingStep ==
  ASSUME IInv, SetExiting
  PROVE  IInv'
<1> USE DEF marketVars, userVars
<1>1. /\ Types /\ UsersInv /\ LeaseInv /\ ThreadInv /\ LeasedInv /\ JobInv
      /\ ExitInv /\ RanInv /\ SizeInv
  BY DEF IInv
<1>2. /\ UsersDone /\ victim <= allThreads
      /\ exiting' = [exiting EXCEPT ![victim] = TRUE] /\ teardown' = "wake"
      /\ UNCHANGED <<marketVars, hasWork, job, loop, userVars, victim, ran>>
  BY DEF SetExiting
<1>3. victim \in MarketThreads /\ ~(victim > allThreads)
  <2> DEFINE N == PoolSize * Cardinality(Pools)
  <2>1. N \in Nat /\ allThreads <= N /\ MarketThreads = 1..N
    BY <1>1, Sizes DEF MarketThreads, Types
  <2> HIDE DEF N
  <2> QED BY <1>1, <1>2, <2>1 DEF Types
<1>4. exiting'[victim] /\ \A n \in MarketThreads \ {victim} : exiting'[n] = exiting[n]
  BY <1>1, <1>2, <1>3 DEF Types
<1>5. UsersDone' = UsersDone /\ Idle' = Idle
  BY <1>2 DEF UsersDone, Idle
<1>6. Types'
  BY <1>1, <1>2 DEF Types
<1>7. UsersInv' /\ LeaseInv' /\ LeasedInv' /\ JobInv' /\ SizeInv'
  <2>1. UsersInv' /\ LeaseInv'
    BY <1>1, <1>2, <1>5 DEF UsersInv, LeaseInv, Pool
  <2>2. LeasedInv'
    BY <1>1, <1>2 DEF LeasedInv, Pool, Given
  <2>3. JobInv' /\ SizeInv'
    BY <1>1, <1>2 DEF JobInv, SizeInv, Pool, Begun
  <2> QED BY <2>1, <2>2, <2>3
<1>8. ThreadInv'
  BY <1>1, <1>2, <1>3, <1>4, <1>5 DEF ThreadInv, ThreadOK
<1>9. ExitInv'
  BY <1>2, <1>4, <1>5 DEF ExitInv
<1>10. RanInv'
  BY <1>1, <1>2 DEF RanInv, Pending, AssignedTo
<1> QED BY <1>6, <1>7, <1>8, <1>9, <1>10 DEF IInv

LEMMA WakeToExitStep ==
  ASSUME IInv, WakeToExit
  PROVE  IInv'
<1> USE DEF marketVars, userVars
<1>1. /\ Types /\ UsersInv /\ LeaseInv /\ ThreadInv /\ LeasedInv /\ JobInv
      /\ ExitInv /\ RanInv /\ SizeInv
  BY DEF IInv
<1>2. /\ teardown = "wake" /\ teardown' = "join"
      /\ hasWork' = [hasWork EXCEPT ![victim] = TRUE]
      /\ loop' = [loop EXCEPT ![victim] = IF @ = "parked" THEN "wait" ELSE @]
      /\ UNCHANGED <<marketVars, exiting, job, userVars, victim, ran>>
  BY DEF WakeToExit, WakeThread
<1>3. UsersDone /\ victim <= allThreads /\ exiting[victim]
  BY <1>1, <1>2 DEF ExitInv
<1>4. victim \in MarketThreads /\ ~(victim > allThreads)
  <2> DEFINE N == PoolSize * Cardinality(Pools)
  <2>1. N \in Nat /\ allThreads <= N /\ MarketThreads = 1..N
    BY <1>1, Sizes DEF MarketThreads, Types
  <2> HIDE DEF N
  <2> QED BY <1>1, <1>3, <2>1 DEF Types
<1>5. /\ hasWork'[victim] /\ loop'[victim] = IF loop[victim] = "parked" THEN "wait"
                                            ELSE loop[victim]
      /\ \A n \in MarketThreads \ {victim} : hasWork'[n] = hasWork[n] /\ loop'[n] = loop[n]
  BY <1>1, <1>2, <1>4 DEF Types
<1>6. UsersDone' = UsersDone /\ Idle' = Idle
  BY <1>2 DEF UsersDone, Idle
<1>7. Types'
  <2>1. hasWork' \in [MarketThreads -> BOOLEAN] /\ loop' \in [MarketThreads -> PCs]
    BY <1>1, <1>2 DEF Types, PCs
  <2> QED BY <1>1, <1>2, <2>1 DEF Types, PCs
<1>8. UsersInv' /\ LeaseInv' /\ SizeInv' /\ ExitInv'
  BY <1>1, <1>2, <1>3, <1>6 DEF UsersInv, LeaseInv, SizeInv, ExitInv, Pool, Begun
<1>9. ThreadInv'
  BY <1>1, <1>2, <1>3, <1>4, <1>5, <1>6 DEF ThreadInv, ThreadOK, Waiting
<1>10. LeasedInv' /\ JobInv'
  <2>1. \A v \in Users : user[v] \notin Active \cup Ending
    BY <1>3 DEF UsersDone, Active, Ending
  <2>2. LeasedInv'
    BY <1>2, <2>1 DEF LeasedInv
  <2>3. ASSUME NEW n \in MarketThreads, job[n] # NoJob
        PROVE  job[n] \in stopped /\ hasWork'[n]
    BY <1>1, <1>5, <2>1, <2>3 DEF JobInv
  <2> QED BY <1>2, <2>1, <2>2, <2>3 DEF JobInv
<1>11. RanInv'
  BY <1>2, <1>5, RanKept DEF Pending, AssignedTo, Waiting
<1> QED BY <1>7, <1>8, <1>9, <1>10, <1>11 DEF IInv

LEMMA JoinThreadStep ==
  ASSUME IInv, JoinThread
  PROVE  IInv'
<1> USE DEF marketVars, threadVars, userVars
<1>1. /\ Types /\ UsersInv /\ LeaseInv /\ ThreadInv /\ LeasedInv /\ JobInv
      /\ ExitInv /\ RanInv /\ SizeInv
  BY DEF IInv
<1>2. /\ teardown = "join" /\ victim' = victim + 1 /\ teardown' = "up"
      /\ UNCHANGED <<marketVars, threadVars, loop, userVars, ran>>
  BY DEF JoinThread
<1>3. victim <= allThreads
  BY <1>1, <1>2 DEF ExitInv
<1>4. Types'
  BY <1>1, <1>2, <1>3 DEF Types
<1>5. UsersInv' /\ LeaseInv' /\ LeasedInv' /\ JobInv' /\ SizeInv' /\ ExitInv'
  <2>1. UsersInv' /\ LeaseInv'
    BY <1>1, <1>2 DEF UsersInv, LeaseInv, Pool, Idle
  <2>2. LeasedInv'
    BY <1>1, <1>2 DEF LeasedInv, Pool, Given
  <2>3. JobInv' /\ SizeInv' /\ ExitInv'
    BY <1>1, <1>2 DEF JobInv, SizeInv, ExitInv, Pool, Begun
  <2> QED BY <2>1, <2>2, <2>3
<1>6. ThreadInv'
  BY <1>1, <1>2 DEF ThreadInv, ThreadOK, Idle, UsersDone
<1>7. RanInv'
  BY <1>1, <1>2 DEF RanInv, Pending, AssignedTo
<1> QED BY <1>4, <1>5, <1>6, <1>7 DEF IInv

LEMMA Unchanged ==
  ASSUME IInv, UNCHANGED vars
  PROVE  IInv'
<1>1. UNCHANGED <<allThreads, idleThreads, hasWork, exiting, job, loop, user, round, leased,
                  index, stopped, teardown, victim, ran>>
  BY DEF vars, marketVars, threadVars, userVars, exitVars
<1>2. /\ Types /\ UsersInv /\ LeaseInv /\ ThreadInv /\ LeasedInv /\ JobInv
      /\ ExitInv /\ RanInv /\ SizeInv
  BY DEF IInv
<1>3. Types' /\ UsersInv' /\ LeaseInv' /\ LeasedInv'
  <2>1. Types'
    BY <1>1, <1>2 DEF Types
  <2>2. UsersInv' /\ LeaseInv'
    BY <1>1, <1>2 DEF UsersInv, LeaseInv, Pool, Idle
  <2>3. LeasedInv'
    BY <1>1, <1>2 DEF LeasedInv, Pool, Given
  <2> QED BY <2>1, <2>2, <2>3
<1>4. JobInv' /\ ExitInv' /\ SizeInv' /\ RanInv'
  BY <1>1, <1>2 DEF JobInv, ExitInv, SizeInv, RanInv, Pool, Begun, Pending, AssignedTo,
                    UsersDone
<1>5. ThreadInv'
  BY <1>1, <1>2 DEF ThreadInv, ThreadOK, Idle, UsersDone
<1> QED BY <1>3, <1>4, <1>5 DEF IInv

LEMMA StepInv ==
  ASSUME IInv, [Next]_vars
  PROVE  IInv'
<1>1. CASE UNCHANGED vars
  BY <1>1, Unchanged
<1>2. ASSUME NEW m \in MarketThreads, Loop(m) PROVE IInv'
  BY <1>2, WaitForWorkStep, CheckExitingStep, JobReturnsStep, ClearJobStep, ReleaseJobStep,
     ReturnToIdleStep, NotifyDoneStep DEF Loop
<1>3. ASSUME NEW u \in Users, UserStep(u) PROVE IInv'
  BY <1>3, LeaseStep, AssignStep, StartStep, ShutdownStep, WaitDoneStep, DestroyStep
     DEF UserStep
<1>4. CASE Teardown
  BY <1>4, SetExitingStep, WakeToExitStep, JoinThreadStep DEF Teardown
<1>5. CASE Rest
  BY <1>5, Unchanged DEF Rest
<1> QED BY <1>1, <1>2, <1>3, <1>4, <1>5 DEF Next

LEMMA Invariance == Spec => []IInv
<1>1. IInv /\ [Next]_vars => IInv'
  BY StepInv
<1> QED BY InitInv, <1>1, PTL DEF Spec

----------------------------------------------------------------------------
\* What the invariant says.

\* Every reachable state has its types: in particular no pool's jobs ever begin
\* more often than it has workers, and no more threads are made than the pools
\* so far have workers.
THEOREM TypeCorrect == Spec => []TypeOK
<1>1. ASSUME IInv PROVE TypeOK
  <2>1. Types /\ RanInv
    BY <1>1 DEF IInv
  <2>2. allThreads \in 0..Cardinality(MarketThreads)
    BY <2>1, Sizes DEF Types
  <2>3. ASSUME NEW p \in Pools PROVE ran[p] \in 0..PoolSize
    <3>1. /\ Cardinality(Pending(p)) \in Nat /\ AssignedTo(p) \in Nat /\ ran[p] \in Nat
          /\ ran[p] + Cardinality(Pending(p)) <= AssignedTo(p)
      BY <2>1, Counts DEF RanInv
    <3>2. AssignedTo(p) <= PoolSize
      <4>1. index[p[1]] \in 1..(PoolSize + 1) /\ PoolSize \in Nat
        BY <2>1, PoolsAre, PoolAssumption DEF Types
      <4>2. user[p[1]] = "start" => index[p[1]] <= PoolSize
        BY <1>1, PoolsAre DEF IInv, UsersInv, Active
      <4> QED BY <4>1, <4>2 DEF AssignedTo
    <3> QED BY <3>1, <3>2, PoolAssumption
  <2>4. ran \in [Pools -> 0..PoolSize]
    BY <2>1, <2>3 DEF Types
  <2> QED BY <2>1, <2>2, <2>4 DEF Types, TypeOK, Active, Ending
<1> QED BY <1>1, Invariance, PTL

\* No thread is leased to two pools at once, nor idle and leased, nor twice in
\* idleThreads_: lease() and returnToIdle() hand each thread on whole.
THEOREM LeasedToOne == Spec => []LeasedOnce
<1>1. ASSUME IInv PROVE LeasedOnce
  <2> SUFFICES ASSUME NEW m \in 1..allThreads
               PROVE  Cardinality(Holders(m)) + Cardinality(IdlePlaces(m)) <= 1
    BY DEF LeasedOnce
  <2>1. LeaseInv
    BY <1>1 DEF IInv
  <2>2. \A u \in Holders(m) : u \in Users /\ user[u] \in Active
                             /\ \E i \in Workers : leased[u][i] = m
    BY DEF Holders, Active, Workers
  <2>3. \A u, v \in Holders(m) : u = v
    BY <2>1, <2>2 DEF LeaseInv
  <2>4. \A j, k \in IdlePlaces(m) : j = k
    BY <2>1 DEF LeaseInv, IdlePlaces
  <2>5. Holders(m) = {} \/ IdlePlaces(m) = {}
    BY <2>1, <2>2 DEF LeaseInv, IdlePlaces, Idle
  <2>6. ASSUME NEW S, \A x, y \in S : x = y
        PROVE  Cardinality(S) \in {0, 1} /\ (S = {} => Cardinality(S) = 0)
    <3>1. CASE S = {}
      BY <3>1, FS_EmptySet
    <3>2. ASSUME NEW x \in S PROVE Cardinality(S) = 1
      <4>1. S = {x}
        BY <2>6, <3>2
      <4> QED BY <4>1, FS_Singleton
    <3> QED BY <3>1, <3>2
  <2>7. /\ Cardinality(Holders(m)) \in {0, 1} /\ Cardinality(IdlePlaces(m)) \in {0, 1}
        /\ Cardinality(Holders(m)) = 0 \/ Cardinality(IdlePlaces(m)) = 0
    BY <2>3, <2>4, <2>5, <2>6
  <2> QED BY <2>7
<1> QED BY <1>1, Invariance, PTL

\* assign() never writes job_ under a thread that still uses it, and the end of
\* a thread's last job never takes the next one with it.
THEOREM JobsSafe == Spec => []JobsIntact
<1>1. ASSUME IInv PROVE JobsIntact
  <2>1. Types /\ UsersInv /\ LeasedInv
    BY <1>1 DEF IInv
  <2>2. ASSUME NEW u \in Users, user[u] \in {"assign", "start"}
        PROVE  loop[Current(u)] \in {"wait", "parked", "notify"}
    <3>1. index[u] \in Workers /\ user[u] \in Active /\ ~Given(u, index[u])
      BY <2>1, <2>2, PoolAssumption DEF Types, UsersInv, Active, Workers, Given
    <3> QED BY <2>1, <3>1 DEF LeasedInv, Current, Waiting
  <2>3. ASSUME NEW u \in Users, user[u] \in {"use", "kept"}, NEW i \in 1..PoolSize
        PROVE  job[leased[u][i]] = <<u, round[u]>> /\ hasWork[leased[u][i]]
    BY <2>1, <2>3 DEF LeasedInv, Given, Active, Workers, Pool
  <2> QED BY <2>2, <2>3 DEF JobsIntact, JobUnshared, WorkersAtWork
<1> QED BY <1>1, Invariance, PTL

\* Once shutdown() has gone past a worker, its thread does not run that pool's
\* job, nor is it about to: the pool may be destroyed.
THEOREM WaitedIsDone == Spec => []DoneMeansDone
<1>1. ASSUME IInv PROVE DoneMeansDone
  <2>1. JobInv
    BY <1>1 DEF IInv
  <2> QED BY <2>1 DEF JobInv, DoneMeansDone, Ending, Pool
<1> QED BY <1>1, Invariance, PTL

=============================================================================
