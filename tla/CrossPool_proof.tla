--------------------------- MODULE CrossPool_proof ---------------------------
(***************************************************************************)
(* A theorem about CrossPool for any pools, workers, clients and tasks,    *)
(* and anything that clients and tasks do: a task that waits to run is in  *)
(* one pool, once, and what each pool's count says is what it has, plus    *)
(* what it gave away, less what it took in.                                *)
(***************************************************************************)
EXTENDS CrossPool, FiniteSetTheorems, SequenceTheorems, TLAPS

\* Where a thread has no task in hand, and where it has one, or is in waitIdle(),
\* so that it serves a pool.
Empty == {"fetch", "asleep", "done", "drain"}
Serving == {"fetch", "asleep", "drain", "start"}

Frames == [pool : Pools \cup {NoPool}, todo : Seq(ClientOperations),
           task : Tasks \cup {NoTask}, ops : Seq(Operations)]

Types ==
    /\ runState \in [Pools -> {"Running", "Finish", "Discard"}]
    /\ pending \in [Pools -> 0..(SizeModulus - 1)]
    /\ active \in [Pools -> Int]
    /\ local \in [Workers -> Seq(Tasks)]
    /\ shard \in [Pools -> Seq(Tasks)]
    /\ pc \in [Threads -> Labels]
    /\ frame \in [Threads -> Frames]
    /\ status \in [Tasks -> {"unsubmitted", "queued", "running", "done"}]
    /\ home \in [Tasks -> Pools \cup {NoPool}]
    /\ at \in [Tasks -> Pools \cup {NoPool}]

\* What a thread's place says of its locals, and of its task.
ControlOK(t) ==
    /\ pc[t] = "count" => \E p \in Pools, k \in Tasks :
          Ops(t) # <<>> /\ Op(t) = <<"submit", p, k>>
    /\ pc[t] = "join" => Ops(t) # <<>>
    /\ pc[t] \in Empty => ~InTask(t)
    /\ pc[t] = "start" => InTask(t)
    /\ pc[t] \in Serving \/ InTask(t) => frame[t].pool \in Pools
    /\ t \in Workers =>
          /\ frame[t].pool = PoolOf(t)
          /\ pc[t] \in {"run", "count", "join"} => InTask(t)
          /\ pc[t] # "drain"
    /\ t \notin Workers /\ frame[t].pool # NoPool =>
          frame[t].todo # <<>> /\ (InTask(t) \/ pc[t] = "drain")
    /\ InTask(t) /\ pc[t] = "start" =>
          status[frame[t].task] = "queued" /\ at[frame[t].task] = frame[t].pool
    /\ InTask(t) /\ pc[t] # "start" => status[frame[t].task] = "running"

ControlInv == \A t \in Threads : ControlOK(t)

\* The submissions that are still to be made: the rest of a client's program, of
\* a task that runs, without the call whose push is done, and the body of a task
\* that has not started.  Each task is in one of them, and has not been submitted.
Owners == ({"todo"} \X Threads) \cup ({"ops"} \X Threads) \cup ({"body"} \X Tasks)

Rest(t) == IF pc[t] = "count" THEN Advanced(t) ELSE frame[t]

Owed == [o \in Owners |->
    IF o[1] = "todo" THEN Submits(Rest(o[2]).todo)
    ELSE IF o[1] = "ops" THEN Submits(Rest(o[2]).ops)
    ELSE {k \in Submits(Bodies[o[2]]) : status[o[2]] \notin {"running", "done"}}]

OwedInv ==
    /\ \A o, p \in Owners : o # p => Owed[o] \cap Owed[p] = {}
    /\ \A o \in Owners : \A k \in Owed[o] : status[k] = "unsubmitted"
    /\ \A t \in Threads : NoneTwice(frame[t].todo) /\ NoneTwice(frame[t].ops)

\* The queues, the pool each is of, and the tasks in them.
Queues == ({"local"} \X Workers) \cup ({"shard"} \X Pools)
Site(q) == IF q[1] = "local" THEN PoolOf(q[2]) ELSE q[2]
Queue == [q \in Queues |-> IF q[1] = "local" THEN local[q[2]] ELSE shard[q[2]]]
Content == [q \in Queues |-> {Queue[q][i] : i \in 1..Len(Queue[q])}]

\* A task is once in one queue, of the pool it was put in, or one thread has it,
\* and then it is queued.
PlaceInv ==
    /\ \A q \in Queues : \A i, j \in 1..Len(Queue[q]) : Queue[q][i] = Queue[q][j] => i = j
    /\ \A q, r \in Queues : q # r => Content[q] \cap Content[r] = {}
    /\ \A q \in Queues : \A k \in Content[q] : status[k] = "queued" /\ at[k] = Site(q)
    /\ \A q \in Queues : \A t \in Threads : frame[t].task \notin Content[q]
    /\ \A t, u \in Threads : frame[t].task = frame[u].task /\ InTask(t) => t = u
    /\ \A k \in Tasks : status[k] = "queued" =>
          \/ \E q \in Queues : k \in Content[q]
          \/ \E t \in Threads : pc[t] = "start" /\ frame[t].task = k

HomeInv == \A k \in Tasks : status[k] = "unsubmitted" => home[k] = NoPool /\ at[k] = NoPool

\* What a pool's pendingTasks_ counts.
QueuedAt(p) == {k \in Tasks : status[k] = "queued" /\ at[k] = p}
Counting(p) == {t \in Threads : pc[t] = "count" /\ Op(t)[2] = p}
Total(p) == Cardinality(QueuedAt(p)) + Cardinality(Strays(p)) - Cardinality(Guests(p))
            - Cardinality(Counting(p))

CountInv == \A p \in Pools : pending[p] = Wrap(Total(p))

IInv == Types /\ ControlInv /\ OwedInv /\ PlaceInv /\ HomeInv /\ CountInv

----------------------------------------------------------------------------
\* The constants, the operations and the frames.

LEMMA Sizes ==
  /\ SizeModulus \in Nat \ {0} /\ NoPool \notin Pools /\ NoTask \notin Tasks
  /\ IsFiniteSet(Tasks) /\ IsFiniteSet(Threads) /\ Cardinality(Tasks) \in Nat
<1>1. IsFiniteSet(Threads)
  BY WorkersAssumption, ClientsAssumption, FS_Union DEF Threads
<1> QED BY <1>1, WorkersAssumption, TasksAssumption, SizeAssumption, FS_CardinalityType

\* Every worker is of one pool.
LEMMA OnePool ==
  /\ \A w \in Workers : PoolOf(w) \in Pools /\ w \in WorkersOf[PoolOf(w)] /\ w \in Threads
  /\ \A p \in Pools : \A w \in WorkersOf[p] : w \in Workers /\ PoolOf(w) = p
<1>1. \A w \in Workers : PoolOf(w) \in Pools /\ w \in WorkersOf[PoolOf(w)] /\ w \in Threads
  <2> SUFFICES ASSUME NEW w \in Workers
               PROVE  PoolOf(w) \in Pools /\ w \in WorkersOf[PoolOf(w)]
    BY DEF Threads
  <2>1. \E p \in Pools : w \in WorkersOf[p]
    BY DEF Workers
  <2> QED BY <2>1 DEF PoolOf
<1>2. \A p \in Pools : \A w \in WorkersOf[p] : w \in Workers
  BY DEF Workers
<1>3. \A p \in Pools : \A w \in WorkersOf[p] : PoolOf(w) = p
  BY <1>1, <1>2, WorkersAssumption
<1> QED BY <1>1, <1>2, <1>3

LEMMA OpKinds ==
  ASSUME NEW op \in ClientOperations
  PROVE  /\ op[1] = "submit" => \E p \in Pools, k \in Tasks : op = <<"submit", p, k>>
         /\ op[1] = "waitIdle" => op[2] \in Pools
         /\ op[1] = "shutdown" => op[2] \in Pools /\ op[3] \in {"Finish", "Discard"}
<1>1. CASE op \in {"submit"} \X Pools \X Tasks
  BY <1>1
<1>2. CASE op \in {"get"} \X Tasks
  BY <1>2
<1>3. CASE op \in {"shutdown"} \X Pools \X {"Finish", "Discard"}
  BY <1>3
<1>4. CASE op \in {"waitIdle"} \X Pools
  BY <1>4
<1> QED BY <1>1, <1>2, <1>3, <1>4 DEF ClientOperations, Operations

LEMMA Fields ==
  ASSUME NEW f \in Frames
  PROVE  /\ f.pool \in Pools \cup {NoPool} /\ f.todo \in Seq(ClientOperations)
         /\ f.task \in Tasks \cup {NoTask} /\ f.ops \in Seq(Operations)
         /\ \A p \in Pools \cup {NoPool} : [f EXCEPT !.pool = p] \in Frames
         /\ \A o \in Seq(ClientOperations) : [f EXCEPT !.todo = o] \in Frames
         /\ \A k \in Tasks \cup {NoTask} : [f EXCEPT !.task = k] \in Frames
         /\ \A o \in Seq(Operations) : [f EXCEPT !.ops = o] \in Frames
<1> QED BY DEF Frames

LEMMA NoOps ==
  Submits(<<>>) = {} /\ NoneTwice(<<>>) /\ (\A S : <<>> \in Seq(S))
<1> QED BY EmptySeq DEF Submits, NoneTwice

LEMMA TailOfOps ==
  ASSUME NEW S, NEW s \in Seq(S), s # <<>>, NoneTwice(s)
  PROVE  /\ Head(s) \in S /\ Tail(s) \in Seq(S)
         /\ Submits(Tail(s)) \subseteq Submits(s) /\ NoneTwice(Tail(s))
         /\ \A k \in Tasks : Head(s)[1] = "submit" /\ Head(s)[3] = k
                             => k \in Submits(s) /\ k \notin Submits(Tail(s))
<1>1. /\ Len(s) \in Nat \ {0} /\ Head(s) = s[1] /\ Head(s) \in S
      /\ Tail(s) \in Seq(S) /\ Len(Tail(s)) = Len(s) - 1
      /\ \A i \in 1..(Len(s) - 1) : Tail(s)[i] = s[i + 1]
  BY HeadTailProperties, EmptySeq, LenProperties
<1>2. \A i \in 1..Len(Tail(s)) : i + 1 \in 1..Len(s) /\ Tail(s)[i] = s[i + 1]
  BY <1>1
<1>3. Submits(Tail(s)) \subseteq Submits(s)
  BY <1>2 DEF Submits
<1>4. NoneTwice(Tail(s))
  <2> SUFFICES ASSUME NEW i \in 1..Len(Tail(s)), NEW j \in 1..Len(Tail(s)),
                      Tail(s)[i][1] = "submit", Tail(s)[j][1] = "submit",
                      Tail(s)[i][3] = Tail(s)[j][3]
               PROVE  i = j
    BY DEF NoneTwice
  <2>1. i + 1 = j + 1
    BY <1>2 DEF NoneTwice
  <2> QED BY <1>1, <2>1
<1>5. ASSUME NEW k \in Tasks, Head(s)[1] = "submit", Head(s)[3] = k
      PROVE  k \in Submits(s) /\ k \notin Submits(Tail(s))
  <2>1. 1 \in 1..Len(s) /\ s[1][1] = "submit" /\ s[1][3] = k
    BY <1>1, <1>5
  <2>2. ASSUME NEW i \in 1..Len(Tail(s)), Tail(s)[i][1] = "submit", Tail(s)[i][3] = k
        PROVE  FALSE
    <3>1. i + 1 \in 1..Len(s) /\ s[i + 1][1] = "submit" /\ s[i + 1][3] = s[1][3]
      BY <1>2, <2>1, <2>2
    <3>2. i + 1 = 1
      BY <2>1, <3>1 DEF NoneTwice
    <3> QED BY <1>1, <3>2
  <2> QED BY <2>1, <2>2 DEF Submits
<1> QED BY <1>1, <1>3, <1>4, <1>5

\* The frame past the first operation.
LEMMA Advancing ==
  ASSUME Types, OwedInv, NEW t \in Threads, Ops(t) # <<>>
  PROVE  /\ Op(t) \in ClientOperations
         /\ Advanced(t) \in Frames /\ Advanced(t).task = frame[t].task
         /\ Advanced(t).pool = frame[t].pool
         /\ InTask(t) => Advanced(t).todo = frame[t].todo
         /\ Submits(Advanced(t).todo) \subseteq Submits(frame[t].todo)
         /\ NoneTwice(Advanced(t).todo)
         /\ Submits(Advanced(t).ops) \subseteq Submits(frame[t].ops)
         /\ NoneTwice(Advanced(t).ops)
         /\ \A k \in Tasks : Op(t)[1] = "submit" /\ Op(t)[3] = k =>
               \/ InTask(t) /\ k \in Submits(frame[t].ops) /\ k \notin Submits(Advanced(t).ops)
               \/ ~InTask(t) /\ k \in Submits(frame[t].todo)
                             /\ k \notin Submits(Advanced(t).todo)
<1>1. /\ frame[t] \in Frames /\ NoneTwice(frame[t].todo) /\ NoneTwice(frame[t].ops)
      /\ frame[t].todo \in Seq(ClientOperations) /\ frame[t].ops \in Seq(Operations)
  BY Fields DEF Types, OwedInv
<1>2. CASE InTask(t)
  <2>1. /\ Ops(t) = frame[t].ops /\ Op(t) = Head(frame[t].ops)
        /\ Advanced(t) = [frame[t] EXCEPT !.ops = Tail(frame[t].ops)]
    BY <1>2 DEF Ops, Op, Advanced
  <2>2. /\ Head(frame[t].ops) \in Operations /\ Tail(frame[t].ops) \in Seq(Operations)
        /\ Submits(Tail(frame[t].ops)) \subseteq Submits(frame[t].ops)
        /\ NoneTwice(Tail(frame[t].ops))
        /\ \A k \in Tasks : Head(frame[t].ops)[1] = "submit" /\ Head(frame[t].ops)[3] = k
              => k \in Submits(frame[t].ops) /\ k \notin Submits(Tail(frame[t].ops))
    BY <1>1, <2>1, TailOfOps
  <2>3. /\ Advanced(t) \in Frames /\ Advanced(t).ops = Tail(frame[t].ops)
        /\ Advanced(t).todo = frame[t].todo /\ Advanced(t).task = frame[t].task
        /\ Advanced(t).pool = frame[t].pool
    BY <1>1, <2>1, <2>2 DEF Frames
  <2> QED BY <1>1, <1>2, <2>1, <2>2, <2>3 DEF ClientOperations
<1>3. CASE ~InTask(t)
  <2>1. /\ Ops(t) = frame[t].todo /\ Op(t) = Head(frame[t].todo)
        /\ Advanced(t) = [frame[t] EXCEPT !.todo = Tail(frame[t].todo)]
    BY <1>3 DEF Ops, Op, Advanced
  <2>2. /\ Head(frame[t].todo) \in ClientOperations
        /\ Tail(frame[t].todo) \in Seq(ClientOperations)
        /\ Submits(Tail(frame[t].todo)) \subseteq Submits(frame[t].todo)
        /\ NoneTwice(Tail(frame[t].todo))
        /\ \A k \in Tasks : Head(frame[t].todo)[1] = "submit" /\ Head(frame[t].todo)[3] = k
              => k \in Submits(frame[t].todo) /\ k \notin Submits(Tail(frame[t].todo))
    BY <1>1, <2>1, TailOfOps
  <2>3. /\ Advanced(t) \in Frames /\ Advanced(t).todo = Tail(frame[t].todo)
        /\ Advanced(t).ops = frame[t].ops /\ Advanced(t).task = frame[t].task
        /\ Advanced(t).pool = frame[t].pool
    BY <1>1, <2>1, <2>2 DEF Frames
  <2> QED BY <1>1, <1>3, <2>1, <2>2, <2>3
<1> QED BY <1>2, <1>3

\* A size_t goes up and down with what it counts.

LEMMA Multiple ==
  ASSUME NEW m \in Nat \ {0}, NEW d \in Int, -m < m * d, m * d < m
  PROVE  m * d = 0
<1>1. /\ d >= 1 => m * d >= m
      /\ d <= -1 => m * d <= -m
  OBVIOUS
<1>2. d = 0
  BY <1>1
<1> QED BY <1>2

LEMMA Division ==
  ASSUME NEW m \in Nat \ {0}, NEW y \in Int
  PROVE  y \div m \in Int /\ y % m \in 0..(m - 1) /\ y = m * (y \div m) + (y % m)
<1>1. y \div m \in Int /\ y % m \in 0..(m - 1)
  OBVIOUS
<1>2. y = m * (y \div m) + (y % m)
  OBVIOUS
<1> QED BY <1>1, <1>2

LEMMA NextRemainder ==
  ASSUME NEW m \in Nat \ {0}, NEW y \in Int, NEW e \in {-1, 1}
  PROVE  ((y % m) + e) % m = (y + e) % m
<1> DEFINE r == y % m
           a == r + e
           b == y + e
           A == a % m
           B == b % m
           p == y \div m
           q == a \div m
           s == b \div m
           d == s - q - p
<1>1. p \in Int /\ r \in 0..(m - 1) /\ y = m * p + r
  BY Division
<1>2. q \in Int /\ A \in 0..(m - 1) /\ a = m * q + A
  BY <1>1, Division
<1>3. s \in Int /\ B \in 0..(m - 1) /\ b = m * s + B
  BY <1>1, Division
<1>4. a = r + e /\ b = y + e
  OBVIOUS
<1> HIDE DEF r, a, b, A, B, p, q, s
<1>5. d \in Int /\ m * d = (m * s) - (m * q) - (m * p)
  BY <1>1, <1>2, <1>3
<1> HIDE DEF d
<1> DEFINE P == m * p
           Q == m * q
           S == m * s
           D == m * d
<1>6. P \in Int /\ Q \in Int /\ S \in Int /\ D \in Int
  BY <1>1, <1>2, <1>3, <1>5
<1>7. y = P + r /\ a = Q + A /\ b = S + B /\ D = S - Q - P
  BY <1>1, <1>2, <1>3, <1>5
<1>8. D = 0 <=> m * d = 0
  OBVIOUS
<1>9. -m < D /\ D < m => D = 0
  BY <1>5, <1>8, Multiple
<1> HIDE DEF P, Q, S, D
<1>10. D = A - B
  BY <1>1, <1>2, <1>3, <1>4, <1>6, <1>7
<1>11. A = B
  BY <1>2, <1>3, <1>6, <1>9, <1>10
<1> QED BY <1>11 DEF A, B, a, b, r

LEMMA WrapStep ==
  ASSUME NEW x \in Int
  PROVE  /\ Wrap(x) \in 0..(SizeModulus - 1)
         /\ Wrap(Wrap(x) + 1) = Wrap(x + 1) /\ Wrap(Wrap(x) - 1) = Wrap(x - 1)
<1> DEFINE m == SizeModulus
<1>1. m \in Nat \ {0}
  BY Sizes
<1> HIDE DEF m
<1>2. ((x % m) + 1) % m = (x + 1) % m
  BY <1>1, NextRemainder
<1>3. ((x % m) + (-1)) % m = (x + (-1)) % m
  BY <1>1, NextRemainder
<1>4. x % m \in 0..(m - 1)
  BY <1>1, Division
<1>5. (x % m) + (-1) = (x % m) - 1 /\ x + (-1) = x - 1
  BY <1>4
<1> QED BY <1>2, <1>3, <1>4, <1>5 DEF Wrap, m

----------------------------------------------------------------------------
\* What a step of one thread leaves to the others.

\* Every thread but t stays where it is, or is woken.
Others(t) ==
    \A u \in Threads \ {t} : /\ frame'[u] = frame[u]
                             /\ pc'[u] = pc[u] \/ (pc[u] = "asleep" /\ pc'[u] = "fetch")

\* Nothing happens to the tasks that the others have.
Undisturbed(t) ==
    \A u \in Threads \ {t} : InTask(u) => /\ status'[frame[u].task] = status[frame[u].task]
                                          /\ at'[frame[u].task] = at[frame[u].task]

LEMMA NewFrame ==
  ASSUME Types, NEW t \in Threads, NEW f \in Frames, frame' = [frame EXCEPT ![t] = f]
  PROVE  /\ frame' \in [Threads -> Frames] /\ frame'[t] = f
         /\ \A u \in Threads \ {t} : frame'[u] = frame[u]
<1> QED BY DEF Types

LEMMA Moved ==
  ASSUME Types, NEW t \in Threads, NEW l \in Labels, Goto(t, l)
  PROVE  /\ pc' \in [Threads -> Labels] /\ pc'[t] = l
         /\ \A u \in Threads \ {t} : pc'[u] = pc[u]
<1> QED BY DEF Types, Goto

LEMMA ControlKept ==
  ASSUME ControlInv, NEW t \in Threads, Others(t), Undisturbed(t), ControlOK(t)'
  PROVE  ControlInv'
<1> SUFFICES ASSUME NEW u \in Threads PROVE ControlOK(u)'
  BY DEF ControlInv
<1>1. CASE u = t
  BY <1>1
<1>2. CASE u # t
  <2>1. ControlOK(u)
    BY DEF ControlInv
  <2>2. /\ frame'[u] = frame[u]
        /\ pc'[u] = pc[u] \/ (pc[u] = "asleep" /\ pc'[u] = "fetch")
        /\ frame[u].task # NoTask => /\ status'[frame[u].task] = status[frame[u].task]
                                     /\ at'[frame[u].task] = at[frame[u].task]
    BY <1>2 DEF Others, Undisturbed, InTask
  <2>3. CASE pc'[u] = pc[u]
    BY <2>1, <2>2, <2>3 DEF ControlOK, Ops, Op, InTask, Empty, Serving
  <2>4. CASE pc[u] = "asleep" /\ pc'[u] = "fetch"
    BY <2>1, <2>2, <2>4 DEF ControlOK, Ops, Op, InTask, Empty, Serving
  <2> QED BY <2>2, <2>3, <2>4
<1> QED BY <1>1, <1>2

\* A step that changes no task but the one that its thread has.
LEMMA OwnTask ==
  ASSUME PlaceInv, NEW t \in Threads, UNCHANGED at,
         \A k \in Tasks : k # frame[t].task => status'[k] = status[k], Types
  PROVE  Undisturbed(t)
<1> SUFFICES ASSUME NEW u \in Threads \ {t}, InTask(u)
             PROVE  status'[frame[u].task] = status[frame[u].task]
  BY DEF Undisturbed
<1>1. frame[u].task \in Tasks /\ frame[u].task # frame[t].task
  BY Fields DEF Types, InTask, PlaceInv
<1> QED BY <1>1

----------------------------------------------------------------------------
\* The submissions that are still to be made.

LEMMA OwnerKinds ==
  ASSUME NEW o \in Owners
  PROVE  \/ o[1] = "todo" /\ o[2] \in Threads
         \/ o[1] = "ops" /\ o[2] \in Threads
         \/ o[1] = "body" /\ o[2] \in Tasks
<1>1. CASE o \in {"todo"} \X Threads
  BY <1>1
<1>2. CASE o \in {"ops"} \X Threads
  BY <1>2
<1>3. CASE o \in {"body"} \X Tasks
  BY <1>3
<1> QED BY <1>1, <1>2, <1>3 DEF Owners

LEMMA RestKept ==
  ASSUME NEW t \in Threads, Others(t)
  PROVE  \A u \in Threads \ {t} : Rest(u)' = Rest(u)
<1> SUFFICES ASSUME NEW u \in Threads \ {t} PROVE Rest(u)' = Rest(u)
  OBVIOUS
<1>1. frame'[u] = frame[u] /\ (pc'[u] = "count" <=> pc[u] = "count")
  BY DEF Others
<1> QED BY <1>1 DEF Rest, Advanced, InTask

\* A step after which nobody owes more than before.
LEMMA OwedKept ==
  ASSUME OwedInv, NEW t \in Threads, Others(t),
         Submits(Rest(t)'.todo) \subseteq Submits(Rest(t).todo), NoneTwice(frame'[t].todo),
         Submits(Rest(t)'.ops) \subseteq Submits(Rest(t).ops), NoneTwice(frame'[t].ops),
         \A k \in Tasks : status[k] \in {"running", "done"} => status'[k] \in {"running", "done"},
         \A k \in Tasks : status[k] = "unsubmitted" /\ status'[k] # "unsubmitted"
                             => \A o \in Owners : k \notin Owed'[o]
  PROVE  OwedInv'
<1>1. ASSUME NEW o \in Owners PROVE Owed'[o] \subseteq Owed[o]
  <2>1. \/ o[1] = "todo" /\ o[2] \in Threads
        \/ o[1] = "ops" /\ o[2] \in Threads
        \/ o[1] = "body" /\ o[2] \in Tasks
    BY OwnerKinds
  <2>2. \A u \in Threads : Submits(Rest(u)'.todo) \subseteq Submits(Rest(u).todo)
                           /\ Submits(Rest(u)'.ops) \subseteq Submits(Rest(u).ops)
    BY RestKept
  <2>3. CASE o[1] = "todo"
    BY <2>1, <2>2, <2>3 DEF Owed
  <2>4. CASE o[1] = "ops"
    BY <2>1, <2>2, <2>4 DEF Owed
  <2>5. CASE o[1] = "body"
    BY <2>1, <2>5 DEF Owed
  <2> QED BY <2>1, <2>3, <2>4, <2>5
<1>2. \A o \in Owners : Owed[o] \subseteq Tasks
  BY DEF Owed, Submits
<1>3. \A o, p \in Owners : o # p => Owed'[o] \cap Owed'[p] = {}
  BY <1>1 DEF OwedInv
<1>4. \A o \in Owners : \A k \in Owed'[o] : status'[k] = "unsubmitted"
  BY <1>1, <1>2 DEF OwedInv
<1>5. \A u \in Threads : NoneTwice(frame'[u].todo) /\ NoneTwice(frame'[u].ops)
  BY DEF OwedInv, Others
<1> QED BY <1>3, <1>4, <1>5 DEF OwedInv

\* Every owner but the one that a step takes submissions from and the one that
\* it gives them to keeps its own.
LEMMA OwedTransfer ==
  ASSUME OwedInv, NEW a \in Owners, NEW b \in Owners, a # b,
         \A o \in Owners \ {a, b} : Owed'[o] \subseteq Owed[o],
         Owed'[a] = {}, Owed'[b] \subseteq Owed[a],
         \A o \in Owners : \A k \in Owed[o] : status'[k] = "unsubmitted",
         \A u \in Threads : NoneTwice(frame'[u].todo) /\ NoneTwice(frame'[u].ops)
  PROVE  OwedInv'
<1>1. ASSUME NEW o \in Owners, NEW p \in Owners, o # p PROVE Owed'[o] \cap Owed'[p] = {}
  BY <1>1 DEF OwedInv
<1>2. \A o \in Owners : \A k \in Owed'[o] : status'[k] = "unsubmitted"
  OBVIOUS
<1> QED BY <1>1, <1>2 DEF OwedInv

----------------------------------------------------------------------------
\* What the pools' counters count.

Bit(b) == IF b THEN 1 ELSE 0

LEMMA CardStep ==
  ASSUME NEW S, NEW T, NEW x, IsFiniteSet(S), \A y : y # x => (y \in T <=> y \in S)
  PROVE  Cardinality(T) = Cardinality(S) - Bit(x \in S) + Bit(x \in T)
<1> DEFINE B == S \ {x}
<1>1. IsFiniteSet(B) /\ Cardinality(B) \in Nat /\ Cardinality(B \cup {x}) = Cardinality(B) + 1
  BY FS_RemoveElement, FS_AddElement, FS_CardinalityType
<1>2. ASSUME NEW R, \A y : y # x => (y \in R <=> y \in S)
      PROVE  Cardinality(R) = Cardinality(B) + Bit(x \in R)
  <2>1. CASE x \in R
    <3>1. R = B \cup {x} /\ Bit(x \in R) = 1
      BY <1>2, <2>1 DEF Bit
    <3> QED BY <1>1, <3>1
  <2>2. CASE x \notin R
    <3>1. R = B /\ Bit(x \in R) = 0
      BY <1>2, <2>2 DEF Bit
    <3> QED BY <1>1, <3>1
  <2> QED BY <2>1, <2>2
<1>3. /\ Cardinality(T) = Cardinality(B) + Bit(x \in T)
      /\ Cardinality(S) = Cardinality(B) + Bit(x \in S)
  BY <1>2
<1>4. Bit(x \in S) \in Int /\ Bit(x \in T) \in Int
  BY DEF Bit
<1> HIDE DEF B
<1> QED BY <1>1, <1>3, <1>4

LEMMA Finiteness ==
  \A p \in Pools :
     /\ IsFiniteSet(QueuedAt(p)) /\ Cardinality(QueuedAt(p)) \in Nat
     /\ IsFiniteSet(Strays(p)) /\ Cardinality(Strays(p)) \in Nat
     /\ IsFiniteSet(Guests(p)) /\ Cardinality(Guests(p)) \in Nat
     /\ IsFiniteSet(Counting(p)) /\ Cardinality(Counting(p)) \in Nat
     /\ Total(p) \in Int
<1> SUFFICES ASSUME NEW p \in Pools
             PROVE  /\ IsFiniteSet(QueuedAt(p)) /\ Cardinality(QueuedAt(p)) \in Nat
                    /\ IsFiniteSet(Strays(p)) /\ Cardinality(Strays(p)) \in Nat
                    /\ IsFiniteSet(Guests(p)) /\ Cardinality(Guests(p)) \in Nat
                    /\ IsFiniteSet(Counting(p)) /\ Cardinality(Counting(p)) \in Nat
                    /\ Total(p) \in Int
  OBVIOUS
<1>1. /\ QueuedAt(p) \subseteq Tasks /\ Strays(p) \subseteq Tasks /\ Guests(p) \subseteq Tasks
      /\ Counting(p) \subseteq Threads
  BY DEF QueuedAt, Strays, Guests, Counting
<1>2. /\ IsFiniteSet(QueuedAt(p)) /\ IsFiniteSet(Strays(p)) /\ IsFiniteSet(Guests(p))
      /\ IsFiniteSet(Counting(p))
  BY <1>1, Sizes, FS_Subset
<1>3. /\ Cardinality(QueuedAt(p)) \in Nat /\ Cardinality(Strays(p)) \in Nat
      /\ Cardinality(Guests(p)) \in Nat /\ Cardinality(Counting(p)) \in Nat
  BY <1>2, FS_CardinalityType
<1> QED BY <1>2, <1>3 DEF Total

\* A step of one thread and of one task.
LEMMA Totals ==
  ASSUME NEW t \in Threads, Others(t), NEW k, NEW p \in Pools,
         \A j \in Tasks \ {k} : status'[j] = status[j] /\ at'[j] = at[j] /\ home'[j] = home[j]
  PROVE  Total(p)' = Total(p) + Bit(k \in QueuedAt(p)') - Bit(k \in QueuedAt(p))
                     + Bit(k \in Strays(p)') - Bit(k \in Strays(p))
                     - Bit(k \in Guests(p)') + Bit(k \in Guests(p))
                     - Bit(t \in Counting(p)') + Bit(t \in Counting(p))
<1>1. \A j : j # k => (j \in QueuedAt(p)' <=> j \in QueuedAt(p))
  BY DEF QueuedAt
<1>2. \A j : j # k => (j \in Strays(p)' <=> j \in Strays(p))
  BY DEF Strays
<1>3. \A j : j # k => (j \in Guests(p)' <=> j \in Guests(p))
  BY DEF Guests
<1>4. \A u : u # t => (u \in Counting(p)' <=> u \in Counting(p))
  <2> SUFFICES ASSUME NEW u \in Threads \ {t}
               PROVE  u \in Counting(p)' <=> u \in Counting(p)
    BY DEF Counting
  <2>1. frame'[u] = frame[u] /\ (pc'[u] = "count" <=> pc[u] = "count")
    BY DEF Others
  <2> QED BY <2>1 DEF Counting, Op, Ops, InTask
<1>5. Cardinality(QueuedAt(p)') = Cardinality(QueuedAt(p)) - Bit(k \in QueuedAt(p))
                                  + Bit(k \in QueuedAt(p)')
  BY <1>1, Finiteness, CardStep
<1>6. Cardinality(Strays(p)') = Cardinality(Strays(p)) - Bit(k \in Strays(p))
                                + Bit(k \in Strays(p)')
  BY <1>2, Finiteness, CardStep
<1>7. Cardinality(Guests(p)') = Cardinality(Guests(p)) - Bit(k \in Guests(p))
                                + Bit(k \in Guests(p)')
  BY <1>3, Finiteness, CardStep
<1>8. Cardinality(Counting(p)') = Cardinality(Counting(p)) - Bit(t \in Counting(p))
                                  + Bit(t \in Counting(p)')
  BY <1>4, Finiteness, CardStep
<1>9. \A b : Bit(b) \in Int
  BY DEF Bit
<1>10. /\ Bit(k \in QueuedAt(p)) \in Int /\ Bit(k \in QueuedAt(p)') \in Int
       /\ Bit(k \in Strays(p)) \in Int /\ Bit(k \in Strays(p)') \in Int
       /\ Bit(k \in Guests(p)) \in Int /\ Bit(k \in Guests(p)') \in Int
       /\ Bit(t \in Counting(p)) \in Int /\ Bit(t \in Counting(p)') \in Int
  BY DEF Bit
<1>11. Total(p)' = Cardinality(QueuedAt(p)') + Cardinality(Strays(p)')
                   - Cardinality(Guests(p)') - Cardinality(Counting(p)')
  BY DEF Total
<1> QED BY <1>5, <1>6, <1>7, <1>8, <1>10, <1>11, Finiteness DEF Total

----------------------------------------------------------------------------
\* Steps that put, take, start, end and count no task.

LEMMA PlaceKept ==
  ASSUME PlaceInv, UNCHANGED <<local, shard, status, at>>,
         \A u \in Threads : frame'[u].task = frame[u].task
                            /\ (pc'[u] = "start" <=> pc[u] = "start")
  PROVE  PlaceInv'
<1>1. Queue' = Queue /\ Content' = Content
  BY DEF Queue, Content
<1>2. \A q \in Queues : \A i, j \in 1..Len(Queue'[q]) : Queue'[q][i] = Queue'[q][j] => i = j
  BY <1>1 DEF PlaceInv
<1>3. \A q, r \in Queues : q # r => Content'[q] \cap Content'[r] = {}
  BY <1>1 DEF PlaceInv
<1>4. \A q \in Queues : \A k \in Content'[q] : status'[k] = "queued" /\ at'[k] = Site(q)
  BY <1>1 DEF PlaceInv
<1>5. \A q \in Queues : \A u \in Threads : frame'[u].task \notin Content'[q]
  BY <1>1 DEF PlaceInv
<1>6. \A u, v \in Threads : frame'[u].task = frame'[v].task /\ frame'[u].task # NoTask => u = v
  BY DEF PlaceInv, InTask
<1>7. \A k \in Tasks : status'[k] = "queued" =>
         \/ \E q \in Queues : k \in Content'[q]
         \/ \E u \in Threads : pc'[u] = "start" /\ frame'[u].task = k
  BY <1>1 DEF PlaceInv
<1> QED BY <1>2, <1>3, <1>4, <1>5, <1>6, <1>7 DEF PlaceInv, InTask

LEMMA Quiet ==
  ASSUME IInv, NEW t \in Threads, Others(t), Types', ControlOK(t)',
         UNCHANGED <<pending, local, shard, historyVars>>,
         pc[t] # "count", pc'[t] # "count", pc'[t] = "start" <=> pc[t] = "start",
         frame'[t].task = frame[t].task,
         Submits(frame'[t].todo) \subseteq Submits(frame[t].todo), NoneTwice(frame'[t].todo),
         Submits(frame'[t].ops) \subseteq Submits(frame[t].ops), NoneTwice(frame'[t].ops)
  PROVE  IInv'
<1> USE DEF historyVars
<1>1. \A u \in Threads : frame'[u].task = frame[u].task
                         /\ (pc'[u] = "start" <=> pc[u] = "start")
  BY DEF Others
<1>2. PlaceInv'
  BY <1>1, PlaceKept DEF IInv
<1>3. Undisturbed(t)
  BY DEF Undisturbed
<1>4. ControlInv'
  BY <1>3, ControlKept DEF IInv
<1>5. OwedInv'
  <2>1. Rest(t)' = frame'[t] /\ Rest(t) = frame[t]
    BY DEF Rest
  <2> QED BY <2>1, OwedKept DEF IInv
<1>6. HomeInv'
  BY DEF IInv, HomeInv
<1>7. CountInv'
  <2> SUFFICES ASSUME NEW p \in Pools PROVE pending'[p] = Wrap(Total(p)')
    BY DEF CountInv, Wrap
  <2>1. /\ QueuedAt(p)' = QueuedAt(p) /\ Strays(p)' = Strays(p) /\ Guests(p)' = Guests(p)
    BY DEF QueuedAt, Strays, Guests
  <2>2. Counting(p)' = Counting(p)
    <3>1. \A u \in Threads : u # t => Op(u)' = Op(u) /\ (pc'[u] = "count" <=> pc[u] = "count")
      BY DEF Others, Op, Ops, InTask
    <3> QED BY <3>1 DEF Counting
  <2> QED BY <2>1, <2>2 DEF IInv, CountInv, Total
<1> QED BY <1>2, <1>4, <1>5, <1>6, <1>7 DEF IInv

\* What the invariant says of one thread.
LEMMA Facts ==
  ASSUME IInv, NEW t \in Threads
  PROVE  /\ Types /\ OwedInv /\ PlaceInv /\ HomeInv /\ CountInv /\ ControlInv
         /\ ControlOK(t) /\ frame[t] \in Frames /\ pc[t] \in Labels
         /\ NoneTwice(frame[t].todo) /\ NoneTwice(frame[t].ops)
<1> QED BY DEF IInv, Types, ControlInv, OwedInv

\* Moves from one label to another.
LEMMA MovesInv ==
  ASSUME IInv, NEW t \in Threads, \/ Sleep(t)
                                  \/ Notice(t)
                                  \/ Leave(t)
  PROVE  IInv'
<1> USE DEF poolVars, historyVars
<1>1. PICK l \in {"asleep", "fetch", "done"} :
         pc[t] \in {"fetch", "asleep"} /\ Goto(t, l) /\ UNCHANGED <<poolVars, frame, historyVars>>
  BY DEF Sleep, Notice, Leave
<1>2. pc' \in [Threads -> Labels] /\ pc'[t] = l /\ (\A u \in Threads \ {t} : pc'[u] = pc[u])
  <2>1. l \in Labels
    BY DEF Labels
  <2> QED BY <1>1, <2>1, Facts, Moved
<1>3. Others(t)
  BY <1>1, <1>2 DEF Others
<1>4. Types'
  BY <1>1, <1>2 DEF IInv, Types
<1>5. ControlOK(t)'
  BY <1>1, <1>2, Facts DEF ControlOK, Ops, Op, InTask, Empty, Serving
<1> QED BY <1>1, <1>2, <1>3, <1>4, <1>5, Facts, Quiet

\* Operations that are done in one step.
LEMMA AdvanceInv ==
  ASSUME IInv, NEW t \in Threads, pc[t] \in {"run", "join"}, Ops(t) # <<>>,
         Advance(t), pc' = [pc EXCEPT ![t] = "run"], UNCHANGED <<poolVars, historyVars>>
  PROVE  IInv'
<1> USE DEF poolVars, historyVars
<1>1. /\ Advanced(t) \in Frames /\ Advanced(t).task = frame[t].task
      /\ Advanced(t).pool = frame[t].pool
      /\ InTask(t) => Advanced(t).todo = frame[t].todo
      /\ Submits(Advanced(t).todo) \subseteq Submits(frame[t].todo) /\ NoneTwice(Advanced(t).todo)
      /\ Submits(Advanced(t).ops) \subseteq Submits(frame[t].ops) /\ NoneTwice(Advanced(t).ops)
  BY Facts, Advancing
<1>2. /\ frame' \in [Threads -> Frames] /\ frame'[t] = Advanced(t)
      /\ \A u \in Threads \ {t} : frame'[u] = frame[u]
  BY <1>1, Facts, NewFrame DEF Advance
<1>3. pc' \in [Threads -> Labels] /\ pc'[t] = "run" /\ (\A u \in Threads \ {t} : pc'[u] = pc[u])
  BY Facts DEF Types, Labels
<1>4. Others(t) /\ Types'
  BY <1>2, <1>3 DEF Others, IInv, Types
<1>5. ControlOK(t)'
  BY <1>1, <1>2, <1>3, Facts DEF ControlOK, InTask, Empty, Serving
<1> QED BY <1>1, <1>2, <1>3, <1>4, <1>5, Quiet

LEMMA OperationsInv ==
  ASSUME IInv, NEW t \in Threads, \/ Get(t)
                                  \/ ShutdownAgain(t)
                                  \/ ShutdownReturn(t)
                                  \/ SubmitRefused(t)
  PROVE  IInv'
<1> USE DEF poolVars, historyVars
<1>1. CASE Get(t) \/ ShutdownAgain(t)
  <2>1. pc[t] = "run" /\ Ops(t) # <<>> /\ Advance(t) /\ UNCHANGED <<poolVars, pc, historyVars>>
    BY <1>1 DEF Get, ShutdownAgain, AtOp
  <2>2. pc' = [pc EXCEPT ![t] = "run"]
    BY <2>1, Facts DEF Types
  <2> QED BY <2>1, <2>2, AdvanceInv
<1>2. CASE ShutdownReturn(t)
  <2>1. pc[t] = "join" /\ Ops(t) # <<>>
    BY <1>2, Facts DEF ShutdownReturn, ControlOK
  <2> QED BY <1>2, <2>1, AdvanceInv DEF ShutdownReturn, Goto
<1>3. CASE SubmitRefused(t)
  <2>1. pc[t] = "run" /\ Ops(t) # <<>> /\ UNCHANGED <<poolVars, pc, historyVars>>
    BY <1>3 DEF SubmitRefused, AtOp
  <2>2. CASE ~InTask(t)
    <3>1. Advance(t)
      BY <1>3, <2>2 DEF SubmitRefused, Advance
    <3>2. pc' = [pc EXCEPT ![t] = "run"]
      BY <2>1, Facts DEF Types
    <3> QED BY <2>1, <3>1, <3>2, AdvanceInv
  <2>3. CASE InTask(t)
    <3> DEFINE f == [frame[t] EXCEPT !.ops = <<>>]
    <3>1. /\ f \in Frames /\ f.task = frame[t].task /\ f.pool = frame[t].pool
          /\ f.todo = frame[t].todo /\ f.ops = <<>>
      BY Facts, NoOps DEF Frames
    <3>2. frame' = [frame EXCEPT ![t] = f]
      BY <1>3, <2>3 DEF SubmitRefused
    <3> HIDE DEF f
    <3>3. /\ frame' \in [Threads -> Frames] /\ frame'[t] = f
          /\ \A u \in Threads \ {t} : frame'[u] = frame[u]
      BY <3>1, <3>2, Facts, NewFrame
    <3>4. Others(t) /\ Types'
      BY <2>1, <3>3 DEF Others, IInv, Types
    <3>5. ControlOK(t)'
      BY <2>1, <3>1, <3>3, Facts DEF ControlOK, InTask, Empty, Serving
    <3> QED BY <2>1, <3>1, <3>3, <3>4, <3>5, Facts, NoOps, Quiet
  <2> QED BY <2>2, <2>3
<1> QED BY <1>1, <1>2, <1>3

LEMMA WaitInv ==
  ASSUME IInv, NEW t \in Threads, \/ WaitBegin(t)
                                  \/ WaitReturn(t)
                                  \/ Shutdown(t)
  PROVE  IInv'
<1> USE DEF poolVars, historyVars
<1>1. CASE WaitBegin(t)
  <2>1. /\ pc[t] = "run" /\ Ops(t) # <<>> /\ Op(t)[1] = "waitIdle" /\ ~InTask(t)
        /\ frame' = [frame EXCEPT ![t].pool = Op(t)[2]] /\ Goto(t, "drain")
        /\ UNCHANGED <<poolVars, historyVars>>
    BY <1>1 DEF WaitBegin, AtOp
  <2>2. Op(t)[2] \in Pools
    BY <2>1, Facts, Advancing, OpKinds
  <2> DEFINE f == [frame[t] EXCEPT !.pool = Op(t)[2]]
  <2>3. /\ f \in Frames /\ f.task = frame[t].task /\ f.pool = Op(t)[2]
        /\ f.todo = frame[t].todo /\ f.ops = frame[t].ops
    BY <2>2, Facts DEF Frames
  <2>4. frame' = [frame EXCEPT ![t] = f]
    BY <2>1, Facts DEF Types
  <2> HIDE DEF f
  <2>5. /\ frame' \in [Threads -> Frames] /\ frame'[t] = f
        /\ \A u \in Threads \ {t} : frame'[u] = frame[u]
    BY <2>3, <2>4, Facts, NewFrame
  <2>6. pc' \in [Threads -> Labels] /\ pc'[t] = "drain"
        /\ (\A u \in Threads \ {t} : pc'[u] = pc[u])
    BY <2>1, Facts, Moved DEF Labels
  <2>7. Others(t) /\ Types'
    BY <2>1, <2>5, <2>6 DEF Others, IInv, Types
  <2>8. t \notin Workers /\ frame[t].todo # <<>>
    BY <2>1, Facts DEF ControlOK, Ops
  <2>9. ControlOK(t)'
    BY <2>1, <2>2, <2>3, <2>5, <2>6, <2>8, Facts DEF ControlOK, InTask, Empty, Serving
  <2> QED BY <2>1, <2>3, <2>5, <2>6, <2>7, <2>9, Facts, Quiet
<1>2. CASE WaitReturn(t)
  <2>1. /\ pc[t] = "drain" /\ frame' = [frame EXCEPT ![t] = [Advanced(t) EXCEPT !.pool = NoPool]]
        /\ Goto(t, "run") /\ UNCHANGED <<poolVars, historyVars>>
    BY <1>2 DEF WaitReturn
  <2>2. t \notin Workers /\ ~InTask(t) /\ Ops(t) # <<>>
    BY <2>1, Facts, Sizes DEF ControlOK, Empty, Serving, Ops
  <2> DEFINE f == [Advanced(t) EXCEPT !.pool = NoPool]
  <2>3. /\ Advanced(t) \in Frames /\ Advanced(t).task = frame[t].task
        /\ Submits(Advanced(t).todo) \subseteq Submits(frame[t].todo)
        /\ NoneTwice(Advanced(t).todo)
        /\ Submits(Advanced(t).ops) \subseteq Submits(frame[t].ops) /\ NoneTwice(Advanced(t).ops)
    BY <2>2, Facts, Advancing
  <2>4. /\ f \in Frames /\ f.task = frame[t].task /\ f.pool = NoPool
        /\ f.todo = Advanced(t).todo /\ f.ops = Advanced(t).ops
    BY <2>3 DEF Frames
  <2>5. frame' = [frame EXCEPT ![t] = f]
    BY <2>1
  <2> HIDE DEF f
  <2>6. /\ frame' \in [Threads -> Frames] /\ frame'[t] = f
        /\ \A u \in Threads \ {t} : frame'[u] = frame[u]
    BY <2>4, <2>5, Facts, NewFrame
  <2>7. pc' \in [Threads -> Labels] /\ pc'[t] = "run"
        /\ (\A u \in Threads \ {t} : pc'[u] = pc[u])
    BY <2>1, Facts, Moved DEF Labels
  <2>8. Others(t) /\ Types'
    BY <2>1, <2>6, <2>7 DEF Others, IInv, Types
  <2>9. ControlOK(t)'
    BY <2>1, <2>2, <2>4, <2>6, <2>7 DEF ControlOK, InTask, Empty, Serving
  <2> QED BY <2>1, <2>3, <2>4, <2>6, <2>7, <2>8, <2>9, Quiet
<1>3. CASE Shutdown(t)
  <2> DEFINE p == Op(t)[2]
  <2>1. /\ pc[t] = "run" /\ Ops(t) # <<>> /\ Op(t)[1] = "shutdown"
        /\ runState' = [runState EXCEPT ![p] = Op(t)[3]]
        /\ pc' = [u \in Threads |-> IF u = t THEN "join"
                                    ELSE IF u \in Asleep(p) THEN "fetch" ELSE pc[u]]
        /\ UNCHANGED <<pending, active, local, shard, frame, historyVars>>
    BY <1>3 DEF Shutdown, AtOp
  <2>2. p \in Pools /\ Op(t)[3] \in {"Finish", "Discard"}
    BY <2>1, Facts, Advancing, OpKinds
  <2> HIDE DEF p
  <2>3. /\ pc' \in [Threads -> Labels] /\ pc'[t] = "join"
        /\ \A u \in Threads \ {t} : pc'[u] = pc[u] \/ (pc[u] = "asleep" /\ pc'[u] = "fetch")
    BY <2>1, Facts DEF Types, Labels, Asleep
  <2>4. Others(t)
    BY <2>1, <2>3 DEF Others
  <2>5. runState' \in [Pools -> {"Running", "Finish", "Discard"}]
    BY <2>1, <2>2, Facts DEF Types
  <2>6. Types'
    BY <2>1, <2>3, <2>5 DEF IInv, Types
  <2>7. ControlOK(t)'
    BY <2>1, <2>3, Facts DEF ControlOK, Ops, InTask, Empty, Serving
  <2> QED BY <2>1, <2>3, <2>4, <2>6, <2>7, Facts, Quiet
<1> QED BY <1>1, <1>2, <1>3

----------------------------------------------------------------------------
\* A task joins a queue, or leaves it.

LEMMA Appended ==
  ASSUME NEW s \in Seq(Tasks), NEW k \in Tasks,
         \A i \in 1..Len(s) : s[i] # k,
         \A i, j \in 1..Len(s) : s[i] = s[j] => i = j
  PROVE  LET r == Append(s, k)
         IN  /\ r \in Seq(Tasks)
             /\ {r[i] : i \in 1..Len(r)} = {s[i] : i \in 1..Len(s)} \cup {k}
             /\ \A i, j \in 1..Len(r) : r[i] = r[j] => i = j
<1> DEFINE r == Append(s, k)
<1>1. /\ r \in Seq(Tasks) /\ Len(s) \in Nat /\ Len(r) = Len(s) + 1 /\ r[Len(s) + 1] = k
      /\ \A i \in 1..Len(s) : r[i] = s[i]
  OBVIOUS
<1> HIDE DEF r
<1>2. 1..Len(r) = 1..Len(s) \cup {Len(s) + 1}
  BY <1>1
<1>3. {r[i] : i \in 1..Len(r)} = {s[i] : i \in 1..Len(s)} \cup {k}
  BY <1>1, <1>2
<1>4. \A i, j \in 1..Len(r) : r[i] = r[j] => i = j
  BY <1>1, <1>2
<1> QED BY <1>1, <1>3, <1>4 DEF r

\* r is s without its task k.
Taken(s, r, k) ==
    /\ r \in Seq(Tasks) /\ k \in {s[i] : i \in 1..Len(s)}
    /\ {r[i] : i \in 1..Len(r)} = {s[i] : i \in 1..Len(s)} \ {k}
    /\ \A i, j \in 1..Len(r) : r[i] = r[j] => i = j

LEMMA TakenFirst ==
  ASSUME NEW s \in Seq(Tasks), s # <<>>,
         \A i, j \in 1..Len(s) : s[i] = s[j] => i = j
  PROVE  Taken(s, Tail(s), Head(s))
<1> DEFINE r == Tail(s)
<1>1. /\ r \in Seq(Tasks) /\ Len(s) \in Nat \ {0} /\ Len(r) = Len(s) - 1 /\ Head(s) = s[1]
      /\ \A i \in 1..Len(r) : r[i] = s[i + 1]
  BY HeadTailProperties, EmptySeq
<1> HIDE DEF r
<1>2. \A i \in 1..Len(r) : i + 1 \in 1..Len(s) /\ i + 1 # 1 /\ r[i] = s[i + 1]
  BY <1>1
<1>3. \A i \in 1..Len(s) : i # 1 => i - 1 \in 1..Len(r) /\ r[i - 1] = s[i]
  BY <1>1
<1>4. {r[i] : i \in 1..Len(r)} = {s[i] : i \in 1..Len(s)} \ {Head(s)}
  <2>1. 1 \in 1..Len(s)
    BY <1>1
  <2>2. ASSUME NEW i \in 1..Len(r)
        PROVE  r[i] \in {s[j] : j \in 1..Len(s)} /\ r[i] # s[1]
    BY <1>2, <2>1
  <2>3. ASSUME NEW i \in 1..Len(s), s[i] # s[1]
        PROVE  s[i] \in {r[j] : j \in 1..Len(r)}
    BY <1>3, <2>3
  <2>4. \A x : x \in {r[i] : i \in 1..Len(r)} <=> x \in {s[i] : i \in 1..Len(s)} /\ x # s[1]
    BY <2>2, <2>3
  <2> QED BY <1>1, <2>4
<1>5. \A i, j \in 1..Len(r) : r[i] = r[j] => i = j
  <2> SUFFICES ASSUME NEW i \in 1..Len(r), NEW j \in 1..Len(r), r[i] = r[j] PROVE i = j
    OBVIOUS
  <2>1. i + 1 = j + 1
    BY <1>2
  <2> QED BY <1>1, <2>1
<1>6. Head(s) \in {s[i] : i \in 1..Len(s)}
  BY <1>1
<1> QED BY <1>1, <1>4, <1>5, <1>6 DEF r, Taken

LEMMA TakenLast ==
  ASSUME NEW s \in Seq(Tasks), s # <<>>,
         \A i, j \in 1..Len(s) : s[i] = s[j] => i = j
  PROVE  Taken(s, SubSeq(s, 1, Len(s) - 1), s[Len(s)])
<1> DEFINE r == SubSeq(s, 1, Len(s) - 1)
<1>1. Len(s) \in Nat \ {0} /\ (\A i \in 1..(Len(s) - 1) : s[i] \in Tasks)
  BY EmptySeq, LenProperties
<1>2. /\ r \in Seq(Tasks) /\ Len(r) = Len(s) - 1
      /\ \A i \in 1..Len(r) : r[i] = s[i]
  <2> DEFINE n == Len(s) - 1
  <2>1. n \in Nat /\ (\A i \in 1..n : s[i] \in Tasks)
    BY <1>1
  <2> HIDE DEF n
  <2>2. /\ SubSeq(s, 1, n) \in Seq(Tasks)
        /\ Len(SubSeq(s, 1, n)) = IF 1 <= n THEN n - 1 + 1 ELSE 0
        /\ \A i \in 1..(n - 1 + 1) : SubSeq(s, 1, n)[i] = s[1 + i - 1]
    BY <2>1, SubSeqProperties
  <2>3. Len(SubSeq(s, 1, n)) = n /\ n - 1 + 1 = n
    BY <2>1, <2>2
  <2>4. \A i \in 1..n : 1 + i - 1 = i
    BY <2>1
  <2> QED BY <2>2, <2>3, <2>4 DEF n
<1> HIDE DEF r
<1>3. 1..Len(s) = 1..Len(r) \cup {Len(s)} /\ Len(s) \notin 1..Len(r)
  BY <1>1, <1>2
<1>4. {r[i] : i \in 1..Len(r)} = {s[i] : i \in 1..Len(s)} \ {s[Len(s)]}
  BY <1>2, <1>3
<1>5. \A i, j \in 1..Len(r) : r[i] = r[j] => i = j
  BY <1>2, <1>3
<1>6. s[Len(s)] \in {s[i] : i \in 1..Len(s)}
  BY <1>3
<1> QED BY <1>2, <1>4, <1>5, <1>6 DEF r, Taken

LEMMA QueueTypes ==
  ASSUME Types, NEW q \in Queues
  PROVE  /\ Queue[q] \in Seq(Tasks) /\ Content[q] \subseteq Tasks
         /\ Content[q] = {Queue[q][i] : i \in 1..Len(Queue[q])}
         /\ Content'[q] = {Queue'[q][i] : i \in 1..Len(Queue'[q])}
<1>1. \/ q[1] = "local" /\ q[2] \in Workers
      \/ q[1] = "shard" /\ q[2] \in Pools
  BY DEF Queues
<1>2. Queue[q] \in Seq(Tasks)
  BY <1>1 DEF Types, Queue
<1> QED BY <1>2, ElementOfSeq DEF Content

\* The queue that changes, in terms of all of them.
LEMMA OneQueue ==
  ASSUME Types
  PROVE  /\ \A w \in Workers : \A s : local' = [local EXCEPT ![w] = s] /\ UNCHANGED shard =>
               LET q == <<"local", w>>
               IN  /\ q \in Queues /\ Queue[q] = local[w] /\ Queue'[q] = s
                   /\ Site(q) = PoolOf(w) /\ \A r \in Queues \ {q} : Queue'[r] = Queue[r]
         /\ \A p \in Pools : \A s : shard' = [shard EXCEPT ![p] = s] /\ UNCHANGED local =>
               LET q == <<"shard", p>>
               IN  /\ q \in Queues /\ Queue[q] = shard[p] /\ Queue'[q] = s
                   /\ Site(q) = p /\ \A r \in Queues \ {q} : Queue'[r] = Queue[r]
<1>1. \A r \in Queues : \/ r[1] = "local" /\ r[2] \in Workers /\ r = <<"local", r[2]>>
                        \/ r[1] = "shard" /\ r[2] \in Pools /\ r = <<"shard", r[2]>>
  BY DEF Queues
<1>2. ASSUME NEW w \in Workers, NEW s, local' = [local EXCEPT ![w] = s], UNCHANGED shard
      PROVE  LET q == <<"local", w>>
             IN  /\ q \in Queues /\ Queue[q] = local[w] /\ Queue'[q] = s
                 /\ Site(q) = PoolOf(w) /\ \A r \in Queues \ {q} : Queue'[r] = Queue[r]
  <2> DEFINE q == <<"local", w>>
  <2>1. q \in Queues /\ q[1] = "local" /\ q[2] = w
    BY DEF Queues
  <2>2. Queue[q] = local[w] /\ Queue'[q] = s /\ Site(q) = PoolOf(w)
    BY <1>2, <2>1 DEF Queue, Types, Site
  <2>3. ASSUME NEW r \in Queues \ {q} PROVE Queue'[r] = Queue[r]
    BY <1>1, <1>2 DEF Queue, Types
  <2> QED BY <2>1, <2>2, <2>3
<1>3. ASSUME NEW p \in Pools, NEW s, shard' = [shard EXCEPT ![p] = s], UNCHANGED local
      PROVE  LET q == <<"shard", p>>
             IN  /\ q \in Queues /\ Queue[q] = shard[p] /\ Queue'[q] = s
                 /\ Site(q) = p /\ \A r \in Queues \ {q} : Queue'[r] = Queue[r]
  <2> DEFINE q == <<"shard", p>>
  <2>1. q \in Queues /\ q[1] = "shard" /\ q[2] = p
    BY DEF Queues
  <2>2. Queue[q] = shard[p] /\ Queue'[q] = s /\ Site(q) = p
    BY <1>3, <2>1 DEF Queue, Types, Site
  <2>3. ASSUME NEW r \in Queues \ {q} PROVE Queue'[r] = Queue[r]
    BY <1>1, <1>3 DEF Queue, Types
  <2> QED BY <2>1, <2>2, <2>3
<1> QED BY <1>2, <1>3

\* A task that no queue and no thread has joins a queue.
LEMMA PlacePush ==
  ASSUME Types, PlaceInv, NEW q \in Queues, NEW k \in Tasks,
         Queue'[q] = Append(Queue[q], k), \A r \in Queues \ {q} : Queue'[r] = Queue[r],
         status[k] = "unsubmitted", \A u \in Threads : frame[u].task # k, UNCHANGED frame,
         status'[k] = "queued", at'[k] = Site(q),
         \A j \in Tasks \ {k} : status'[j] = status[j] /\ at'[j] = at[j],
         \A u \in Threads : pc'[u] = "start" <=> pc[u] = "start"
  PROVE  PlaceInv'
<1>1. \A r \in Queues : Content[r] \subseteq Tasks /\ k \notin Content[r]
  BY QueueTypes DEF PlaceInv
<1>2. /\ Content'[q] = Content[q] \cup {k}
      /\ \A i, j \in 1..Len(Queue'[q]) : Queue'[q][i] = Queue'[q][j] => i = j
  <2>1. /\ Queue[q] \in Seq(Tasks) /\ \A i \in 1..Len(Queue[q]) : Queue[q][i] # k
        /\ \A i, j \in 1..Len(Queue[q]) : Queue[q][i] = Queue[q][j] => i = j
    BY <1>1, QueueTypes DEF PlaceInv
  <2> DEFINE r == Append(Queue[q], k)
  <2>2. /\ {r[i] : i \in 1..Len(r)} = {Queue[q][i] : i \in 1..Len(Queue[q])} \cup {k}
        /\ \A i, j \in 1..Len(r) : r[i] = r[j] => i = j
    BY <2>1, Appended
  <2>3. /\ Content[q] = {Queue[q][i] : i \in 1..Len(Queue[q])}
        /\ Content'[q] = {r[i] : i \in 1..Len(r)} /\ Queue'[q] = r
    BY QueueTypes
  <2> HIDE DEF r
  <2> QED BY <2>2, <2>3
<1>3. \A r \in Queues \ {q} : Content'[r] = Content[r]
  BY DEF Content
<1>4. ASSUME NEW r \in Queues
      PROVE  \A i, j \in 1..Len(Queue'[r]) : Queue'[r][i] = Queue'[r][j] => i = j
  <2>1. CASE r = q
    BY <1>2, <2>1
  <2>2. CASE r # q
    BY <2>2 DEF PlaceInv
  <2> QED BY <2>1, <2>2
<1>5. \A r, s \in Queues : r # s => Content'[r] \cap Content'[s] = {}
  BY <1>1, <1>2, <1>3 DEF PlaceInv
<1>6. \A r \in Queues : \A j \in Content'[r] : status'[j] = "queued" /\ at'[j] = Site(r)
  BY <1>1, <1>2, <1>3 DEF PlaceInv
<1>7. \A r \in Queues : \A u \in Threads : frame'[u].task \notin Content'[r]
  BY <1>2, <1>3 DEF PlaceInv
<1>8. \A u, v \in Threads : frame'[u].task = frame'[v].task /\ frame'[u].task # NoTask => u = v
  BY DEF PlaceInv, InTask
<1>9. \A j \in Tasks : status'[j] = "queued" =>
         \/ \E r \in Queues : j \in Content'[r]
         \/ \E u \in Threads : pc'[u] = "start" /\ frame'[u].task = j
  BY <1>2, <1>3 DEF PlaceInv
<1> QED BY <1>4, <1>5, <1>6, <1>7, <1>8, <1>9 DEF PlaceInv, InTask

\* A thread takes a task from a queue.
LEMMA PlaceTake ==
  ASSUME Types, PlaceInv, NEW t \in Threads, NEW q \in Queues, NEW k \in Content[q],
         Content'[q] = Content[q] \ {k},
         \A i, j \in 1..Len(Queue'[q]) : Queue'[q][i] = Queue'[q][j] => i = j,
         \A r \in Queues \ {q} : Queue'[r] = Queue[r], UNCHANGED <<status, at>>,
         frame[t].task = NoTask, frame'[t].task = k, pc'[t] = "start",
         \A u \in Threads \ {t} : frame'[u] = frame[u] /\ pc'[u] = pc[u]
  PROVE  PlaceInv'
<1>1. \A r \in Queues \ {q} : Content'[r] = Content[r]
  BY DEF Content
<1>2. \A r \in Queues : k \notin Content'[r] /\ Content'[r] \subseteq Content[r]
  BY <1>1 DEF PlaceInv
<1>3. \A u \in Threads \ {t} : frame'[u].task = frame[u].task /\ frame[u].task # k
  BY DEF PlaceInv
<1>4. k \in Tasks /\ k # NoTask
  BY QueueTypes, Sizes
<1>5. \A r \in Queues : \A i, j \in 1..Len(Queue'[r]) : Queue'[r][i] = Queue'[r][j] => i = j
  BY DEF PlaceInv
<1>6. \A r, s \in Queues : r # s => Content'[r] \cap Content'[s] = {}
  BY <1>2 DEF PlaceInv
<1>7. \A r \in Queues : \A j \in Content'[r] : status'[j] = "queued" /\ at'[j] = Site(r)
  BY <1>2 DEF PlaceInv
<1>8. \A r \in Queues : \A u \in Threads : frame'[u].task \notin Content'[r]
  BY <1>2, <1>3 DEF PlaceInv
<1>9. \A u, v \in Threads : frame'[u].task = frame'[v].task /\ frame'[u].task # NoTask => u = v
  BY <1>3 DEF PlaceInv, InTask
<1>10. ASSUME NEW j \in Tasks, status'[j] = "queued"
       PROVE  \/ \E r \in Queues : j \in Content'[r]
              \/ \E u \in Threads : pc'[u] = "start" /\ frame'[u].task = j
  <2>1. CASE j = k
    BY <2>1
  <2>2. CASE j # k
    <3>1. \/ \E r \in Queues : j \in Content[r]
          \/ \E u \in Threads : pc[u] = "start" /\ frame[u].task = j
      BY <1>10 DEF PlaceInv
    <3>2. CASE \E r \in Queues : j \in Content[r]
      BY <1>1, <2>2, <3>2
    <3>3. ASSUME NEW u \in Threads, pc[u] = "start", frame[u].task = j
          PROVE  pc'[u] = "start" /\ frame'[u].task = j
      BY <3>3, Sizes
    <3> QED BY <3>1, <3>2, <3>3
  <2> QED BY <2>1, <2>2
<1> QED BY <1>5, <1>6, <1>7, <1>8, <1>9, <1>10 DEF PlaceInv, InTask

\* A thread starts the task that it has, or ends it.
LEMMA PlaceRun ==
  ASSUME Types, PlaceInv, NEW t \in Threads, NEW k \in Tasks, frame[t].task = k,
         UNCHANGED <<local, shard, at>>, frame'[t].task \in {k, NoTask}, status'[k] # "queued",
         \A j \in Tasks \ {k} : status'[j] = status[j],
         \A u \in Threads \ {t} : frame'[u] = frame[u] /\ pc'[u] = pc[u]
  PROVE  PlaceInv'
<1>1. Queue' = Queue /\ Content' = Content
  BY DEF Queue, Content
<1>2. \A q \in Queues : k \notin Content[q] /\ NoTask \notin Content[q] /\ Content[q] \subseteq Tasks
  BY QueueTypes, Sizes DEF PlaceInv
<1>3. \A q \in Queues : \A i, j \in 1..Len(Queue'[q]) : Queue'[q][i] = Queue'[q][j] => i = j
  BY <1>1 DEF PlaceInv
<1>4. \A q, r \in Queues : q # r => Content'[q] \cap Content'[r] = {}
  BY <1>1 DEF PlaceInv
<1>5. \A q \in Queues : \A j \in Content'[q] : status'[j] = "queued" /\ at'[j] = Site(q)
  BY <1>1, <1>2 DEF PlaceInv
<1>6. \A q \in Queues : \A u \in Threads : frame'[u].task \notin Content'[q]
  BY <1>1, <1>2 DEF PlaceInv
<1>7. \A u, v \in Threads : frame'[u].task = frame'[v].task /\ frame'[u].task # NoTask => u = v
  BY DEF PlaceInv, InTask
<1>8. \A j \in Tasks : status'[j] = "queued" =>
         \/ \E q \in Queues : j \in Content'[q]
         \/ \E u \in Threads : pc'[u] = "start" /\ frame'[u].task = j
  BY <1>1 DEF PlaceInv
<1> QED BY <1>3, <1>4, <1>5, <1>6, <1>7, <1>8 DEF PlaceInv, InTask

----------------------------------------------------------------------------
\* submit(): the push, and the count.

LEMMA SubmitPushInv ==
  ASSUME IInv, NEW t \in Threads, SubmitPush(t)
  PROVE  IInv'
<1> DEFINE p == Op(t)[2]
           k == Op(t)[3]
           q == IF t \in Workers THEN <<"local", t>> ELSE <<"shard", p>>
<1>1. /\ pc[t] = "run" /\ Ops(t) # <<>> /\ Op(t)[1] = "submit" /\ Goto(t, "count")
      /\ Push(t, p, k) /\ status' = [status EXCEPT ![k] = "queued"]
      /\ home' = [home EXCEPT ![k] = p] /\ at' = [at EXCEPT ![k] = Receiver(t, p)]
      /\ UNCHANGED <<runState, pending, active, frame>>
  BY DEF SubmitPush, AtOp
<1>2. p \in Pools /\ k \in Tasks /\ Op(t) = <<"submit", p, k>>
  BY <1>1, Facts, Advancing, OpKinds
<1> HIDE DEF p, k
<1>3. /\ q \in Queues /\ Queue'[q] = Append(Queue[q], k) /\ Site(q) = Receiver(t, p)
      /\ \A r \in Queues \ {q} : Queue'[r] = Queue[r]
  <2>1. CASE t \in Workers
    <3>1. local' = [local EXCEPT ![t] = Append(local[t], k)] /\ UNCHANGED shard
      BY <1>1, <2>1, Facts DEF Push, Types
    <3>2. q = <<"local", t>> /\ Receiver(t, p) = PoolOf(t)
      BY <2>1 DEF Receiver
    <3> HIDE DEF q
    <3> QED BY <2>1, <3>1, <3>2, Facts, OneQueue
  <2>2. CASE t \notin Workers
    <3>1. shard' = [shard EXCEPT ![p] = Append(shard[p], k)] /\ UNCHANGED local
      BY <1>1, <1>2, <2>2, Facts DEF Push, Types
    <3>2. q = <<"shard", p>> /\ Receiver(t, p) = p
      BY <2>2 DEF Receiver
    <3> HIDE DEF q
    <3> QED BY <1>2, <3>1, <3>2, Facts, OneQueue
  <2> QED BY <2>1, <2>2
<1>4. local' \in [Workers -> Seq(Tasks)] /\ shard' \in [Pools -> Seq(Tasks)]
  <2>1. \A s \in Seq(Tasks) : Append(s, k) \in Seq(Tasks)
    BY <1>2
  <2>2. local \in [Workers -> Seq(Tasks)] /\ shard \in [Pools -> Seq(Tasks)]
    BY Facts DEF Types
  <2>3. CASE t \in Workers
    <3>1. local' = [local EXCEPT ![t] = Append(local[t], k)] /\ shard' = shard
      BY <1>1, <2>2, <2>3 DEF Push
    <3>2. Append(local[t], k) \in Seq(Tasks)
      BY <2>1, <2>2, <2>3
    <3> QED BY <2>2, <3>1, <3>2
  <2>4. CASE t \notin Workers
    <3>1. shard' = [shard EXCEPT ![p] = Append(shard[p], k)] /\ local' = local
      BY <1>1, <1>2, <2>2, <2>4 DEF Push
    <3>2. Append(shard[p], k) \in Seq(Tasks)
      BY <1>2, <2>1, <2>2
    <3> QED BY <2>2, <3>1, <3>2
  <2> QED BY <2>3, <2>4
<1>5. Receiver(t, p) \in Pools
  BY <1>2, OnePool DEF Receiver
<1> HIDE DEF q
<1>6. /\ Advanced(t) \in Frames
      /\ Submits(Advanced(t).todo) \subseteq Submits(frame[t].todo)
      /\ Submits(Advanced(t).ops) \subseteq Submits(frame[t].ops)
      /\ \/ InTask(t) /\ k \in Submits(frame[t].ops) /\ k \notin Submits(Advanced(t).ops)
         \/ ~InTask(t) /\ k \in Submits(frame[t].todo) /\ k \notin Submits(Advanced(t).todo)
  BY <1>1, <1>2, Facts, Advancing
<1>7. pc' \in [Threads -> Labels] /\ pc'[t] = "count"
      /\ (\A u \in Threads \ {t} : pc'[u] = pc[u])
  BY <1>1, Facts, Moved DEF Labels
<1>8. Others(t)
  BY <1>1, <1>7 DEF Others
<1>9. Rest(t) = frame[t] /\ Rest(t)' = Advanced(t)
  BY <1>1, <1>7 DEF Rest, Advanced, InTask
<1> DEFINE c == IF InTask(t) THEN <<"ops", t>> ELSE <<"todo", t>>
<1>10. c \in Owners /\ k \in Owed[c] /\ k \notin Owed'[c]
  <2>1. c \in Owners
    BY DEF Owners
  <2>2. CASE InTask(t)
    <3>1. Owed[c] = Submits(frame[t].ops) /\ Owed'[c] = Submits(Advanced(t).ops)
      BY <1>9, <2>1, <2>2 DEF Owed
    <3> QED BY <1>6, <2>1, <2>2, <3>1
  <2>3. CASE ~InTask(t)
    <3>1. Owed[c] = Submits(frame[t].todo) /\ Owed'[c] = Submits(Advanced(t).todo)
      BY <1>9, <2>1, <2>3 DEF Owed
    <3> QED BY <1>6, <2>1, <2>3, <3>1
  <2> QED BY <2>2, <2>3
<1> HIDE DEF c
<1>11. status[k] = "unsubmitted" /\ (\A o \in Owners \ {c} : k \notin Owed[o])
  BY <1>10, Facts DEF OwedInv
<1>12. home[k] = NoPool /\ at[k] = NoPool
  BY <1>2, <1>11, Facts DEF HomeInv
<1>13. /\ status'[k] = "queued" /\ home'[k] = p /\ at'[k] = Site(q)
       /\ \A j \in Tasks \ {k} : status'[j] = status[j] /\ home'[j] = home[j] /\ at'[j] = at[j]
  BY <1>1, <1>2, <1>3, Facts DEF Types
<1>14. \A u \in Threads : frame[u].task # k
  <2> SUFFICES ASSUME NEW u \in Threads, frame[u].task = k PROVE FALSE
    OBVIOUS
  <2>1. ControlOK(u) /\ frame[u].task # NoTask
    BY <1>2, Facts, Sizes
  <2> QED BY <1>11, <2>1 DEF ControlOK, InTask
<1>15. Types'
  <2>1. /\ status' \in [Tasks -> {"unsubmitted", "queued", "running", "done"}]
        /\ home' \in [Tasks -> Pools \cup {NoPool}]
    BY <1>1, <1>2, Facts DEF Types
  <2>2. at' \in [Tasks -> Pools \cup {NoPool}]
    BY <1>1, <1>5, Facts DEF Types
  <2> QED BY <1>1, <1>4, <1>7, <2>1, <2>2 DEF IInv, Types
<1>16. Undisturbed(t)
  <2> SUFFICES ASSUME NEW u \in Threads \ {t}, InTask(u)
               PROVE  status'[frame[u].task] = status[frame[u].task]
                      /\ at'[frame[u].task] = at[frame[u].task]
    BY DEF Undisturbed
  <2>1. frame[u].task \in Tasks \ {k}
    BY <1>14, Facts, Fields DEF InTask
  <2> QED BY <1>13, <2>1
<1>17. ControlOK(t)'
  <2>1. Ops(t)' = Ops(t) /\ Op(t)' = Op(t) /\ InTask(t)' = InTask(t)
    BY <1>1 DEF Ops, Op, InTask
  <2>2. InTask(t) => status'[frame[t].task] = "running"
    <3>1. InTask(t) => frame[t].task \in Tasks \ {k} /\ status[frame[t].task] = "running"
      BY <1>1, <1>14, Facts, Fields DEF InTask, ControlOK
    <3> QED BY <1>13, <3>1
  <2>3. (t \in Workers => frame[t].pool = PoolOf(t) /\ InTask(t))
        /\ (InTask(t) => frame[t].pool \in Pools)
        /\ (t \notin Workers /\ frame[t].pool # NoPool => frame[t].todo # <<>> /\ InTask(t))
    BY <1>1, Facts DEF ControlOK
  <2> QED BY <1>1, <1>2, <1>7, <2>1, <2>2, <2>3 DEF ControlOK, Empty, Serving
<1>18. ControlInv'
  BY <1>8, <1>16, <1>17, Facts, ControlKept
<1>19. OwedInv'
  <2>1. \A o \in Owners : k \notin Owed'[o]
    <3> SUFFICES ASSUME NEW o \in Owners \ {c} PROVE k \notin Owed'[o]
      BY <1>10
    <3>1. \/ o[1] = "todo" /\ o[2] \in Threads
          \/ o[1] = "ops" /\ o[2] \in Threads
          \/ o[1] = "body" /\ o[2] \in Tasks
      BY OwnerKinds
    <3>2. \A u \in Threads : Submits(Rest(u)'.todo) \subseteq Submits(Rest(u).todo)
                             /\ Submits(Rest(u)'.ops) \subseteq Submits(Rest(u).ops)
      BY <1>6, <1>8, <1>9, RestKept
    <3>3. CASE o[1] = "todo"
      BY <1>11, <3>1, <3>2, <3>3 DEF Owed
    <3>4. CASE o[1] = "ops"
      BY <1>11, <3>1, <3>2, <3>4 DEF Owed
    <3>5. CASE o[1] = "body"
      <4>1. status'[o[2]] \notin {"running", "done"} => status[o[2]] \notin {"running", "done"}
        BY <1>11, <1>13, <3>1, <3>5
      <4> QED BY <1>11, <3>1, <3>5, <4>1 DEF Owed
    <3> QED BY <3>1, <3>3, <3>4, <3>5
  <2>2. \A j \in Tasks : status[j] \in {"running", "done"} => status'[j] \in {"running", "done"}
    BY <1>11, <1>13
  <2>3. \A j \in Tasks : status[j] = "unsubmitted" /\ status'[j] # "unsubmitted" => j = k
    BY <1>13
  <2> QED BY <1>1, <1>6, <1>8, <1>9, <2>1, <2>2, <2>3, Facts, OwedKept
<1>20. PlaceInv'
  <2>1. \A u \in Threads : pc'[u] = "start" <=> pc[u] = "start"
    BY <1>1, <1>7
  <2> QED BY <1>1, <1>2, <1>3, <1>11, <1>13, <1>14, <2>1, Facts, PlacePush
<1>21. HomeInv'
  BY <1>13, Facts DEF HomeInv
<1>22. CountInv'
  <2> SUFFICES ASSUME NEW x \in Pools PROVE pending'[x] = Wrap(Total(x)')
    BY DEF CountInv, Wrap
  <2>1. /\ k \notin QueuedAt(x) /\ k \notin Strays(x) /\ k \notin Guests(x)
        /\ k \in QueuedAt(x)' <=> x = Site(q)
        /\ k \in Strays(x)' <=> x = p /\ x # Site(q)
        /\ k \in Guests(x)' <=> x # p /\ x = Site(q)
    BY <1>2, <1>11, <1>12, <1>13, Sizes DEF QueuedAt, Strays, Guests
  <2>2. t \notin Counting(x) /\ (t \in Counting(x)' <=> x = p)
    <3>1. Op(t)' = Op(t) /\ Op(t)[2] = p
      BY <1>1, <1>2 DEF Op, Ops, InTask
    <3> QED BY <1>1, <1>7, <3>1 DEF Counting
  <2>3. Total(x)' = Total(x) + Bit(k \in QueuedAt(x)') - Bit(k \in QueuedAt(x))
                    + Bit(k \in Strays(x)') - Bit(k \in Strays(x))
                    - Bit(k \in Guests(x)') + Bit(k \in Guests(x))
                    - Bit(t \in Counting(x)') + Bit(t \in Counting(x))
    BY <1>8, <1>13, Totals
  <2>4. Total(x)' = Total(x)
    BY <2>1, <2>2, <2>3, Finiteness DEF Bit
  <2> QED BY <1>1, <2>4, Facts DEF CountInv
<1> QED BY <1>15, <1>18, <1>19, <1>20, <1>21, <1>22 DEF IInv

LEMMA SubmitCountInv ==
  ASSUME IInv, NEW t \in Threads, SubmitCount(t)
  PROVE  IInv'
<1> USE DEF historyVars
<1> DEFINE p == Op(t)[2]
<1>1. /\ pc[t] = "count" /\ pending' = [pending EXCEPT ![p] = Wrap(@ + 1)] /\ Advance(t)
      /\ UNCHANGED <<runState, active, local, shard, historyVars>>
      /\ \/ Goto(t, "run")
         \/ \E w \in Asleep(p) : pc' = [pc EXCEPT ![t] = "run", ![w] = "fetch"]
  BY DEF SubmitCount
<1>2. p \in Pools /\ Ops(t) # <<>>
  BY <1>1, Facts DEF ControlOK
<1> HIDE DEF p
<1>3. /\ pc' \in [Threads -> Labels] /\ pc'[t] = "run"
      /\ \A u \in Threads \ {t} : pc'[u] = pc[u] \/ (pc[u] = "asleep" /\ pc'[u] = "fetch")
  <2>1. CASE Goto(t, "run")
    BY <2>1, Facts, Moved DEF Labels
  <2>2. ASSUME NEW w \in Asleep(p), pc' = [pc EXCEPT ![t] = "run", ![w] = "fetch"]
        PROVE  /\ pc' \in [Threads -> Labels] /\ pc'[t] = "run"
               /\ \A u \in Threads \ {t} : pc'[u] = pc[u] \/ (pc[u] = "asleep" /\ pc'[u] = "fetch")
    <3>1. w # t /\ pc[w] = "asleep"
      BY <1>1, <2>2 DEF Asleep
    <3> QED BY <2>2, <3>1, Facts DEF Types, Labels
  <2> QED BY <1>1, <2>1, <2>2
<1>4. /\ Advanced(t) \in Frames /\ Advanced(t).task = frame[t].task
      /\ Advanced(t).pool = frame[t].pool
      /\ InTask(t) => Advanced(t).todo = frame[t].todo
      /\ NoneTwice(Advanced(t).todo) /\ NoneTwice(Advanced(t).ops)
  BY <1>2, Facts, Advancing
<1>5. /\ frame' \in [Threads -> Frames] /\ frame'[t] = Advanced(t)
      /\ \A u \in Threads \ {t} : frame'[u] = frame[u]
  BY <1>1, <1>4, Facts, NewFrame DEF Advance
<1>6. Others(t) /\ Undisturbed(t)
  BY <1>1, <1>3, <1>5 DEF Others, Undisturbed
<1>7. \A x \in Pools : pending'[x] = IF x = p THEN Wrap(pending[p] + 1) ELSE pending[x]
  BY <1>1, <1>2, Facts DEF Types
<1>8. Types'
  <2>1. Wrap(pending[p] + 1) \in 0..(SizeModulus - 1)
    BY <1>2, Facts, WrapStep DEF Types
  <2>2. pending' \in [Pools -> 0..(SizeModulus - 1)]
    BY <1>1, <2>1, Facts DEF Types
  <2> QED BY <1>1, <1>3, <1>5, <2>2 DEF IInv, Types
<1>9. ControlOK(t)'
  BY <1>1, <1>3, <1>4, <1>5, Facts DEF ControlOK, InTask, Empty, Serving
<1>10. ControlInv'
  BY <1>6, <1>9, Facts, ControlKept
<1>11. OwedInv'
  <2>1. Rest(t) = Advanced(t) /\ Rest(t)' = Advanced(t)
    BY <1>1, <1>3, <1>5 DEF Rest
  <2> QED BY <1>1, <1>4, <1>5, <1>6, <2>1, Facts, OwedKept
<1>12. PlaceInv'
  <2>1. \A u \in Threads : frame'[u].task = frame[u].task
                           /\ (pc'[u] = "start" <=> pc[u] = "start")
    BY <1>1, <1>3, <1>4, <1>5
  <2> QED BY <1>1, <2>1, Facts, PlaceKept
<1>13. HomeInv'
  BY <1>1, Facts DEF HomeInv
<1>14. CountInv'
  <2> SUFFICES ASSUME NEW x \in Pools PROVE pending'[x] = Wrap(Total(x)')
    BY DEF CountInv, Wrap
  <2>1. t \notin Counting(x)' /\ (t \in Counting(x) <=> x = p)
    BY <1>1, <1>3 DEF Counting, p
  <2>2. /\ NoTask \in QueuedAt(x)' <=> NoTask \in QueuedAt(x)
        /\ NoTask \in Strays(x)' <=> NoTask \in Strays(x)
        /\ NoTask \in Guests(x)' <=> NoTask \in Guests(x)
    BY <1>1 DEF QueuedAt, Strays, Guests
  <2>3. Total(x)' = Total(x) + Bit(NoTask \in QueuedAt(x)') - Bit(NoTask \in QueuedAt(x))
                    + Bit(NoTask \in Strays(x)') - Bit(NoTask \in Strays(x))
                    - Bit(NoTask \in Guests(x)') + Bit(NoTask \in Guests(x))
                    - Bit(t \in Counting(x)') + Bit(t \in Counting(x))
    BY <1>1, <1>6, Totals
  <2>4. Total(x)' = Total(x) + (IF x = p THEN 1 ELSE 0)
    BY <2>1, <2>2, <2>3, Finiteness DEF Bit
  <2>5. pending[x] = Wrap(Total(x)) /\ Total(x) \in Int
    BY Facts, Finiteness DEF CountInv
  <2>6. CASE x = p
    <3>1. pending'[x] = Wrap(Wrap(Total(x)) + 1) /\ Total(x)' = Total(x) + 1
      BY <1>7, <2>4, <2>5, <2>6
    <3> QED BY <2>5, <3>1, WrapStep
  <2>7. CASE x # p
    BY <1>7, <2>4, <2>5, <2>7
  <2> QED BY <2>6, <2>7
<1> QED BY <1>8, <1>10, <1>11, <1>12, <1>13, <1>14 DEF IInv

----------------------------------------------------------------------------
\* The fetch, the start and the end of a task.

LEMMA TakeInv ==
  ASSUME IInv, NEW t \in Threads, pc[t] \in {"fetch", "drain"}, NEW q \in Queues,
         Site(q) = frame[t].pool, NEW k \in Content[q], Content'[q] = Content[q] \ {k},
         \A i, j \in 1..Len(Queue'[q]) : Queue'[q][i] = Queue'[q][j] => i = j,
         \A r \in Queues \ {q} : Queue'[r] = Queue[r],
         local' \in [Workers -> Seq(Tasks)], shard' \in [Pools -> Seq(Tasks)],
         frame' = [frame EXCEPT ![t].task = k], Goto(t, "start"),
         UNCHANGED <<runState, pending, active, historyVars>>
  PROVE  IInv'
<1> USE DEF historyVars
<1> DEFINE f == [frame[t] EXCEPT !.task = k]
<1>1. k \in Tasks /\ k # NoTask /\ status[k] = "queued" /\ at[k] = frame[t].pool
  BY Facts, QueueTypes, Sizes DEF PlaceInv
<1>2. /\ f \in Frames /\ f.task = k /\ f.pool = frame[t].pool
      /\ f.todo = frame[t].todo /\ f.ops = frame[t].ops
  BY <1>1, Facts DEF Frames
<1>3. frame' = [frame EXCEPT ![t] = f]
  BY Facts DEF Types
<1> HIDE DEF f
<1>4. /\ frame' \in [Threads -> Frames] /\ frame'[t] = f
      /\ \A u \in Threads \ {t} : frame'[u] = frame[u]
  BY <1>2, <1>3, Facts, NewFrame
<1>5. pc' \in [Threads -> Labels] /\ pc'[t] = "start"
      /\ (\A u \in Threads \ {t} : pc'[u] = pc[u])
  BY Facts, Moved DEF Labels
<1>6. Others(t) /\ Undisturbed(t) /\ Types'
  BY <1>4, <1>5 DEF Others, Undisturbed, IInv, Types
<1>7. ~InTask(t) /\ frame[t].task = NoTask /\ frame[t].pool \in Pools
  BY Facts DEF ControlOK, Empty, Serving, InTask
<1>8. ControlOK(t)'
  BY <1>1, <1>2, <1>4, <1>5, <1>7, Facts DEF ControlOK, InTask, Empty, Serving
<1>9. ControlInv'
  BY <1>6, <1>8, Facts, ControlKept
<1>10. OwedInv'
  <2>1. Rest(t) = frame[t] /\ Rest(t)' = f
    BY <1>4, <1>5 DEF Rest
  <2> QED BY <1>2, <1>4, <1>6, <2>1, Facts, OwedKept
<1>11. PlaceInv'
  BY <1>2, <1>4, <1>5, <1>7, Facts, PlaceTake
<1>12. HomeInv'
  BY Facts DEF HomeInv
<1>13. CountInv'
  <2> SUFFICES ASSUME NEW x \in Pools PROVE pending'[x] = Wrap(Total(x)')
    BY DEF CountInv, Wrap
  <2>1. QueuedAt(x)' = QueuedAt(x) /\ Strays(x)' = Strays(x) /\ Guests(x)' = Guests(x)
    BY DEF QueuedAt, Strays, Guests
  <2>2. Counting(x)' = Counting(x)
    <3>1. \A u \in Threads : u # t => Op(u)' = Op(u)
      BY <1>4 DEF Op, Ops, InTask
    <3> QED BY <1>5, <3>1 DEF Counting
  <2> QED BY <2>1, <2>2, Facts DEF CountInv, Total
<1> QED BY <1>6, <1>9, <1>10, <1>11, <1>12, <1>13 DEF IInv

LEMMA FetchInv ==
  ASSUME IInv, NEW t \in Threads, Fetch(t)
  PROVE  IInv'
<1>1. /\ pc[t] \in {"fetch", "drain"} /\ Goto(t, "start")
      /\ UNCHANGED <<runState, pending, active, historyVars>>
  BY DEF Fetch
<1>2. /\ frame[t].pool \in Pools /\ (t \in Workers => frame[t].pool = PoolOf(t))
      /\ local \in [Workers -> Seq(Tasks)] /\ shard \in [Pools -> Seq(Tasks)]
  BY <1>1, Facts DEF ControlOK, Serving, Types
\* Every queue holds a task once.
<1>3. \A q \in Queues : /\ Queue[q] \in Seq(Tasks)
                        /\ \A i, j \in 1..Len(Queue[q]) : Queue[q][i] = Queue[q][j] => i = j
  BY Facts, QueueTypes DEF PlaceInv
<1>4. ASSUME NEW q \in Queues, NEW s, NEW k, Taken(Queue[q], s, k), Queue'[q] = s,
             Site(q) = frame[t].pool, \A r \in Queues \ {q} : Queue'[r] = Queue[r],
             frame' = [frame EXCEPT ![t].task = k],
             s \in Seq(Tasks) => local' \in [Workers -> Seq(Tasks)]
                                 /\ shard' \in [Pools -> Seq(Tasks)]
      PROVE  IInv'
  <2>1. /\ Content[q] = {Queue[q][i] : i \in 1..Len(Queue[q])}
        /\ Content'[q] = {s[i] : i \in 1..Len(s)}
    BY <1>4, Facts, QueueTypes
  <2>2. k \in Content[q] /\ Content'[q] = Content[q] \ {k} /\ s \in Seq(Tasks)
    BY <1>4, <2>1 DEF Taken
  <2>3. \A i, j \in 1..Len(Queue'[q]) : Queue'[q][i] = Queue'[q][j] => i = j
    BY <1>4 DEF Taken
  <2> QED BY <1>1, <1>4, <2>2, <2>3, TakeInv
<1>5. CASE TakeOwn(t)
  <2> DEFINE q == <<"local", t>>
             whole == local[t]
             s == SubSeq(whole, 1, Len(whole) - 1)
             k == whole[Len(whole)]
  <2>1. /\ t \in Workers /\ whole # <<>> /\ local' = [local EXCEPT ![t] = s]
        /\ frame' = [frame EXCEPT ![t].task = k] /\ UNCHANGED shard
    BY <1>2, <1>5 DEF TakeOwn
  <2> HIDE DEF s, k
  <2>2. /\ q \in Queues /\ Queue[q] = whole /\ Queue'[q] = s /\ Site(q) = PoolOf(t)
        /\ \A r \in Queues \ {q} : Queue'[r] = Queue[r]
    BY <2>1, Facts, OneQueue
  <2> HIDE DEF q, whole
  <2>3. whole \in Seq(Tasks) /\ \A i, j \in 1..Len(whole) : whole[i] = whole[j] => i = j
    BY <1>3, <2>2
  <2>4. Taken(whole, s, k)
    BY <2>1, <2>3, TakenLast DEF s, k
  <2>5. s \in Seq(Tasks) => local' \in [Workers -> Seq(Tasks)] /\ shard' \in [Pools -> Seq(Tasks)]
    BY <1>2, <2>1
  <2> QED BY <1>2, <1>4, <2>1, <2>2, <2>4, <2>5
<1>6. ASSUME NEW v \in WorkersOf[frame[t].pool], local[v] # <<>>,
             local' = [local EXCEPT ![v] = Tail(@)], UNCHANGED shard,
             frame' = [frame EXCEPT ![t].task = Head(local[v])]
      PROVE  IInv'
  <2> DEFINE q == <<"local", v>>
             whole == local[v]
             s == Tail(whole)
             k == Head(whole)
  <2>1. v \in Workers /\ PoolOf(v) = frame[t].pool
    BY <1>2, OnePool
  <2>2. /\ whole # <<>> /\ local' = [local EXCEPT ![v] = s] /\ UNCHANGED shard
        /\ frame' = [frame EXCEPT ![t].task = k]
    BY <1>2, <1>6, <2>1
  <2> HIDE DEF s, k
  <2>3. /\ q \in Queues /\ Queue[q] = whole /\ Queue'[q] = s /\ Site(q) = PoolOf(v)
        /\ \A r \in Queues \ {q} : Queue'[r] = Queue[r]
    BY <2>1, <2>2, Facts, OneQueue
  <2> HIDE DEF q, whole
  <2>4. whole \in Seq(Tasks) /\ \A i, j \in 1..Len(whole) : whole[i] = whole[j] => i = j
    BY <1>3, <2>3
  <2>5. Taken(whole, s, k)
    BY <2>2, <2>4, TakenFirst DEF s, k
  <2>6. s \in Seq(Tasks) => local' \in [Workers -> Seq(Tasks)] /\ shard' \in [Pools -> Seq(Tasks)]
    BY <1>2, <2>2
  <2> QED BY <1>4, <2>1, <2>2, <2>3, <2>5, <2>6
<1>7. CASE /\ shard[frame[t].pool] # <<>> /\ UNCHANGED local
           /\ shard' = [shard EXCEPT ![frame[t].pool] = Tail(@)]
           /\ frame' = [frame EXCEPT ![t].task = Head(shard[frame[t].pool])]
  <2> DEFINE p == frame[t].pool
             q == <<"shard", p>>
             whole == shard[p]
             s == Tail(whole)
             k == Head(whole)
  <2>1. /\ whole # <<>> /\ shard' = [shard EXCEPT ![p] = s] /\ UNCHANGED local
        /\ frame' = [frame EXCEPT ![t].task = k] /\ p \in Pools
    BY <1>2, <1>7
  <2> HIDE DEF s, k, p
  <2>2. /\ q \in Queues /\ Queue[q] = whole /\ Queue'[q] = s /\ Site(q) = p
        /\ \A r \in Queues \ {q} : Queue'[r] = Queue[r]
    BY <2>1, Facts, OneQueue
  <2> HIDE DEF q, whole
  <2>3. whole \in Seq(Tasks) /\ \A i, j \in 1..Len(whole) : whole[i] = whole[j] => i = j
    BY <1>3, <2>2
  <2>4. Taken(whole, s, k)
    BY <2>1, <2>3, TakenFirst DEF s, k
  <2>5. s \in Seq(Tasks) => local' \in [Workers -> Seq(Tasks)] /\ shard' \in [Pools -> Seq(Tasks)]
    BY <1>2, <2>1
  <2>6. Site(q) = frame[t].pool
    BY <2>2 DEF p
  <2> QED BY <1>4, <2>1, <2>2, <2>4, <2>5, <2>6
<1> QED BY <1>5, <1>6, <1>7 DEF Fetch, TakeOther

LEMMA StartInv ==
  ASSUME IInv, NEW t \in Threads, Start(t)
  PROVE  IInv'
<1> DEFINE p == frame[t].pool
           k == frame[t].task
           f == [frame[t] EXCEPT !.ops = Bodies[k]]
<1>1. /\ pc[t] = "start" /\ active' = [active EXCEPT ![p] = @ + 1]
      /\ pending' = [pending EXCEPT ![p] = Wrap(@ - 1)]
      /\ status' = [status EXCEPT ![k] = "running"] /\ Goto(t, "run")
      /\ UNCHANGED <<runState, local, shard, home, at>>
  BY DEF Start
<1>2. /\ frame[t].task # NoTask /\ k \in Tasks /\ status[k] = "queued" /\ at[k] = p
      /\ p \in Pools
  BY <1>1, Facts, Fields DEF ControlOK, InTask
<1>3. Bodies[k] \in Seq(Operations) /\ NoneTwice(Bodies[k])
  BY <1>2, ProgramsAssumption, SubmittedOnce
<1>4. f \in Frames /\ f.task = k /\ f.pool = p /\ f.todo = frame[t].todo /\ f.ops = Bodies[k]
  BY <1>3, Facts DEF Frames
<1>5. frame' = [frame EXCEPT ![t] = f]
  BY Facts DEF Start, Types
<1> HIDE DEF f
<1>6. /\ frame' \in [Threads -> Frames] /\ frame'[t] = f
      /\ \A u \in Threads \ {t} : frame'[u] = frame[u]
  BY <1>4, <1>5, Facts, NewFrame
<1>7. pc' \in [Threads -> Labels] /\ pc'[t] = "run"
      /\ (\A u \in Threads \ {t} : pc'[u] = pc[u])
  BY <1>1, Facts, Moved DEF Labels
<1>8. status'[k] = "running" /\ (\A j \in Tasks \ {k} : status'[j] = status[j])
  BY <1>1, <1>2, Facts DEF Types
<1>9. Others(t) /\ Undisturbed(t)
  <2>1. Others(t)
    BY <1>6, <1>7 DEF Others
  <2>2. \A j \in Tasks : j # frame[t].task => status'[j] = status[j]
    BY <1>8
  <2> QED BY <1>1, <2>1, <2>2, Facts, OwnTask
<1>10. \A x \in Pools : pending'[x] = IF x = p THEN Wrap(pending[p] - 1) ELSE pending[x]
  BY <1>1, <1>2, Facts DEF Types
<1>11. Types'
  <2>1. pending[p] \in Int /\ active[p] + 1 \in Int
    BY <1>2, Facts, Sizes DEF Types
  <2>2. pending[p] - 1 \in Int
    BY <2>1
  <2>3. Wrap(pending[p] - 1) \in 0..(SizeModulus - 1)
    BY <2>2, WrapStep
  <2>4. pending' \in [Pools -> 0..(SizeModulus - 1)] /\ active' \in [Pools -> Int]
    BY <1>1, <2>1, <2>3, Facts DEF Types
  <2>5. status' \in [Tasks -> {"unsubmitted", "queued", "running", "done"}]
    BY <1>1, Facts DEF Types
  <2> QED BY <1>1, <1>6, <1>7, <2>4, <2>5 DEF IInv, Types
<1>12. ControlOK(t)'
  BY <1>1, <1>2, <1>4, <1>6, <1>7, <1>8, Facts DEF ControlOK, InTask, Empty, Serving
<1>13. ControlInv'
  BY <1>9, <1>12, Facts, ControlKept
<1>14. OwedInv'
  <2> DEFINE a == <<"body", k>>
             b == <<"ops", t>>
  <2>1. a \in Owners /\ b \in Owners /\ a # b
    BY <1>2 DEF Owners
  <2>2. Rest(t) = frame[t] /\ Rest(t)' = f
    BY <1>1, <1>6, <1>7 DEF Rest
  <2>3. Owed[a] = Submits(Bodies[k])
    BY <1>2, <2>1 DEF Owed, Submits
  <2>4. Owed'[a] = {}
    BY <1>8, <2>1 DEF Owed
  <2>5. Owed'[b] = Submits(Bodies[k])
    BY <1>4, <2>1, <2>2 DEF Owed
  <2>6. ASSUME NEW o \in Owners \ {a, b} PROVE Owed'[o] \subseteq Owed[o]
    <3>1. \/ o[1] = "todo" /\ o[2] \in Threads
          \/ o[1] = "ops" /\ o[2] \in Threads /\ o[2] # t
          \/ o[1] = "body" /\ o[2] \in Tasks /\ o[2] # k
      <4>1. o = <<o[1], o[2]>>
        BY DEF Owners
      <4> QED BY <4>1, OwnerKinds
    <3>2. \A u \in Threads : u # t => Rest(u)' = Rest(u)
      BY <1>9, RestKept
    <3>3. \A u \in Threads : Rest(u)'.todo = Rest(u).todo
      BY <1>4, <2>2, <3>2
    <3>4. CASE o[1] = "todo"
      BY <3>1, <3>3, <3>4 DEF Owed
    <3>5. CASE o[1] = "ops"
      BY <3>1, <3>2, <3>5 DEF Owed
    <3>6. CASE o[1] = "body"
      BY <1>8, <3>1, <3>6 DEF Owed
    <3> QED BY <3>1, <3>4, <3>5, <3>6
  <2>7. \A o \in Owners : \A j \in Owed[o] : status'[j] = "unsubmitted"
    <3>1. \A o \in Owners : Owed[o] \subseteq Tasks
      BY DEF Owed, Submits
    <3> QED BY <1>2, <1>8, <3>1, Facts DEF OwedInv
  <2>8. \A u \in Threads : NoneTwice(frame'[u].todo) /\ NoneTwice(frame'[u].ops)
    BY <1>3, <1>4, <1>6, Facts DEF OwedInv
  <2> HIDE DEF a, b
  <2> QED BY <2>1, <2>3, <2>4, <2>5, <2>6, <2>7, <2>8, Facts, OwedTransfer
<1>15. PlaceInv'
  BY <1>1, <1>2, <1>4, <1>6, <1>7, <1>8, Facts, PlaceRun
<1>16. HomeInv'
  BY <1>1, <1>2, <1>8, Facts DEF HomeInv
<1>17. CountInv'
  <2> SUFFICES ASSUME NEW x \in Pools PROVE pending'[x] = Wrap(Total(x)')
    BY DEF CountInv, Wrap
  <2>1. /\ k \in QueuedAt(x) <=> x = p
        /\ k \notin QueuedAt(x)'
        /\ k \in Strays(x)' <=> k \in Strays(x)
        /\ k \in Guests(x)' <=> k \in Guests(x)
    BY <1>1, <1>2, <1>8 DEF QueuedAt, Strays, Guests
  <2>2. t \notin Counting(x) /\ t \notin Counting(x)'
    BY <1>1, <1>7 DEF Counting
  <2>3. Total(x)' = Total(x) + Bit(k \in QueuedAt(x)') - Bit(k \in QueuedAt(x))
                    + Bit(k \in Strays(x)') - Bit(k \in Strays(x))
                    - Bit(k \in Guests(x)') + Bit(k \in Guests(x))
                    - Bit(t \in Counting(x)') + Bit(t \in Counting(x))
    BY <1>1, <1>8, <1>9, Totals
  <2>4. Total(x)' = Total(x) - (IF x = p THEN 1 ELSE 0)
    BY <2>1, <2>2, <2>3, Finiteness DEF Bit
  <2>5. pending[x] = Wrap(Total(x)) /\ Total(x) \in Int
    BY Facts, Finiteness DEF CountInv
  <2>6. CASE x = p
    <3>1. pending'[x] = Wrap(Wrap(Total(x)) - 1) /\ Total(x)' = Total(x) - 1
      BY <1>10, <2>4, <2>5, <2>6
    <3> QED BY <2>5, <3>1, WrapStep
  <2>7. CASE x # p
    BY <1>10, <2>4, <2>5, <2>7
  <2> QED BY <2>6, <2>7
<1> QED BY <1>11, <1>13, <1>14, <1>15, <1>16, <1>17 DEF IInv

LEMMA EndInv ==
  ASSUME IInv, NEW t \in Threads, End(t)
  PROVE  IInv'
<1> DEFINE p == frame[t].pool
           k == frame[t].task
           f == [frame[t] EXCEPT !.task = NoTask]
           l == IF t \in Workers THEN "fetch" ELSE "drain"
<1>1. /\ pc[t] = "run" /\ frame[t].task # NoTask /\ active' = [active EXCEPT ![p] = @ - 1]
      /\ status' = [status EXCEPT ![k] = "done"] /\ Goto(t, l)
      /\ UNCHANGED <<runState, pending, local, shard, home, at>>
  BY DEF End, InTask
<1>2. k \in Tasks /\ status[k] = "running" /\ p \in Pools
  BY <1>1, Facts, Fields DEF ControlOK, InTask
<1>3. f \in Frames /\ f.task = NoTask /\ f.pool = p /\ f.todo = frame[t].todo
      /\ f.ops = frame[t].ops
  BY Facts DEF Frames
<1>4. frame' = [frame EXCEPT ![t] = f]
  BY Facts DEF End, Types
<1>5. l \in {"fetch", "drain"} /\ l \in Labels /\ (l = "fetch" <=> t \in Workers)
  BY DEF Labels
<1> HIDE DEF f, l
<1>6. /\ frame' \in [Threads -> Frames] /\ frame'[t] = f
      /\ \A u \in Threads \ {t} : frame'[u] = frame[u]
  BY <1>3, <1>4, Facts, NewFrame
<1>7. pc' \in [Threads -> Labels] /\ pc'[t] = l
      /\ (\A u \in Threads \ {t} : pc'[u] = pc[u])
  BY <1>1, <1>5, Facts, Moved
<1>8. status'[k] = "done" /\ (\A j \in Tasks \ {k} : status'[j] = status[j])
  BY <1>1, <1>2, Facts DEF Types
<1>9. Others(t) /\ Undisturbed(t)
  <2>1. Others(t)
    BY <1>6, <1>7 DEF Others
  <2>2. \A j \in Tasks : j # frame[t].task => status'[j] = status[j]
    BY <1>8
  <2> QED BY <1>1, <2>1, <2>2, Facts, OwnTask
<1>10. Types'
  <2>1. active[p] - 1 \in Int
    BY <1>2, Facts DEF Types
  <2>2. active' \in [Pools -> Int]
    BY <1>1, <2>1, Facts DEF Types
  <2>3. status' \in [Tasks -> {"unsubmitted", "queued", "running", "done"}]
    BY <1>1, Facts DEF Types
  <2> QED BY <1>1, <1>6, <1>7, <2>2, <2>3 DEF IInv, Types
<1>11. ControlOK(t)'
  BY <1>1, <1>2, <1>3, <1>5, <1>6, <1>7, Facts DEF ControlOK, InTask, Empty, Serving
<1>12. ControlInv'
  BY <1>9, <1>11, Facts, ControlKept
<1>13. OwedInv'
  <2>1. Rest(t) = frame[t] /\ Rest(t)' = f
    BY <1>1, <1>5, <1>6, <1>7 DEF Rest
  <2>2. \A j \in Tasks : status[j] \in {"running", "done"} => status'[j] \in {"running", "done"}
    BY <1>8
  <2>3. \A j \in Tasks : ~(status[j] = "unsubmitted" /\ status'[j] # "unsubmitted")
    BY <1>2, <1>8
  <2> QED BY <1>3, <1>6, <1>9, <2>1, <2>2, <2>3, Facts, OwedKept
<1>14. PlaceInv'
  BY <1>1, <1>2, <1>3, <1>6, <1>7, <1>8, Facts, PlaceRun
<1>15. HomeInv'
  BY <1>1, <1>2, <1>8, Facts DEF HomeInv
<1>16. CountInv'
  <2> SUFFICES ASSUME NEW x \in Pools PROVE pending'[x] = Wrap(Total(x)')
    BY DEF CountInv, Wrap
  <2>1. /\ k \notin QueuedAt(x) /\ k \notin QueuedAt(x)'
        /\ k \in Strays(x)' <=> k \in Strays(x)
        /\ k \in Guests(x)' <=> k \in Guests(x)
    BY <1>1, <1>2, <1>8 DEF QueuedAt, Strays, Guests
  <2>2. t \notin Counting(x) /\ t \notin Counting(x)'
    BY <1>1, <1>5, <1>7 DEF Counting
  <2>3. Total(x)' = Total(x) + Bit(k \in QueuedAt(x)') - Bit(k \in QueuedAt(x))
                    + Bit(k \in Strays(x)') - Bit(k \in Strays(x))
                    - Bit(k \in Guests(x)') + Bit(k \in Guests(x))
                    - Bit(t \in Counting(x)') + Bit(t \in Counting(x))
    BY <1>1, <1>8, <1>9, Totals
  <2>4. Total(x)' = Total(x)
    BY <2>1, <2>2, <2>3, Finiteness DEF Bit
  <2> QED BY <1>1, <2>4, Facts DEF CountInv
<1> QED BY <1>10, <1>12, <1>13, <1>14, <1>15, <1>16 DEF IInv

----------------------------------------------------------------------------
\* The initial states, and every step.

LEMMA InitFrames ==
  ASSUME Init
  PROVE  /\ frame \in [Threads -> Frames]
         /\ \A t \in Threads : /\ frame[t].task = NoTask /\ frame[t].ops = <<>>
                               /\ \/ /\ t \in Workers /\ frame[t].pool = PoolOf(t)
                                     /\ frame[t].todo = <<>> /\ pc[t] = "fetch"
                                  \/ /\ t \in Clients /\ t \notin Workers
                                     /\ frame[t].pool = NoPool /\ pc[t] = "run"
                                     /\ frame[t].todo \in Programs[t]
<1>1. PICK program \in [Clients -> UNION {Programs[c] : c \in Clients}] :
          /\ \A c \in Clients : program[c] \in Programs[c]
          /\ frame = [t \in Threads |-> IF t \in Workers THEN Frame(PoolOf(t), <<>>)
                                        ELSE Frame(NoPool, program[t])]
  BY DEF Init
<1>2. ASSUME NEW t \in Threads
      PROVE  /\ frame[t] \in Frames /\ frame[t].task = NoTask /\ frame[t].ops = <<>>
             /\ \/ /\ t \in Workers /\ frame[t].pool = PoolOf(t)
                   /\ frame[t].todo = <<>> /\ pc[t] = "fetch"
                \/ /\ t \in Clients /\ t \notin Workers
                   /\ frame[t].pool = NoPool /\ pc[t] = "run"
                   /\ frame[t].todo \in Programs[t]
  <2>1. CASE t \in Workers
    <3>1. frame[t] = Frame(PoolOf(t), <<>>) /\ pc[t] = "fetch" /\ PoolOf(t) \in Pools
      BY <1>1, <2>1, OnePool DEF Init
    <3> QED BY <2>1, <3>1, NoOps DEF Frame, Frames
  <2>2. CASE t \notin Workers
    <3>1. t \in Clients /\ program[t] \in Programs[t]
      BY <1>1, <2>2 DEF Threads
    <3>2. frame[t] = Frame(NoPool, program[t]) /\ pc[t] = "run"
      BY <1>1, <2>2 DEF Init
    <3>3. program[t] \in Seq(ClientOperations)
      BY <3>1, ProgramsAssumption
    <3> QED BY <2>2, <3>1, <3>2, <3>3, NoOps DEF Frame, Frames
  <2> QED BY <2>1, <2>2
<1> QED BY <1>1, <1>2

LEMMA InitOwed ==
  ASSUME Init
  PROVE  OwedInv
<1>1. \A t \in Threads : Rest(t) = frame[t]
  BY InitFrames DEF Rest
<1>2. \A k \in Tasks : status[k] = "unsubmitted"
  BY DEF Init
<1>3. ASSUME NEW o \in Owners, Owed[o] # {}
      PROVE  \/ /\ o[1] = "todo" /\ o[2] \in Clients
                /\ \E p \in Programs[o[2]] : Owed[o] = Submits(p)
             \/ o[1] = "body" /\ o[2] \in Tasks /\ Owed[o] = Submits(Bodies[o[2]])
  <2>1. \/ o[1] = "todo" /\ o[2] \in Threads
        \/ o[1] = "ops" /\ o[2] \in Threads
        \/ o[1] = "body" /\ o[2] \in Tasks
    BY OwnerKinds
  <2>2. CASE o[1] = "todo"
    <3>1. Owed[o] = Submits(frame[o[2]].todo)
      BY <1>1, <2>1, <2>2 DEF Owed
    <3> QED BY <1>3, <2>1, <2>2, <3>1, InitFrames, NoOps
  <2>3. CASE o[1] = "ops"
    <3>1. Owed[o] = Submits(frame[o[2]].ops)
      BY <1>1, <2>1, <2>3 DEF Owed
    <3> QED BY <1>3, <2>1, <2>3, <3>1, InitFrames, NoOps
  <2>4. CASE o[1] = "body"
    BY <1>2, <2>1, <2>4 DEF Owed
  <2> QED BY <2>1, <2>2, <2>3, <2>4
<1>4. ASSUME NEW o \in Owners, NEW p \in Owners, o # p PROVE Owed[o] \cap Owed[p] = {}
  <2>1. CASE Owed[o] = {} \/ Owed[p] = {}
    BY <2>1
  <2>2. CASE Owed[o] # {} /\ Owed[p] # {}
    <3>1. o = <<o[1], o[2]>> /\ p = <<p[1], p[2]>>
      BY DEF Owners
    <3> QED BY <1>3, <1>4, <2>2, <3>1, SubmittedOnce
  <2> QED BY <2>1, <2>2
<1>5. \A o \in Owners : Owed[o] \subseteq Tasks
  BY DEF Owed, Submits
<1>6. \A t \in Threads : NoneTwice(frame[t].todo) /\ NoneTwice(frame[t].ops)
  BY InitFrames, NoOps, SubmittedOnce
<1> QED BY <1>2, <1>4, <1>5, <1>6 DEF OwedInv

LEMMA InitInv == Init => IInv
<1> SUFFICES ASSUME Init PROVE IInv
  OBVIOUS
<1>1. Types
  <2>1. frame \in [Threads -> Frames]
    BY InitFrames
  <2>2. local \in [Workers -> Seq(Tasks)] /\ shard \in [Pools -> Seq(Tasks)]
    BY NoOps DEF Init
  <2>3. pending \in [Pools -> 0..(SizeModulus - 1)]
    BY Sizes DEF Init
  <2>4. pc \in [Threads -> Labels]
    BY DEF Init, Labels
  <2> QED BY <2>1, <2>2, <2>3, <2>4 DEF Init, Types
<1>2. ControlInv
  <2> SUFFICES ASSUME NEW t \in Threads PROVE ControlOK(t)
    BY DEF ControlInv
  <2>1. /\ frame[t].task = NoTask
        /\ \/ t \in Workers /\ frame[t].pool = PoolOf(t) /\ pc[t] = "fetch"
           \/ t \notin Workers /\ frame[t].pool = NoPool /\ pc[t] = "run"
    BY InitFrames
  <2> QED BY <2>1, OnePool DEF ControlOK, InTask, Empty, Serving
<1>3. PlaceInv
  <2>1. \A q \in Queues : Queue[q] = <<>>
    <3> SUFFICES ASSUME NEW q \in Queues PROVE Queue[q] = <<>>
      OBVIOUS
    <3>1. CASE q \in {"local"} \X Workers
      BY <3>1 DEF Init, Queue
    <3>2. CASE q \in {"shard"} \X Pools
      BY <3>2 DEF Init, Queue
    <3> QED BY <3>1, <3>2 DEF Queues
  <2>2. \A q \in Queues : Len(Queue[q]) = 0
    BY <2>1
  <2>3. \A q \in Queues : Content[q] = {}
    BY <2>2 DEF Content
  <2>4. \A t \in Threads : ~InTask(t)
    BY InitFrames DEF InTask
  <2>5. \A k \in Tasks : status[k] = "unsubmitted"
    BY DEF Init
  <2> QED BY <2>2, <2>3, <2>4, <2>5 DEF PlaceInv
<1>4. HomeInv
  BY DEF Init, HomeInv
<1>5. CountInv
  <2> SUFFICES ASSUME NEW p \in Pools PROVE pending[p] = Wrap(Total(p))
    BY DEF CountInv
  <2>1. QueuedAt(p) = {} /\ Strays(p) = {} /\ Guests(p) = {}
    BY Sizes DEF Init, QueuedAt, Strays, Guests
  <2>2. Counting(p) = {}
    BY InitFrames DEF Counting
  <2>3. Total(p) = 0
    BY <2>1, <2>2, FS_EmptySet DEF Total
  <2>4. 0 % SizeModulus = 0
    BY Sizes
  <2> QED BY <2>3, <2>4 DEF Init, Wrap
<1> QED BY <1>1, <1>2, <1>3, <1>4, <1>5, InitOwed DEF IInv

LEMMA StutterInv == IInv /\ UNCHANGED vars => IInv'
<1> SUFFICES ASSUME IInv, UNCHANGED vars PROVE IInv'
  OBVIOUS
<1> USE DEF vars, poolVars, historyVars
<1>1. Types'
  BY DEF IInv, Types
<1>2. ControlInv'
  BY DEF IInv, ControlInv, ControlOK, Ops, Op, InTask
<1>3. OwedInv'
  <2>1. Owed' = Owed
    BY DEF Owed, Rest, Advanced, InTask
  <2> QED BY <2>1 DEF IInv, OwedInv
<1>4. PlaceInv'
  BY PlaceKept DEF IInv
<1>5. HomeInv'
  BY DEF IInv, HomeInv
<1>6. CountInv'
  <2> SUFFICES ASSUME NEW p \in Pools PROVE pending'[p] = Wrap(Total(p)')
    BY DEF CountInv, Wrap
  <2>1. Total(p)' = Total(p)
    BY DEF Total, QueuedAt, Strays, Guests, Counting, Op, Ops, InTask
  <2> QED BY <2>1 DEF IInv, CountInv
<1> QED BY <1>1, <1>2, <1>3, <1>4, <1>5, <1>6 DEF IInv

LEMMA StepInv ==
  ASSUME IInv, NEW t \in Threads, Step(t)
  PROVE  IInv'
<1>1. CASE Submit(t)
  <2>1. CASE SubmitPush(t)
    BY <2>1, SubmitPushInv
  <2>2. CASE SubmitRefused(t)
    BY <2>2, OperationsInv
  <2>3. CASE SubmitCount(t)
    BY <2>3, SubmitCountInv
  <2> QED BY <1>1, <2>1, <2>2, <2>3 DEF Submit
<1>2. CASE Execute(t)
  <2>1. CASE Fetch(t)
    BY <2>1, FetchInv
  <2>2. CASE Start(t)
    BY <2>2, StartInv
  <2>3. CASE Get(t)
    BY <2>3, OperationsInv
  <2>4. CASE End(t)
    BY <2>4, EndInv
  <2>5. CASE Sleep(t) \/ Leave(t)
    BY <2>5, MovesInv
  <2> QED BY <1>2, <2>1, <2>2, <2>3, <2>4, <2>5 DEF Execute
<1>3. CASE Control(t)
  <2>1. CASE WaitBegin(t) \/ WaitReturn(t) \/ Shutdown(t)
    BY <2>1, WaitInv
  <2>2. CASE ShutdownAgain(t) \/ ShutdownReturn(t)
    BY <2>2, OperationsInv
  <2> QED BY <1>3, <2>1, <2>2 DEF Control
<1> QED BY <1>1, <1>2, <1>3 DEF Step

LEMMA Invariance == Spec => []IInv
<1>1. IInv /\ [Next]_vars => IInv'
  <2>1. ASSUME IInv, Next PROVE IInv'
    <3>1. CASE \E t \in Threads : Step(t)
      BY <2>1, <3>1, StepInv
    <3>2. CASE \E w \in Workers : Notice(w)
      BY <2>1, <3>2, MovesInv, OnePool
    <3> QED BY <2>1, <3>1, <3>2 DEF Next
  <2> QED BY <2>1, StutterInv
<1> QED BY <1>1, InitInv, PTL DEF Spec

----------------------------------------------------------------------------
\* What follows from the invariant.

\* Of two finite sets, the one whose elements have different images in the other
\* is not the larger.
LEMMA NotMore ==
  ASSUME NEW S, NEW T, IsFiniteSet(S), IsFiniteSet(T), NEW f \in [S -> T],
         \A x, y \in S : f[x] = f[y] => x = y
  PROVE  Cardinality(S) <= Cardinality(T)
<1>1. Cardinality(S) \in Nat /\ Cardinality(T) \in Nat
  BY FS_CardinalityType
<1>2. ASSUME Cardinality(T) < Cardinality(S) PROVE FALSE
  BY <1>2, FS_PigeonHole
<1> QED BY <1>1, <1>2

\* A queue holds no more tasks than there are.
LEMMA QueueLength ==
  ASSUME IInv, NEW q \in Queues
  PROVE  Len(Queue[q]) \in Nat /\ Len(Queue[q]) <= Cardinality(Tasks)
<1> DEFINE S == 1..Len(Queue[q])
           f == [i \in S |-> Queue[q][i]]
<1>1. Queue[q] \in Seq(Tasks)
  BY QueueTypes DEF IInv
<1>2. Len(Queue[q]) \in Nat /\ f \in [S -> Tasks]
  BY <1>1, ElementOfSeq
<1>3. IsFiniteSet(S) /\ Cardinality(S) = Len(Queue[q])
  BY <1>2, FS_Interval
<1>4. \A i, j \in S : f[i] = f[j] => i = j
  BY DEF IInv, PlaceInv
<1> HIDE DEF S, f
<1>5. Cardinality(S) <= Cardinality(Tasks)
  BY <1>2, <1>3, <1>4, Sizes, NotMore
<1> QED BY <1>2, <1>3, <1>5

\* Where a pool may have a task.
HereLocal(p, k) == {q \in WorkersOf[p] \X (1..Cardinality(Tasks)) :
                       q[2] <= Len(local[q[1]]) /\ local[q[1]][q[2]] = k}
HereShard(p, k) == {i \in 1..Len(shard[p]) : shard[p][i] = k}
HereHand(p, k) == {t \in Threads : frame[t].pool = p /\ frame[t].task = k /\ pc[t] = "start"}

\* A task in one of the pool's places is queued in the pool.
LEMMA HereQueued ==
  ASSUME IInv, NEW p \in Pools, NEW k \in Tasks
  PROVE  /\ \A x \in HereLocal(p, k) : /\ x = <<x[1], x[2]>> /\ <<"local", x[1]>> \in Queues
                                       /\ x[2] \in 1..Len(Queue[<<"local", x[1]>>])
                                       /\ Queue[<<"local", x[1]>>][x[2]] = k
         /\ \A i \in HereShard(p, k) : /\ <<"shard", p>> \in Queues
                                       /\ i \in 1..Len(Queue[<<"shard", p>>])
                                       /\ Queue[<<"shard", p>>][i] = k
         /\ HereLocal(p, k) # {} \/ HereShard(p, k) # {} =>
               /\ \E q \in Queues : k \in Content[q]
               /\ status[k] = "queued" /\ at[k] = p
         /\ HereHand(p, k) # {} => status[k] = "queued" /\ at[k] = p
<1>1. ASSUME NEW x \in HereLocal(p, k)
      PROVE  /\ x = <<x[1], x[2]>> /\ <<"local", x[1]>> \in Queues
             /\ x[2] \in 1..Len(Queue[<<"local", x[1]>>])
             /\ Queue[<<"local", x[1]>>][x[2]] = k
             /\ Site(<<"local", x[1]>>) = p
  <2>1. /\ x \in WorkersOf[p] \X (1..Cardinality(Tasks))
        /\ x[2] <= Len(local[x[1]]) /\ local[x[1]][x[2]] = k
    BY DEF HereLocal
  <2>2. x = <<x[1], x[2]>> /\ x[1] \in WorkersOf[p] /\ x[2] \in 1..Cardinality(Tasks)
    BY <2>1
  <2>3. x[1] \in Workers /\ PoolOf(x[1]) = p
    BY <2>2, OnePool
  <2>4. <<"local", x[1]>> \in Queues
    BY <2>3 DEF Queues
  <2>5. Queue[<<"local", x[1]>>] = local[x[1]] /\ Site(<<"local", x[1]>>) = p
    BY <2>3, <2>4 DEF Queue, Site
  <2>6. x[2] \in 1..Len(Queue[<<"local", x[1]>>])
    BY <2>1, <2>2, <2>4, <2>5, QueueLength, Sizes
  <2> QED BY <2>1, <2>2, <2>4, <2>5, <2>6
<1>2. ASSUME NEW i \in HereShard(p, k)
      PROVE  /\ <<"shard", p>> \in Queues /\ i \in 1..Len(Queue[<<"shard", p>>])
             /\ Queue[<<"shard", p>>][i] = k
             /\ Site(<<"shard", p>>) = p
  <2>1. <<"shard", p>> \in Queues
    BY DEF Queues
  <2>2. Queue[<<"shard", p>>] = shard[p] /\ Site(<<"shard", p>>) = p
    BY <2>1 DEF Queue, Site
  <2> QED BY <2>1, <2>2 DEF HereShard
<1>3. ASSUME NEW q \in Queues, NEW i \in 1..Len(Queue[q]), Queue[q][i] = k
      PROVE  k \in Content[q] /\ status[k] = "queued" /\ at[k] = Site(q)
  BY <1>3 DEF Content, IInv, PlaceInv
<1>4. HereLocal(p, k) # {} \/ HereShard(p, k) # {} =>
         /\ \E q \in Queues : k \in Content[q]
         /\ status[k] = "queued" /\ at[k] = p
  BY <1>1, <1>2, <1>3
<1>5. ASSUME NEW t \in HereHand(p, k) PROVE status[k] = "queued" /\ at[k] = p
  <2>1. t \in Threads /\ frame[t].pool = p /\ frame[t].task = k /\ pc[t] = "start"
    BY DEF HereHand
  <2> QED BY <2>1, Facts DEF ControlOK
<1> QED BY <1>1, <1>2, <1>4, <1>5

LEMMA InLocal ==
  ASSUME IInv, NEW p \in Pools, NEW k \in Tasks, NEW y \in HereLocal(p, k)
  PROVE  /\ y = <<y[1], y[2]>> /\ <<"local", y[1]>> \in Queues
         /\ y[2] \in 1..Len(Queue[<<"local", y[1]>>])
         /\ Queue[<<"local", y[1]>>][y[2]] = k
<1>1. \A x \in HereLocal(p, k) : /\ x = <<x[1], x[2]>> /\ <<"local", x[1]>> \in Queues
                                 /\ x[2] \in 1..Len(Queue[<<"local", x[1]>>])
                                 /\ Queue[<<"local", x[1]>>][x[2]] = k
  BY HereQueued
<1> QED BY <1>1, Zenon

LEMMA InShard ==
  ASSUME IInv, NEW p \in Pools, NEW k \in Tasks, NEW i \in HereShard(p, k)
  PROVE  /\ <<"shard", p>> \in Queues /\ i \in 1..Len(Queue[<<"shard", p>>])
         /\ Queue[<<"shard", p>>][i] = k
<1>1. \A j \in HereShard(p, k) : /\ <<"shard", p>> \in Queues
                                 /\ j \in 1..Len(Queue[<<"shard", p>>])
                                 /\ Queue[<<"shard", p>>][j] = k
  BY HereQueued
<1> QED BY <1>1, Zenon

LEMMA OneCopy ==
  ASSUME IInv, NEW p \in Pools, NEW k \in Tasks
  PROVE  Copies(p, k) = IF status[k] = "queued" /\ at[k] = p THEN 1 ELSE 0
<1> DEFINE L == HereLocal(p, k)
           S == HereShard(p, k)
           T == HereHand(p, k)
<1>1. Copies(p, k) = Cardinality(L) + Cardinality(S) + Cardinality(T)
  BY DEF Copies, HereLocal, HereShard, HereHand
<1>2. Cardinality({}) = 0 /\ (\A x : Cardinality({x}) = 1)
  BY FS_EmptySet, FS_Singleton
<1>3. PlaceInv /\ k # NoTask
  BY Sizes DEF IInv
<1>4. CASE ~(status[k] = "queued" /\ at[k] = p)
  <2>1. L = {} /\ S = {} /\ T = {}
    BY <1>4, HereQueued
  <2> QED BY <1>1, <1>2, <1>4, <2>1
<1>5. ASSUME status[k] = "queued", at[k] = p, NEW q \in Queues, k \in Content[q]
      PROVE  /\ T = {}
             /\ \/ S = {} /\ \E x : L = {x}
                \/ L = {} /\ \E x : S = {x}
  <2>1. T = {}
    BY <1>3, <1>5 DEF HereHand, PlaceInv
  <2>2. PICK i \in 1..Len(Queue[q]) : Queue[q][i] = k
    BY <1>5 DEF Content
  <2>3. Site(q) = p
    BY <1>3, <1>5 DEF PlaceInv
  <2>4. i \in 1..Cardinality(Tasks) /\ i \in 1..Len(Queue[q])
    BY QueueLength, Sizes
  <2>5. \A r \in Queues : \A j \in 1..Len(Queue[r]) : Queue[r][j] = k => r = q /\ j = i
    <3> SUFFICES ASSUME NEW r \in Queues, NEW j \in 1..Len(Queue[r]), Queue[r][j] = k
                 PROVE  r = q /\ j = i
      OBVIOUS
    <3>1. k \in Content[r]
      BY DEF Content
    <3>2. r = q
      BY <1>3, <1>5, <3>1 DEF PlaceInv
    <3> QED BY <1>3, <2>2, <3>2 DEF PlaceInv
  <2>6. CASE q \in {"local"} \X Workers
    <3> DEFINE w == q[2]
               x == <<w, i>>
    <3>1. /\ q = <<"local", w>> /\ w \in Workers /\ Queue[q] = local[w] /\ PoolOf(w) = p
          /\ w \in WorkersOf[p]
      BY <2>3, <2>6, OnePool DEF Queue, Site
    <3>2. x \in L
      <4>1. x \in WorkersOf[p] \X (1..Cardinality(Tasks)) /\ x[1] = w /\ x[2] = i
        BY <2>4, <3>1
      <4> QED BY <2>2, <2>4, <3>1, <4>1, QueueLength DEF HereLocal
    <3>3. ASSUME NEW y \in L PROVE y = x
      <4>1. /\ y = <<y[1], y[2]>> /\ <<"local", y[1]>> \in Queues
            /\ y[2] \in 1..Len(Queue[<<"local", y[1]>>])
            /\ Queue[<<"local", y[1]>>][y[2]] = k
        BY InLocal
      <4>2. <<"local", y[1]>> = q /\ y[2] = i
        BY <2>5, <4>1
      <4>3. y[1] = w
        BY <4>2
      <4> QED BY <4>1, <4>2, <4>3
    <3>4. S = {}
      <4> SUFFICES ASSUME NEW j \in S PROVE FALSE
        OBVIOUS
      <4>0. /\ <<"shard", p>> \in Queues /\ j \in 1..Len(Queue[<<"shard", p>>])
            /\ Queue[<<"shard", p>>][j] = k
        BY InShard
      <4>1. <<"shard", p>> = q
        BY <2>5, <4>0
      <4> QED BY <3>1, <4>1
    <3> HIDE DEF x, L, S
    <3>5. L = {x}
      BY <3>2, <3>3
    <3> QED BY <2>1, <3>4, <3>5
  <2>7. CASE q \in {"shard"} \X Pools
    <3>1. q = <<"shard", p>> /\ Queue[q] = shard[p]
      BY <2>3, <2>7 DEF Queue, Site
    <3>2. i \in S
      BY <2>2, <2>4, <3>1 DEF HereShard
    <3>3. ASSUME NEW j \in S PROVE j = i
      <4>1. j \in 1..Len(Queue[q]) /\ Queue[q][j] = k
        BY <3>1 DEF HereShard
      <4> QED BY <2>5, <4>1
    <3>4. L = {}
      <4> SUFFICES ASSUME NEW y \in L PROVE FALSE
        OBVIOUS
      <4>1. /\ <<"local", y[1]>> \in Queues /\ y[2] \in 1..Len(Queue[<<"local", y[1]>>])
            /\ Queue[<<"local", y[1]>>][y[2]] = k
        BY InLocal
      <4>2. <<"local", y[1]>> = q
        BY <2>5, <4>1
      <4> QED BY <3>1, <4>2
    <3> HIDE DEF L, S
    <3>5. S = {i}
      BY <3>2, <3>3
    <3> QED BY <2>1, <3>4, <3>5
  <2> QED BY <2>6, <2>7 DEF Queues
<1>6. ASSUME status[k] = "queued", at[k] = p, NEW t \in Threads, pc[t] = "start",
             frame[t].task = k
      PROVE  L = {} /\ S = {} /\ T = {t}
  <2>1. frame[t].pool = p
    BY <1>3, <1>6, Facts DEF ControlOK, InTask
  <2>2. \A q \in Queues : k \notin Content[q]
    BY <1>3, <1>6 DEF PlaceInv
  <2>3. L = {} /\ S = {}
    BY <2>2, HereQueued
  <2>4. T = {t}
    BY <1>3, <1>6, <2>1 DEF HereHand, PlaceInv, InTask
  <2> QED BY <2>3, <2>4
<1>7. CASE status[k] = "queued" /\ at[k] = p
  <2>1. \/ \E q \in Queues : k \in Content[q]
        \/ \E t \in Threads : pc[t] = "start" /\ frame[t].task = k
    BY <1>3, <1>7 DEF PlaceInv
  <2> HIDE DEF L, S, T
  <2>2. CASE \E q \in Queues : k \in Content[q]
    <3>1. /\ T = {}
          /\ \/ S = {} /\ \E x : L = {x}
             \/ L = {} /\ \E x : S = {x}
      BY <1>5, <1>7, <2>2
    <3>2. Cardinality(T) = 0
      BY <1>2, <3>1
    <3>3. CASE S = {} /\ \E x : L = {x}
      <4>1. Cardinality(S) = 0 /\ Cardinality(L) = 1
        BY <1>2, <3>3, Zenon
      <4> QED BY <1>1, <1>7, <3>2, <4>1
    <3>4. CASE L = {} /\ \E x : S = {x}
      <4>1. Cardinality(L) = 0 /\ Cardinality(S) = 1
        BY <1>2, <3>4, Zenon
      <4> QED BY <1>1, <1>7, <3>2, <4>1
    <3> QED BY <3>1, <3>3, <3>4
  <2>3. CASE \E t \in Threads : pc[t] = "start" /\ frame[t].task = k
    <3>1. L = {} /\ S = {} /\ \E t : T = {t}
      BY <1>6, <1>7, <2>3
    <3>2. Cardinality(L) = 0 /\ Cardinality(S) = 0 /\ Cardinality(T) = 1
      BY <1>2, <3>1, Zenon
    <3> QED BY <1>1, <1>7, <3>2
  <2> QED BY <2>1, <2>2, <2>3
<1> QED BY <1>4, <1>7

LEMMA InvBalance == IInv => AccountsBalance
<1> SUFFICES ASSUME IInv PROVE AccountsBalance
  OBVIOUS
<1>1. \A k \in Tasks, p \in Pools :
         Copies(p, k) = IF status[k] = "queued" /\ at[k] = p THEN 1 ELSE 0
  BY OneCopy
<1>2. \A p \in Pools :
         pending[p] = Wrap(Cardinality({k \in Tasks : status[k] = "queued" /\ at[k] = p})
                           + Cardinality(Strays(p)) - Cardinality(Guests(p))
                           - Cardinality({t \in Threads : pc[t] = "count" /\ Op(t)[2] = p}))
  BY DEF IInv, CountInv, Total, QueuedAt, Counting
<1> QED BY <1>1, <1>2 DEF AccountsBalance

----------------------------------------------------------------------------
\* The accounts of pools that submit to each other.

\* A queued task is in one pool, once, the one whose queues it was put in; and
\* each pendingTasks_ is the pool's queued tasks, plus those of its own that
\* other pools took, less its guests, less the submissions not counted yet:
\* what a submit() from another pool's worker adds is never balanced.
THEOREM Balance == Spec => []AccountsBalance
<1> QED BY Invariance, InvBalance, PTL

=============================================================================
