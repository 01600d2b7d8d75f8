-------------------------- MODULE ThreadPool_proof --------------------------
(***************************************************************************)
(* Theorems about ThreadPool for any number of workers, clients, shards    *)
(* and tasks, and anything that clients and tasks do: the counters agree   *)
(* with what they count, a task is in one place until it starts, and no    *)
(* sleeping worker misses its wake-up.                                     *)
(***************************************************************************)
EXTENDS ThreadPool, FiniteSetTheorems, SequenceTheorems, TLAPS

\* Where a thread is inside submit(), inside waitUntil(), and, if it is not a
\* worker, inside waitIdle() with no task in hand.
InSubmit == {"submitCheck", "submitPush", "submitCount", "submitIdle", "submitBump",
                "submitNotify"}
Sleeping == {"spin", "spinActive", "observe", "look", "lookActive", "park", "parked"}
InWaitIdle == {"waitTop", "waitActive", "waitExit", "steal", "inject", "none", "tell"}
             \cup Sleeping

\* Where a thread holds a task that it has not started.
Hands == {"recheck", "act", "pend"}

Types ==
    /\ runState \in {"Running", "Finish", "Discard"}
    /\ paused \in BOOLEAN
    /\ pendingTasks \in 0..(SizeModulus - 1)
    /\ activeTasks \in Int /\ idleWorkers \in Int /\ waitIdleWaiters \in Int
    /\ exceptionCounter \in Int
    /\ local \in [Workers -> Seq(Tasks)]
    /\ shard \in [Shards -> Seq(Tasks)]
    /\ roundRobin \in Shards
    /\ fresh \subseteq Threads
    /\ joining \in 0..WorkerCount
    /\ selfDetach \subseteq Workers
    /\ pc \in [Threads -> Labels]
    /\ frame \in [Threads -> Frames]
    /\ status \in [Tasks -> {"unsubmitted", "refused", "queued", "running", "done",
                             "threw"}]
    /\ accepted \subseteq Tasks
    /\ passed \subseteq Threads

\* What a thread's place says of its locals.
ControlOK(t) ==
    /\ pc[t] \in InSubmit => \E k \in Tasks : frame[t].call = <<"submit", k>>
    /\ pc[t] = "join" => frame[t].call[1] = "shutdown"
    /\ pc[t] = "wake" => frame[t].call = NoCall \/ frame[t].call[1] \in {"resume", "shutdown"}
    /\ pc[t] \notin InSubmit \cup {"join", "wake"} => frame[t].call = NoCall
    /\ pc[t] \in Hands \cup {"threw", "except", "retire"} => frame[t].task # NoTask
    /\ pc[t] \in InWaitIdle \cup {"top", "pop"} => frame[t].task = NoTask
    /\ pc[t] = "wake" /\ frame[t].call = NoCall => frame[t].task = NoTask
    /\ t \in Workers =>
          /\ \/ pc[t] \in {"run", "join"} \cup InSubmit
             \/ pc[t] = "wake" /\ frame[t].call # NoCall
             => frame[t].task # NoTask
          /\ pc[t] \notin {"waitTop", "waitActive", "waitExit", "spinActive", "lookActive"}
          /\ frame[t].waitFor # "drained"
    /\ t \in Clients =>
          /\ pc[t] \notin {"top", "pop", "recheck", "done"}
          /\ frame[t].waitFor \in {"none", "drained"}
          /\ frame[t].draining <=> \/ frame[t].task # NoTask \/ pc[t] \in InWaitIdle
                                   \/ pc[t] = "wake" /\ frame[t].call = NoCall
    /\ frame[t].waitFor # "none" <=> pc[t] \in Sleeping
    /\ pc[t] \notin {"steal", "inject"} => frame[t].probe = 0
    /\ pc[t] = "steal" => frame[t].probe \in Workers
    /\ pc[t] = "inject" => frame[t].probe \in Shards

ControlInv == \A t \in Threads : ControlOK(t)

\* The submissions that are still to be made: the rest of a client's program,
\* of a task that runs, a call before its push, and the body of a task that has
\* not started.  Each task is in one of them, and has not been submitted.
Owners == ({"todo"} \X Threads) \cup ({"ops"} \X Threads) \cup ({"call"} \X Threads)
          \cup ({"body"} \X Tasks)

Owed == [o \in Owners |->
    IF o[1] = "todo" THEN Submits(frame[o[2]].todo)
    ELSE IF o[1] = "ops" THEN Submits(frame[o[2]].ops)
    ELSE IF o[1] = "call" THEN {k \in Tasks : /\ pc[o[2]] \in {"submitCheck", "submitPush"}
                                              /\ frame[o[2]].call = <<"submit", k>>}
    ELSE {k \in Submits(Bodies[o[2]]) : status[o[2]] \notin {"running", "done", "threw"}}]

OwedInv ==
    /\ \A o, p \in Owners : o # p => Owed[o] \cap Owed[p] = {}
    /\ \A o \in Owners : \A k \in Owed[o] : status[k] = "unsubmitted"
    /\ \A t \in Threads : NoneTwice(frame[t].todo) /\ NoneTwice(frame[t].ops)

\* What a thread's place says of its task.
StatusOK(t) ==
    frame[t].task # NoTask =>
       /\ pc[t] \in Hands => status[frame[t].task] = "queued"
       /\ pc[t] \in {"run", "threw", "join", "wake"} \cup InSubmit
             => status[frame[t].task] = "running"
       /\ pc[t] = "except" => status[frame[t].task] = "threw"
       /\ pc[t] \in {"retire", "done"} => status[frame[t].task] \in {"done", "threw"}

StatusInv == \A t \in Threads : StatusOK(t)

\* The queues, whether local or shared, and the tasks in them.
Queues == ({"local"} \X Workers) \cup ({"shard"} \X Shards)
Queue == [q \in Queues |-> IF q[1] = "local" THEN local[q[2]] ELSE shard[q[2]]]
Content == [q \in Queues |-> {Queue[q][i] : i \in 1..Len(Queue[q])}]

\* A task is once in one queue, or one thread has it, and then it is queued.
PlaceInv ==
    /\ \A q \in Queues : \A i, j \in 1..Len(Queue[q]) : Queue[q][i] = Queue[q][j] => i = j
    /\ \A q, r \in Queues : q # r => Content[q] \cap Content[r] = {}
    /\ \A q \in Queues : \A k \in Content[q] : status[k] = "queued"
    /\ \A q \in Queues : \A t \in Threads : frame[t].task \notin Content[q]
    /\ \A t, u \in Threads : frame[t].task = frame[u].task /\ frame[t].task # NoTask => t = u
    /\ \A k \in Tasks : status[k] = "queued" =>
          \/ \E q \in Queues : k \in Content[q]
          \/ \E t \in Threads : pc[t] \in Hands /\ frame[t].task = k

\* What the counters count.
Counting == {t \in Threads : pc[t] = "submitCount"}
Executing == {t \in Threads : frame[t].task # NoTask /\ pc[t] \notin {"recheck", "act"}}
Idling == {w \in Workers : frame[w].waitFor # "none"}
Waiting == {c \in Clients : frame[c].draining}
Threw == {k \in Tasks : status[k] = "threw"}
Uncounted == {t \in Threads : /\ frame[t].task # NoTask /\ status[frame[t].task] = "threw"
                              /\ pc[t] \in {"except", "done"}}

CountInv ==
    /\ pendingTasks = Wrap(Cardinality(Queued) - Cardinality(Counting))
    /\ activeTasks = Cardinality(Executing)
    /\ idleWorkers = Cardinality(Idling)
    /\ waitIdleWaiters = Cardinality(Waiting)
    /\ exceptionCounter = Cardinality(Threw) - Cardinality(Uncounted)

IInv == Types /\ ControlInv /\ OwedInv /\ StatusInv /\ PlaceInv /\ CountInv

\* A worker on its way to sleep, or asleep, behind a token that has not changed
\* since it looked, with a reason to wake.
Missing(w) ==
    /\ pc[w] \in {"park", "parked"} /\ w \in fresh
    /\ \/ runState # "Running"
       \/ ~paused /\ (frame[w].waitFor = "resumed" \/ pendingTasks # 0)

WakeInv ==
    (\E w \in Workers : Missing(w))
    => \E t \in Threads : pc[t] \in {"submitCount", "submitIdle", "submitBump", "wake"}

----------------------------------------------------------------------------
\* The constants, the frames and the labels.

LEMMA Sizes ==
  /\ WorkerCount \in Nat \ {0} /\ ShardCount \in Nat \ {0} /\ SizeModulus \in Nat \ {0}
  /\ 0 \in Workers /\ 0 \in Shards /\ NoQueue \notin Workers
  /\ IsFiniteSet(Tasks) /\ IsFiniteSet(Threads) /\ IsFiniteSet(Workers) /\ IsFiniteSet(Clients)
  /\ Cardinality(Tasks) \in Nat /\ Cardinality(Threads) \in Nat
  /\ Cardinality(Tasks) < SizeModulus /\ Cardinality(Threads) < SizeModulus
<1>1. WorkerCount \in Nat \ {0} /\ ShardCount \in Nat \ {0}
  BY WorkerAssumption, ShardAssumption
<1>2. IsFiniteSet(Workers) /\ 0 \in Workers /\ 0 \in Shards /\ NoQueue \notin Workers
  BY <1>1, FS_Interval DEF Workers, Shards, NoQueue
<1>3. IsFiniteSet(Threads)
  BY <1>2, ClientsAssumption, FS_Union DEF Threads
<1>4. Cardinality(Tasks) \in Nat /\ Cardinality(Threads) \in Nat
  BY <1>3, TasksAssumption, FS_CardinalityType
<1> QED BY <1>1, <1>2, <1>3, <1>4, ClientsAssumption, TasksAssumption, SizeAssumption

LEMMA Fields ==
  ASSUME NEW f \in Frames
  PROVE  /\ f.todo \in Seq(ClientOperations) /\ f.task \in Tasks \cup {NoTask}
         /\ f.ops \in Seq(TaskOperations) /\ f.call \in Operations \cup {NoCall}
         /\ f.offset \in Workers /\ f.probe \in Workers \cup Shards
         /\ f.from \in Workers \cup {NoQueue}
         /\ f.waitFor \in {"none", "resumed", "work", "drained"}
         /\ f.draining \in BOOLEAN /\ f.seen \subseteq Tasks
<1> QED BY DEF Frames

\* A frame with other fields.
LEMMA SetFields ==
  ASSUME NEW f \in Frames
  PROVE  /\ \A c \in Operations \cup {NoCall} : [f EXCEPT !.call = c] \in Frames
         /\ \A o \in Seq(TaskOperations) : [f EXCEPT !.ops = o] \in Frames
         /\ \A o \in Seq(ClientOperations) : [f EXCEPT !.todo = o] \in Frames
         /\ \A k \in Tasks \cup {NoTask} : [f EXCEPT !.task = k] \in Frames
         /\ \A w \in Workers : [f EXCEPT !.offset = w] \in Frames
         /\ \A p \in Workers \cup Shards : [f EXCEPT !.probe = p] \in Frames
         /\ \A q \in Workers \cup {NoQueue} : [f EXCEPT !.from = q] \in Frames
         /\ \A w \in {"none", "resumed", "work", "drained"} : [f EXCEPT !.waitFor = w] \in Frames
         /\ \A d \in BOOLEAN : [f EXCEPT !.draining = d] \in Frames
         /\ \A k \in SUBSET Tasks : [f EXCEPT !.seen = k] \in Frames
<1> QED BY DEF Frames

LEMMA NewFrame ==
  ASSUME Types, NEW t \in Threads, NEW f \in Frames, frame' = [frame EXCEPT ![t] = f]
  PROVE  /\ frame' \in [Threads -> Frames] /\ frame'[t] = f
         /\ \A u \in Threads \ {t} : frame'[u] = frame[u]
<1> QED BY DEF Types

LEMMA Moved ==
  ASSUME Types, NEW t \in Threads, NEW l \in Labels, Goto(t, l)
  PROVE  /\ pc' \in [Threads -> Labels] /\ pc'[t] = l
         /\ \A u \in Threads \ {t} : pc'[u] = pc[u]
<1> QED BY DEF Types, Goto

----------------------------------------------------------------------------
\* Steps that submit, start and count nothing.

\* Every thread but t stays where it is, or is woken.
Others(t) ==
    \A u \in Threads \ {t} : /\ frame'[u] = frame[u]
                             /\ pc'[u] = pc[u] \/ (pc[u] = "parked" /\ pc'[u] = "spin")

LEMMA OwnerKinds ==
  ASSUME NEW o \in Owners
  PROVE  \/ o[1] = "todo" /\ o[2] \in Threads
         \/ o[1] = "ops" /\ o[2] \in Threads
         \/ o[1] = "call" /\ o[2] \in Threads
         \/ o[1] = "body" /\ o[2] \in Tasks
<1>1. CASE o \in {"todo"} \X Threads
  BY <1>1
<1>2. CASE o \in {"ops"} \X Threads
  BY <1>2
<1>3. CASE o \in {"call"} \X Threads
  BY <1>3
<1>4. CASE o \in {"body"} \X Tasks
  BY <1>4
<1> QED BY <1>1, <1>2, <1>3, <1>4 DEF Owners

LEMMA OwedKept ==
  ASSUME OwedInv, Types, NEW t \in Threads, Others(t),
         Submits(frame'[t].todo) \subseteq Submits(frame[t].todo), NoneTwice(frame'[t].todo),
         Submits(frame'[t].ops) \subseteq Submits(frame[t].ops), NoneTwice(frame'[t].ops),
         pc'[t] \in {"submitCheck", "submitPush"}
            => pc[t] \in {"submitCheck", "submitPush"} /\ frame'[t].call = frame[t].call,
         \A k \in Tasks : /\ status[k] = "unsubmitted" => status'[k] = "unsubmitted"
                          /\ status[k] \in {"running", "done", "threw"}
                                => status'[k] \in {"running", "done", "threw"}
  PROVE  OwedInv'
<1>1. ASSUME NEW o \in Owners PROVE Owed'[o] \subseteq Owed[o]
  <2>1. \/ o[1] = "todo" /\ o[2] \in Threads
        \/ o[1] = "ops" /\ o[2] \in Threads
        \/ o[1] = "call" /\ o[2] \in Threads
        \/ o[1] = "body" /\ o[2] \in Tasks
    BY OwnerKinds
  <2>2. CASE o[1] = "todo"
    BY <2>1, <2>2 DEF Owed, Others
  <2>3. CASE o[1] = "ops"
    BY <2>1, <2>3 DEF Owed, Others
  <2>4. CASE o[1] = "call"
    BY <2>1, <2>4 DEF Owed, Others
  <2>5. CASE o[1] = "body"
    BY <2>1, <2>5 DEF Owed
  <2> QED BY <2>1, <2>2, <2>3, <2>4, <2>5
<1>2. \A o \in Owners : Owed[o] \subseteq Tasks
  BY DEF Owed, Submits
<1>3. \A o, p \in Owners : o # p => Owed'[o] \cap Owed'[p] = {}
  BY <1>1 DEF OwedInv
<1>4. \A o \in Owners : \A k \in Owed'[o] : status'[k] = "unsubmitted"
  BY <1>1, <1>2 DEF OwedInv
<1>5. \A u \in Threads : NoneTwice(frame'[u].todo) /\ NoneTwice(frame'[u].ops)
  BY DEF OwedInv, Others
<1> QED BY <1>3, <1>4, <1>5 DEF OwedInv

\* The parts of the code that a thread with a task may be in.
Phases == {{"recheck", "act"}, {"pend"}, {"run", "threw", "join", "wake"} \cup InSubmit,
           {"except"}, {"retire"}, {"done"}}

LEMMA Quiet ==
  ASSUME IInv, NEW t \in Threads, Others(t), Types', OwedInv', ControlOK(t)',
         UNCHANGED <<countVars, local, shard, status>>,
         frame'[t].task = frame[t].task, frame'[t].draining = frame[t].draining,
         t \in Workers => (frame'[t].waitFor = "none" <=> frame[t].waitFor = "none"),
         pc'[t] = "submitCount" <=> pc[t] = "submitCount",
         frame[t].task # NoTask => \A l \in Phases : pc'[t] \in l <=> pc[t] \in l
  PROVE  IInv'
<1>1. ControlInv'
  <2> SUFFICES ASSUME NEW u \in Threads PROVE ControlOK(u)'
    BY DEF ControlInv
  <2>1. CASE u = t
    BY <2>1
  <2>2. CASE u # t
    <3>1. ControlOK(u)
      BY DEF IInv, ControlInv
    <3>2. frame'[u] = frame[u] /\ (pc'[u] = pc[u] \/ (pc[u] = "parked" /\ pc'[u] = "spin"))
      BY <2>2 DEF Others
    <3>3. CASE pc'[u] = pc[u]
      BY <3>1, <3>2, <3>3 DEF ControlOK
    <3>4. CASE pc[u] = "parked" /\ pc'[u] = "spin"
      BY <3>1, <3>2, <3>4 DEF ControlOK, InSubmit, Hands, InWaitIdle, Sleeping
    <3> QED BY <3>2, <3>3, <3>4
  <2> QED BY <2>1, <2>2
<1>2. \A u \in Threads : /\ frame'[u].task = frame[u].task
                         /\ frame'[u].draining = frame[u].draining
                         /\ u \in Workers
                            => (frame'[u].waitFor = "none" <=> frame[u].waitFor = "none")
                         /\ pc'[u] = "submitCount" <=> pc[u] = "submitCount"
  BY DEF Others
<1>3. ASSUME NEW u \in Threads, frame[u].task # NoTask
      PROVE  /\ pc'[u] \in Hands <=> pc[u] \in Hands
             /\ pc'[u] \in {"recheck", "act"} <=> pc[u] \in {"recheck", "act"}
             /\ pc'[u] \in {"run", "threw", "join", "wake"} \cup InSubmit
                <=> pc[u] \in {"run", "threw", "join", "wake"} \cup InSubmit
             /\ pc'[u] = "except" <=> pc[u] = "except"
             /\ pc'[u] \in {"retire", "done"} <=> pc[u] \in {"retire", "done"}
             /\ pc'[u] = "done" <=> pc[u] = "done"
  <2>1. pc[u] # "parked"
    BY <1>3 DEF IInv, ControlInv, ControlOK, InWaitIdle, Sleeping
  <2>2. u # t => pc'[u] = pc[u]
    BY <2>1 DEF Others
  <2> QED BY <1>3, <2>2 DEF Phases, Hands
<1>4. StatusInv'
  BY <1>2, <1>3 DEF IInv, StatusInv, StatusOK
<1>5. Queue' = Queue /\ Content' = Content
  BY DEF Queue, Content
<1>6. PlaceInv'
  <2>1. PlaceInv
    BY DEF IInv
  <2>2. ASSUME NEW k \in Tasks, status'[k] = "queued"
        PROVE  \/ \E q \in Queues : k \in Content'[q]
               \/ \E u \in Threads : pc'[u] \in Hands /\ frame'[u].task = k
    <3>1. CASE \E q \in Queues : k \in Content[q]
      BY <1>5, <3>1
    <3>2. ASSUME NEW u \in Threads, pc[u] \in Hands, frame[u].task = k
          PROVE  pc'[u] \in Hands /\ frame'[u].task = k
      BY <1>2, <1>3, <3>2, TasksAssumption
    <3> QED BY <2>1, <2>2, <3>1, <3>2 DEF PlaceInv
  <2>3. \A q \in Queues : \A i, j \in 1..Len(Queue'[q]) : Queue'[q][i] = Queue'[q][j] => i = j
    BY <1>5, <2>1 DEF PlaceInv
  <2>4. \A q, r \in Queues : q # r => Content'[q] \cap Content'[r] = {}
    BY <1>5, <2>1 DEF PlaceInv
  <2>5. \A q \in Queues : \A k \in Content'[q] : status'[k] = "queued"
    BY <1>5, <2>1 DEF PlaceInv
  <2>6. \A q \in Queues : \A u \in Threads : frame'[u].task \notin Content'[q]
    BY <1>2, <1>5, <2>1 DEF PlaceInv
  <2>7. \A u, v \in Threads : frame'[u].task = frame'[v].task /\ frame'[u].task # NoTask
                             => u = v
    BY <1>2, <2>1 DEF PlaceInv
  <2> QED BY <2>2, <2>3, <2>4, <2>5, <2>6, <2>7 DEF PlaceInv
<1>7. /\ Counting' = Counting /\ Executing' = Executing /\ Idling' = Idling
      /\ Waiting' = Waiting /\ Threw' = Threw /\ Uncounted' = Uncounted /\ Queued' = Queued
  <2>1. Workers \subseteq Threads /\ Clients \subseteq Threads
    BY DEF Threads
  <2>2. Counting' = Counting
    BY <1>2 DEF Counting
  <2>3. Executing' = Executing
    BY <1>2, <1>3 DEF Executing
  <2>4. Idling' = Idling /\ Waiting' = Waiting
    BY <1>2, <2>1 DEF Idling, Waiting
  <2>5. Uncounted' = Uncounted
    BY <1>2, <1>3 DEF Uncounted
  <2>6. Threw' = Threw /\ Queued' = Queued
    BY DEF Threw, Queued
  <2> QED BY <2>2, <2>3, <2>4, <2>5, <2>6
<1>8. CountInv'
  BY <1>7 DEF IInv, CountInv, countVars, Wrap
<1> QED BY <1>1, <1>4, <1>6, <1>8 DEF IInv

\* A step that only moves one thread, which has not to do with submit().
LEMMA MoveStep ==
  ASSUME IInv, NEW t \in Threads, NEW l \in Labels, Goto(t, l), frame' = frame,
         UNCHANGED <<poolVars, historyVars>>, fresh' \subseteq Threads, ControlOK(t)',
         l \in {"submitCheck", "submitPush"} => pc[t] \in {"submitCheck", "submitPush"},
         l = "submitCount" <=> pc[t] = "submitCount",
         frame[t].task # NoTask => \A p \in Phases : l \in p <=> pc[t] \in p
  PROVE  IInv'
<1> USE DEF poolVars, historyVars, stateVars, queueVars, joinVars, countVars
<1>1. Types /\ OwedInv
  BY DEF IInv
<1>2. /\ pc' \in [Threads -> Labels] /\ pc'[t] = l
      /\ \A u \in Threads \ {t} : pc'[u] = pc[u]
  BY <1>1, Moved
<1>3. Types'
  BY <1>1, <1>2 DEF Types
<1>4. Others(t)
  BY <1>2 DEF Others
<1>5. OwedInv'
  BY <1>1, <1>2, <1>4, OwedKept DEF OwedInv
<1> QED BY <1>2, <1>3, <1>4, <1>5, Quiet

Moves == {<<"submitCheck", "submitPush">>, <<"submitIdle", "submitBump">>,
          <<"submitBump", "submitNotify">>, <<"top", "done">>, <<"none", "done">>,
          <<"top", "pop">>, <<"recheck", "act">>, <<"none", "top">>, <<"tell", "wake">>,
          <<"tell", "top">>, <<"tell", "waitTop">>, <<"spin", "spinActive">>,
          <<"look", "lookActive">>, <<"spinActive", "observe">>, <<"lookActive", "park">>,
          <<"spin", "observe">>, <<"look", "park">>, <<"observe", "look">>,
          <<"park", "parked">>, <<"park", "spin">>}

LEMMA MoveControl ==
  ASSUME NEW t \in Threads, ControlOK(t), NEW l, <<pc[t], l>> \in Moves,
         pc'[t] = l, frame' = frame,
         l \in {"top", "done"} => t \in Workers,
         l \in {"waitTop", "spinActive", "lookActive"} => t \in Clients
  PROVE  /\ ControlOK(t)' /\ l \in Labels
         /\ l \in {"submitCheck", "submitPush"} => pc[t] \in {"submitCheck", "submitPush"}
         /\ l = "submitCount" <=> pc[t] = "submitCount"
         /\ frame[t].task # NoTask => \A p \in Phases : l \in p <=> pc[t] \in p
<1>1. t \in Workers => t \notin Clients
  BY ClientsAssumption
<1>2. l \in Labels
  BY DEF Moves, Labels
<1>3. ControlOK(t)'
  BY <1>1 DEF ControlOK, Moves, InSubmit, Hands, InWaitIdle, Sleeping
<1>4. /\ l \in {"submitCheck", "submitPush"} => pc[t] \in {"submitCheck", "submitPush"}
      /\ l = "submitCount" <=> pc[t] = "submitCount"
  BY DEF Moves
<1>5. frame[t].task # NoTask => \A p \in Phases : l \in p <=> pc[t] \in p
  BY DEF ControlOK, Moves, InSubmit, Hands, InWaitIdle, Sleeping, Phases
<1> QED BY <1>2, <1>3, <1>4, <1>5

LEMMA MoveTo ==
  ASSUME IInv, NEW t \in Threads, NEW l, <<pc[t], l>> \in Moves, Goto(t, l), frame' = frame,
         l \in {"top", "done"} => t \in Workers,
         l \in {"waitTop", "spinActive", "lookActive"} => t \in Clients,
         UNCHANGED <<poolVars, historyVars>>, fresh' \subseteq Threads
  PROVE  IInv'
<1>1. ControlOK(t) /\ Types
  BY DEF IInv, ControlInv
<1>2. l \in Labels
  BY DEF Moves, Labels
<1>3. pc'[t] = l
  BY <1>1, <1>2, Moved
<1>4. /\ ControlOK(t)'
      /\ l \in {"submitCheck", "submitPush"} => pc[t] \in {"submitCheck", "submitPush"}
      /\ l = "submitCount" <=> pc[t] = "submitCount"
      /\ frame[t].task # NoTask => \A p \in Phases : l \in p <=> pc[t] \in p
  BY <1>1, <1>3, MoveControl
<1> QED BY <1>2, <1>4, MoveStep

\* Only workers come to the top of the loop, and only clients wait for the pool
\* to drain.
LEMMA Kinds ==
  ASSUME IInv, NEW t \in Threads
  PROVE  /\ t \in Workers \/ t \in Clients
         /\ ~(t \in Workers /\ t \in Clients)
         /\ pc[t] \in {"top", "pop", "recheck", "done"} => t \in Workers
         /\ pc[t] \in {"waitTop", "waitActive", "waitExit", "spinActive", "lookActive"}
               => t \in Clients
         /\ frame[t].waitFor = "drained" => t \in Clients
         /\ t \in Clients => frame[t].waitFor \in {"none", "drained"}
<1>1. (t \in Workers \/ t \in Clients) /\ ~(t \in Workers /\ t \in Clients)
  BY ClientsAssumption DEF Threads
<1> QED BY <1>1 DEF IInv, ControlInv, ControlOK

LEMMA MovesInv ==
  ASSUME IInv, NEW t \in Threads,
         \/ SubmitAllowed(t) \/ SubmitSomebodyIdle(t) \/ SubmitBump(t) \/ WorkerStops(t)
         \/ TopFetch(t) \/ RecheckClear(t) \/ Tell(t) \/ NonePoll(t) \/ CheckHalf(t)
         \/ CheckFalse(t) \/ Observe(t) \/ Park(t)
  PROVE  IInv'
<1> USE DEF Move
<1>0. /\ t \in Workers \/ t \in Clients
      /\ pc[t] = "top" => t \in Workers
      /\ pc[t] \in {"spinActive", "lookActive"} => t \in Clients
      /\ frame[t].waitFor = "drained" => t \in Clients
      /\ fresh \subseteq Threads
  BY Kinds DEF IInv, Types
<1>1. CASE SubmitAllowed(t)
  BY <1>0, <1>1, MoveTo DEF SubmitAllowed, Moves
<1>2. CASE SubmitSomebodyIdle(t)
  BY <1>0, <1>2, MoveTo DEF SubmitSomebodyIdle, Moves
<1>3. CASE SubmitBump(t)
  BY <1>0, <1>3, MoveTo DEF SubmitBump, Moves
<1>4. CASE WorkerStops(t)
  BY <1>0, <1>4, MoveTo DEF WorkerStops, Moves
<1>5. CASE TopFetch(t)
  BY <1>0, <1>5, MoveTo DEF TopFetch, Moves
<1>6. CASE RecheckClear(t)
  BY <1>0, <1>6, MoveTo DEF RecheckClear, Moves
<1>7. CASE Tell(t)
  <2>1. /\ pc[t] = "tell" /\ UNCHANGED <<poolVars, fresh, frame, historyVars>>
        /\ \E l \in {"wake", "top", "waitTop"} :
              Goto(t, l) /\ (l = "top" => t \in Workers) /\ (l = "waitTop" => t \notin Workers)
    BY <1>7 DEF Tell
  <2> QED BY <1>0, <2>1, MoveTo DEF Moves
<1>8. CASE NonePoll(t)
  BY <1>0, <1>8, MoveTo DEF NonePoll, Moves
<1>9. CASE CheckHalf(t)
  <2>1. CASE pc[t] = "spin" /\ Move(t, "spinActive")
    BY <1>0, <1>9, <2>1, MoveTo DEF CheckHalf, HalfReady, Moves
  <2>2. CASE pc[t] = "look" /\ Move(t, "lookActive")
    BY <1>0, <1>9, <2>2, MoveTo DEF CheckHalf, HalfReady, Moves
  <2> QED BY <1>9, <2>1, <2>2 DEF CheckHalf
<1>10. CASE CheckFalse(t)
  <2>1. CASE pc[t] = "spin" /\ Move(t, "observe")
    BY <1>0, <2>1, MoveTo DEF Moves
  <2>2. CASE pc[t] = "look" /\ Move(t, "park")
    BY <1>0, <2>2, MoveTo DEF Moves
  <2> QED BY <1>10, <2>1, <2>2 DEF CheckFalse
<1>11. CASE Observe(t)
  BY <1>0, <1>11, MoveTo DEF Observe, Moves
<1>12. CASE Park(t)
  <2>1. CASE Move(t, "parked") /\ pc[t] = "park"
    BY <1>0, <2>1, MoveTo DEF Moves
  <2>2. CASE Move(t, "spin") /\ pc[t] = "park"
    BY <1>0, <2>2, MoveTo DEF Moves
  <2> QED BY <1>12, <2>1, <2>2 DEF Park
<1> QED BY <1>1, <1>2, <1>3, <1>4, <1>5, <1>6, <1>7, <1>8, <1>9, <1>10, <1>11, <1>12

----------------------------------------------------------------------------
\* The next operation of a program or of a task.

LEMMA TailOfOps ==
  ASSUME NEW S, NEW s \in Seq(S), s # <<>>, NoneTwice(s)
  PROVE  /\ Head(s) \in S /\ Tail(s) \in Seq(S)
         /\ Submits(Tail(s)) \subseteq Submits(s) /\ NoneTwice(Tail(s))
         /\ \A k \in Tasks : Head(s) = <<"submit", k>>
                             => k \in Submits(s) /\ k \notin Submits(Tail(s))
<1>1. /\ Len(s) \in Nat \ {0} /\ Head(s) = s[1] /\ Head(s) \in S
      /\ Tail(s) \in Seq(S) /\ Len(Tail(s)) = Len(s) - 1
      /\ \A i \in 1..(Len(s) - 1) : Tail(s)[i] = s[i + 1]
  BY HeadTailProperties, EmptySeq, LenProperties
<1>2. \A i \in 1..Len(Tail(s)) : i + 1 \in 1..Len(s) /\ Tail(s)[i] = s[i + 1]
  BY <1>1
<1>3. Submits(Tail(s)) \subseteq Submits(s)
  BY <1>2 DEF Submits
<1>4. NoneTwice(Tail(s))
  <2> SUFFICES ASSUME NEW i \in 1..Len(Tail(s)), NEW j \in 1..Len(Tail(s)),
                      Tail(s)[i] = Tail(s)[j], Tail(s)[i][1] = "submit"
               PROVE  i = j
    BY DEF NoneTwice
  <2>1. i + 1 = j + 1
    BY <1>2 DEF NoneTwice
  <2> QED BY <1>1, <2>1
<1>5. ASSUME NEW k \in Tasks, Head(s) = <<"submit", k>>
      PROVE  k \in Submits(s) /\ k \notin Submits(Tail(s))
  <2>1. 1 \in 1..Len(s) /\ s[1] = <<"submit", k>>
    BY <1>1, <1>5
  <2>2. ASSUME NEW i \in 1..Len(Tail(s)), Tail(s)[i] = <<"submit", k>> PROVE FALSE
    <3>1. i + 1 \in 1..Len(s) /\ s[i + 1] = s[1] /\ s[i + 1][1] = "submit"
      BY <1>2, <2>1, <2>2
    <3>2. i + 1 = 1
      BY <2>1, <3>1 DEF NoneTwice
    <3> QED BY <1>1, <3>2
  <2> QED BY <2>1, <2>2 DEF Submits
<1> QED BY <1>1, <1>3, <1>4, <1>5

LEMMA Advancing ==
  ASSUME IInv, NEW t \in Threads, pc[t] = "run", Ops(t) # <<>>
  PROVE  /\ Advanced(t) \in Frames
         /\ Advanced(t).task = frame[t].task /\ Advanced(t).call = NoCall
         /\ Advanced(t).waitFor = frame[t].waitFor /\ Advanced(t).probe = frame[t].probe
         /\ Advanced(t).draining = frame[t].draining
         /\ frame[t].task # NoTask => Head(Ops(t)) \in TaskOperations
         /\ frame[t].task = NoTask => Head(Ops(t)) \in ClientOperations
         /\ Submits(Advanced(t).todo) \subseteq Submits(frame[t].todo)
         /\ NoneTwice(Advanced(t).todo)
         /\ Submits(Advanced(t).ops) \subseteq Submits(frame[t].ops)
         /\ NoneTwice(Advanced(t).ops)
         /\ \A k \in Tasks : Head(Ops(t)) = <<"submit", k>> =>
               \/ /\ frame[t].task # NoTask /\ k \in Submits(frame[t].ops)
                  /\ k \notin Submits(Advanced(t).ops)
               \/ /\ frame[t].task = NoTask /\ k \in Submits(frame[t].todo)
                  /\ k \notin Submits(Advanced(t).todo)
<1>1. /\ frame[t] \in Frames /\ NoneTwice(frame[t].todo) /\ NoneTwice(frame[t].ops)
      /\ frame[t].call = NoCall
  BY DEF IInv, Types, OwedInv, ControlInv, ControlOK, InSubmit
<1>2. frame[t].todo \in Seq(ClientOperations) /\ frame[t].ops \in Seq(TaskOperations)
  BY <1>1, Fields
<1>3. CASE frame[t].task # NoTask
  <2>1. Ops(t) = frame[t].ops /\ Advanced(t) = [frame[t] EXCEPT !.ops = Tail(frame[t].ops)]
    BY <1>3 DEF Ops, Advanced, InTask
  <2>2. /\ Head(frame[t].ops) \in TaskOperations /\ Tail(frame[t].ops) \in Seq(TaskOperations)
        /\ Submits(Tail(frame[t].ops)) \subseteq Submits(frame[t].ops)
        /\ NoneTwice(Tail(frame[t].ops))
        /\ \A k \in Tasks : Head(frame[t].ops) = <<"submit", k>>
              => k \in Submits(frame[t].ops) /\ k \notin Submits(Tail(frame[t].ops))
    BY <1>1, <1>2, <2>1, TailOfOps
  <2>3. /\ Advanced(t) \in Frames /\ Advanced(t).ops = Tail(frame[t].ops)
        /\ Advanced(t).todo = frame[t].todo /\ Advanced(t).task = frame[t].task
        /\ Advanced(t).call = frame[t].call /\ Advanced(t).waitFor = frame[t].waitFor
        /\ Advanced(t).probe = frame[t].probe /\ Advanced(t).draining = frame[t].draining
    BY <1>1, <2>1, <2>2 DEF Frames
  <2> QED BY <1>1, <1>3, <2>1, <2>2, <2>3
<1>4. CASE frame[t].task = NoTask
  <2>1. Ops(t) = frame[t].todo /\ Advanced(t) = [frame[t] EXCEPT !.todo = Tail(frame[t].todo)]
    BY <1>4 DEF Ops, Advanced, InTask
  <2>2. /\ Head(frame[t].todo) \in ClientOperations
        /\ Tail(frame[t].todo) \in Seq(ClientOperations)
        /\ Submits(Tail(frame[t].todo)) \subseteq Submits(frame[t].todo)
        /\ NoneTwice(Tail(frame[t].todo))
        /\ \A k \in Tasks : Head(frame[t].todo) = <<"submit", k>>
              => k \in Submits(frame[t].todo) /\ k \notin Submits(Tail(frame[t].todo))
    BY <1>1, <1>2, <2>1, TailOfOps
  <2>3. /\ Advanced(t) \in Frames /\ Advanced(t).todo = Tail(frame[t].todo)
        /\ Advanced(t).ops = frame[t].ops /\ Advanced(t).task = frame[t].task
        /\ Advanced(t).call = frame[t].call /\ Advanced(t).waitFor = frame[t].waitFor
        /\ Advanced(t).probe = frame[t].probe /\ Advanced(t).draining = frame[t].draining
    BY <1>1, <2>1, <2>2 DEF Frames
  <2> QED BY <1>1, <1>4, <2>1, <2>2, <2>3
<1> QED BY <1>3, <1>4

LEMMA OpKinds ==
  ASSUME NEW op \in ClientOperations \cup TaskOperations
  PROVE  /\ op[1] = "submit" => \E k \in Tasks : op = <<"submit", k>>
         /\ op[1] \in {"resume", "shutdown", "pause", "submit", "get"} => op \in Operations
         /\ op[1] = "shutdown" => op[2] \in {"Finish", "Discard"}
         /\ op[1] = "throw" => op \notin ClientOperations
         /\ op[1] = "waitIdle" => op \notin TaskOperations
         /\ op # NoCall
<1> QED BY DEF ClientOperations, TaskOperations, Operations, NoCall

----------------------------------------------------------------------------
\* The initial states.

LEMMA NoOps ==
  Submits(<<>>) = {} /\ NoneTwice(<<>>) /\ (\A S : <<>> \in Seq(S))
<1> QED BY EmptySeq DEF Submits, NoneTwice

LEMMA InitFrames ==
  ASSUME Init
  PROVE  /\ IdleFrame \in Frames
         /\ \A t \in Threads : t \in Workers => frame[t] = IdleFrame
         /\ \A t \in Threads : t \in Clients =>
               \E p \in Programs[t] : frame[t] = [IdleFrame EXCEPT !.todo = p]
         /\ frame \in [Threads -> Frames]
<1>1. IdleFrame \in Frames
  BY Sizes, NoOps DEF IdleFrame, Frames, NoCall, NoQueue
<1>2. PICK program \in [Clients -> UNION {Programs[c] : c \in Clients}] :
          /\ \A c \in Clients : program[c] \in Programs[c]
          /\ frame = [t \in Threads |-> IF t \in Workers THEN IdleFrame
                                        ELSE [IdleFrame EXCEPT !.todo = program[t]]]
  BY DEF Init
<1>3. \A t \in Threads : t \in Workers => frame[t] = IdleFrame
  BY <1>2
<1>4. \A t \in Threads : t \in Clients =>
         \E p \in Programs[t] : frame[t] = [IdleFrame EXCEPT !.todo = p]
  BY <1>2, ClientsAssumption
<1>5. ASSUME NEW t \in Threads PROVE frame[t] \in Frames
  <2>1. CASE t \in Workers
    BY <1>1, <1>3, <2>1
  <2>2. CASE t \in Clients
    <3>1. PICK p \in Programs[t] : frame[t] = [IdleFrame EXCEPT !.todo = p]
      BY <1>4, <2>2
    <3>2. p \in Seq(ClientOperations)
      BY <2>2, ProgramsAssumption
    <3> QED BY <1>1, <3>1, <3>2, SetFields
  <2> QED BY <2>1, <2>2 DEF Threads
<1>6. frame \in [Threads -> Frames]
  BY <1>2, <1>5
<1> QED BY <1>1, <1>3, <1>4, <1>6

LEMMA InitOwed ==
  ASSUME Init
  PROVE  OwedInv
<1>1. ASSUME NEW t \in Threads
      PROVE  /\ frame[t].ops = <<>> /\ pc[t] \in {"top", "run"}
             /\ \/ t \in Workers /\ frame[t].todo = <<>>
                \/ t \in Clients /\ frame[t].todo \in Programs[t]
  BY InitFrames DEF Init, IdleFrame, Threads
<1>2. \A k \in Tasks : status[k] = "unsubmitted"
  BY DEF Init
<1>3. ASSUME NEW o \in Owners, Owed[o] # {}
      PROVE  \/ /\ o[1] = "todo" /\ o[2] \in Clients
                /\ \E p \in Programs[o[2]] : Owed[o] = Submits(p)
             \/ o[1] = "body" /\ o[2] \in Tasks /\ Owed[o] = Submits(Bodies[o[2]])
  <2>1. \/ o[1] = "todo" /\ o[2] \in Threads
        \/ o[1] = "ops" /\ o[2] \in Threads
        \/ o[1] = "call" /\ o[2] \in Threads
        \/ o[1] = "body" /\ o[2] \in Tasks
    BY OwnerKinds
  <2>2. CASE o[1] = "todo"
    BY <1>1, <1>3, <2>1, <2>2, NoOps DEF Owed
  <2>3. CASE o[1] = "ops"
    BY <1>1, <1>3, <2>1, <2>3, NoOps DEF Owed
  <2>4. CASE o[1] = "call"
    BY <1>1, <1>3, <2>1, <2>4 DEF Owed
  <2>5. CASE o[1] = "body"
    BY <1>2, <2>1, <2>5 DEF Owed
  <2> QED BY <2>1, <2>2, <2>3, <2>4, <2>5
<1>4. ASSUME NEW o \in Owners, NEW p \in Owners, o # p PROVE Owed[o] \cap Owed[p] = {}
  <2>1. CASE Owed[o] = {} \/ Owed[p] = {}
    BY <2>1
  <2>2. CASE Owed[o] # {} /\ Owed[p] # {}
    <3>1. o = <<o[1], o[2]>> /\ p = <<p[1], p[2]>>
      BY DEF Owners
    <3> QED BY <1>3, <1>4, <2>2, <3>1, SubmittedOnce
  <2> QED BY <2>1, <2>2
<1>5. \A o \in Owners : Owed[o] \subseteq Tasks
  BY DEF Owed, Submits
<1>6. \A t \in Threads : NoneTwice(frame[t].todo) /\ NoneTwice(frame[t].ops)
  BY <1>1, NoOps, SubmittedOnce
<1> QED BY <1>2, <1>4, <1>5, <1>6 DEF OwedInv

LEMMA InitInv == Init => IInv
<1> SUFFICES ASSUME Init PROVE IInv
  OBVIOUS
<1>1. ASSUME NEW t \in Threads
      PROVE  /\ frame[t].ops = <<>> /\ frame[t].task = NoTask /\ frame[t].call = NoCall
             /\ frame[t].waitFor = "none" /\ frame[t].draining = FALSE /\ frame[t].probe = 0
  BY InitFrames DEF IdleFrame, Threads
<1>2. Types
  <2>1. pc \in [Threads -> Labels]
    BY DEF Init, Labels
  <2>2. local \in [Workers -> Seq(Tasks)] /\ shard \in [Shards -> Seq(Tasks)]
    BY NoOps DEF Init
  <2>3. frame \in [Threads -> Frames]
    BY InitFrames
  <2>4. /\ pendingTasks \in 0..(SizeModulus - 1) /\ joining \in 0..WorkerCount
        /\ roundRobin \in Shards
    BY Sizes DEF Init
  <2>5. status \in [Tasks -> {"unsubmitted", "refused", "queued", "running", "done",
                             "threw"}]
    BY DEF Init
  <2>6. runState \in {"Running", "Finish", "Discard"} /\ paused \in BOOLEAN
    BY DEF Init
  <2>7. /\ activeTasks \in Int /\ idleWorkers \in Int /\ waitIdleWaiters \in Int
        /\ exceptionCounter \in Int
    BY DEF Init
  <2>8. /\ fresh \subseteq Threads /\ selfDetach \subseteq Workers
        /\ accepted \subseteq Tasks /\ passed \subseteq Threads
    BY DEF Init
  <2> QED BY <2>1, <2>2, <2>3, <2>4, <2>5, <2>6, <2>7, <2>8 DEF Types
<1>3. ControlInv
  <2> SUFFICES ASSUME NEW t \in Threads PROVE ControlOK(t)
    BY DEF ControlInv
  <2>1. pc[t] = IF t \in Workers THEN "top" ELSE "run"
    BY DEF Init
  <2>2. t \in Workers <=> t \notin Clients
    BY ClientsAssumption DEF Threads
  <2> QED BY <1>1, <2>1, <2>2 DEF ControlOK, InSubmit, Hands, InWaitIdle, Sleeping, NoCall
<1>4. StatusInv
  BY <1>1 DEF StatusInv, StatusOK
<1>5. ASSUME NEW q \in Queues PROVE Len(Queue[q]) = 0 /\ Content[q] = {}
  <2>1. \/ q[1] = "local" /\ q[2] \in Workers
        \/ q[1] = "shard" /\ q[2] \in Shards
    BY DEF Queues
  <2>2. Queue[q] = <<>>
    BY <2>1 DEF Init, Queue
  <2>3. Len(Queue[q]) = 0
    BY <2>2
  <2> QED BY <2>3 DEF Content
<1>6. PlaceInv
  <2>1. \A k \in Tasks : status[k] # "queued"
    BY DEF Init
  <2>2. \A q \in Queues : \A i, j \in 1..Len(Queue[q]) : Queue[q][i] = Queue[q][j] => i = j
    BY <1>5
  <2> QED BY <1>1, <1>5, <2>1, <2>2 DEF PlaceInv
<1>7. CountInv
  <2>1. /\ Queued = {} /\ Counting = {} /\ Executing = {} /\ Idling = {} /\ Waiting = {}
        /\ Threw = {} /\ Uncounted = {}
    BY <1>1 DEF Init, Queued, Counting, Executing, Idling, Waiting, Threw, Uncounted, Threads
  <2>2. Cardinality({}) = 0 /\ 0 % SizeModulus = 0
    BY Sizes, FS_EmptySet
  <2> QED BY <2>1, <2>2 DEF Init, CountInv, Wrap
<1> QED BY <1>2, <1>3, <1>4, <1>6, <1>7, InitOwed DEF IInv

----------------------------------------------------------------------------
\* Steps that change a thread's locals, but submit, start and count nothing.

RestTypes ==
    /\ runState \in {"Running", "Finish", "Discard"} /\ paused \in BOOLEAN
    /\ roundRobin \in Shards /\ fresh \subseteq Threads
    /\ joining \in 0..WorkerCount /\ selfDetach \subseteq Workers
    /\ accepted \subseteq Tasks /\ passed \subseteq Threads

LEMMA QuietStep ==
  ASSUME IInv, NEW t \in Threads, NEW f \in Frames, NEW l \in Labels,
         frame' = [frame EXCEPT ![t] = f], pc' \in [Threads -> Labels], pc'[t] = l,
         \A u \in Threads \ {t} : pc'[u] = pc[u] \/ (pc[u] = "parked" /\ pc'[u] = "spin"),
         UNCHANGED <<countVars, local, shard, status>>, RestTypes',
         f.task = frame[t].task, f.draining = frame[t].draining,
         t \in Workers => (f.waitFor = "none" <=> frame[t].waitFor = "none"),
         Submits(f.todo) \subseteq Submits(frame[t].todo), NoneTwice(f.todo),
         Submits(f.ops) \subseteq Submits(frame[t].ops), NoneTwice(f.ops),
         l \notin {"submitCheck", "submitPush"},
         l = "submitCount" <=> pc[t] = "submitCount",
         frame[t].task # NoTask => \A p \in Phases : l \in p <=> pc[t] \in p,
         ControlOK(t)'
  PROVE  IInv'
<1> USE DEF countVars
<1>1. Types /\ OwedInv
  BY DEF IInv
<1>2. /\ frame' \in [Threads -> Frames] /\ frame'[t] = f
      /\ \A u \in Threads \ {t} : frame'[u] = frame[u]
  BY <1>1, NewFrame
<1>3. Types'
  BY <1>1, <1>2 DEF Types, RestTypes
<1>4. Others(t)
  BY <1>2 DEF Others
<1>5. OwedInv'
  BY <1>1, <1>2, <1>4, OwedKept
<1> QED BY <1>2, <1>3, <1>4, <1>5, Quiet

\* A thread that goes from one place to another with other locals.
LEMMA QuietGoto ==
  ASSUME IInv, NEW t \in Threads, NEW f \in Frames, NEW l \in Labels,
         frame' = [frame EXCEPT ![t] = f], Goto(t, l),
         UNCHANGED <<countVars, local, shard, status>>, RestTypes',
         f.task = frame[t].task, f.draining = frame[t].draining,
         t \in Workers => (f.waitFor = "none" <=> frame[t].waitFor = "none"),
         Submits(f.todo) \subseteq Submits(frame[t].todo), NoneTwice(f.todo),
         Submits(f.ops) \subseteq Submits(frame[t].ops), NoneTwice(f.ops),
         l \notin {"submitCheck", "submitPush"},
         l = "submitCount" <=> pc[t] = "submitCount",
         frame[t].task # NoTask => \A p \in Phases : l \in p <=> pc[t] \in p,
         pc'[t] = l /\ frame'[t] = f => ControlOK(t)'
  PROVE  IInv'
<1>1. Types
  BY DEF IInv
<1>2. /\ pc' \in [Threads -> Labels] /\ pc'[t] = l
      /\ \A u \in Threads \ {t} : pc'[u] = pc[u]
  BY <1>1, Moved
<1>3. frame'[t] = f
  BY <1>1, NewFrame
<1> QED BY <1>2, <1>3, QuietStep

\* What every step of a thread may use.
LEMMA Facts ==
  ASSUME IInv, NEW t \in Threads
  PROVE  /\ frame[t] \in Frames /\ pc[t] \in Labels /\ ControlOK(t) /\ RestTypes
         /\ frame \in [Threads -> Frames] /\ pc \in [Threads -> Labels]
         /\ NoneTwice(frame[t].todo) /\ NoneTwice(frame[t].ops)
<1> QED BY DEF IInv, Types, RestTypes, OwedInv, ControlInv

LEMMA Stays ==
  ASSUME IInv, NEW t \in Threads
  PROVE  /\ pc' = pc => Goto(t, pc[t])
         /\ frame' = frame => frame' = [frame EXCEPT ![t] = frame[t]]
<1> QED BY Facts DEF Goto

LEMMA AdvanceInv ==
  ASSUME IInv, NEW t \in Threads, Pause(t) \/ ShutdownLost(t) \/ Get(t) \/ Throw(t)
  PROVE  IInv'
<1> USE DEF poolVars, historyVars, stateVars, queueVars, joinVars
<1>1. PICK op \in {"pause", "shutdown", "get", "throw"} :
         /\ AtOp(t, op) /\ Advance(t) /\ UNCHANGED <<countVars, local, shard, status>>
         /\ IF op = "throw" THEN Goto(t, "threw") ELSE pc' = pc
  BY DEF Pause, ShutdownLost, Get, Throw
<1>2. /\ pc[t] = "run" /\ Ops(t) # <<>> /\ Head(Ops(t))[1] = op
      /\ frame' = [frame EXCEPT ![t] = Advanced(t)]
  BY <1>1 DEF AtOp, Advance
<1>3. RestTypes'
  BY Facts, <1>1 DEF Pause, ShutdownLost, Get, Throw, RestTypes
<1>4. op = "throw" => frame[t].task # NoTask
  BY <1>2, Advancing, OpKinds
<1>5. PICK l \in {"run", "threw"} : Goto(t, l) /\ (l = "threw" => frame[t].task # NoTask)
  BY <1>1, <1>2, <1>4, Stays
<1>6. ASSUME pc'[t] = l, frame'[t] = Advanced(t) PROVE ControlOK(t)'
  BY <1>2, <1>5, <1>6, Facts, Advancing, Kinds
  DEF ControlOK, InSubmit, Hands, InWaitIdle, Sleeping
<1>7. l \in Labels /\ (frame[t].task # NoTask => \A p \in Phases : l \in p <=> pc[t] \in p)
  BY <1>2, <1>5 DEF Labels, Phases, InSubmit
<1> QED BY <1>1, <1>2, <1>3, <1>5, <1>6, <1>7, QuietGoto, Advancing

LEMMA SetCall ==
  ASSUME NEW f \in Frames, NEW c \in Operations \cup {NoCall}
  PROVE  LET g == [f EXCEPT !.call = c]
         IN  /\ g \in Frames /\ g.call = c /\ g.todo = f.todo /\ g.ops = f.ops
             /\ g.task = f.task /\ g.draining = f.draining /\ g.waitFor = f.waitFor
             /\ g.probe = f.probe
<1> QED BY DEF Frames

LEMMA CallInv ==
  ASSUME IInv, NEW t \in Threads, Resume(t) \/ ShutdownWon(t)
  PROVE  IInv'
<1> USE DEF poolVars, historyVars, stateVars, queueVars, joinVars
<1> DEFINE f == [Advanced(t) EXCEPT !.call = Head(Ops(t))]
<1>1. PICK op \in {"resume", "shutdown"} :
         /\ AtOp(t, op) /\ frame' = [frame EXCEPT ![t] = f] /\ Goto(t, "wake")
         /\ UNCHANGED <<countVars, local, shard, status>>
  BY DEF Resume, ShutdownWon
<1>2. pc[t] = "run" /\ Ops(t) # <<>> /\ Head(Ops(t))[1] = op
  BY <1>1 DEF AtOp
<1>3. /\ Head(Ops(t)) \in Operations
      /\ op = "shutdown" => Head(Ops(t))[2] \in {"Finish", "Discard"}
  BY <1>2, Advancing, OpKinds
<1>4. RestTypes'
  BY Facts, <1>1, <1>2, <1>3 DEF Resume, ShutdownWon, AtOp, RestTypes
<1>5. /\ f \in Frames /\ f.call = Head(Ops(t)) /\ f.todo = Advanced(t).todo
      /\ f.ops = Advanced(t).ops /\ f.task = frame[t].task /\ f.waitFor = frame[t].waitFor
      /\ f.draining = frame[t].draining /\ f.probe = frame[t].probe
  BY <1>2, <1>3, Advancing, SetCall
<1>6. Head(Ops(t)) # NoCall
  BY <1>2 DEF NoCall
<1> HIDE DEF f
<1>7. ASSUME pc'[t] = "wake", frame'[t] = f PROVE ControlOK(t)'
  BY <1>2, <1>5, <1>6, <1>7, Facts, Kinds
  DEF ControlOK, InSubmit, Hands, InWaitIdle, Sleeping
<1>8. "wake" \in Labels
      /\ (frame[t].task # NoTask => \A p \in Phases : "wake" \in p <=> pc[t] \in p)
  BY <1>2 DEF Labels, Phases, InSubmit
<1>9. /\ Submits(f.todo) \subseteq Submits(frame[t].todo) /\ NoneTwice(f.todo)
      /\ Submits(f.ops) \subseteq Submits(frame[t].ops) /\ NoneTwice(f.ops)
  BY <1>2, <1>5, Advancing
<1> QED BY <1>1, <1>2, <1>4, <1>5, <1>7, <1>8, <1>9, QuietGoto

LEMMA WakeAllInv ==
  ASSUME IInv, NEW t \in Threads, WakeAll(t)
  PROVE  IInv'
<1> USE DEF poolVars, historyVars, stateVars, queueVars, joinVars
<1> DEFINE c == frame[t].call
           f == [frame[t] EXCEPT !.call = IF c[1] = "resume" THEN NoCall ELSE c]
           l == CASE c[1] = "resume" -> "run"
                  [] c[1] = "shutdown" -> "join"
                  [] OTHER -> IF t \in Workers THEN "top" ELSE "waitTop"
<1>1. /\ pc[t] = "wake" /\ frame' = [frame EXCEPT ![t] = f] /\ fresh' = {}
      /\ pc' = [u \in Threads |-> IF u = t THEN l
                                  ELSE IF pc[u] = "parked" THEN "spin" ELSE pc[u]]
      /\ UNCHANGED <<poolVars, historyVars>>
  BY Facts DEF WakeAll
<1>2. c \in Operations \cup {NoCall} /\ NoCall[1] = "none"
  BY Facts, Fields DEF NoCall
<1>3. \/ c = NoCall /\ l = (IF t \in Workers THEN "top" ELSE "waitTop")
      \/ c[1] = "resume" /\ l = "run"
      \/ c[1] = "shutdown" /\ l = "join"
  BY <1>1, <1>2, Facts DEF ControlOK
<1>4. /\ f \in Frames /\ f.call = (IF c[1] = "resume" THEN NoCall ELSE c)
      /\ f.todo = frame[t].todo /\ f.ops = frame[t].ops /\ f.task = frame[t].task
      /\ f.draining = frame[t].draining /\ f.waitFor = frame[t].waitFor
      /\ f.probe = frame[t].probe
  <2>1. (IF c[1] = "resume" THEN NoCall ELSE c) \in Operations \cup {NoCall}
    BY <1>2
  <2> QED BY <2>1, Facts, SetCall
<1> HIDE DEF f, l
<1>5. l \in Labels /\ l \in {"run", "join", "top", "waitTop"}
  BY <1>3 DEF Labels
<1>6. /\ pc' \in [Threads -> Labels] /\ pc'[t] = l
      /\ \A u \in Threads \ {t} : pc'[u] = pc[u] \/ (pc[u] = "parked" /\ pc'[u] = "spin")
  BY <1>1, <1>5, Facts DEF Labels
<1>7. RestTypes'
  BY <1>1, Facts DEF RestTypes
<1>8. frame'[t] = f
  BY <1>1, Facts
<1>9. ControlOK(t)'
  BY <1>1, <1>2, <1>3, <1>4, <1>6, <1>8, Facts, Kinds
  DEF ControlOK, InSubmit, Hands, InWaitIdle, Sleeping
<1>10. frame[t].task # NoTask => \A p \in Phases : l \in p <=> pc[t] \in p
  BY <1>1, <1>3, Facts DEF Phases, InSubmit, ControlOK
<1>11. UNCHANGED <<countVars, local, shard, status>>
  BY <1>1
<1>12. l \notin {"submitCheck", "submitPush"} /\ l # "submitCount" /\ pc[t] # "submitCount"
  BY <1>1, <1>5
<1>13. /\ frame' = [frame EXCEPT ![t] = f] /\ f \in Frames
       /\ f.task = frame[t].task /\ f.draining = frame[t].draining
       /\ f.waitFor = frame[t].waitFor
       /\ Submits(f.todo) \subseteq Submits(frame[t].todo) /\ NoneTwice(f.todo)
       /\ Submits(f.ops) \subseteq Submits(frame[t].ops) /\ NoneTwice(f.ops)
  BY <1>1, <1>4, Facts
<1> QED BY <1>5, <1>6, <1>7, <1>9, <1>10, <1>11, <1>12, <1>13, QuietStep

LEMMA JoinWorkerInv ==
  ASSUME IInv, NEW t \in Threads, JoinWorker(t)
  PROVE  IInv'
<1> USE DEF poolVars, historyVars, stateVars, queueVars, joinVars
<1>1. /\ UNCHANGED <<countVars, local, shard, status>> /\ UNCHANGED <<pc, frame>>
      /\ pc[t] = "join"
  BY DEF JoinWorker
<1>2. RestTypes'
  <2>1. joining' = joining + 1 /\ joining < WorkerCount /\ joining \in 0..WorkerCount
        /\ selfDetach \subseteq Workers
    BY Facts DEF JoinWorker, RestTypes
  <2>2. joining' \in 0..WorkerCount /\ joining \in Workers
    BY <2>1, Sizes DEF Workers
  <2>3. selfDetach' \subseteq Workers
    BY <2>1, <2>2 DEF JoinWorker
  <2> QED BY <2>2, <2>3, Facts DEF JoinWorker, RestTypes
<1>3. Goto(t, "join") /\ frame' = [frame EXCEPT ![t] = frame[t]]
  BY <1>1, Stays
<1>4. ControlOK(t)'
  BY <1>1, Facts DEF ControlOK
<1> QED BY <1>1, <1>2, <1>3, <1>4, Facts, QuietGoto

\* The end of a call.
LEMMA ReturnInv ==
  ASSUME IInv, NEW t \in Threads,
         ShutdownReturn(t) \/ SubmitNobodyIdle(t) \/ SubmitNotify(t)
  PROVE  IInv'
<1> USE DEF poolVars, historyVars, stateVars, queueVars, joinVars
<1> DEFINE f == [frame[t] EXCEPT !.call = NoCall]
<1>1. /\ pc[t] \in {"join", "submitIdle", "submitNotify"}
      /\ frame' = [frame EXCEPT ![t] = f]
      /\ UNCHANGED <<countVars, local, shard, status, fresh, roundRobin, stateVars, joinVars,
                     passed>>
      /\ accepted' = accepted \/ (accepted' = accepted \cup {frame[t].call[2]}
                                  /\ pc[t] \in {"submitIdle", "submitNotify"})
  BY Facts DEF ShutdownReturn, SubmitNobodyIdle, SubmitNotify, SubmitReturn
<1>2. /\ f \in Frames /\ f.call = NoCall
      /\ f.todo = frame[t].todo /\ f.ops = frame[t].ops /\ f.task = frame[t].task
      /\ f.draining = frame[t].draining /\ f.waitFor = frame[t].waitFor
      /\ f.probe = frame[t].probe
  BY Facts, SetCall
<1> HIDE DEF f
<1>3. /\ pc' \in [Threads -> Labels] /\ pc'[t] = "run"
      /\ \A u \in Threads \ {t} : pc'[u] = pc[u] \/ (pc[u] = "parked" /\ pc'[u] = "spin")
  <2>1. "run" \in Labels /\ "spin" \in Labels
    BY DEF Labels
  <2>2. CASE Goto(t, "run")
    BY <2>1, <2>2, Facts DEF Goto
  <2>3. CASE /\ pc[t] = "submitNotify"
             /\ \E u \in {v \in Threads : pc[v] = "parked"} :
                 pc' = [pc EXCEPT ![t] = "run",
                                  ![u] = IF u \in fresh THEN "parked" ELSE "spin"]
    <3>1. PICK u \in Threads : /\ pc[u] = "parked"
             /\ pc' = [pc EXCEPT ![t] = "run",
                                 ![u] = IF u \in fresh THEN "parked" ELSE "spin"]
      BY <2>3
    <3>2. u # t
      BY <2>3, <3>1
    <3> QED BY <2>1, <3>1, <3>2, Facts
  <2> QED BY <2>2, <2>3 DEF ShutdownReturn, SubmitNobodyIdle, SubmitNotify
<1>4. RestTypes'
  <2>1. pc[t] \in {"submitIdle", "submitNotify"} => frame[t].call[2] \in Tasks
    BY Facts DEF ControlOK, InSubmit
  <2> QED BY <1>1, <2>1, Facts DEF RestTypes
<1>5. frame'[t] = f
  BY <1>1, Facts
<1>6. ControlOK(t)'
  BY <1>1, <1>2, <1>3, <1>5, Facts, Kinds
  DEF ControlOK, InSubmit, Hands, InWaitIdle, Sleeping
<1>7. frame[t].task # NoTask => \A p \in Phases : "run" \in p <=> pc[t] \in p
  BY <1>1 DEF Phases, InSubmit
<1>8. "run" \in Labels
  BY DEF Labels
<1>9. UNCHANGED <<countVars, local, shard, status>> /\ pc[t] # "submitCount"
  BY <1>1
<1>10. /\ frame' = [frame EXCEPT ![t] = f] /\ f \in Frames
       /\ f.task = frame[t].task /\ f.draining = frame[t].draining
       /\ f.waitFor = frame[t].waitFor
       /\ Submits(f.todo) \subseteq Submits(frame[t].todo) /\ NoneTwice(f.todo)
       /\ Submits(f.ops) \subseteq Submits(frame[t].ops) /\ NoneTwice(f.ops)
  BY <1>1, <1>2, Facts
<1> QED BY <1>3, <1>4, <1>6, <1>7, <1>8, <1>9, <1>10, QuietStep

----------------------------------------------------------------------------
\* The scan for a task, and the waits of a thread in waitIdle().

LEMMA SetOffset ==
  ASSUME NEW f \in Frames, NEW o \in Workers
  PROVE  LET g == [f EXCEPT !.offset = o]
         IN  /\ g \in Frames /\ g.call = f.call /\ g.todo = f.todo /\ g.ops = f.ops
             /\ g.task = f.task /\ g.draining = f.draining
             /\ g.waitFor = f.waitFor /\ g.probe = f.probe
<1> QED BY DEF Frames

LEMMA SetProbe ==
  ASSUME NEW f \in Frames, NEW p \in Workers \cup Shards
  PROVE  LET g == [f EXCEPT !.probe = p]
         IN  /\ g \in Frames /\ g.call = f.call /\ g.todo = f.todo /\ g.ops = f.ops
             /\ g.task = f.task /\ g.draining = f.draining
             /\ g.waitFor = f.waitFor /\ g.probe = p
<1> QED BY DEF Frames

LEMMA SetWait ==
  ASSUME NEW f \in Frames, NEW w \in {"none", "resumed", "work", "drained"}
  PROVE  LET g == [f EXCEPT !.waitFor = w]
         IN  /\ g \in Frames /\ g.call = f.call /\ g.todo = f.todo /\ g.ops = f.ops
             /\ g.task = f.task /\ g.draining = f.draining
             /\ g.waitFor = w /\ g.probe = f.probe
<1> QED BY DEF Frames

\* A thread without a task that scans, or waits for the pool to drain.
LEMMA ScanGoto ==
  ASSUME IInv, NEW t \in Threads, NEW f \in Frames, NEW l \in Labels,
         frame' = [frame EXCEPT ![t] = f], Goto(t, l),
         UNCHANGED <<poolVars, historyVars>>, fresh' \subseteq Threads,
         frame[t].task = NoTask, pc[t] # "submitCount",
         l \notin {"submitCheck", "submitPush", "submitCount"},
         f.call = frame[t].call, f.todo = frame[t].todo, f.ops = frame[t].ops,
         f.task = frame[t].task, f.draining = frame[t].draining,
         t \in Workers => f.waitFor = frame[t].waitFor,
         pc'[t] = l /\ frame'[t] = f => ControlOK(t)'
  PROVE  IInv'
<1> USE DEF poolVars, historyVars, stateVars, queueVars, joinVars
<1>1. RestTypes'
  BY Facts DEF RestTypes
<1>2. UNCHANGED <<countVars, local, shard, status>>
  OBVIOUS
<1>3. /\ Submits(f.todo) \subseteq Submits(frame[t].todo) /\ NoneTwice(f.todo)
      /\ Submits(f.ops) \subseteq Submits(frame[t].ops) /\ NoneTwice(f.ops)
  BY Facts
<1> QED BY <1>1, <1>2, <1>3, QuietGoto

Scans == {<<"pop", "steal">>, <<"pop", "inject">>, <<"steal", "steal">>, <<"steal", "inject">>,
          <<"inject", "inject">>, <<"inject", "none">>, <<"none", "spin">>,
          <<"waitTop", "waitExit">>, <<"waitTop", "waitActive">>, <<"waitTop", "steal">>,
          <<"waitActive", "waitExit">>, <<"waitActive", "steal">>,
          <<"spin", "waitTop">>, <<"look", "waitTop">>, <<"spinActive", "waitTop">>,
          <<"lookActive", "waitTop">>}

LEMMA ScanControl ==
  ASSUME NEW t \in Threads, ControlOK(t), NEW l, <<pc[t], l>> \in Scans,
         pc'[t] = l, frame'[t].call = frame[t].call, frame'[t].task = frame[t].task,
         frame'[t].draining = frame[t].draining,
         l \notin {"steal", "inject"} => frame'[t].probe = 0,
         l = "steal" => frame'[t].probe \in Workers,
         l = "inject" => frame'[t].probe \in Shards,
         l \in {"spin", "waitTop"} => t \in Clients,
         l = "spin" => frame'[t].waitFor = "drained",
         l = "waitTop" => frame'[t].waitFor = "none",
         l \notin {"spin", "waitTop"} => frame'[t].waitFor = frame[t].waitFor
  PROVE  ControlOK(t)'
<1>1. t \in Workers => t \notin Clients
  BY ClientsAssumption
<1>2. /\ pc[t] \in {"pop", "steal", "inject", "none", "waitTop", "waitActive", "spin",
                    "look", "spinActive", "lookActive"}
      /\ l \in {"steal", "inject", "none", "spin", "waitTop", "waitExit", "waitActive"}
      /\ pc[t] \in {"waitTop", "waitActive"} \/ l = "waitTop" \/ l = "spin"
         \/ l \in {"steal", "inject", "none"}
      /\ l \in {"waitExit", "waitActive"} => pc[t] \in {"waitTop", "waitActive"}
      /\ pc[t] \in {"pop", "waitTop", "waitActive", "steal", "inject"} <=>
            l \notin {"spin", "waitTop"}
      /\ pc[t] = "pop" => l \notin {"spin", "waitTop"}
  BY DEF Scans
<1> QED BY <1>1, <1>2 DEF ControlOK, InSubmit, Hands, InWaitIdle, Sleeping

\* A step of the scan, or of waitIdle().
LEMMA ScanTo ==
  ASSUME IInv, NEW t \in Threads, NEW l, <<pc[t], l>> \in Scans,
         NEW f \in Frames, frame' = [frame EXCEPT ![t] = f], Goto(t, l),
         UNCHANGED <<poolVars, historyVars>>, fresh' \subseteq Threads,
         f.call = frame[t].call, f.todo = frame[t].todo, f.ops = frame[t].ops,
         f.task = frame[t].task, f.draining = frame[t].draining,
         l \notin {"steal", "inject"} => f.probe = 0,
         l = "steal" => f.probe \in Workers, l = "inject" => f.probe \in Shards,
         l \in {"spin", "waitTop"} => t \in Clients,
         l = "spin" => f.waitFor = "drained", l = "waitTop" => f.waitFor = "none",
         l \notin {"spin", "waitTop"} => f.waitFor = frame[t].waitFor
  PROVE  IInv'
<1>1. /\ pc[t] \in InWaitIdle \cup {"pop"} /\ pc[t] # "submitCount"
      /\ l \in Labels /\ l \notin {"submitCheck", "submitPush", "submitCount"}
  BY DEF Scans, Labels, InWaitIdle, Sleeping
<1>2. frame[t].task = NoTask
  BY <1>1, Facts DEF ControlOK
<1>3. ASSUME pc'[t] = l, frame'[t] = f PROVE ControlOK(t)'
  BY <1>3, Facts, ScanControl
<1>4. t \in Workers => f.waitFor = frame[t].waitFor
  BY Kinds
<1> QED BY <1>1, <1>2, <1>3, <1>4, ScanGoto

LEMMA ScansInv ==
  ASSUME IInv, NEW t \in Threads,
         \/ PopNothing(t) \/ StealMiss(t) \/ InjectMiss(t) \/ NoneDrained(t)
         \/ WaitTop(t) \/ WaitActive(t)
  PROVE  IInv'
<1> DEFINE F == frame[t]
<1>. F \in Frames
  BY Facts
<1>s. /\ <<"pop", "steal">> \in Scans /\ <<"pop", "inject">> \in Scans
      /\ <<"steal", "steal">> \in Scans /\ <<"steal", "inject">> \in Scans
      /\ <<"inject", "inject">> \in Scans /\ <<"inject", "none">> \in Scans
      /\ <<"none", "spin">> \in Scans /\ <<"waitTop", "waitActive">> \in Scans
      /\ \A l \in {"waitTop", "waitActive"} :
            <<l, "waitExit">> \in Scans /\ <<l, "steal">> \in Scans
  BY DEF Scans
<1>0. /\ F \in Frames /\ fresh \subseteq Threads /\ ControlOK(t) /\ 0 \in Workers /\ 0 \in Shards
      /\ WorkerCount \in Nat \ {0} /\ ShardCount \in Nat \ {0}
      /\ frame' = frame => frame' = [frame EXCEPT ![t] = F]
      /\ pc' = pc => Goto(t, pc[t])
  BY Facts, Sizes, Stays DEF RestTypes
<1>1. CASE PopNothing(t)
  <2>1. pc[t] = "pop" /\ UNCHANGED <<poolVars, fresh, historyVars>> /\ F.probe = 0
    BY <1>0, <1>1 DEF PopNothing, Move, ControlOK
  <2>2. CASE Goto(t, "inject") /\ UNCHANGED frame
    BY <1>0, <2>1, <2>2, <1>s, ScanTo
  <2>3. CASE /\ Goto(t, "steal")
             /\ \E offset \in 1..(WorkerCount - 1) :
                   frame' = [frame EXCEPT ![t].offset = offset]
    <3>1. PICK offset \in 1..(WorkerCount - 1) : frame' = [frame EXCEPT ![t].offset = offset]
      BY <2>3
    <3>2. offset \in Workers
      BY <1>0, <3>1 DEF Workers
    <3> DEFINE f == [F EXCEPT !.offset = offset]
    <3>3. frame' = [frame EXCEPT ![t] = f]
      BY <3>1, Facts
    <3>4. /\ f \in Frames /\ f.call = F.call /\ f.todo = F.todo /\ f.ops = F.ops
          /\ f.task = F.task /\ f.draining = F.draining /\ f.waitFor = F.waitFor
          /\ f.probe = F.probe
      BY <3>2, SetOffset
    <3> HIDE DEF f
    <3> QED BY <1>0, <2>1, <2>3, <3>3, <3>4, <1>s, ScanTo
  <2> QED BY <1>1, <2>2, <2>3 DEF PopNothing
<1>2. CASE StealMiss(t)
  <2>1. pc[t] = "steal" /\ UNCHANGED <<poolVars, fresh, historyVars>> /\ F.probe \in Workers
    BY <1>0, <1>2 DEF StealMiss, ControlOK
  <2>2. CASE /\ F.probe + 1 < Victims(t) /\ UNCHANGED pc
             /\ frame' = [frame EXCEPT ![t].probe = @ + 1]
    <3> DEFINE f == [F EXCEPT !.probe = F.probe + 1]
    <3>1. frame' = [frame EXCEPT ![t] = f]
      BY <2>2, Facts
    <3>2. F.probe + 1 \in Workers
      BY <1>0, <2>1, <2>2 DEF Victims, Workers
    <3>3. /\ f \in Frames /\ f.call = F.call /\ f.todo = F.todo /\ f.ops = F.ops
          /\ f.task = F.task /\ f.draining = F.draining /\ f.waitFor = F.waitFor
          /\ f.probe \in Workers
      BY <3>2, SetProbe
    <3> HIDE DEF f
    <3> QED BY <1>0, <2>1, <2>2, <3>1, <3>3, <1>s, ScanTo
  <2>3. CASE frame' = [frame EXCEPT ![t].probe = 0, ![t].offset = 0] /\ Goto(t, "inject")
    <3> DEFINE f == [F EXCEPT !.probe = 0, !.offset = 0]
    <3>1. frame' = [frame EXCEPT ![t] = f]
      BY <2>3, Facts
    <3>2. /\ f \in Frames /\ f.call = F.call /\ f.todo = F.todo /\ f.ops = F.ops
          /\ f.task = F.task /\ f.draining = F.draining /\ f.waitFor = F.waitFor
          /\ f.probe = 0
      <4>1. 0 \in Workers \cup Shards /\ 0 \in Workers
        BY Sizes
      <4> QED BY <4>1 DEF Frames
    <3> HIDE DEF f
    <3> QED BY <1>0, <2>1, <2>3, <3>1, <3>2, <1>s, ScanTo
  <2> QED BY <1>2, <2>2, <2>3 DEF StealMiss
<1>3. CASE InjectMiss(t)
  <2>1. pc[t] = "inject" /\ UNCHANGED <<poolVars, fresh, historyVars>> /\ F.probe \in Shards
    BY <1>0, <1>3 DEF InjectMiss, ControlOK
  <2>2. CASE /\ F.probe + 1 < ShardCount /\ UNCHANGED pc
             /\ frame' = [frame EXCEPT ![t].probe = @ + 1]
    <3> DEFINE f == [F EXCEPT !.probe = F.probe + 1]
    <3>1. frame' = [frame EXCEPT ![t] = f]
      BY <2>2, Facts
    <3>2. F.probe + 1 \in Shards
      BY <1>0, <2>1, <2>2 DEF Shards
    <3>3. /\ f \in Frames /\ f.call = F.call /\ f.todo = F.todo /\ f.ops = F.ops
          /\ f.task = F.task /\ f.draining = F.draining /\ f.waitFor = F.waitFor
          /\ f.probe \in Shards
      BY <3>2, SetProbe
    <3> HIDE DEF f
    <3> QED BY <1>0, <2>1, <2>2, <3>1, <3>3, <1>s, ScanTo
  <2>3. CASE frame' = [frame EXCEPT ![t].probe = 0] /\ Goto(t, "none")
    <3> DEFINE f == [F EXCEPT !.probe = 0]
    <3>1. frame' = [frame EXCEPT ![t] = f]
      BY <2>3, Facts
    <3>2. /\ f \in Frames /\ f.call = F.call /\ f.todo = F.todo /\ f.ops = F.ops
          /\ f.task = F.task /\ f.draining = F.draining /\ f.waitFor = F.waitFor
          /\ f.probe = 0
      BY SetProbe, Sizes
    <3> HIDE DEF f
    <3> QED BY <1>0, <2>1, <2>3, <3>1, <3>2, <1>s, ScanTo
  <2> QED BY <1>3, <2>2, <2>3 DEF InjectMiss
<1>4. CASE NoneDrained(t)
  <2> DEFINE f == [F EXCEPT !.waitFor = "drained"]
  <2>1. /\ pc[t] = "none" /\ UNCHANGED <<poolVars, fresh, historyVars>> /\ F.probe = 0
        /\ t \in Clients /\ Goto(t, "spin") /\ frame' = [frame EXCEPT ![t] = f]
    BY <1>0, <1>4, Facts DEF NoneDrained, ControlOK
  <2>2. /\ f \in Frames /\ f.call = F.call /\ f.todo = F.todo /\ f.ops = F.ops
        /\ f.task = F.task /\ f.draining = F.draining /\ f.waitFor = "drained"
        /\ f.probe = F.probe
    BY SetWait, Sizes
  <2> HIDE DEF f
  <2> QED BY <1>0, <2>1, <2>2, <1>s, ScanTo
<1>5. CASE WaitTop(t) \/ WaitActive(t)
  <2>1. /\ pc[t] \in {"waitTop", "waitActive"} /\ UNCHANGED <<poolVars, fresh, historyVars>>
        /\ F.probe = 0
    BY <1>0, <1>5 DEF WaitTop, WaitActive, ControlOK
  <2>2. CASE WaitHelp(t)
    <3>1. PICK offset \in Workers :
             frame' = [frame EXCEPT ![t].offset = offset] /\ Goto(t, "steal")
      BY <2>2 DEF WaitHelp
    <3> DEFINE f == [F EXCEPT !.offset = offset]
    <3>2. frame' = [frame EXCEPT ![t] = f]
      BY <3>1, Facts
    <3>3. /\ f \in Frames /\ f.call = F.call /\ f.todo = F.todo /\ f.ops = F.ops
          /\ f.task = F.task /\ f.draining = F.draining /\ f.waitFor = F.waitFor
          /\ f.probe = F.probe
      BY SetOffset, Sizes
    <3> HIDE DEF f
    <3> QED BY <1>0, <2>1, <3>1, <3>2, <3>3, <1>s, ScanTo
  <2>3. CASE Goto(t, "waitExit") /\ UNCHANGED frame
    BY <1>0, <2>1, <2>3, <1>s, ScanTo
  <2>4. CASE Goto(t, "waitActive") /\ UNCHANGED frame /\ pc[t] = "waitTop"
    BY <1>0, <2>1, <2>4, <1>s, ScanTo
  <2> QED BY <1>5, <2>2, <2>3, <2>4 DEF WaitTop, WaitActive
<1> QED BY <1>1, <1>2, <1>3, <1>4, <1>5

\* A thread in waitIdle() ends its wait; it is not counted as idle.
LEMMA ClientEndWait ==
  ASSUME IInv, NEW t \in Clients, pc[t] \in {"spin", "look", "spinActive", "lookActive"},
         EndWait(t)
  PROVE  IInv'
<1> USE DEF poolVars, historyVars, stateVars, queueVars, joinVars, countVars
<1> DEFINE f == [frame[t] EXCEPT !.waitFor = "none"]
<1>1. t \in Threads /\ t \notin Workers
  BY ClientsAssumption DEF Threads
<1>2. /\ frame' = [frame EXCEPT ![t] = f] /\ Goto(t, "waitTop") /\ fresh' \subseteq Threads
      /\ UNCHANGED <<poolVars, historyVars>>
  BY <1>1, Facts DEF EndWait, RestTypes
<1>3. /\ f \in Frames /\ f.call = frame[t].call /\ f.todo = frame[t].todo
      /\ f.ops = frame[t].ops /\ f.task = frame[t].task /\ f.draining = frame[t].draining
      /\ f.waitFor = "none" /\ f.probe = frame[t].probe
  BY <1>1, Facts, SetWait
<1>4. frame[t].probe = 0
  BY <1>1, Facts DEF ControlOK
<1>5. <<pc[t], "waitTop">> \in Scans
  BY DEF Scans
<1> HIDE DEF f
<1> QED BY <1>1, <1>2, <1>3, <1>4, <1>5, ScanTo

LEMMA CheckActiveInv ==
  ASSUME IInv, NEW t \in Threads, CheckActive(t)
  PROVE  IInv'
<1>1. pc[t] \in {"spinActive", "lookActive"} /\ t \in Clients
  BY Kinds DEF CheckActive
<1>2. CASE EndWait(t)
  BY <1>1, <1>2, ClientEndWait
<1>3. CASE Move(t, IF pc[t] = "spinActive" THEN "observe" ELSE "park")
  <2>1. PICK l \in {"observe", "park"} : Move(t, l) /\ <<pc[t], l>> \in Moves
    BY <1>1, <1>3 DEF Moves
  <2> QED BY <2>1, Facts, MoveTo DEF Move, RestTypes
<1> QED BY <1>2, <1>3 DEF CheckActive

----------------------------------------------------------------------------
\* What a step of one thread leaves alone.

LEMMA ControlKept ==
  ASSUME ControlInv, NEW t \in Threads, Others(t), ControlOK(t)'
  PROVE  ControlInv'
<1> SUFFICES ASSUME NEW u \in Threads, u # t PROVE ControlOK(u)'
  BY DEF ControlInv
<1>1. ControlOK(u)
  BY DEF ControlInv
<1>2. frame'[u] = frame[u] /\ (pc'[u] = pc[u] \/ (pc[u] = "parked" /\ pc'[u] = "spin"))
  BY DEF Others
<1>3. CASE pc'[u] = pc[u]
  BY <1>1, <1>2, <1>3 DEF ControlOK
<1>4. CASE pc[u] = "parked" /\ pc'[u] = "spin"
  BY <1>1, <1>2, <1>4 DEF ControlOK, InSubmit, Hands, InWaitIdle, Sleeping
<1> QED BY <1>2, <1>3, <1>4

\* The other threads' tasks keep their status.
Undisturbed(t) ==
    \A u \in Threads \ {t} :
       frame[u].task # NoTask => status'[frame[u].task] = status[frame[u].task]

LEMMA Awake ==
  ASSUME ControlInv, NEW t \in Threads, Others(t), NEW u \in Threads \ {t},
         frame[u].task # NoTask
  PROVE  pc'[u] = pc[u]
<1> QED BY DEF ControlInv, ControlOK, InWaitIdle, Sleeping, Others

LEMMA StatusKept ==
  ASSUME ControlInv, StatusInv, NEW t \in Threads, Others(t), Undisturbed(t), StatusOK(t)'
  PROVE  StatusInv'
<1> SUFFICES ASSUME NEW u \in Threads \ {t} PROVE StatusOK(u)'
  BY DEF StatusInv
<1>1. StatusOK(u) /\ frame'[u] = frame[u]
  BY DEF StatusInv, Others
<1>2. CASE frame[u].task = NoTask
  BY <1>1, <1>2 DEF StatusOK
<1>3. CASE frame[u].task # NoTask
  <2>1. pc'[u] = pc[u] /\ status'[frame[u].task] = status[frame[u].task]
    BY <1>3, Awake DEF Undisturbed
  <2> QED BY <1>1, <2>1 DEF StatusOK
<1> QED BY <1>2, <1>3

LEMMA PlaceKept ==
  ASSUME Types, ControlInv, PlaceInv, NEW t \in Threads, Others(t),
         UNCHANGED <<local, shard>>,
         \A k \in Tasks : status'[k] = "queued" <=> status[k] = "queued",
         \/ frame'[t].task = frame[t].task
            /\ (frame[t].task # NoTask => (pc[t] \in Hands => pc'[t] \in Hands))
         \/ frame'[t].task = NoTask /\ pc[t] \notin Hands
  PROVE  PlaceInv'
<1>1. Queue' = Queue /\ Content' = Content
  BY DEF Queue, Content
<1>2. \A u \in Threads : frame'[u].task = frame[u].task \/ frame'[u].task = NoTask
  BY DEF Others
<1>3. \A q \in Queues : Content[q] \subseteq Tasks
  <2> SUFFICES ASSUME NEW q \in Queues PROVE Content[q] \subseteq Tasks
    OBVIOUS
  <2>1. \/ q[1] = "local" /\ q[2] \in Workers
        \/ q[1] = "shard" /\ q[2] \in Shards
    BY DEF Queues
  <2>2. Queue[q] \in Seq(Tasks)
    BY <2>1 DEF Types, Queue
  <2> QED BY <2>2, ElementOfSeq DEF Content
<1>4. ASSUME NEW k \in Tasks, status'[k] = "queued"
      PROVE  \/ \E q \in Queues : k \in Content'[q]
             \/ \E u \in Threads : pc'[u] \in Hands /\ frame'[u].task = k
  <2>1. \/ \E q \in Queues : k \in Content[q]
        \/ \E u \in Threads : pc[u] \in Hands /\ frame[u].task = k
    BY <1>4 DEF PlaceInv
  <2>2. CASE \E q \in Queues : k \in Content[q]
    BY <1>1, <2>2
  <2>3. ASSUME NEW u \in Threads, pc[u] \in Hands, frame[u].task = k
        PROVE  pc'[u] \in Hands /\ frame'[u].task = k
    <3>1. frame[u].task # NoTask
      BY <2>3, TasksAssumption
    <3>2. CASE u = t
      BY <2>3, <3>1, <3>2
    <3>3. CASE u # t
      BY <2>3, <3>1, <3>3, Awake DEF Others
    <3> QED BY <3>2, <3>3
  <2> QED BY <2>1, <2>2, <2>3
<1>5. \A q \in Queues : \A i, j \in 1..Len(Queue'[q]) : Queue'[q][i] = Queue'[q][j] => i = j
  BY <1>1 DEF PlaceInv
<1>6. \A q, r \in Queues : q # r => Content'[q] \cap Content'[r] = {}
  BY <1>1 DEF PlaceInv
<1>7. \A q \in Queues : \A k \in Content'[q] : status'[k] = "queued"
  BY <1>1, <1>3 DEF PlaceInv
<1>8. \A q \in Queues : \A u \in Threads : frame'[u].task \notin Content'[q]
  BY <1>1, <1>2, <1>3, TasksAssumption DEF PlaceInv
<1>9. \A u, v \in Threads : frame'[u].task = frame'[v].task /\ frame'[u].task # NoTask => u = v
  BY <1>2 DEF PlaceInv
<1> QED BY <1>4, <1>5, <1>6, <1>7, <1>8, <1>9 DEF PlaceInv

\* Every owner but the one that a step takes a submission from and the one that
\* it gives it to keeps its own.
LEMMA OwedTransfer ==
  ASSUME OwedInv, NEW a \in Owners, NEW b \in Owners, a # b,
         \A o \in Owners \ {a, b} : Owed'[o] \subseteq Owed[o],
         Owed'[a] \subseteq Owed[a], Owed'[b] \subseteq Owed[a] \cup Owed[b],
         Owed'[a] \cap Owed'[b] = {},
         \A o \in Owners : \A k \in Owed[o] : status'[k] = "unsubmitted",
         \A u \in Threads : NoneTwice(frame'[u].todo) /\ NoneTwice(frame'[u].ops)
  PROVE  OwedInv'
<1>1. ASSUME NEW o \in Owners, NEW p \in Owners, o # p PROVE Owed'[o] \cap Owed'[p] = {}
  BY <1>1 DEF OwedInv
<1>2. \A o \in Owners : \A k \in Owed'[o] : status'[k] = "unsubmitted"
  OBVIOUS
<1> QED BY <1>1, <1>2 DEF OwedInv

LEMMA OwedSubmitted ==
  ASSUME OwedInv, Types, NEW t \in Threads, NEW k \in Tasks, Others(t),
         pc[t] \in {"submitCheck", "submitPush"}, frame[t].call = <<"submit", k>>,
         pc'[t] \notin {"submitCheck", "submitPush"},
         frame'[t].todo = frame[t].todo, frame'[t].ops \in {frame[t].ops, <<>>},
         \A j \in Tasks \ {k} : status'[j] = status[j]
  PROVE  OwedInv' /\ status[k] = "unsubmitted"
<1> DEFINE c == <<"call", t>>
<1>1. c \in Owners /\ Owed[c] = {k} /\ Owed'[c] = {}
  BY DEF Owners, Owed
<1>2. status[k] = "unsubmitted"
  BY <1>1 DEF OwedInv
<1>3. ASSUME NEW o \in Owners PROVE Owed'[o] \subseteq Owed[o]
  <2>1. \/ o[1] = "todo" /\ o[2] \in Threads
        \/ o[1] = "ops" /\ o[2] \in Threads
        \/ o[1] = "call" /\ o[2] \in Threads
        \/ o[1] = "body" /\ o[2] \in Tasks
    BY OwnerKinds
  <2>2. CASE o[1] = "todo"
    BY <2>1, <2>2 DEF Owed, Others
  <2>3. CASE o[1] = "ops"
    BY <2>1, <2>3, NoOps DEF Owed, Others
  <2>4. CASE o[1] = "call"
    BY <2>1, <2>4 DEF Owed, Others
  <2>5. CASE o[1] = "body"
    BY <1>2, <2>1, <2>5 DEF Owed
  <2> QED BY <2>1, <2>2, <2>3, <2>4, <2>5
<1>4. ASSUME NEW o \in Owners, NEW j \in Owed'[o] PROVE status'[j] = "unsubmitted"
  <2>1. j # k
    BY <1>1, <1>3, <1>4 DEF OwedInv
  <2>2. j \in Tasks
    BY <1>3, <1>4 DEF Owed, Submits
  <2> QED BY <1>3, <1>4, <2>1, <2>2 DEF OwedInv
<1>5. \A u \in Threads : NoneTwice(frame'[u].todo) /\ NoneTwice(frame'[u].ops)
  BY NoOps DEF OwedInv, Others
<1>6. \A o, p \in Owners : o # p => Owed'[o] \cap Owed'[p] = {}
  BY <1>3 DEF OwedInv
<1> QED BY <1>2, <1>4, <1>5, <1>6 DEF OwedInv

----------------------------------------------------------------------------
\* How a step of one thread, or of one task, changes what is counted.

Bit(b) == IF b THEN 1 ELSE 0

LEMMA CardStep ==
  ASSUME NEW S, NEW T, NEW x, IsFiniteSet(S), \A y : y # x => (y \in T <=> y \in S)
  PROVE  /\ IsFiniteSet(T) /\ Cardinality(S) \in Nat /\ Cardinality(T) \in Nat
         /\ Cardinality(T) = Cardinality(S) - Bit(x \in S) + Bit(x \in T)
<1> DEFINE B == S \ {x}
<1>1. /\ IsFiniteSet(B) /\ IsFiniteSet(B \cup {x})
      /\ Cardinality(B) \in Nat /\ Cardinality(B \cup {x}) = Cardinality(B) + 1
  BY FS_RemoveElement, FS_AddElement, FS_CardinalityType
<1>2. ASSUME NEW R, \A y : y # x => (y \in R <=> y \in S)
      PROVE  IsFiniteSet(R) /\ Cardinality(R) = Cardinality(B) + Bit(x \in R)
  <2>1. CASE x \in R
    <3>1. R = B \cup {x}
      BY <1>2, <2>1
    <3>2. Bit(x \in R) = 1
      BY <2>1 DEF Bit
    <3> QED BY <1>1, <3>1, <3>2
  <2>2. CASE x \notin R
    <3>1. R = B
      BY <1>2, <2>2
    <3>2. Bit(x \in R) = 0
      BY <2>2 DEF Bit
    <3> QED BY <1>1, <3>1, <3>2
  <2> QED BY <2>1, <2>2
<1>3. /\ IsFiniteSet(T) /\ Cardinality(T) = Cardinality(B) + Bit(x \in T)
      /\ Cardinality(S) = Cardinality(B) + Bit(x \in S)
  BY <1>2
<1>4. Cardinality(S) \in Nat /\ Cardinality(T) \in Nat
  BY <1>3, FS_CardinalityType
<1>5. Bit(x \in S) \in Int /\ Bit(x \in T) \in Int
  BY DEF Bit
<1> HIDE DEF B
<1> QED BY <1>1, <1>3, <1>4, <1>5

LEMMA Finiteness ==
  /\ IsFiniteSet(Queued) /\ IsFiniteSet(Threw) /\ IsFiniteSet(Counting)
  /\ IsFiniteSet(Executing) /\ IsFiniteSet(Idling) /\ IsFiniteSet(Waiting)
  /\ IsFiniteSet(Uncounted)
  /\ Cardinality(Queued) \in 0..Cardinality(Tasks)
  /\ Cardinality(Threw) \in 0..Cardinality(Tasks)
  /\ Cardinality(Counting) \in 0..Cardinality(Threads)
  /\ Cardinality(Executing) \in 0..Cardinality(Threads)
  /\ Cardinality(Idling) \in 0..Cardinality(Threads)
  /\ Cardinality(Waiting) \in 0..Cardinality(Threads)
  /\ Cardinality(Uncounted) \in 0..Cardinality(Threads)
<1>1. Queued \in SUBSET Tasks /\ Threw \in SUBSET Tasks
  BY DEF Queued, Threw
<1>2. /\ Counting \in SUBSET Threads /\ Executing \in SUBSET Threads
      /\ Idling \in SUBSET Threads /\ Waiting \in SUBSET Threads
      /\ Uncounted \in SUBSET Threads
  BY DEF Counting, Executing, Idling, Waiting, Uncounted, Threads
<1>3. ASSUME NEW S, IsFiniteSet(S), NEW T \in SUBSET S
      PROVE  IsFiniteSet(T) /\ Cardinality(T) \in 0..Cardinality(S)
  <2>1. IsFiniteSet(T) /\ Cardinality(T) <= Cardinality(S)
    BY <1>3, FS_Subset
  <2>2. Cardinality(S) \in Nat /\ Cardinality(T) \in Nat
    BY <1>3, <2>1, FS_CardinalityType
  <2> QED BY <2>1, <2>2
<1>4. IsFiniteSet(Tasks) /\ IsFiniteSet(Threads)
  BY Sizes
<1>5. IsFiniteSet(Queued) /\ IsFiniteSet(Threw)
      /\ Cardinality(Queued) \in 0..Cardinality(Tasks)
      /\ Cardinality(Threw) \in 0..Cardinality(Tasks)
  BY <1>1, <1>3, <1>4
<1>6. ASSUME NEW T \in SUBSET Threads
      PROVE  IsFiniteSet(T) /\ Cardinality(T) \in 0..Cardinality(Threads)
  BY <1>3, <1>4
<1> QED BY <1>2, <1>5, <1>6

\* The counts of threads.
LEMMA ThreadCounts ==
  ASSUME ControlInv, NEW t \in Threads, Others(t), Undisturbed(t)
  PROVE  /\ Cardinality(Counting') = Cardinality(Counting) - Bit(t \in Counting)
                                     + Bit(t \in Counting')
         /\ Cardinality(Executing') = Cardinality(Executing) - Bit(t \in Executing)
                                      + Bit(t \in Executing')
         /\ Cardinality(Idling') = Cardinality(Idling) - Bit(t \in Idling)
                                   + Bit(t \in Idling')
         /\ Cardinality(Waiting') = Cardinality(Waiting) - Bit(t \in Waiting)
                                    + Bit(t \in Waiting')
         /\ Cardinality(Uncounted') = Cardinality(Uncounted) - Bit(t \in Uncounted)
                                      + Bit(t \in Uncounted')
<1>1. \A u \in Threads \ {t} : frame'[u] = frame[u]
                               /\ (pc'[u] = "submitCount" <=> pc[u] = "submitCount")
  BY DEF Others
<1>2. \A u \in Threads \ {t} : frame[u].task # NoTask
         => pc'[u] = pc[u] /\ status'[frame[u].task] = status[frame[u].task]
  BY Awake DEF Undisturbed
<1>3. Workers \subseteq Threads /\ Clients \subseteq Threads
  BY DEF Threads
<1>4. \A u : u # t => (u \in Counting' <=> u \in Counting)
  BY <1>1 DEF Counting
<1>5. \A u : u # t => (u \in Executing' <=> u \in Executing)
  BY <1>1, <1>2 DEF Executing
<1>6. \A u : u # t => (u \in Idling' <=> u \in Idling)
  BY <1>1, <1>3 DEF Idling
<1>7. \A u : u # t => (u \in Waiting' <=> u \in Waiting)
  BY <1>1, <1>3 DEF Waiting
<1>8. \A u : u # t => (u \in Uncounted' <=> u \in Uncounted)
  BY <1>1, <1>2 DEF Uncounted
<1>9. Cardinality(Counting') = Cardinality(Counting) - Bit(t \in Counting) + Bit(t \in Counting')
  BY <1>4, CardStep, Finiteness
<1>10. Cardinality(Executing') = Cardinality(Executing) - Bit(t \in Executing)
                                 + Bit(t \in Executing')
  BY <1>5, CardStep, Finiteness
<1>11. Cardinality(Idling') = Cardinality(Idling) - Bit(t \in Idling) + Bit(t \in Idling')
  BY <1>6, CardStep, Finiteness
<1>12. Cardinality(Waiting') = Cardinality(Waiting) - Bit(t \in Waiting) + Bit(t \in Waiting')
  BY <1>7, CardStep, Finiteness
<1>13. Cardinality(Uncounted') = Cardinality(Uncounted) - Bit(t \in Uncounted)
                                 + Bit(t \in Uncounted')
  BY <1>8, CardStep, Finiteness
<1> QED BY <1>9, <1>10, <1>11, <1>12, <1>13

\* The counts of tasks.
LEMMA TaskCounts ==
  ASSUME NEW k, \A j \in Tasks \ {k} : status'[j] = status[j]
  PROVE  /\ Cardinality(Queued') = Cardinality(Queued) - Bit(k \in Queued)
                                   + Bit(k \in Queued')
         /\ Cardinality(Threw') = Cardinality(Threw) - Bit(k \in Threw)
                                  + Bit(k \in Threw')
<1>1. \A j : j # k => (j \in Queued' <=> j \in Queued)
  BY DEF Queued
<1>2. \A j : j # k => (j \in Threw' <=> j \in Threw)
  BY DEF Threw
<1>3. Cardinality(Queued') = Cardinality(Queued) - Bit(k \in Queued) + Bit(k \in Queued')
  BY <1>1, CardStep, Finiteness
<1>4. Cardinality(Threw') = Cardinality(Threw) - Bit(k \in Threw) + Bit(k \in Threw')
  BY <1>2, CardStep, Finiteness
<1> QED BY <1>3, <1>4

\* A size_t goes up and down with what it counts.
LEMMA WrapUp ==
  ASSUME NEW x \in Int, -SizeModulus < x, x < SizeModulus - 1
  PROVE  Wrap(Wrap(x) + 1) = Wrap(x + 1)
<1>1. ASSUME NEW m \in Nat \ {0}, NEW y \in Int, -m < y, y < m - 1
      PROVE  ((y % m) + 1) % m = (y + 1) % m
  BY <1>1
<1> QED BY <1>1, Sizes DEF Wrap

LEMMA WrapDown ==
  ASSUME NEW x \in Int, 1 - SizeModulus < x, x < SizeModulus
  PROVE  Wrap(Wrap(x) - 1) = Wrap(x - 1)
<1>1. ASSUME NEW m \in Nat \ {0}, NEW y \in Int, 1 - m < y, y < m
      PROVE  ((y % m) - 1) % m = (y - 1) % m
  BY <1>1
<1> QED BY <1>1, Sizes DEF Wrap

LEMMA WrapRange ==
  ASSUME NEW x \in Int
  PROVE  Wrap(x) \in 0..(SizeModulus - 1)
<1> QED BY Sizes DEF Wrap

\* The counters follow what they count.
LEMMA CountStep ==
  ASSUME IInv, NEW t \in Threads, Others(t), Undisturbed(t), NEW k,
         \A j \in Tasks \ {k} : status'[j] = status[j],
         pendingTasks' = Wrap(Cardinality(Queued') - Cardinality(Counting')),
         activeTasks' = activeTasks - Bit(t \in Executing) + Bit(t \in Executing'),
         idleWorkers' = idleWorkers - Bit(t \in Idling) + Bit(t \in Idling'),
         waitIdleWaiters' = waitIdleWaiters - Bit(t \in Waiting) + Bit(t \in Waiting'),
         exceptionCounter' = exceptionCounter - Bit(k \in Threw) + Bit(k \in Threw')
                             + Bit(t \in Uncounted) - Bit(t \in Uncounted')
  PROVE  CountInv'
<1>1. CountInv /\ ControlInv
  BY DEF IInv
<1>2. activeTasks' = Cardinality(Executing') /\ idleWorkers' = Cardinality(Idling')
  BY <1>1, ThreadCounts DEF CountInv
<1>3. waitIdleWaiters' = Cardinality(Waiting')
  BY <1>1, ThreadCounts DEF CountInv
<1>4. exceptionCounter' = Cardinality(Threw') - Cardinality(Uncounted')
  <2>1. /\ Cardinality(Uncounted') = Cardinality(Uncounted) - Bit(t \in Uncounted)
                                     + Bit(t \in Uncounted')
        /\ Cardinality(Threw') = Cardinality(Threw) - Bit(k \in Threw) + Bit(k \in Threw')
        /\ exceptionCounter = Cardinality(Threw) - Cardinality(Uncounted)
    BY <1>1, ThreadCounts, TaskCounts DEF CountInv
  <2>2. /\ Bit(t \in Uncounted) \in Int /\ Bit(t \in Uncounted') \in Int
        /\ Bit(k \in Threw) \in Int /\ Bit(k \in Threw') \in Int
    BY DEF Bit
  <2>3. Cardinality(Threw) \in Int /\ Cardinality(Uncounted) \in Int
    BY Finiteness
  <2> QED BY <2>1, <2>2, <2>3
<1> QED BY <1>2, <1>3, <1>4 DEF CountInv

\* The number of tasks in the queues that are counted, or are to be.
LEMMA PendingRange ==
  /\ Cardinality(Queued) \in Nat /\ Cardinality(Queued) < SizeModulus
  /\ Cardinality(Counting) \in Nat /\ Cardinality(Counting) < SizeModulus
  /\ Counting # {} => Cardinality(Counting) > 0
  /\ Queued # {} => Cardinality(Queued) > 0
<1>1. /\ Cardinality(Queued) \in Nat /\ Cardinality(Queued) < SizeModulus
      /\ Cardinality(Counting) \in Nat /\ Cardinality(Counting) < SizeModulus
  BY Finiteness, Sizes
<1>2. /\ Counting # {} => Cardinality(Counting) # 0
      /\ Queued # {} => Cardinality(Queued) # 0
  BY Finiteness, FS_EmptySet
<1> QED BY <1>1, <1>2

\* Where one thread is counted.
LEMMA Members ==
  ASSUME NEW t \in Threads
  PROVE  /\ t \in Counting <=> pc[t] = "submitCount"
         /\ t \in Executing <=> frame[t].task # NoTask /\ pc[t] \notin {"recheck", "act"}
         /\ t \in Idling <=> t \in Workers /\ frame[t].waitFor # "none"
         /\ t \in Waiting <=> t \in Clients /\ frame[t].draining
         /\ t \in Uncounted <=> /\ frame[t].task # NoTask
                                /\ status[frame[t].task] = "threw"
                                /\ pc[t] \in {"except", "done"}
         /\ t \in Counting' <=> pc'[t] = "submitCount"
         /\ t \in Executing' <=> frame'[t].task # NoTask /\ pc'[t] \notin {"recheck", "act"}
         /\ t \in Idling' <=> t \in Workers /\ frame'[t].waitFor # "none"
         /\ t \in Waiting' <=> t \in Clients /\ frame'[t].draining
         /\ t \in Uncounted' <=> /\ frame'[t].task # NoTask
                                 /\ status'[frame'[t].task] = "threw"
                                 /\ pc'[t] \in {"except", "done"}
<1> QED BY DEF Counting, Executing, Idling, Waiting, Uncounted

----------------------------------------------------------------------------
\* submit().

LEMMA SubmitBeginInv ==
  ASSUME IInv, NEW t \in Threads, SubmitBegin(t)
  PROVE  IInv'
<1> USE DEF poolVars, historyVars, stateVars, queueVars, joinVars
<1> DEFINE f == [Advanced(t) EXCEPT !.call = Head(Ops(t))]
<1>1. /\ AtOp(t, "submit") /\ frame' = [frame EXCEPT ![t] = f] /\ Goto(t, "submitCheck")
      /\ UNCHANGED <<countVars, local, shard, status>> /\ RestTypes'
  BY Facts DEF SubmitBegin, RestTypes
<1>2. pc[t] = "run" /\ Ops(t) # <<>> /\ Head(Ops(t))[1] = "submit"
  BY <1>1 DEF AtOp
<1>3. PICK k \in Tasks : Head(Ops(t)) = <<"submit", k>>
  BY <1>2, Advancing, OpKinds
<1>4. Head(Ops(t)) \in Operations
  BY <1>2, Advancing, OpKinds
<1>5. /\ f \in Frames /\ f.call = <<"submit", k>> /\ f.todo = Advanced(t).todo
      /\ f.ops = Advanced(t).ops /\ f.task = frame[t].task /\ f.waitFor = frame[t].waitFor
      /\ f.draining = frame[t].draining /\ f.probe = frame[t].probe
  BY <1>2, <1>3, <1>4, Advancing, SetCall
<1> HIDE DEF f
<1>6. /\ pc' \in [Threads -> Labels] /\ pc'[t] = "submitCheck"
      /\ \A u \in Threads \ {t} : pc'[u] = pc[u]
  BY <1>1, Moved DEF IInv, Labels
<1>7. /\ frame' \in [Threads -> Frames] /\ frame'[t] = f
      /\ \A u \in Threads \ {t} : frame'[u] = frame[u]
  BY <1>1, <1>5, NewFrame DEF IInv
<1>8. Types'
  BY <1>1, <1>6, <1>7 DEF IInv, Types, RestTypes, countVars
<1>9. ControlOK(t)'
  BY <1>2, <1>5, <1>6, <1>7, Facts, Kinds
  DEF ControlOK, InSubmit, Hands, InWaitIdle, Sleeping
<1>10. Others(t)
  BY <1>6, <1>7 DEF Others
<1>11. OwedInv'
  <2> DEFINE a == IF frame[t].task # NoTask THEN <<"ops", t>> ELSE <<"todo", t>>
             b == <<"call", t>>
  <2>1. a \in Owners /\ b \in Owners /\ a # b /\ a[2] = t
    BY DEF Owners
  <2>2. /\ Owed[b] = {} /\ Owed'[b] = {k}
    BY <1>2, <1>5, <1>6, <1>7, <2>1 DEF Owed
  <2>3. k \in Owed[a] /\ k \notin Owed'[a]
    BY <1>2, <1>3, <1>5, <1>7, <2>1, Advancing DEF Owed
  <2>4. ASSUME NEW o \in Owners, o # b PROVE Owed'[o] \subseteq Owed[o]
    <3>1. \/ o[1] = "todo" /\ o[2] \in Threads
          \/ o[1] = "ops" /\ o[2] \in Threads
          \/ o[1] = "call" /\ o[2] \in Threads
          \/ o[1] = "body" /\ o[2] \in Tasks
      BY OwnerKinds
    <3>2. CASE o[1] = "todo"
      BY <1>2, <1>5, <1>7, <3>1, <3>2, Advancing DEF Owed
    <3>3. CASE o[1] = "ops"
      BY <1>2, <1>5, <1>7, <3>1, <3>3, Advancing DEF Owed
    <3>4. CASE o[1] = "call"
      <4>1. o[2] # t
        BY <2>4, <3>4 DEF Owners
      <4> QED BY <1>6, <1>7, <3>1, <3>4, <4>1 DEF Owed
    <3>5. CASE o[1] = "body"
      BY <1>1, <3>1, <3>5 DEF Owed
    <3> QED BY <3>1, <3>2, <3>3, <3>4, <3>5
  <2>5. \A u \in Threads : NoneTwice(frame'[u].todo) /\ NoneTwice(frame'[u].ops)
    BY <1>2, <1>5, <1>7, Facts, Advancing
  <2>6. \A o \in Owners : \A j \in Owed[o] : status'[j] = "unsubmitted"
    BY <1>1 DEF IInv, OwedInv
  <2> HIDE DEF a, b
  <2> QED BY <2>1, <2>2, <2>3, <2>4, <2>5, <2>6, OwedTransfer DEF IInv
<1>12. frame[t].task # NoTask => \A p \in Phases : pc'[t] \in p <=> pc[t] \in p
  BY <1>2, <1>6 DEF Phases, InSubmit
<1> QED BY <1>1, <1>2, <1>5, <1>6, <1>7, <1>8, <1>9, <1>10, <1>11, <1>12, Quiet

LEMMA Started ==
  ASSUME IInv, NEW u \in Threads, frame[u].task # NoTask
  PROVE  /\ frame[u].task \in Tasks
         /\ status[frame[u].task] \notin {"unsubmitted", "refused"}
         /\ status[frame[u].task] = "queued" => pc[u] \in Hands
<1>1. frame[u].task \in Tasks /\ ControlOK(u) /\ StatusOK(u) /\ pc[u] \in Labels
  BY Facts, Fields DEF IInv, StatusInv
<1>2. pc[u] \notin InWaitIdle \cup {"top", "pop"}
  BY <1>1 DEF ControlOK
<1>3. pc[u] \in Hands \cup {"run", "threw", "join", "wake", "except", "retire", "done"}
                  \cup InSubmit
  BY <1>1, <1>2 DEF Labels, InWaitIdle, Sleeping, Hands, InSubmit
<1> QED BY <1>1, <1>3 DEF StatusOK

\* A step that changes the status of one task that no other thread has.
LEMMA UndisturbedBy ==
  ASSUME IInv, NEW t \in Threads, NEW k \in Tasks,
         \A j \in Tasks \ {k} : status'[j] = status[j],
         \/ status[k] = "unsubmitted"
         \/ frame[t].task = k
  PROVE  Undisturbed(t)
<1> SUFFICES ASSUME NEW u \in Threads \ {t}, frame[u].task # NoTask
             PROVE  status'[frame[u].task] = status[frame[u].task]
  BY DEF Undisturbed
<1>1. frame[u].task \in Tasks /\ status[frame[u].task] # "unsubmitted"
  BY Started
<1>2. frame[u].task # frame[t].task
  BY DEF IInv, PlaceInv
<1> QED BY <1>1, <1>2

LEMMA SubmitRefusedInv ==
  ASSUME IInv, NEW t \in Threads, SubmitRefused(t)
  PROVE  IInv'
<1> USE DEF poolVars, historyVars, stateVars, queueVars, joinVars
<1> DEFINE f == [frame[t] EXCEPT !.call = NoCall, !.ops = <<>>]
           l == IF frame[t].task # NoTask THEN "threw" ELSE "run"
           k == frame[t].call[2]
<1>1. /\ pc[t] = "submitCheck" /\ frame' = [frame EXCEPT ![t] = f] /\ Goto(t, l)
      /\ status' = [status EXCEPT ![k] = "refused"]
      /\ UNCHANGED <<countVars, local, shard>> /\ RestTypes'
  BY Facts DEF SubmitRefused, RestTypes, InTask
<1>2. k \in Tasks /\ frame[t].call = <<"submit", k>>
  BY <1>1, Facts DEF ControlOK, InSubmit
<1>3. /\ f \in Frames /\ f.call = NoCall /\ f.todo = frame[t].todo
      /\ f.ops = <<>> /\ f.task = frame[t].task /\ f.waitFor = frame[t].waitFor
      /\ f.draining = frame[t].draining /\ f.probe = frame[t].probe
  BY Facts, NoOps DEF Frames
<1>4. l \in Labels /\ l \in {"threw", "run"} /\ (frame[t].task # NoTask => l = "threw")
      /\ (frame[t].task = NoTask => l = "run")
  BY DEF Labels
<1> HIDE DEF f, l, k
<1>5. /\ pc' \in [Threads -> Labels] /\ pc'[t] = l
      /\ \A u \in Threads \ {t} : pc'[u] = pc[u]
  BY <1>1, <1>4, Moved DEF IInv
<1>6. /\ frame' \in [Threads -> Frames] /\ frame'[t] = f
      /\ \A u \in Threads \ {t} : frame'[u] = frame[u]
  BY <1>1, <1>3, NewFrame DEF IInv
<1>7. status'[k] = "refused" /\ (\A j \in Tasks \ {k} : status'[j] = status[j])
  BY <1>1, <1>2 DEF IInv, Types
<1>8. Types'
  BY <1>1, <1>2, <1>5, <1>6 DEF IInv, Types, RestTypes, countVars
<1>9. Others(t)
  BY <1>5, <1>6 DEF Others
<1>10. OwedInv' /\ status[k] = "unsubmitted"
  BY <1>1, <1>2, <1>3, <1>4, <1>5, <1>6, <1>7, <1>9, OwedSubmitted DEF IInv
<1>11. Undisturbed(t)
  BY <1>2, <1>7, <1>10, UndisturbedBy
<1>12. ControlOK(t)'
  BY <1>1, <1>3, <1>4, <1>5, <1>6, Facts, Kinds
  DEF ControlOK, InSubmit, Hands, InWaitIdle, Sleeping
<1>13. StatusOK(t)'
  <2> SUFFICES ASSUME frame[t].task # NoTask PROVE StatusOK(t)'
    BY <1>3, <1>6 DEF StatusOK
  <2>1. frame[t].task \in Tasks /\ frame[t].task # k
    BY <1>10, Started
  <2>2. status[frame[t].task] = "running"
    BY <1>1 DEF IInv, StatusInv, StatusOK, InSubmit
  <2> QED BY <1>3, <1>4, <1>5, <1>6, <1>7, <2>1, <2>2 DEF StatusOK, Hands
<1>14. ControlInv' /\ StatusInv'
  BY <1>9, <1>11, <1>12, <1>13, ControlKept, StatusKept DEF IInv
<1>15. PlaceInv'
  <2>1. \A j \in Tasks : status'[j] = "queued" <=> status[j] = "queued"
    BY <1>7, <1>10
  <2> QED BY <1>1, <1>3, <1>6, <1>9, <2>1, PlaceKept DEF IInv, Hands
<1>16. CountInv'
  <2>1. CountInv /\ ControlInv /\ activeTasks \in Int /\ idleWorkers \in Int
        /\ waitIdleWaiters \in Int /\ exceptionCounter \in Int
    BY DEF IInv, Types
  <2>2. Queued' = Queued /\ (k \in Threw <=> k \in Threw')
    BY <1>7, <1>10 DEF Queued, Threw
  <2>3. /\ t \notin Counting /\ t \notin Counting'
        /\ t \in Executing <=> t \in Executing'
        /\ t \in Idling <=> t \in Idling'
        /\ t \in Waiting <=> t \in Waiting'
        /\ t \notin Uncounted /\ t \notin Uncounted'
    BY <1>1, <1>3, <1>4, <1>5, <1>6, Members
  <2>4. Counting' = Counting
    BY <1>5, <2>3 DEF Counting
  <2>5. pendingTasks' = Wrap(Cardinality(Queued') - Cardinality(Counting'))
    BY <1>1, <2>1, <2>2, <2>4 DEF CountInv, countVars
  <2> QED BY <1>1, <1>7, <1>9, <1>11, <2>1, <2>2, <2>3, <2>5, CountStep DEF countVars, Bit
<1> QED BY <1>8, <1>10, <1>14, <1>15, <1>16 DEF IInv

----------------------------------------------------------------------------
\* Steps that count something, and change no queue and no task's status.

LEMMA CountedGoto ==
  ASSUME IInv, NEW t \in Threads, NEW f \in Frames, NEW l \in Labels,
         frame' = [frame EXCEPT ![t] = f], Goto(t, l), UNCHANGED <<local, shard, status>>,
         RestTypes',
         Submits(f.todo) \subseteq Submits(frame[t].todo), NoneTwice(f.todo),
         Submits(f.ops) \subseteq Submits(frame[t].ops), NoneTwice(f.ops),
         l \notin {"submitCheck", "submitPush", "submitCount"},
         \/ f.task = frame[t].task /\ (pc[t] \in Hands => l \in Hands)
         \/ f.task = NoTask /\ pc[t] \notin Hands,
         pc'[t] = l /\ frame'[t] = f => ControlOK(t)' /\ StatusOK(t)',
         pendingTasks' = IF pc[t] = "submitCount" THEN Wrap(pendingTasks + 1) ELSE pendingTasks,
         activeTasks' = activeTasks
            - Bit(frame[t].task # NoTask /\ pc[t] \notin {"recheck", "act"})
            + Bit(f.task # NoTask /\ l \notin {"recheck", "act"}),
         idleWorkers' = idleWorkers - Bit(t \in Workers /\ frame[t].waitFor # "none")
                                    + Bit(t \in Workers /\ f.waitFor # "none"),
         waitIdleWaiters' = waitIdleWaiters - Bit(t \in Clients /\ frame[t].draining)
                                            + Bit(t \in Clients /\ f.draining),
         exceptionCounter' = exceptionCounter
            + Bit(frame[t].task # NoTask /\ status[frame[t].task] = "threw"
                  /\ pc[t] \in {"except", "done"})
            - Bit(f.task # NoTask /\ status[f.task] = "threw" /\ l \in {"except", "done"})
  PROVE  IInv'
<1>1. Types /\ OwedInv /\ ControlInv /\ CountInv
  BY DEF IInv
<1>2. /\ frame' \in [Threads -> Frames] /\ frame'[t] = f
      /\ \A u \in Threads \ {t} : frame'[u] = frame[u]
  BY <1>1, NewFrame
<1>3. /\ pc' \in [Threads -> Labels] /\ pc'[t] = l
      /\ \A u \in Threads \ {t} : pc'[u] = pc[u]
  BY <1>1, Moved
<1>4. Others(t) /\ Undisturbed(t)
  BY <1>2, <1>3 DEF Others, Undisturbed
<1>5. OwedInv'
  BY <1>1, <1>2, <1>3, <1>4, OwedKept
<1>6. ControlInv' /\ StatusInv'
  BY <1>2, <1>3, <1>4, ControlKept, StatusKept DEF IInv
<1>7. PlaceInv'
  BY <1>2, <1>3, <1>4, PlaceKept DEF IInv
<1>8. Queued' = Queued
  BY DEF Queued
<1>9. pendingTasks' = Wrap(Cardinality(Queued') - Cardinality(Counting'))
  <2>1. Cardinality(Counting') = Cardinality(Counting) - Bit(pc[t] = "submitCount")
    <3>1. /\ Cardinality(Counting') = Cardinality(Counting) - Bit(t \in Counting)
                                     + Bit(t \in Counting')
          /\ t \in Counting <=> pc[t] = "submitCount"
          /\ t \notin Counting'
      BY <1>1, <1>3, <1>4, ThreadCounts, Members
    <3> QED BY <3>1, PendingRange DEF Bit
  <2>2. pendingTasks = Wrap(Cardinality(Queued) - Cardinality(Counting))
    BY <1>1 DEF CountInv
  <2>3. CASE pc[t] # "submitCount"
    <3>1. Cardinality(Counting') = Cardinality(Counting)
      BY <2>1, <2>3, PendingRange DEF Bit
    <3> QED BY <1>8, <2>2, <2>3, <3>1
  <2>4. CASE pc[t] = "submitCount"
    <3> DEFINE x == Cardinality(Queued) - Cardinality(Counting)
    <3>1. Cardinality(Counting') = Cardinality(Counting) - 1 /\ t \in Counting
      BY <2>1, <2>4, Members DEF Bit
    <3>2. /\ x \in Int /\ -SizeModulus < x /\ x < SizeModulus - 1
          /\ Cardinality(Queued) - Cardinality(Counting') = x + 1
      BY <3>1, PendingRange, Sizes
    <3>3. Wrap(Wrap(x) + 1) = Wrap(x + 1)
      BY <3>2, WrapUp
    <3> QED BY <1>8, <2>2, <2>4, <3>2, <3>3
  <2> QED BY <2>3, <2>4
<1>10. CountInv'
  <2>1. exceptionCounter' = exceptionCounter - Bit(NoTask \in Threw) + Bit(NoTask \in Threw')
                            + Bit(t \in Uncounted) - Bit(t \in Uncounted')
    <3>1. NoTask \notin Threw /\ NoTask \notin Threw'
      BY TasksAssumption DEF Threw
    <3> QED BY <1>1, <1>2, <1>3, <3>1, Members DEF Types, Bit
  <2>2. activeTasks' = activeTasks - Bit(t \in Executing) + Bit(t \in Executing')
    BY <1>2, <1>3, Members DEF Bit
  <2>3. idleWorkers' = idleWorkers - Bit(t \in Idling) + Bit(t \in Idling')
    BY <1>2, <1>3, Members DEF Bit
  <2>4. waitIdleWaiters' = waitIdleWaiters - Bit(t \in Waiting) + Bit(t \in Waiting')
    BY <1>2, <1>3, Members DEF Bit
  <2> QED BY <1>4, <1>9, <2>1, <2>2, <2>3, <2>4, CountStep
<1>11. Types'
  <2>1. pendingTasks' \in 0..(SizeModulus - 1)
    <3>1. pendingTasks + 1 \in Int /\ pendingTasks \in 0..(SizeModulus - 1)
      BY <1>1, Sizes DEF Types
    <3>2. Wrap(pendingTasks + 1) \in 0..(SizeModulus - 1)
      BY <3>1, WrapRange
    <3> QED BY <3>1, <3>2
  <2>2. /\ activeTasks' \in Int /\ idleWorkers' \in Int /\ waitIdleWaiters' \in Int
        /\ exceptionCounter' \in Int
    BY <1>1 DEF Types, Bit
  <2> QED BY <1>1, <1>2, <1>3, <2>1, <2>2 DEF Types, RestTypes
<1> QED BY <1>5, <1>6, <1>7, <1>10, <1>11 DEF IInv

LEMMA SubmitCountInv ==
  ASSUME IInv, NEW t \in Threads, SubmitCount(t)
  PROVE  IInv'
<1> USE DEF restVars, historyVars, stateVars, queueVars, joinVars
<1> DEFINE f == frame[t]
<1>1. /\ pc[t] = "submitCount" /\ frame' = [frame EXCEPT ![t] = f] /\ Goto(t, "submitIdle")
      /\ UNCHANGED <<local, shard, status>> /\ RestTypes' /\ f \in Frames
      /\ pendingTasks' = Wrap(pendingTasks + 1)
      /\ UNCHANGED <<activeTasks, idleWorkers, waitIdleWaiters, exceptionCounter, frame>>
  BY Facts DEF SubmitCount, RestTypes
<1>2. "submitIdle" \in Labels
  BY DEF Labels
<1>3. ASSUME pc'[t] = "submitIdle", frame'[t] = f PROVE ControlOK(t)' /\ StatusOK(t)'
  <2>1. ControlOK(t) /\ StatusOK(t)
    BY Facts DEF IInv, StatusInv
  <2>2. ControlOK(t)'
    BY <1>1, <1>3, <2>1 DEF ControlOK, InSubmit, Hands, InWaitIdle, Sleeping
  <2>3. StatusOK(t)'
    BY <1>1, <1>3, <2>1 DEF StatusOK, InSubmit, Hands
  <2> QED BY <2>2, <2>3
<1>4. /\ activeTasks \in Int /\ idleWorkers \in Int /\ waitIdleWaiters \in Int
      /\ exceptionCounter \in Int
  BY DEF IInv, Types
<1>5. /\ activeTasks' = activeTasks - Bit(f.task # NoTask /\ pc[t] \notin {"recheck", "act"})
                        + Bit(f.task # NoTask /\ "submitIdle" \notin {"recheck", "act"})
      /\ idleWorkers' = idleWorkers - Bit(t \in Workers /\ f.waitFor # "none")
                                    + Bit(t \in Workers /\ f.waitFor # "none")
      /\ waitIdleWaiters' = waitIdleWaiters - Bit(t \in Clients /\ f.draining)
                                            + Bit(t \in Clients /\ f.draining)
      /\ exceptionCounter' = exceptionCounter
            + Bit(f.task # NoTask /\ status[f.task] = "threw" /\ pc[t] \in {"except", "done"})
            - Bit(f.task # NoTask /\ status[f.task] = "threw"
                  /\ "submitIdle" \in {"except", "done"})
  BY <1>1, <1>4 DEF Bit
<1> QED BY <1>1, <1>2, <1>3, <1>5, Facts, CountedGoto DEF Hands

LEMMA CountActiveInv ==
  ASSUME IInv, NEW t \in Threads, CountActive(t)
  PROVE  IInv'
<1> USE DEF restVars, historyVars, stateVars, queueVars, joinVars
<1> DEFINE f == [frame[t] EXCEPT !.from = NoQueue]
<1>1. /\ pc[t] = "act" /\ frame' = [frame EXCEPT ![t] = f] /\ Goto(t, "pend")
      /\ UNCHANGED <<local, shard, status>> /\ RestTypes'
      /\ activeTasks' = activeTasks + 1
      /\ UNCHANGED <<pendingTasks, idleWorkers, waitIdleWaiters, exceptionCounter>>
  BY Facts DEF CountActive, RestTypes
<1>2. /\ f \in Frames /\ f.call = frame[t].call /\ f.todo = frame[t].todo
      /\ f.ops = frame[t].ops /\ f.task = frame[t].task /\ f.waitFor = frame[t].waitFor
      /\ f.draining = frame[t].draining /\ f.probe = frame[t].probe
  BY Facts DEF Frames
<1> HIDE DEF f
<1>3. "pend" \in Labels
  BY DEF Labels
<1>4. ASSUME pc'[t] = "pend", frame'[t] = f PROVE ControlOK(t)' /\ StatusOK(t)'
  <2>1. ControlOK(t) /\ StatusOK(t)
    BY Facts DEF IInv, StatusInv
  <2>2. ControlOK(t)'
    BY <1>1, <1>2, <1>4, <2>1, Kinds DEF ControlOK, InSubmit, Hands, InWaitIdle, Sleeping
  <2>3. StatusOK(t)'
    BY <1>1, <1>2, <1>4, <2>1 DEF StatusOK, InSubmit, Hands
  <2> QED BY <2>2, <2>3
<1>5. frame[t].task # NoTask
  BY <1>1, Facts DEF ControlOK, Hands
<1>6. /\ activeTasks \in Int /\ idleWorkers \in Int /\ waitIdleWaiters \in Int
      /\ exceptionCounter \in Int
  BY DEF IInv, Types
<1>7. /\ activeTasks' = activeTasks
                        - Bit(frame[t].task # NoTask /\ pc[t] \notin {"recheck", "act"})
                        + Bit(f.task # NoTask /\ "pend" \notin {"recheck", "act"})
      /\ idleWorkers' = idleWorkers - Bit(t \in Workers /\ frame[t].waitFor # "none")
                                    + Bit(t \in Workers /\ f.waitFor # "none")
      /\ waitIdleWaiters' = waitIdleWaiters - Bit(t \in Clients /\ frame[t].draining)
                                            + Bit(t \in Clients /\ f.draining)
      /\ exceptionCounter' = exceptionCounter
            + Bit(frame[t].task # NoTask /\ status[frame[t].task] = "threw"
                  /\ pc[t] \in {"except", "done"})
            - Bit(f.task # NoTask /\ status[f.task] = "threw" /\ "pend" \in {"except", "done"})
  BY <1>1, <1>2, <1>5, <1>6 DEF Bit
<1> QED BY <1>1, <1>2, <1>3, <1>4, <1>7, Facts, CountedGoto DEF Hands

LEMMA CountExceptionInv ==
  ASSUME IInv, NEW t \in Threads, CountException(t)
  PROVE  IInv'
<1> USE DEF restVars, historyVars, stateVars, queueVars, joinVars
<1> DEFINE f == frame[t]
<1>1. /\ pc[t] = "except" /\ frame' = [frame EXCEPT ![t] = f] /\ Goto(t, "retire")
      /\ UNCHANGED <<local, shard, status>> /\ RestTypes'
      /\ exceptionCounter' = exceptionCounter + 1
      /\ UNCHANGED <<pendingTasks, activeTasks, idleWorkers, waitIdleWaiters>>
  BY Facts DEF CountException, RestTypes
<1>2. /\ f \in Frames /\ f.call = frame[t].call /\ f.todo = frame[t].todo /\ f.ops = frame[t].ops
      /\ f.task = frame[t].task /\ f.waitFor = frame[t].waitFor
      /\ f.draining = frame[t].draining /\ f.probe = frame[t].probe
  BY Facts
<1> HIDE DEF f
<1>3. "retire" \in Labels
  BY DEF Labels
<1>4. ASSUME pc'[t] = "retire", frame'[t] = f PROVE ControlOK(t)' /\ StatusOK(t)'
  <2>1. ControlOK(t) /\ StatusOK(t)
    BY Facts DEF IInv, StatusInv
  <2>2. ControlOK(t)'
    BY <1>1, <1>2, <1>4, <2>1, Kinds DEF ControlOK, InSubmit, Hands, InWaitIdle, Sleeping
  <2>3. StatusOK(t)'
    BY <1>1, <1>2, <1>4, <2>1 DEF StatusOK, InSubmit, Hands
  <2> QED BY <2>2, <2>3
<1>5. frame[t].task # NoTask /\ status[frame[t].task] = "threw"
  BY <1>1, Facts DEF ControlOK, IInv, StatusInv, StatusOK
<1>6. /\ activeTasks \in Int /\ idleWorkers \in Int /\ waitIdleWaiters \in Int
      /\ exceptionCounter \in Int
  BY DEF IInv, Types
<1>7. /\ activeTasks' = activeTasks
                        - Bit(frame[t].task # NoTask /\ pc[t] \notin {"recheck", "act"})
                        + Bit(f.task # NoTask /\ "retire" \notin {"recheck", "act"})
      /\ idleWorkers' = idleWorkers - Bit(t \in Workers /\ frame[t].waitFor # "none")
                                    + Bit(t \in Workers /\ f.waitFor # "none")
      /\ waitIdleWaiters' = waitIdleWaiters - Bit(t \in Clients /\ frame[t].draining)
                                            + Bit(t \in Clients /\ f.draining)
      /\ exceptionCounter' = exceptionCounter
            + Bit(frame[t].task # NoTask /\ status[frame[t].task] = "threw"
                  /\ pc[t] \in {"except", "done"})
            - Bit(f.task # NoTask /\ status[f.task] = "threw" /\ "retire" \in {"except", "done"})
  BY <1>1, <1>2, <1>5, <1>6 DEF Bit
<1> QED BY <1>1, <1>2, <1>3, <1>4, <1>7, Facts, CountedGoto DEF Hands

LEMMA RetireInv ==
  ASSUME IInv, NEW t \in Threads, Retire(t)
  PROVE  IInv'
<1> USE DEF restVars, historyVars, stateVars, queueVars, joinVars
<1> DEFINE f == [frame[t] EXCEPT !.task = NoTask]
<1>1. /\ pc[t] = "retire" /\ frame' = [frame EXCEPT ![t] = f] /\ Goto(t, "tell")
      /\ UNCHANGED <<local, shard, status>> /\ RestTypes'
      /\ activeTasks' = activeTasks - 1
      /\ UNCHANGED <<pendingTasks, idleWorkers, waitIdleWaiters, exceptionCounter>>
  BY Facts DEF Retire, RestTypes
<1>2. /\ f \in Frames /\ f.call = frame[t].call /\ f.todo = frame[t].todo /\ f.ops = frame[t].ops
      /\ f.task = NoTask /\ f.waitFor = frame[t].waitFor
      /\ f.draining = frame[t].draining /\ f.probe = frame[t].probe
  BY Facts DEF Frames
<1> HIDE DEF f
<1>3. "tell" \in Labels
  BY DEF Labels
<1>4. ASSUME pc'[t] = "tell", frame'[t] = f PROVE ControlOK(t)' /\ StatusOK(t)'
  <2>1. ControlOK(t) /\ StatusOK(t)
    BY Facts DEF IInv, StatusInv
  <2>2. ControlOK(t)'
    BY <1>1, <1>2, <1>4, <2>1, Kinds DEF ControlOK, InSubmit, Hands, InWaitIdle, Sleeping
  <2>3. StatusOK(t)'
    BY <1>1, <1>2, <1>4, <2>1 DEF StatusOK, InSubmit, Hands
  <2> QED BY <2>2, <2>3
<1>5. frame[t].task # NoTask
  BY <1>1, Facts DEF ControlOK
<1>6. /\ activeTasks \in Int /\ idleWorkers \in Int /\ waitIdleWaiters \in Int
      /\ exceptionCounter \in Int
  BY DEF IInv, Types
<1>7. /\ activeTasks' = activeTasks
                        - Bit(frame[t].task # NoTask /\ pc[t] \notin {"recheck", "act"})
                        + Bit(f.task # NoTask /\ "tell" \notin {"recheck", "act"})
      /\ idleWorkers' = idleWorkers - Bit(t \in Workers /\ frame[t].waitFor # "none")
                                    + Bit(t \in Workers /\ f.waitFor # "none")
      /\ waitIdleWaiters' = waitIdleWaiters - Bit(t \in Clients /\ frame[t].draining)
                                            + Bit(t \in Clients /\ f.draining)
      /\ exceptionCounter' = exceptionCounter
            + Bit(frame[t].task # NoTask /\ status[frame[t].task] = "threw"
                  /\ pc[t] \in {"except", "done"})
            - Bit(f.task # NoTask /\ status[f.task] = "threw" /\ "tell" \in {"except", "done"})
  BY <1>1, <1>2, <1>5, <1>6 DEF Bit
<1> QED BY <1>1, <1>2, <1>3, <1>4, <1>7, Facts, CountedGoto DEF Hands

LEMMA StartWaitInv ==
  ASSUME IInv, NEW t \in Workers, NEW reason \in {"resumed", "work"},
         pc[t] \in {"top", "none"}, StartWait(t, reason),
         UNCHANGED <<local, shard, status>>
  PROVE  IInv'
<1> USE DEF restVars, historyVars, stateVars, queueVars, joinVars
<1> DEFINE f == [frame[t] EXCEPT !.waitFor = reason]
<1>. t \in Threads
  BY DEF Threads
<1>1. /\ frame' = [frame EXCEPT ![t] = f] /\ Goto(t, "spin")
      /\ RestTypes'
      /\ idleWorkers' = idleWorkers + 1
      /\ UNCHANGED <<pendingTasks, activeTasks, waitIdleWaiters, exceptionCounter>>
  BY Facts DEF StartWait, RestTypes
<1>2. /\ f \in Frames /\ f.call = frame[t].call /\ f.todo = frame[t].todo /\ f.ops = frame[t].ops
      /\ f.task = frame[t].task /\ f.waitFor = reason
      /\ f.draining = frame[t].draining /\ f.probe = frame[t].probe
  <2>1. reason \in {"none", "resumed", "work", "drained"}
    OBVIOUS
  <2>2. frame[t] \in Frames
    BY Facts
  <2> QED BY <2>1, <2>2 DEF Frames
<1> HIDE DEF f
<1>3. "spin" \in Labels
  BY DEF Labels
<1>4. ASSUME pc'[t] = "spin", frame'[t] = f PROVE ControlOK(t)' /\ StatusOK(t)'
  <2>1. ControlOK(t) /\ StatusOK(t)
    BY Facts DEF IInv, StatusInv
  <2>2. ControlOK(t)'
    BY <1>1, <1>2, <1>4, <2>1, Kinds DEF ControlOK, InSubmit, Hands, InWaitIdle, Sleeping
  <2>3. StatusOK(t)'
    BY <1>1, <1>2, <1>4, <2>1 DEF StatusOK, InSubmit, Hands
  <2> QED BY <2>2, <2>3
<1>5. /\ frame[t].waitFor = "none" /\ reason # "none" /\ frame[t].task = NoTask
      /\ t \notin Clients
  BY ClientsAssumption, Facts DEF ControlOK, InWaitIdle, Sleeping
<1>6. /\ activeTasks \in Int /\ idleWorkers \in Int /\ waitIdleWaiters \in Int
      /\ exceptionCounter \in Int
  BY DEF IInv, Types
<1>7. /\ activeTasks' = activeTasks
                        - Bit(frame[t].task # NoTask /\ pc[t] \notin {"recheck", "act"})
                        + Bit(f.task # NoTask /\ "spin" \notin {"recheck", "act"})
      /\ idleWorkers' = idleWorkers - Bit(t \in Workers /\ frame[t].waitFor # "none")
                                    + Bit(t \in Workers /\ f.waitFor # "none")
      /\ waitIdleWaiters' = waitIdleWaiters - Bit(t \in Clients /\ frame[t].draining)
                                            + Bit(t \in Clients /\ f.draining)
      /\ exceptionCounter' = exceptionCounter
            + Bit(frame[t].task # NoTask /\ status[frame[t].task] = "threw"
                  /\ pc[t] \in {"except", "done"})
            - Bit(f.task # NoTask /\ status[f.task] = "threw" /\ "spin" \in {"except", "done"})
  BY <1>1, <1>2, <1>5, <1>6 DEF Bit
<1> QED BY <1>1, <1>2, <1>3, <1>4, <1>7, Facts, CountedGoto DEF Hands

LEMMA WorkerEndWait ==
  ASSUME IInv, NEW t \in Workers, pc[t] \in {"spin", "look"}, EndWait(t)
  PROVE  IInv'
<1> USE DEF restVars, historyVars, stateVars, queueVars, joinVars
<1> DEFINE f == [frame[t] EXCEPT !.waitFor = "none"]
<1>. t \in Threads
  BY DEF Threads
<1>1. /\ frame' = [frame EXCEPT ![t] = f] /\ Goto(t, "top")
      /\ UNCHANGED <<local, shard, status>> /\ RestTypes'
      /\ idleWorkers' = idleWorkers - 1
      /\ UNCHANGED <<pendingTasks, activeTasks, waitIdleWaiters, exceptionCounter>>
  BY Facts DEF EndWait, RestTypes
<1>2. /\ f \in Frames /\ f.call = frame[t].call /\ f.todo = frame[t].todo /\ f.ops = frame[t].ops
      /\ f.task = frame[t].task /\ f.waitFor = "none"
      /\ f.draining = frame[t].draining /\ f.probe = frame[t].probe
  BY Facts, SetWait
<1> HIDE DEF f
<1>3. "top" \in Labels
  BY DEF Labels
<1>4. ASSUME pc'[t] = "top", frame'[t] = f PROVE ControlOK(t)' /\ StatusOK(t)'
  <2>1. ControlOK(t) /\ StatusOK(t)
    BY Facts DEF IInv, StatusInv
  <2>2. ControlOK(t)'
    BY <1>1, <1>2, <1>4, <2>1, Kinds DEF ControlOK, InSubmit, Hands, InWaitIdle, Sleeping
  <2>3. StatusOK(t)'
    BY <1>1, <1>2, <1>4, <2>1 DEF StatusOK, InSubmit, Hands
  <2> QED BY <2>2, <2>3
<1>5. /\ frame[t].waitFor # "none" /\ frame[t].task = NoTask
      /\ t \notin Clients
  BY ClientsAssumption, Facts DEF ControlOK, InWaitIdle, Sleeping
<1>6. /\ activeTasks \in Int /\ idleWorkers \in Int /\ waitIdleWaiters \in Int
      /\ exceptionCounter \in Int
  BY DEF IInv, Types
<1>7. /\ activeTasks' = activeTasks
                        - Bit(frame[t].task # NoTask /\ pc[t] \notin {"recheck", "act"})
                        + Bit(f.task # NoTask /\ "top" \notin {"recheck", "act"})
      /\ idleWorkers' = idleWorkers - Bit(t \in Workers /\ frame[t].waitFor # "none")
                                    + Bit(t \in Workers /\ f.waitFor # "none")
      /\ waitIdleWaiters' = waitIdleWaiters - Bit(t \in Clients /\ frame[t].draining)
                                            + Bit(t \in Clients /\ f.draining)
      /\ exceptionCounter' = exceptionCounter
            + Bit(frame[t].task # NoTask /\ status[frame[t].task] = "threw"
                  /\ pc[t] \in {"except", "done"})
            - Bit(f.task # NoTask /\ status[f.task] = "threw" /\ "top" \in {"except", "done"})
  BY <1>1, <1>2, <1>5, <1>6 DEF Bit
<1> QED BY <1>1, <1>2, <1>3, <1>4, <1>7, Facts, CountedGoto DEF Hands

LEMMA WaitExitInv ==
  ASSUME IInv, NEW t \in Threads, WaitExit(t)
  PROVE  IInv'
<1> USE DEF restVars, historyVars, stateVars, queueVars, joinVars
<1> DEFINE f == [frame[t] EXCEPT !.draining = FALSE, !.seen = {}]
<1>1. /\ pc[t] = "waitExit" /\ frame' = [frame EXCEPT ![t] = f] /\ Goto(t, "run")
      /\ UNCHANGED <<local, shard, status>> /\ RestTypes'
      /\ waitIdleWaiters' = waitIdleWaiters - 1
      /\ UNCHANGED <<pendingTasks, activeTasks, idleWorkers, exceptionCounter>>
  BY Facts DEF WaitExit, RestTypes
<1>2. /\ f \in Frames /\ f.call = frame[t].call /\ f.todo = frame[t].todo /\ f.ops = frame[t].ops
      /\ f.task = frame[t].task /\ f.waitFor = frame[t].waitFor
      /\ f.draining = FALSE /\ f.probe = frame[t].probe
  BY Facts DEF Frames
<1> HIDE DEF f
<1>3. "run" \in Labels
  BY DEF Labels
<1>4. ASSUME pc'[t] = "run", frame'[t] = f PROVE ControlOK(t)' /\ StatusOK(t)'
  <2>1. ControlOK(t) /\ StatusOK(t)
    BY Facts DEF IInv, StatusInv
  <2>2. ControlOK(t)'
    <3>1. frame[t].task = NoTask /\ t \in Clients /\ t \notin Workers
      BY <1>1, <2>1, Kinds DEF ControlOK, InWaitIdle
    <3>2. ~frame'[t].draining
      BY <1>2, <1>4
    <3> QED BY <1>1, <1>2, <1>4, <2>1, <3>1, <3>2
        DEF ControlOK, InSubmit, Hands, InWaitIdle, Sleeping
  <2>3. StatusOK(t)'
    <3>1. frame[t].task = NoTask
      BY <1>1, <2>1 DEF ControlOK, InWaitIdle
    <3> QED BY <1>2, <1>4, <3>1 DEF StatusOK
  <2> QED BY <2>2, <2>3
<1>5. /\ frame[t].draining /\ frame[t].task = NoTask
      /\ t \in Clients
  BY <1>1, Kinds, Facts DEF ControlOK, InWaitIdle
<1>6. /\ activeTasks \in Int /\ idleWorkers \in Int /\ waitIdleWaiters \in Int
      /\ exceptionCounter \in Int
  BY DEF IInv, Types
<1>7. /\ activeTasks' = activeTasks
                        - Bit(frame[t].task # NoTask /\ pc[t] \notin {"recheck", "act"})
                        + Bit(f.task # NoTask /\ "run" \notin {"recheck", "act"})
      /\ idleWorkers' = idleWorkers - Bit(t \in Workers /\ frame[t].waitFor # "none")
                                    + Bit(t \in Workers /\ f.waitFor # "none")
      /\ waitIdleWaiters' = waitIdleWaiters - Bit(t \in Clients /\ frame[t].draining)
                                            + Bit(t \in Clients /\ f.draining)
      /\ exceptionCounter' = exceptionCounter
            + Bit(frame[t].task # NoTask /\ status[frame[t].task] = "threw"
                  /\ pc[t] \in {"except", "done"})
            - Bit(f.task # NoTask /\ status[f.task] = "threw" /\ "run" \in {"except", "done"})
  BY <1>1, <1>2, <1>5, <1>6 DEF Bit
<1> QED BY <1>1, <1>2, <1>3, <1>4, <1>7, Facts, CountedGoto DEF Hands

LEMMA WaitBeginInv ==
  ASSUME IInv, NEW t \in Clients, WaitBegin(t)
  PROVE  IInv'
<1> USE DEF restVars, historyVars, stateVars, queueVars, joinVars
<1> DEFINE f == [Advanced(t) EXCEPT !.draining = TRUE, !.seen = accepted]
<1>. t \in Threads
  BY DEF Threads
<1>1. /\ AtOp(t, "waitIdle") /\ frame' = [frame EXCEPT ![t] = f] /\ Goto(t, "waitTop")
      /\ pc[t] = "run" /\ Ops(t) # <<>> /\ Head(Ops(t))[1] = "waitIdle"
      /\ UNCHANGED <<local, shard, status>> /\ RestTypes'
      /\ waitIdleWaiters' = waitIdleWaiters + 1
      /\ UNCHANGED <<pendingTasks, activeTasks, idleWorkers, exceptionCounter>>
  BY Facts DEF WaitBegin, RestTypes, AtOp
<1>2. /\ f \in Frames /\ f.call = frame[t].call /\ f.todo = Advanced(t).todo
      /\ f.ops = Advanced(t).ops /\ f.task = frame[t].task /\ f.waitFor = frame[t].waitFor
      /\ f.draining = TRUE /\ f.probe = frame[t].probe
      /\ Submits(f.todo) \subseteq Submits(frame[t].todo) /\ NoneTwice(f.todo)
      /\ Submits(f.ops) \subseteq Submits(frame[t].ops) /\ NoneTwice(f.ops)
  <2>1. Advanced(t) \in Frames /\ accepted \subseteq Tasks
    BY <1>1, Advancing, Facts DEF RestTypes
  <2>2. /\ f \in Frames /\ f.call = Advanced(t).call /\ f.todo = Advanced(t).todo
        /\ f.ops = Advanced(t).ops /\ f.task = Advanced(t).task
        /\ f.waitFor = Advanced(t).waitFor /\ f.draining = TRUE
        /\ f.probe = Advanced(t).probe
    BY <2>1 DEF Frames
  <2>3. frame[t].call = NoCall
    BY <1>1, Facts DEF ControlOK, InSubmit
  <2> HIDE DEF f
  <2> QED BY <1>1, <2>2, <2>3, Advancing
<1> HIDE DEF f
<1>3. "waitTop" \in Labels
  BY DEF Labels
<1>4. /\ frame[t].task = NoTask /\ ~frame[t].draining
      /\ t \notin Workers
  <2>1. frame[t].task = NoTask
    BY <1>1, Advancing, OpKinds
  <2> QED BY <1>1, <2>1, ClientsAssumption, Facts DEF ControlOK, InWaitIdle, Sleeping
<1>5. ASSUME pc'[t] = "waitTop", frame'[t] = f PROVE ControlOK(t)' /\ StatusOK(t)'
  <2>1. ControlOK(t) /\ StatusOK(t)
    BY Facts DEF IInv, StatusInv
  <2>2. ControlOK(t)'
    BY <1>1, <1>2, <1>5, <1>4, <2>1 DEF ControlOK, InSubmit, Hands, InWaitIdle, Sleeping
  <2>3. StatusOK(t)'
    BY <1>1, <1>2, <1>5, <2>1 DEF StatusOK, InSubmit, Hands
  <2> QED BY <2>2, <2>3
<1>6. /\ activeTasks \in Int /\ idleWorkers \in Int /\ waitIdleWaiters \in Int
      /\ exceptionCounter \in Int
  BY DEF IInv, Types
<1>7. /\ activeTasks' = activeTasks
                        - Bit(frame[t].task # NoTask /\ pc[t] \notin {"recheck", "act"})
                        + Bit(f.task # NoTask /\ "waitTop" \notin {"recheck", "act"})
      /\ idleWorkers' = idleWorkers - Bit(t \in Workers /\ frame[t].waitFor # "none")
                                    + Bit(t \in Workers /\ f.waitFor # "none")
      /\ waitIdleWaiters' = waitIdleWaiters - Bit(t \in Clients /\ frame[t].draining)
                                            + Bit(t \in Clients /\ f.draining)
      /\ exceptionCounter' = exceptionCounter
            + Bit(frame[t].task # NoTask /\ status[frame[t].task] = "threw"
                  /\ pc[t] \in {"except", "done"})
            - Bit(f.task # NoTask /\ status[f.task] = "threw" /\ "waitTop" \in {"except", "done"})
  BY <1>1, <1>2, <1>4, <1>6 DEF Bit
<1> QED BY <1>1, <1>2, <1>3, <1>5, <1>7, Facts, CountedGoto DEF Hands

----------------------------------------------------------------------------
\* The end of a task.

LEMMA TaskEnds ==
  ASSUME IInv, NEW t \in Threads, pc[t] \in {"run", "threw"}, frame[t].task # NoTask,
         NEW f \in Frames, frame' = [frame EXCEPT ![t] = f],
         f.call = frame[t].call, f.todo = frame[t].todo, f.ops \in {frame[t].ops, <<>>},
         f.task = frame[t].task, f.waitFor = frame[t].waitFor,
         f.draining = frame[t].draining, f.probe = frame[t].probe,
         NEW s \in {"done", "threw"}, status' = [status EXCEPT ![frame[t].task] = s],
         NEW l \in {"retire", "except", "done"}, Goto(t, l),
         l = "retire" => s = "done", l = "except" => s = "threw", l = "done" => t \in Workers,
         UNCHANGED <<poolVars, fresh, accepted, passed>>
  PROVE  IInv'
<1> USE DEF poolVars, stateVars, queueVars, joinVars
<1> DEFINE k == frame[t].task
<1>1. /\ k \in Tasks /\ status[k] = "running"
      /\ RestTypes' /\ UNCHANGED <<local, shard, countVars>>
  BY Started, Facts DEF IInv, StatusInv, StatusOK, RestTypes
<1>2. l \in Labels
  BY DEF Labels
<1>3. /\ pc' \in [Threads -> Labels] /\ pc'[t] = l
      /\ \A u \in Threads \ {t} : pc'[u] = pc[u]
  BY <1>2, Moved DEF IInv
<1>4. /\ frame' \in [Threads -> Frames] /\ frame'[t] = f
      /\ \A u \in Threads \ {t} : frame'[u] = frame[u]
  BY NewFrame DEF IInv
<1>5. status'[k] = s /\ (\A j \in Tasks \ {k} : status'[j] = status[j])
  BY <1>1 DEF IInv, Types
<1>6. Types'
  BY <1>1, <1>3, <1>4 DEF IInv, Types, RestTypes, countVars
<1>7. Others(t) /\ Undisturbed(t)
  BY <1>1, <1>3, <1>4, <1>5, UndisturbedBy DEF Others
<1>8. OwedInv'
  <2>1. Submits(f.ops) \subseteq Submits(frame[t].ops) /\ NoneTwice(f.ops) /\ NoneTwice(f.todo)
    BY NoOps, Facts
  <2>2. \A j \in Tasks : /\ status[j] = "unsubmitted" => status'[j] = "unsubmitted"
                         /\ status[j] \in {"running", "done", "threw"}
                               => status'[j] \in {"running", "done", "threw"}
    BY <1>1, <1>5
  <2> QED BY <1>3, <1>4, <1>7, <2>1, <2>2, OwedKept DEF IInv
<1>9. ControlOK(t)'
  BY <1>3, <1>4, Facts, Kinds DEF ControlOK, InSubmit, Hands, InWaitIdle, Sleeping
<1>10. StatusOK(t)'
  BY <1>3, <1>4, <1>5 DEF StatusOK, Hands, InSubmit
<1>11. ControlInv' /\ StatusInv'
  BY <1>7, <1>9, <1>10, ControlKept, StatusKept DEF IInv
<1>12. PlaceInv'
  <2>1. \A j \in Tasks : status'[j] = "queued" <=> status[j] = "queued"
    BY <1>1, <1>5
  <2> QED BY <1>1, <1>4, <1>7, <2>1, PlaceKept DEF IInv, Hands
<1>13. CountInv'
  <2>1. CountInv /\ activeTasks \in Int /\ idleWorkers \in Int
        /\ waitIdleWaiters \in Int /\ exceptionCounter \in Int
    BY DEF IInv, Types
  <2>2. Queued' = Queued /\ k \notin Threw /\ (k \in Threw' <=> s = "threw")
    BY <1>1, <1>5 DEF Queued, Threw
  <2>3. /\ t \notin Counting /\ t \notin Counting'
        /\ t \in Executing /\ t \in Executing'
        /\ t \in Idling <=> t \in Idling'
        /\ t \in Waiting <=> t \in Waiting'
        /\ t \notin Uncounted /\ (t \in Uncounted' <=> s = "threw")
    BY <1>3, <1>4, <1>5, Members
  <2>4. Counting' = Counting
    BY <1>3, <2>3 DEF Counting
  <2>5. pendingTasks' = Wrap(Cardinality(Queued') - Cardinality(Counting'))
    BY <1>1, <2>1, <2>2, <2>4 DEF CountInv, countVars
  <2>6. /\ activeTasks' = activeTasks - Bit(t \in Executing) + Bit(t \in Executing')
        /\ idleWorkers' = idleWorkers - Bit(t \in Idling) + Bit(t \in Idling')
        /\ waitIdleWaiters' = waitIdleWaiters - Bit(t \in Waiting) + Bit(t \in Waiting')
    BY <1>1, <2>1, <2>3 DEF countVars, Bit
  <2>7. exceptionCounter' = exceptionCounter - Bit(k \in Threw) + Bit(k \in Threw')
                            + Bit(t \in Uncounted) - Bit(t \in Uncounted')
    BY <1>1, <2>1, <2>2, <2>3 DEF countVars, Bit
  <2> QED BY <1>5, <1>7, <2>5, <2>6, <2>7, CountStep
<1> QED BY <1>6, <1>8, <1>11, <1>12, <1>13 DEF IInv

LEMMA TaskEndsInv ==
  ASSUME IInv, NEW t \in Threads, TaskReturns(t) \/ TaskThrows(t)
  PROVE  IInv'
<1>1. selfDetach \subseteq Workers /\ frame[t] \in Frames
  BY Facts DEF RestTypes
<1>2. CASE TaskReturns(t)
  <2>1. PICK l \in {"retire", "done"} : Goto(t, l) /\ (l = "done" => t \in Workers)
    BY <1>1, <1>2 DEF TaskReturns, TaskDone
  <2>2. frame' = [frame EXCEPT ![t] = frame[t]]
    BY <1>2, Stays DEF TaskReturns
  <2> QED BY <1>1, <1>2, <2>1, <2>2, TaskEnds DEF TaskReturns, InTask
<1>3. CASE TaskThrows(t)
  <2> DEFINE f == [frame[t] EXCEPT !.ops = <<>>]
  <2>1. PICK l \in {"except", "done"} : Goto(t, l) /\ (l = "done" => t \in Workers)
    BY <1>1, <1>3 DEF TaskThrows, TaskDone
  <2>2. frame' = [frame EXCEPT ![t] = f] /\ pc[t] = "threw" /\ frame[t].task # NoTask
    BY <1>3, Facts DEF TaskThrows, ControlOK
  <2>3. /\ f \in Frames /\ f.call = frame[t].call /\ f.todo = frame[t].todo /\ f.ops = <<>>
        /\ f.task = frame[t].task /\ f.waitFor = frame[t].waitFor
        /\ f.draining = frame[t].draining /\ f.probe = frame[t].probe
    BY <1>1, NoOps DEF Frames
  <2> HIDE DEF f
  <2> QED BY <1>3, <2>1, <2>2, <2>3, TaskEnds DEF TaskThrows
<1> QED BY <1>2, <1>3

----------------------------------------------------------------------------
\* A task joins a queue, or leaves it.

LEMMA Appended ==
  ASSUME NEW s \in Seq(Tasks), NEW k \in Tasks,
         \A i \in 1..Len(s) : s[i] # k,
         \A i, j \in 1..Len(s) : s[i] = s[j] => i = j
  PROVE  LET r == Append(s, k)
         IN  /\ r \in Seq(Tasks)
             /\ {r[i] : i \in 1..Len(r)} = {s[i] : i \in 1..Len(s)} \cup {k}
             /\ \A i, j \in 1..Len(r) : r[i] = r[j] => i = j
<1> DEFINE r == Append(s, k)
<1>1. /\ r \in Seq(Tasks) /\ Len(s) \in Nat /\ Len(r) = Len(s) + 1 /\ r[Len(s) + 1] = k
      /\ \A i \in 1..Len(s) : r[i] = s[i]
  OBVIOUS
<1> HIDE DEF r
<1>2. 1..Len(r) = 1..Len(s) \cup {Len(s) + 1}
  BY <1>1
<1>3. {r[i] : i \in 1..Len(r)} = {s[i] : i \in 1..Len(s)} \cup {k}
  BY <1>1, <1>2
<1>4. \A i, j \in 1..Len(r) : r[i] = r[j] => i = j
  BY <1>1, <1>2
<1> QED BY <1>1, <1>3, <1>4 DEF r

LEMMA TakenFirst ==
  ASSUME NEW s \in Seq(Tasks), s # <<>>,
         \A i, j \in 1..Len(s) : s[i] = s[j] => i = j
  PROVE  LET r == Tail(s) IN
         /\ r \in Seq(Tasks) /\ Head(s) \in {s[i] : i \in 1..Len(s)}
         /\ {r[i] : i \in 1..Len(r)} = {s[i] : i \in 1..Len(s)} \ {Head(s)}
         /\ \A i, j \in 1..Len(r) : r[i] = r[j] => i = j
<1> DEFINE r == Tail(s)
<1>1. /\ r \in Seq(Tasks) /\ Len(s) \in Nat \ {0} /\ Len(r) = Len(s) - 1 /\ Head(s) = s[1]
      /\ \A i \in 1..Len(r) : r[i] = s[i + 1]
  BY HeadTailProperties, EmptySeq
<1> HIDE DEF r
<1>2. \A i \in 1..Len(r) : i + 1 \in 1..Len(s) /\ i + 1 # 1 /\ r[i] = s[i + 1]
  BY <1>1
<1>3. \A i \in 1..Len(s) : i # 1 => i - 1 \in 1..Len(r) /\ r[i - 1] = s[i]
  BY <1>1
<1>4. {r[i] : i \in 1..Len(r)} = {s[i] : i \in 1..Len(s)} \ {Head(s)}
  <2>1. 1 \in 1..Len(s)
    BY <1>1
  <2>2. ASSUME NEW i \in 1..Len(r)
        PROVE  r[i] \in {s[j] : j \in 1..Len(s)} /\ r[i] # s[1]
    BY <1>2, <2>1
  <2>3. ASSUME NEW i \in 1..Len(s), s[i] # s[1]
        PROVE  s[i] \in {r[j] : j \in 1..Len(r)}
    BY <1>3, <2>3
  <2>4. \A x : x \in {r[i] : i \in 1..Len(r)} <=> x \in {s[i] : i \in 1..Len(s)} /\ x # s[1]
    BY <2>2, <2>3
  <2> QED BY <1>1, <2>4
<1>5. \A i, j \in 1..Len(r) : r[i] = r[j] => i = j
  <2> SUFFICES ASSUME NEW i \in 1..Len(r), NEW j \in 1..Len(r), r[i] = r[j] PROVE i = j
    OBVIOUS
  <2>1. i + 1 = j + 1
    BY <1>2
  <2> QED BY <1>1, <2>1
<1>6. Head(s) \in {s[i] : i \in 1..Len(s)}
  BY <1>1
<1> QED BY <1>1, <1>4, <1>5, <1>6 DEF r

LEMMA TakenLast ==
  ASSUME NEW s \in Seq(Tasks), s # <<>>,
         \A i, j \in 1..Len(s) : s[i] = s[j] => i = j
  PROVE  LET r == SubSeq(s, 1, Len(s) - 1) IN
         /\ r \in Seq(Tasks) /\ s[Len(s)] \in {s[i] : i \in 1..Len(s)}
         /\ {r[i] : i \in 1..Len(r)} = {s[i] : i \in 1..Len(s)} \ {s[Len(s)]}
         /\ \A i, j \in 1..Len(r) : r[i] = r[j] => i = j
<1> DEFINE r == SubSeq(s, 1, Len(s) - 1)
<1>1. Len(s) \in Nat \ {0} /\ (\A i \in 1..(Len(s) - 1) : s[i] \in Tasks)
  BY EmptySeq, LenProperties
<1>2. /\ r \in Seq(Tasks) /\ Len(r) = Len(s) - 1
      /\ \A i \in 1..Len(r) : r[i] = s[i]
  <2> DEFINE n == Len(s) - 1
  <2>1. n \in Nat /\ (\A i \in 1..n : s[i] \in Tasks)
    BY <1>1
  <2> HIDE DEF n
  <2>2. /\ SubSeq(s, 1, n) \in Seq(Tasks)
        /\ Len(SubSeq(s, 1, n)) = IF 1 <= n THEN n - 1 + 1 ELSE 0
        /\ \A i \in 1..(n - 1 + 1) : SubSeq(s, 1, n)[i] = s[1 + i - 1]
    BY <2>1, SubSeqProperties
  <2>3. Len(SubSeq(s, 1, n)) = n /\ n - 1 + 1 = n
    BY <2>1, <2>2
  <2>4. \A i \in 1..n : 1 + i - 1 = i
    BY <2>1
  <2> QED BY <2>2, <2>3, <2>4 DEF n
<1> HIDE DEF r
<1>3. 1..Len(s) = 1..Len(r) \cup {Len(s)} /\ Len(s) \notin 1..Len(r)
  BY <1>1, <1>2
<1>4. {r[i] : i \in 1..Len(r)} = {s[i] : i \in 1..Len(s)} \ {s[Len(s)]}
  BY <1>2, <1>3
<1>5. \A i, j \in 1..Len(r) : r[i] = r[j] => i = j
  BY <1>2, <1>3
<1>6. s[Len(s)] \in {s[i] : i \in 1..Len(s)}
  BY <1>3
<1> QED BY <1>2, <1>4, <1>5, <1>6 DEF r

LEMMA QueueTypes ==
  ASSUME Types, NEW q \in Queues
  PROVE  /\ Queue[q] \in Seq(Tasks) /\ Content[q] \subseteq Tasks
         /\ Content[q] = {Queue[q][i] : i \in 1..Len(Queue[q])}
         /\ Content'[q] = {Queue'[q][i] : i \in 1..Len(Queue'[q])}
<1>1. \/ q[1] = "local" /\ q[2] \in Workers
      \/ q[1] = "shard" /\ q[2] \in Shards
  BY DEF Queues
<1>2. Queue[q] \in Seq(Tasks)
  BY <1>1 DEF Types, Queue
<1> QED BY <1>2, ElementOfSeq DEF Content

\* A task that no queue holds and no thread keeps joins a queue.
LEMMA PlacePush ==
  ASSUME Types, ControlInv, PlaceInv, NEW t \in Threads, Others(t), NEW q \in Queues,
         NEW k \in Tasks, Queue'[q] = Append(Queue[q], k),
         \A r \in Queues \ {q} : Queue'[r] = Queue[r],
         \A r \in Queues : k \notin Content[r], \A u \in Threads : frame'[u].task # k,
         status'[k] = "queued", \A j \in Tasks \ {k} : status'[j] = status[j],
         \/ frame'[t].task = frame[t].task /\ (pc[t] \in Hands => pc'[t] \in Hands)
         \/ frame[t].task = k /\ frame'[t].task = NoTask
  PROVE  PlaceInv'
<1>1. /\ Content'[q] = Content[q] \cup {k}
      /\ \A i, j \in 1..Len(Queue'[q]) : Queue'[q][i] = Queue'[q][j] => i = j
  <2>1. /\ Queue[q] \in Seq(Tasks) /\ \A i \in 1..Len(Queue[q]) : Queue[q][i] # k
        /\ \A i, j \in 1..Len(Queue[q]) : Queue[q][i] = Queue[q][j] => i = j
    BY QueueTypes DEF PlaceInv
  <2> DEFINE r == Append(Queue[q], k)
  <2>2. /\ {r[i] : i \in 1..Len(r)} = {Queue[q][i] : i \in 1..Len(Queue[q])} \cup {k}
        /\ \A i, j \in 1..Len(r) : r[i] = r[j] => i = j
    BY <2>1, Appended
  <2>3. /\ Content[q] = {Queue[q][i] : i \in 1..Len(Queue[q])}
        /\ Content'[q] = {r[i] : i \in 1..Len(r)} /\ Queue'[q] = r
    BY QueueTypes
  <2> HIDE DEF r
  <2> QED BY <2>2, <2>3
<1>2. \A r \in Queues \ {q} : Content'[r] = Content[r]
  BY DEF Content
<1>3. \A r \in Queues : Content[r] \subseteq Tasks
  BY QueueTypes
<1>4. \A u \in Threads : frame'[u].task = frame[u].task \/ frame'[u].task = NoTask
  BY DEF Others
<1>5. ASSUME NEW j \in Tasks, status'[j] = "queued"
      PROVE  \/ \E r \in Queues : j \in Content'[r]
             \/ \E u \in Threads : pc'[u] \in Hands /\ frame'[u].task = j
  <2>1. CASE j = k
    BY <1>1, <2>1
  <2>2. CASE j # k
    <3>1. \/ \E r \in Queues : j \in Content[r]
          \/ \E u \in Threads : pc[u] \in Hands /\ frame[u].task = j
      BY <1>5, <2>2 DEF PlaceInv
    <3>2. CASE \E r \in Queues : j \in Content[r]
      BY <1>1, <1>2, <3>2
    <3>3. ASSUME NEW u \in Threads, pc[u] \in Hands, frame[u].task = j
          PROVE  pc'[u] \in Hands /\ frame'[u].task = j
      <4>1. CASE u = t
        BY <2>2, <3>3, <4>1
      <4>2. CASE u # t
        BY <3>3, <4>2, Awake, TasksAssumption DEF Others
      <4> QED BY <4>1, <4>2
    <3> QED BY <3>1, <3>2, <3>3
  <2> QED BY <2>1, <2>2
<1>6. \A r \in Queues : \A i, j \in 1..Len(Queue'[r]) : Queue'[r][i] = Queue'[r][j] => i = j
  BY <1>1 DEF PlaceInv
<1>7. \A r, s \in Queues : r # s => Content'[r] \cap Content'[s] = {}
  BY <1>1, <1>2 DEF PlaceInv
<1>8. \A r \in Queues : \A j \in Content'[r] : status'[j] = "queued"
  BY <1>1, <1>2, <1>3 DEF PlaceInv
<1>9. \A r \in Queues : \A u \in Threads : frame'[u].task \notin Content'[r]
  BY <1>1, <1>2, <1>3, <1>4, TasksAssumption DEF PlaceInv
<1>10. \A u, v \in Threads : frame'[u].task = frame'[v].task /\ frame'[u].task # NoTask
                             => u = v
  BY <1>4 DEF PlaceInv
<1> QED BY <1>5, <1>6, <1>7, <1>8, <1>9, <1>10 DEF PlaceInv

\* A thread takes a task from a queue.
LEMMA PlaceTake ==
  ASSUME Types, ControlInv, PlaceInv, NEW t \in Threads, Others(t), NEW q \in Queues,
         NEW k \in Content[q], Content'[q] = Content[q] \ {k},
         \A i, j \in 1..Len(Queue'[q]) : Queue'[q][i] = Queue'[q][j] => i = j,
         \A r \in Queues \ {q} : Queue'[r] = Queue[r], UNCHANGED status,
         frame[t].task = NoTask, frame'[t].task = k, pc'[t] \in Hands
  PROVE  PlaceInv'
<1>1. \A r \in Queues \ {q} : Content'[r] = Content[r]
  BY DEF Content
<1>2. \A r \in Queues : k \notin Content'[r] /\ Content'[r] \subseteq Content[r]
  BY <1>1 DEF PlaceInv
<1>3. \A u \in Threads \ {t} : frame'[u].task = frame[u].task /\ frame[u].task # k
  BY DEF Others, PlaceInv
<1>4. ASSUME NEW j \in Tasks, status'[j] = "queued"
      PROVE  \/ \E r \in Queues : j \in Content'[r]
             \/ \E u \in Threads : pc'[u] \in Hands /\ frame'[u].task = j
  <2>1. CASE j = k
    BY <2>1
  <2>2. CASE j # k
    <3>1. \/ \E r \in Queues : j \in Content[r]
          \/ \E u \in Threads : pc[u] \in Hands /\ frame[u].task = j
      BY <1>4 DEF PlaceInv
    <3>2. CASE \E r \in Queues : j \in Content[r]
      BY <1>1, <2>2, <3>2
    <3>3. ASSUME NEW u \in Threads, pc[u] \in Hands, frame[u].task = j
          PROVE  pc'[u] \in Hands /\ frame'[u].task = j
      <4>1. u # t
        BY <3>3, TasksAssumption
      <4> QED BY <1>3, <3>3, <4>1, Awake, TasksAssumption
    <3> QED BY <3>1, <3>2, <3>3
  <2> QED BY <2>1, <2>2
<1>5. \A r \in Queues : \A i, j \in 1..Len(Queue'[r]) : Queue'[r][i] = Queue'[r][j] => i = j
  BY DEF PlaceInv
<1>6. \A r, s \in Queues : r # s => Content'[r] \cap Content'[s] = {}
  BY <1>2 DEF PlaceInv
<1>7. \A r \in Queues : \A j \in Content'[r] : status'[j] = "queued"
  BY <1>2 DEF PlaceInv
<1>8. \A r \in Queues : \A u \in Threads : frame'[u].task \notin Content'[r]
  BY <1>2, <1>3 DEF PlaceInv
<1>9. \A u, v \in Threads : frame'[u].task = frame'[v].task /\ frame'[u].task # NoTask
                             => u = v
  BY <1>3 DEF PlaceInv
<1> QED BY <1>4, <1>5, <1>6, <1>7, <1>8, <1>9 DEF PlaceInv

LEMMA SubmitPushInv ==
  ASSUME IInv, NEW t \in Threads, SubmitPush(t)
  PROVE  IInv'
<1> USE DEF poolVars, historyVars, stateVars, queueVars, joinVars
<1> DEFINE k == frame[t].call[2]
           q == IF t \in Workers THEN <<"local", t>> ELSE <<"shard", roundRobin>>
<1>1. /\ pc[t] = "submitPush" /\ Goto(t, "submitCount")
      /\ status' = [status EXCEPT ![k] = "queued"]
      /\ UNCHANGED <<countVars, stateVars, fresh, joinVars, frame, accepted, passed>>
      /\ \/ /\ t \in Workers /\ local' = [local EXCEPT ![t] = Append(local[t], k)]
            /\ UNCHANGED <<shard, roundRobin>>
         \/ /\ t \notin Workers /\ UNCHANGED local
            /\ shard' = [shard EXCEPT ![roundRobin] = Append(shard[roundRobin], k)]
            /\ roundRobin' = (roundRobin + 1) % ShardCount
  BY DEF SubmitPush, IInv, Types
<1>2. k \in Tasks /\ frame[t].call = <<"submit", k>>
  BY <1>1, Facts DEF ControlOK, InSubmit
<1>3. q \in Queues /\ roundRobin \in Shards
  BY Facts DEF RestTypes, Queues
<1>4. "submitCount" \in Labels
  BY DEF Labels
<1>5. /\ pc' \in [Threads -> Labels] /\ pc'[t] = "submitCount"
      /\ \A u \in Threads \ {t} : pc'[u] = pc[u]
  BY <1>1, <1>4, Moved DEF IInv
<1>6. status'[k] = "queued" /\ (\A j \in Tasks \ {k} : status'[j] = status[j])
  BY <1>1, <1>2 DEF IInv, Types
<1>7. Others(t)
  BY <1>1, <1>5 DEF Others
<1>8. OwedInv' /\ status[k] = "unsubmitted"
  BY <1>1, <1>2, <1>5, <1>6, <1>7, OwedSubmitted DEF IInv
<1>9. Undisturbed(t)
  BY <1>2, <1>6, <1>8, UndisturbedBy
<1>10. Types'
  <2>1. roundRobin' \in Shards
    <3>1. (roundRobin + 1) % ShardCount \in Shards
      BY <1>3, Sizes DEF Shards
    <3> QED BY <1>1, <1>3, <3>1
  <2>2. local' \in [Workers -> Seq(Tasks)] /\ shard' \in [Shards -> Seq(Tasks)]
    <3>1. /\ \A s \in Seq(Tasks) : Append(s, k) \in Seq(Tasks)
          /\ local \in [Workers -> Seq(Tasks)] /\ shard \in [Shards -> Seq(Tasks)]
      BY <1>2 DEF IInv, Types
    <3>2. CASE /\ t \in Workers /\ local' = [local EXCEPT ![t] = Append(local[t], k)]
               /\ shard' = shard
      BY <3>1, <3>2
    <3>3. CASE /\ local' = local
               /\ shard' = [shard EXCEPT ![roundRobin] = Append(shard[roundRobin], k)]
      BY <1>3, <3>1, <3>3
    <3> QED BY <1>1, <3>2, <3>3
  <2>3. status' \in [Tasks -> {"unsubmitted", "refused", "queued", "running", "done",
                               "threw"}]
    BY <1>1 DEF IInv, Types
  <2> QED BY <1>1, <1>5, <2>1, <2>2, <2>3 DEF IInv, Types, countVars
<1>11. ControlOK(t)'
  BY <1>1, <1>2, <1>5, Facts DEF ControlOK, InSubmit, Hands, InWaitIdle, Sleeping
<1>12. StatusOK(t)'
  <2> SUFFICES ASSUME frame[t].task # NoTask PROVE StatusOK(t)'
    BY <1>1 DEF StatusOK
  <2>1. frame[t].task \in Tasks /\ frame[t].task # k
    BY <1>8, Started
  <2>2. status[frame[t].task] = "running"
    BY <1>1 DEF IInv, StatusInv, StatusOK, InSubmit
  <2> QED BY <1>1, <1>5, <1>6, <2>1, <2>2 DEF StatusOK, Hands
<1>13. ControlInv' /\ StatusInv'
  BY <1>7, <1>9, <1>11, <1>12, ControlKept, StatusKept DEF IInv
<1>14. PlaceInv'
  <2>1. Queue'[q] = Append(Queue[q], k) /\ (\A r \in Queues \ {q} : Queue'[r] = Queue[r])
    <3>1. Queue'[q] = Append(Queue[q], k)
      BY <1>1, <1>3 DEF Queue, IInv, Types
    <3>2. ASSUME NEW r \in Queues \ {q} PROVE Queue'[r] = Queue[r]
      <4>1. \/ r[1] = "local" /\ r[2] \in Workers /\ r = <<"local", r[2]>>
            \/ r[1] = "shard" /\ r[2] \in Shards /\ r = <<"shard", r[2]>>
        BY DEF Queues
      <4> QED BY <1>1, <1>3, <4>1 DEF Queue, IInv, Types
    <3> QED BY <3>1, <3>2
  <2>2. \A r \in Queues : k \notin Content[r]
    BY <1>8 DEF IInv, PlaceInv
  <2>3. \A u \in Threads : frame'[u].task # k
    BY <1>1, <1>2, <1>8, Started, TasksAssumption
  <2> HIDE DEF q
  <2> QED BY <1>1, <1>2, <1>3, <1>6, <1>7, <2>1, <2>2, <2>3, PlacePush DEF IInv, Hands
<1>15. CountInv'
  <2>1. CountInv /\ ControlInv /\ activeTasks \in Int /\ idleWorkers \in Int
        /\ waitIdleWaiters \in Int /\ exceptionCounter \in Int
    BY DEF IInv, Types
  <2>2. k \notin Queued /\ k \in Queued' /\ k \notin Threw /\ k \notin Threw'
    BY <1>2, <1>6, <1>8 DEF Queued, Threw
  <2>3. /\ t \notin Counting /\ t \in Counting'
        /\ t \in Executing <=> t \in Executing'
        /\ t \in Idling <=> t \in Idling'
        /\ t \in Waiting <=> t \in Waiting'
        /\ t \notin Uncounted /\ t \notin Uncounted'
    BY <1>1, <1>5, Members
  <2>4. /\ Cardinality(Queued') = Cardinality(Queued) + 1
        /\ Cardinality(Counting') = Cardinality(Counting) + 1
    <3>1. /\ Cardinality(Queued') = Cardinality(Queued) - Bit(k \in Queued)
                                    + Bit(k \in Queued')
          /\ Cardinality(Counting') = Cardinality(Counting) - Bit(t \in Counting)
                                      + Bit(t \in Counting')
      BY <1>6, <1>7, <1>9, <2>1, TaskCounts, ThreadCounts
    <3> QED BY <2>2, <2>3, <3>1, PendingRange DEF Bit
  <2>5. pendingTasks' = Wrap(Cardinality(Queued') - Cardinality(Counting'))
    <3>1. Cardinality(Queued') - Cardinality(Counting')
          = Cardinality(Queued) - Cardinality(Counting)
      BY <2>4, PendingRange
    <3> QED BY <1>1, <2>1, <3>1 DEF CountInv, countVars
  <2>6. /\ activeTasks' = activeTasks - Bit(t \in Executing) + Bit(t \in Executing')
        /\ idleWorkers' = idleWorkers - Bit(t \in Idling) + Bit(t \in Idling')
        /\ waitIdleWaiters' = waitIdleWaiters - Bit(t \in Waiting) + Bit(t \in Waiting')
        /\ exceptionCounter' = exceptionCounter - Bit(k \in Threw) + Bit(k \in Threw')
                               + Bit(t \in Uncounted) - Bit(t \in Uncounted')
    BY <1>1, <2>1, <2>2, <2>3 DEF countVars, Bit
  <2> QED BY <1>6, <1>7, <1>9, <2>5, <2>6, CountStep
<1> QED BY <1>8, <1>10, <1>13, <1>14, <1>15 DEF IInv

LEMMA TakeInv ==
  ASSUME IInv, NEW t \in Threads, pc[t] \in {"pop", "steal", "inject"}, NEW q \in Queues,
         NEW k \in Content[q], Content'[q] = Content[q] \ {k},
         \A i, j \in 1..Len(Queue'[q]) : Queue'[q][i] = Queue'[q][j] => i = j,
         \A r \in Queues \ {q} : Queue'[r] = Queue[r],
         local' \in [Workers -> Seq(Tasks)], shard' \in [Shards -> Seq(Tasks)],
         UNCHANGED roundRobin, NEW w \in Workers \cup {NoQueue}, Fetched(t, k, w)
  PROVE  IInv'
<1> USE DEF stateVars, joinVars, historyVars
<1> DEFINE f == [frame[t] EXCEPT !.task = k, !.from = w, !.offset = 0, !.probe = 0]
           l == IF t \in Workers THEN "recheck" ELSE "act"
<1>1. /\ frame' = [frame EXCEPT ![t] = f] /\ Goto(t, l)
      /\ UNCHANGED <<stateVars, countVars, fresh, joinVars, historyVars>>
  BY DEF Fetched
<1>2. k \in Tasks /\ status[k] = "queued"
  BY QueueTypes DEF IInv, PlaceInv
<1>3. /\ f \in Frames /\ f.call = frame[t].call /\ f.todo = frame[t].todo
      /\ f.ops = frame[t].ops /\ f.task = k /\ f.waitFor = frame[t].waitFor
      /\ f.draining = frame[t].draining /\ f.probe = 0
  <2>1. 0 \in Workers /\ 0 \in Workers \cup Shards /\ frame[t] \in Frames
    BY Facts, Sizes
  <2> QED BY <1>2, <2>1 DEF Frames
<1>4. /\ l \in Labels /\ l \in {"recheck", "act"} /\ (l = "recheck" => t \in Workers)
  BY DEF Labels
<1> HIDE DEF f, l
<1>5. /\ pc' \in [Threads -> Labels] /\ pc'[t] = l
      /\ \A u \in Threads \ {t} : pc'[u] = pc[u]
  BY <1>1, <1>4, Moved DEF IInv
<1>6. /\ frame' \in [Threads -> Frames] /\ frame'[t] = f
      /\ \A u \in Threads \ {t} : frame'[u] = frame[u]
  BY <1>1, <1>3, NewFrame DEF IInv
<1>7. Types'
  BY <1>1, <1>5, <1>6 DEF IInv, Types, countVars
<1>8. Others(t) /\ Undisturbed(t)
  BY <1>1, <1>5, <1>6 DEF Others, Undisturbed
<1>9. OwedInv'
  BY <1>1, <1>3, <1>4, <1>5, <1>6, <1>8, Facts, OwedKept DEF IInv
<1>10. frame[t].task = NoTask /\ k # NoTask
  BY <1>2, Facts, TasksAssumption DEF ControlOK, InWaitIdle
<1>11. ControlOK(t)'
  BY <1>3, <1>4, <1>5, <1>6, <1>10, Facts, Kinds
  DEF ControlOK, InSubmit, Hands, InWaitIdle, Sleeping
<1>12. StatusOK(t)'
  BY <1>1, <1>2, <1>3, <1>4, <1>5, <1>6 DEF StatusOK, InSubmit
<1>13. ControlInv' /\ StatusInv'
  BY <1>8, <1>11, <1>12, ControlKept, StatusKept DEF IInv
<1>14. PlaceInv'
  BY <1>1, <1>3, <1>4, <1>5, <1>6, <1>8, <1>10, PlaceTake DEF IInv, Hands
<1>15. CountInv'
  <2>1. CountInv /\ activeTasks \in Int /\ idleWorkers \in Int
        /\ waitIdleWaiters \in Int /\ exceptionCounter \in Int
    BY DEF IInv, Types
  <2>2. Queued' = Queued /\ Threw' = Threw
    BY <1>1 DEF Queued, Threw
  <2>3. /\ t \notin Counting /\ t \notin Counting'
        /\ t \notin Executing /\ t \notin Executing'
        /\ t \in Idling <=> t \in Idling'
        /\ t \in Waiting <=> t \in Waiting'
        /\ t \notin Uncounted /\ t \notin Uncounted'
    BY <1>3, <1>4, <1>5, <1>6, <1>10, Members
  <2>4. Counting' = Counting
    BY <1>5, <2>3 DEF Counting
  <2>5. pendingTasks' = Wrap(Cardinality(Queued') - Cardinality(Counting'))
    BY <1>1, <2>1, <2>2, <2>4 DEF CountInv, countVars
  <2>6. /\ activeTasks' = activeTasks - Bit(t \in Executing) + Bit(t \in Executing')
        /\ idleWorkers' = idleWorkers - Bit(t \in Idling) + Bit(t \in Idling')
        /\ waitIdleWaiters' = waitIdleWaiters - Bit(t \in Waiting) + Bit(t \in Waiting')
        /\ exceptionCounter' = exceptionCounter - Bit(k \in Threw) + Bit(k \in Threw')
                               + Bit(t \in Uncounted) - Bit(t \in Uncounted')
    BY <1>1, <2>1, <2>2, <2>3 DEF countVars, Bit
  <2>7. \A j \in Tasks \ {k} : status'[j] = status[j]
    BY <1>1
  <2> QED BY <1>8, <2>5, <2>6, <2>7, CountStep
<1> QED BY <1>7, <1>9, <1>13, <1>14, <1>15 DEF IInv

LEMMA ScanTargets ==
  ASSUME IInv, NEW t \in Threads
  PROVE  /\ pc[t] = "steal" => Victim(t) \in Workers
         /\ pc[t] = "inject" => Probed(t) \in Shards
<1>1. /\ frame[t].offset \in Workers
      /\ pc[t] = "steal" => frame[t].probe \in Workers
      /\ pc[t] = "inject" => frame[t].probe \in Shards
  BY Facts, Fields DEF ControlOK
<1>2. \A m \in Nat \ {0} : \A x \in Nat : x % m \in 0..(m - 1)
  OBVIOUS
<1>3. Workers \subseteq Nat /\ Shards \subseteq Nat
  BY Sizes DEF Workers, Shards
<1>4. ASSUME pc[t] = "steal" PROVE Victim(t) \in Workers
  <2>1. CASE t \in Workers
    <3>1. t + frame[t].offset + frame[t].probe \in Nat
      BY <1>1, <1>3, <1>4, <2>1
    <3> QED BY <1>2, <2>1, <3>1, Sizes DEF Victim, Workers
  <2>2. CASE t \notin Workers
    <3>1. frame[t].offset + frame[t].probe \in Nat
      <4>1. frame[t].offset \in Nat /\ frame[t].probe \in Nat
        BY <1>1, <1>3, <1>4
      <4> QED BY <4>1
    <3>2. (frame[t].offset + frame[t].probe) % WorkerCount \in Workers
      BY <1>2, <3>1, Sizes DEF Workers
    <3> QED BY <2>2, <3>2 DEF Victim
  <2> QED BY <2>1, <2>2
<1>5. ASSUME pc[t] = "inject" PROVE Probed(t) \in Shards
  <2>1. CASE t \in Workers
    <3>1. t + frame[t].probe \in Nat
      <4>1. t \in Nat /\ frame[t].probe \in Nat
        BY <1>1, <1>3, <1>5, <2>1
      <4> QED BY <4>1
    <3>2. (t + frame[t].probe) % ShardCount \in Shards
      BY <1>2, <3>1, Sizes DEF Shards
    <3> QED BY <2>1, <3>2 DEF Probed
  <2>2. CASE t \notin Workers
    BY <1>1, <1>5, <2>2 DEF Probed
  <2> QED BY <2>1, <2>2
<1> QED BY <1>4, <1>5

\* The queue that changes, in terms of all of them.
LEMMA OneQueue ==
  ASSUME Types
  PROVE  /\ \A w \in Workers : \A s : local' = [local EXCEPT ![w] = s] /\ UNCHANGED shard =>
               LET q == <<"local", w>>
               IN  /\ q \in Queues /\ Queue[q] = local[w] /\ Queue'[q] = s
                   /\ \A r \in Queues \ {q} : Queue'[r] = Queue[r]
         /\ \A x \in Shards : \A s : shard' = [shard EXCEPT ![x] = s] /\ UNCHANGED local =>
               LET q == <<"shard", x>>
               IN  /\ q \in Queues /\ Queue[q] = shard[x] /\ Queue'[q] = s
                   /\ \A r \in Queues \ {q} : Queue'[r] = Queue[r]
<1>1. \A r \in Queues : \/ r[1] = "local" /\ r[2] \in Workers /\ r = <<"local", r[2]>>
                        \/ r[1] = "shard" /\ r[2] \in Shards /\ r = <<"shard", r[2]>>
  BY DEF Queues
<1>2. ASSUME NEW w \in Workers, NEW s, local' = [local EXCEPT ![w] = s], UNCHANGED shard
      PROVE  LET q == <<"local", w>>
             IN  /\ q \in Queues /\ Queue[q] = local[w] /\ Queue'[q] = s
                 /\ \A r \in Queues \ {q} : Queue'[r] = Queue[r]
  <2> DEFINE q == <<"local", w>>
  <2>1. q \in Queues /\ q[1] = "local" /\ q[2] = w
    BY DEF Queues
  <2>2. Queue[q] = local[w] /\ Queue'[q] = s
    BY <1>2, <2>1 DEF Queue, Types
  <2>3. ASSUME NEW r \in Queues \ {q} PROVE Queue'[r] = Queue[r]
    BY <1>1, <1>2 DEF Queue, Types
  <2> QED BY <2>1, <2>2, <2>3
<1>3. ASSUME NEW x \in Shards, NEW s, shard' = [shard EXCEPT ![x] = s], UNCHANGED local
      PROVE  LET q == <<"shard", x>>
             IN  /\ q \in Queues /\ Queue[q] = shard[x] /\ Queue'[q] = s
                 /\ \A r \in Queues \ {q} : Queue'[r] = Queue[r]
  <2> DEFINE q == <<"shard", x>>
  <2>1. q \in Queues /\ q[1] = "shard" /\ q[2] = x
    BY DEF Queues
  <2>2. Queue[q] = shard[x] /\ Queue'[q] = s
    BY <1>3, <2>1 DEF Queue, Types
  <2>3. ASSUME NEW r \in Queues \ {q} PROVE Queue'[r] = Queue[r]
    BY <1>1, <1>3 DEF Queue, Types
  <2> QED BY <2>1, <2>2, <2>3
<1> QED BY <1>2, <1>3

LEMMA TakesInv ==
  ASSUME IInv, NEW t \in Threads, PopOwn(t) \/ StealTop(t) \/ InjectTake(t)
  PROVE  IInv'
<1>0. Types /\ PlaceInv
  BY DEF IInv
<1>1. CASE PopOwn(t)
  <2> DEFINE s == local[t]
             r == SubSeq(s, 1, Len(s) - 1)
             q == <<"local", t>>
  <2>1. /\ pc[t] = "pop" /\ t \in Workers /\ s # <<>> /\ s \in Seq(Tasks)
        /\ local' = [local EXCEPT ![t] = r] /\ UNCHANGED <<shard, roundRobin>>
        /\ Fetched(t, s[Len(s)], t)
    BY <1>0, <1>1, Kinds DEF PopOwn, Types
  <2>2. /\ q \in Queues /\ Queue[q] = s /\ Queue'[q] = r
        /\ \A p \in Queues \ {q} : Queue'[p] = Queue[p]
    BY <1>0, <2>1, OneQueue
  <2>3. \A i, j \in 1..Len(s) : s[i] = s[j] => i = j
    BY <1>0, <2>2 DEF PlaceInv
  <2>4. /\ r \in Seq(Tasks) /\ s[Len(s)] \in {s[i] : i \in 1..Len(s)}
        /\ {r[i] : i \in 1..Len(r)} = {s[i] : i \in 1..Len(s)} \ {s[Len(s)]}
        /\ \A i, j \in 1..Len(r) : r[i] = r[j] => i = j
    BY <2>1, <2>3, TakenLast
  <2>5. Content[q] = {s[i] : i \in 1..Len(s)} /\ Content'[q] = {r[i] : i \in 1..Len(r)}
    BY <1>0, <2>2, QueueTypes
  <2>6. /\ s[Len(s)] \in Content[q] /\ Content'[q] = Content[q] \ {s[Len(s)]}
        /\ \A i, j \in 1..Len(Queue'[q]) : Queue'[q][i] = Queue'[q][j] => i = j
    BY <2>2, <2>4, <2>5
  <2>7. local' \in [Workers -> Seq(Tasks)] /\ shard' \in [Shards -> Seq(Tasks)]
    BY <1>0, <2>1, <2>4 DEF Types
  <2> HIDE DEF s, r, q
  <2> QED BY <2>1, <2>2, <2>6, <2>7, TakeInv
<1>2. CASE StealTop(t)
  <2> DEFINE v == Victim(t)
             s == local[v]
             r == Tail(s)
             q == <<"local", v>>
  <2>1. /\ pc[t] = "steal" /\ v \in Workers /\ s # <<>> /\ s \in Seq(Tasks)
        /\ local' = [local EXCEPT ![v] = r] /\ UNCHANGED <<shard, roundRobin>>
        /\ Fetched(t, Head(s), v)
    BY <1>0, <1>2, ScanTargets DEF StealTop, Types
  <2>2. /\ q \in Queues /\ Queue[q] = s /\ Queue'[q] = r
        /\ \A p \in Queues \ {q} : Queue'[p] = Queue[p]
    BY <1>0, <2>1, OneQueue
  <2>3. \A i, j \in 1..Len(s) : s[i] = s[j] => i = j
    BY <1>0, <2>2 DEF PlaceInv
  <2>4. /\ r \in Seq(Tasks) /\ Head(s) \in {s[i] : i \in 1..Len(s)}
        /\ {r[i] : i \in 1..Len(r)} = {s[i] : i \in 1..Len(s)} \ {Head(s)}
        /\ \A i, j \in 1..Len(r) : r[i] = r[j] => i = j
    BY <2>1, <2>3, TakenFirst
  <2>5. Content[q] = {s[i] : i \in 1..Len(s)} /\ Content'[q] = {r[i] : i \in 1..Len(r)}
    BY <1>0, <2>2, QueueTypes
  <2>6. /\ Head(s) \in Content[q] /\ Content'[q] = Content[q] \ {Head(s)}
        /\ \A i, j \in 1..Len(Queue'[q]) : Queue'[q][i] = Queue'[q][j] => i = j
    BY <2>2, <2>4, <2>5
  <2>7. local' \in [Workers -> Seq(Tasks)] /\ shard' \in [Shards -> Seq(Tasks)]
    BY <1>0, <2>1, <2>4 DEF Types
  <2> HIDE DEF s, r, q, v
  <2> QED BY <2>1, <2>2, <2>6, <2>7, TakeInv
<1>3. CASE InjectTake(t)
  <2> DEFINE v == Probed(t)
             s == shard[v]
             r == Tail(s)
             q == <<"shard", v>>
  <2>1. /\ pc[t] = "inject" /\ v \in Shards /\ s # <<>> /\ s \in Seq(Tasks)
        /\ shard' = [shard EXCEPT ![v] = r] /\ UNCHANGED <<local, roundRobin>>
        /\ Fetched(t, Head(s), NoQueue)
    BY <1>0, <1>3, ScanTargets DEF InjectTake, Types
  <2>2. /\ q \in Queues /\ Queue[q] = s /\ Queue'[q] = r
        /\ \A p \in Queues \ {q} : Queue'[p] = Queue[p]
    BY <1>0, <2>1, OneQueue
  <2>3. \A i, j \in 1..Len(s) : s[i] = s[j] => i = j
    BY <1>0, <2>2 DEF PlaceInv
  <2>4. /\ r \in Seq(Tasks) /\ Head(s) \in {s[i] : i \in 1..Len(s)}
        /\ {r[i] : i \in 1..Len(r)} = {s[i] : i \in 1..Len(s)} \ {Head(s)}
        /\ \A i, j \in 1..Len(r) : r[i] = r[j] => i = j
    BY <2>1, <2>3, TakenFirst
  <2>5. Content[q] = {s[i] : i \in 1..Len(s)} /\ Content'[q] = {r[i] : i \in 1..Len(r)}
    BY <1>0, <2>2, QueueTypes
  <2>6. /\ Head(s) \in Content[q] /\ Content'[q] = Content[q] \ {Head(s)}
        /\ \A i, j \in 1..Len(Queue'[q]) : Queue'[q][i] = Queue'[q][j] => i = j
    BY <2>2, <2>4, <2>5
  <2>7. local' \in [Workers -> Seq(Tasks)] /\ shard' \in [Shards -> Seq(Tasks)]
    BY <1>0, <2>1, <2>4 DEF Types
  <2> HIDE DEF s, r, q, v
  <2> QED BY <2>1, <2>2, <2>6, <2>7, TakeInv
<1> QED BY <1>1, <1>2, <1>3

\* The task that pause() holds back goes to the worker's own queue.
LEMMA RecheckPausedInv ==
  ASSUME IInv, NEW t \in Threads, RecheckPaused(t)
  PROVE  IInv'
<1> USE DEF stateVars, joinVars, historyVars
<1> DEFINE k == frame[t].task
           q == <<"local", t>>
           f == [frame[t] EXCEPT !.task = NoTask, !.from = NoQueue]
<1>1. /\ pc[t] = "recheck" /\ t \in Workers /\ frame' = [frame EXCEPT ![t] = f]
      /\ local' = [local EXCEPT ![t] = Append(local[t], k)] /\ Goto(t, "top")
      /\ UNCHANGED <<stateVars, countVars, shard, roundRobin, fresh, joinVars, historyVars>>
  BY Kinds, Facts DEF RecheckPaused, IInv, Types
<1>2. k # NoTask /\ k \in Tasks /\ status[k] = "queued"
  BY <1>1, Facts, Started DEF ControlOK, Hands, IInv, StatusInv, StatusOK
<1>3. /\ f \in Frames /\ f.call = frame[t].call /\ f.todo = frame[t].todo
      /\ f.ops = frame[t].ops /\ f.task = NoTask /\ f.waitFor = frame[t].waitFor
      /\ f.draining = frame[t].draining /\ f.probe = frame[t].probe
  <2>1. frame[t] \in Frames
    BY Facts
  <2> QED BY <2>1 DEF Frames
<1>4. "top" \in Labels
  BY DEF Labels
<1> HIDE DEF f
<1>5. /\ pc' \in [Threads -> Labels] /\ pc'[t] = "top"
      /\ \A u \in Threads \ {t} : pc'[u] = pc[u]
  BY <1>1, <1>4, Moved DEF IInv
<1>6. /\ frame' \in [Threads -> Frames] /\ frame'[t] = f
      /\ \A u \in Threads \ {t} : frame'[u] = frame[u]
  BY <1>1, <1>3, NewFrame DEF IInv
<1>7. local' \in [Workers -> Seq(Tasks)]
  <2>1. local \in [Workers -> Seq(Tasks)] /\ \A s \in Seq(Tasks) : Append(s, k) \in Seq(Tasks)
    BY <1>2 DEF IInv, Types
  <2> QED BY <1>1, <2>1
<1>8. Types'
  BY <1>1, <1>5, <1>6, <1>7 DEF IInv, Types, countVars
<1>9. Others(t) /\ Undisturbed(t)
  BY <1>1, <1>5, <1>6 DEF Others, Undisturbed
<1>10. OwedInv'
  BY <1>1, <1>3, <1>5, <1>6, <1>9, Facts, OwedKept DEF IInv
<1>11. ControlOK(t)'
  BY <1>1, <1>3, <1>5, <1>6, Facts, Kinds
  DEF ControlOK, InSubmit, Hands, InWaitIdle, Sleeping
<1>12. StatusOK(t)'
  BY <1>3, <1>6 DEF StatusOK
<1>13. ControlInv' /\ StatusInv'
  BY <1>9, <1>11, <1>12, ControlKept, StatusKept DEF IInv
<1>14. PlaceInv'
  <2>1. /\ q \in Queues /\ Queue'[q] = Append(Queue[q], k)
        /\ \A r \in Queues \ {q} : Queue'[r] = Queue[r]
    BY <1>1, OneQueue DEF IInv
  <2>2. \A r \in Queues : k \notin Content[r]
    BY DEF IInv, PlaceInv
  <2>3. \A u \in Threads : frame'[u].task # k
    BY <1>2, <1>3, <1>6 DEF IInv, PlaceInv
  <2>4. /\ status'[k] = "queued" /\ (\A j \in Tasks \ {k} : status'[j] = status[j])
        /\ frame'[t].task = NoTask
    BY <1>1, <1>2, <1>3, <1>6
  <2>5. Types /\ ControlInv /\ PlaceInv
    BY DEF IInv
  <2> HIDE DEF q
  <2> QED BY <1>2, <1>9, <2>1, <2>2, <2>3, <2>4, <2>5, PlacePush
<1>15. CountInv'
  <2>1. CountInv /\ activeTasks \in Int /\ idleWorkers \in Int
        /\ waitIdleWaiters \in Int /\ exceptionCounter \in Int
    BY DEF IInv, Types
  <2>2. Queued' = Queued /\ Threw' = Threw
    BY <1>1 DEF Queued, Threw
  <2>3. /\ t \notin Counting /\ t \notin Counting'
        /\ t \notin Executing /\ t \notin Executing'
        /\ t \in Idling <=> t \in Idling'
        /\ t \in Waiting <=> t \in Waiting'
        /\ t \notin Uncounted /\ t \notin Uncounted'
    BY <1>1, <1>3, <1>5, <1>6, Members
  <2>4. Counting' = Counting
    BY <1>5, <2>3 DEF Counting
  <2>5. pendingTasks' = Wrap(Cardinality(Queued') - Cardinality(Counting'))
    BY <1>1, <2>1, <2>2, <2>4 DEF CountInv, countVars
  <2>6. /\ activeTasks' = activeTasks - Bit(t \in Executing) + Bit(t \in Executing')
        /\ idleWorkers' = idleWorkers - Bit(t \in Idling) + Bit(t \in Idling')
        /\ waitIdleWaiters' = waitIdleWaiters - Bit(t \in Waiting) + Bit(t \in Waiting')
        /\ exceptionCounter' = exceptionCounter - Bit(k \in Threw) + Bit(k \in Threw')
                               + Bit(t \in Uncounted) - Bit(t \in Uncounted')
    BY <1>1, <2>1, <2>2, <2>3 DEF countVars, Bit
  <2>7. \A j \in Tasks \ {k} : status'[j] = status[j]
    BY <1>1
  <2> QED BY <1>9, <2>5, <2>6, <2>7, CountStep
<1> QED BY <1>8, <1>10, <1>13, <1>14, <1>15 DEF IInv

LEMMA StartTaskInv ==
  ASSUME IInv, NEW t \in Threads, StartTask(t)
  PROVE  IInv'
<1> USE DEF stateVars, joinVars, queueVars
<1> DEFINE k == frame[t].task
           f == [frame[t] EXCEPT !.ops = Bodies[k]]
<1>1. /\ pc[t] = "pend" /\ frame' = [frame EXCEPT ![t] = f] /\ Goto(t, "run")
      /\ pendingTasks' = Wrap(pendingTasks - 1) /\ passed' = passed \ {t}
      /\ status' = [status EXCEPT ![k] = "running"]
      /\ UNCHANGED <<stateVars, activeTasks, idleWorkers, waitIdleWaiters, exceptionCounter,
                     queueVars, fresh, joinVars, accepted>>
  BY Facts DEF StartTask
<1>2. k # NoTask /\ k \in Tasks /\ status[k] = "queued"
  BY <1>1, Facts, Started DEF ControlOK, Hands, IInv, StatusInv, StatusOK
<1>3. /\ Bodies[k] \in Seq(TaskOperations) /\ NoneTwice(Bodies[k])
      /\ frame[t] \in Frames
  BY <1>2, Facts, ProgramsAssumption, SubmittedOnce
<1>4. /\ f \in Frames /\ f.call = frame[t].call /\ f.todo = frame[t].todo
      /\ f.ops = Bodies[k] /\ f.task = k /\ f.waitFor = frame[t].waitFor
      /\ f.draining = frame[t].draining /\ f.probe = frame[t].probe
  BY <1>3 DEF Frames
<1>5. "run" \in Labels
  BY DEF Labels
<1> HIDE DEF f
<1>6. /\ pc' \in [Threads -> Labels] /\ pc'[t] = "run"
      /\ \A u \in Threads \ {t} : pc'[u] = pc[u]
  BY <1>1, <1>5, Moved DEF IInv
<1>7. /\ frame' \in [Threads -> Frames] /\ frame'[t] = f
      /\ \A u \in Threads \ {t} : frame'[u] = frame[u]
  BY <1>1, <1>4, NewFrame DEF IInv
<1>8. status'[k] = "running" /\ (\A j \in Tasks \ {k} : status'[j] = status[j])
  BY <1>1, <1>2 DEF IInv, Types
<1>9. Types'
  <2>1. pendingTasks' \in 0..(SizeModulus - 1)
    <3>1. pendingTasks - 1 \in Int
      BY Sizes DEF IInv, Types
    <3>2. Wrap(pendingTasks - 1) \in 0..(SizeModulus - 1)
      BY <3>1, WrapRange
    <3> QED BY <1>1, <3>2
  <2>2. status' \in [Tasks -> {"unsubmitted", "refused", "queued", "running", "done",
                               "threw"}]
    BY <1>1 DEF IInv, Types
  <2> QED BY <1>1, <1>6, <1>7, <2>1, <2>2 DEF IInv, Types
<1>10. Others(t) /\ Undisturbed(t)
  BY <1>2, <1>6, <1>7, <1>8, UndisturbedBy DEF Others
<1>11. OwedInv'
  <2> DEFINE a == <<"body", k>>
             b == <<"ops", t>>
  <2>1. a \in Owners /\ b \in Owners /\ a # b
    BY <1>2 DEF Owners
  <2>2. /\ Owed[a] = Submits(Bodies[k]) /\ Owed'[a] = {} /\ Owed'[b] = Submits(Bodies[k])
    BY <1>2, <1>4, <1>7, <1>8, <2>1 DEF Owed
  <2>3. ASSUME NEW o \in Owners \ {a, b} PROVE Owed'[o] \subseteq Owed[o]
    <3>1. \/ o[1] = "todo" /\ o[2] \in Threads /\ o = <<"todo", o[2]>>
          \/ o[1] = "ops" /\ o[2] \in Threads /\ o = <<"ops", o[2]>>
          \/ o[1] = "call" /\ o[2] \in Threads /\ o = <<"call", o[2]>>
          \/ o[1] = "body" /\ o[2] \in Tasks /\ o = <<"body", o[2]>>
      BY DEF Owners
    <3>2. CASE o[1] = "todo"
      BY <1>4, <1>7, <3>1, <3>2 DEF Owed
    <3>3. CASE o[1] = "ops"
      <4>1. o[2] \in Threads \ {t}
        BY <2>3, <3>1, <3>3
      <4> QED BY <1>7, <3>1, <3>3, <4>1 DEF Owed
    <3>4. CASE o[1] = "call"
      BY <1>1, <1>4, <1>6, <1>7, <3>1, <3>4 DEF Owed
    <3>5. CASE o[1] = "body"
      <4>1. o[2] \in Tasks \ {k}
        BY <2>3, <3>1, <3>5
      <4> QED BY <1>8, <3>1, <3>5, <4>1 DEF Owed
    <3> QED BY <3>1, <3>2, <3>3, <3>4, <3>5
  <2>4. \A u \in Threads : NoneTwice(frame'[u].todo) /\ NoneTwice(frame'[u].ops)
    BY <1>3, <1>4, <1>7, Facts
  <2>5. ASSUME NEW o \in Owners, NEW j \in Owed[o] PROVE status'[j] = "unsubmitted"
    <3>1. j \in Tasks /\ status[j] = "unsubmitted"
      BY <2>5 DEF IInv, OwedInv, Owed, Submits
    <3> QED BY <1>2, <1>8, <3>1
  <2> HIDE DEF a, b
  <2> QED BY <2>1, <2>2, <2>3, <2>4, <2>5, OwedTransfer DEF IInv
<1>12. ControlOK(t)'
  BY <1>1, <1>2, <1>4, <1>6, <1>7, Facts, Kinds
  DEF ControlOK, InSubmit, Hands, InWaitIdle, Sleeping
<1>13. StatusOK(t)'
  BY <1>4, <1>6, <1>7, <1>8 DEF StatusOK, Hands
<1>14. ControlInv' /\ StatusInv'
  BY <1>10, <1>12, <1>13, ControlKept, StatusKept DEF IInv
<1>15. PlaceInv'
  <2>0. PlaceInv /\ ControlInv /\ Types
    BY DEF IInv
  <2>1. Queue' = Queue /\ Content' = Content
    BY <1>1 DEF Queue, Content
  <2>2. \A q \in Queues : k \notin Content[q] /\ Content[q] \subseteq Tasks
    BY <2>0, QueueTypes DEF PlaceInv
  <2>3. \A u \in Threads : frame'[u].task = frame[u].task
    BY <1>4, <1>7
  <2>4. ASSUME NEW j \in Tasks, status'[j] = "queued"
        PROVE  \/ \E q \in Queues : j \in Content'[q]
               \/ \E u \in Threads : pc'[u] \in Hands /\ frame'[u].task = j
    <3>1. j # k /\ status[j] = "queued"
      BY <1>8, <2>4
    <3>2. ASSUME NEW u \in Threads, pc[u] \in Hands, frame[u].task = j
          PROVE  pc'[u] \in Hands /\ frame'[u].task = j
      BY <1>6, <2>3, <3>1, <3>2
    <3> QED BY <2>0, <2>1, <3>1, <3>2 DEF PlaceInv
  <2>5. \A q \in Queues : \A i, j \in 1..Len(Queue'[q]) : Queue'[q][i] = Queue'[q][j] => i = j
    BY <2>0, <2>1 DEF PlaceInv
  <2>6. \A q, r \in Queues : q # r => Content'[q] \cap Content'[r] = {}
    BY <2>0, <2>1 DEF PlaceInv
  <2>7. \A q \in Queues : \A j \in Content'[q] : status'[j] = "queued"
    BY <1>8, <2>0, <2>1, <2>2 DEF PlaceInv
  <2>8. \A q \in Queues : \A u \in Threads : frame'[u].task \notin Content'[q]
    BY <2>0, <2>1, <2>3 DEF PlaceInv
  <2>9. \A u, v \in Threads : frame'[u].task = frame'[v].task /\ frame'[u].task # NoTask
                              => u = v
    BY <2>0, <2>3 DEF PlaceInv
  <2> QED BY <2>4, <2>5, <2>6, <2>7, <2>8, <2>9 DEF PlaceInv
<1>16. CountInv'
  <2>1. CountInv /\ ControlInv /\ activeTasks \in Int /\ idleWorkers \in Int
        /\ waitIdleWaiters \in Int /\ exceptionCounter \in Int
    BY DEF IInv, Types
  <2>2. k \in Queued /\ k \notin Queued' /\ k \notin Threw /\ k \notin Threw'
    BY <1>2, <1>8 DEF Queued, Threw
  <2>3. /\ t \notin Counting /\ t \notin Counting'
        /\ t \in Executing /\ t \in Executing'
        /\ t \in Idling <=> t \in Idling'
        /\ t \in Waiting <=> t \in Waiting'
        /\ t \notin Uncounted /\ t \notin Uncounted'
    BY <1>1, <1>2, <1>4, <1>6, <1>7, Members
  <2>4. Counting' = Counting
    BY <1>6, <2>3 DEF Counting
  <2>5. Cardinality(Queued') = Cardinality(Queued) - 1
    <3>1. Cardinality(Queued') = Cardinality(Queued) - Bit(k \in Queued) + Bit(k \in Queued')
      BY <1>8, TaskCounts
    <3> QED BY <2>2, <3>1, PendingRange DEF Bit
  <2>6. pendingTasks' = Wrap(Cardinality(Queued') - Cardinality(Counting'))
    <3> DEFINE x == Cardinality(Queued) - Cardinality(Counting)
    <3>1. /\ x \in Int /\ 1 - SizeModulus < x /\ x < SizeModulus
          /\ Cardinality(Queued') - Cardinality(Counting') = x - 1
      BY <2>2, <2>4, <2>5, PendingRange, Sizes
    <3>2. Wrap(Wrap(x) - 1) = Wrap(x - 1)
      BY <3>1, WrapDown
    <3> QED BY <1>1, <2>1, <3>1, <3>2 DEF CountInv
  <2>7. /\ activeTasks' = activeTasks - Bit(t \in Executing) + Bit(t \in Executing')
        /\ idleWorkers' = idleWorkers - Bit(t \in Idling) + Bit(t \in Idling')
        /\ waitIdleWaiters' = waitIdleWaiters - Bit(t \in Waiting) + Bit(t \in Waiting')
        /\ exceptionCounter' = exceptionCounter - Bit(k \in Threw) + Bit(k \in Threw')
                               + Bit(t \in Uncounted) - Bit(t \in Uncounted')
    BY <1>1, <2>1, <2>2, <2>3 DEF Bit
  <2> QED BY <1>8, <1>10, <2>6, <2>7, CountStep
<1> QED BY <1>9, <1>11, <1>14, <1>15, <1>16 DEF IInv

----------------------------------------------------------------------------
LEMMA StepInv ==
  ASSUME IInv, NEW t \in Threads, Step(t)
  PROVE  IInv'
<1>1. CASE Submit(t)
  BY <1>1, SubmitBeginInv, MovesInv, SubmitRefusedInv, SubmitPushInv, SubmitCountInv, ReturnInv
  DEF Submit
<1>2. CASE Control(t)
  BY <1>2, AdvanceInv, CallInv, WakeAllInv, JoinWorkerInv, ReturnInv DEF Control
<1>3. CASE Fetch(t)
  <2>1. ASSUME NEW reason \in {"resumed", "work"}, t \in Workers, pc[t] \in {"top", "none"},
               StartWait(t, reason)
        PROVE  IInv'
    <3>1. UNCHANGED <<local, shard, status>>
      BY <2>1 DEF StartWait, restVars, queueVars, historyVars
    <3> QED BY <2>1, <3>1, StartWaitInv
  <2>2. ASSUME TopPaused(t) PROVE IInv'
    <3>1. pc[t] = "top" /\ StartWait(t, "resumed")
      BY <2>2 DEF TopPaused
    <3>2. t \in Workers
      BY <3>1, Kinds
    <3> QED BY <2>1, <3>1, <3>2
  <2>3. ASSUME NoneIdle(t) PROVE IInv'
    <3>1. t \in Workers /\ pc[t] = "none" /\ StartWait(t, "work")
      BY <2>3 DEF NoneIdle
    <3> QED BY <2>1, <3>1
  <2> QED BY <1>3, <2>2, <2>3, MovesInv, TakesInv, ScansInv DEF Fetch
<1>4. CASE Execute(t)
  BY <1>4, RecheckPausedInv, MovesInv, CountActiveInv, StartTaskInv, AdvanceInv, TaskEndsInv,
     CountExceptionInv, RetireInv DEF Execute
<1>5. CASE Wait(t)
  <2>1. ASSUME CheckReady(t) PROVE IInv'
    BY <2>1, WorkerEndWait, ClientEndWait, Kinds DEF CheckReady
  <2> QED BY <1>5, <2>1, MovesInv, CheckActiveInv DEF Wait
<1>6. CASE WaitIdle(t)
  <2>1. ASSUME WaitBegin(t) PROVE IInv'
    <3>1. t \in Clients
      <4>1. pc[t] = "run" /\ Ops(t) # <<>> /\ Head(Ops(t))[1] = "waitIdle"
        BY <2>1 DEF WaitBegin, AtOp
      <4>2. frame[t].task = NoTask
        BY <4>1, Advancing, OpKinds
      <4> QED BY <4>1, <4>2, Facts, Kinds DEF ControlOK
    <3> QED BY <2>1, <3>1, WaitBeginInv
  <2> QED BY <1>6, <2>1, ScansInv, WaitExitInv DEF WaitIdle
<1> QED BY <1>1, <1>2, <1>3, <1>4, <1>5, <1>6 DEF Step

LEMMA StutterInv ==
  ASSUME IInv, UNCHANGED vars
  PROVE  IInv'
<1> USE DEF vars, stateVars, countVars, queueVars, joinVars, historyVars
<1>1. Types' /\ ControlInv' /\ StatusInv'
  BY DEF IInv, Types, ControlInv, ControlOK, StatusInv, StatusOK
<1>2. Owed' = Owed /\ Queue' = Queue
  BY DEF Owed, Queue
<1>3. Content' = Content
  BY <1>2 DEF Content
<1>4. OwedInv' /\ PlaceInv'
  BY <1>2, <1>3 DEF IInv, OwedInv, PlaceInv
<1>5. CountInv'
  BY DEF IInv, CountInv, Queued, Counting, Executing, Idling, Waiting, Threw, Uncounted
<1> QED BY <1>1, <1>4, <1>5 DEF IInv

LEMMA Invariance == Spec => []IInv
<1>1. IInv /\ [Next]_vars => IInv'
  BY StepInv, StutterInv DEF Next, Rest
<1> QED BY <1>1, InitInv, PTL DEF Spec

----------------------------------------------------------------------------
\* What follows from the invariant.

\* Of two finite sets, the one whose elements have different images in the other
\* is not the larger.
LEMMA NotMore ==
  ASSUME NEW S, NEW T, IsFiniteSet(S), IsFiniteSet(T), NEW f \in [S -> T],
         \A x, y \in S : f[x] = f[y] => x = y
  PROVE  Cardinality(S) <= Cardinality(T)
<1>1. Cardinality(S) \in Nat /\ Cardinality(T) \in Nat
  BY FS_CardinalityType
<1>2. ASSUME Cardinality(T) < Cardinality(S) PROVE FALSE
  BY <1>2, FS_PigeonHole
<1> QED BY <1>1, <1>2

LEMMA ExceptionsCounted ==
  ASSUME IInv
  PROVE  Cardinality(Uncounted) <= Cardinality(Threw)
<1> DEFINE f == [t \in Uncounted |-> frame[t].task]
<1>1. f \in [Uncounted -> Threw]
  <2> SUFFICES ASSUME NEW t \in Uncounted PROVE frame[t].task \in Threw
    OBVIOUS
  <2>1. t \in Threads /\ frame[t].task # NoTask /\ status[frame[t].task] = "threw"
    BY DEF Uncounted
  <2>2. frame[t].task \in Tasks
    BY <2>1, Facts, Fields
  <2> QED BY <2>1, <2>2 DEF Threw
<1>2. \A t, u \in Uncounted : f[t] = f[u] => t = u
  BY DEF Uncounted, IInv, PlaceInv
<1>3. IsFiniteSet(Uncounted) /\ IsFiniteSet(Threw)
  BY Finiteness
<1> HIDE DEF f
<1> QED BY <1>1, <1>2, <1>3, NotMore

LEMMA InvTypes == IInv => TypeOK
<1> SUFFICES ASSUME IInv PROVE TypeOK
  OBVIOUS
<1>1. Types /\ CountInv
  BY DEF IInv
<1>2. {activeTasks, idleWorkers, waitIdleWaiters} \subseteq 0..Cardinality(Threads)
  BY <1>1, Finiteness DEF CountInv
<1>3. exceptionCounter \in 0..Cardinality(Tasks)
  <2>1. /\ Cardinality(Threw) \in 0..Cardinality(Tasks)
        /\ Cardinality(Uncounted) \in 0..Cardinality(Threads)
        /\ Cardinality(Tasks) \in Nat /\ Cardinality(Threads) \in Nat
    BY Finiteness, Sizes
  <2> QED BY <1>1, <2>1, ExceptionsCounted DEF CountInv
<1> QED BY <1>1, <1>2, <1>3 DEF Types, TypeOK

LEMMA InvCounters == IInv => CountersAgree
<1> SUFFICES ASSUME IInv PROVE CountersAgree
  OBVIOUS
<1>1. ThreadsAt({"submitCount"}) = Counting
  BY DEF ThreadsAt, Counting
<1>2. {t \in Threads : InTask(t) /\ pc[t] \notin {"recheck", "act"}} = Executing
  BY DEF InTask, Executing
<1>3. {t \in Threads : InTask(t) /\ status[frame[t].task] = "threw"
                                 /\ pc[t] \in {"except", "done"}} = Uncounted
  BY DEF InTask, Uncounted
<1> QED BY <1>1, <1>2, <1>3 DEF IInv, CountInv, CountersAgree, Idling, Waiting, Threw

\* A queue holds no more tasks than there are.
LEMMA QueueLength ==
  ASSUME IInv, NEW q \in Queues
  PROVE  /\ Queue[q] \in Seq(Tasks) /\ Len(Queue[q]) \in Nat
         /\ Len(Queue[q]) <= Cardinality(Tasks)
<1>1. Queue[q] \in Seq(Tasks)
  BY QueueTypes DEF IInv
<1> DEFINE S == 1..Len(Queue[q])
           f == [i \in S |-> Queue[q][i]]
<1>2. Len(Queue[q]) \in Nat /\ f \in [S -> Tasks]
  BY <1>1, ElementOfSeq
<1>3. IsFiniteSet(S) /\ Cardinality(S) = Len(Queue[q])
  BY <1>2, FS_Interval
<1>4. \A i, j \in S : f[i] = f[j] => i = j
  BY DEF IInv, PlaceInv
<1> HIDE DEF S, f
<1>5. Cardinality(S) <= Cardinality(Tasks)
  BY <1>2, <1>3, <1>4, Sizes, NotMore
<1> QED BY <1>1, <1>2, <1>3, <1>5


\* A place is a position of a queue.
LEMMA PlaceKinds ==
  ASSUME IInv, NEW k \in Tasks, NEW p \in Places(k)
  PROVE  /\ <<p[1], p[2]>> \in Queues /\ p = <<p[1], p[2], p[3]>>
         /\ Holds(p, k) <=> /\ p[3] \in 1..Len(Queue[<<p[1], p[2]>>])
                            /\ Queue[<<p[1], p[2]>>][p[3]] = k
<1>1. CASE \E w \in Workers, i \in 1..Cardinality(Tasks) : p = <<"local", w, i>>
  <2>1. PICK w \in Workers, i \in 1..Cardinality(Tasks) : p = <<"local", w, i>>
    BY <1>1
  <2>2. <<"local", w>> \in Queues /\ Queue[<<"local", w>>] = local[w]
    BY DEF Queues, Queue
  <2>3. DOMAIN local[w] = 1..Len(local[w])
    BY <2>2, QueueLength, LenProperties
  <2> QED BY <2>1, <2>2, <2>3 DEF Holds
<1>2. CASE \E s \in Shards, i \in 1..Cardinality(Tasks) : p = <<"shard", s, i>>
  <2>1. PICK s \in Shards, i \in 1..Cardinality(Tasks) : p = <<"shard", s, i>>
    BY <1>2
  <2>2. <<"shard", s>> \in Queues /\ Queue[<<"shard", s>>] = shard[s]
    BY DEF Queues, Queue
  <2>3. DOMAIN shard[s] = 1..Len(shard[s])
    BY <2>2, QueueLength, LenProperties
  <2> QED BY <2>1, <2>2, <2>3 DEF Holds
<1> QED BY <1>1, <1>2 DEF Places

LEMMA PositionIsPlace ==
  ASSUME IInv, NEW k \in Tasks, NEW q \in Queues, NEW i \in 1..Len(Queue[q])
  PROVE  <<q[1], q[2], i>> \in Places(k) /\ q = <<q[1], q[2]>>
<1>1. i \in 1..Cardinality(Tasks)
  BY QueueLength, Sizes
<1>2. CASE q \in {"local"} \X Workers
  BY <1>1, <1>2 DEF Places
<1>3. CASE q \in {"shard"} \X Shards
  BY <1>1, <1>3 DEF Places
<1> QED BY <1>2, <1>3 DEF Queues

LEMMA InvPlaces == IInv => QueuedInOnePlace
<1> SUFFICES ASSUME IInv, NEW k \in Tasks
             PROVE  Cardinality({p \in Places(k) : Holds(p, k)})
                    + Cardinality({t \in Threads : frame[t].task = k /\ pc[t] \in Hands})
                    = IF status[k] = "queued" THEN 1 ELSE 0
  BY DEF QueuedInOnePlace, Hands
<1> DEFINE P == {p \in Places(k) : Holds(p, k)}
           T == {t \in Threads : frame[t].task = k /\ pc[t] \in Hands}
<1>1. PlaceInv /\ StatusInv /\ k # NoTask
  BY TasksAssumption DEF IInv
<1>2. ASSUME NEW p \in P PROVE <<p[1], p[2]>> \in Queues /\ k \in Content[<<p[1], p[2]>>]
  <2>1. /\ <<p[1], p[2]>> \in Queues /\ p[3] \in 1..Len(Queue[<<p[1], p[2]>>])
        /\ Queue[<<p[1], p[2]>>][p[3]] = k
    BY PlaceKinds
  <2> QED BY <2>1 DEF Content
<1>3. P # {} => \E q \in Queues : k \in Content[q]
  BY <1>2
<1>4. \A t \in T : status[k] = "queued"
  BY <1>1 DEF StatusInv, StatusOK
<1>5. CASE status[k] # "queued"
  <2>1. P = {}
    BY <1>1, <1>3, <1>5 DEF PlaceInv
  <2>2. T = {}
    BY <1>4, <1>5
  <2> HIDE DEF P, T
  <2>3. Cardinality(P) = 0 /\ Cardinality(T) = 0
    BY <2>1, <2>2, FS_EmptySet
  <2> QED BY <1>5, <2>3 DEF P, T
<1>6. ASSUME status[k] = "queued", NEW q \in Queues, k \in Content[q]
      PROVE  Cardinality(P) = 1 /\ Cardinality(T) = 0
  <2>1. PICK i \in 1..Len(Queue[q]) : Queue[q][i] = k
    BY <1>6, QueueTypes DEF IInv
  <2>2. <<q[1], q[2], i>> \in Places(k) /\ q = <<q[1], q[2]>>
    BY PositionIsPlace
  <2> DEFINE place == <<q[1], q[2], i>>
  <2>3. place \in P
    <3>1. <<place[1], place[2]>> = q /\ place[3] = i
      BY <2>2
    <3> QED BY <2>1, <2>2, <3>1, PlaceKinds
  <2>4. ASSUME NEW p \in P PROVE p = place
    <3>1. <<p[1], p[2]>> = q
      BY <1>1, <1>2, <1>6 DEF PlaceInv
    <3>2. /\ p[3] \in 1..Len(Queue[q]) /\ Queue[q][p[3]] = k
          /\ p = <<p[1], p[2], p[3]>>
      BY <3>1, PlaceKinds
    <3>3. p[3] = i
      BY <1>1, <2>1, <3>2 DEF PlaceInv
    <3> QED BY <3>1, <3>2, <3>3
  <2>5. T = {}
    BY <1>1, <1>6 DEF PlaceInv
  <2> HIDE DEF P, T, place
  <2>6. P = {place}
    BY <2>3, <2>4
  <2> QED BY <2>5, <2>6, FS_Singleton, FS_EmptySet
<1>7. ASSUME status[k] = "queued", NEW t \in T
      PROVE  Cardinality(P) = 0 /\ Cardinality(T) = 1
  <2>1. P = {}
    BY <1>1, <1>3, <1>7 DEF PlaceInv
  <2>2. T = {t}
    BY <1>1, <1>7 DEF PlaceInv
  <2> HIDE DEF P, T
  <2> QED BY <2>1, <2>2, FS_Singleton, FS_EmptySet
<1>8. status[k] = "queued" => (\E q \in Queues : k \in Content[q]) \/ (\E t \in T : TRUE)
  BY <1>1 DEF PlaceInv
<1> HIDE DEF P, T
<1>9. CASE status[k] = "queued"
  <2>1. \/ Cardinality(P) = 1 /\ Cardinality(T) = 0
        \/ Cardinality(P) = 0 /\ Cardinality(T) = 1
    BY <1>6, <1>7, <1>8, <1>9
  <2> QED BY <1>9, <2>1 DEF P, T
<1> QED BY <1>5, <1>9

----------------------------------------------------------------------------
\* The counters and queues of the pool.

\* Every variable keeps its type, the counters within the number of threads or
\* tasks, and exceptionCounter_ never below 0.
THEOREM TypeCorrect == Spec => []TypeOK
<1> QED BY Invariance, InvTypes, PTL

\* Each of the five counters is the number of tasks or threads it stands for,
\* in every state of every pool; pendingTasks_ lags behind the queues by the
\* submissions pushed and not yet counted.
THEOREM CountersSpec == Spec => []CountersAgree
<1> QED BY Invariance, InvCounters, PTL

\* Push, pop, steal, injection and the put-back for pause() keep a queued task
\* in one queue or in the hands of one thread.
THEOREM OnePlace == Spec => []QueuedInOnePlace
<1> QED BY Invariance, InvPlaces, PTL


----------------------------------------------------------------------------
\* No wake-up is lost.

Signals == {"submitCount", "submitIdle", "submitBump", "wake"}

\* A step of t that gives no sleeping worker a new reason to wake and stops no
\* thread from waking one.
Calm(t) ==
    /\ Others(t)
    /\ runState' = runState /\ (paused' = paused \/ paused') /\ pendingTasks' = pendingTasks
    /\ fresh' \subseteq fresh \cup {t}
    /\ pc[t] \notin Signals

LEMMA WakeInvMeans ==
  WakeInv <=> ((\E w \in Workers : Missing(w)) => \E t \in Threads : pc[t] \in Signals)
<1> QED BY DEF WakeInv, Signals

LEMMA StillSignals ==
  ASSUME NEW t \in Threads, Others(t), NEW u \in Threads \ {t}, pc[u] \in Signals
  PROVE  pc'[u] \in Signals
<1> QED BY DEF Others, Signals

LEMMA WasMissing ==
  ASSUME NEW t \in Threads, Others(t), fresh' \subseteq fresh \cup {t},
         runState' = runState, paused' = paused \/ paused',
         pendingTasks' = 0 \/ pendingTasks # 0,
         NEW w \in Workers, w # t, Missing(w)'
  PROVE  Missing(w)
<1>1. w \in Threads
  BY DEF Threads
<1>2. frame'[w] = frame[w] /\ pc'[w] = pc[w]
  BY <1>1 DEF Others, Missing
<1> QED BY <1>2 DEF Missing

LEMMA CalmKeeps ==
  ASSUME WakeInv, NEW t \in Threads, Calm(t),
         t \in Workers /\ Missing(t)' => Missing(t)
  PROVE  WakeInv'
<1> SUFFICES ASSUME NEW w \in Workers, Missing(w)'
             PROVE  \E u \in Threads : pc'[u] \in Signals
  BY DEF WakeInv, Signals
<1>1. Missing(w)
  BY WasMissing DEF Calm
<1>2. PICK u \in Threads : pc[u] \in Signals
  BY <1>1, WakeInvMeans
<1>3. u # t
  BY <1>2 DEF Calm
<1> QED BY <1>2, <1>3, StillSignals DEF Calm

LEMMA NotAsleep ==
  ASSUME WakeInv, NEW t \in Threads, Calm(t), pc'[t] \notin {"park", "parked"}
  PROVE  WakeInv'
<1> QED BY CalmKeeps DEF Missing

LEMMA SignalKeeps ==
  ASSUME NEW t \in Threads, pc'[t] \in Signals
  PROVE  WakeInv'
<1> QED BY DEF WakeInv, Signals

LEMMA NewToken ==
  ASSUME fresh' = {}
  PROVE  WakeInv'
<1> QED BY DEF WakeInv, Missing

\* The steps of a thread that change its place and locals.
LEMMA Others1 ==
  ASSUME IInv, NEW t \in Threads, NEW l, Goto(t, l),
         frame' = frame \/ \E f : frame' = [frame EXCEPT ![t] = f]
  PROVE  Others(t) /\ pc'[t] = l
<1>1. pc \in [Threads -> Labels] /\ frame \in [Threads -> Frames]
  BY Facts
<1> QED BY <1>1 DEF Goto, Others

LEMMA Others2 ==
  ASSUME IInv, NEW t \in Threads, pc' = pc,
         frame' = frame \/ \E f : frame' = [frame EXCEPT ![t] = f]
  PROVE  Others(t) /\ pc'[t] = pc[t]
<1>1. frame \in [Threads -> Frames]
  BY Facts
<1> QED BY <1>1 DEF Others

LEMMA WakeSubmit ==
  ASSUME IInv, WakeInv, NEW t \in Threads, Submit(t)
  PROVE  WakeInv'
<1> USE DEF poolVars, stateVars, queueVars, joinVars, historyVars, countVars, restVars
<1>1. pc \in [Threads -> Labels] /\ frame \in [Threads -> Frames]
  BY Facts
<1>2. CASE SubmitBegin(t)
  <2>1. Others(t) /\ pc'[t] = "submitCheck"
    BY <1>2, Others1 DEF SubmitBegin
  <2>2. Calm(t)
    BY <1>2, <2>1 DEF SubmitBegin, AtOp, Calm, Signals
  <2> QED BY <2>1, <2>2, NotAsleep
<1>3. CASE SubmitAllowed(t)
  <2>1. Others(t) /\ pc'[t] = "submitPush"
    BY <1>3, Others1 DEF SubmitAllowed, Move
  <2>2. Calm(t)
    BY <1>3, <2>1 DEF SubmitAllowed, Move, Calm, Signals
  <2> QED BY <2>1, <2>2, NotAsleep
<1>4. CASE SubmitRefused(t)
  <2>1. Others(t) /\ pc'[t] \in {"threw", "run"}
    BY <1>1, <1>4 DEF SubmitRefused, Goto, Others
  <2>2. Calm(t)
    BY <1>4, <2>1 DEF SubmitRefused, Calm, Signals
  <2> QED BY <2>1, <2>2, NotAsleep
<1>5. CASE SubmitPush(t)
  BY <1>1, <1>5, SignalKeeps DEF SubmitPush, Goto, Signals
<1>6. CASE SubmitCount(t)
  BY <1>1, <1>6, SignalKeeps DEF SubmitCount, Goto, Signals
<1>7. CASE SubmitNobodyIdle(t)
  <2>1. Others(t) /\ pc'[t] = "run"
    BY <1>1, <1>7 DEF SubmitNobodyIdle, SubmitReturn, Goto, Others
  <2>2. Idling = {}
    BY <1>7, Finiteness, FS_EmptySet DEF SubmitNobodyIdle, IInv, CountInv
  <2>3. ASSUME NEW w \in Workers PROVE ~Missing(w)
    <3>1. w \in Threads /\ frame[w].waitFor = "none"
      BY <2>2 DEF Idling, Threads
    <3>2. pc[w] \notin Sleeping
      BY <3>1, Facts DEF ControlOK
    <3> QED BY <3>2 DEF Missing, Sleeping
  <2>4. ASSUME NEW w \in Workers, Missing(w)' PROVE Missing(w)
    <3>1. w # t
      BY <2>1, <2>4 DEF Missing
    <3>2. /\ fresh' \subseteq fresh \cup {t} /\ runState' = runState
          /\ paused' = paused /\ pendingTasks' = pendingTasks
      BY <1>7 DEF SubmitNobodyIdle, SubmitReturn
    <3> QED BY <2>1, <2>4, <3>1, <3>2, WasMissing
  <2> QED BY <2>3, <2>4 DEF WakeInv
<1>8. CASE SubmitSomebodyIdle(t)
  BY <1>1, <1>8, SignalKeeps DEF SubmitSomebodyIdle, Move, Goto, Signals
<1>9. CASE SubmitBump(t)
  BY <1>9, NewToken DEF SubmitBump
<1>10. CASE SubmitNotify(t)
  <2>1. Others(t) /\ pc'[t] = "run"
    BY <1>1, <1>10 DEF SubmitNotify, SubmitReturn, Goto, Others
  <2>2. Calm(t)
    BY <1>10, <2>1 DEF SubmitNotify, SubmitReturn, Calm, Signals
  <2> QED BY <2>1, <2>2, NotAsleep
<1> QED BY <1>2, <1>3, <1>4, <1>5, <1>6, <1>7, <1>8, <1>9, <1>10 DEF Submit

LEMMA WakeControl ==
  ASSUME IInv, WakeInv, NEW t \in Threads, Control(t)
  PROVE  WakeInv'
<1> USE DEF poolVars, stateVars, queueVars, joinVars, historyVars, countVars, restVars
<1>1. pc \in [Threads -> Labels] /\ frame \in [Threads -> Frames]
  BY Facts
<1>2. CASE Pause(t)
  <2>1. Others(t) /\ pc'[t] = "run"
    BY <1>2, Others2 DEF Pause, Advance, AtOp
  <2>2. Calm(t)
    BY <1>2, <2>1 DEF Pause, AtOp, Calm, Signals
  <2> QED BY <2>1, <2>2, NotAsleep
<1>3. CASE Resume(t)
  BY <1>1, <1>3, SignalKeeps DEF Resume, Goto, Signals
<1>4. CASE WakeAll(t)
  BY <1>4, NewToken DEF WakeAll
<1>5. CASE ShutdownWon(t)
  BY <1>1, <1>5, SignalKeeps DEF ShutdownWon, Goto, Signals
<1>6. CASE ShutdownLost(t)
  <2>1. Others(t) /\ pc'[t] = "run"
    BY <1>6, Others2 DEF ShutdownLost, Advance, AtOp
  <2>2. Calm(t)
    BY <1>6, <2>1 DEF ShutdownLost, AtOp, Calm, Signals
  <2> QED BY <2>1, <2>2, NotAsleep
<1>7. CASE JoinWorker(t)
  <2>1. Others(t) /\ pc'[t] = "join"
    BY <1>7, Others2 DEF JoinWorker
  <2>2. Calm(t)
    BY <1>7, <2>1 DEF JoinWorker, Calm, Signals
  <2> QED BY <2>1, <2>2, NotAsleep
<1>8. CASE ShutdownReturn(t)
  <2>1. Others(t) /\ pc'[t] = "run"
    BY <1>1, <1>8 DEF ShutdownReturn, Goto, Others
  <2>2. Calm(t)
    BY <1>8, <2>1 DEF ShutdownReturn, Calm, Signals
  <2> QED BY <2>1, <2>2, NotAsleep
<1> QED BY <1>2, <1>3, <1>4, <1>5, <1>6, <1>7, <1>8 DEF Control

\* No thread but t changes its locals.
OnlyOwn(t) == \A u \in Threads \ {t} : frame'[u] = frame[u]

LEMMA OwnLocals ==
  ASSUME IInv, NEW t \in Threads, Fetch(t) \/ Execute(t) \/ Wait(t) \/ WaitIdle(t)
  PROVE  OnlyOwn(t)
<1> USE DEF OnlyOwn, Move
<1>1. frame \in [Threads -> Frames]
  BY Facts
<1>2. CASE Fetch(t)
  <2>1. CASE TopPaused(t) \/ WorkerStops(t) \/ TopFetch(t) \/ NonePoll(t) \/ NoneIdle(t)
    BY <1>1, <2>1 DEF TopPaused, WorkerStops, TopFetch, NonePoll, NoneIdle, StartWait
  <2>2. CASE PopOwn(t) \/ StealTop(t) \/ InjectTake(t)
    BY <1>1, <2>2 DEF PopOwn, StealTop, InjectTake, Fetched
  <2>3. CASE PopNothing(t)
    BY <1>1, <2>3 DEF PopNothing
  <2>4. CASE StealMiss(t)
    BY <1>1, <2>4 DEF StealMiss
  <2>5. CASE InjectMiss(t) \/ NoneDrained(t)
    BY <1>1, <2>5 DEF InjectMiss, NoneDrained
  <2> QED BY <1>2, <2>1, <2>2, <2>3, <2>4, <2>5 DEF Fetch
<1>3. CASE Execute(t)
  <2>1. CASE RecheckPaused(t) \/ RecheckClear(t) \/ CountActive(t) \/ StartTask(t)
    BY <1>1, <2>1 DEF RecheckPaused, RecheckClear, CountActive, StartTask
  <2>2. CASE Get(t) \/ Throw(t)
    BY <1>1, <2>2 DEF Get, Throw, Advance
  <2>3. CASE TaskReturns(t) \/ TaskThrows(t) \/ CountException(t) \/ Retire(t) \/ Tell(t)
    BY <1>1, <2>3 DEF TaskReturns, TaskThrows, CountException, Retire, Tell
  <2> QED BY <1>3, <2>1, <2>2, <2>3 DEF Execute
<1>4. CASE Wait(t)
  <2>1. EndWait(t) => OnlyOwn(t)
    BY <1>1 DEF EndWait
  <2> QED BY <1>4, <2>1
     DEF Wait, CheckReady, CheckHalf, CheckActive, CheckFalse, Observe, Park
<1>5. CASE WaitIdle(t)
  <2>1. WaitHelp(t) => OnlyOwn(t)
    BY <1>1 DEF WaitHelp
  <2> QED BY <1>1, <1>5, <2>1 DEF WaitIdle, WaitBegin, WaitTop, WaitActive, WaitExit
<1> QED BY <1>2, <1>3, <1>4, <1>5

LEMMA WakeFetch ==
  ASSUME IInv, WakeInv, NEW t \in Threads, Fetch(t)
  PROVE  WakeInv'
<1> USE DEF poolVars, stateVars, queueVars, joinVars, historyVars, countVars, restVars
<1>1. pc \in [Threads -> Labels] /\ frame \in [Threads -> Frames]
  BY Facts
<1>0. OnlyOwn(t)
  BY OwnLocals
<1>2. ASSUME NEW label, pc[t] \in {"top", "pop", "steal", "inject", "none"},
             Goto(t, label) \/ (pc' = pc /\ label = pc[t]),
             label \notin {"park", "parked"},
             OnlyOwn(t),
             UNCHANGED <<runState, paused, pendingTasks, fresh>>
      PROVE  WakeInv'
  <2>1. Others(t) /\ pc'[t] = label
    BY <1>1, <1>2 DEF Goto, Others, OnlyOwn
  <2>2. Calm(t)
    BY <1>2, <2>1 DEF Calm, Signals
  <2> QED BY <1>2, <2>1, <2>2, NotAsleep
<1>3. CASE TopPaused(t) \/ NoneIdle(t)
  BY <1>2, <1>3, <1>0 DEF TopPaused, NoneIdle, StartWait
<1>4. CASE WorkerStops(t)
  BY <1>2, <1>4, <1>0 DEF WorkerStops, Move
<1>5. CASE TopFetch(t) \/ NonePoll(t)
  BY <1>2, <1>5, <1>0 DEF TopFetch, NonePoll, Move
<1>6. CASE PopOwn(t) \/ StealTop(t) \/ InjectTake(t)
  BY <1>2, <1>6, <1>0 DEF PopOwn, StealTop, InjectTake, Fetched
<1>7. CASE PopNothing(t)
  <2>1. CASE WorkerCount = 1
    BY <1>2, <1>7, <2>1, <1>0 DEF PopNothing
  <2>2. CASE WorkerCount # 1
    BY <1>2, <1>7, <2>2, <1>0 DEF PopNothing
  <2> QED BY <2>1, <2>2
<1>8. CASE StealMiss(t)
  <2>1. CASE frame[t].probe + 1 < Victims(t)
    BY <1>2, <1>8, <2>1, <1>0 DEF StealMiss
  <2>2. CASE ~(frame[t].probe + 1 < Victims(t))
    BY <1>2, <1>8, <2>2, <1>0 DEF StealMiss
  <2> QED BY <2>1, <2>2
<1>9. CASE InjectMiss(t)
  <2>1. CASE frame[t].probe + 1 < ShardCount
    BY <1>2, <1>9, <2>1, <1>0 DEF InjectMiss
  <2>2. CASE ~(frame[t].probe + 1 < ShardCount)
    BY <1>2, <1>9, <2>2, <1>0 DEF InjectMiss
  <2> QED BY <2>1, <2>2
<1>10. CASE NoneDrained(t)
  BY <1>2, <1>10, <1>0 DEF NoneDrained
<1> QED BY <1>3, <1>4, <1>5, <1>6, <1>7, <1>8, <1>9, <1>10 DEF Fetch

LEMMA WakeExecute ==
  ASSUME IInv, WakeInv, NEW t \in Threads, Execute(t)
  PROVE  WakeInv'
<1> USE DEF poolVars, stateVars, queueVars, joinVars, historyVars, countVars, restVars
<1>1. pc \in [Threads -> Labels] /\ frame \in [Threads -> Frames]
  BY Facts
<1>0. OnlyOwn(t)
  BY OwnLocals
<1>2. ASSUME NEW label, pc[t] \notin Signals,
             Goto(t, label) \/ (pc' = pc /\ label = pc[t]),
             label \notin {"park", "parked"},
             OnlyOwn(t),
             UNCHANGED <<runState, paused, pendingTasks, fresh>>
      PROVE  WakeInv'
  <2>1. Others(t) /\ pc'[t] = label
    BY <1>1, <1>2 DEF Goto, Others, OnlyOwn
  <2>2. Calm(t)
    BY <1>2, <2>1 DEF Calm
  <2> QED BY <1>2, <2>1, <2>2, NotAsleep
<1>3. CASE StartTask(t)
  <2>1. Others(t) /\ pc[t] = "pend" /\ pc'[t] = "run"
    BY <1>1, <1>3 DEF StartTask, Goto, Others
  <2>2. CASE Counting # {}
    <3>1. PICK u \in Threads : pc[u] = "submitCount"
      BY <2>2 DEF Counting
    <3>2. u # t /\ pc[u] \in Signals
      BY <2>1, <3>1 DEF Signals
    <3>3. pc'[u] \in Signals
      BY <2>1, <3>2, StillSignals
    <3> QED BY <3>3, SignalKeeps
  <2>3. CASE Counting = {}
    <3>1. frame[t].task \in Queued
      <4>1. frame[t].task # NoTask /\ status[frame[t].task] = "queued"
        BY <2>1, Facts DEF ControlOK, Hands, IInv, StatusInv, StatusOK
      <4>2. frame[t].task \in Tasks
        BY <4>1, Facts, Fields
      <4> QED BY <4>1, <4>2 DEF Queued
    <3>2. Cardinality(Queued) > 0 /\ Cardinality(Counting) = 0
      BY <2>3, <3>1, PendingRange, FS_EmptySet
    <3>3. pendingTasks # 0
      <4>1. pendingTasks = Wrap(Cardinality(Queued) - Cardinality(Counting))
        BY DEF IInv, CountInv
      <4>2. ASSUME NEW n \in Nat, n > 0, n < SizeModulus PROVE n % SizeModulus # 0
        BY <4>2, Sizes
      <4>3. pendingTasks = Cardinality(Queued) % SizeModulus
        BY <3>2, <4>1, PendingRange DEF Wrap
      <4> QED BY <3>2, <4>2, <4>3, PendingRange
    <3>4. ASSUME NEW w \in Workers, Missing(w)' PROVE Missing(w)
      <4>1. w # t
        BY <2>1, <3>4 DEF Missing
      <4>2. fresh' \subseteq fresh \cup {t} /\ runState' = runState /\ paused' = paused
        BY <1>3 DEF StartTask
      <4> QED BY <2>1, <3>3, <3>4, <4>1, <4>2, WasMissing
    <3>5. SUFFICES ASSUME NEW w \in Workers, Missing(w)
                   PROVE  \E u \in Threads : pc'[u] \in Signals
      BY <3>4 DEF WakeInv, Signals
    <3>6. PICK u \in Threads : pc[u] \in Signals
      BY <3>5, WakeInvMeans
    <3>7. u # t
      BY <2>1, <3>6 DEF Signals
    <3> QED BY <2>1, <3>6, <3>7, StillSignals
  <2> QED BY <2>2, <2>3
<1>4. CASE RecheckPaused(t)
  BY <1>2, <1>4, <1>0 DEF RecheckPaused, Signals
<1>5. CASE RecheckClear(t)
  BY <1>2, <1>5, <1>0 DEF RecheckClear, Move, Signals
<1>6. CASE CountActive(t)
  BY <1>2, <1>6, <1>0 DEF CountActive, Signals
<1>7. CASE Get(t) \/ Throw(t)
  BY <1>2, <1>7, <1>0 DEF Get, Throw, Advance, AtOp, Signals
<1>8. CASE TaskReturns(t)
  BY <1>2, <1>8, <1>0 DEF TaskReturns, TaskDone, Signals
<1>9. CASE TaskThrows(t)
  BY <1>2, <1>9, <1>0 DEF TaskThrows, TaskDone, Signals
<1>10. CASE CountException(t)
  BY <1>2, <1>10, <1>0 DEF CountException, Signals
<1>11. CASE Retire(t)
  BY <1>2, <1>11, <1>0 DEF Retire, Signals
<1>12. CASE Tell(t)
  BY <1>2, <1>12, <1>0 DEF Tell, Signals
<1> QED BY <1>3, <1>4, <1>5, <1>6, <1>7, <1>8, <1>9, <1>10, <1>11, <1>12 DEF Execute

\* A worker parks only if its predicate was false, and its predicate is true when
\* it has a reason to wake.
LEMMA WakeWait ==
  ASSUME IInv, WakeInv, NEW t \in Threads, Wait(t) \/ WaitIdle(t)
  PROVE  WakeInv'
<1> USE DEF poolVars, stateVars, queueVars, joinVars, historyVars, countVars, restVars
<1>1. pc \in [Threads -> Labels] /\ frame \in [Threads -> Frames]
  BY Facts
<1>0. OnlyOwn(t)
  BY OwnLocals
<1>2. ASSUME NEW label, pc[t] \notin Signals,
             Goto(t, label),
             OnlyOwn(t),
             UNCHANGED <<runState, paused, pendingTasks>>, fresh' \subseteq fresh \cup {t},
             t \in Workers /\ Missing(t)' => Missing(t)
      PROVE  WakeInv'
  <2>1. Others(t)
    BY <1>1, <1>2 DEF Goto, Others, OnlyOwn
  <2>2. Calm(t)
    BY <1>2, <2>1 DEF Calm
  <2> QED BY <1>2, <2>2, CalmKeeps
<1>3. ASSUME NEW label, Goto(t, label), label \notin {"park", "parked"}
      PROVE  ~Missing(t)'
  BY <1>1, <1>3 DEF Goto, Missing
<1>4. ASSUME EndWait(t), pc[t] \notin Signals PROVE WakeInv'
  <2>1. PICK label : Goto(t, label) /\ label \in {"top", "waitTop"}
    BY <1>4 DEF EndWait
  <2> QED BY <1>2, <1>3, <1>4, <2>1, <1>0 DEF EndWait
<1>5. CASE CheckReady(t)
  BY <1>4, <1>5 DEF CheckReady, Signals
<1>6. CASE CheckHalf(t)
  BY <1>2, <1>3, <1>6, <1>0 DEF CheckHalf, Move, Signals
<1>7. CASE CheckActive(t)
  <2>1. t \notin Workers
    BY <1>7, Kinds DEF CheckActive
  <2>2. CASE activeTasks = 0
    BY <1>4, <1>7, <2>2 DEF CheckActive, Signals
  <2>3. CASE activeTasks # 0
    BY <1>2, <1>7, <2>1, <2>3, <1>0 DEF CheckActive, Move, Signals
  <2> QED BY <2>2, <2>3
<1>8. CASE CheckFalse(t)
  <2>1. CASE pc[t] = "spin"
    BY <1>2, <1>3, <1>8, <2>1, <1>0 DEF CheckFalse, Move, Signals
  <2>2. CASE pc[t] = "look"
    <3>1. Goto(t, "park") /\ UNCHANGED <<frame, runState, paused, pendingTasks, fresh>>
      BY <1>8, <2>2 DEF CheckFalse, Move
    <3>2. ASSUME t \in Workers PROVE ~Missing(t)'
      <4>1. frame[t].waitFor \in {"resumed", "work"}
        <5>1. frame[t].waitFor # "none" /\ frame[t].waitFor # "drained"
          BY <2>2, <3>2, Facts DEF ControlOK, Sleeping
        <5> QED BY <5>1, Facts, Fields
      <4> QED BY <1>8, <3>1, <4>1 DEF CheckFalse, Ready, Missing
    <3> QED BY <1>2, <2>2, <3>1, <3>2, <1>0 DEF Signals
  <2> QED BY <1>8, <2>1, <2>2 DEF CheckFalse
<1>9. CASE Observe(t)
  BY <1>2, <1>3, <1>9, <1>0 DEF Observe, Signals
<1>10. CASE Park(t)
  <2>1. CASE t \in fresh
    <3>1. Missing(t)' => Missing(t)
      BY <1>10 DEF Park, Move, Missing
    <3> QED BY <1>2, <1>10, <2>1, <3>1, <1>0 DEF Park, Move, Signals
  <2>2. CASE t \notin fresh
    BY <1>2, <1>3, <1>10, <2>2, <1>0 DEF Park, Move, Signals
  <2> QED BY <2>1, <2>2
<1>11. CASE WaitBegin(t)
  BY <1>2, <1>3, <1>11, <1>0 DEF WaitBegin, AtOp, Signals
<1>12. CASE WaitTop(t)
  BY <1>2, <1>3, <1>12, <1>0 DEF WaitTop, WaitHelp, Signals
<1>13. CASE WaitActive(t)
  BY <1>2, <1>3, <1>13, <1>0 DEF WaitActive, WaitHelp, Signals
<1>14. CASE WaitExit(t)
  BY <1>2, <1>3, <1>14, <1>0 DEF WaitExit, Signals
<1> QED BY <1>5, <1>6, <1>7, <1>8, <1>9, <1>10, <1>11, <1>12, <1>13, <1>14 DEF Wait, WaitIdle

LEMMA InvWake == WakeInv => NoLostWakeup
<1> SUFFICES ASSUME WakeInv, NEW w \in Workers, pc[w] = "parked", w \in fresh,
                    \/ runState # "Running"
                    \/ ~paused /\ (frame[w].waitFor = "resumed" \/ pendingTasks # 0)
             PROVE  ThreadsAt({"submitCount", "submitIdle", "submitBump", "wake"}) # {}
  BY DEF NoLostWakeup
<1>1. Missing(w)
  BY DEF Missing
<1> QED BY <1>1 DEF WakeInv, ThreadsAt

LEMMA WakeStep == IInv /\ WakeInv /\ [Next]_vars => WakeInv'
<1> SUFFICES ASSUME IInv, WakeInv, [Next]_vars PROVE WakeInv'
  OBVIOUS
<1>1. ASSUME NEW t \in Threads, Step(t) PROVE WakeInv'
  BY <1>1, WakeSubmit, WakeControl, WakeFetch, WakeExecute, WakeWait DEF Step
<1>2. CASE UNCHANGED vars
  BY <1>2 DEF vars, stateVars, countVars, WakeInv, Missing
<1> QED BY <1>1, <1>2 DEF Next, Rest

\* A worker that sleeps on the token's present value, though the pool has work
\* for it, is no longer paused or has been stopped, will be woken: notified
\* wake-ups, the increments before the look at idleWorkers_ and the two looks of
\* spinYieldPark() leave no gap, however submit(), pause(), resume() and
\* shutdown() are interleaved.
THEOREM WakeUpsKept == Spec => []NoLostWakeup
<1>1. Init => WakeInv
  BY DEF Init, WakeInv, Missing
<1> QED BY <1>1, WakeStep, Invariance, InvWake, PTL DEF Spec

----------------------------------------------------------------------------
\* What a step does to the threads, in general.

\* Only t's place changes, or that of a parked thread that is notified.
LEMMA StepOthers ==
  ASSUME IInv, NEW t \in Threads, Step(t)
  PROVE  Others(t)
<1> USE DEF poolVars, stateVars, queueVars, joinVars, historyVars, countVars, restVars, Others
<1>1. pc \in [Threads -> Labels] /\ frame \in [Threads -> Frames]
  BY Facts
<1>2. ASSUME OnlyOwn(t), pc' = pc \/ \E l : Goto(t, l) PROVE Others(t)
  BY <1>1, <1>2 DEF OnlyOwn, Goto
<1>3. CASE Submit(t)
  <2>1. CASE SubmitBegin(t) \/ SubmitAllowed(t) \/ SubmitSomebodyIdle(t) \/ SubmitBump(t)
    BY <1>1, <2>1 DEF SubmitBegin, SubmitAllowed, SubmitSomebodyIdle, SubmitBump, Move, Goto
  <2>2. CASE SubmitRefused(t)
    BY <1>1, <2>2 DEF SubmitRefused, Goto
  <2>3. CASE SubmitPush(t) \/ SubmitCount(t)
    BY <1>1, <2>3 DEF SubmitPush, SubmitCount, Goto
  <2>4. CASE SubmitNobodyIdle(t)
    BY <1>1, <2>4 DEF SubmitNobodyIdle, SubmitReturn, Goto
  <2>5. CASE SubmitNotify(t)
    BY <1>1, <2>5 DEF SubmitNotify, SubmitReturn, Goto
  <2> QED BY <1>3, <2>1, <2>2, <2>3, <2>4, <2>5 DEF Submit
<1>4. CASE Control(t)
  <2>1. CASE Pause(t) \/ ShutdownLost(t)
    BY <1>1, <2>1 DEF Pause, ShutdownLost, Advance
  <2>2. CASE Resume(t) \/ ShutdownWon(t) \/ ShutdownReturn(t) \/ JoinWorker(t)
    BY <1>1, <2>2 DEF Resume, ShutdownWon, ShutdownReturn, JoinWorker, Goto
  <2>3. CASE WakeAll(t)
    BY <1>1, <2>3 DEF WakeAll
  <2> QED BY <1>4, <2>1, <2>2, <2>3 DEF Control
<1>5. CASE Fetch(t)
  <2>1. OnlyOwn(t)
    BY <1>5, OwnLocals
  <2>2. pc' = pc \/ \E l : Goto(t, l)
    BY <1>5 DEF Fetch, TopPaused, WorkerStops, TopFetch, NonePoll, NoneIdle, StartWait, Move,
       PopOwn, StealTop, InjectTake, Fetched, PopNothing, StealMiss, InjectMiss, NoneDrained
  <2> QED BY <1>2, <2>1, <2>2
<1>6. CASE Execute(t)
  <2>1. OnlyOwn(t)
    BY <1>6, OwnLocals
  <2>2. pc' = pc \/ \E l : Goto(t, l)
    BY <1>6 DEF Execute, RecheckPaused, RecheckClear, CountActive, StartTask, Get, Throw, Move,
       TaskReturns, TaskThrows, TaskDone, CountException, Retire, Tell
  <2> QED BY <1>2, <2>1, <2>2
<1>7. CASE Wait(t)
  <2>1. OnlyOwn(t)
    BY <1>7, OwnLocals
  <2>2. pc' = pc \/ \E l : Goto(t, l)
    BY <1>7 DEF Wait, CheckReady, CheckHalf, CheckActive, CheckFalse, Observe, Park, EndWait, Move
  <2> QED BY <1>2, <2>1, <2>2
<1>8. CASE WaitIdle(t)
  <2>1. OnlyOwn(t)
    BY <1>8, OwnLocals
  <2>2. pc' = pc \/ \E l : Goto(t, l)
    BY <1>8 DEF WaitIdle, WaitBegin, WaitTop, WaitActive, WaitExit, WaitHelp
  <2> QED BY <1>2, <2>1, <2>2
<1> QED BY <1>3, <1>4, <1>5, <1>6, <1>7, <1>8 DEF Step

----------------------------------------------------------------------------
\* A pool that has been shut down is left alone.

\* A worker that shutdown() need not wait for any more: it has returned, or it is
\* in the task that called shutdown(), or that found it was being called.
Busy == {"run", "threw", "join", "wake"} \cup InSubmit
Detached(w) == pc[w] = "done" \/ (frame[w].task # NoTask /\ pc[w] \in Busy)

JoinInv ==
    /\ \A w \in Workers : w < joining => pc[w] = "done" \/ w \in selfDetach
    /\ \A w \in selfDetach : Detached(w)

\* A worker that has returned does nothing, and one whose flag is set goes from
\* its task to the end.
LEMMA DetachedStep ==
  ASSUME IInv, NEW w \in Workers, Detached(w), Step(w)
  PROVE  pc[w] # "done" /\ (w \in selfDetach => Detached(w)')
<1> USE DEF Busy, InSubmit, Detached
<1>1. pc \in [Threads -> Labels] /\ frame \in [Threads -> Frames] /\ w \in Threads
  BY Facts DEF Threads
<1>2. /\ frame[w].task # NoTask /\ pc[w] = "wake" => frame[w].call[1] \in {"resume", "shutdown"}
      /\ frame[w].task # NoTask /\ pc[w] = "run" => ~AtOp(w, "waitIdle")
  <2>1. ASSUME AtOp(w, "waitIdle"), frame[w].task # NoTask PROVE FALSE
    <3>1. pc[w] = "run" /\ Ops(w) # <<>> /\ Head(Ops(w))[1] = "waitIdle"
      BY <2>1 DEF AtOp
    <3>2. Head(Ops(w)) \in TaskOperations
      BY <1>1, <2>1, <3>1, Advancing
    <3> QED BY <3>1, <3>2, OpKinds
  <2>2. ControlOK(w)
    BY <1>1, Facts
  <2> QED BY <2>1, <2>2 DEF ControlOK
<1>3. CASE Submit(w)
  <2>1. CASE SubmitBegin(w)
    <3>1. pc[w] = "run" /\ Ops(w) # <<>> /\ pc'[w] = "submitCheck"
      BY <1>1, <2>1 DEF SubmitBegin, AtOp, Goto
    <3>2. frame'[w].task = Advanced(w).task
      BY <1>1, <2>1 DEF SubmitBegin, Advanced
    <3> QED BY <1>1, <3>1, <3>2, Advancing
  <2>2. CASE SubmitAllowed(w) \/ SubmitSomebodyIdle(w) \/ SubmitBump(w)
    BY <1>1, <2>2 DEF SubmitAllowed, SubmitSomebodyIdle, SubmitBump, Move, Goto
  <2>3. CASE SubmitRefused(w)
    BY <1>1, <2>3 DEF SubmitRefused, Goto
  <2>4. CASE SubmitPush(w) \/ SubmitCount(w)
    BY <1>1, <2>4 DEF SubmitPush, SubmitCount, Goto
  <2>5. CASE SubmitNobodyIdle(w)
    BY <1>1, <2>5 DEF SubmitNobodyIdle, SubmitReturn, Goto
  <2>6. CASE SubmitNotify(w)
    BY <1>1, <2>6 DEF SubmitNotify, SubmitReturn, Goto
  <2> QED BY <1>3, <2>1, <2>2, <2>3, <2>4, <2>5, <2>6 DEF Submit
<1>4. CASE Control(w)
  <2>1. CASE Pause(w) \/ ShutdownLost(w)
    <3>1. pc[w] = "run" /\ Ops(w) # <<>> /\ pc'[w] = "run" /\ frame'[w] = Advanced(w)
      BY <1>1, <2>1 DEF Pause, ShutdownLost, Advance, AtOp
    <3> QED BY <1>1, <3>1, Advancing
  <2>2. CASE Resume(w) \/ ShutdownWon(w)
    <3>1. pc[w] = "run" /\ Ops(w) # <<>> /\ pc'[w] = "wake"
      BY <1>1, <2>2 DEF Resume, ShutdownWon, AtOp, Goto
    <3>2. frame'[w] = [Advanced(w) EXCEPT !.call = Head(Ops(w))]
      BY <1>1, <2>2 DEF Resume, ShutdownWon
    <3>3. Advanced(w) \in Frames /\ Advanced(w).task = frame[w].task
      BY <1>1, <3>1, Advancing
    <3>4. frame'[w].task = frame[w].task
      BY <3>2, <3>3 DEF Frames
    <3> QED BY <3>1, <3>4
  <2>3. CASE JoinWorker(w) \/ ShutdownReturn(w)
    <3>1. CASE JoinWorker(w)
      BY <3>1 DEF JoinWorker
    <3>2. CASE ShutdownReturn(w)
      BY <1>1, <3>2 DEF ShutdownReturn, Goto
    <3> QED BY <2>3, <3>1, <3>2
  <2>4. CASE WakeAll(w)
    <3>1. pc[w] = "wake" /\ frame[w].task # NoTask
      BY <2>4 DEF WakeAll
    <3>2. pc'[w] \in {"run", "join"} /\ frame'[w].task = frame[w].task
      BY <1>1, <1>2, <2>4, <3>1 DEF WakeAll
    <3> QED BY <3>1, <3>2
  <2> QED BY <1>4, <2>1, <2>2, <2>3, <2>4 DEF Control
<1>5. CASE Fetch(w)
  BY <1>5 DEF Fetch, TopPaused, WorkerStops, TopFetch, PopOwn, PopNothing, StealTop, StealMiss,
     InjectTake, InjectMiss, NonePoll, NoneIdle, NoneDrained
<1>6. CASE Execute(w)
  <2>1. CASE Get(w) \/ Throw(w)
    <3>1. /\ pc[w] = "run" /\ Ops(w) # <<>> /\ pc'[w] \in {"run", "threw"}
          /\ frame'[w] = Advanced(w)
      BY <1>1, <2>1 DEF Get, Throw, Advance, AtOp, Goto
    <3> QED BY <1>1, <3>1, Advancing
  <2>2. CASE TaskReturns(w) \/ TaskThrows(w)
    BY <1>1, <2>2 DEF TaskReturns, TaskThrows, TaskDone, Goto
  <2>3. ~(RecheckPaused(w) \/ RecheckClear(w) \/ CountActive(w) \/ StartTask(w)
          \/ CountException(w) \/ Retire(w) \/ Tell(w))
    BY DEF RecheckPaused, RecheckClear, CountActive, StartTask, CountException, Retire, Tell
  <2> QED BY <1>6, <2>1, <2>2, <2>3 DEF Execute
<1>7. CASE Wait(w)
  BY <1>7 DEF Wait, CheckReady, CheckHalf, CheckActive, CheckFalse, Observe, Park
<1>8. CASE WaitIdle(w)
  BY <1>2, <1>8 DEF WaitIdle, WaitBegin, AtOp, WaitTop, WaitActive, WaitExit
<1> QED BY <1>3, <1>4, <1>5, <1>6, <1>7, <1>8 DEF Step

\* Only JoinWorker sets a flag or goes on to the next worker.
LEMMA JoinVarsKept ==
  ASSUME NEW t \in Threads, Step(t), ~JoinWorker(t)
  PROVE  UNCHANGED joinVars
<1> USE DEF poolVars, restVars
<1>1. CASE Submit(t)
  BY <1>1 DEF Submit, SubmitBegin, SubmitAllowed, SubmitRefused, SubmitPush, SubmitCount,
     SubmitNobodyIdle, SubmitSomebodyIdle, SubmitBump, SubmitNotify, SubmitReturn, Move
<1>2. CASE Control(t)
  BY <1>2 DEF Control, Pause, Resume, WakeAll, ShutdownWon, ShutdownLost, ShutdownReturn
<1>3. CASE Fetch(t)
  BY <1>3 DEF Fetch, TopPaused, WorkerStops, TopFetch, NonePoll, NoneIdle, StartWait, Move,
     PopOwn, StealTop, InjectTake, Fetched, PopNothing, StealMiss, InjectMiss, NoneDrained
<1>4. CASE Execute(t)
  BY <1>4 DEF Execute, RecheckPaused, RecheckClear, CountActive, StartTask, Get, Throw, Move,
     TaskReturns, TaskThrows, CountException, Retire, Tell
<1>5. CASE Wait(t)
  BY <1>5 DEF Wait, CheckReady, CheckHalf, CheckActive, CheckFalse, Observe, Park, EndWait, Move
<1>6. CASE WaitIdle(t)
  BY <1>6 DEF WaitIdle, WaitBegin, WaitTop, WaitActive, WaitExit
<1> QED BY <1>1, <1>2, <1>3, <1>4, <1>5, <1>6 DEF Step

LEMMA JoinStep ==
  ASSUME IInv, JoinInv, NEW t \in Threads, Step(t)
  PROVE  JoinInv'
<1>1. Others(t) /\ selfDetach \subseteq Workers /\ joining \in 0..WorkerCount
  BY StepOthers DEF IInv, Types
<1>2. ASSUME NEW w \in Workers, pc[w] = "done" PROVE pc'[w] = "done"
  <2>1. w \in Threads /\ Detached(w)
    BY <1>2 DEF Threads, Detached
  <2>2. w # t
    BY <1>2, <2>1, DetachedStep
  <2> QED BY <1>1, <1>2, <2>1, <2>2 DEF Others
<1>3. ASSUME NEW w \in selfDetach PROVE Detached(w)'
  <2>1. w \in Threads /\ w \in Workers /\ Detached(w)
    BY <1>1, <1>3 DEF Threads, JoinInv
  <2>2. CASE w = t
    BY <1>3, <2>1, <2>2, DetachedStep
  <2>3. CASE w # t
    BY <1>1, <2>1, <2>3 DEF Others, Detached, Busy, InSubmit
  <2> QED BY <2>2, <2>3
<1>4. CASE ~JoinWorker(t)
  <2>1. joining' = joining /\ selfDetach' = selfDetach
    BY <1>4, JoinVarsKept DEF joinVars
  <2> QED BY <1>2, <1>3, <2>1 DEF JoinInv
<1>5. CASE JoinWorker(t)
  <2>1. /\ pc[t] = "join" /\ pc' = pc /\ frame' = frame /\ joining' = joining + 1
        /\ joining < WorkerCount
        /\ \/ joining = t /\ selfDetach' = selfDetach \cup {t}
           \/ joining # t /\ pc[joining] = "done" /\ selfDetach' = selfDetach
    BY <1>5 DEF JoinWorker
  <2>2. t \in Workers => Detached(t)
    BY <2>1, Facts DEF ControlOK, Detached, Busy
  <2>3. ASSUME NEW w \in Workers, w < joining' PROVE pc'[w] = "done" \/ w \in selfDetach'
    <3>1. w < joining \/ w = joining
      BY <1>1, <2>1, <2>3, Sizes DEF Workers
    <3> QED BY <1>2, <2>1, <3>1 DEF JoinInv
  <2>4. ASSUME NEW w \in selfDetach' PROVE Detached(w)'
    <3>1. w \in selfDetach \/ (w = t /\ t = joining)
      BY <2>1, <2>4
    <3>2. CASE w \in selfDetach
      BY <1>3, <3>2
    <3>3. CASE w = t /\ t = joining
      <4>1. t \in Workers
        BY <1>1, <2>1, <3>3, Sizes DEF Workers
      <4> QED BY <2>1, <2>2, <3>3, <4>1 DEF Detached
    <3> QED BY <3>1, <3>2, <3>3
  <2> QED BY <2>3, <2>4 DEF JoinInv
<1> QED BY <1>4, <1>5

\* When every worker has returned and no client is in a call, what is left to
\* clients leaves the counters and the queues as they are.
LEMMA QuietPool ==
  ASSUME IInv, \A w \in Workers : pc[w] = "done",
         \A c \in Clients : pc[c] = "run" /\ ~AtOp(c, "waitIdle"),
         NEW t \in Threads, Step(t)
  PROVE  UNCHANGED <<countVars, queueVars>>
<1> USE DEF poolVars
<1>1. pc[t] \in {"done", "run"} /\ ~AtOp(t, "waitIdle")
  BY DEF Threads, AtOp
<1>2. CASE Submit(t)
  BY <1>1, <1>2 DEF Submit, SubmitBegin, SubmitAllowed, SubmitRefused, SubmitPush, SubmitCount,
     SubmitNobodyIdle, SubmitSomebodyIdle, SubmitBump, SubmitNotify, SubmitReturn, Move
<1>3. CASE Control(t)
  BY <1>1, <1>3 DEF Control, Pause, Resume, WakeAll, ShutdownWon, ShutdownLost, ShutdownReturn,
     JoinWorker
<1>4. CASE Fetch(t)
  BY <1>1, <1>4 DEF Fetch, TopPaused, WorkerStops, TopFetch, NonePoll, NoneIdle,
     PopOwn, StealTop, InjectTake, PopNothing, StealMiss, InjectMiss, NoneDrained
<1>5. CASE Execute(t)
  BY <1>1, <1>5 DEF Execute, RecheckPaused, RecheckClear, CountActive, StartTask, Get, Throw,
     TaskReturns, TaskThrows, CountException, Retire, Tell
<1>6. CASE Wait(t)
  BY <1>1, <1>6 DEF Wait, CheckReady, CheckHalf, CheckActive, CheckFalse, Observe, Park
<1>7. CASE WaitIdle(t)
  BY <1>1, <1>7 DEF WaitIdle, WaitBegin, WaitTop, WaitActive, WaitExit
<1> QED BY <1>2, <1>3, <1>4, <1>5, <1>6, <1>7 DEF Step

LEMMA InvLeftAlone ==
  ASSUME IInv, JoinInv, [Next]_vars,
         Joined, \A w \in Workers : InTask(w) => frame[w].task \in Finished,
         \A c \in Clients : pc[c] = "run" /\ ~AtOp(c, "waitIdle")
  PROVE  UNCHANGED <<countVars, queueVars>>
<1>1. ASSUME NEW w \in Workers PROVE pc[w] = "done"
  <2>1. w \in Threads /\ w < joining
    BY Sizes DEF Joined, Workers, Threads
  <2>2. Detached(w)
    BY <2>1 DEF JoinInv, Detached
  <2>3. ASSUME frame[w].task # NoTask, pc[w] \in Busy PROVE FALSE
    <3>1. status[frame[w].task] = "running"
      BY <2>1, <2>3 DEF IInv, StatusInv, StatusOK, Busy
    <3> QED BY <2>3, <3>1 DEF InTask, Finished
  <2> QED BY <2>2, <2>3 DEF Detached
<1>2. CASE UNCHANGED vars
  BY <1>2 DEF vars
<1> QED BY <1>1, <1>2, QuietPool DEF Next, Rest

\* Once shutdown() has returned, the tasks that were running have ended, the one
\* that called it included, and no client is in a call, nothing touches the
\* counters and the queues any more: the pool can be destroyed.
THEOREM LeftAlone == Spec => PoolLeftAlone
<1>1. Init => JoinInv
  BY Sizes DEF Init, JoinInv, Workers
<1>2. IInv /\ JoinInv /\ [Next]_vars => JoinInv'
  <2>1. IInv /\ JoinInv /\ UNCHANGED vars => JoinInv'
    BY DEF vars, joinVars, JoinInv, Detached
  <2> QED BY <2>1, JoinStep DEF Next, Rest
<1>3. IInv /\ JoinInv /\ [Next]_vars
      => [/\ Joined
          /\ \A w \in Workers : InTask(w) => frame[w].task \in Finished
          /\ \A c \in Clients : pc[c] = "run" /\ ~AtOp(c, "waitIdle")
          => UNCHANGED <<countVars, queueVars>>]_vars
  BY InvLeftAlone
<1> QED BY <1>1, <1>2, <1>3, Invariance, PTL DEF Spec, PoolLeftAlone

----------------------------------------------------------------------------
\* Not all workers sleep over work.  Two things can defeat a notification, and
\* are excluded by hypotheses: a thread in waitIdle() that it wakes in the place
\* of a worker, and a worker that is awake but blocked in a get().

NoOp(ops, op) == \A i \in 1..Len(ops) : ops[i][1] # op

NobodyWaits == \A c \in Clients : \A p \in Programs[c] : NoOp(p, "waitIdle")
NoTaskBlocks == \A k \in Tasks : NoOp(Bodies[k], "get")

LEMMA NoOpTail ==
  ASSUME NEW S, NEW s \in Seq(S), s # <<>>, NEW op, NoOp(s, op)
  PROVE  NoOp(Tail(s), op) /\ Head(s)[1] # op
<1>1. /\ Len(s) \in Nat \ {0} /\ Head(s) = s[1] /\ Len(Tail(s)) = Len(s) - 1
      /\ \A i \in 1..(Len(s) - 1) : Tail(s)[i] = s[i + 1]
  BY HeadTailProperties, EmptySeq, LenProperties
<1>2. \A i \in 1..Len(Tail(s)) : i + 1 \in 1..Len(s) /\ Tail(s)[i] = s[i + 1]
  BY <1>1
<1>3. 1 \in 1..Len(s)
  BY <1>1
<1> QED BY <1>1, <1>2, <1>3 DEF NoOp

LEMMA NoOpEmpty == \A op : NoOp(<<>>, op)
<1> QED BY EmptySeq DEF NoOp

\* What a step does to the operations that are left, and to draining.
LEMMA OpsStep ==
  ASSUME IInv, NEW t \in Threads, Step(t)
  PROVE  /\ \/ frame'[t].ops = frame[t].ops
            \/ frame[t].ops # <<>> /\ frame'[t].ops = Tail(frame[t].ops)
            \/ frame'[t].ops = <<>>
            \/ frame[t].task \in Tasks /\ frame'[t].ops = Bodies[frame[t].task]
         /\ \/ frame'[t].todo = frame[t].todo
            \/ frame[t].todo # <<>> /\ frame'[t].todo = Tail(frame[t].todo)
         /\ \/ frame'[t].draining = frame[t].draining
            \/ frame'[t].draining = FALSE
            \/ AtOp(t, "waitIdle")
<1> USE DEF poolVars, stateVars, queueVars, joinVars, historyVars, countVars, restVars
<1>1. /\ pc \in [Threads -> Labels] /\ frame \in [Threads -> Frames] /\ frame[t] \in Frames
      /\ frame[t].task \in Tasks \cup {NoTask}
  BY Facts, Fields
<1> DEFINE Same(f) == /\ f.ops = frame[t].ops /\ f.todo = frame[t].todo
                      /\ f.draining = frame[t].draining
<1>2. ASSUME Ops(t) # <<>>
      PROVE  /\ Advanced(t) \in Frames
             /\ \/ Advanced(t).ops = frame[t].ops
                \/ frame[t].ops # <<>> /\ Advanced(t).ops = Tail(frame[t].ops)
             /\ \/ Advanced(t).todo = frame[t].todo
                \/ frame[t].todo # <<>> /\ Advanced(t).todo = Tail(frame[t].todo)
             /\ Advanced(t).draining = frame[t].draining
  <2>1. CASE frame[t].task # NoTask
    <3>1. frame[t].ops # <<>> /\ Advanced(t) = [frame[t] EXCEPT !.ops = Tail(frame[t].ops)]
      BY <1>2, <2>1 DEF Ops, Advanced, InTask
    <3>2. Tail(frame[t].ops) \in Seq(TaskOperations)
      BY <1>1, <3>1, Fields, HeadTailProperties
    <3> QED BY <1>1, <3>1, <3>2 DEF Frames
  <2>2. CASE frame[t].task = NoTask
    <3>1. frame[t].todo # <<>> /\ Advanced(t) = [frame[t] EXCEPT !.todo = Tail(frame[t].todo)]
      BY <1>2, <2>2 DEF Ops, Advanced, InTask
    <3>2. Tail(frame[t].todo) \in Seq(ClientOperations)
      BY <1>1, <3>1, Fields, HeadTailProperties
    <3> QED BY <1>1, <3>1, <3>2 DEF Frames
  <2> QED BY <2>1, <2>2
<1>3. CASE frame'[t] = frame[t]
  BY <1>3
<1>4. CASE Ops(t) # <<>> /\ frame'[t] = Advanced(t)
  BY <1>2, <1>4
<1>5. CASE Ops(t) # <<>> /\ frame'[t] = [Advanced(t) EXCEPT !.call = Head(Ops(t))]
  <2>1. /\ frame'[t].ops = Advanced(t).ops /\ frame'[t].todo = Advanced(t).todo
        /\ frame'[t].draining = Advanced(t).draining
    BY <1>2, <1>5 DEF Frames
  <2> QED BY <1>2, <1>5, <2>1
<1>6. CASE Same(frame'[t])
  BY <1>6
<1>7. CASE Submit(t)
  <2>1. CASE SubmitBegin(t)
    BY <1>1, <1>5, <2>1 DEF SubmitBegin, AtOp
  <2>2. CASE SubmitRefused(t)
    BY <1>1, <2>2 DEF SubmitRefused, Frames
  <2>3. CASE SubmitNobodyIdle(t) \/ SubmitNotify(t)
    BY <1>1, <1>6, <2>3 DEF SubmitNobodyIdle, SubmitNotify, SubmitReturn, Frames
  <2>4. CASE SubmitAllowed(t) \/ SubmitPush(t) \/ SubmitCount(t) \/ SubmitSomebodyIdle(t)
             \/ SubmitBump(t)
    BY <1>3, <2>4 DEF SubmitAllowed, SubmitPush, SubmitCount, SubmitSomebodyIdle, SubmitBump, Move
  <2> QED BY <1>7, <2>1, <2>2, <2>3, <2>4 DEF Submit
<1>8. CASE Control(t)
  <2>1. CASE Pause(t) \/ ShutdownLost(t)
    BY <1>1, <1>4, <2>1 DEF Pause, ShutdownLost, Advance, AtOp
  <2>2. CASE Resume(t) \/ ShutdownWon(t)
    BY <1>1, <1>5, <2>2 DEF Resume, ShutdownWon, AtOp
  <2>3. CASE WakeAll(t)
    BY <1>1, <1>6, <2>3 DEF WakeAll, Frames
  <2>4. CASE ShutdownReturn(t)
    BY <1>1, <1>6, <2>4 DEF ShutdownReturn, Frames
  <2>5. CASE JoinWorker(t)
    BY <1>3, <2>5 DEF JoinWorker
  <2> QED BY <1>8, <2>1, <2>2, <2>3, <2>4, <2>5 DEF Control
<1>9. CASE Fetch(t)
  <2>1. CASE TopPaused(t) \/ NoneIdle(t)
    BY <1>1, <1>6, <2>1 DEF TopPaused, NoneIdle, StartWait, Frames
  <2>2. CASE WorkerStops(t) \/ TopFetch(t) \/ NonePoll(t)
    BY <1>3, <2>2 DEF WorkerStops, TopFetch, NonePoll, Move
  <2>3. CASE PopOwn(t) \/ StealTop(t) \/ InjectTake(t)
    <3>1. PICK k, q : Fetched(t, k, q)
      BY <2>3 DEF PopOwn, StealTop, InjectTake
    <3>2. frame'[t] = [frame[t] EXCEPT !.task = k, !.from = q, !.offset = 0, !.probe = 0]
      BY <1>1, <3>1 DEF Fetched
    <3>3. Same(frame'[t])
      BY <1>1, <3>2 DEF Frames
    <3> QED BY <1>6, <3>3
  <2>4. CASE PopNothing(t)
    BY <1>1, <1>3, <1>6, <2>4 DEF PopNothing, Frames
  <2>5. CASE StealMiss(t)
    <3>1. CASE frame[t].probe + 1 < Victims(t)
      BY <1>1, <1>6, <2>5, <3>1 DEF StealMiss, Frames
    <3>2. CASE ~(frame[t].probe + 1 < Victims(t))
      BY <1>1, <1>6, <2>5, <3>2 DEF StealMiss, Frames
    <3> QED BY <3>1, <3>2
  <2>6. CASE InjectMiss(t) \/ NoneDrained(t)
    BY <1>1, <1>6, <2>6 DEF InjectMiss, NoneDrained, Frames
  <2> QED BY <1>9, <2>1, <2>2, <2>3, <2>4, <2>5, <2>6 DEF Fetch
<1>10. CASE Execute(t)
  <2>1. CASE RecheckPaused(t) \/ CountActive(t)
    BY <1>1, <1>6, <2>1 DEF RecheckPaused, CountActive, Frames
  <2>2. CASE Retire(t)
    BY <1>1, <1>6, <2>2 DEF Retire, Frames
  <2>3. CASE RecheckClear(t) \/ TaskReturns(t) \/ CountException(t) \/ Tell(t)
    BY <1>3, <2>3 DEF RecheckClear, TaskReturns, CountException, Tell, Move
  <2>4. CASE StartTask(t)
    <3>1. frame[t].task \in Tasks
      BY <1>1, <2>4, Facts DEF StartTask, ControlOK, Hands
    <3> QED BY <1>1, <2>4, <3>1 DEF StartTask, Frames
  <2>5. CASE Get(t) \/ Throw(t)
    BY <1>1, <1>4, <2>5 DEF Get, Throw, Advance, AtOp
  <2>6. CASE TaskThrows(t)
    BY <1>1, <2>6 DEF TaskThrows, Frames
  <2> QED BY <1>10, <2>1, <2>2, <2>3, <2>4, <2>5, <2>6 DEF Execute
<1>11. CASE Wait(t)
  <2>1. EndWait(t) => Same(frame'[t])
    BY <1>1 DEF EndWait, Frames
  <2> QED BY <1>3, <1>6, <1>11, <2>1
     DEF Wait, CheckReady, CheckHalf, CheckActive, CheckFalse, Observe, Park, Move
<1>12. CASE WaitIdle(t)
  <2>1. CASE WaitBegin(t)
    <3>1. Ops(t) # <<>> /\ AtOp(t, "waitIdle")
      BY <2>1 DEF WaitBegin, AtOp
    <3>2. frame'[t].ops = Advanced(t).ops /\ frame'[t].todo = Advanced(t).todo
      BY <1>1, <1>2, <2>1, <3>1 DEF WaitBegin, Frames
    <3> QED BY <1>2, <3>1, <3>2
  <2>2. CASE WaitTop(t) \/ WaitActive(t)
    BY <1>1, <1>3, <1>6, <2>2 DEF WaitTop, WaitActive, WaitHelp, Frames
  <2>3. CASE WaitExit(t)
    BY <1>1, <2>3 DEF WaitExit, Frames
  <2> QED BY <1>12, <2>1, <2>2, <2>3 DEF WaitIdle
<1> QED BY <1>7, <1>8, <1>9, <1>10, <1>11, <1>12 DEF Step

\* No client is in waitIdle(), and none will be.
NoWaiters == \A c \in Clients : ~frame[c].draining /\ NoOp(frame[c].todo, "waitIdle")

\* No task that runs is to block.
NoBlockers == \A t \in Threads : NoOp(frame[t].ops, "get")

LEMMA NoWaitersInv ==
  ASSUME NobodyWaits
  PROVE  /\ Init => NoWaiters
         /\ IInv /\ NoWaiters /\ [Next]_vars => NoWaiters'
<1>1. ASSUME Init PROVE NoWaiters
  <2>1. PICK program \in [Clients -> UNION {Programs[c] : c \in Clients}] :
          /\ \A c \in Clients : program[c] \in Programs[c]
          /\ frame = [t \in Threads |-> IF t \in Workers THEN IdleFrame
                                        ELSE [IdleFrame EXCEPT !.todo = program[t]]]
    BY <1>1 DEF Init
  <2>2. ASSUME NEW c \in Clients PROVE frame[c].todo = program[c] /\ ~frame[c].draining
    <3>1. c \in Threads /\ c \notin Workers
      BY ClientsAssumption DEF Threads
    <3> QED BY <2>1, <3>1 DEF IdleFrame
  <2> QED BY <2>1, <2>2 DEF NobodyWaits, NoWaiters
<1>2. ASSUME IInv, NoWaiters, NEW t \in Threads, Step(t) PROVE NoWaiters'
  <2> SUFFICES ASSUME NEW c \in Clients
               PROVE  ~frame'[c].draining /\ NoOp(frame'[c].todo, "waitIdle")
    BY DEF NoWaiters
  <2>1. /\ c \in Threads /\ frame[c] \in Frames /\ frame[c].todo \in Seq(ClientOperations)
        /\ ~frame[c].draining /\ NoOp(frame[c].todo, "waitIdle")
    BY <1>2, Facts, Fields DEF Threads, NoWaiters
  <2>2. CASE c # t
    <3>1. frame'[c] = frame[c]
      BY <1>2, <2>1, <2>2, StepOthers DEF Others
    <3> QED BY <2>1, <3>1
  <2>3. CASE c = t
    <3>1. \/ frame'[t].todo = frame[t].todo
          \/ frame[t].todo # <<>> /\ frame'[t].todo = Tail(frame[t].todo)
      BY <1>2, OpsStep
    <3>2. NoOp(frame'[t].todo, "waitIdle")
      BY <2>1, <2>3, <3>1, NoOpTail
    <3>3. ~AtOp(t, "waitIdle")
      <4>1. ASSUME AtOp(t, "waitIdle") PROVE FALSE
        <5>1. pc[t] = "run" /\ Ops(t) # <<>> /\ Head(Ops(t))[1] = "waitIdle"
          BY <4>1 DEF AtOp
        <5>2. frame[t].task = NoTask
          BY <1>2, <5>1, Advancing, OpKinds
        <5>3. Ops(t) = frame[t].todo
          BY <5>2 DEF Ops, InTask
        <5> QED BY <2>1, <2>3, <5>1, <5>3, NoOpTail
      <4> QED BY <4>1
    <3>4. ~frame'[t].draining
      BY <1>2, <2>1, <2>3, <3>3, OpsStep
    <3> QED BY <2>3, <3>2, <3>4
  <2> QED BY <2>2, <2>3
<1>3. NoWaiters /\ UNCHANGED vars => NoWaiters'
  BY DEF vars, NoWaiters
<1> QED BY <1>1, <1>2, <1>3 DEF Next, Rest

LEMMA NoBlockersInv ==
  ASSUME NoTaskBlocks
  PROVE  /\ Init => NoBlockers
         /\ IInv /\ NoBlockers /\ [Next]_vars => NoBlockers'
<1>1. ASSUME Init PROVE NoBlockers
  <2>1. \A t \in Threads : frame[t].ops = <<>>
    BY <1>1 DEF Init, IdleFrame
  <2> QED BY <2>1, NoOpEmpty DEF NoBlockers
<1>2. ASSUME IInv, NoBlockers, NEW t \in Threads, Step(t) PROVE NoBlockers'
  <2> SUFFICES ASSUME NEW u \in Threads PROVE NoOp(frame'[u].ops, "get")
    BY DEF NoBlockers
  <2>1. /\ frame[u] \in Frames /\ frame[u].ops \in Seq(TaskOperations)
        /\ NoOp(frame[u].ops, "get")
    BY <1>2, Facts, Fields DEF NoBlockers
  <2>2. CASE u # t
    <3>1. frame'[u] = frame[u]
      BY <1>2, <2>2, StepOthers DEF Others
    <3> QED BY <2>1, <3>1
  <2>3. CASE u = t
    <3>1. \/ frame'[t].ops = frame[t].ops
          \/ frame[t].ops # <<>> /\ frame'[t].ops = Tail(frame[t].ops)
          \/ frame'[t].ops = <<>>
          \/ frame[t].task \in Tasks /\ frame'[t].ops = Bodies[frame[t].task]
      BY <1>2, OpsStep
    <3> QED BY <2>1, <2>3, <3>1, NoOpTail, NoOpEmpty DEF NoTaskBlocks
  <2> QED BY <2>2, <2>3
<1>3. NoBlockers /\ UNCHANGED vars => NoBlockers'
  BY DEF vars, NoBlockers
<1> QED BY <1>1, <1>2, <1>3 DEF Next, Rest

\* When every worker sleeps behind a token that has changed, the notification
\* that goes with the change is still to come.
StaleInv ==
    (\A w \in Workers : pc[w] = "parked" /\ w \notin fresh)
    => \E t \in Threads : pc[t] = "submitNotify"

\* A step that does not notify, and after which its thread is not one more
\* that sleeps behind an old token.
LEMMA NoNotification ==
  ASSUME IInv, NEW t \in Threads, Step(t), ~SubmitNotify(t), ~WakeAll(t), ~SubmitBump(t)
  PROVE  /\ pc[t] # "submitNotify" /\ fresh \ {t} \subseteq fresh'
         /\ pc'[t] = "parked" => t \in fresh'
<1> USE DEF poolVars, stateVars, queueVars, joinVars, historyVars, countVars, restVars
<1>1. pc \in [Threads -> Labels] /\ frame \in [Threads -> Frames]
  BY Facts
<1>2. CASE Submit(t)
  BY <1>1, <1>2 DEF Submit, SubmitBegin, SubmitAllowed, SubmitRefused, SubmitPush, SubmitCount,
     SubmitNobodyIdle, SubmitSomebodyIdle, SubmitReturn, Move, Goto, AtOp
<1>3. CASE Control(t)
  BY <1>1, <1>3 DEF Control, Pause, Resume, ShutdownWon, ShutdownLost, ShutdownReturn,
     JoinWorker, Goto, AtOp
<1>4. CASE Fetch(t)
  <2>1. CASE TopPaused(t) \/ WorkerStops(t) \/ TopFetch(t) \/ NonePoll(t) \/ NoneIdle(t)
             \/ NoneDrained(t)
    BY <1>1, <2>1 DEF TopPaused, WorkerStops, TopFetch, NonePoll, NoneIdle, NoneDrained,
       StartWait, Move, Goto
  <2>2. CASE PopOwn(t) \/ StealTop(t) \/ InjectTake(t)
    BY <1>1, <2>2 DEF PopOwn, StealTop, InjectTake, Fetched, Goto
  <2>3. CASE PopNothing(t) \/ StealMiss(t) \/ InjectMiss(t)
    BY <1>1, <2>3 DEF PopNothing, StealMiss, InjectMiss, Goto
  <2> QED BY <1>4, <2>1, <2>2, <2>3 DEF Fetch
<1>5. CASE Execute(t)
  BY <1>1, <1>5 DEF Execute, RecheckPaused, RecheckClear, CountActive, StartTask, Get, Throw,
     Move, Goto, AtOp, TaskReturns, TaskThrows, TaskDone, CountException, Retire, Tell
<1>6. CASE Wait(t)
  <2>1. EndWait(t) => pc'[t] # "parked" /\ fresh \ {t} \subseteq fresh'
    BY <1>1 DEF EndWait, Goto
  <2> QED BY <1>1, <1>6, <2>1
     DEF Wait, CheckReady, CheckHalf, CheckActive, CheckFalse, Observe, Park, Move, Goto
<1>7. CASE WaitIdle(t)
  BY <1>1, <1>7 DEF WaitIdle, WaitBegin, WaitTop, WaitActive, WaitExit, WaitHelp, Goto, AtOp
<1> QED BY <1>2, <1>3, <1>4, <1>5, <1>6, <1>7 DEF Step

LEMMA StaleStep ==
  ASSUME IInv, NoWaiters, StaleInv, NEW t \in Threads, Step(t)
  PROVE  StaleInv'
<1>1. pc \in [Threads -> Labels] /\ Others(t) /\ 0 \in Workers /\ Workers \subseteq Threads
  BY Facts, StepOthers, Sizes DEF Threads
<1> SUFFICES ASSUME \A w \in Workers : pc'[w] = "parked" /\ w \notin fresh'
             PROVE  \E u \in Threads : pc'[u] = "submitNotify"
  BY DEF StaleInv
<1>2. CASE SubmitBump(t)
  BY <1>1, <1>2 DEF SubmitBump, Goto
<1>3. CASE WakeAll(t)
  BY <1>1, <1>3 DEF WakeAll
<1>4. CASE SubmitNotify(t)
  <2>1. ASSUME NEW u \in Threads, pc[u] = "parked" PROVE u \in Workers
    <3>1. CASE u \in Clients
      <4>1. frame[u].draining
        BY <2>1, <3>1, Facts DEF ControlOK, InWaitIdle, Sleeping
      <4> QED BY <3>1, <4>1 DEF NoWaiters
    <3> QED BY <3>1 DEF Threads
  <2>2. t \notin Workers /\ fresh' = fresh
    BY <1>1, <1>4 DEF SubmitNotify, Goto
  <2>3. 0 # t /\ pc[0] = "parked"
    BY <1>1, <2>2 DEF Others
  <2>4. PICK u \in Threads : /\ pc[u] = "parked"
                             /\ pc'[u] = IF u \in fresh THEN "parked" ELSE "spin"
    <3>1. 0 \in {v \in Threads : pc[v] = "parked"}
      BY <1>1, <2>3
    <3> QED BY <1>1, <1>4, <3>1 DEF SubmitNotify
  <2> QED BY <2>1, <2>2, <2>4
<1>5. CASE ~SubmitNotify(t) /\ ~WakeAll(t) /\ ~SubmitBump(t)
  <2>1. /\ pc[t] # "submitNotify" /\ fresh \ {t} \subseteq fresh'
        /\ pc'[t] = "parked" => t \in fresh'
    BY <1>5, NoNotification
  <2>2. t \notin Workers
    BY <2>1
  <2>3. \A w \in Workers : pc[w] = "parked" /\ w \notin fresh
    BY <1>1, <2>1, <2>2 DEF Others
  <2>4. PICK u \in Threads : pc[u] = "submitNotify"
    BY <2>3 DEF StaleInv
  <2> QED BY <1>1, <2>1, <2>4 DEF Others
<1> QED BY <1>2, <1>3, <1>4, <1>5

\* Not all of them sleep while there is work: the reason to wake is there for
\* those that saw the token's present value, and the notification for the others.
LEMMA NotAllAsleep ==
  ASSUME IInv, WakeInv, StaleInv, Queued # {}, runState = "Running", ~paused,
         ThreadsAt({"submitCount", "submitIdle", "submitBump", "submitNotify", "wake"}) = {}
  PROVE  \E w \in Workers : pc[w] # "parked"
<1> SUFFICES ASSUME \A w \in Workers : pc[w] = "parked" PROVE FALSE
  OBVIOUS
<1>1. \A t \in Threads : pc[t] \notin {"submitCount", "submitIdle", "submitBump",
                                       "submitNotify", "wake"}
  BY DEF ThreadsAt
<1>2. pendingTasks # 0
  <2>1. Counting = {}
    BY <1>1 DEF Counting
  <2>2. Cardinality(Queued) > 0 /\ Cardinality(Counting) = 0
    BY <2>1, PendingRange, FS_EmptySet
  <2>3. pendingTasks = Wrap(Cardinality(Queued) - Cardinality(Counting))
    BY DEF IInv, CountInv
  <2>4. ASSUME NEW n \in Nat, n > 0, n < SizeModulus PROVE n % SizeModulus # 0
    BY <2>4, Sizes
  <2>5. pendingTasks = Cardinality(Queued) % SizeModulus
    BY <2>2, <2>3, PendingRange DEF Wrap
  <2> QED BY <2>2, <2>4, <2>5, PendingRange
<1>3. PICK w \in Workers : w \in fresh
  BY <1>1 DEF StaleInv
<1>4. Missing(w)
  BY <1>2, <1>3 DEF Missing
<1> QED BY <1>1, <1>4 DEF WakeInv

\* A task is not left to a pool asleep, as long as nobody calls waitIdle() and no
\* task blocks in a get(): each submission that finds somebody idle wakes one
\* worker, and no worker that sleeps can have missed it.
THEOREM WorkerAwake ==
  ASSUME NobodyWaits, NoTaskBlocks
  PROVE  Spec => []SomeWorkerAwake
<1>1. Init => WakeInv /\ StaleInv
  <2>1. Init => WakeInv
    BY DEF Init, WakeInv, Missing
  <2>2. ASSUME Init PROVE StaleInv
    <3>1. 0 \in Workers /\ 0 \in Threads
      BY Sizes DEF Threads
    <3>2. pc[0] = "top"
      BY <2>2, <3>1 DEF Init
    <3> QED BY <3>1, <3>2 DEF StaleInv
  <2> QED BY <2>1, <2>2
<1>2. IInv /\ NoWaiters /\ StaleInv /\ [Next]_vars => StaleInv'
  <2>1. StaleInv /\ UNCHANGED vars => StaleInv'
    BY DEF vars, StaleInv
  <2> QED BY <2>1, StaleStep DEF Next, Rest
<1>3. IInv /\ WakeInv /\ StaleInv /\ NoBlockers => SomeWorkerAwake
  <2> SUFFICES ASSUME IInv, WakeInv, StaleInv, NoBlockers,
                      Queued # {}, runState = "Running", ~paused,
                      ThreadsAt({"submitCount", "submitIdle", "submitBump", "submitNotify",
                                 "wake"}) = {}
               PROVE  \E w \in Workers : pc[w] # "parked" /\ ~Blocked(w)
    BY DEF SomeWorkerAwake
  <2>1. PICK w \in Workers : pc[w] # "parked"
    BY NotAllAsleep
  <2>2. ASSUME AtOp(w, "get") PROVE FALSE
    <3>1. w \in Threads /\ pc[w] = "run" /\ Ops(w) # <<>> /\ Head(Ops(w))[1] = "get"
      BY <2>2 DEF AtOp, Threads
    <3>2. frame[w].task # NoTask
      BY <3>1, Facts DEF ControlOK
    <3>3. Ops(w) = frame[w].ops /\ frame[w].ops \in Seq(TaskOperations)
      BY <3>1, <3>2, Facts, Fields DEF Ops, InTask
    <3>4. NoOp(frame[w].ops, "get")
      BY <3>1 DEF NoBlockers
    <3> QED BY <3>1, <3>3, <3>4, NoOpTail
  <2> QED BY <2>1, <2>2 DEF Blocked
<1>4. /\ Init => NoWaiters /\ NoBlockers
      /\ IInv /\ NoWaiters /\ [Next]_vars => NoWaiters'
      /\ IInv /\ NoBlockers /\ [Next]_vars => NoBlockers'
  BY NoWaitersInv, NoBlockersInv
<1> QED BY <1>1, <1>2, <1>3, <1>4, WakeStep, Invariance, PTL DEF Spec

=============================================================================
