--------------------------- MODULE TaskPool_proof ---------------------------
(***************************************************************************)
(* ThreadPool implements TaskPool: the proof, for any number of workers,   *)
(* clients, shards and tasks.  Whatever programs do, only the steps of     *)
(* Exposed threads may break a promise of TaskPool, and these only in the  *)
(* situations that Sound excludes.  The programs of two kinds never get    *)
(* into one: those that do not call waitIdle(), and those of a single      *)
(* user.                                                                   *)
(***************************************************************************)
EXTENDS ThreadPool_proof

\* Where a thread in submit() has pushed its task and not yet returned.
Returning == {"submitCount", "submitIdle", "submitBump", "submitNotify"}

\* What may have become of a task that has been pushed.
Fates == {"queued", "running", "done", "threw"}

\* Past its last check of paused_ a thread stays there until it starts its task.
PassedInv == \A t \in passed : pc[t] \in {"act", "pend"}

\* No worker gets past that check while pause() holds the pool back.
HeldInv == Held => \A w \in Workers : pc[w] \in {"act", "pend"} => w \in passed

\* A task that runs is run by a thread.
RunningInv ==
    \A k \in Tasks : status[k] = "running"
                     => \E t \in Threads : frame[t].task = k /\ pc[t] \in Busy

\* Before shutdown() nobody is in it, and no worker has returned.
StoppedInv ==
    runState = "Running" => /\ selfDetach = {}
                            /\ \A t \in Threads : /\ frame[t].call[1] # "shutdown"
                                                  /\ pc[t] # "done"

\* A submission returns once, after its push.
ReturnedOnce ==
    /\ \A t \in Threads : pc[t] \in Returning => /\ status[frame[t].call[2]] \in Fates
                                                 /\ frame[t].call[2] \notin accepted
    /\ \A t, u \in Threads : (/\ pc[t] \in Returning /\ pc[u] \in Returning
                              /\ frame[t].call[2] = frame[u].call[2]) => t = u
    /\ \A k \in accepted : status[k] \in Fates

PromiseInv ==
    PassedInv /\ HeldInv /\ RunningInv /\ StoppedInv /\ ReturnedOnce /\ JoinInv

----------------------------------------------------------------------------
\* Steps that no user of the pool sees.

\* Nothing changes but t's place and what it has left to do, its place within
\* bounds.
Unseen(t) ==
    /\ UNCHANGED <<runState, paused, joinVars, status, accepted, passed, exceptionCounter>>
    /\ frame'[t].task = frame[t].task
    /\ frame'[t].draining = frame[t].draining /\ frame'[t].seen = frame[t].seen
    /\ frame'[t].call[1] = "shutdown" <=> frame[t].call[1] = "shutdown"
    /\ pc[t] # "submitPush" /\ pc'[t] # "submitPush"
    /\ pc[t] \in {"act", "pend"} => pc'[t] \in {"act", "pend"}
    /\ pc'[t] \in {"act", "pend"} => pc[t] \in {"act", "pend"} \/ ~Held
    /\ frame[t].task # NoTask /\ pc[t] \in Busy => pc'[t] \in Busy
    /\ pc'[t] \in Returning => pc[t] \in Returning /\ frame'[t].call = frame[t].call
    /\ pc'[t] = "done" => runState # "Running"

\* What Advance changes.
LEMMA AdvancedFields ==
  ASSUME IInv, NEW t \in Threads, pc[t] = "run", Ops(t) # <<>>
  PROVE  /\ Advanced(t) \in Frames /\ Advanced(t).task = frame[t].task
         /\ Advanced(t).draining = frame[t].draining /\ Advanced(t).seen = frame[t].seen
         /\ Advanced(t).call = NoCall /\ frame[t].call = NoCall
<1>1. frame[t] \in Frames /\ Advanced(t) \in Frames /\ frame[t].call = NoCall
  BY Facts, Advancing DEF ControlOK, InSubmit
<1>2. /\ Tail(frame[t].ops) \in Seq(TaskOperations) \/ frame[t].ops = <<>>
      /\ Tail(frame[t].todo) \in Seq(ClientOperations) \/ frame[t].todo = <<>>
  BY <1>1, Fields, HeadTailProperties
<1>3. CASE InTask(t)
  <2>1. frame[t].ops # <<>> /\ Advanced(t) = [frame[t] EXCEPT !.ops = Tail(frame[t].ops)]
    BY <1>3 DEF Ops, Advanced
  <2> QED BY <1>1, <1>2, <2>1 DEF Frames
<1>4. CASE ~InTask(t)
  <2>1. frame[t].todo # <<>> /\ Advanced(t) = [frame[t] EXCEPT !.todo = Tail(frame[t].todo)]
    BY <1>4 DEF Ops, Advanced
  <2> QED BY <1>1, <1>2, <2>1 DEF Frames
<1> QED BY <1>3, <1>4

LEMMA UnseenSubmit ==
  ASSUME IInv, NEW t \in Threads,
         SubmitBegin(t) \/ SubmitCount(t) \/ SubmitSomebodyIdle(t) \/ SubmitBump(t)
  PROVE  Unseen(t)
<1> USE DEF poolVars, stateVars, joinVars, historyVars, restVars, countVars, Unseen, Busy,
        InSubmit, Returning
<1>1. pc \in [Threads -> Labels] /\ frame \in [Threads -> Frames]
  BY Facts
<1>2. CASE SubmitBegin(t)
  <2>1. pc[t] = "run" /\ Ops(t) # <<>> /\ Head(Ops(t))[1] = "submit" /\ pc'[t] = "submitCheck"
    BY <1>1, <1>2 DEF SubmitBegin, AtOp, Goto
  <2>2. frame'[t] = [Advanced(t) EXCEPT !.call = Head(Ops(t))]
    BY <1>1, <1>2 DEF SubmitBegin
  <2>3. /\ frame'[t].task = frame[t].task /\ frame'[t].draining = frame[t].draining
        /\ frame'[t].seen = frame[t].seen /\ frame'[t].call[1] = "submit"
        /\ frame[t].call[1] # "shutdown"
    BY <2>1, <2>2, AdvancedFields DEF Frames, NoCall
  <2> QED BY <1>2, <2>1, <2>3 DEF SubmitBegin
<1>3. CASE SubmitCount(t)
  BY <1>1, <1>3 DEF SubmitCount, Goto
<1>4. CASE SubmitSomebodyIdle(t)
  BY <1>1, <1>4 DEF SubmitSomebodyIdle, Move, Goto
<1>5. CASE SubmitBump(t)
  BY <1>1, <1>5 DEF SubmitBump, Goto
<1> QED BY <1>2, <1>3, <1>4, <1>5

LEMMA UnseenControl ==
  ASSUME IInv, NEW t \in Threads, WakeAll(t) \/ ShutdownLost(t)
  PROVE  Unseen(t)
<1> USE DEF poolVars, stateVars, joinVars, historyVars, countVars, Unseen, Busy, InSubmit,
        Returning
<1>1. pc \in [Threads -> Labels] /\ frame \in [Threads -> Frames] /\ ControlOK(t)
  BY Facts
<1>2. CASE WakeAll(t)
  <2>1. /\ pc[t] = "wake" /\ frame'[t].task = frame[t].task
        /\ frame'[t].draining = frame[t].draining /\ frame'[t].seen = frame[t].seen
        /\ frame'[t].call = IF frame[t].call[1] = "resume" THEN NoCall ELSE frame[t].call
    BY <1>1, <1>2 DEF WakeAll, Frames
  <2>2. pc'[t] \in IF frame[t].call[1] = "resume" THEN {"run"}
                   ELSE IF frame[t].call[1] = "shutdown" THEN {"join"}
                   ELSE {"top", "waitTop"}
    BY <1>1, <1>2 DEF WakeAll
  <2>3. frame[t].task # NoTask => frame[t].call[1] \in {"resume", "shutdown"}
    BY <1>1, <2>1 DEF ControlOK
  <2>4. UNCHANGED <<runState, paused, joinVars, status, accepted, passed, exceptionCounter>>
    BY <1>2 DEF WakeAll
  <2> QED BY <2>1, <2>2, <2>3, <2>4 DEF NoCall
<1>3. CASE ShutdownLost(t)
  <2>1. pc[t] = "run" /\ Ops(t) # <<>> /\ pc'[t] = "run" /\ frame'[t] = Advanced(t)
    BY <1>1, <1>3 DEF ShutdownLost, Advance, AtOp
  <2> QED BY <1>3, <2>1, AdvancedFields DEF ShutdownLost
<1> QED BY <1>2, <1>3

LEMMA UnseenFetch ==
  ASSUME IInv, NEW t \in Threads,
         \/ TopPaused(t) \/ WorkerStops(t) \/ TopFetch(t) \/ PopNothing(t) \/ StealMiss(t)
         \/ InjectMiss(t) \/ NonePoll(t) \/ NoneIdle(t) \/ NoneDrained(t)
  PROVE  Unseen(t)
<1> USE DEF poolVars, stateVars, joinVars, historyVars, restVars, countVars, Unseen, Busy,
        InSubmit, Returning
<1>1. pc \in [Threads -> Labels] /\ frame \in [Threads -> Frames]
  BY Facts
<1>2. CASE TopPaused(t) \/ NoneIdle(t)
  <2>1. /\ frame'[t].task = frame[t].task /\ frame'[t].draining = frame[t].draining
        /\ frame'[t].seen = frame[t].seen /\ frame'[t].call = frame[t].call
    BY <1>1, <1>2 DEF TopPaused, NoneIdle, StartWait, Frames
  <2> QED BY <1>1, <1>2, <2>1 DEF TopPaused, NoneIdle, StartWait, Goto
<1>3. CASE WorkerStops(t) \/ TopFetch(t) \/ NonePoll(t)
  BY <1>1, <1>3 DEF WorkerStops, TopFetch, NonePoll, Stopped, Move, Goto
<1>4. CASE PopNothing(t)
  <2>1. /\ frame'[t].task = frame[t].task /\ frame'[t].draining = frame[t].draining
        /\ frame'[t].seen = frame[t].seen /\ frame'[t].call = frame[t].call
    BY <1>1, <1>4 DEF PopNothing, Frames
  <2> QED BY <1>1, <1>4, <2>1 DEF PopNothing, Goto
<1>5. CASE StealMiss(t)
  <2>1. /\ frame'[t].task = frame[t].task /\ frame'[t].draining = frame[t].draining
        /\ frame'[t].seen = frame[t].seen /\ frame'[t].call = frame[t].call
    <3>1. CASE frame[t].probe + 1 < Victims(t)
      BY <1>1, <1>5, <3>1 DEF StealMiss, Frames
    <3>2. CASE ~(frame[t].probe + 1 < Victims(t))
      BY <1>1, <1>5, <3>2 DEF StealMiss, Frames
    <3> QED BY <3>1, <3>2
  <2>2. pc[t] = "steal" /\ pc'[t] \in {"steal", "inject"}
    BY <1>1, <1>5 DEF StealMiss, Goto
  <2> QED BY <1>5, <2>1, <2>2 DEF StealMiss
<1>6. CASE InjectMiss(t) \/ NoneDrained(t)
  <2>1. /\ frame'[t].task = frame[t].task /\ frame'[t].draining = frame[t].draining
        /\ frame'[t].seen = frame[t].seen /\ frame'[t].call = frame[t].call
    BY <1>1, <1>6 DEF InjectMiss, NoneDrained, Frames
  <2> QED BY <1>1, <1>6, <2>1 DEF InjectMiss, NoneDrained, Goto
<1> QED BY <1>2, <1>3, <1>4, <1>5, <1>6

LEMMA UnseenExecute ==
  ASSUME IInv, NEW t \in Threads,
         RecheckClear(t) \/ CountActive(t) \/ Get(t) \/ Throw(t) \/ Tell(t)
  PROVE  Unseen(t)
<1> USE DEF poolVars, stateVars, joinVars, historyVars, restVars, countVars, Unseen, Busy,
        InSubmit, Returning
<1>1. pc \in [Threads -> Labels] /\ frame \in [Threads -> Frames] /\ ControlOK(t)
  BY Facts
<1>2. CASE RecheckClear(t)
  BY <1>1, <1>2 DEF RecheckClear, Move, Goto
<1>3. CASE CountActive(t)
  <2>1. /\ frame'[t].task = frame[t].task /\ frame'[t].draining = frame[t].draining
        /\ frame'[t].seen = frame[t].seen /\ frame'[t].call = frame[t].call
    BY <1>1, <1>3 DEF CountActive, Frames
  <2> QED BY <1>1, <1>3, <2>1 DEF CountActive, Goto
<1>4. CASE Get(t) \/ Throw(t)
  <2>1. /\ pc[t] = "run" /\ Ops(t) # <<>> /\ pc'[t] \in {"run", "threw"}
        /\ frame'[t] = Advanced(t)
    BY <1>1, <1>4 DEF Get, Throw, Advance, AtOp, Goto
  <2> QED BY <1>4, <2>1, AdvancedFields DEF Get, Throw
<1>5. CASE Tell(t)
  BY <1>1, <1>5 DEF Tell, Goto, ControlOK, InWaitIdle
<1> QED BY <1>2, <1>3, <1>4, <1>5

LEMMA UnseenWait ==
  ASSUME IInv, NEW t \in Threads, Wait(t) \/ WaitTop(t) \/ WaitActive(t)
  PROVE  Unseen(t)
<1> USE DEF poolVars, stateVars, joinVars, historyVars, countVars, Unseen, Busy, InSubmit,
        Returning
<1>1. pc \in [Threads -> Labels] /\ frame \in [Threads -> Frames]
  BY Facts
<1>2. ASSUME EndWait(t), pc[t] \in {"spin", "look", "spinActive", "lookActive"} PROVE Unseen(t)
  <2>1. /\ frame'[t].task = frame[t].task /\ frame'[t].draining = frame[t].draining
        /\ frame'[t].seen = frame[t].seen /\ frame'[t].call = frame[t].call
    BY <1>1, <1>2 DEF EndWait, Frames
  <2> QED BY <1>1, <1>2, <2>1 DEF EndWait, Goto
<1>3. CASE Wait(t)
  <2>1. CASE CheckReady(t)
    BY <1>2, <2>1 DEF CheckReady
  <2>2. CASE CheckHalf(t) \/ CheckFalse(t) \/ Park(t)
    BY <1>1, <2>2 DEF CheckHalf, CheckFalse, Park, Move, Goto
  <2>3. CASE CheckActive(t)
    <3>1. CASE activeTasks = 0
      BY <1>2, <2>3, <3>1 DEF CheckActive
    <3>2. CASE activeTasks # 0
      BY <1>1, <2>3, <3>2 DEF CheckActive, Move, Goto
    <3> QED BY <3>1, <3>2
  <2>4. CASE Observe(t)
    BY <1>1, <2>4 DEF Observe, Goto
  <2> QED BY <1>3, <2>1, <2>2, <2>3, <2>4 DEF Wait
<1>4. CASE WaitTop(t) \/ WaitActive(t)
  <2>1. /\ frame'[t].task = frame[t].task /\ frame'[t].draining = frame[t].draining
        /\ frame'[t].seen = frame[t].seen /\ frame'[t].call = frame[t].call
    BY <1>1, <1>4 DEF WaitTop, WaitActive, WaitHelp, Frames
  <2>2. /\ pc[t] \in {"waitTop", "waitActive"}
        /\ pc'[t] \in {"waitActive", "waitExit", "steal"}
    BY <1>1, <1>4 DEF WaitTop, WaitActive, WaitHelp, Goto
  <2> QED BY <1>4, <2>1, <2>2 DEF WaitTop, WaitActive
<1> QED BY <1>3, <1>4

----------------------------------------------------------------------------
\* The state that the users see, and what keeps it as it is.

Fate == [k \in Tasks |-> IF k \in Submitting THEN "submitting" ELSE status[k]]
Committed == {frame[t].task : t \in passed}
Seen == [c \in Clients |-> frame[c].seen]
Stopping == {frame[t].task : t \in Stoppers}

LEMMA SameSubmitting ==
  ASSUME NEW t \in Threads, Others(t), pc[t] # "submitPush", pc'[t] # "submitPush"
  PROVE  Submitting' = Submitting
<1>1. ThreadsAt({"submitPush"})' = ThreadsAt({"submitPush"})
  BY DEF ThreadsAt, Others
<1>2. \A u \in ThreadsAt({"submitPush"}) : frame'[u] = frame[u]
  BY DEF ThreadsAt, Others
<1> QED BY <1>1, <1>2 DEF Submitting

LEMMA SameCommitted ==
  ASSUME Types, NEW t \in Threads, Others(t), passed' = passed,
         t \in passed => frame'[t].task = frame[t].task
  PROVE  Committed' = Committed
<1>1. \A u \in passed : frame'[u].task = frame[u].task
  BY DEF Types, Others
<1> QED BY <1>1 DEF Committed

LEMMA SameWaiting ==
  ASSUME NEW t \in Threads, Others(t), frame'[t].draining = frame[t].draining,
         frame'[t].seen = frame[t].seen
  PROVE  Waiting' = Waiting /\ Seen' = Seen
<1>1. \A c \in Clients : frame'[c].draining = frame[c].draining /\ frame'[c].seen = frame[c].seen
  BY DEF Others, Threads
<1> QED BY <1>1 DEF Waiting, Seen

LEMMA SameStopping ==
  ASSUME Types, NEW t \in Threads, Others(t), selfDetach' \ {t} = selfDetach \ {t},
         t \in Stoppers' <=> t \in Stoppers,
         t \in Stoppers => frame'[t].task = frame[t].task
  PROVE  Stopping' = Stopping
<1>1. ASSUME NEW u \in Threads \ {t} PROVE u \in Stoppers' <=> u \in Stoppers
  BY <1>1 DEF Stoppers, Others, InTask
<1>2. Stoppers \subseteq Threads /\ Stoppers' \subseteq Threads \cup selfDetach'
  BY DEF Stoppers, Types, Threads
<1>3. Stoppers' \subseteq Threads
  BY <1>2 DEF Types, Threads
<1>4. Stoppers' = Stoppers
  BY <1>1, <1>2, <1>3
<1>5. \A u \in Stoppers : frame'[u].task = frame[u].task
  BY <1>2 DEF Others
<1> QED BY <1>4, <1>5 DEF Stopping

\* A step of which nothing is seen is a stutter of TaskPool.
LEMMA UnseenRefines ==
  ASSUME IInv, NEW t \in Threads, Others(t), Unseen(t)
  PROVE  UNCHANGED Promise!poolVars
<1>1. Types /\ selfDetach' = selfDetach /\ joining' = joining
  BY DEF IInv, Unseen, joinVars
<1>2. Submitting' = Submitting
  BY SameSubmitting DEF Unseen
<1>3. Committed' = Committed
  BY <1>1, SameCommitted DEF Unseen
<1>4. Waiting' = Waiting /\ Seen' = Seen
  BY SameWaiting DEF Unseen
<1>5. Stopping' = Stopping
  <2>1. t \in Stoppers' <=> t \in Stoppers
    BY <1>1 DEF Unseen, Stoppers, InTask
  <2> QED BY <1>1, <2>1, SameStopping DEF Unseen
<1>6. Fate' = Fate
  BY <1>2 DEF Unseen, Fate
<1> QED BY <1>1, <1>3, <1>4, <1>5, <1>6
   DEF Promise!poolVars, Promise!stateVars, Promise!taskVars, Promise!waitVars, Unseen, Fate,
       Committed, Waiting, Seen, Stopping, Joined

LEMMA UnseenInv ==
  ASSUME IInv, PromiseInv, JoinInv', NEW t \in Threads, Others(t), Unseen(t)
  PROVE  PromiseInv'
<1> USE DEF Unseen
<1>1. passed \subseteq Threads /\ selfDetach' = selfDetach
  BY DEF IInv, Types, joinVars
<1>2. PassedInv'
  BY <1>1 DEF PromiseInv, PassedInv, Others
<1>3. HeldInv'
  BY DEF PromiseInv, HeldInv, Held, Others, Threads
<1>4. RunningInv'
  <2> SUFFICES ASSUME NEW k \in Tasks, status[k] = "running"
               PROVE  \E u \in Threads : frame'[u].task = k /\ pc'[u] \in Busy
    BY DEF RunningInv
  <2>1. PICK u \in Threads : frame[u].task = k /\ pc[u] \in Busy
    BY DEF PromiseInv, RunningInv
  <2>2. k # NoTask
    BY TasksAssumption
  <2>3. frame'[u].task = k /\ pc'[u] \in Busy
    BY <2>1, <2>2 DEF Others, Busy, InSubmit
  <2> QED BY <2>3
<1>5. StoppedInv'
  BY <1>1 DEF PromiseInv, StoppedInv, Others
<1>6. ReturnedOnce'
  <2>1. ASSUME NEW u \in Threads, pc'[u] \in Returning
        PROVE  pc[u] \in Returning /\ frame'[u].call = frame[u].call
    BY <2>1 DEF Others, Returning
  <2> QED BY <2>1 DEF PromiseInv, ReturnedOnce
<1> QED BY <1>2, <1>3, <1>4, <1>5, <1>6 DEF PromiseInv

----------------------------------------------------------------------------
\* Steps that a user may see, one at a time: each keeps the invariant and is a
\* step of TaskPool.

\* What a step of t has to do for PromiseInv to last.
LEMMA PartsKept ==
  ASSUME IInv, PromiseInv, JoinInv', NEW t \in Threads, Others(t),
         passed' \subseteq passed, t \in passed' => pc'[t] \in {"act", "pend"},
         \/ ~Held'
         \/ /\ Held /\ passed \subseteq passed' \cup {t}
            /\ t \in Workers /\ pc'[t] \in {"act", "pend"} => t \in passed',
         \A k \in Tasks : status'[k] = "running" =>
            \/ status[k] = "running" /\ frame[t].task # k
            \/ frame'[t].task = k /\ pc'[t] \in Busy,
         \/ runState' # "Running"
         \/ /\ runState = "Running" /\ selfDetach' = {}
            /\ frame'[t].call[1] # "shutdown" /\ pc'[t] # "done",
         \A k \in Tasks : status[k] \in Fates => status'[k] \in Fates,
         accepted' = accepted,
         pc'[t] \in Returning =>
            \/ pc[t] \in Returning /\ frame'[t].call = frame[t].call
            \/ /\ frame'[t].call[2] \in Tasks /\ status[frame'[t].call[2]] = "unsubmitted"
               /\ status'[frame'[t].call[2]] \in Fates
  PROVE  PromiseInv'
<1>1. passed \subseteq Threads /\ accepted \subseteq Tasks
  BY DEF IInv, Types
<1>2. PassedInv'
  BY <1>1 DEF PromiseInv, PassedInv, Others
<1>3. HeldInv'
  BY DEF PromiseInv, HeldInv, Others, Threads
<1>4. RunningInv'
  <2> SUFFICES ASSUME NEW k \in Tasks, status'[k] = "running"
               PROVE  \E u \in Threads : frame'[u].task = k /\ pc'[u] \in Busy
    BY DEF RunningInv
  <2>1. CASE frame'[t].task = k /\ pc'[t] \in Busy
    BY <2>1
  <2>2. CASE status[k] = "running" /\ frame[t].task # k
    <3>1. PICK u \in Threads : frame[u].task = k /\ pc[u] \in Busy
      BY <2>2 DEF PromiseInv, RunningInv
    <3>2. frame'[u].task = k /\ pc'[u] \in Busy
      BY <2>2, <3>1 DEF Others, Busy, InSubmit
    <3> QED BY <3>2
  <2> QED BY <2>1, <2>2
<1>5. StoppedInv'
  BY DEF PromiseInv, StoppedInv, Others
<1>6. ReturnedOnce'
  <2>1. ASSUME NEW u \in Threads, pc'[u] \in Returning
        PROVE  \/ pc[u] \in Returning /\ frame'[u].call = frame[u].call
               \/ /\ u = t /\ frame'[t].call[2] \in Tasks
                  /\ status[frame'[t].call[2]] = "unsubmitted"
                  /\ status'[frame'[t].call[2]] \in Fates
    BY <2>1 DEF Others, Returning
  <2>2. ASSUME NEW u \in Threads, pc[u] \in Returning
        PROVE  /\ frame[u].call[2] \in Tasks /\ status[frame[u].call[2]] \in Fates
               /\ frame[u].call[2] \notin accepted
    <3>1. \E k \in Tasks : frame[u].call = <<"submit", k>>
      BY <2>2, Facts DEF ControlOK, Returning, InSubmit
    <3>2. frame[u].call[2] \in Tasks
      BY <3>1
    <3> QED BY <2>2, <3>2 DEF PromiseInv, ReturnedOnce
  <2>3. ASSUME NEW u \in Threads, pc'[u] \in Returning
        PROVE  status'[frame'[u].call[2]] \in Fates /\ frame'[u].call[2] \notin accepted'
    <3>1. CASE pc[u] \in Returning /\ frame'[u].call = frame[u].call
      BY <2>2, <3>1
    <3>2. CASE /\ u = t /\ status[frame'[t].call[2]] = "unsubmitted"
               /\ status'[frame'[t].call[2]] \in Fates
      BY <3>2 DEF PromiseInv, ReturnedOnce, Fates
    <3> QED BY <2>1, <2>3, <3>1, <3>2
  <2>4. ASSUME NEW u \in Threads, NEW v \in Threads, pc'[u] \in Returning,
               pc'[v] \in Returning, frame'[u].call[2] = frame'[v].call[2]
        PROVE  u = v
    <3>1. CASE pc[u] \in Returning /\ frame'[u].call = frame[u].call
      <4>1. CASE pc[v] \in Returning /\ frame'[v].call = frame[v].call
        BY <2>4, <3>1, <4>1 DEF PromiseInv, ReturnedOnce
      <4>2. CASE v = t /\ status[frame'[t].call[2]] = "unsubmitted"
        BY <2>2, <2>4, <3>1, <4>2 DEF Fates
      <4> QED BY <2>1, <2>4, <4>1, <4>2
    <3>2. CASE u = t /\ status[frame'[t].call[2]] = "unsubmitted"
      <4>1. CASE pc[v] \in Returning /\ frame'[v].call = frame[v].call
        BY <2>2, <2>4, <3>2, <4>1 DEF Fates
      <4>2. CASE v = t
        BY <3>2, <4>2
      <4> QED BY <2>1, <2>4, <4>1, <4>2
    <3> QED BY <2>1, <2>4, <3>1, <3>2
  <2>5. \A k \in accepted' : status'[k] \in Fates
    BY <1>1 DEF PromiseInv, ReturnedOnce
  <2> QED BY <2>3, <2>4, <2>5 DEF ReturnedOnce
<1> QED BY <1>2, <1>3, <1>4, <1>5, <1>6 DEF PromiseInv

\* A task whose submission is under way has not been submitted, and no other
\* thread submits it.
LEMMA Submitted ==
  ASSUME IInv, NEW t \in Threads, pc[t] \in {"submitCheck", "submitPush"}
  PROVE  /\ frame[t].call[2] \in Tasks /\ frame[t].call = <<"submit", frame[t].call[2]>>
         /\ status[frame[t].call[2]] = "unsubmitted"
         /\ \A u \in Threads \ {t} : pc[u] \in {"submitCheck", "submitPush"}
                                     => frame[u].call[2] # frame[t].call[2]
<1>1. ASSUME NEW u \in Threads, pc[u] \in {"submitCheck", "submitPush"}
      PROVE  /\ frame[u].call[2] \in Tasks /\ frame[u].call = <<"submit", frame[u].call[2]>>
             /\ <<"call", u>> \in Owners /\ frame[u].call[2] \in Owed[<<"call", u>>]
  <2>1. PICK k \in Tasks : frame[u].call = <<"submit", k>>
    BY <1>1, Facts DEF ControlOK, InSubmit
  <2>2. <<"call", u>> \in Owners
    BY DEF Owners
  <2>3. Owed[<<"call", u>>] = {j \in Tasks : /\ pc[u] \in {"submitCheck", "submitPush"}
                                             /\ frame[u].call = <<"submit", j>>}
    BY <2>2 DEF Owed
  <2> QED BY <1>1, <2>1, <2>2, <2>3
<1>2. status[frame[t].call[2]] = "unsubmitted"
  <2>1. <<"call", t>> \in Owners /\ frame[t].call[2] \in Owed[<<"call", t>>]
    BY <1>1
  <2>2. \A o \in Owners : \A k \in Owed[o] : status[k] = "unsubmitted"
    BY DEF IInv, OwedInv
  <2> HIDE DEF Owners, Owed
  <2> QED BY <2>1, <2>2
<1>3. ASSUME NEW u \in Threads \ {t}, pc[u] \in {"submitCheck", "submitPush"},
             frame[u].call[2] = frame[t].call[2]
      PROVE  FALSE
  <2>1. <<"call", u>> # <<"call", t>>
    OBVIOUS
  <2> QED BY <1>1, <1>3, <2>1 DEF IInv, OwedInv
<1> QED BY <1>1, <1>2, <1>3

\* A task that is being submitted has not been.
LEMMA SubmittingFate ==
  ASSUME IInv
  PROVE  /\ \A k \in Submitting : k \in Tasks /\ status[k] = "unsubmitted"
         /\ \A k \in Tasks : status[k] # "unsubmitted" => Fate[k] = status[k]
<1>1. \A k \in Submitting : k \in Tasks /\ status[k] = "unsubmitted"
  BY Submitted DEF Submitting, ThreadsAt
<1> QED BY <1>1 DEF Fate

\* What a visible step leaves as it is, when it touches neither the tasks past the
\* check for pause(), nor waitIdle(), nor shutdown().
LEMMA Bystanders ==
  ASSUME IInv, PromiseInv, NEW t \in Threads, Others(t),
         UNCHANGED <<joining, selfDetach, passed>>,
         frame'[t].draining = frame[t].draining, frame'[t].seen = frame[t].seen,
         \/ frame'[t].task = frame[t].task
         \/ pc[t] \notin {"act", "pend", "done"} \cup Busy,
         frame'[t].call[1] = "shutdown" <=> frame[t].call[1] = "shutdown"
  PROVE  Committed' = Committed /\ Waiting' = Waiting /\ Seen' = Seen /\ Stopping' = Stopping
<1>1. Types /\ ControlOK(t)
  BY Facts DEF IInv
<1>2. Committed' = Committed
  BY <1>1, SameCommitted DEF PromiseInv, PassedInv
<1>3. Waiting' = Waiting /\ Seen' = Seen
  BY SameWaiting
<1>4. Stopping' = Stopping
  <2>1. CASE frame'[t].task = frame[t].task
    <3>1. t \in Stoppers' <=> t \in Stoppers
      BY <2>1 DEF Stoppers, InTask
    <3> QED BY <1>1, <2>1, <3>1, SameStopping
  <2>2. CASE pc[t] \notin {"act", "pend", "done"} \cup Busy
    <3>1. t \notin selfDetach
      BY <2>2 DEF PromiseInv, JoinInv, Detached
    <3>2. frame[t].call[1] # "shutdown"
      BY <1>1, <2>2 DEF ControlOK, Busy, NoCall
    <3>3. t \notin Stoppers /\ t \notin Stoppers'
      BY <3>1, <3>2 DEF Stoppers
    <3> QED BY <1>1, <3>3, SameStopping
  <2> QED BY <2>1, <2>2
<1> QED BY <1>2, <1>3, <1>4

LEMMA AllowedStep ==
  ASSUME IInv, PromiseInv, JoinInv', NEW t \in Threads, Others(t), SubmitAllowed(t)
  PROVE  PromiseInv' /\ \E k \in Tasks : Promise!Submit(k)
<1> USE DEF poolVars, stateVars, joinVars, queueVars, countVars, historyVars
<1>1. pc \in [Threads -> Labels] /\ frame \in [Threads -> Frames] /\ passed \subseteq Threads
  BY Facts DEF IInv, Types
<1>2. /\ pc[t] = "submitCheck" /\ pc'[t] = "submitPush" /\ frame' = frame
      /\ runState = "Running" /\ UNCHANGED <<poolVars, historyVars>>
  BY <1>1 DEF SubmitAllowed, Move, Goto
<1>3. PromiseInv'
  <2>1. t \notin passed /\ ~(pc'[t] \in Returning) /\ pc'[t] \in Busy /\ pc[t] \in Busy
    BY <1>2 DEF PromiseInv, PassedInv, Returning, Busy, InSubmit
  <2>2. StoppedInv
    BY DEF PromiseInv
  <2> QED BY <1>2, <2>1, <2>2, PartsKept DEF Held, StoppedInv
<1>4. Committed' = Committed /\ Waiting' = Waiting /\ Seen' = Seen /\ Stopping' = Stopping
  BY <1>2, Bystanders
<1> DEFINE task == frame[t].call[2]
<1>5. task \in Tasks /\ status[task] = "unsubmitted" /\ task \notin Submitting
  <2>1. task \in Tasks /\ status[task] = "unsubmitted"
    BY <1>2, Submitted
  <2>2. ASSUME NEW u \in Threads, pc[u] = "submitPush", frame[u].call[2] = task PROVE FALSE
    BY <1>2, <2>2, Submitted
  <2> QED BY <2>1, <2>2 DEF Submitting, ThreadsAt
<1>6. Submitting' = Submitting \cup {task}
  <2>1. ThreadsAt({"submitPush"})' = ThreadsAt({"submitPush"}) \cup {t}
    BY <1>2 DEF ThreadsAt, Others
  <2> QED BY <1>2, <2>1 DEF Submitting
<1>7. Fate' = [Fate EXCEPT ![task] = "submitting"] /\ Fate[task] = "unsubmitted"
  BY <1>2, <1>5, <1>6 DEF Fate
<1>8. PICK k \in Tasks : k = task
  BY <1>5
<1>9. Promise!Submit(k)
  BY <1>2, <1>3, <1>4, <1>5, <1>7, <1>8
   DEF Promise!Submit, Promise!Become, Promise!stateVars, Promise!waitVars, Fate, Committed,
       Waiting, Seen, Stopping, Joined
<1> QED BY <1>3, <1>9

LEMMA RefusedStep ==
  ASSUME IInv, PromiseInv, JoinInv', NEW t \in Threads, Others(t), SubmitRefused(t)
  PROVE  PromiseInv' /\ \E k \in Tasks : Promise!Refuse(k)
<1> USE DEF poolVars, stateVars, joinVars, queueVars, countVars, historyVars
<1>1. /\ pc \in [Threads -> Labels] /\ frame \in [Threads -> Frames] /\ passed \subseteq Threads
      /\ status \in [Tasks -> {"unsubmitted", "refused", "queued", "running", "done", "threw"}]
  BY Facts DEF IInv, Types
<1> DEFINE task == frame[t].call[2]
<1>2. /\ pc[t] = "submitCheck" /\ pc'[t] \in {"threw", "run"} /\ runState # "Running"
      /\ status' = [status EXCEPT ![task] = "refused"] /\ UNCHANGED <<poolVars, accepted, passed>>
  BY <1>1 DEF SubmitRefused, Goto
<1>3. /\ frame'[t].task = frame[t].task /\ frame'[t].draining = frame[t].draining
      /\ frame'[t].seen = frame[t].seen /\ frame'[t].call = NoCall
  BY <1>1 DEF SubmitRefused, Frames
<1>4. task \in Tasks /\ status[task] = "unsubmitted" /\ task \notin Submitting
      /\ frame[t].call[1] = "submit"
  <2>1. task \in Tasks /\ status[task] = "unsubmitted" /\ frame[t].call = <<"submit", task>>
    BY <1>2, Submitted
  <2>2. ASSUME NEW u \in Threads, pc[u] = "submitPush", frame[u].call[2] = task PROVE FALSE
    BY <1>2, <2>2, Submitted
  <2> QED BY <2>1, <2>2 DEF Submitting, ThreadsAt
<1>5. PromiseInv'
  <2>1. t \notin passed /\ ~(pc'[t] \in Returning) /\ pc'[t] \in Busy
    BY <1>2 DEF PromiseInv, PassedInv, Returning, Busy, InSubmit
  <2>2. \A j \in Tasks : /\ status'[j] = "running" => status[j] = "running"
                         /\ status[j] \in Fates => status'[j] \in Fates
    BY <1>1, <1>2, <1>4 DEF Fates
  <2>3. ~Held'
    BY <1>2 DEF Held
  <2> QED BY <1>2, <1>3, <2>1, <2>2, <2>3, PartsKept
<1>6. Committed' = Committed /\ Waiting' = Waiting /\ Seen' = Seen /\ Stopping' = Stopping
  BY <1>2, <1>3, <1>4, Bystanders DEF NoCall
<1>7. Submitting' = Submitting
  BY <1>2, SameSubmitting
<1>8. Fate' = [Fate EXCEPT ![task] = "refused"] /\ Fate[task] = "unsubmitted"
  BY <1>1, <1>2, <1>4, <1>7 DEF Fate
<1>9. PICK k \in Tasks : k = task
  BY <1>4
<1>10. Promise!Refuse(k)
  BY <1>2, <1>4, <1>5, <1>6, <1>8, <1>9
   DEF Promise!Refuse, Promise!Become, Promise!stateVars, Promise!waitVars, Fate, Committed,
       Waiting, Seen, Stopping, Joined
<1> QED BY <1>5, <1>10

LEMMA PushStep ==
  ASSUME IInv, PromiseInv, JoinInv', NEW t \in Threads, Others(t), SubmitPush(t)
  PROVE  PromiseInv' /\ \E k \in Tasks : Promise!Enqueue(k)
<1> USE DEF poolVars, stateVars, joinVars, countVars
<1>1. /\ pc \in [Threads -> Labels] /\ frame \in [Threads -> Frames] /\ passed \subseteq Threads
      /\ status \in [Tasks -> {"unsubmitted", "refused", "queued", "running", "done", "threw"}]
  BY Facts DEF IInv, Types
<1> DEFINE task == frame[t].call[2]
<1>2. /\ pc[t] = "submitPush" /\ pc'[t] = "submitCount" /\ frame' = frame
      /\ status' = [status EXCEPT ![task] = "queued"]
      /\ UNCHANGED <<stateVars, countVars, joinVars, accepted, passed>>
  BY <1>1 DEF SubmitPush, Goto
<1>3. /\ task \in Tasks /\ status[task] = "unsubmitted" /\ frame[t].call = <<"submit", task>>
      /\ \A u \in Threads \ {t} : pc[u] = "submitPush" => frame[u].call[2] # task
  BY <1>2, Submitted
<1>4. PromiseInv'
  <2>1. /\ t \notin passed /\ pc'[t] \in Returning /\ pc'[t] \in Busy /\ pc[t] \in Busy
        /\ pc'[t] # "done" /\ pc'[t] \notin {"act", "pend"}
    BY <1>2 DEF PromiseInv, PassedInv, Returning, Busy, InSubmit
  <2>2. \A j \in Tasks : /\ status'[j] = "running" => status[j] = "running"
                         /\ status[j] \in Fates => status'[j] \in Fates
    BY <1>1, <1>2, <1>3 DEF Fates
  <2>3. runState = "Running" => selfDetach = {} /\ frame[t].call[1] # "shutdown"
    BY DEF PromiseInv, StoppedInv
  <2>4. frame'[t].call[2] \in Tasks /\ status'[task] \in Fates
    BY <1>1, <1>2, <1>3 DEF Fates
  <2> QED BY <1>2, <1>3, <2>1, <2>2, <2>3, <2>4, PartsKept DEF Held
<1>5. Committed' = Committed /\ Waiting' = Waiting /\ Seen' = Seen /\ Stopping' = Stopping
  BY <1>2, Bystanders
<1>6. Submitting' = Submitting \ {task} /\ task \in Submitting
  <2>1. /\ t \in ThreadsAt({"submitPush"})
        /\ ThreadsAt({"submitPush"})' = ThreadsAt({"submitPush"}) \ {t}
    BY <1>2 DEF ThreadsAt, Others
  <2>2. \A u \in ThreadsAt({"submitPush"}) : u # t => frame[u].call[2] # task
    BY <1>3 DEF ThreadsAt
  <2> QED BY <1>2, <2>1, <2>2 DEF Submitting
<1>7. Fate' = [Fate EXCEPT ![task] = "queued"] /\ Fate[task] = "submitting"
  BY <1>1, <1>2, <1>3, <1>6 DEF Fate
<1>8. PICK k \in Tasks : k = task
  BY <1>3
<1>9. Promise!Enqueue(k)
  BY <1>2, <1>3, <1>4, <1>5, <1>7, <1>8
   DEF Promise!Enqueue, Promise!Become, Promise!stateVars, Promise!waitVars, Fate, Committed,
       Waiting, Seen, Stopping, Joined
<1> QED BY <1>4, <1>9

\* submit() returns, with or without a notification.
LEMMA ReturnStep ==
  ASSUME IInv, PromiseInv, JoinInv', NEW t \in Threads, Others(t),
         SubmitNobodyIdle(t) \/ SubmitNotify(t)
  PROVE  PromiseInv' /\ \E k \in Tasks : Promise!Return(k)
<1> USE DEF poolVars, stateVars, joinVars, countVars
<1>1. /\ pc \in [Threads -> Labels] /\ frame \in [Threads -> Frames] /\ passed \subseteq Threads
  BY Facts DEF IInv, Types
<1> DEFINE task == frame[t].call[2]
<1>2. /\ pc[t] \in {"submitIdle", "submitNotify"} /\ pc'[t] = "run"
      /\ accepted' = accepted \cup {task}
      /\ UNCHANGED <<stateVars, countVars, joinVars, status, passed>>
  <2>1. CASE SubmitNobodyIdle(t)
    BY <1>1, <2>1 DEF SubmitNobodyIdle, SubmitReturn, Goto
  <2>2. CASE SubmitNotify(t)
    <3>1. pc'[t] = "run"
      BY <1>1, <2>2 DEF SubmitNotify, Goto
    <3> QED BY <2>2, <3>1 DEF SubmitNotify, SubmitReturn
  <2> QED BY <2>1, <2>2
<1>3. /\ frame'[t].task = frame[t].task /\ frame'[t].draining = frame[t].draining
      /\ frame'[t].seen = frame[t].seen /\ frame'[t].call = NoCall
  BY <1>1 DEF SubmitNobodyIdle, SubmitNotify, SubmitReturn, Frames
<1>4. ASSUME NEW u \in Threads, pc[u] \in Returning
      PROVE  /\ frame[u].call[2] \in Tasks /\ frame[u].call = <<"submit", frame[u].call[2]>>
             /\ status[frame[u].call[2]] \in Fates /\ frame[u].call[2] \notin accepted
             /\ u # t => frame[u].call[2] # task
  <2>1. \E j \in Tasks : frame[u].call = <<"submit", j>>
    BY <1>4, Facts DEF ControlOK, Returning, InSubmit
  <2>2. pc[t] \in Returning
    BY <1>2 DEF Returning
  <2> QED BY <1>4, <2>1, <2>2 DEF PromiseInv, ReturnedOnce
<1>5. /\ task \in Tasks /\ frame[t].call = <<"submit", task>> /\ status[task] \in Fates
      /\ task \notin accepted
  BY <1>2, <1>4 DEF Returning
<1>6. PromiseInv'
  <2>1. /\ t \notin passed /\ pc'[t] \in Busy
    BY <1>2 DEF PromiseInv, PassedInv, Busy
  <2>2. PassedInv' /\ HeldInv'
    BY <1>1, <1>2, <2>1 DEF PromiseInv, PassedInv, HeldInv, Held, Others, Threads
  <2>3. RunningInv'
    <3> SUFFICES ASSUME NEW j \in Tasks, status[j] = "running"
                 PROVE  \E u \in Threads : frame'[u].task = j /\ pc'[u] \in Busy
      BY <1>2 DEF RunningInv
    <3>1. PICK u \in Threads : frame[u].task = j /\ pc[u] \in Busy
      BY DEF PromiseInv, RunningInv
    <3>2. frame'[u].task = j /\ pc'[u] \in Busy
      BY <1>3, <2>1, <3>1 DEF Others, Busy, InSubmit
    <3> QED BY <3>2
  <2>4. StoppedInv'
    BY <1>2, <1>3 DEF PromiseInv, StoppedInv, Others, NoCall
  <2>5. ASSUME NEW u \in Threads, pc'[u] \in Returning
        PROVE  u # t /\ pc[u] \in Returning /\ frame'[u] = frame[u]
    BY <1>2, <2>5 DEF Others, Returning
  <2>6. ReturnedOnce'
    <3>1. \A u \in Threads : pc'[u] \in Returning => /\ status'[frame'[u].call[2]] \in Fates
                                                     /\ frame'[u].call[2] \notin accepted'
      BY <1>2, <1>4, <2>5
    <3>2. \A j \in accepted' : status'[j] \in Fates
      BY <1>2, <1>5 DEF PromiseInv, ReturnedOnce
    <3>3. \A u, v \in Threads : (/\ pc'[u] \in Returning /\ pc'[v] \in Returning
                                 /\ frame'[u].call[2] = frame'[v].call[2]) => u = v
      BY <2>5 DEF PromiseInv, ReturnedOnce
    <3> QED BY <3>1, <3>2, <3>3 DEF ReturnedOnce
  <2> QED BY <2>2, <2>3, <2>4, <2>6 DEF PromiseInv
<1>7. Committed' = Committed /\ Waiting' = Waiting /\ Seen' = Seen /\ Stopping' = Stopping
  BY <1>2, <1>3, <1>5, Bystanders DEF NoCall
<1>8. Fate' = Fate /\ Fate[task] \in Fates
  <2>1. Submitting' = Submitting
    BY <1>2, SameSubmitting
  <2>2. Fate[task] = status[task]
    BY <1>5, SubmittingFate DEF Fates
  <2> QED BY <1>2, <1>5, <2>1, <2>2 DEF Fate
<1>9. PICK k \in Tasks : k = task
  BY <1>5
<1>10. Promise!Return(k)
  BY <1>2, <1>5, <1>6, <1>7, <1>8, <1>9
   DEF Promise!Return, Promise!stateVars, Promise!waitVars, Fate, Committed,
       Waiting, Seen, Stopping, Joined, Fates
<1> QED BY <1>6, <1>10

\* TaskPool counts as FiniteSets does.
LEMMA SameCardinality == \A S : Promise!Cardinality(S) = Cardinality(S)
<1> QED BY DEF Promise!Cardinality, Cardinality

\* A thread that has a task is a worker or a thread in waitIdle(), so that no more
\* tasks are in hand than TaskPool has hands.
LEMMA HandsCount ==
  ASSUME IInv
  PROVE  /\ IsFiniteSet(Workers \cup Waiting)
         /\ Cardinality(Workers \cup Waiting) = WorkerCount + Cardinality(Waiting)
         /\ Cardinality(Waiting) \in Nat
         /\ \A t \in Threads : frame[t].task # NoTask => t \in Workers \cup Waiting
<1>1. IsFiniteSet(Workers) /\ Cardinality(Workers) = WorkerCount
  <2>1. WorkerCount \in Nat \ {0}
    BY Sizes
  <2>2. 0 <= WorkerCount - 1 /\ WorkerCount - 1 \in Int
    BY <2>1
  <2>3. IsFiniteSet(Workers) /\ Cardinality(Workers) = WorkerCount - 1 - 0 + 1
    BY <2>2, FS_Interval DEF Workers
  <2> QED BY <2>1, <2>3
<1>2. IsFiniteSet(Waiting)
  <2>1. Waiting \subseteq Clients
    BY DEF Waiting
  <2> QED BY <2>1, Sizes, FS_Subset
<1>3. Workers \cap Waiting = {}
  BY ClientsAssumption DEF Waiting
<1>4. /\ IsFiniteSet(Workers \cup Waiting)
      /\ Cardinality(Workers \cup Waiting)
         = Cardinality(Workers) + Cardinality(Waiting) - Cardinality(Workers \cap Waiting)
  BY <1>1, <1>2, FS_Union
<1>5. Cardinality(Workers \cap Waiting) = 0 /\ Cardinality(Waiting) \in Nat
  BY <1>2, <1>3, FS_EmptySet, FS_CardinalityType
<1>6. ASSUME NEW t \in Threads, frame[t].task # NoTask PROVE t \in Workers \cup Waiting
  BY <1>6, Facts DEF ControlOK, Threads, Waiting
<1>7. WorkerCount \in Nat
  BY Sizes
<1> QED BY <1>1, <1>4, <1>5, <1>6, <1>7

LEMMA PauseStep ==
  ASSUME IInv, PromiseInv, JoinInv', NEW t \in Threads, Others(t), Pause(t)
  PROVE  PromiseInv' /\ Promise!Pause
<1> USE DEF poolVars, stateVars, joinVars, countVars
<1>1. /\ pc \in [Threads -> Labels] /\ frame \in [Threads -> Frames]
  BY Facts DEF IInv, Types
<1>2. /\ pc[t] = "run" /\ Ops(t) # <<>> /\ frame'[t] = Advanced(t) /\ pc' = pc
      /\ paused' = TRUE /\ passed' = {u \in Threads : pc[u] \in {"act", "pend"}}
      /\ UNCHANGED <<runState, countVars, joinVars, status, accepted>>
  BY <1>1 DEF Pause, Advance, AtOp
<1>3. /\ frame'[t].task = frame[t].task /\ frame'[t].draining = frame[t].draining
      /\ frame'[t].seen = frame[t].seen /\ frame'[t].call = NoCall /\ frame[t].call = NoCall
  BY <1>2, AdvancedFields
<1>4. \A u \in Threads : frame'[u].task = frame[u].task /\ frame'[u].call = frame[u].call
  BY <1>3 DEF Others
<1>5. PromiseInv'
  <2>1. PassedInv' /\ HeldInv'
    BY <1>2 DEF PassedInv, HeldInv, Threads
  <2>2. RunningInv'
    BY <1>2, <1>4 DEF PromiseInv, RunningInv
  <2>3. StoppedInv'
    BY <1>2, <1>4 DEF PromiseInv, StoppedInv
  <2>4. ReturnedOnce'
    BY <1>2, <1>4 DEF PromiseInv, ReturnedOnce
  <2> QED BY <2>1, <2>2, <2>3, <2>4 DEF PromiseInv
<1>6. Waiting' = Waiting /\ Seen' = Seen
  BY <1>3, SameWaiting
<1>7. Stopping' = Stopping
  <2>1. t \in Stoppers' <=> t \in Stoppers
    BY <1>2, <1>4 DEF Stoppers, InTask
  <2> QED BY <1>2, <1>3, <2>1, SameStopping DEF IInv
<1>8. Fate' = Fate
  <2>1. Submitting' = Submitting
    BY <1>2, SameSubmitting
  <2> QED BY <1>2, <2>1 DEF Fate
<1>9. \A k \in Committed' : /\ k \in Tasks /\ Fate[k] = "queued"
                            /\ \E u \in Threads : frame[u].task = k
  <2> SUFFICES ASSUME NEW u \in Threads, pc[u] \in {"act", "pend"}
               PROVE  frame[u].task \in Tasks /\ Fate[frame[u].task] = "queued"
    BY <1>2, <1>4 DEF Committed
  <2>1. frame[u].task \in Tasks
    BY Facts, Fields DEF ControlOK, Hands
  <2>2. status[frame[u].task] = "queued"
    BY <2>1, TasksAssumption DEF IInv, StatusInv, StatusOK, Hands
  <2> QED BY <2>1, <2>2, SubmittingFate
<1>10. Cardinality(Committed') <= WorkerCount + Cardinality(Waiting)
  <2> DEFINE S == Committed'
             T == Workers \cup Waiting
             f == [k \in S |-> CHOOSE u \in Threads : frame[u].task = k]
  <2>1. ASSUME NEW k \in S PROVE f[k] \in T /\ frame[f[k]].task = k
    <3>1. k # NoTask /\ f[k] \in Threads /\ frame[f[k]].task = k
      BY <1>9, <2>1, TasksAssumption
    <3> QED BY <3>1, HandsCount
  <2>2. IsFiniteSet(S)
    <3>1. S \subseteq Tasks
      BY <1>9
    <3> QED BY <3>1, Sizes, FS_Subset
  <2>3. f \in [S -> T] /\ \A x, y \in S : f[x] = f[y] => x = y
    BY <2>1
  <2>4. IsFiniteSet(T) /\ Cardinality(T) = WorkerCount + Cardinality(Waiting)
    BY HandsCount
  <2> HIDE DEF S, T, f
  <2>5. Cardinality(S) <= Cardinality(T)
    BY <2>2, <2>3, <2>4, NotMore
  <2> QED BY <2>4, <2>5 DEF S
<1>11. \E some \in SUBSET Promise!Queued : /\ Promise!Cardinality(some) <= Promise!Hands
                                           /\ Committed' = some
  <2>1. Committed' \in SUBSET Promise!Queued
    BY <1>9 DEF Promise!Queued, Promise!InState, Fate
  <2>2. Promise!Cardinality(Committed') <= Promise!Hands
    BY <1>10, SameCardinality DEF Promise!Hands, Waiting
  <2> QED BY <2>1, <2>2
<1> QED BY <1>2, <1>5, <1>6, <1>7, <1>8, <1>11
   DEF Promise!Pause, Promise!waitVars, Promise!taskVars, Fate, Committed, Waiting, Seen,
       Stopping, Joined

LEMMA ResumeStep ==
  ASSUME IInv, PromiseInv, JoinInv', NEW t \in Threads, Others(t), Resume(t)
  PROVE  PromiseInv' /\ Promise!Resume
<1> USE DEF poolVars, stateVars, joinVars, countVars, historyVars
<1>1. /\ pc \in [Threads -> Labels] /\ frame \in [Threads -> Frames]
  BY Facts DEF IInv, Types
<1>2. /\ pc[t] = "run" /\ Ops(t) # <<>> /\ Head(Ops(t))[1] = "resume" /\ pc'[t] = "wake"
      /\ frame'[t] = [Advanced(t) EXCEPT !.call = Head(Ops(t))] /\ paused' = FALSE
      /\ UNCHANGED <<runState, countVars, joinVars, status, accepted, passed>>
  BY <1>1 DEF Resume, AtOp, Goto
<1>3. /\ frame'[t].task = frame[t].task /\ frame'[t].draining = frame[t].draining
      /\ frame'[t].seen = frame[t].seen /\ frame'[t].call[1] = "resume"
      /\ frame[t].call = NoCall
  BY <1>2, AdvancedFields DEF Frames
<1>4. PromiseInv'
  <2>1. /\ t \notin passed /\ ~(pc'[t] \in Returning) /\ pc'[t] \in Busy
        /\ pc'[t] # "done"
    BY <1>2 DEF PromiseInv, PassedInv, Returning, Busy
  <2>2. ~Held'
    BY <1>2 DEF Held
  <2>3. runState = "Running" => selfDetach = {}
    BY DEF PromiseInv, StoppedInv
  <2> QED BY <1>2, <1>3, <2>1, <2>2, <2>3, PartsKept
<1>5. Committed' = Committed /\ Waiting' = Waiting /\ Seen' = Seen /\ Stopping' = Stopping
  <2>1. frame'[t].call[1] # "shutdown" /\ frame[t].call[1] # "shutdown"
    BY <1>3 DEF NoCall
  <2>2. UNCHANGED <<joining, selfDetach, passed>>
    BY <1>2
  <2> QED BY <1>3, <2>1, <2>2, Bystanders
<1>6. Fate' = Fate
  <2>1. Submitting' = Submitting
    BY <1>2, SameSubmitting
  <2> QED BY <1>2, <2>1 DEF Fate
<1> QED BY <1>2, <1>4, <1>5, <1>6
   DEF Promise!Resume, Promise!waitVars, Promise!taskVars, Fate, Committed, Waiting, Seen,
       Stopping, Joined

\* Nobody is in shutdown() before the first call, so that its caller is the one
\* that stops the pool.
LEMMA ShutdownWonStep ==
  ASSUME IInv, PromiseInv, JoinInv', NEW t \in Threads, Others(t), ShutdownWon(t)
  PROVE  /\ PromiseInv'
         /\ \E how \in {"Finish", "Discard"} :
               Promise!Stop(how, {}) \/ \E k \in Promise!Running : Promise!Stop(how, {k})
<1> USE DEF poolVars, stateVars, joinVars, countVars, historyVars
<1>1. /\ pc \in [Threads -> Labels] /\ frame \in [Threads -> Frames] /\ selfDetach \subseteq Workers
  BY Facts DEF IInv, Types
<1>2. /\ pc[t] = "run" /\ Ops(t) # <<>> /\ Head(Ops(t))[1] = "shutdown" /\ pc'[t] = "wake"
      /\ frame'[t] = [Advanced(t) EXCEPT !.call = Head(Ops(t))] /\ runState = "Running"
      /\ runState' = Head(Ops(t))[2]
      /\ UNCHANGED <<paused, countVars, joinVars, status, accepted, passed>>
  BY <1>1 DEF ShutdownWon, AtOp, Goto
<1>3. /\ frame'[t].task = frame[t].task /\ frame'[t].draining = frame[t].draining
      /\ frame'[t].seen = frame[t].seen /\ frame'[t].call[1] = "shutdown"
  BY <1>2, AdvancedFields DEF Frames
<1>4. runState' \in {"Finish", "Discard"}
  <2>1. Head(Ops(t)) \in ClientOperations \cup TaskOperations
    BY <1>1, <1>2, Advancing
  <2> QED BY <1>2, <2>1, OpKinds
<1>5. PromiseInv'
  <2>1. /\ t \notin passed /\ ~(pc'[t] \in Returning) /\ pc'[t] \in Busy
    BY <1>2 DEF PromiseInv, PassedInv, Returning, Busy
  <2>2. ~Held' /\ runState' # "Running"
    BY <1>4 DEF Held
  <2> QED BY <1>2, <1>3, <2>1, <2>2, PartsKept
<1>6. Committed' = Committed
  BY <1>2, <1>3, SameCommitted DEF IInv
<1>7. Waiting' = Waiting /\ Seen' = Seen
  BY <1>3, SameWaiting
<1>8. Fate' = Fate
  <2>1. Submitting' = Submitting
    BY <1>2, SameSubmitting
  <2> QED BY <1>2, <2>1 DEF Fate
<1>9. Stopping' = IF InTask(t) THEN {frame[t].task} ELSE {}
  <2>1. selfDetach = {} /\ \A u \in Threads : frame[u].call[1] # "shutdown"
    BY <1>2 DEF PromiseInv, StoppedInv
  <2>2. \A u \in Threads : (frame'[u].call[1] = "shutdown") <=> u = t
    BY <1>3, <2>1 DEF Others
  <2>3. Stoppers' = IF InTask(t) THEN {t} ELSE {}
    BY <1>2, <1>3, <2>1, <2>2 DEF Stoppers, InTask
  <2> QED BY <1>3, <2>3 DEF Stopping
<1>10. ASSUME InTask(t) PROVE frame[t].task \in Promise!Running
  <2>1. frame[t].task \in Tasks /\ frame[t].task # NoTask
    BY <1>10, Facts, Fields DEF InTask
  <2>2. status[frame[t].task] = "running"
    BY <1>2, <2>1 DEF IInv, StatusInv, StatusOK
  <2>3. Fate[frame[t].task] = "running"
    BY <2>1, <2>2, SubmittingFate
  <2> QED BY <2>1, <2>3 DEF Promise!Running, Promise!InState, Fate
<1>11. PICK how \in {"Finish", "Discard"} : how = runState'
  BY <1>4
<1>12. ASSUME NEW by, Stopping' = by, by \subseteq Promise!Running
       PROVE  Promise!Stop(how, by)
  BY <1>2, <1>6, <1>7, <1>8, <1>11, <1>12
     DEF Promise!Stop, Promise!waitVars, Promise!taskVars, Fate, Committed, Waiting, Seen,
         Stopping, Joined
<1>13. CASE InTask(t)
  <2>1. PICK k \in Promise!Running : k = frame[t].task
    BY <1>10, <1>13
  <2>2. Promise!Stop(how, {k})
    BY <1>9, <1>12, <1>13, <2>1
  <2> QED BY <1>5, <2>2
<1>14. CASE ~InTask(t)
  <2>1. Promise!Stop(how, {})
    BY <1>9, <1>12, <1>14
  <2> QED BY <1>5, <2>1
<1> QED BY <1>13, <1>14

----------------------------------------------------------------------------
\* The situations in which the pool does not keep its promises, all of them of
\* threads in waitIdle() but one: shutdown(FinishTasks) beside a submission.

\* shutdown() is about to be through with the workers.
LastJoin(t) == /\ pc[t] = "join" /\ joining + 1 = WorkerCount
               /\ joining = t \/ pc[joining] = "done"

Sound ==
    /\ \A c \in Clients :
          \* A thread in waitIdle() does not run a task that calls shutdown(),
          /\ frame[c].call[1] = "shutdown" => ~InTask(c)
          \* nor start one once shutdown() is through, nor one that pause() holds
          \* back,
          /\ pc[c] = "pend" => ~Joined /\ (Held => c \in passed)
          \* and leaves when all it waits for has finished and been counted.
          /\ pc[c] = "waitExit" /\ runState = "Running"
             => /\ frame[c].seen \subseteq Finished
                /\ Cardinality(frame[c].seen \cap Threw) <= exceptionCounter
    \* When shutdown() is through, no thread in waitIdle() runs a task, and
    \* shutdown(FinishTasks) has left none.
    /\ (\E t \in Threads : LastJoin(t)) =>
          /\ \A c \in Clients : InTask(c) => status[frame[c].task] # "running"
          /\ runState = "Finish" => accepted \subseteq Finished \cup Stopping

\* The places from which a step of t could bring one of them about, whatever has
\* happened before.
Exposed(t) ==
    \* shutdown() is about to be through with the workers of a pool that finishes
    \* its tasks, or beside a thread in waitIdle() that is in a task;
    \/ LastJoin(t) /\ (runState = "Finish" \/ \E c \in Clients : InTask(c))
    \* or the thread is in waitIdle() itself, about to start a task though the
    \* pool is paused or stopped, to leave a pool that is neither, or to leave
    \* a shutdown() that the task it runs has called.
    \/ /\ t \in Clients
       /\ \/ pc[t] = "pend" /\ (paused \/ runState # "Running")
          \/ pc[t] = "waitExit" /\ runState = "Running"
          \/ pc[t] = "join" /\ joining = WorkerCount /\ InTask(t)

Safe(t) == Sound \/ ~Exposed(t)

\* The worker that shutdown() has just waited for has returned, and so have those
\* before it, but for the caller itself.
LEMMA JoinWorkerStep ==
  ASSUME IInv, PromiseInv, JoinInv', NEW t \in Threads, Others(t), JoinWorker(t)
  PROVE  PromiseInv' /\ (Safe(t) => Promise!Close \/ UNCHANGED Promise!poolVars)
<1> USE DEF poolVars, stateVars, countVars, historyVars
<1>1. /\ pc \in [Threads -> Labels] /\ frame \in [Threads -> Frames] /\ joining \in 0..WorkerCount
      /\ ControlOK(t) /\ WorkerCount \in Nat
  BY Facts, Sizes DEF IInv, Types
<1>2. /\ pc[t] = "join" /\ pc' = pc /\ frame' = frame /\ joining < WorkerCount
      /\ joining' = joining + 1
      /\ \/ joining = t /\ selfDetach' = selfDetach \cup {t}
         \/ joining # t /\ pc[joining] = "done" /\ selfDetach' = selfDetach
      /\ UNCHANGED <<stateVars, countVars, status, accepted, passed>>
  BY DEF JoinWorker
<1>3. frame[t].call[1] = "shutdown" /\ runState # "Running"
  BY <1>1, <1>2 DEF ControlOK, PromiseInv, StoppedInv
<1>4. PromiseInv'
  <2>1. PassedInv' /\ HeldInv' /\ RunningInv' /\ StoppedInv' /\ ReturnedOnce'
    BY <1>2, <1>3
       DEF PromiseInv, PassedInv, HeldInv, Held, RunningInv, StoppedInv, ReturnedOnce
  <2> QED BY <2>1 DEF PromiseInv
<1>5. Committed' = Committed /\ Waiting' = Waiting /\ Seen' = Seen /\ Fate' = Fate
  BY <1>2 DEF Committed, Waiting, Seen, Fate, Submitting, ThreadsAt
<1>6. Stopping' = Stopping /\ Stoppers' = Stoppers
  <2>1. t \in Workers => t \in Stoppers
    BY <1>1, <1>2, <1>3 DEF Stoppers, ControlOK, InTask
  <2>2. joining = t => t \in Workers
    BY <1>1, <1>2 DEF Workers
  <2>3. Stoppers' = Stoppers
    BY <1>2, <2>1, <2>2 DEF Stoppers, InTask
  <2> QED BY <1>2, <2>3 DEF Stopping
<1>7. CASE joining' # WorkerCount
  <2>1. Joined' = Joined
    BY <1>1, <1>2, <1>7 DEF Joined
  <2> QED BY <1>2, <1>4, <1>5, <1>6, <2>1
     DEF Promise!poolVars, Promise!stateVars, Promise!taskVars, Promise!waitVars, Fate,
         Committed, Waiting, Seen, Stopping
<1>8. ASSUME joining' = WorkerCount, Safe(t)
      PROVE  Promise!Close
  <2>1. ~Joined /\ Joined'
    BY <1>1, <1>2, <1>8 DEF Joined
  <2>2. LastJoin(t)
    BY <1>2, <1>8 DEF LastJoin
  <2>3. ASSUME NEW k \in Promise!Running PROVE k \in Stopping
    <3>1. k \in Tasks /\ status[k] = "running"
      BY SubmittingFate DEF Promise!Running, Promise!InState, Fate
    <3>2. PICK u \in Threads : frame[u].task = k /\ pc[u] \in Busy
      BY <3>1 DEF PromiseInv, RunningInv
    <3>3. InTask(u)
      BY <3>1, <3>2, TasksAssumption DEF InTask
    <3>4. u \in Workers
      BY <1>8, <2>2, <3>1, <3>2, <3>3 DEF Safe, Exposed, Sound, Threads
    <3>5. u \in selfDetach'
      <4>1. u < joining'
        BY <1>1, <1>8, <3>4 DEF Workers
      <4>2. pc'[u] = "done" \/ u \in selfDetach'
        BY <3>4, <4>1 DEF JoinInv
      <4> QED BY <1>2, <3>2, <4>2 DEF Busy, InSubmit
    <3>6. u \in Stoppers
      BY <1>6, <3>5 DEF Stoppers
    <3> QED BY <3>2, <3>6 DEF Stopping
  <2>4. runState = "Finish" => accepted \subseteq Promise!Finished \cup Stopping
    <3>1. \A k \in Finished : k \in Promise!Finished
      BY SubmittingFate
         DEF Finished, Promise!Finished, Promise!Threw, Promise!InState, Fate
    <3> QED BY <1>8, <2>2, <3>1 DEF Safe, Exposed, Sound
  <2> QED BY <1>2, <1>3, <1>4, <1>5, <1>6, <2>1, <2>3, <2>4
     DEF Promise!Close, Promise!taskVars, Promise!waitVars, Fate, Committed, Waiting, Seen,
         Stopping
<1> QED BY <1>4, <1>7, <1>8

\* shutdown() returns; the task that called it is the one that did.
LEMMA ShutdownReturnStep ==
  ASSUME IInv, PromiseInv, JoinInv', NEW t \in Threads, Others(t), ShutdownReturn(t)
  PROVE  PromiseInv' /\ (Safe(t) => UNCHANGED Promise!poolVars)
<1> USE DEF poolVars, stateVars, countVars, historyVars, joinVars
<1>1. /\ pc \in [Threads -> Labels] /\ frame \in [Threads -> Frames] /\ ControlOK(t)
  BY Facts
<1>2. /\ pc[t] = "join" /\ pc'[t] = "run" /\ joining = WorkerCount
      /\ UNCHANGED <<stateVars, countVars, joinVars, status, accepted, passed>>
  BY <1>1 DEF ShutdownReturn, Goto
<1>3. /\ frame'[t].task = frame[t].task /\ frame'[t].draining = frame[t].draining
      /\ frame'[t].seen = frame[t].seen /\ frame'[t].call = NoCall
  BY <1>1 DEF ShutdownReturn, Frames
<1>4. frame[t].call[1] = "shutdown" /\ runState # "Running"
  BY <1>1, <1>2 DEF ControlOK, PromiseInv, StoppedInv
<1>5. PromiseInv'
  <2>1. /\ t \notin passed /\ ~(pc'[t] \in Returning) /\ pc'[t] \in Busy
    BY <1>2 DEF PromiseInv, PassedInv, Returning, Busy
  <2>2. ~Held'
    BY <1>2, <1>4 DEF Held
  <2> QED BY <1>2, <1>3, <1>4, <2>1, <2>2, PartsKept
<1>6. Committed' = Committed
  BY <1>2, <1>3, SameCommitted DEF IInv
<1>7. Waiting' = Waiting /\ Seen' = Seen
  BY <1>3, SameWaiting
<1>8. Fate' = Fate
  <2>1. Submitting' = Submitting
    BY <1>2, SameSubmitting
  <2> QED BY <1>2, <2>1 DEF Fate
<1>9. ASSUME Safe(t) PROVE Stopping' = Stopping
  <2>1. CASE t \in Workers
    <3>1. t < joining
      BY <1>2, <2>1, Sizes DEF Workers
    <3>2. t \in selfDetach
      BY <1>2, <2>1, <3>1 DEF PromiseInv, JoinInv
    <3>3. t \in Stoppers /\ t \in Stoppers'
      BY <1>2, <3>2 DEF Stoppers
    <3> QED BY <1>2, <1>3, <3>3, SameStopping DEF IInv
  <2>2. CASE t \in Clients
    <3>1. frame[t].task = NoTask /\ frame'[t].task = NoTask /\ t \notin selfDetach
      <4>1. ~InTask(t)
        BY <1>2, <1>4, <1>9, <2>2 DEF Safe, Exposed, Sound
      <4> QED BY <1>2, <1>3, <2>2, <4>1, ClientsAssumption DEF InTask, IInv, Types
    <3>2. t \notin Stoppers /\ t \notin Stoppers'
      BY <1>2, <3>1 DEF Stoppers, InTask
    <3> QED BY <1>2, <3>2, SameStopping DEF IInv
  <2> QED BY <2>1, <2>2 DEF Threads
<1> QED BY <1>2, <1>5, <1>6, <1>7, <1>8, <1>9
   DEF Promise!poolVars, Promise!stateVars, Promise!taskVars, Promise!waitVars, Fate,
       Committed, Waiting, Seen, Stopping, Joined

----------------------------------------------------------------------------
\* Fetching, putting back and forgetting a task is not seen.
LEMMA TakeStep ==
  ASSUME IInv, PromiseInv, JoinInv', NEW t \in Threads, Others(t),
         \/ PopOwn(t) \/ StealTop(t) \/ InjectTake(t) \/ RecheckPaused(t) \/ Retire(t)
  PROVE  PromiseInv' /\ UNCHANGED Promise!poolVars
<1> USE DEF poolVars, stateVars, countVars, historyVars, joinVars, restVars
<1>1. /\ pc \in [Threads -> Labels] /\ frame \in [Threads -> Frames] /\ ControlOK(t)
  BY Facts
<1>2. /\ pc[t] \in {"pop", "steal", "inject", "recheck", "retire"}
      /\ pc'[t] \in {"recheck", "act", "top", "tell"} /\ (t \in Workers => pc'[t] # "act")
      /\ frame'[t].draining = frame[t].draining /\ frame'[t].seen = frame[t].seen
      /\ frame'[t].call = frame[t].call
      /\ UNCHANGED <<stateVars, exceptionCounter, joinVars, historyVars>>
  <2>1. CASE PopOwn(t) \/ StealTop(t) \/ InjectTake(t)
    <3>1. PICK k, q : Fetched(t, k, q)
      BY <2>1 DEF PopOwn, StealTop, InjectTake
    <3>2. frame'[t] = [frame[t] EXCEPT !.task = k, !.from = q, !.offset = 0, !.probe = 0]
      BY <1>1, <3>1 DEF Fetched
    <3>3. /\ frame'[t].draining = frame[t].draining /\ frame'[t].seen = frame[t].seen
          /\ frame'[t].call = frame[t].call
      BY <1>1, <3>2 DEF Frames
    <3>4. pc[t] \in {"pop", "steal", "inject"}
      BY <2>1 DEF PopOwn, StealTop, InjectTake
    <3>5. pc'[t] = IF t \in Workers THEN "recheck" ELSE "act"
      BY <1>1, <3>1 DEF Fetched, Goto
    <3>6. UNCHANGED <<stateVars, exceptionCounter, joinVars, historyVars>>
      BY <3>1 DEF Fetched
    <3> QED BY <3>3, <3>4, <3>5, <3>6
  <2>2. CASE RecheckPaused(t)
    <3>1. /\ frame'[t].draining = frame[t].draining /\ frame'[t].seen = frame[t].seen
          /\ frame'[t].call = frame[t].call
      BY <1>1, <2>2 DEF RecheckPaused, Frames
    <3> QED BY <1>1, <2>2, <3>1 DEF RecheckPaused, Goto
  <2>3. CASE Retire(t)
    <3>1. /\ frame'[t].draining = frame[t].draining /\ frame'[t].seen = frame[t].seen
          /\ frame'[t].call = frame[t].call
      BY <1>1, <2>3 DEF Retire, Frames
    <3> QED BY <1>1, <2>3, <3>1 DEF Retire, Goto
  <2> QED BY <2>1, <2>2, <2>3
<1>3. frame[t].call = NoCall
  BY <1>1, <1>2 DEF ControlOK, InSubmit
<1>4. PromiseInv'
  <2>1. t \notin passed /\ ~(pc'[t] \in Returning) /\ pc'[t] # "done"
    BY <1>2 DEF PromiseInv, PassedInv, Returning
  <2>2. t \in Workers => pc'[t] \notin {"act", "pend"}
    BY <1>2
  <2>3. runState = "Running" => selfDetach = {}
    BY DEF PromiseInv, StoppedInv
  <2>4. ASSUME NEW k \in Tasks, status'[k] = "running"
        PROVE  status[k] = "running" /\ frame[t].task # k
    <3>1. status[k] = "running"
      BY <1>2, <2>4
    <3>2. ASSUME frame[t].task = k PROVE FALSE
      <4>1. pc[t] \in {"recheck", "retire"}
        BY <1>1, <1>2, <3>2, TasksAssumption DEF ControlOK, InWaitIdle
      <4> QED BY <3>1, <3>2, <4>1, TasksAssumption DEF IInv, StatusInv, StatusOK, Hands
    <3> QED BY <3>1, <3>2
  <2> QED BY <1>2, <1>3, <2>1, <2>2, <2>3, <2>4, PartsKept DEF Held, NoCall
<1>5. Committed' = Committed /\ Waiting' = Waiting /\ Seen' = Seen /\ Stopping' = Stopping
  BY <1>2, Bystanders DEF Busy, InSubmit
<1>6. Fate' = Fate
  <2>1. Submitting' = Submitting
    BY <1>2, SameSubmitting
  <2> QED BY <1>2, <2>1 DEF Fate
<1> QED BY <1>2, <1>4, <1>5, <1>6
   DEF Promise!poolVars, Promise!stateVars, Promise!taskVars, Promise!waitVars, Fate,
       Committed, Waiting, Seen, Stopping, Joined

\* Fewer tasks run than there are hands, when one of them holds a task that has not
\* started.
LEMMA HandsFree ==
  ASSUME IInv, PromiseInv, NEW t \in Threads, pc[t] \in Hands
  PROVE  Promise!Cardinality(Promise!Running) < Promise!Hands
<1> DEFINE S == {k \in Tasks : status[k] = "running"}
           T == (Workers \cup Waiting) \ {t}
           f == [k \in S |-> CHOOSE u \in Threads : frame[u].task = k /\ pc[u] \in Busy]
<1>1. Promise!Running = S
  BY SubmittingFate DEF Promise!Running, Promise!InState, Fate
<1>2. ASSUME NEW k \in S PROVE f[k] \in T /\ frame[f[k]].task = k
  <2>1. k # NoTask /\ \E u \in Threads : frame[u].task = k /\ pc[u] \in Busy
    BY <1>2, TasksAssumption DEF PromiseInv, RunningInv
  <2>2. f[k] \in Threads /\ frame[f[k]].task = k /\ pc[f[k]] \in Busy
    BY <1>2, <2>1
  <2>3. f[k] # t
    BY <2>2 DEF Hands, Busy, InSubmit
  <2> QED BY <2>1, <2>2, <2>3, HandsCount
<1>3. /\ IsFiniteSet(Workers \cup Waiting) /\ t \in Workers \cup Waiting
      /\ Cardinality(Workers \cup Waiting) = WorkerCount + Cardinality(Waiting)
      /\ Cardinality(Waiting) \in Nat /\ WorkerCount \in Nat
  BY HandsCount, Facts, Sizes DEF ControlOK
<1>4. IsFiniteSet(T) /\ Cardinality(T) = WorkerCount + Cardinality(Waiting) - 1
  <2> DEFINE U == Workers \cup Waiting
  <2>1. IsFiniteSet(U) /\ t \in U
    BY <1>3
  <2> HIDE DEF U
  <2>2. IsFiniteSet(U \ {t}) /\ Cardinality(U \ {t}) = Cardinality(U) - 1
    BY <2>1, FS_RemoveElement
  <2>3. T = U \ {t}
    BY DEF U
  <2>4. Cardinality(U) = WorkerCount + Cardinality(Waiting)
    BY <1>3 DEF U
  <2> HIDE DEF S, T, f
  <2>5. IsFiniteSet(T) /\ Cardinality(T) = Cardinality(U) - 1
    BY <2>2, <2>3
  <2>6. WorkerCount \in Int /\ Cardinality(Waiting) \in Int
    BY <1>3
  <2> QED BY <2>4, <2>5, <2>6
<1>5. IsFiniteSet(S)
  <2>1. S \subseteq Tasks
    OBVIOUS
  <2> QED BY <2>1, Sizes, FS_Subset
<1>6. f \in [S -> T] /\ \A x, y \in S : f[x] = f[y] => x = y
  BY <1>2
<1> HIDE DEF S, T, f
<1>7. Cardinality(S) <= Cardinality(T) /\ Cardinality(S) \in Nat
  BY <1>4, <1>5, <1>6, NotMore, FS_CardinalityType
<1>8. Promise!Hands = WorkerCount + Cardinality(Waiting)
  BY SameCardinality DEF Promise!Hands, Waiting
<1> QED BY <1>1, <1>3, <1>4, <1>7, <1>8, SameCardinality

\* A pool that has not been stopped has workers that shutdown() has not been
\* through.
LEMMA RunningUnjoined ==
  ASSUME IInv, PromiseInv, runState = "Running"
  PROVE  ~Joined
<1>1. 0 \in Workers /\ WorkerCount \in Nat /\ 0 < WorkerCount
  BY Sizes DEF Workers
<1>2. pc[0] # "done" /\ 0 \notin selfDetach
  BY <1>1 DEF PromiseInv, StoppedInv, Threads
<1> QED BY <1>1, <1>2 DEF PromiseInv, JoinInv, Joined

\* A worker that starts a task passed the check for pause() and is not one that
\* shutdown() has been through; of a thread in waitIdle() that is what Safe says.
LEMMA StartStep ==
  ASSUME IInv, PromiseInv, JoinInv', NEW t \in Threads, Others(t), StartTask(t)
  PROVE  PromiseInv' /\ (Safe(t) => \E k \in Tasks : Promise!Begin(k))
<1> USE DEF poolVars, stateVars, countVars, historyVars, joinVars
<1>1. /\ pc \in [Threads -> Labels] /\ frame \in [Threads -> Frames] /\ ControlOK(t)
      /\ status \in [Tasks -> {"unsubmitted", "refused", "queued", "running", "done", "threw"}]
      /\ passed \subseteq Threads
  BY Facts DEF IInv, Types
<1> DEFINE task == frame[t].task
<1>2. /\ pc[t] = "pend" /\ pc'[t] = "run" /\ status' = [status EXCEPT ![task] = "running"]
      /\ passed' = passed \ {t}
      /\ UNCHANGED <<stateVars, exceptionCounter, joinVars, accepted>>
  BY <1>1 DEF StartTask, Goto
<1>3. /\ task \in Tasks /\ task # NoTask /\ status[task] = "queued" /\ frame[t].call = NoCall
  <2>1. task # NoTask /\ frame[t].call = NoCall
    BY <1>1, <1>2 DEF ControlOK, Hands, InSubmit
  <2>2. task \in Tasks
    BY <1>1, <2>1, Fields
  <2> QED BY <1>2, <2>1, <2>2 DEF IInv, StatusInv, StatusOK, Hands
<1>4. /\ frame'[t].task = task /\ frame'[t].draining = frame[t].draining
      /\ frame'[t].seen = frame[t].seen /\ frame'[t].call = NoCall
  BY <1>1, <1>3 DEF StartTask, Frames
<1>5. PromiseInv'
  <2>1. /\ ~(pc'[t] \in Returning) /\ pc'[t] \in Busy /\ pc'[t] # "done"
        /\ pc'[t] \notin {"act", "pend"}
    BY <1>2 DEF Returning, Busy
  <2>2. runState = "Running" => selfDetach = {}
    BY DEF PromiseInv, StoppedInv
  <2>3. ASSUME NEW j \in Tasks
        PROVE  /\ status[j] \in Fates => status'[j] \in Fates
               /\ status'[j] = "running" => \/ status[j] = "running" /\ frame[t].task # j
                                            \/ frame'[t].task = j /\ pc'[t] \in Busy
    BY <1>1, <1>2, <1>3, <1>4, <2>1 DEF Fates
  <2>4. Held' <=> Held
    BY <1>2 DEF Held
  <2> QED BY <1>2, <1>4, <2>1, <2>2, <2>3, <2>4, PartsKept DEF NoCall
<1>6. Committed' = Committed \ {task}
  <2>1. \A u \in passed : frame'[u].task = frame[u].task
    BY <1>1, <1>4 DEF Others
  <2>2. \A u \in passed \ {t} : frame[u].task # task
    BY <1>1, <1>3 DEF IInv, PlaceInv
  <2> QED BY <1>2, <2>1, <2>2 DEF Committed
<1>7. Waiting' = Waiting /\ Seen' = Seen
  BY <1>4, SameWaiting
<1>8. Stopping' = Stopping
  <2>1. t \in Stoppers' <=> t \in Stoppers
    BY <1>2, <1>3, <1>4 DEF Stoppers, NoCall
  <2> QED BY <1>2, <1>4, <2>1, SameStopping DEF IInv
<1>9. Fate' = [Fate EXCEPT ![task] = "running"] /\ Fate[task] = "queued"
  <2>1. Submitting' = Submitting
    BY <1>2, SameSubmitting
  <2>2. task \notin Submitting
    BY <1>3, SubmittingFate
  <2> QED BY <1>1, <1>2, <1>3, <2>1, <2>2 DEF Fate
<1>10. ASSUME Safe(t)
       PROVE  ~Joined /\ (paused /\ runState = "Running" => task \in Committed)
  <2>1. CASE t \in Workers
    <3>1. t \notin selfDetach /\ pc[t] # "done"
      BY <1>2 DEF PromiseInv, JoinInv, Detached, Busy, InSubmit
    <3>2. ~Joined
      BY <2>1, <3>1, Sizes DEF PromiseInv, JoinInv, Joined, Workers
    <3>3. Held => t \in passed
      BY <1>2, <2>1 DEF PromiseInv, HeldInv
    <3> QED BY <3>2, <3>3 DEF Held, Committed
  <2>2. CASE t \in Clients
    <3>1. CASE Sound
      BY <1>2, <2>2, <3>1 DEF Sound, Held, Committed
    <3>2. CASE ~paused /\ runState = "Running"
      BY <3>2, RunningUnjoined
    <3> QED BY <1>2, <1>10, <2>2, <3>1, <3>2 DEF Safe, Exposed
  <2> QED BY <2>1, <2>2 DEF Threads
<1>11. Promise!Cardinality(Promise!Running) < Promise!Hands
  BY <1>2, HandsFree DEF Hands
<1>12. PICK k \in Tasks : k = task
  BY <1>3
<1>13. Safe(t) => Promise!Begin(k)
  BY <1>2, <1>3, <1>5, <1>6, <1>7, <1>8, <1>9, <1>10, <1>11, <1>12
   DEF Promise!Begin, Promise!Become, Promise!waitVars, Fate, Committed, Waiting, Seen,
       Stopping, Joined
<1> QED BY <1>5, <1>13

----------------------------------------------------------------------------
\* A task ends: it returns, or an exception leaves it.
LEMMA TaskEndStep ==
  ASSUME IInv, PromiseInv, JoinInv', NEW t \in Threads, Others(t),
         TaskReturns(t) \/ TaskThrows(t)
  PROVE  PromiseInv' /\ \E k \in Tasks : Promise!End(k, "done") \/ Promise!End(k, "threw")
<1> USE DEF poolVars, stateVars, countVars, historyVars, joinVars
<1>1. /\ pc \in [Threads -> Labels] /\ frame \in [Threads -> Frames] /\ ControlOK(t)
      /\ status \in [Tasks -> {"unsubmitted", "refused", "queued", "running", "done", "threw"}]
  BY Facts DEF IInv, Types
<1> DEFINE task == frame[t].task
<1>2. PICK how \in {"done", "threw"} : status' = [status EXCEPT ![task] = how]
  BY DEF TaskReturns, TaskThrows
<1>3. /\ pc[t] \in {"run", "threw"} /\ UNCHANGED <<poolVars, accepted, passed>>
      /\ task # NoTask /\ frame[t].call = NoCall
  BY <1>1 DEF TaskReturns, TaskThrows, InTask, ControlOK, InSubmit, Hands
<1>4. pc'[t] \in {"retire", "except", "done"} /\ (pc'[t] = "done" => t \in selfDetach)
  BY <1>1 DEF TaskReturns, TaskThrows, TaskDone, Goto
<1>5. /\ frame'[t].task = task /\ frame'[t].draining = frame[t].draining
      /\ frame'[t].seen = frame[t].seen /\ frame'[t].call = frame[t].call
  BY <1>1 DEF TaskReturns, TaskThrows, Frames
<1>6. task \in Tasks /\ status[task] = "running"
  <2>1. task \in Tasks
    BY <1>1, <1>3, Fields
  <2> QED BY <1>3, <2>1 DEF IInv, StatusInv, StatusOK
<1>7. PromiseInv'
  <2>1. /\ t \notin passed /\ ~(pc'[t] \in Returning) /\ pc'[t] \notin {"act", "pend"}
    BY <1>3, <1>4 DEF PromiseInv, PassedInv, Returning
  <2>2. runState = "Running" => selfDetach = {} /\ pc'[t] # "done"
    BY <1>4 DEF PromiseInv, StoppedInv
  <2>3. ASSUME NEW j \in Tasks
        PROVE  /\ status[j] \in Fates => status'[j] \in Fates
               /\ status'[j] = "running" => status[j] = "running" /\ frame[t].task # j
    BY <1>1, <1>2, <1>6 DEF Fates
  <2> QED BY <1>3, <1>5, <2>1, <2>2, <2>3, PartsKept DEF Held, NoCall
<1>8. Committed' = Committed /\ Waiting' = Waiting /\ Seen' = Seen /\ Stopping' = Stopping
  BY <1>3, <1>5, Bystanders
<1>9. Fate' = [Fate EXCEPT ![task] = how] /\ Fate[task] = "running"
  <2>1. Submitting' = Submitting
    BY <1>3, <1>4, SameSubmitting
  <2>2. task \notin Submitting
    BY <1>6, SubmittingFate
  <2> QED BY <1>1, <1>2, <1>6, <2>1, <2>2 DEF Fate
<1>10. PICK k \in Tasks : k = task
  BY <1>6
<1>11. Promise!End(k, how)
  BY <1>10, <1>3, <1>8, <1>9
     DEF Promise!End, Promise!Become, Promise!stateVars, Promise!waitVars, Fate, Committed,
         Waiting, Seen, Stopping, Joined
<1> QED BY <1>2, <1>7, <1>11

\* The tasks whose exceptions TaskPool counts are those that ThreadPool counts.
LEMMA SameEnds ==
  ASSUME IInv
  PROVE  Promise!Threw = Threw /\ Promise!Finished = Finished
<1>1. \A k \in Tasks : /\ Fate[k] = "threw" <=> status[k] = "threw"
                       /\ Fate[k] = "done" <=> status[k] = "done"
  BY SubmittingFate DEF Fate
<1> QED BY <1>1 DEF Promise!Threw, Promise!Finished, Promise!InState, Threw, Finished, Fate

LEMMA CountExceptionStep ==
  ASSUME IInv, PromiseInv, JoinInv', NEW t \in Threads, Others(t), CountException(t)
  PROVE  PromiseInv' /\ Promise!CountException
<1> USE DEF poolVars, stateVars, historyVars, joinVars, restVars
<1>1. /\ pc \in [Threads -> Labels] /\ frame \in [Threads -> Frames] /\ ControlOK(t)
  BY Facts
<1>2. /\ pc[t] = "except" /\ pc'[t] = "retire" /\ exceptionCounter' = exceptionCounter + 1
      /\ frame' = frame /\ UNCHANGED <<stateVars, joinVars, historyVars>>
  BY <1>1 DEF CountException, Goto
<1>3. frame[t].task # NoTask /\ frame[t].call = NoCall
  BY <1>1, <1>2 DEF ControlOK, InSubmit
<1>4. PromiseInv'
  <2>1. t \notin passed /\ ~(pc'[t] \in Returning) /\ pc'[t] \notin {"act", "pend", "done"}
    BY <1>2 DEF PromiseInv, PassedInv, Returning
  <2>2. runState = "Running" => selfDetach = {}
    BY DEF PromiseInv, StoppedInv
  <2>3. ASSUME NEW k \in Tasks, status'[k] = "running"
        PROVE  status[k] = "running" /\ frame[t].task # k
    BY <1>2, <1>3, <2>3 DEF IInv, StatusInv, StatusOK
  <2> QED BY <1>2, <1>3, <2>1, <2>2, <2>3, PartsKept DEF Held, NoCall
<1>5. Committed' = Committed /\ Waiting' = Waiting /\ Seen' = Seen /\ Stopping' = Stopping
  BY <1>2, <1>3, Bystanders
<1>6. Fate' = Fate
  <2>1. Submitting' = Submitting
    BY <1>2, SameSubmitting
  <2> QED BY <1>2, <2>1 DEF Fate
<1>7. exceptionCounter < Promise!Cardinality(Promise!Threw)
  <2>1. t \in Uncounted
    BY <1>2, <1>3 DEF Uncounted, IInv, StatusInv, StatusOK
  <2>2. IsFiniteSet(Uncounted) /\ IsFiniteSet(Threw)
    <3>1. Uncounted \subseteq Threads /\ Threw \subseteq Tasks
      BY DEF Uncounted, Threw
    <3> QED BY <3>1, Sizes, FS_Subset
  <2>3. Cardinality(Uncounted) \in Nat \ {0} /\ Cardinality(Threw) \in Nat
    BY <2>1, <2>2, FS_CardinalityType, FS_EmptySet
  <2>4. exceptionCounter = Cardinality(Threw) - Cardinality(Uncounted)
    BY DEF IInv, CountInv
  <2>5. exceptionCounter < Cardinality(Threw)
    BY <2>3, <2>4
  <2> QED BY <2>5, SameEnds, SameCardinality
<1> QED BY <1>2, <1>4, <1>5, <1>6, <1>7
   DEF Promise!CountException, Promise!stateVars, Promise!waitVars, Fate, Committed, Waiting,
       Seen, Stopping, Joined

----------------------------------------------------------------------------
\* waitIdle(): what it waits for is what had been accepted, and when it returns,
\* that has finished, as assumed.

LEMMA WaitBeginStep ==
  ASSUME IInv, PromiseInv, JoinInv', NEW t \in Threads, Others(t), WaitBegin(t)
  PROVE  PromiseInv' /\ t \in Clients /\ Promise!WaitBegin(t)
<1> USE DEF poolVars, stateVars, historyVars, joinVars, restVars
<1>1. /\ pc \in [Threads -> Labels] /\ frame \in [Threads -> Frames] /\ ControlOK(t)
      /\ accepted \subseteq Tasks
  BY Facts DEF IInv, Types
<1>2. /\ pc[t] = "run" /\ Ops(t) # <<>> /\ Head(Ops(t))[1] = "waitIdle" /\ pc'[t] = "waitTop"
      /\ frame'[t] = [Advanced(t) EXCEPT !.draining = TRUE, !.seen = accepted]
      /\ UNCHANGED <<stateVars, exceptionCounter, joinVars, historyVars>>
  BY <1>1 DEF WaitBegin, AtOp, Goto
<1>3. /\ frame'[t].task = frame[t].task /\ frame'[t].draining = TRUE
      /\ frame'[t].seen = accepted /\ frame'[t].call = NoCall /\ frame[t].call = NoCall
  BY <1>1, <1>2, AdvancedFields DEF Frames
<1>4. frame[t].task = NoTask
  BY <1>2, Advancing, OpKinds
<1>5. t \in Clients /\ ~frame[t].draining
  <2>1. t \notin Workers
    BY <1>1, <1>2, <1>4 DEF ControlOK
  <2>2. frame[t].draining \in BOOLEAN
    BY <1>1, Fields
  <2> QED BY <1>1, <1>2, <1>4, <2>1, <2>2 DEF ControlOK, InWaitIdle, Sleeping, Threads
<1>6. PromiseInv'
  <2>1. t \notin passed /\ ~(pc'[t] \in Returning) /\ pc'[t] \notin {"act", "pend", "done"}
    BY <1>2 DEF PromiseInv, PassedInv, Returning
  <2>2. runState = "Running" => selfDetach = {}
    BY DEF PromiseInv, StoppedInv
  <2>3. ASSUME NEW k \in Tasks, status'[k] = "running"
        PROVE  status[k] = "running" /\ frame[t].task # k
    BY <1>2, <1>4, <2>3, TasksAssumption
  <2>4. frame'[t].call[1] # "shutdown" /\ Held' = Held
    BY <1>2, <1>3 DEF Held, NoCall
  <2> QED BY <1>2, <2>1, <2>2, <2>3, <2>4, PartsKept
<1>7. Committed' = Committed
  BY <1>2, <1>3, SameCommitted DEF IInv
<1>8. Stopping' = Stopping
  <2>1. t \in Stoppers' <=> t \in Stoppers
    BY <1>2, <1>3 DEF Stoppers, InTask
  <2> QED BY <1>2, <1>3, <2>1, SameStopping DEF IInv
<1>9. Fate' = Fate
  <2>1. Submitting' = Submitting
    BY <1>2, SameSubmitting
  <2> QED BY <1>2, <2>1 DEF Fate
<1>10. \A c \in Clients \ {t} : frame'[c] = frame[c]
  BY DEF Others, Threads
<1>11. Waiting' = Waiting \cup {t} /\ t \notin Waiting
  BY <1>3, <1>5, <1>10 DEF Waiting
<1>12. Seen' = [Seen EXCEPT ![t] = accepted]
  BY <1>3, <1>5, <1>10 DEF Seen
<1> QED BY <1>2, <1>5, <1>6, <1>7, <1>8, <1>9, <1>11, <1>12
   DEF Promise!WaitBegin, Promise!stateVars, Promise!taskVars, Fate, Committed, Waiting,
       Seen, Stopping, Joined

LEMMA WaitExitStep ==
  ASSUME IInv, PromiseInv, JoinInv', NEW t \in Threads, Others(t), WaitExit(t)
  PROVE  PromiseInv' /\ (Safe(t) => t \in Clients /\ Promise!WaitEnd(t))
<1> USE DEF poolVars, stateVars, historyVars, joinVars, restVars
<1>1. /\ pc \in [Threads -> Labels] /\ frame \in [Threads -> Frames] /\ ControlOK(t)
  BY Facts
<1>2. /\ pc[t] = "waitExit" /\ pc'[t] = "run"
      /\ UNCHANGED <<stateVars, exceptionCounter, joinVars, historyVars>>
  BY <1>1 DEF WaitExit, Goto
<1>3. /\ frame'[t].task = frame[t].task /\ frame'[t].draining = FALSE
      /\ frame'[t].seen = {} /\ frame'[t].call = frame[t].call
  BY <1>1 DEF WaitExit, Frames
<1>4. frame[t].task = NoTask /\ frame[t].call = NoCall
  BY <1>1, <1>2 DEF ControlOK, InWaitIdle, InSubmit
<1>5. t \in Clients /\ frame[t].draining
  BY <1>1, <1>2 DEF ControlOK, InWaitIdle, Threads
<1>6. PromiseInv'
  <2>1. t \notin passed /\ ~(pc'[t] \in Returning) /\ pc'[t] \notin {"act", "pend", "done"}
    BY <1>2 DEF PromiseInv, PassedInv, Returning
  <2>2. runState = "Running" => selfDetach = {}
    BY DEF PromiseInv, StoppedInv
  <2>3. ASSUME NEW k \in Tasks, status'[k] = "running"
        PROVE  status[k] = "running" /\ frame[t].task # k
    BY <1>2, <1>4, <2>3, TasksAssumption
  <2>4. frame'[t].call[1] # "shutdown" /\ Held' = Held
    BY <1>2, <1>3, <1>4 DEF Held, NoCall
  <2> QED BY <1>2, <2>1, <2>2, <2>3, <2>4, PartsKept
<1>7. Committed' = Committed
  BY <1>2, <1>3, SameCommitted DEF IInv
<1>8. Stopping' = Stopping
  <2>1. t \in Stoppers' <=> t \in Stoppers
    BY <1>2, <1>3 DEF Stoppers, InTask
  <2> QED BY <1>2, <1>3, <2>1, SameStopping DEF IInv
<1>9. Fate' = Fate
  <2>1. Submitting' = Submitting
    BY <1>2, SameSubmitting
  <2> QED BY <1>2, <2>1 DEF Fate
<1>10. \A c \in Clients \ {t} : frame'[c] = frame[c]
  BY DEF Others, Threads
<1>11. Waiting' = Waiting \ {t} /\ t \in Waiting
  BY <1>3, <1>5, <1>10 DEF Waiting
<1>12. Seen' = [Seen EXCEPT ![t] = {}] /\ Seen[t] = frame[t].seen
  BY <1>3, <1>5, <1>10 DEF Seen
<1>13. Safe(t) /\ runState = "Running" =>
         /\ Seen[t] \subseteq Promise!Finished
         /\ exceptionCounter >= Promise!Cardinality(Seen[t] \cap Promise!Threw)
  <2> SUFFICES ASSUME Safe(t), runState = "Running"
               PROVE  /\ frame[t].seen \subseteq Finished
                      /\ exceptionCounter >= Cardinality(frame[t].seen \cap Threw)
    BY <1>12, SameEnds, SameCardinality
  <2> DEFINE n == Cardinality(frame[t].seen \cap Threw)
  <2>1. frame[t].seen \subseteq Finished /\ n <= exceptionCounter
    BY <1>2, <1>5 DEF Safe, Exposed, Sound
  <2>2. n \in Nat /\ exceptionCounter \in Int
    <3>1. IsFiniteSet(frame[t].seen \cap Threw)
      <4>1. frame[t].seen \cap Threw \subseteq Tasks
        BY DEF Threw
      <4> QED BY <4>1, Sizes, FS_Subset
    <3> QED BY <3>1, FS_CardinalityType DEF IInv, Types
  <2> HIDE DEF n
  <2>3. exceptionCounter >= n
    BY <2>1, <2>2
  <2> QED BY <2>1, <2>3 DEF n
<1> QED BY <1>2, <1>5, <1>6, <1>7, <1>8, <1>9, <1>11, <1>12, <1>13
   DEF Promise!WaitEnd, Promise!stateVars, Promise!taskVars, Fate, Committed, Waiting,
       Seen, Stopping, Joined

----------------------------------------------------------------------------
\* The steps together.

LEMMA PromiseInit == Init => PromiseInv /\ Promise!Init
<1> SUFFICES ASSUME Init PROVE PromiseInv /\ Promise!Init
  OBVIOUS
<1>1. \A t \in Threads : /\ frame[t].task = NoTask /\ frame[t].call = NoCall
                         /\ frame[t].draining = FALSE /\ frame[t].seen = {}
                         /\ pc[t] \in {"top", "run"}
  <2>1. PICK program : frame = [t \in Threads |-> IF t \in Workers THEN IdleFrame
                                           ELSE [IdleFrame EXCEPT !.todo = program[t]]]
    BY DEF Init
  <2> QED BY <2>1 DEF Init, IdleFrame
<1>2. PromiseInv
  <2>1. JoinInv
    BY Sizes DEF Init, JoinInv, Workers
  <2>2. PassedInv /\ HeldInv /\ RunningInv
    BY DEF Init, PassedInv, HeldInv, Held, RunningInv
  <2>3. StoppedInv
    BY <1>1 DEF Init, StoppedInv, NoCall
  <2>4. ReturnedOnce
    BY <1>1 DEF Init, ReturnedOnce, Returning
  <2> QED BY <2>1, <2>2, <2>3, <2>4 DEF PromiseInv
<1>3. Promise!Init
  <2>1. Fate = [k \in Tasks |-> "unsubmitted"]
    <3>1. Submitting = {}
      BY <1>1 DEF Submitting, ThreadsAt
    <3> QED BY <3>1 DEF Init, Fate
  <2>2. Committed = {}
    BY DEF Init, Committed
  <2>3. Waiting = {} /\ Seen = [c \in Clients |-> {}]
    BY <1>1 DEF Waiting, Seen, Threads
  <2>4. Stopping = {}
    <3>1. Stoppers = {}
      BY <1>1 DEF Init, Stoppers, NoCall
    <3> QED BY <3>1 DEF Stopping
  <2>5. Joined = FALSE /\ WorkerCount \in Nat
    BY Sizes DEF Init, Joined
  <2> QED BY <2>1, <2>2, <2>3, <2>4, <2>5
     DEF Init, Promise!Init, Promise!NewPool, Fate, Committed, Waiting, Seen, Stopping
<1> QED BY <1>2, <1>3

\* A step of one thread.
LEMMA PromiseStep ==
  ASSUME IInv, PromiseInv, NEW t \in Threads, Step(t)
  PROVE  PromiseInv' /\ (Safe(t) => [Promise!Next]_(Promise!poolVars))
<1>1. Others(t) /\ JoinInv'
  BY StepOthers, JoinStep DEF PromiseInv
<1>2. ASSUME Unseen(t) PROVE PromiseInv' /\ UNCHANGED Promise!poolVars
  BY <1>1, <1>2, UnseenRefines, UnseenInv
<1>3. ASSUME NEW k \in Tasks,
             \/ Promise!Submit(k) \/ Promise!Refuse(k) \/ Promise!Enqueue(k) \/ Promise!Return(k)
             \/ Promise!Begin(k) \/ Promise!End(k, "done") \/ Promise!End(k, "threw")
      PROVE  Promise!Next
  BY <1>3 DEF Promise!Next, Promise!Work
<1>4. CASE Submit(t)
  <2>1. CASE SubmitBegin(t) \/ SubmitCount(t) \/ SubmitSomebodyIdle(t) \/ SubmitBump(t)
    BY <1>2, <2>1, UnseenSubmit
  <2>2. CASE SubmitAllowed(t)
    <3>1. PICK k \in Tasks : Promise!Submit(k)
      BY <1>1, <2>2, AllowedStep
    <3> QED BY <1>1, <1>3, <2>2, <3>1, AllowedStep
  <2>3. CASE SubmitRefused(t)
    <3>1. PICK k \in Tasks : Promise!Refuse(k)
      BY <1>1, <2>3, RefusedStep
    <3> QED BY <1>1, <1>3, <2>3, <3>1, RefusedStep
  <2>4. CASE SubmitPush(t)
    <3>1. PICK k \in Tasks : Promise!Enqueue(k)
      BY <1>1, <2>4, PushStep
    <3> QED BY <1>1, <1>3, <2>4, <3>1, PushStep
  <2>5. CASE SubmitNobodyIdle(t) \/ SubmitNotify(t)
    <3>1. PICK k \in Tasks : Promise!Return(k)
      BY <1>1, <2>5, ReturnStep
    <3> QED BY <1>1, <1>3, <2>5, <3>1, ReturnStep
  <2> QED BY <1>4, <2>1, <2>2, <2>3, <2>4, <2>5 DEF Submit
<1>5. CASE Control(t)
  <2>1. CASE Pause(t)
    BY <1>1, <2>1, PauseStep DEF Promise!Next
  <2>2. CASE Resume(t)
    BY <1>1, <2>2, ResumeStep DEF Promise!Next
  <2>3. CASE WakeAll(t) \/ ShutdownLost(t)
    BY <1>2, <2>3, UnseenControl
  <2>4. CASE ShutdownWon(t)
    BY <1>1, <2>4, ShutdownWonStep DEF Promise!Next
  <2>5. CASE JoinWorker(t)
    BY <1>1, <2>5, JoinWorkerStep DEF Promise!Next, Promise!Work
  <2>6. CASE ShutdownReturn(t)
    BY <1>1, <2>6, ShutdownReturnStep
  <2> QED BY <1>5, <2>1, <2>2, <2>3, <2>4, <2>5, <2>6 DEF Control
<1>6. CASE Fetch(t)
  <2>1. CASE PopOwn(t) \/ StealTop(t) \/ InjectTake(t)
    BY <1>1, <2>1, TakeStep
  <2>2. CASE ~(PopOwn(t) \/ StealTop(t) \/ InjectTake(t))
    BY <1>2, <1>6, <2>2, UnseenFetch DEF Fetch
  <2> QED BY <2>1, <2>2
<1>7. CASE Execute(t)
  <2>1. CASE RecheckPaused(t) \/ Retire(t)
    BY <1>1, <2>1, TakeStep
  <2>2. CASE RecheckClear(t) \/ CountActive(t) \/ Get(t) \/ Throw(t) \/ Tell(t)
    BY <1>2, <2>2, UnseenExecute
  <2>3. CASE StartTask(t)
    <3>1. \A k \in Tasks : Promise!Begin(k) => Promise!Next
      BY <1>3
    <3> QED BY <1>1, <2>3, <3>1, StartStep
  <2>4. CASE TaskReturns(t) \/ TaskThrows(t)
    <3>1. PICK k \in Tasks : Promise!End(k, "done") \/ Promise!End(k, "threw")
      BY <1>1, <2>4, TaskEndStep
    <3> QED BY <1>1, <1>3, <2>4, <3>1, TaskEndStep
  <2>5. CASE CountException(t)
    BY <1>1, <2>5, CountExceptionStep DEF Promise!Next, Promise!Work
  <2> QED BY <1>7, <2>1, <2>2, <2>3, <2>4, <2>5 DEF Execute
<1>8. CASE Wait(t)
  BY <1>2, <1>8, UnseenWait
<1>9. CASE WaitIdle(t)
  <2>1. CASE WaitBegin(t)
    BY <1>1, <2>1, WaitBeginStep DEF Promise!Next
  <2>2. CASE WaitTop(t) \/ WaitActive(t)
    BY <1>2, <2>2, UnseenWait
  <2>3. CASE WaitExit(t)
    BY <1>1, <2>3, WaitExitStep DEF Promise!Next
  <2> QED BY <1>9, <2>1, <2>2, <2>3 DEF WaitIdle
<1> QED BY <1>4, <1>5, <1>6, <1>7, <1>8, <1>9 DEF Step

LEMMA PromiseNext ==
  ASSUME IInv, PromiseInv, [Next]_vars
  PROVE  /\ PromiseInv'
         /\ Sound => [Promise!Next]_(Promise!poolVars)
         /\ \/ [Promise!Next]_(Promise!poolVars)
            \/ \E t \in Threads : Step(t) /\ Exposed(t)
<1>1. CASE UNCHANGED vars
  <2> USE <1>1 DEF vars, stateVars, countVars, joinVars, historyVars
  <2>1. PromiseInv'
    <3>1. PassedInv' /\ HeldInv' /\ RunningInv' /\ StoppedInv'
      BY DEF PromiseInv, PassedInv, HeldInv, Held, RunningInv, StoppedInv
    <3>2. ReturnedOnce' /\ JoinInv'
      BY DEF PromiseInv, ReturnedOnce, JoinInv, Detached
    <3> QED BY <3>1, <3>2 DEF PromiseInv
  <2>2. UNCHANGED Promise!poolVars
    <3>1. Fate' = Fate /\ Committed' = Committed /\ Waiting' = Waiting /\ Seen' = Seen
      BY DEF Fate, Submitting, ThreadsAt, Committed, Waiting, Seen
    <3>2. Stopping' = Stopping /\ Joined' = Joined
      BY DEF Stopping, Stoppers, InTask, Joined
    <3> QED BY <3>1, <3>2
       DEF Promise!poolVars, Promise!stateVars, Promise!taskVars, Promise!waitVars, Fate,
           Committed, Waiting, Seen, Stopping, Joined
  <2> QED BY <2>1, <2>2
<1>2. CASE \E t \in Threads : Step(t)
  BY <1>2, PromiseStep DEF Safe
<1> QED BY <1>1, <1>2 DEF Next, Rest

\* Whatever programs and bodies do, each step of the pool is one that TaskPool
\* allows or that no user sees, but for the steps of exposed threads: no
\* submission, pause() or resume(), no task that a worker starts or ends, no
\* exception that it counts and no call of waitIdle() or shutdown() breaks a
\* promise of the pool; some ends of these two calls may, and some starts of a
\* task in waitIdle().
THEOREM KeptElsewhere ==
  Spec => [][\/ [Promise!Next]_(Promise!poolVars)
             \/ \E t \in Threads : Step(t) /\ Exposed(t)]_vars
<1>1. Init => PromiseInv
  BY PromiseInit
<1>2. IInv /\ PromiseInv /\ [Next]_vars
      => /\ PromiseInv'
         /\ \/ [Promise!Next]_(Promise!poolVars)
            \/ \E t \in Threads : Step(t) /\ Exposed(t)
  BY PromiseNext
<1> QED BY <1>1, <1>2, Invariance, PTL DEF Spec

\* And a pool that never gets into the situations keeps its promises.
LEMMA KeptWhileSound == Spec /\ []Sound => ImplementsTaskPool
<1>1. Init => PromiseInv /\ Promise!Init
  BY PromiseInit
<1>2. IInv /\ PromiseInv /\ Sound /\ [Next]_vars
      => PromiseInv' /\ [Promise!Next]_(Promise!poolVars)
  BY PromiseNext
<1> QED BY <1>1, <1>2, Invariance, PTL DEF Spec, ImplementsTaskPool, Promise!Spec

----------------------------------------------------------------------------
\* What brings about what.

LEMMA Traces ==
  ASSUME IInv, NEW t \in Threads, Step(t)
  PROVE  /\ runState' = runState \/ ShutdownWon(t)
         /\ frame'[t].call[1] = "shutdown" => frame[t].call[1] = "shutdown" \/ ShutdownWon(t)
         /\ pc'[t] \in InSubmit => pc[t] \in InSubmit \/ SubmitBegin(t)
         /\ pc'[t] \in {"submitPush"} \cup Returning
            => pc[t] \in {"submitPush"} \cup Returning \/ SubmitAllowed(t)
         /\ pc'[t] = "done" => pc[t] = "done" \/ WorkerStops(t) \/ t \in selfDetach
         /\ \A k \in Tasks : status'[k] = "queued" => status[k] = "queued" \/ SubmitPush(t)
<1> USE DEF poolVars, stateVars, historyVars, restVars, InSubmit, Returning
<1>1. /\ pc \in [Threads -> Labels] /\ frame \in [Threads -> Frames] /\ ControlOK(t)
      /\ status \in [Tasks -> {"unsubmitted", "refused", "queued", "running", "done", "threw"}]
  BY Facts DEF IInv, Types
<1> DEFINE SameCall == frame'[t].call = frame[t].call \/ frame'[t].call[1] # "shutdown"
           Outside == pc'[t] \notin InSubmit \cup {"done"}
<1>2. CASE Submit(t)
  <2>1. CASE SubmitBegin(t)
    <3>1. pc'[t] = "submitCheck" /\ Head(Ops(t))[1] = "submit"
      BY <1>1, <2>1 DEF SubmitBegin, AtOp, Goto
    <3>2. frame'[t] = [Advanced(t) EXCEPT !.call = Head(Ops(t))] /\ Advanced(t) \in Frames
      BY <1>1, <2>1, AdvancedFields DEF SubmitBegin, AtOp
    <3>3. SameCall
      BY <3>1, <3>2 DEF Frames
    <3> QED BY <2>1, <3>1, <3>3 DEF SubmitBegin
  <2>2. CASE SubmitAllowed(t) \/ SubmitSomebodyIdle(t) \/ SubmitBump(t) \/ SubmitCount(t)
    BY <1>1, <2>2 DEF SubmitAllowed, SubmitSomebodyIdle, SubmitBump, SubmitCount, Move, Goto
  <2>3. CASE SubmitRefused(t)
    <3>1. SameCall /\ Outside
      BY <1>1, <2>3 DEF SubmitRefused, Goto, Frames, NoCall
    <3> QED BY <1>1, <2>3, <3>1 DEF SubmitRefused
  <2>4. CASE SubmitPush(t)
    BY <1>1, <2>4 DEF SubmitPush, Goto
  <2>5. CASE SubmitNobodyIdle(t) \/ SubmitNotify(t)
    <3>1. Outside
      <4>1. CASE SubmitNobodyIdle(t)
        BY <1>1, <4>1 DEF SubmitNobodyIdle, Goto
      <4>2. CASE SubmitNotify(t)
        BY <1>1, <4>2 DEF SubmitNotify, Goto
      <4> QED BY <2>5, <4>1, <4>2
    <3>2. SameCall
      BY <1>1, <2>5 DEF SubmitNobodyIdle, SubmitNotify, SubmitReturn, Frames, NoCall
    <3> QED BY <2>5, <3>1, <3>2 DEF SubmitNobodyIdle, SubmitNotify, SubmitReturn
  <2> QED BY <1>2, <2>1, <2>2, <2>3, <2>4, <2>5 DEF Submit
<1>3. CASE Control(t)
  <2>1. CASE Pause(t) \/ ShutdownLost(t)
    <3>1. pc[t] = "run" /\ Ops(t) # <<>> /\ pc'[t] = "run" /\ frame'[t] = Advanced(t)
      BY <1>1, <2>1 DEF Pause, ShutdownLost, Advance, AtOp
    <3>2. SameCall
      BY <3>1, AdvancedFields
    <3> QED BY <2>1, <3>1, <3>2 DEF Pause, ShutdownLost
  <2>2. CASE Resume(t)
    <3>1. /\ pc[t] = "run" /\ Ops(t) # <<>> /\ Head(Ops(t))[1] = "resume" /\ pc'[t] = "wake"
          /\ frame'[t] = [Advanced(t) EXCEPT !.call = Head(Ops(t))]
      BY <1>1, <2>2 DEF Resume, AtOp, Goto
    <3>2. SameCall
      BY <3>1, AdvancedFields DEF Frames
    <3> QED BY <2>2, <3>1, <3>2 DEF Resume
  <2>3. CASE ShutdownWon(t)
    BY <1>1, <2>3 DEF ShutdownWon, Goto
  <2>4. CASE WakeAll(t)
    <3>1. pc'[t] \in {"run", "join", "top", "waitTop"}
      BY <1>1, <2>4 DEF WakeAll
    <3>2. SameCall
      BY <1>1, <2>4 DEF WakeAll, Frames, NoCall
    <3> QED BY <2>4, <3>1, <3>2 DEF WakeAll
  <2>5. CASE JoinWorker(t)
    BY <2>5 DEF JoinWorker
  <2>6. CASE ShutdownReturn(t)
    <3>1. SameCall /\ Outside
      BY <1>1, <2>6 DEF ShutdownReturn, Goto, Frames, NoCall
    <3> QED BY <2>6, <3>1 DEF ShutdownReturn
  <2> QED BY <1>3, <2>1, <2>2, <2>3, <2>4, <2>5, <2>6 DEF Control
<1>4. CASE Fetch(t)
  <2>1. CASE PopOwn(t) \/ StealTop(t) \/ InjectTake(t)
    <3>1. PICK k, q : Fetched(t, k, q)
      BY <2>1 DEF PopOwn, StealTop, InjectTake
    <3>2. frame'[t] = [frame[t] EXCEPT !.task = k, !.from = q, !.offset = 0, !.probe = 0]
      BY <1>1, <3>1 DEF Fetched
    <3>3. SameCall
      BY <1>1, <3>2 DEF Frames
    <3> QED BY <1>1, <3>1, <3>3 DEF Fetched, Goto
  <2>2. CASE WorkerStops(t)
    BY <1>1, <2>2 DEF WorkerStops, Move, Goto
  <2>3. CASE ~(PopOwn(t) \/ StealTop(t) \/ InjectTake(t) \/ WorkerStops(t))
    <3>1. Unseen(t)
      BY <1>4, <2>3, UnseenFetch DEF Fetch
    <3>2. Outside
      <4>1. CASE StealMiss(t) \/ InjectMiss(t) \/ PopNothing(t)
        BY <1>1, <4>1 DEF StealMiss, InjectMiss, PopNothing, Goto
      <4>2. CASE TopPaused(t) \/ TopFetch(t) \/ NonePoll(t) \/ NoneIdle(t) \/ NoneDrained(t)
        BY <1>1, <4>2
           DEF TopPaused, TopFetch, NonePoll, NoneIdle, NoneDrained, StartWait, Move, Goto
      <4> QED BY <1>4, <2>3, <4>1, <4>2 DEF Fetch
    <3> QED BY <3>1, <3>2 DEF Unseen
  <2> QED BY <2>1, <2>2, <2>3
<1>5. CASE Execute(t)
  <2>1. CASE RecheckClear(t) \/ CountActive(t) \/ Get(t) \/ Throw(t) \/ Tell(t)
    <3>1. Unseen(t)
      BY <2>1, UnseenExecute
    <3>2. Outside
      <4>1. CASE Get(t) \/ Throw(t)
        BY <1>1, <4>1 DEF Get, Throw, AtOp, Goto
      <4>2. CASE RecheckClear(t) \/ CountActive(t) \/ Tell(t)
        BY <1>1, <4>2 DEF RecheckClear, CountActive, Tell, Move, Goto
      <4> QED BY <2>1, <4>1, <4>2
    <3> QED BY <3>1, <3>2 DEF Unseen
  <2>2. CASE RecheckPaused(t) \/ Retire(t)
    <3>1. frame'[t].call = frame[t].call
      BY <1>1, <2>2 DEF RecheckPaused, Retire, Frames
    <3> QED BY <1>1, <2>2, <3>1 DEF RecheckPaused, Retire, Goto
  <2>3. CASE StartTask(t)
    <3>1. frame'[t].call = frame[t].call
      BY <1>1, <2>3 DEF StartTask, Frames
    <3> QED BY <1>1, <2>3, <3>1 DEF StartTask, Goto
  <2>4. CASE TaskReturns(t) \/ TaskThrows(t)
    <3>1. frame'[t].call = frame[t].call
      BY <1>1, <2>4 DEF TaskReturns, TaskThrows, Frames
    <3>2. pc'[t] \in {"retire", "except"} \/ (pc'[t] = "done" /\ t \in selfDetach)
      BY <1>1, <2>4 DEF TaskReturns, TaskThrows, TaskDone, Goto
    <3> QED BY <1>1, <2>4, <3>1, <3>2 DEF TaskReturns, TaskThrows
  <2>5. CASE CountException(t)
    BY <1>1, <2>5 DEF CountException, Goto
  <2> QED BY <1>5, <2>1, <2>2, <2>3, <2>4, <2>5 DEF Execute
<1>6. CASE Wait(t)
  <2>1. Unseen(t)
    BY <1>6, UnseenWait
  <2>2. Outside
    BY <1>1, <1>6 DEF Wait, CheckReady, CheckHalf, CheckActive, CheckFalse, Observe, Park,
       EndWait, Move, Goto
  <2> QED BY <2>1, <2>2 DEF Unseen
<1>7. CASE WaitIdle(t)
  <2>1. CASE WaitBegin(t)
    <3>1. pc'[t] = "waitTop"
      BY <1>1, <2>1 DEF WaitBegin, Goto
    <3>2. frame'[t].call = NoCall
      BY <1>1, <2>1, AdvancedFields DEF WaitBegin, AtOp, Frames
    <3> QED BY <2>1, <3>1, <3>2 DEF WaitBegin, NoCall
  <2>2. CASE WaitTop(t) \/ WaitActive(t)
    <3>1. Unseen(t)
      BY <2>2, UnseenWait
    <3>2. Outside
      BY <1>1, <2>2 DEF WaitTop, WaitActive, WaitHelp, Goto
    <3> QED BY <3>1, <3>2 DEF Unseen
  <2>3. CASE WaitExit(t)
    <3>1. frame'[t].call = frame[t].call
      BY <1>1, <2>3 DEF WaitExit, Frames
    <3> QED BY <1>1, <2>3, <3>1 DEF WaitExit, Goto
  <2> QED BY <1>7, <2>1, <2>2, <2>3 DEF WaitIdle
<1> QED BY <1>2, <1>3, <1>4, <1>5, <1>6, <1>7 DEF Step

----------------------------------------------------------------------------
\* shutdown(FinishTasks).  It finishes what has been accepted if nobody submits
\* beside it, and no task calls it: a task cannot wait for its own worker.

FinishOp == <<"shutdown", "Finish">>
Finishes(ops) == \E i \in 1..Len(ops) : ops[i] = FinishOp

FinishesAlone ==
    /\ \A c, d \in Clients : c # d => \A p \in Programs[c], q \in Programs[d] :
          Finishes(p) => NoOp(q, "submit")
    /\ \A k \in Tasks : ~Finishes(Bodies[k])

\* Tasks that threads in waitIdle() run do not submit any.
HelpersTame == \A c \in Clients : InTask(c) => NoOp(frame[c].ops, "submit")

SubmitsNot(c) == NoOp(frame[c].todo, "submit") /\ pc[c] \notin InSubmit

FinishInv ==
    /\ \A c, d \in Clients : c # d /\ Finishes(frame[c].todo) => SubmitsNot(d)
    /\ \A t \in Threads : ~Finishes(frame[t].ops)
    /\ runState = "Finish" =>
          /\ selfDetach = {}
          /\ \A w \in Workers : frame[w].call[1] # "shutdown"
          /\ \A c \in Clients : pc[c] \notin {"submitPush"} \cup Returning
          \* The last worker does not leave before the queues are empty.
          /\ Queued # {} => \E w \in Workers : pc[w] # "done"

LEMMA FinishesTail ==
  ASSUME NEW S, NEW s \in Seq(S), s # <<>>
  PROVE  /\ Finishes(Tail(s)) => Finishes(s)
         /\ Head(s) = FinishOp => Finishes(s)
<1>1. /\ Len(s) \in Nat \ {0} /\ Head(s) = s[1] /\ Len(Tail(s)) = Len(s) - 1
      /\ \A i \in 1..(Len(s) - 1) : Tail(s)[i] = s[i + 1]
  BY HeadTailProperties, EmptySeq, LenProperties
<1>2. \A i \in 1..Len(Tail(s)) : i + 1 \in 1..Len(s) /\ Tail(s)[i] = s[i + 1]
  BY <1>1
<1>3. 1 \in 1..Len(s)
  BY <1>1
<1> QED BY <1>1, <1>2, <1>3 DEF Finishes

LEMMA FinishInit ==
  ASSUME FinishesAlone, Init
  PROVE  FinishInv
<1>1. PICK program \in [Clients -> UNION {Programs[c] : c \in Clients}] :
        /\ \A c \in Clients : program[c] \in Programs[c]
        /\ frame = [t \in Threads |-> IF t \in Workers THEN IdleFrame
                                      ELSE [IdleFrame EXCEPT !.todo = program[t]]]
  BY DEF Init
<1>2. ASSUME NEW c \in Clients PROVE frame[c].todo = program[c] /\ pc[c] = "run"
  <2>1. c \in Threads /\ c \notin Workers
    BY ClientsAssumption DEF Threads
  <2> QED BY <1>1, <2>1 DEF Init, IdleFrame
<1>3. \A t \in Threads : frame[t].ops = <<>>
  BY <1>1 DEF IdleFrame
<1>4. ~Finishes(<<>>)
  BY EmptySeq DEF Finishes
<1>5. runState = "Running"
  BY DEF Init
<1>6. \A c, d \in Clients : c # d /\ Finishes(frame[c].todo) => SubmitsNot(d)
  BY <1>1, <1>2 DEF FinishesAlone, SubmitsNot, InSubmit
<1> QED BY <1>3, <1>4, <1>5, <1>6 DEF FinishInv

\* What a client does outside a task is what is left of its program.
LEMMA FinishPrograms ==
  ASSUME FinishesAlone, IInv, HelpersTame, FinishInv, NEW t \in Threads, Step(t)
  PROVE  /\ \A c, d \in Clients : c # d /\ Finishes(frame'[c].todo) => SubmitsNot(d)'
         /\ \A u \in Threads : ~Finishes(frame'[u].ops)
<1>1. Others(t)
  BY StepOthers
<1>2. ASSUME NEW u \in Threads
      PROVE  /\ Finishes(frame'[u].todo) => Finishes(frame[u].todo)
             /\ NoOp(frame[u].todo, "submit") => NoOp(frame'[u].todo, "submit")
             /\ ~Finishes(frame'[u].ops)
  <2>1. /\ frame[u].todo \in Seq(ClientOperations) /\ frame[u].ops \in Seq(TaskOperations)
        /\ ~Finishes(frame[u].ops)
    BY Facts, Fields DEF FinishInv
  <2>2. CASE u # t
    BY <1>1, <2>1, <2>2 DEF Others
  <2>3. CASE u = t
    <3>1. ~Finishes(<<>>)
      BY EmptySeq DEF Finishes
    <3>2. /\ \/ frame'[t].ops = frame[t].ops
             \/ frame[t].ops # <<>> /\ frame'[t].ops = Tail(frame[t].ops)
             \/ frame'[t].ops = <<>>
             \/ frame[t].task \in Tasks /\ frame'[t].ops = Bodies[frame[t].task]
          /\ \/ frame'[t].todo = frame[t].todo
             \/ frame[t].todo # <<>> /\ frame'[t].todo = Tail(frame[t].todo)
      BY OpsStep
    <3>3. ~Finishes(frame'[t].ops)
      BY <2>1, <2>3, <3>1, <3>2, FinishesTail DEF FinishesAlone
    <3>4. Finishes(frame'[t].todo) => Finishes(frame[t].todo)
      BY <2>1, <2>3, <3>2, FinishesTail
    <3>5. NoOp(frame[t].todo, "submit") => NoOp(frame'[t].todo, "submit")
      BY <2>1, <2>3, <3>2, NoOpTail
    <3> QED BY <2>3, <3>3, <3>4, <3>5
  <2> QED BY <2>2, <2>3
<1>3. ASSUME NEW d \in Clients, SubmitsNot(d) PROVE SubmitsNot(d)'
  <2>1. d \in Threads /\ NoOp(frame'[d].todo, "submit")
    BY <1>2, <1>3 DEF Threads, SubmitsNot
  <2>2. CASE d # t
    BY <1>1, <1>3, <2>1, <2>2 DEF Others, SubmitsNot, InSubmit
  <2>3. CASE d = t
    <3>1. ASSUME SubmitBegin(t) PROVE FALSE
      <4>1. Ops(t) # <<>> /\ Head(Ops(t))[1] = "submit"
        BY <3>1 DEF SubmitBegin, AtOp
      <4>2. /\ frame[t].todo \in Seq(ClientOperations) /\ frame[t].ops \in Seq(TaskOperations)
        BY Facts, Fields
      <4>3. NoOp(Ops(t), "submit")
        BY <1>3, <2>3 DEF HelpersTame, SubmitsNot, Ops
      <4> QED BY <4>1, <4>2, <4>3, NoOpTail DEF Ops
    <3>2. pc'[t] \notin InSubmit
      BY <1>3, <2>3, <3>1, Traces DEF SubmitsNot
    <3> QED BY <2>1, <2>3, <3>2 DEF SubmitsNot
  <2> QED BY <2>2, <2>3
<1>4. Clients \subseteq Threads
  BY DEF Threads
<1> QED BY <1>2, <1>3, <1>4 DEF FinishInv

\* A worker leaves when no task is pending; if it is the last, none is queued.
LEMMA LastLeaves ==
  ASSUME IInv, runState = "Finish", NEW w \in Workers, WorkerStops(w),
         \A u \in Workers \ {w} : pc[u] = "done",
         \A c \in Clients : pc[c] \notin {"submitPush"} \cup Returning
  PROVE  Queued = {}
<1>1. pendingTasks = 0 /\ pc[w] \in {"top", "none"}
  BY DEF WorkerStops, Stopped
<1>2. Counting = {}
  BY <1>1 DEF Counting, Threads, Returning
<1>3. Cardinality(Counting) = 0
  BY <1>2, FS_EmptySet
<1>4. /\ Cardinality(Queued) \in Nat /\ Cardinality(Queued) < SizeModulus
      /\ Queued # {} => Cardinality(Queued) > 0
  BY PendingRange
<1>5. Wrap(Cardinality(Queued)) = 0
  <2>1. pendingTasks = Wrap(Cardinality(Queued) - Cardinality(Counting))
    BY DEF IInv, CountInv
  <2>2. Cardinality(Queued) - Cardinality(Counting) = Cardinality(Queued)
    BY <1>3, <1>4
  <2> QED BY <1>1, <2>1, <2>2
<1>6. \A n, m \in Nat : n < m /\ n % m = 0 => n = 0
  OBVIOUS
<1> QED BY <1>4, <1>5, <1>6, Sizes DEF Wrap

LEMMA FinishStep ==
  ASSUME FinishesAlone, IInv, PromiseInv, HelpersTame, FinishInv, NEW t \in Threads, Step(t)
  PROVE  FinishInv'
<1>1. /\ \A c, d \in Clients : c # d /\ Finishes(frame'[c].todo) => SubmitsNot(d)'
      /\ \A u \in Threads : ~Finishes(frame'[u].ops)
  BY FinishPrograms
<1>2. Others(t) /\ pc \in [Threads -> Labels] /\ frame \in [Threads -> Frames]
  BY StepOthers, Facts
<1>3. CASE runState' # "Finish"
  BY <1>1, <1>3 DEF FinishInv
<1>4. CASE ShutdownWon(t) /\ runState' = "Finish"
  <2>1. /\ pc[t] = "run" /\ Ops(t) # <<>> /\ Head(Ops(t))[1] = "shutdown"
        /\ Head(Ops(t))[2] = "Finish" /\ runState = "Running" /\ pc'[t] = "wake"
        /\ UNCHANGED <<joining, selfDetach>>
    BY <1>2, <1>4 DEF ShutdownWon, AtOp, Goto, joinVars
  <2>2. /\ frame[t].todo \in Seq(ClientOperations) /\ frame[t].ops \in Seq(TaskOperations)
    BY Facts, Fields
  <2>3. Head(Ops(t)) = FinishOp
    <3>1. Head(Ops(t)) \in Operations
      BY <2>1, Advancing, OpKinds
    <3> QED BY <2>1, <3>1 DEF Operations, FinishOp
  <2>4. ~InTask(t) /\ Finishes(frame[t].todo)
    <3>1. Finishes(Ops(t))
      BY <2>1, <2>2, <2>3, FinishesTail DEF Ops
    <3> QED BY <3>1 DEF FinishInv, Ops
  <2>5. t \in Clients
    BY <2>1, <2>4, Facts DEF ControlOK, InTask, Threads
  <2>6. selfDetach' = {} /\ \A w \in Workers : frame'[w].call[1] # "shutdown" /\ pc'[w] # "done"
    <3>1. \A w \in Workers : w \in Threads /\ w # t
      BY <2>5, ClientsAssumption DEF Threads
    <3>2. StoppedInv
      BY DEF PromiseInv
    <3> QED BY <1>2, <2>1, <3>1, <3>2 DEF StoppedInv, Others
  <2>7. \A c \in Clients : pc'[c] \notin {"submitPush"} \cup Returning
    <3> SUFFICES ASSUME NEW c \in Clients PROVE pc'[c] \notin {"submitPush"} \cup Returning
      OBVIOUS
    <3>1. CASE c = t
      BY <2>1, <3>1 DEF Returning
    <3>2. CASE c # t
      <4>1. pc[c] \notin InSubmit
        BY <2>4, <2>5, <3>2 DEF FinishInv, SubmitsNot
      <4> QED BY <1>2, <3>2, <4>1 DEF Others, InSubmit, Returning, Threads
    <3> QED BY <3>1, <3>2
  <2>8. \E w \in Workers : pc'[w] # "done"
    BY <2>6, Sizes
  <2> QED BY <1>1, <2>6, <2>7, <2>8 DEF FinishInv
<1>5. CASE runState = "Finish" /\ runState' = "Finish"
  <2>1. ~ShutdownWon(t) /\ ~SubmitAllowed(t)
    BY <1>5 DEF ShutdownWon, SubmitAllowed
  <2>2. \A w \in Workers : frame'[w].call[1] # "shutdown"
    BY <1>2, <1>5, <2>1, Traces DEF FinishInv, Others, Threads
  <2>3. selfDetach' = {}
    <3>1. CASE JoinWorker(t)
      <4>1. pc[t] = "join" /\ frame[t].call[1] = "shutdown"
        BY <3>1, Facts DEF JoinWorker, ControlOK
      <4>2. joining # t
        BY <1>5, <3>1, <4>1, Sizes DEF FinishInv, JoinWorker, Workers, IInv, Types
      <4> QED BY <1>5, <3>1, <4>2 DEF JoinWorker, FinishInv
    <3>2. CASE ~JoinWorker(t)
      BY <1>5, <3>2, JoinVarsKept DEF joinVars, FinishInv
    <3> QED BY <3>1, <3>2
  <2>4. \A c \in Clients : pc'[c] \notin {"submitPush"} \cup Returning
    BY <1>2, <1>5, <2>1, Traces DEF FinishInv, Others, Threads, Returning
  <2>5. ASSUME Queued' # {} PROVE \E w \in Workers : pc'[w] # "done"
    <3>1. CASE SubmitPush(t)
      <4>1. t \in Workers
        BY <1>5, <3>1 DEF FinishInv, SubmitPush, Threads
      <4>2. pc'[t] = "submitCount"
        BY <1>2, <3>1 DEF SubmitPush, Goto
      <4> QED BY <4>1, <4>2
    <3>2. CASE ~SubmitPush(t)
      <4>1. Queued # {}
        BY <2>5, <3>2, Traces DEF Queued
      <4>2. PICK w \in Workers : pc[w] # "done"
        BY <1>5, <4>1 DEF FinishInv
      <4>3. CASE \E u \in Workers \ {t} : pc[u] # "done"
        BY <1>2, <4>3 DEF Others, Threads
      <4>4. CASE \A u \in Workers \ {t} : pc[u] = "done"
        <5>1. w = t /\ t \in Workers
          BY <4>2, <4>4
        <5>2. ~WorkerStops(t)
          BY <1>5, <4>1, <4>4, <5>1, LastLeaves DEF FinishInv
        <5>3. pc'[t] # "done"
          BY <1>5, <4>2, <5>1, <5>2, Traces DEF FinishInv
        <5> QED BY <5>1, <5>3
      <4> QED BY <4>3, <4>4
    <3> QED BY <3>1, <3>2
  <2> QED BY <1>1, <2>2, <2>3, <2>4, <2>5 DEF FinishInv
<1> QED BY <1>3, <1>4, <1>5, Traces

LEMMA FinishNext ==
  ASSUME FinishesAlone, IInv, PromiseInv, HelpersTame, FinishInv, [Next]_vars
  PROVE  FinishInv'
<1>1. CASE UNCHANGED vars
  BY <1>1 DEF vars, stateVars, joinVars, historyVars, FinishInv, SubmitsNot, Queued
<1> QED BY <1>1, FinishStep DEF Next, Rest

\* When shutdown(FinishTasks) is through with the workers, no task is left.
LEMMA FinishSound ==
  ASSUME IInv, PromiseInv, FinishInv, runState = "Finish",
         \A w \in Workers : pc[w] = "done",
         \A c \in Clients : InTask(c) => status[frame[c].task] # "running"
  PROVE  accepted \subseteq Finished
<1> SUFFICES ASSUME NEW k \in accepted PROVE status[k] \in {"done", "threw"}
  BY DEF Finished, IInv, Types
<1>1. k \in Tasks /\ status[k] \in Fates
  BY DEF PromiseInv, ReturnedOnce, IInv, Types
<1>2. status[k] # "queued"
  BY <1>1 DEF FinishInv, Queued
<1>3. ASSUME status[k] = "running" PROVE FALSE
  <2>1. PICK u \in Threads : frame[u].task = k /\ pc[u] \in Busy
    BY <1>1, <1>3 DEF PromiseInv, RunningInv
  <2>2. u \in Clients /\ InTask(u)
    BY <1>1, <2>1, TasksAssumption DEF Threads, Busy, InSubmit, InTask
  <2> QED BY <1>3, <2>1, <2>2
<1> QED BY <1>1, <1>2, <1>3 DEF Fates

LEMMA LastJoinFinishes ==
  ASSUME IInv, PromiseInv, FinishInv, runState = "Finish", NEW t \in Threads, LastJoin(t),
         \A c \in Clients : InTask(c) => status[frame[c].task] # "running"
  PROVE  accepted \subseteq Finished
<1>1. joining \in Workers /\ joining \in Int
  BY Sizes DEF LastJoin, Workers, IInv, Types
<1>2. pc[joining] = "done"
  <2>1. frame[t].call[1] = "shutdown"
    BY Facts DEF LastJoin, ControlOK
  <2>2. t # joining
    BY <1>1, <2>1 DEF FinishInv
  <2> QED BY <2>2 DEF LastJoin
<1>3. ASSUME NEW w \in Workers PROVE pc[w] = "done"
  <2>1. w < joining \/ w = joining
    BY <1>1, Sizes DEF Workers, LastJoin
  <2> QED BY <1>2, <2>1 DEF PromiseInv, JoinInv, FinishInv
<1> QED BY <1>3, FinishSound

----------------------------------------------------------------------------
\* Programs that do not call waitIdle().

\* Clients then run no tasks.
LEMMA NoHelpers ==
  ASSUME IInv, NoWaiters
  PROVE  HelpersTame /\ \A c \in Clients : ~InTask(c) /\ pc[c] \notin {"pend", "waitExit"}
<1> SUFFICES ASSUME NEW c \in Clients PROVE ~InTask(c) /\ pc[c] \notin {"pend", "waitExit"}
  BY DEF HelpersTame
<1>1. c \in Threads /\ ControlOK(c) /\ ~frame[c].draining
  BY Facts DEF Threads, NoWaiters
<1> QED BY <1>1 DEF ControlOK, InTask, InWaitIdle, Hands

LEMMA SoundAlone ==
  ASSUME IInv, PromiseInv, NoWaiters, FinishInv
  PROVE  Sound
<1>1. \A c \in Clients : ~InTask(c) /\ pc[c] \notin {"pend", "waitExit"}
  BY NoHelpers
<1>2. ASSUME NEW t \in Threads, LastJoin(t), runState = "Finish" PROVE accepted \subseteq Finished
  BY <1>1, <1>2, LastJoinFinishes
<1> QED BY <1>1, <1>2 DEF Sound

\* A pool on which nobody calls waitIdle() keeps its promises, whatever else its
\* clients and tasks do, but that shutdown(FinishTasks) is called by a client
\* beside which no other client submits.
THEOREM KeepsPromises ==
  ASSUME NobodyWaits, FinishesAlone
  PROVE  Spec => ImplementsTaskPool
<1>1. Init => NoWaiters /\ PromiseInv /\ FinishInv
  BY NoWaitersInv, PromiseInit, FinishInit
<1>2. IInv /\ NoWaiters /\ PromiseInv /\ FinishInv => Sound
  BY SoundAlone
<1>3. IInv /\ NoWaiters /\ PromiseInv /\ FinishInv /\ [Next]_vars
      => NoWaiters' /\ PromiseInv' /\ FinishInv'
  BY <1>2, NoWaitersInv, NoHelpers, PromiseNext, FinishNext
<1>4. Spec => []Sound
  BY <1>1, <1>2, <1>3, Invariance, PTL DEF Spec
<1> QED BY <1>4, KeptWhileSound, PTL

\* Of such a pool, pause() stops every thread but those that had passed their last
\* check, and shutdown(FinishTasks) has run every task that was accepted when the
\* last worker has returned.
THEOREM PausesAndFinishes ==
  ASSUME NobodyWaits, FinishesAlone
  PROVE  Spec => PauseStopsEveryone /\ []ShutdownDrains
<1>1. Init => NoWaiters /\ PromiseInv /\ FinishInv
  BY NoWaitersInv, PromiseInit, FinishInit
<1>2. IInv /\ NoWaiters /\ PromiseInv /\ FinishInv => Sound /\ ShutdownDrains
  <2>1. IInv /\ NoWaiters /\ PromiseInv /\ FinishInv => Sound
    BY SoundAlone
  <2>2. IInv /\ NoWaiters /\ PromiseInv /\ FinishInv => ShutdownDrains
    BY NoHelpers, FinishSound DEF ShutdownDrains
  <2> QED BY <2>1, <2>2
<1>3. IInv /\ NoWaiters /\ PromiseInv /\ FinishInv /\ [Next]_vars
      => NoWaiters' /\ PromiseInv' /\ FinishInv'
  BY <1>2, NoWaitersInv, NoHelpers, PromiseNext, FinishNext
<1>4. IInv /\ NoWaiters /\ PromiseInv /\ [Next]_vars
      => [\A t \in Threads : (Held /\ pc[t] = "pend" /\ pc'[t] = "run") => t \in passed]_vars
  BY NoHelpers DEF PromiseInv, HeldInv, Threads
<1> QED BY <1>1, <1>2, <1>3, <1>4, Invariance, PTL DEF Spec, PauseStopsEveryone

----------------------------------------------------------------------------
\* A single user: one client does as it likes, but that it resumes the pool before
\* it waits for it; the other clients, and the tasks, wait for results at most.

\* What is left of a program when its next operation is done.
LEMMA AdvancedTodo ==
  ASSUME IInv, NEW t \in Threads, pc[t] = "run", Ops(t) # <<>>
  PROVE  \/ InTask(t) /\ Advanced(t).todo = frame[t].todo
         \/ /\ ~InTask(t) /\ frame[t].todo # <<>> /\ Ops(t) = frame[t].todo
            /\ Advanced(t).todo = Tail(frame[t].todo)
<1>1. /\ frame[t] \in Frames /\ frame[t].todo \in Seq(ClientOperations)
      /\ frame[t].ops \in Seq(TaskOperations)
  BY Facts, Fields
<1>2. CASE InTask(t)
  <2>1. Advanced(t) = [frame[t] EXCEPT !.ops = Tail(frame[t].ops)]
    BY <1>2 DEF Advanced
  <2> QED BY <1>1, <1>2, <2>1 DEF Frames
<1>3. CASE ~InTask(t)
  <2>1. Ops(t) = frame[t].todo /\ Advanced(t) = [frame[t] EXCEPT !.todo = Tail(frame[t].todo)]
    BY <1>3 DEF Ops, Advanced
  <2> QED BY <1>1, <1>3, <2>1 DEF Frames
<1> QED BY <1>2, <1>3

\* What else brings about what.
LEMMA Effects ==
  ASSUME IInv, NEW t \in Threads, Step(t)
  PROVE  /\ paused' = paused \/ Pause(t) \/ Resume(t)
         /\ frame'[t].call \in {frame[t].call, NoCall} \/ SubmitBegin(t) \/ Resume(t) \/ ShutdownWon(t)
         /\ accepted \subseteq accepted'
         /\ frame'[t].seen \in {frame[t].seen, {}} \/ (WaitBegin(t) /\ frame'[t].seen = accepted)
         /\ \/ frame'[t].todo = frame[t].todo
            \/ /\ pc[t] = "run" /\ ~InTask(t) /\ frame[t].todo # <<>>
               /\ frame'[t].todo = Tail(frame[t].todo)
               /\ Head(frame[t].todo)[1] = "resume" => Resume(t)
         /\ frame[t].task = NoTask /\ frame'[t].task # NoTask => pc'[t] \in {"recheck", "act"}
<1> USE DEF poolVars, stateVars, historyVars, restVars
<1>1. /\ pc \in [Threads -> Labels] /\ frame \in [Threads -> Frames] /\ ControlOK(t)
  BY Facts
<1> DEFINE SameOld == /\ frame'[t].call \in {frame[t].call, NoCall}
                      /\ frame'[t].seen = frame[t].seen /\ frame'[t].task = frame[t].task
                      /\ frame'[t].todo = frame[t].todo
<1>2. ASSUME pc[t] = "run", Ops(t) # <<>>,
             \/ frame'[t] = Advanced(t)
             \/ frame'[t] = [Advanced(t) EXCEPT !.call = Head(Ops(t))]
      PROVE  /\ frame'[t].task = frame[t].task /\ frame'[t].seen = frame[t].seen
             /\ frame'[t] = Advanced(t) => frame'[t].call = NoCall
             /\ \/ frame'[t].todo = frame[t].todo
                \/ /\ ~InTask(t) /\ frame[t].todo # <<>> /\ Ops(t) = frame[t].todo
                   /\ frame'[t].todo = Tail(frame[t].todo)
  <2>1. /\ Advanced(t) \in Frames /\ Advanced(t).task = frame[t].task
        /\ Advanced(t).seen = frame[t].seen /\ Advanced(t).call = NoCall
    BY <1>2, AdvancedFields
  <2>2. /\ frame'[t].task = Advanced(t).task /\ frame'[t].seen = Advanced(t).seen
        /\ frame'[t].todo = Advanced(t).todo
    BY <1>2, <2>1 DEF Frames
  <2>3. \/ InTask(t) /\ Advanced(t).todo = frame[t].todo
        \/ /\ ~InTask(t) /\ frame[t].todo # <<>> /\ Ops(t) = frame[t].todo
           /\ Advanced(t).todo = Tail(frame[t].todo)
    BY <1>2, AdvancedTodo
  <2> QED BY <2>1, <2>2, <2>3
<1>3. CASE Submit(t)
  <2>1. CASE SubmitBegin(t)
    <3>1. pc[t] = "run" /\ Ops(t) # <<>> /\ Head(Ops(t))[1] = "submit"
      BY <2>1 DEF SubmitBegin, AtOp
    <3>2. frame'[t] = [Advanced(t) EXCEPT !.call = Head(Ops(t))]
      BY <1>1, <2>1 DEF SubmitBegin
    <3> QED BY <1>2, <2>1, <3>1, <3>2 DEF SubmitBegin
  <2>2. CASE SubmitAllowed(t) \/ SubmitSomebodyIdle(t) \/ SubmitBump(t) \/ SubmitCount(t)
             \/ SubmitPush(t)
    BY <2>2 DEF SubmitAllowed, SubmitSomebodyIdle, SubmitBump, SubmitCount, SubmitPush, Move
  <2>3. CASE SubmitRefused(t)
    <3>1. SameOld
      BY <1>1, <2>3 DEF SubmitRefused, Frames
    <3> QED BY <2>3, <3>1 DEF SubmitRefused
  <2>4. CASE SubmitNobodyIdle(t) \/ SubmitNotify(t)
    <3>1. SameOld
      BY <1>1, <2>4 DEF SubmitNobodyIdle, SubmitNotify, SubmitReturn, Frames
    <3> QED BY <2>4, <3>1 DEF SubmitNobodyIdle, SubmitNotify, SubmitReturn
  <2> QED BY <1>3, <2>1, <2>2, <2>3, <2>4 DEF Submit
<1>4. CASE Control(t)
  <2>1. CASE Pause(t) \/ ShutdownLost(t)
    <3>1. /\ pc[t] = "run" /\ Ops(t) # <<>> /\ Head(Ops(t))[1] \in {"pause", "shutdown"}
          /\ frame'[t] = Advanced(t)
      BY <1>1, <2>1 DEF Pause, ShutdownLost, Advance, AtOp
    <3> QED BY <1>2, <2>1, <3>1 DEF Pause, ShutdownLost
  <2>2. CASE Resume(t) \/ ShutdownWon(t)
    <3>1. pc[t] = "run" /\ Ops(t) # <<>>
      BY <2>2 DEF Resume, ShutdownWon, AtOp
    <3>2. ShutdownWon(t) => Head(Ops(t))[1] = "shutdown"
      BY DEF ShutdownWon, AtOp
    <3>3. frame'[t] = [Advanced(t) EXCEPT !.call = Head(Ops(t))]
      BY <1>1, <2>2 DEF Resume, ShutdownWon
    <3>4. UNCHANGED accepted /\ (ShutdownWon(t) => UNCHANGED paused)
      BY <2>2 DEF Resume, ShutdownWon
    <3> QED BY <1>2, <2>2, <3>1, <3>2, <3>3, <3>4
  <2>3. CASE WakeAll(t)
    <3>1. SameOld
      BY <1>1, <2>3 DEF WakeAll, Frames
    <3> QED BY <2>3, <3>1 DEF WakeAll
  <2>4. CASE JoinWorker(t)
    BY <2>4 DEF JoinWorker
  <2>5. CASE ShutdownReturn(t)
    <3>1. SameOld
      BY <1>1, <2>5 DEF ShutdownReturn, Frames
    <3> QED BY <2>5, <3>1 DEF ShutdownReturn
  <2> QED BY <1>4, <2>1, <2>2, <2>3, <2>4, <2>5 DEF Control
<1>5. CASE Fetch(t)
  <2>1. CASE PopOwn(t) \/ StealTop(t) \/ InjectTake(t)
    <3>1. PICK k, q : Fetched(t, k, q)
      BY <2>1 DEF PopOwn, StealTop, InjectTake
    <3>2. frame'[t] = [frame[t] EXCEPT !.task = k, !.from = q, !.offset = 0, !.probe = 0]
      BY <1>1, <3>1 DEF Fetched
    <3>3. /\ frame'[t].call = frame[t].call /\ frame'[t].seen = frame[t].seen
          /\ frame'[t].todo = frame[t].todo
      BY <1>1, <3>2 DEF Frames
    <3> QED BY <1>1, <3>1, <3>3 DEF Fetched, Goto
  <2>2. CASE ~(PopOwn(t) \/ StealTop(t) \/ InjectTake(t))
    <3>1. Unseen(t)
      BY <1>5, <2>2, UnseenFetch DEF Fetch
    <3>2. frame'[t].call = frame[t].call /\ frame'[t].todo = frame[t].todo
      <4>1. CASE StealMiss(t)
        <5>1. CASE frame[t].probe + 1 < Victims(t)
          BY <1>1, <4>1, <5>1 DEF StealMiss, Frames
        <5>2. CASE ~(frame[t].probe + 1 < Victims(t))
          BY <1>1, <4>1, <5>2 DEF StealMiss, Frames
        <5> QED BY <5>1, <5>2
      <4>2. CASE InjectMiss(t) \/ PopNothing(t)
        BY <1>1, <4>2 DEF InjectMiss, PopNothing, Frames
      <4>3. CASE TopPaused(t) \/ NoneIdle(t) \/ NoneDrained(t)
        BY <1>1, <4>3 DEF TopPaused, NoneIdle, NoneDrained, StartWait, Frames
      <4>4. CASE TopFetch(t) \/ NonePoll(t) \/ WorkerStops(t)
        BY <4>4 DEF TopFetch, NonePoll, WorkerStops, Move
      <4> QED BY <1>5, <2>2, <4>1, <4>2, <4>3, <4>4 DEF Fetch
    <3> QED BY <3>1, <3>2 DEF Unseen
  <2> QED BY <2>1, <2>2
<1>6. CASE Execute(t)
  <2>1. CASE Get(t) \/ Throw(t)
    <3>1. /\ pc[t] = "run" /\ Ops(t) # <<>> /\ Head(Ops(t))[1] \in {"get", "throw"}
          /\ frame'[t] = Advanced(t)
      BY <1>1, <2>1 DEF Get, Throw, Advance, AtOp
    <3> QED BY <1>2, <2>1, <3>1 DEF Get, Throw
  <2>2. CASE RecheckPaused(t) \/ Retire(t)
    <3>1. /\ frame'[t].call = frame[t].call /\ frame'[t].seen = frame[t].seen
          /\ frame'[t].todo = frame[t].todo /\ frame'[t].task = NoTask
      BY <1>1, <2>2 DEF RecheckPaused, Retire, Frames
    <3> QED BY <2>2, <3>1 DEF RecheckPaused, Retire
  <2>3. CASE StartTask(t) \/ TaskThrows(t) \/ CountActive(t)
    <3>1. SameOld
      BY <1>1, <2>3 DEF StartTask, TaskThrows, CountActive, Frames
    <3> QED BY <2>3, <3>1 DEF StartTask, TaskThrows, CountActive
  <2>4. CASE RecheckClear(t) \/ Tell(t) \/ TaskReturns(t) \/ CountException(t)
    BY <2>4 DEF RecheckClear, Tell, TaskReturns, CountException, Move
  <2> QED BY <1>6, <2>1, <2>2, <2>3, <2>4 DEF Execute
<1>7. CASE Wait(t)
  <2>1. EndWait(t) => SameOld
    BY <1>1 DEF EndWait, Frames
  <2>2. frame' = frame \/ EndWait(t)
    BY <1>7 DEF Wait, CheckReady, CheckHalf, CheckActive, CheckFalse, Observe, Park, Move
  <2>3. UNCHANGED <<paused, accepted>>
    BY <1>7, UnseenWait DEF Unseen
  <2> QED BY <2>1, <2>2, <2>3
<1>8. CASE WaitIdle(t)
  <2>1. CASE WaitBegin(t)
    <3>1. pc[t] = "run" /\ Ops(t) # <<>> /\ Head(Ops(t))[1] = "waitIdle"
      BY <2>1 DEF WaitBegin, AtOp
    <3>2. frame'[t] = [Advanced(t) EXCEPT !.draining = TRUE, !.seen = accepted]
      BY <1>1, <2>1 DEF WaitBegin
    <3>3. /\ frame'[t].task = frame[t].task /\ frame'[t].call = NoCall
          /\ frame'[t].seen = accepted /\ frame'[t].todo = Advanced(t).todo
      BY <3>1, <3>2, AdvancedFields DEF Frames
    <3>4. \/ Advanced(t).todo = frame[t].todo
          \/ /\ ~InTask(t) /\ frame[t].todo # <<>> /\ Ops(t) = frame[t].todo
             /\ Advanced(t).todo = Tail(frame[t].todo)
      BY <3>1, AdvancedTodo
    <3> QED BY <2>1, <3>1, <3>3, <3>4 DEF WaitBegin
  <2>2. CASE WaitTop(t) \/ WaitActive(t)
    <3>1. SameOld
      BY <1>1, <2>2 DEF WaitTop, WaitActive, WaitHelp, Frames
    <3> QED BY <2>2, <3>1 DEF WaitTop, WaitActive
  <2>3. CASE WaitExit(t)
    <3>1. /\ frame'[t].call = frame[t].call /\ frame'[t].seen = {}
          /\ frame'[t].todo = frame[t].todo /\ frame'[t].task = frame[t].task
      BY <1>1, <2>3 DEF WaitExit, Frames
    <3> QED BY <2>3, <3>1 DEF WaitExit
  <2> QED BY <1>8, <2>1, <2>2, <2>3 DEF WaitIdle
<1> QED BY <1>3, <1>4, <1>5, <1>6, <1>7, <1>8 DEF Step

\* Every operation of a sequence is of one of these kinds.
OnlyOps(ops, kinds) == \A i \in 1..Len(ops) : ops[i][1] \in kinds

\* The program resumes the pool before it calls waitIdle(), or does so whenever it
\* has paused it.
Resumes(ops) == \A j \in 1..Len(ops) :
    ops[j][1] = "waitIdle" => \E m \in 1..j : ops[m][1] = "resume"
ResumedFirst(ops) == \A i, j \in 1..Len(ops) :
    i < j /\ ops[i][1] = "pause" /\ ops[j][1] = "waitIdle"
    => \E m \in i..j : ops[m][1] = "resume"

SingleUser(f) ==
    /\ f \in Clients
    /\ \A c \in Clients \ {f} : \A p \in Programs[c] : OnlyOps(p, {"get"})
    /\ \A k \in Tasks : OnlyOps(Bodies[k], {"get", "throw"})
    /\ \A p \in Programs[f] : ResumedFirst(p)

\* What the others and the tasks do.
OthersOnlyGet(f) == \A c \in Clients \ {f} : /\ OnlyOps(frame[c].todo, {"get"})
                                             /\ pc[c] = "run" /\ frame[c].task = NoTask
TasksTame == \A t \in Threads : OnlyOps(frame[t].ops, {"get", "throw"})
NoTaskCalls == \A t \in Threads : frame[t].task # NoTask => frame[t].call = NoCall

\* The user does not wait for a pool that it has paused,
NeverWaitsPaused(f) ==
    /\ ResumedFirst(frame[f].todo)
    /\ paused => Resumes(frame[f].todo)
    /\ frame[f].draining => ~paused

\* leaves waitIdle() at once if the pool has been stopped, and else when no task is
\* queued or runs.
Drained(f) ==
    /\ frame[f].draining /\ runState # "Running" => pc[f] \in {"waitTop", "waitExit"}
    /\ pc[f] = "waitActive" => Queued = {}
    /\ pc[f] = "waitExit" /\ runState = "Running" => Queued = {} /\ Executing = {}

SeenAccepted == \A c \in Clients : frame[c].seen \subseteq accepted

UserInv(f) ==
    /\ OthersOnlyGet(f) /\ TasksTame /\ NoTaskCalls
    /\ NeverWaitsPaused(f) /\ Drained(f) /\ SeenAccepted

LEMMA FirstAndRest ==
  ASSUME NEW S, NEW s \in Seq(S), s # <<>>
  PROVE  /\ Len(s) \in Nat \ {0} /\ Head(s) = s[1] /\ Tail(s) \in Seq(S)
         /\ Len(Tail(s)) = Len(s) - 1
         /\ \A i \in 1..Len(Tail(s)) : i + 1 \in 1..Len(s) /\ Tail(s)[i] = s[i + 1]
<1>1. /\ Len(s) \in Nat \ {0} /\ Head(s) = s[1] /\ Len(Tail(s)) = Len(s) - 1
      /\ Tail(s) \in Seq(S) /\ \A i \in 1..(Len(s) - 1) : Tail(s)[i] = s[i + 1]
  BY HeadTailProperties, EmptySeq, LenProperties
<1>2. \A i \in 1..Len(Tail(s)) : i + 1 \in 1..Len(s) /\ Tail(s)[i] = s[i + 1]
  BY <1>1
<1> QED BY <1>1, <1>2

LEMMA OnlyOpsTail ==
  ASSUME NEW S, NEW s \in Seq(S), s # <<>>, NEW kinds, OnlyOps(s, kinds)
  PROVE  OnlyOps(Tail(s), kinds) /\ Head(s)[1] \in kinds
<1>1. 1 \in 1..Len(s)
  BY FirstAndRest
<1> QED BY <1>1, FirstAndRest DEF OnlyOps

LEMMA OnlyOpsEmpty == \A kinds : OnlyOps(<<>>, kinds)
<1> QED BY EmptySeq DEF OnlyOps

\* What is left of a program that resumes the pool in time does so too.
LEMMA ResumesTail ==
  ASSUME NEW S, NEW s \in Seq(S), s # <<>>, ResumedFirst(s)
  PROVE  /\ ResumedFirst(Tail(s))
         /\ Head(s)[1] = "pause" => Resumes(Tail(s))
         /\ Resumes(s) /\ Head(s)[1] # "resume" => Resumes(Tail(s)) /\ Head(s)[1] # "waitIdle"
<1>1. /\ Len(s) \in Nat \ {0} /\ Head(s) = s[1] /\ Len(Tail(s)) = Len(s) - 1
      /\ \A i \in 1..Len(Tail(s)) : i + 1 \in 1..Len(s) /\ Tail(s)[i] = s[i + 1]
      /\ 1 \in 1..Len(s)
  BY FirstAndRest
<1>2. \A m \in 2..Len(s) : m - 1 \in 1..Len(Tail(s)) /\ Tail(s)[m - 1] = s[m]
  <2>1. \A m \in 2..Len(s) : m - 1 \in 1..Len(Tail(s)) /\ (m - 1) + 1 = m
    BY <1>1
  <2> QED BY <1>1, <2>1
<1>3. ResumedFirst(Tail(s))
  <2> SUFFICES ASSUME NEW i \in 1..Len(Tail(s)), NEW j \in 1..Len(Tail(s)), i < j,
                      Tail(s)[i][1] = "pause", Tail(s)[j][1] = "waitIdle"
               PROVE  \E m \in i..j : Tail(s)[m][1] = "resume"
    BY DEF ResumedFirst
  <2>1. PICK m \in (i + 1)..(j + 1) : s[m][1] = "resume"
    BY <1>1 DEF ResumedFirst
  <2>2. m - 1 \in i..j /\ Tail(s)[m - 1] = s[m]
    BY <1>1, <1>2
  <2> QED BY <2>1, <2>2
<1>4. ASSUME Head(s)[1] = "pause" PROVE Resumes(Tail(s))
  <2> SUFFICES ASSUME NEW j \in 1..Len(Tail(s)), Tail(s)[j][1] = "waitIdle"
               PROVE  \E m \in 1..j : Tail(s)[m][1] = "resume"
    BY DEF Resumes
  <2>1. PICK m \in 1..(j + 1) : s[m][1] = "resume"
    BY <1>1, <1>4 DEF ResumedFirst
  <2>2. m # 1
    BY <1>1, <1>4, <2>1
  <2>3. m - 1 \in 1..j /\ Tail(s)[m - 1] = s[m]
    BY <1>1, <1>2, <2>2
  <2> QED BY <2>1, <2>3
<1>5. ASSUME Resumes(s), Head(s)[1] # "resume" PROVE Resumes(Tail(s)) /\ Head(s)[1] # "waitIdle"
  <2>1. Head(s)[1] # "waitIdle"
    <3>1. ASSUME Head(s)[1] = "waitIdle" PROVE FALSE
      <4>1. PICK m \in 1..1 : s[m][1] = "resume"
        BY <1>1, <1>5, <3>1 DEF Resumes
      <4> QED BY <1>1, <1>5, <4>1
    <3> QED BY <3>1
  <2> SUFFICES ASSUME NEW j \in 1..Len(Tail(s)), Tail(s)[j][1] = "waitIdle"
               PROVE  \E m \in 1..j : Tail(s)[m][1] = "resume"
    BY <2>1 DEF Resumes
  <2>2. PICK m \in 1..(j + 1) : s[m][1] = "resume"
    BY <1>1, <1>5 DEF Resumes
  <2>3. m # 1
    BY <1>1, <1>5, <2>2
  <2>4. m - 1 \in 1..j /\ Tail(s)[m - 1] = s[m]
    BY <1>1, <1>2, <2>3
  <2> QED BY <2>2, <2>4
<1> QED BY <1>3, <1>4, <1>5

\* What a thread between two operations may do.
LEMMA RunSteps ==
  ASSUME IInv, NEW t \in Threads, pc[t] = "run", Step(t)
  PROVE  \/ /\ Ops(t) # <<>>
            /\ \/ Head(Ops(t))[1] = "submit" /\ SubmitBegin(t)
               \/ Head(Ops(t))[1] = "pause" /\ Pause(t)
               \/ Head(Ops(t))[1] = "resume" /\ Resume(t)
               \/ Head(Ops(t))[1] = "shutdown" /\ (ShutdownWon(t) \/ ShutdownLost(t))
               \/ Head(Ops(t))[1] = "get" /\ Get(t)
               \/ Head(Ops(t))[1] = "throw" /\ Throw(t)
               \/ Head(Ops(t))[1] = "waitIdle" /\ WaitBegin(t)
         \/ InTask(t) /\ Ops(t) = <<>> /\ TaskReturns(t)
<1>1. CASE Submit(t)
  <2>1. SubmitBegin(t)
    BY <1>1 DEF Submit, SubmitAllowed, SubmitRefused, SubmitPush, SubmitCount, SubmitNobodyIdle,
                SubmitSomebodyIdle, SubmitBump, SubmitNotify
  <2> QED BY <2>1 DEF SubmitBegin, AtOp
<1>2. CASE Control(t)
  <2>1. Pause(t) \/ Resume(t) \/ ShutdownWon(t) \/ ShutdownLost(t)
    BY <1>2 DEF Control, WakeAll, JoinWorker, ShutdownReturn
  <2> QED BY <2>1 DEF Pause, Resume, ShutdownWon, ShutdownLost, AtOp
<1>3. CASE Fetch(t)
  BY <1>3 DEF Fetch, TopPaused, WorkerStops, TopFetch, PopOwn, PopNothing, StealTop, StealMiss,
              InjectTake, InjectMiss, NonePoll, NoneIdle, NoneDrained
<1>4. CASE Execute(t)
  <2>1. Get(t) \/ Throw(t) \/ TaskReturns(t)
    BY <1>4 DEF Execute, RecheckPaused, RecheckClear, CountActive, StartTask, TaskThrows,
                CountException, Retire, Tell
  <2> QED BY <2>1 DEF Get, Throw, TaskReturns, AtOp
<1>5. CASE Wait(t)
  BY <1>5 DEF Wait, CheckReady, CheckHalf, CheckActive, CheckFalse, Observe, Park, HalfReady
<1>6. CASE WaitIdle(t)
  <2>1. WaitBegin(t)
    BY <1>6 DEF WaitIdle, WaitTop, WaitActive, WaitExit
  <2> QED BY <2>1 DEF WaitBegin, AtOp
<1> QED BY <1>1, <1>2, <1>3, <1>4, <1>5, <1>6 DEF Step

\* What a thread in waitIdle() that has not gone to help or to sleep may do, and how
\* it gets there.
LEMMA WaitSteps ==
  ASSUME IInv, NEW t \in Threads, Step(t)
  PROVE  /\ pc[t] = "waitTop" => WaitTop(t)
         /\ pc[t] = "waitActive" => WaitActive(t)
         /\ pc[t] = "waitExit" => WaitExit(t)
         /\ pc'[t] = "waitActive" => WaitTop(t)
         /\ pc'[t] = "waitExit" => WaitTop(t) \/ WaitActive(t)
<1> USE DEF poolVars
<1>1. pc \in [Threads -> Labels] /\ ControlOK(t) /\ Others(t)
  BY Facts, StepOthers
<1>2. CASE Submit(t)
  <2>1. CASE ~SubmitNotify(t)
    BY <1>1, <1>2, <2>1 DEF Submit, SubmitBegin, SubmitAllowed, SubmitRefused, SubmitPush,
       SubmitCount, SubmitNobodyIdle, SubmitSomebodyIdle, SubmitBump, Move, Goto, AtOp
  <2>2. CASE SubmitNotify(t)
    BY <1>1, <2>2 DEF SubmitNotify, Goto
  <2> QED BY <2>1, <2>2
<1>3. CASE Control(t)
  <2>1. CASE WakeAll(t)
    <3>1. pc[t] = "wake" /\ pc'[t] \in {"run", "join", "top", "waitTop"}
      BY <1>1, <2>1 DEF WakeAll
    <3> QED BY <3>1
  <2>2. CASE ~WakeAll(t)
    BY <1>1, <1>3, <2>2 DEF Control, Pause, Resume, ShutdownWon, ShutdownLost, JoinWorker,
       ShutdownReturn, Goto, AtOp
  <2> QED BY <2>1, <2>2
<1>4. CASE Fetch(t)
  <2>1. CASE PopOwn(t) \/ StealTop(t) \/ InjectTake(t)
    BY <1>1, <2>1 DEF PopOwn, StealTop, InjectTake, Fetched, Goto
  <2>2. CASE PopNothing(t) \/ StealMiss(t) \/ InjectMiss(t)
    BY <1>1, <2>2 DEF PopNothing, StealMiss, InjectMiss, Goto
  <2>3. CASE TopPaused(t) \/ WorkerStops(t) \/ TopFetch(t) \/ NonePoll(t) \/ NoneIdle(t)
             \/ NoneDrained(t)
    BY <1>1, <2>3 DEF TopPaused, WorkerStops, TopFetch, NonePoll, NoneIdle, NoneDrained,
       StartWait, Move, Goto
  <2> QED BY <1>4, <2>1, <2>2, <2>3 DEF Fetch
<1>5. CASE Execute(t)
  BY <1>1, <1>5 DEF Execute, RecheckPaused, RecheckClear, CountActive, StartTask, Get, Throw,
     TaskReturns, TaskThrows, TaskDone, CountException, Retire, Tell, Move, Goto, AtOp
<1>6. CASE Wait(t)
  <2>1. /\ pc[t] \in Sleeping
        /\ \E l \in Sleeping \cup {"top", "waitTop"} : Goto(t, l)
    BY <1>6 DEF Wait, CheckReady, CheckHalf, CheckActive, CheckFalse, Observe, Park, EndWait,
                Move, Sleeping
  <2> QED BY <1>1, <2>1 DEF Goto, Sleeping
<1>7. CASE WaitIdle(t)
  BY <1>1, <1>7 DEF WaitIdle, WaitBegin, WaitTop, WaitActive, WaitExit, WaitHelp, Goto, AtOp
<1> QED BY <1>2, <1>3, <1>4, <1>5, <1>6, <1>7 DEF Step

\* What the single user's invariant excludes: calls by tasks, and by other clients.
LEMMA Tame ==
  ASSUME NEW f, SingleUser(f), IInv, UserInv(f), NEW t \in Threads
  PROVE  /\ t # f => frame[t].call = NoCall /\ pc[t] \notin InSubmit
         /\ frame[t].task # NoTask => pc[t] \notin InSubmit
         /\ Step(t) /\ (t # f \/ frame[t].task # NoTask)
            => ~(SubmitBegin(t) \/ Pause(t) \/ Resume(t) \/ ShutdownWon(t) \/ WaitBegin(t))
<1>1. /\ ControlOK(t) /\ frame[t].ops \in Seq(TaskOperations)
      /\ frame[t].todo \in Seq(ClientOperations) /\ OnlyOps(frame[t].ops, {"get", "throw"})
      /\ frame[t].task # NoTask => frame[t].call = NoCall
  BY Facts, Fields DEF UserInv, TasksTame, NoTaskCalls
<1>2. t # f => \/ t \in Workers
               \/ /\ t \in Clients \ {f} /\ OnlyOps(frame[t].todo, {"get"})
                  /\ pc[t] = "run" /\ frame[t].task = NoTask
  BY DEF Threads, UserInv, OthersOnlyGet
<1>3. frame[t].call = NoCall => pc[t] \notin InSubmit
  BY <1>1 DEF ControlOK, NoCall
<1>4. t # f => frame[t].call = NoCall
  BY <1>1, <1>2 DEF ControlOK, InSubmit
<1>5. ASSUME pc[t] = "run", t # f \/ frame[t].task # NoTask, Ops(t) # <<>>
      PROVE  Head(Ops(t))[1] \in {"get", "throw"}
  <2>1. CASE frame[t].task # NoTask
    BY <1>1, <1>5, <2>1, OnlyOpsTail DEF Ops, InTask
  <2>2. CASE frame[t].task = NoTask
    <3>1. OnlyOps(frame[t].todo, {"get"}) /\ Ops(t) = frame[t].todo
      BY <1>1, <1>2, <1>5, <2>2 DEF Ops, InTask, ControlOK
    <3> QED BY <1>1, <1>5, <3>1, OnlyOpsTail
  <2> QED BY <2>1, <2>2
<1>6. SubmitBegin(t) \/ Pause(t) \/ Resume(t) \/ ShutdownWon(t) \/ WaitBegin(t)
      => /\ pc[t] = "run" /\ Ops(t) # <<>>
         /\ Head(Ops(t))[1] \in {"submit", "pause", "resume", "shutdown", "waitIdle"}
  BY DEF SubmitBegin, Pause, Resume, ShutdownWon, WaitBegin, AtOp
<1> QED BY <1>1, <1>3, <1>4, <1>5, <1>6

LEMMA UserInit ==
  ASSUME NEW f, SingleUser(f), Init
  PROVE  UserInv(f)
<1>1. PICK program \in [Clients -> UNION {Programs[c] : c \in Clients}] :
        /\ \A c \in Clients : program[c] \in Programs[c]
        /\ frame = [t \in Threads |-> IF t \in Workers THEN IdleFrame
                                      ELSE [IdleFrame EXCEPT !.todo = program[t]]]
  BY DEF Init
<1>2. ASSUME NEW c \in Clients PROVE frame[c].todo = program[c] /\ pc[c] = "run"
  <2>1. c \in Threads /\ c \notin Workers
    BY ClientsAssumption DEF Threads
  <2> QED BY <1>1, <2>1 DEF Init, IdleFrame
<1>3. \A t \in Threads : /\ frame[t].ops = <<>> /\ frame[t].task = NoTask
                         /\ frame[t].draining = FALSE /\ frame[t].seen = {}
  BY <1>1 DEF IdleFrame
<1>4. f \in Clients /\ f \in Threads /\ pc[f] = "run" /\ paused = FALSE
  BY <1>2 DEF SingleUser, Threads, Init
<1>5. OthersOnlyGet(f)
  BY <1>1, <1>2, <1>3 DEF SingleUser, OthersOnlyGet, Threads
<1>6. TasksTame /\ NoTaskCalls
  BY <1>3, OnlyOpsEmpty DEF TasksTame, NoTaskCalls
<1>7. NeverWaitsPaused(f)
  BY <1>1, <1>2, <1>3, <1>4 DEF SingleUser, NeverWaitsPaused
<1>8. Drained(f) /\ SeenAccepted
  BY <1>3, <1>4 DEF Drained, SeenAccepted, Threads
<1> QED BY <1>5, <1>6, <1>7, <1>8 DEF UserInv

LEMMA OthersStep ==
  ASSUME NEW f, SingleUser(f), IInv, UserInv(f), NEW t \in Threads, Step(t)
  PROVE  OthersOnlyGet(f)'
<1> SUFFICES ASSUME NEW c \in Clients \ {f}
             PROVE  OnlyOps(frame'[c].todo, {"get"}) /\ pc'[c] = "run" /\ frame'[c].task = NoTask
  BY DEF OthersOnlyGet
<1>1. /\ c \in Threads /\ frame[c].todo \in Seq(ClientOperations)
      /\ OnlyOps(frame[c].todo, {"get"}) /\ pc[c] = "run" /\ frame[c].task = NoTask
  BY Facts, Fields DEF Threads, UserInv, OthersOnlyGet
<1>2. CASE c # t
  BY <1>1, <1>2, StepOthers DEF Others
<1>3. CASE c = t
  <2>1. Ops(t) = frame[t].todo /\ ~InTask(t)
    BY <1>1, <1>3 DEF Ops, InTask
  <2>2. Ops(t) # <<>> /\ Get(t)
    <3>1. Ops(t) # <<>>
      BY <1>1, <1>3, <2>1, RunSteps
    <3>2. Head(Ops(t))[1] = "get"
      BY <1>1, <1>3, <2>1, <3>1, OnlyOpsTail
    <3> QED BY <1>1, <1>3, <3>1, <3>2, RunSteps
  <2>3. frame'[t] = Advanced(t) /\ pc' = pc
    BY <2>2, Facts DEF Get, Advance
  <2>4. Advanced(t).task = NoTask /\ Advanced(t).todo = Tail(frame[t].todo)
    BY <1>1, <1>3, <2>1, <2>2, AdvancedFields, AdvancedTodo
  <2>5. OnlyOps(Tail(frame[t].todo), {"get"})
    BY <1>1, <1>3, <2>1, <2>2, OnlyOpsTail
  <2> QED BY <1>1, <1>3, <2>3, <2>4, <2>5
<1> QED BY <1>2, <1>3

LEMMA TasksStep ==
  ASSUME NEW f, SingleUser(f), IInv, UserInv(f), NEW t \in Threads, Step(t)
  PROVE  TasksTame' /\ NoTaskCalls'
<1>1. Others(t) /\ IInv'
  BY StepOthers, StepInv
<1>2. ASSUME NEW u \in Threads
      PROVE  /\ OnlyOps(frame'[u].ops, {"get", "throw"})
             /\ frame'[u].task # NoTask => frame'[u].call = NoCall
  <2>1. /\ frame[u].ops \in Seq(TaskOperations) /\ OnlyOps(frame[u].ops, {"get", "throw"})
        /\ frame[u].task # NoTask => frame[u].call = NoCall
    BY Facts, Fields DEF UserInv, TasksTame, NoTaskCalls
  <2>2. CASE u # t
    BY <1>1, <2>1, <2>2 DEF Others
  <2>3. CASE u = t
    <3>1. \/ frame'[t].ops = frame[t].ops
          \/ frame[t].ops # <<>> /\ frame'[t].ops = Tail(frame[t].ops)
          \/ frame'[t].ops = <<>>
          \/ frame[t].task \in Tasks /\ frame'[t].ops = Bodies[frame[t].task]
      BY OpsStep
    <3>2. OnlyOps(frame'[t].ops, {"get", "throw"})
      BY <2>1, <2>3, <3>1, OnlyOpsTail, OnlyOpsEmpty DEF SingleUser
    <3>3. ASSUME frame'[t].task # NoTask PROVE frame'[t].call = NoCall
      <4>1. CASE frame[t].task # NoTask
        BY <2>1, <2>3, <4>1, Tame, Effects
      <4>2. CASE frame[t].task = NoTask
        <5>1. pc'[t] \in {"recheck", "act"}
          BY <3>3, <4>2, Effects
        <5>2. ControlOK(t)'
          BY <1>1 DEF IInv, ControlInv
        <5> QED BY <5>1, <5>2 DEF ControlOK, InSubmit
      <4> QED BY <4>1, <4>2
    <3> QED BY <2>3, <3>2, <3>3
  <2> QED BY <2>2, <2>3
<1> QED BY <1>2 DEF TasksTame, NoTaskCalls

LEMMA PausedStep ==
  ASSUME NEW f, SingleUser(f), IInv, UserInv(f), NEW t \in Threads, Step(t)
  PROVE  NeverWaitsPaused(f)'
<1>1. /\ f \in Clients /\ f \in Threads /\ frame[f].todo \in Seq(ClientOperations)
      /\ ControlOK(f) /\ Others(t) /\ paused \in BOOLEAN
      /\ ResumedFirst(frame[f].todo) /\ (paused => Resumes(frame[f].todo))
      /\ frame[f].draining => ~paused
  BY Facts, Fields, StepOthers DEF SingleUser, Threads, UserInv, NeverWaitsPaused, IInv, Types
<1>2. CASE t # f
  <2>1. paused' = paused
    BY <1>2, Tame, Effects
  <2> QED BY <1>1, <1>2, <2>1 DEF Others, NeverWaitsPaused
<1>3. CASE t = f
  <2> DEFINE old == frame[f].todo  new == frame'[f].todo
  <2>1. \/ new = old
        \/ /\ pc[f] = "run" /\ ~InTask(f) /\ old # <<>> /\ new = Tail(old)
           /\ Head(old)[1] = "resume" => Resume(f)
    BY <1>3, Effects
  <2>2. Resume(f) => paused' = FALSE
    BY DEF Resume
  <2>3. ASSUME Pause(f) PROVE Resumes(new) /\ frame'[f].draining = FALSE
    <3>1. pc[f] = "run" /\ Ops(f) # <<>> /\ Head(Ops(f))[1] = "pause" /\ frame'[f] = Advanced(f)
      BY <1>1, <2>3, Facts DEF Pause, AtOp, Advance
    <3>2. ~InTask(f)
      BY <1>3, <2>3, Tame DEF InTask
    <3>3. old # <<>> /\ Ops(f) = old /\ new = Tail(old)
      BY <1>1, <3>1, <3>2, AdvancedTodo
    <3>4. frame'[f].draining = frame[f].draining
      BY <1>1, <3>1, AdvancedFields
    <3>5. frame[f].draining = FALSE
      BY <1>1, <3>1, <3>2, Facts, Fields DEF ControlOK, InTask, InWaitIdle, Sleeping
    <3> QED BY <1>1, <3>1, <3>3, <3>4, <3>5, ResumesTail
  <2>4. ResumedFirst(new)
    BY <1>1, <2>1, ResumesTail
  <2>5. paused' => Resumes(new)
    <3>1. CASE Pause(f)
      BY <2>3, <3>1
    <3>2. CASE Resume(f)
      BY <2>2, <3>2
    <3>3. CASE ~Pause(f) /\ ~Resume(f)
      <4>1. paused' = paused
        BY <1>3, <3>3, Effects
      <4> QED BY <1>1, <2>1, <3>3, <4>1, ResumesTail
    <3> QED BY <3>1, <3>2, <3>3
  <2>6. ASSUME frame'[f].draining PROVE ~paused'
    <3>1. CASE Pause(f)
      BY <2>3, <2>6, <3>1
    <3>2. CASE Resume(f)
      BY <2>2, <3>2
    <3>3. CASE ~Pause(f) /\ ~Resume(f)
      <4>1. paused' = paused
        BY <1>3, <3>3, Effects
      <4>2. CASE frame[f].draining
        BY <1>1, <4>1, <4>2
      <4>3. CASE AtOp(f, "waitIdle")
        <5>1. pc[f] = "run" /\ Ops(f) # <<>> /\ Head(Ops(f))[1] = "waitIdle"
          BY <4>3 DEF AtOp
        <5>2. WaitBegin(f)
          BY <1>1, <1>3, <5>1, RunSteps
        <5>3. ~InTask(f)
          BY <1>3, <5>2, Tame DEF InTask
        <5>4. Ops(f) = old
          BY <5>3 DEF Ops
        <5>5. ~paused
          BY <1>1, <5>1, <5>4, ResumesTail
        <5> QED BY <4>1, <5>5
      <4>4. frame'[f].draining = frame[f].draining \/ frame'[f].draining = FALSE
            \/ AtOp(f, "waitIdle")
        BY <1>3, OpsStep
      <4> QED BY <2>6, <4>2, <4>3, <4>4
    <3> QED BY <3>1, <3>2, <3>3
  <2> QED BY <2>4, <2>5, <2>6 DEF NeverWaitsPaused
<1> QED BY <1>2, <1>3

\* While the user is not in submit() nobody is, and no task is on its way to a queue.
LEMMA NobodySubmits ==
  ASSUME NEW f, SingleUser(f), IInv, UserInv(f), pc[f] \notin InSubmit, NEW t \in Threads, Step(t)
  PROVE  /\ Counting = {} /\ Queued' \subseteq Queued
         /\ pendingTasks = 0 => Queued = {}
<1>1. \A u \in Threads : pc[u] \notin InSubmit
  BY Tame
<1>2. Counting = {} /\ Cardinality(Counting) = 0
  BY <1>1, FS_EmptySet DEF Counting, InSubmit
<1>3. Queued' \subseteq Queued
  <2>1. ~SubmitPush(t)
    BY <1>1 DEF SubmitPush, InSubmit
  <2> QED BY <2>1, Traces DEF Queued
<1>4. ASSUME pendingTasks = 0 PROVE Queued = {}
  <2>1. /\ Cardinality(Queued) \in Nat /\ Cardinality(Queued) < SizeModulus
        /\ Queued # {} => Cardinality(Queued) > 0
    BY PendingRange
  <2>2. pendingTasks = Wrap(Cardinality(Queued) - Cardinality(Counting))
    BY DEF IInv, CountInv
  <2>3. Cardinality(Queued) - Cardinality(Counting) = Cardinality(Queued)
    BY <1>2, <2>1
  <2>4. \A n, m \in Nat : n < m /\ n % m = 0 => n = 0
    OBVIOUS
  <2> QED BY <1>4, <2>1, <2>2, <2>3, <2>4, Sizes DEF Wrap
<1> QED BY <1>2, <1>3, <1>4

\* No thread begins to run a task when none is queued.
LEMMA NobodyStarts ==
  ASSUME IInv, Queued = {}, NEW t \in Threads, Step(t)
  PROVE  Executing' \subseteq Executing
<1> SUFFICES ASSUME NEW u \in Threads, frame'[u].task # NoTask, pc'[u] \notin {"recheck", "act"}
             PROVE  frame[u].task # NoTask /\ pc[u] \notin {"recheck", "act"}
  BY DEF Executing
<1>1. Others(t) /\ ControlOK(u) /\ frame[u].task \in Tasks \cup {NoTask}
  BY StepOthers, Facts, Fields
<1>2. frame[u].task # NoTask => pc[u] \notin {"recheck", "act"}
  BY <1>1 DEF Queued, IInv, StatusInv, StatusOK, Hands
<1>3. frame[u].task # NoTask
  <2>1. CASE u = t
    BY <2>1, Effects
  <2>2. CASE u # t
    BY <1>1, <2>2 DEF Others
  <2> QED BY <2>1, <2>2
<1> QED BY <1>2, <1>3

LEMMA DrainedStep ==
  ASSUME NEW f, SingleUser(f), IInv, UserInv(f), NEW t \in Threads, Step(t)
  PROVE  Drained(f)'
<1>1. /\ f \in Clients /\ f \in Threads /\ ControlOK(f) /\ Others(t) /\ frame[f] \in Frames
      /\ frame[f].draining /\ runState # "Running" => pc[f] \in {"waitTop", "waitExit"}
      /\ pc[f] = "waitActive" => Queued = {}
      /\ pc[f] = "waitExit" /\ runState = "Running" => Queued = {} /\ Executing = {}
  BY Facts, StepOthers DEF SingleUser, Threads, UserInv, Drained
<1>2. runState' = runState \/ ShutdownWon(t)
  BY Traces
<1>3. ASSUME ShutdownWon(t) PROVE t = f /\ frame'[f].draining = FALSE /\ pc'[f] = "wake"
  <2>1. t = f /\ ~InTask(f)
    BY <1>3, Tame DEF InTask
  <2>2. /\ pc[f] = "run" /\ Ops(f) # <<>> /\ pc'[f] = "wake"
        /\ frame'[f] = [Advanced(f) EXCEPT !.call = Head(Ops(f))]
    BY <1>3, <2>1, Facts DEF ShutdownWon, AtOp, Goto
  <2>3. frame'[f].draining = frame[f].draining
    BY <1>1, <2>2, AdvancedFields DEF Frames
  <2>4. frame[f].draining = FALSE
    BY <1>1, <2>1, <2>2, Fields DEF ControlOK, InTask, InWaitIdle, Sleeping
  <2> QED BY <2>1, <2>2, <2>3, <2>4
<1>4. ASSUME frame'[f].draining, runState' # "Running" PROVE pc'[f] \in {"waitTop", "waitExit"}
  <2>1. runState # "Running"
    BY <1>2, <1>3, <1>4
  <2>2. CASE t # f
    BY <1>1, <1>4, <2>1, <2>2 DEF Others
  <2>3. CASE t = f /\ frame[f].draining
    <3>1. CASE pc[f] = "waitTop"
      <4>1. WaitTop(f)
        BY <2>3, <3>1, WaitSteps
      <4> QED BY <1>1, <2>1, <4>1, Facts DEF WaitTop, Goto
    <3>2. CASE pc[f] = "waitExit"
      <4>1. WaitExit(f)
        BY <2>3, <3>2, WaitSteps
      <4> QED BY <1>1, <1>4, <4>1, Facts DEF WaitExit, Frames
    <3> QED BY <1>1, <2>1, <2>3, <3>1, <3>2
  <2>4. CASE t = f /\ ~frame[f].draining
    <3>1. AtOp(f, "waitIdle")
      BY <1>1, <1>4, <2>4, OpsStep
    <3>2. WaitBegin(f)
      BY <1>1, <2>4, <3>1, RunSteps DEF AtOp
    <3> QED BY <1>1, <3>2, Facts DEF WaitBegin, Goto
  <2> QED BY <2>2, <2>3, <2>4
<1>5. ASSUME pc'[f] = "waitActive" PROVE Queued' = {}
  <2>1. pc[f] \in {"waitTop", "waitActive"} /\ (pc[f] = "waitTop" => WaitTop(f))
    <3>1. CASE t = f
      BY <1>5, <3>1, WaitSteps DEF WaitTop
    <3>2. CASE t # f
      BY <1>1, <1>5, <3>2 DEF Others
    <3> QED BY <3>1, <3>2
  <2>2. Queued' \subseteq Queued /\ (pendingTasks = 0 => Queued = {})
    BY <2>1, NobodySubmits DEF InSubmit
  <2>3. CASE pc[f] = "waitActive"
    BY <1>1, <2>2, <2>3
  <2>4. CASE WaitTop(f)
    <3>1. pendingTasks = 0
      BY <1>1, <1>5, <2>4, Facts DEF WaitTop, WaitHelp, Goto
    <3> QED BY <2>2, <3>1
  <2> QED BY <2>1, <2>3, <2>4
<1>6. ASSUME pc'[f] = "waitExit", runState' = "Running" PROVE Queued' = {} /\ Executing' = {}
  <2>1. runState = "Running"
    BY <1>2, <1>6 DEF ShutdownWon
  <2>2. pc[f] \in {"waitTop", "waitActive", "waitExit"} /\ ~WaitTop(f)
        /\ (pc[f] = "waitActive" => t = f /\ WaitActive(f)) /\ (pc[f] = "waitTop" => t = f)
    <3>1. CASE t = f
      <4>1. ~WaitTop(f)
        BY <1>1, <1>6, <2>1, Facts DEF WaitTop, WaitHelp, Goto
      <4>2. WaitActive(f)
        BY <1>6, <3>1, <4>1, WaitSteps
      <4> QED BY <3>1, <4>1, <4>2 DEF WaitActive
    <3>2. CASE t # f
      <4>1. pc[f] = "waitExit"
        BY <1>1, <1>6, <3>2 DEF Others
      <4> QED BY <4>1 DEF WaitTop
    <3> QED BY <3>1, <3>2
  <2>3. Queued = {} /\ Executing = {}
    <3>1. CASE pc[f] = "waitExit"
      BY <1>1, <2>1, <3>1
    <3>2. CASE pc[f] = "waitTop"
      BY <2>2, <3>2, WaitSteps
    <3>3. CASE pc[f] = "waitActive"
      <4>1. activeTasks = 0
        BY <1>1, <1>6, <2>2, <3>3, Facts DEF WaitActive, WaitHelp, Goto
      <4>2. IsFiniteSet(Executing) /\ Cardinality(Executing) = 0
        BY <4>1, Finiteness DEF IInv, CountInv
      <4> QED BY <1>1, <3>3, <4>2, FS_EmptySet
    <3> QED BY <2>2, <3>1, <3>2, <3>3
  <2>4. Queued' \subseteq Queued
    BY <2>2, NobodySubmits DEF InSubmit
  <2>5. Executing' \subseteq Executing
    BY <2>3, NobodyStarts
  <2> QED BY <2>3, <2>4, <2>5
<1> QED BY <1>4, <1>5, <1>6 DEF Drained

LEMMA UserNext ==
  ASSUME NEW f, SingleUser(f), IInv, UserInv(f), [Next]_vars
  PROVE  UserInv(f)'
<1>1. CASE UNCHANGED vars
  <2>1. (OthersOnlyGet(f) /\ TasksTame /\ NoTaskCalls)'
    BY <1>1 DEF vars, UserInv, OthersOnlyGet, TasksTame, NoTaskCalls
  <2>2. (NeverWaitsPaused(f) /\ Drained(f) /\ SeenAccepted)'
    BY <1>1 DEF vars, stateVars, historyVars, UserInv, NeverWaitsPaused, Drained, SeenAccepted,
                Queued, Executing
  <2> QED BY <2>1, <2>2 DEF UserInv
<1>2. ASSUME NEW t \in Threads, Step(t) PROVE UserInv(f)'
  <2>1. SeenAccepted'
    <3>1. ASSUME NEW c \in Clients PROVE frame'[c].seen \subseteq accepted'
      <4>1. /\ frame[c].seen \subseteq accepted /\ accepted \subseteq accepted'
            /\ c # t => frame'[c] = frame[c]
        BY <1>2, StepOthers, Effects DEF UserInv, SeenAccepted, Others, Threads
      <4>2. CASE c = t
        BY <1>2, <4>1, <4>2, Effects
      <4> QED BY <4>1, <4>2
    <3> QED BY <3>1 DEF SeenAccepted
  <2> QED BY <1>2, <2>1, OthersStep, TasksStep, PausedStep, DrainedStep DEF UserInv
<1> QED BY <1>1, <1>2 DEF Next, Rest

\* Where tasks do not call the pool, shutdown(FinishTasks) finishes what was accepted.
LEMMA UserFinishes ==
  ASSUME NEW f, SingleUser(f)
  PROVE  FinishesAlone /\ \A g : UserInv(g) => HelpersTame
<1>1. \A ops : OnlyOps(ops, {"get"}) \/ OnlyOps(ops, {"get", "throw"})
               => ~Finishes(ops) /\ NoOp(ops, "submit")
  BY DEF OnlyOps, Finishes, FinishOp, NoOp
<1>2. FinishesAlone
  BY <1>1 DEF SingleUser, FinishesAlone
<1>3. \A g : UserInv(g) => HelpersTame
  BY <1>1 DEF UserInv, TasksTame, HelpersTame, Threads
<1> QED BY <1>2, <1>3

\* A task that has been accepted has finished, or is queued or runs.
LEMMA AllFinished ==
  ASSUME IInv, PromiseInv, Queued = {}, Executing = {}
  PROVE  accepted \subseteq Finished /\ exceptionCounter = Cardinality(Threw)
<1>1. ASSUME NEW k \in accepted PROVE k \in Finished
  <2>1. k \in Tasks /\ status[k] \in Fates
    BY DEF PromiseInv, ReturnedOnce, IInv, Types
  <2>2. status[k] # "queued"
    BY <2>1 DEF Queued
  <2>3. status[k] # "running"
    <3>1. ASSUME status[k] = "running" PROVE FALSE
      <4>1. PICK u \in Threads : frame[u].task = k /\ pc[u] \in Busy
        BY <2>1, <3>1 DEF PromiseInv, RunningInv
      <4>2. u \in Executing
        BY <2>1, <4>1, TasksAssumption DEF Executing, Busy, InSubmit
      <4> QED BY <4>2
    <3> QED BY <3>1
  <2> QED BY <2>1, <2>2, <2>3 DEF Fates, Finished
<1>2. exceptionCounter = Cardinality(Threw)
  <2>1. Uncounted = {}
    BY DEF Uncounted, Executing
  <2>2. Cardinality(Uncounted) = 0 /\ Cardinality(Threw) \in Int
    BY <2>1, FS_EmptySet, Finiteness
  <2>3. exceptionCounter = Cardinality(Threw) - Cardinality(Uncounted)
    BY DEF IInv, CountInv
  <2> QED BY <2>2, <2>3
<1> QED BY <1>1, <1>2

\* Where the pool has been stopped, no client runs a task; nor is one that does held
\* back by pause().
LEMMA UserHelps ==
  ASSUME NEW f, SingleUser(f), IInv, UserInv(f), NEW c \in Clients, InTask(c)
  PROVE  c = f /\ runState = "Running" /\ ~paused
<1>1. c = f
  BY DEF UserInv, OthersOnlyGet, InTask
<1>2. ControlOK(f) /\ f \in Threads
  BY Facts DEF SingleUser, Threads
<1>3. frame[f].draining
  BY <1>1, <1>2 DEF SingleUser, ControlOK, InTask
<1>4. pc[f] \notin {"waitTop", "waitExit"}
  BY <1>1, <1>2 DEF ControlOK, InTask, InWaitIdle
<1> QED BY <1>1, <1>3, <1>4 DEF UserInv, NeverWaitsPaused, Drained

LEMMA UserSound ==
  ASSUME NEW f, SingleUser(f), IInv, PromiseInv, FinishInv, UserInv(f)
  PROVE  Sound
<1>1. ASSUME NEW c \in Clients, frame[c].call[1] = "shutdown" PROVE ~InTask(c)
  BY <1>1 DEF UserInv, NoTaskCalls, InTask, Threads, NoCall
<1>2. ASSUME NEW c \in Clients, pc[c] = "pend" PROVE ~Joined /\ ~Held
  <2>1. c \in Threads /\ InTask(c)
    BY <1>2, Facts DEF Threads, ControlOK, Hands, InTask
  <2>2. runState = "Running" /\ ~paused
    BY <2>1, UserHelps
  <2>3. ~Joined
    <3>1. ASSUME Joined PROVE FALSE
      <4>1. 0 \in Workers /\ 0 < joining /\ 0 \in Threads
        BY <3>1, Sizes DEF Joined, Threads
      <4>2. selfDetach = {} /\ pc[0] # "done"
        BY <2>2, <4>1 DEF PromiseInv, StoppedInv
      <4> QED BY <4>1, <4>2 DEF PromiseInv, JoinInv
    <3> QED BY <3>1
  <2> QED BY <2>2, <2>3 DEF Held
<1>3. ASSUME NEW c \in Clients, pc[c] = "waitExit", runState = "Running"
      PROVE  /\ frame[c].seen \subseteq Finished
             /\ Cardinality(frame[c].seen \cap Threw) <= exceptionCounter
  <2>1. c = f
    BY <1>3 DEF UserInv, OthersOnlyGet
  <2>2. Queued = {} /\ Executing = {}
    BY <1>3, <2>1 DEF UserInv, Drained
  <2>3. accepted \subseteq Finished /\ exceptionCounter = Cardinality(Threw)
    BY <2>2, AllFinished
  <2>4. frame[c].seen \subseteq accepted
    BY DEF UserInv, SeenAccepted
  <2>5. Cardinality(frame[c].seen \cap Threw) <= Cardinality(Threw)
    BY Finiteness, FS_Subset
  <2> QED BY <2>3, <2>4, <2>5
<1>4. ASSUME NEW t \in Threads, LastJoin(t)
      PROVE  /\ \A c \in Clients : InTask(c) => status[frame[c].task] # "running"
             /\ runState = "Finish" => accepted \subseteq Finished
  <2>1. runState # "Running"
    BY <1>4, Facts DEF LastJoin, ControlOK, PromiseInv, StoppedInv
  <2>2. \A c \in Clients : ~InTask(c)
    BY <2>1, UserHelps
  <2> QED BY <1>4, <2>2, LastJoinFinishes
<1> QED BY <1>1, <1>2, <1>3, <1>4 DEF Sound

\* A pool with a single user keeps its promises: the user calls it as it likes, other
\* clients wait for results at most, and so do the tasks, which may throw; but that
\* the user, having paused the pool, resumes it before it calls waitIdle().
THEOREM ServesOneUser ==
  ASSUME NEW f, SingleUser(f)
  PROVE  Spec => ImplementsTaskPool
<1>1. Init => UserInv(f) /\ PromiseInv /\ FinishInv
  BY UserInit, PromiseInit, FinishInit, UserFinishes
<1>2. IInv /\ UserInv(f) /\ PromiseInv /\ FinishInv => Sound
  BY UserSound
<1>3. IInv /\ UserInv(f) /\ PromiseInv /\ FinishInv /\ [Next]_vars
      => UserInv(f)' /\ PromiseInv' /\ FinishInv'
  BY <1>2, UserNext, PromiseNext, FinishNext, UserFinishes
<1>4. Spec => []Sound
  BY <1>1, <1>2, <1>3, Invariance, PTL DEF Spec
<1> QED BY <1>4, KeptWhileSound, PTL

\* Of such a pool, waitIdle() returns, unless the pool has been stopped, only when all
\* that has been accepted has finished, whatever a worker does between the two
\* loads by which waitIdle() finds the pool idle; pause() stops every thread but
\* those that had passed their last check, and shutdown(FinishTasks) has run every
\* task that was accepted when the last worker has returned.
THEOREM WaitsForAll ==
  ASSUME NEW f, SingleUser(f)
  PROVE  Spec => WaitIdleDrains /\ PauseStopsEveryone /\ []ShutdownDrains
<1>1. Init => UserInv(f) /\ PromiseInv /\ FinishInv
  BY UserInit, PromiseInit, FinishInit, UserFinishes
<1>2. IInv /\ UserInv(f) /\ PromiseInv /\ FinishInv => Sound /\ ShutdownDrains
  <2> SUFFICES ASSUME IInv, UserInv(f), PromiseInv, FinishInv PROVE Sound /\ ShutdownDrains
    OBVIOUS
  <2>1. runState = "Finish" => \A c \in Clients : ~InTask(c)
    BY UserHelps
  <2> QED BY <2>1, UserSound, FinishSound DEF ShutdownDrains
<1>3. IInv /\ UserInv(f) /\ PromiseInv /\ FinishInv /\ [Next]_vars
      => UserInv(f)' /\ PromiseInv' /\ FinishInv'
  BY <1>2, UserNext, PromiseNext, FinishNext, UserFinishes
<1>4. IInv /\ UserInv(f) /\ PromiseInv /\ [Next]_vars
      => [\A c \in Clients : FindsIdle(c) => accepted \subseteq Finished]_vars
  <2> SUFFICES ASSUME IInv, UserInv(f), PromiseInv, NEW t \in Threads, Step(t),
                      NEW c \in Clients, FindsIdle(c)
               PROVE  accepted \subseteq Finished
    BY DEF Next, Rest
  <2>1. c = f /\ c \in Threads
    BY DEF FindsIdle, UserInv, OthersOnlyGet, Threads
  <2>2. WaitActive(c) /\ c = t
    BY <2>1, StepOthers, WaitSteps DEF FindsIdle, Others
  <2>3. activeTasks = 0
    BY <2>1, <2>2, Facts DEF FindsIdle, WaitActive, WaitHelp, Goto
  <2>4. Executing = {} /\ Queued = {}
    BY <2>1, <2>2, <2>3, Finiteness, FS_EmptySet
       DEF IInv, CountInv, UserInv, Drained, WaitActive
  <2> QED BY <2>4, AllFinished
<1>5. IInv /\ UserInv(f) /\ PromiseInv /\ [Next]_vars
      => [\A t \in Threads : (Held /\ pc[t] = "pend" /\ pc'[t] = "run") => t \in passed]_vars
  <2>1. ASSUME IInv, UserInv(f), NEW c \in Clients, pc[c] = "pend" PROVE ~Held
    <3>1. InTask(c)
      BY <2>1, Facts DEF Threads, ControlOK, Hands, InTask
    <3> QED BY <2>1, <3>1, UserHelps DEF Held
  <2> QED BY <2>1 DEF PromiseInv, HeldInv, Threads
<1> QED BY <1>1, <1>2, <1>3, <1>4, <1>5, Invariance, PTL
    DEF Spec, PauseStopsEveryone, WaitIdleDrains

=============================================================================
