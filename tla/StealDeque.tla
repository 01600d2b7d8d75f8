----------------------------- MODULE StealDeque -----------------------------
(***************************************************************************)
(* What a WorkStealingQueue promises: a double-ended queue of tasks whose  *)
(* owner pushes and pops at the bottom and whose thieves take from the     *)
(* top, each operation taking effect at one instant, and every pushed task *)
(* handed to exactly one taker.  WorkStealingQueue.tla implements it.      *)
(***************************************************************************)
EXTENDS Naturals, Sequences

CONSTANT MaxPushes         \* bound on the number of pushes: tasks are 1..MaxPushes

VARIABLES
    deque,                 \* the queued tasks, top first
    pushed,                \* how many tasks have been pushed: the newest one
    claims                 \* how often each task has been handed to a taker

vars == <<deque, pushed, claims>>

Init ==
    /\ deque = <<>>
    /\ pushed = 0
    /\ claims = [s \in 1..MaxPushes |-> 0]

PushBottom ==
    /\ pushed < MaxPushes
    /\ pushed' = pushed + 1
    /\ deque' = Append(deque, pushed + 1)
    /\ UNCHANGED claims

PopBottom ==
    /\ deque # <<>>
    /\ deque' = SubSeq(deque, 1, Len(deque) - 1)
    /\ claims' = [claims EXCEPT ![deque[Len(deque)]] = @ + 1]
    /\ UNCHANGED pushed

Steal ==
    /\ deque # <<>>
    /\ deque' = Tail(deque)
    /\ claims' = [claims EXCEPT ![Head(deque)] = @ + 1]
    /\ UNCHANGED pushed

Next == PushBottom \/ PopBottom \/ Steal

Spec == Init /\ [][Next]_vars
=============================================================================
