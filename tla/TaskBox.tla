------------------------------ MODULE TaskBox ------------------------------
(***************************************************************************)
(* What a Task promises: a box that is empty or holds one callable, which  *)
(* a move takes from one box to another and whose end is the end of the    *)
(* callable, once.  Task.tla implements it with storage inside the Task or *)
(* on the heap.                                                            *)
(***************************************************************************)
EXTENDS Naturals

CONSTANTS
    Slots,                 \* where a Task object may be
    Callables,             \* the callables that may be wrapped, each once
    Nothing                \* no callable

VARIABLES
    boxes,                 \* the slots in which there is a Task
    held,                  \* what each of them holds
    ended,                 \* the callables that have been destroyed
    called                 \* what the last operator() ran: Nothing if it threw

vars == <<boxes, held, ended, called>>

Init ==
    /\ boxes = {}
    /\ held = [s \in Slots |-> Nothing]
    /\ ended = {}
    /\ called = Nothing

Fresh(c) == c \notin ended /\ \A s \in Slots : held[s] # c

\* A Task comes into being, empty or around a callable.
Make(s) ==
    /\ s \notin boxes
    /\ boxes' = boxes \cup {s}
    /\ held' \in {[held EXCEPT ![s] = c] : c \in {Nothing} \cup {d \in Callables : Fresh(d)}}
    /\ UNCHANGED <<ended, called>>

\* What was in the box ends, what is in the other takes its place.
Move(from, to) ==
    /\ from \in boxes
    /\ from # to
    /\ boxes' = boxes \cup {to}
    /\ held' = [held EXCEPT ![to] = held[from], ![from] = Nothing]
    /\ ended' = ended \cup ({held[to]} \ {Nothing})
    /\ UNCHANGED called

Drop(s) ==
    /\ s \in boxes
    /\ boxes' = boxes \ {s}
    /\ held' = [held EXCEPT ![s] = Nothing]
    /\ ended' = ended \cup ({held[s]} \ {Nothing})
    /\ UNCHANGED called

Call(s) == s \in boxes /\ called' = held[s] /\ UNCHANGED <<boxes, held, ended>>

\* The constructor of the callable throws: there is no Task, and no callable.
Spoil(c) ==
    /\ Fresh(c)
    /\ ended' = ended \cup {c}
    /\ UNCHANGED <<boxes, held, called>>

Next ==
    \/ \E s \in Slots : Make(s) \/ Drop(s) \/ Call(s)
    \/ \E from, to \in Slots : Move(from, to)
    \/ \E c \in Callables : Spoil(c)

Spec == Init /\ [][Next]_vars
=============================================================================
