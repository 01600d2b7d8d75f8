-------------------------------- MODULE Task --------------------------------
(***************************************************************************)
(* Task: the type-erased, move-only callable the pool's queues hold.  A    *)
(* callable lives in the Task's inline storage or in a heap block of its   *)
(* own; the virtual table of the callable's type says how to move and how  *)
(* to destroy it.  A Task is used by one thread at a time, so every        *)
(* operation is one step.                                                  *)
(***************************************************************************)
EXTENDS Naturals, FiniteSets

CONSTANTS
    Slots,                 \* where a Task may be: a queue's slot, a local, a parameter
    Blocks,                \* heap blocks
    Callables,             \* callables, each of a type of its own and wrapped once
    InlineTypes,           \* those whose type fits inlineStorage_
    MayThrow,              \* those whose copy into the Task may throw
    Null                   \* no block, no vtable, no callable

ASSUME TypesAssumption == InlineTypes \subseteq Callables /\ MayThrow \subseteq Callables
ASSUME NullAssumption == Null \notin Callables \cup Blocks
ASSUME PlacesAssumption == Slots \cap Blocks = {} /\ Callables \cap {"raw", "husk"} = {}

\* The memory a callable may be in: inline storages and blocks.
Places == Slots \cup Blocks

VARIABLES
    alive,                 \* the slots in which there is a Task
    task,                  \* its members vtable_ (the callable's type), isHeap_, heapPtr_
    heap,                  \* the memory (see Heaps)
    wrapped,               \* history: the callables handed to a Task
    called                 \* history: what the last operator() ran, Null if it threw

vars == <<alive, task, heap, wrapped, called>>

Empty == [vtable |-> Null, isHeap |-> FALSE, heapPtr |-> Null]

\* Which object each place holds, "raw" if none and "husk" if one that has been
\* moved from; the blocks operator new has given out; the callables destroyed;
\* and whether an object was ever built over another or destroyed twice.
Init ==
    /\ alive = {}
    /\ task = [s \in Slots |-> Empty]
    /\ heap = [object |-> [p \in Places |-> "raw"], allocated |-> {}, destroyed |-> {},
               misused |-> FALSE]
    /\ wrapped = {}
    /\ called = Null

----------------------------------------------------------------------------
\* The virtual table: what each of its functions does to the memory h.

Destroy(h, p) ==
    [h EXCEPT !.object[p] = "raw",
              !.destroyed = @ \cup ({h.object[p]} \ {"raw", "husk"}),
              !.misused = @ \/ h.object[p] = "raw"]

\* Mutant: heapDelete_ destroys and does not free.
HeapDestroy(h, p) == Destroy(h, p)

HeapDelete(h, p) ==
    LET freed == Destroy(h, p) IN [freed EXCEPT !.allocated = @ \ {p}]

\* The callable is now at dst; what is left of it at src is still an object.
MoveTo(h, src, dst) ==
    [h EXCEPT !.object[dst] = h.object[src], !.object[src] = "husk",
              !.misused = @ \/ h.object[src] = "raw" \/ h.object[dst] # "raw"]

----------------------------------------------------------------------------
target(s) == IF task[s].isHeap THEN task[s].heapPtr ELSE s

\* reset() of the Task at s: the memory after it.
Reset(h, s) ==
    IF task[s].vtable = Null THEN h
    ELSE IF task[s].isHeap THEN HeapDelete(h, task[s].heapPtr)
    ELSE Destroy(h, s)

Construct(s) ==
    /\ s \notin alive
    /\ alive' = alive \cup {s}
    /\ UNCHANGED <<task, heap, wrapped, called>>

\* Task(f) for a type that fits.
WrapInline(s, c) ==
    /\ s \notin alive
    /\ c \in InlineTypes \ wrapped
    /\ alive' = alive \cup {s}
    /\ task' = [task EXCEPT ![s] = [Empty EXCEPT !.vtable = c]]
    /\ heap' = [heap EXCEPT !.object[s] = c, !.misused = @ \/ heap.object[s] # "raw"]
    /\ wrapped' = wrapped \cup {c}
    /\ UNCHANGED called

\* Task(f) for any other: operator new, and the callable is built there.
WrapOnHeap(s, c) ==
    /\ s \notin alive
    /\ c \in Callables \ (InlineTypes \cup wrapped)
    /\ \E b \in Blocks \ heap.allocated :
          /\ task' = [task EXCEPT ![s] = [vtable |-> c, isHeap |-> TRUE, heapPtr |-> b]]
          /\ heap' = [heap EXCEPT !.object[b] = c, !.allocated = @ \cup {b}]
    /\ alive' = alive \cup {s}
    /\ wrapped' = wrapped \cup {c}
    /\ UNCHANGED called

\* The callable's constructor throws: there is no Task whose destructor would
\* run, and nobody frees a block that was allocated.
WrapThrows(s, c) ==
    /\ s \notin alive
    /\ c \in MayThrow \ wrapped
    /\ \E lost \in IF c \in InlineTypes THEN {{}} ELSE {{b} : b \in Blocks \ heap.allocated} :
          heap' = [heap EXCEPT !.allocated = @ \cup lost, !.destroyed = @ \cup {c}]
    /\ wrapped' = wrapped \cup {c}
    /\ UNCHANGED <<alive, task, called>>

\* A Task takes over what another one holds, which is then empty.
TakeOver(s, other) == task' = [task EXCEPT ![s] = task[other], ![other] = Empty]

\* A block only changes hands; a callable that lives inline is moved, and what
\* is left of it destroyed.
Relocated(h, s, other) ==
    IF task[other].vtable = Null \/ task[other].isHeap THEN h
    ELSE Destroy(MoveTo(h, other, s), other)

MoveConstruct(s, other) ==
    /\ s \notin alive
    /\ other \in alive
    /\ alive' = alive \cup {s}
    /\ TakeOver(s, other)
    /\ heap' = Relocated(heap, s, other)
    /\ UNCHANGED <<wrapped, called>>

MoveAssign(s, other) ==
    /\ {s, other} \subseteq alive
    /\ s # other
    /\ TakeOver(s, other)
    /\ heap' = Relocated(Reset(heap, s), s, other)
    /\ UNCHANGED <<alive, wrapped, called>>

\* Mutant: the Task is not compared with itself.
SelfAssignUnchecked(s) ==
    /\ s \in alive
    /\ task' = [task EXCEPT ![s] = Empty]
    /\ heap' = Reset(heap, s)
    /\ UNCHANGED <<alive, wrapped, called>>

SelfAssign(s) == s \in alive /\ UNCHANGED vars

Destruct(s) ==
    /\ s \in alive
    /\ alive' = alive \ {s}
    /\ task' = [task EXCEPT ![s] = Empty]
    /\ heap' = Reset(heap, s)
    /\ UNCHANGED <<wrapped, called>>

\* operator(): an empty Task throws.
Invoke(s) ==
    /\ s \in alive
    /\ called' = IF task[s].vtable = Null THEN Null ELSE heap.object[target(s)]
    /\ UNCHANGED <<alive, task, heap, wrapped>>

Next ==
    \/ \E s \in Slots, c \in Callables : WrapInline(s, c) \/ WrapOnHeap(s, c) \/ WrapThrows(s, c)
    \/ \E s, other \in Slots : MoveConstruct(s, other) \/ MoveAssign(s, other)
    \/ \E s \in Slots : Construct(s) \/ SelfAssign(s) \/ Destruct(s) \/ Invoke(s)

Spec == Init /\ [][Next]_vars

----------------------------------------------------------------------------
Objects == Callables \cup {"raw", "husk"}
Heaps == [object : [Places -> Objects], allocated : SUBSET Blocks,
          destroyed : SUBSET Callables, misused : BOOLEAN]

\* Every variable has its type; memory that holds an object is allocated.
TypeOK ==
    /\ alive \subseteq Slots
    /\ task \in [Slots -> [vtable : Callables \cup {Null}, isHeap : BOOLEAN,
                           heapPtr : Blocks \cup {Null}]]
    /\ heap \in Heaps
    /\ \A b \in Blocks : heap.object[b] # "raw" => b \in heap.allocated
    /\ wrapped \subseteq Callables
    /\ called \in Callables \cup {Null}

\* The Tasks that hold c.
Holders(c) == {s \in alive : task[s].vtable = c}

\* A callable that was wrapped is in exactly one Task, at the place that Task's
\* operator() looks, until it is destroyed, and then in none: moves and
\* assignments neither duplicate a callable nor lose one, and every operation
\* of a vtable finds an object of its type.  No object is left behind.
HeldByOneTask ==
    /\ ~heap.misused
    /\ \A c \in wrapped :
          Cardinality(Holders(c)) = IF c \in heap.destroyed THEN 0 ELSE 1
    /\ \A p \in Places : heap.object[p] # "raw" =>
          \E s \in alive : target(s) = p /\ task[s].vtable = heap.object[p]

\* A block is allocated exactly as long as one Task points to it: heap storage
\* is handed from Task to Task and freed by the last.
BlocksOwned ==
    \A b \in Blocks :
        Cardinality({s \in alive : task[s].isHeap /\ task[s].heapPtr = b})
        = IF b \in heap.allocated THEN 1 ELSE 0

\* Both: a callable and the storage it needs have one owner from the Task that
\* wrapped it to the Task that destroys it.
CallablesOwned == HeldByOneTask /\ BlocksOwned

----------------------------------------------------------------------------
\* The Tasks are boxes: a move moves the callable, wherever it is, and the end
\* of a Task is the end of what it holds.
Holding(s) == IF s \notin alive \/ task[s].vtable = Null THEN Null ELSE heap.object[target(s)]

Box == INSTANCE TaskBox WITH
    Nothing <- Null, boxes <- alive, held <- [s \in Slots |-> Holding(s)],
    ended <- heap.destroyed

ImplementsBox == Box!Spec
=============================================================================
