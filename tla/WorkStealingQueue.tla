-------------------------- MODULE WorkStealingQueue --------------------------
(***************************************************************************)
(* One worker's Chase-Lev work-stealing queue (Detail/WorkStealingQueue)   *)
(* with its growable circular buffer (Detail/Buffer) and its recycled      *)
(* nodes, one action per access to memory another thread can see.  The     *)
(* owner is the worker; the thieves are the other workers and the threads  *)
(* helping from waitIdle().  Memory is sequentially consistent: the code's *)
(* seq_cst fences sit between the accesses whose order the protocol needs. *)
(***************************************************************************)
EXTENDS Naturals, Sequences

CONSTANTS
    Thieves,               \* the threads that call size() and steal()
    Nodes,                 \* the addresses a heap-allocated Task may have
    NoNode,                \* nullptr
    InitialCapacity,       \* slots of the first buffer, a power of two
    TaskFreeListCapacity,  \* most nodes kept for reuse
    MaxPushes              \* bound on the number of pushBottom() calls

ASSUME CapacityAssumption == InitialCapacity \in Nat \ {0}
ASSUME FreeListAssumption == TaskFreeListCapacity \in Nat
ASSUME PushesAssumption == MaxPushes \in Nat
ASSUME NodeAssumption == NoNode \notin Nodes

\* Tasks are named by the order of their pushes; 0 stands for an empty Task.
Tasks == 1..MaxPushes
NoTask == 0

VARIABLES
    topIndex,              \* topIndex_
    bottomIndex,           \* bottomIndex_ (only the owner stores to it)
    buffers,               \* retiredBuffers_ followed by *buffer_
    heap,                  \* the task at each node; NoTask: moved from or freed
    freeList,              \* the nodes on freeHead_'s list, head first
    opc, oTop, oIndex,     \* the owner: where it is, its local top, its claim
    tpc, tBottom, tTop, tBuf, tNode,   \* the thieves, likewise
    pushed, log, claims,   \* history: pushes done, task last pushed at each
                           \* index, claims won on each task
    delivered,             \* history: how often each task was returned
    overtaken              \* history: a push overwrote a slot whose claimer
                           \* had not read it yet

indexVars == <<topIndex, bottomIndex>>
memVars == <<buffers, heap, freeList>>
ownerVars == <<opc, oTop, oIndex>>
thiefVars == <<tpc, tBottom, tTop, tBuf, tNode>>
historyVars == <<pushed, log, claims, delivered, overtaken>>
vars == <<indexVars, memVars, ownerVars, thiefVars, historyVars>>

----------------------------------------------------------------------------
\* Detail/Buffer: the slots of a power-of-two ring, and the copy grow() makes.

NewBuffer(capacity) ==
    [capacity |-> capacity, tasks |-> [slot \in 0..(capacity - 1) |-> NoNode]]

Slot(buffer, index) == index % buffer.capacity

At(buffer, index) == buffer.tasks[Slot(buffer, index)]

Put(buffer, index, node) ==
    [buffer EXCEPT !.tasks[Slot(buffer, index)] = node]

\* grow(): the live range of the old buffer in one of twice its capacity.
Grow(buffer, bottom, top) ==
    LET capacity == 2 * buffer.capacity
        LiveAt(slot) == {i \in top..(bottom - 1) : i % capacity = slot}
    IN  [capacity |-> capacity,
         tasks |-> [slot \in 0..(capacity - 1) |->
                       IF LiveAt(slot) = {} THEN NoNode
                       ELSE At(buffer, CHOOSE i \in LiveAt(slot) : TRUE)]]

\* buffer_: the buffer stored last.
Active == buffers[Len(buffers)]

\* acquireNode(): the free list's head or, when it is empty, a fresh address.
FreshNodes == IF freeList # <<>> THEN {Head(freeList)}
                                 ELSE {n \in Nodes : heap[n] = NoTask}

\* releaseNode(): onto the free list unless that is at its capacity.
Released(node) == IF Len(freeList) >= TaskFreeListCapacity THEN freeList
                                                          ELSE <<node>> \o freeList

----------------------------------------------------------------------------
\* The tasks neither side has claimed: popBottom() has already lowered
\* bottomIndex_ while it finds out whether the last task is still there.

LiveEnd == IF opc \in {"popLoadTop", "popCas", "popRestore", "popKeep"}
           THEN bottomIndex + 1 ELSE bottomIndex

Live == topIndex..(LiveEnd - 1)

\* A successful pop or steal wins the task last pushed at its index.
Claim(index) == claims' = [claims EXCEPT ![log[index]] = @ + 1]

\* It is returned to the caller when its node is read.
Deliver(task) == delivered' = IF task \in Tasks
                              THEN [delivered EXCEPT ![task] = @ + 1]
                              ELSE delivered

Init ==
    /\ topIndex = 0
    /\ bottomIndex = 0
    /\ buffers = <<NewBuffer(InitialCapacity)>>
    /\ heap = [n \in Nodes |-> NoTask]
    /\ freeList = <<>>
    /\ opc = "idle"
    /\ oTop = 0
    /\ oIndex = 0
    /\ tpc = [t \in Thieves |-> "idle"]
    /\ tBottom = [t \in Thieves |-> 0]
    /\ tTop = [t \in Thieves |-> 0]
    /\ tBuf = [t \in Thieves |-> 1]
    /\ tNode = [t \in Thieves |-> NoNode]
    /\ pushed = 0
    /\ log = [i \in 0..MaxPushes |-> NoTask]
    /\ claims = [s \in Tasks |-> 0]
    /\ delivered = [s \in Tasks |-> 0]
    /\ overtaken = FALSE

----------------------------------------------------------------------------
\* pushBottom()

\* Mutant: a push into a buffer whose slots are all taken does not grow it.
FullOffByOne == bottomIndex - oTop > Active.capacity

\* The push must grow the buffer first: its slots are all taken.
Full == bottomIndex - oTop > Active.capacity - 1

PushLoadTop ==
    /\ opc = "idle"
    /\ pushed < MaxPushes
    /\ oTop' = topIndex
    /\ opc' = "pushStore"
    /\ UNCHANGED <<indexVars, memVars, oIndex, thiefVars, historyVars>>

\* Mutant: the old buffer is deleted at once.
PushStoreDeletesOld ==
    LET buffer == IF Full THEN Grow(Active, bottomIndex, oTop) ELSE Active
        written(node) == Put(buffer, bottomIndex, node)
    IN  /\ opc = "pushStore"
        /\ \E node \in FreshNodes :
              /\ heap' = [heap EXCEPT ![node] = pushed + 1]
              /\ buffers' =
                    IF Full THEN Append([buffers EXCEPT ![Len(buffers)] =
                                            NewBuffer(Active.capacity)], written(node))
                    ELSE [buffers EXCEPT ![Len(buffers)] = written(node)]
        /\ freeList' = IF freeList = <<>> THEN <<>> ELSE Tail(freeList)
        /\ oTop' = 0
        /\ opc' = "pushPublish"
        /\ UNCHANGED <<indexVars, oIndex, thiefVars, historyVars>>

\* Grow a full buffer, retire the old one, and store the node in its slot.
PushStore ==
    LET buffer == IF Full THEN Grow(Active, bottomIndex, oTop) ELSE Active
        written(node) == Put(buffer, bottomIndex, node)
    IN  /\ opc = "pushStore"
        /\ \E node \in FreshNodes :
              /\ heap' = [heap EXCEPT ![node] = pushed + 1]
              /\ buffers' = IF Full THEN Append(buffers, written(node))
                            ELSE [buffers EXCEPT ![Len(buffers)] = written(node)]
        /\ freeList' = IF freeList = <<>> THEN <<>> ELSE Tail(freeList)
        /\ overtaken' = (overtaken \/ \E t \in Thieves :
                            /\ tpc[t] = "stealRead"
                            /\ ~Full
                            /\ tBuf[t] = Len(buffers)
                            /\ Slot(buffer, tTop[t]) = Slot(buffer, bottomIndex))
        /\ oTop' = 0
        /\ opc' = "pushPublish"
        /\ UNCHANGED <<indexVars, oIndex, thiefVars, pushed, log, claims, delivered>>

PushPublish ==
    /\ opc = "pushPublish"
    /\ bottomIndex' = bottomIndex + 1
    /\ pushed' = pushed + 1
    /\ log' = [log EXCEPT ![bottomIndex] = pushed + 1]
    /\ opc' = "idle"
    /\ UNCHANGED <<topIndex, memVars, oTop, oIndex, thiefVars, claims, delivered,
                   overtaken>>

----------------------------------------------------------------------------
\* popBottom(): with bottomIndex_ = 0 it returns at once, changing nothing.

PopDecrementUnguarded ==
    /\ opc = "idle"
    /\ bottomIndex' = bottomIndex - 1
    /\ opc' = "popLoadTop"
    /\ UNCHANGED <<topIndex, memVars, oTop, oIndex, thiefVars, historyVars>>

PopDecrement ==
    /\ opc = "idle"
    /\ bottomIndex # 0
    /\ bottomIndex' = bottomIndex - 1
    /\ opc' = "popLoadTop"
    /\ UNCHANGED <<topIndex, memVars, oTop, oIndex, thiefVars, historyVars>>

\* More than one task left: the bottom one is the owner's without a CAS.
PopUncontended ==
    /\ opc = "popLoadTop"
    /\ topIndex < bottomIndex
    /\ oIndex' = bottomIndex
    /\ Claim(bottomIndex)
    /\ opc' = "popTake"
    /\ UNCHANGED <<indexVars, memVars, oTop, thiefVars, pushed, log, delivered, overtaken>>

\* At most one task left: the queue is empty, or the last task needs a CAS.
PopLoadTop ==
    /\ opc = "popLoadTop"
    /\ topIndex >= bottomIndex
    /\ IF topIndex = bottomIndex THEN opc' = "popCas" /\ oTop' = topIndex
                                 ELSE opc' = "popRestore" /\ oTop' = 0
    /\ UNCHANGED <<indexVars, memVars, oIndex, thiefVars, historyVars>>

PopCasUnchecked ==
    /\ opc = "popCas"
    /\ topIndex' = oTop + 1
    /\ oIndex' = bottomIndex
    /\ Claim(bottomIndex)
    /\ oTop' = 0
    /\ opc' = "popKeep"
    /\ UNCHANGED <<bottomIndex, memVars, thiefVars, pushed, log, delivered, overtaken>>

PopCasWon ==
    /\ opc = "popCas"
    /\ topIndex = oTop
    /\ topIndex' = topIndex + 1
    /\ oIndex' = bottomIndex
    /\ Claim(bottomIndex)
    /\ oTop' = 0
    /\ opc' = "popKeep"
    /\ UNCHANGED <<bottomIndex, memVars, thiefVars, pushed, log, delivered, overtaken>>

PopCasLost ==
    /\ opc = "popCas"
    /\ topIndex # oTop
    /\ oTop' = 0
    /\ opc' = "popRestore"
    /\ UNCHANGED <<indexVars, memVars, oIndex, thiefVars, historyVars>>

\* Undo the decrement, then give up or go on to take the task won.
PopRestoreForgotten ==
    /\ opc \in {"popRestore", "popKeep"}
    /\ bottomIndex' = IF opc = "popKeep" THEN bottomIndex + 1 ELSE bottomIndex
    /\ opc' = IF opc = "popKeep" THEN "popTake" ELSE "idle"
    /\ UNCHANGED <<topIndex, memVars, oTop, oIndex, thiefVars, historyVars>>

PopRestore ==
    /\ opc \in {"popRestore", "popKeep"}
    /\ bottomIndex' = bottomIndex + 1
    /\ opc' = IF opc = "popKeep" THEN "popTake" ELSE "idle"
    /\ UNCHANGED <<topIndex, memVars, oTop, oIndex, thiefVars, historyVars>>

PopTake ==
    LET node == At(Active, oIndex)
    IN  /\ opc = "popTake"
        /\ Deliver(heap[node])
        /\ heap' = [heap EXCEPT ![node] = NoTask]
        /\ freeList' = Released(node)
        /\ oIndex' = 0
        /\ opc' = "idle"
        /\ UNCHANGED <<indexVars, buffers, oTop, thiefVars, pushed, log, claims,
                       overtaken>>

----------------------------------------------------------------------------
\* size(), which a thief asks first, and steal().

\* A thief whose call has returned holds nothing.
Return(t) ==
    /\ tpc' = [tpc EXCEPT ![t] = "idle"]
    /\ tBottom' = [tBottom EXCEPT ![t] = 0]
    /\ tTop' = [tTop EXCEPT ![t] = 0]
    /\ tBuf' = [tBuf EXCEPT ![t] = 1]
    /\ tNode' = [tNode EXCEPT ![t] = NoNode]

SizeLoadBottom(t) ==
    /\ tpc[t] = "idle"
    /\ tBottom' = [tBottom EXCEPT ![t] = bottomIndex]
    /\ tpc' = [tpc EXCEPT ![t] = "sizeTop"]
    /\ UNCHANGED <<indexVars, memVars, ownerVars, tTop, tBuf, tNode, historyVars>>

SizeZero(t) ==
    /\ tpc[t] = "sizeTop"
    /\ tBottom[t] <= topIndex
    /\ Return(t)
    /\ UNCHANGED <<indexVars, memVars, ownerVars, historyVars>>

SizeNonzeroOffByOne(t) ==
    /\ tpc[t] = "sizeTop"
    /\ tBottom[t] > topIndex + 1
    /\ tBottom' = [tBottom EXCEPT ![t] = 0]
    /\ tpc' = [tpc EXCEPT ![t] = "steal"]
    /\ UNCHANGED <<indexVars, memVars, ownerVars, tTop, tBuf, tNode, historyVars>>

SizeNonzero(t) ==
    /\ tpc[t] = "sizeTop"
    /\ tBottom[t] > topIndex
    /\ tBottom' = [tBottom EXCEPT ![t] = 0]
    /\ tpc' = [tpc EXCEPT ![t] = "steal"]
    /\ UNCHANGED <<indexVars, memVars, ownerVars, tTop, tBuf, tNode, historyVars>>

StealLoadTop(t) ==
    /\ tpc[t] = "steal"
    /\ tTop' = [tTop EXCEPT ![t] = topIndex]
    /\ tpc' = [tpc EXCEPT ![t] = "stealBottom"]
    /\ UNCHANGED <<indexVars, memVars, ownerVars, tBottom, tBuf, tNode, historyVars>>

StealEmpty(t) ==
    /\ tpc[t] = "stealBottom"
    /\ tTop[t] >= bottomIndex
    /\ Return(t)
    /\ UNCHANGED <<indexVars, memVars, ownerVars, historyVars>>

StealNonempty(t) ==
    /\ tpc[t] = "stealBottom"
    /\ tTop[t] < bottomIndex
    /\ tpc' = [tpc EXCEPT ![t] = "stealBuffer"]
    /\ UNCHANGED <<indexVars, memVars, ownerVars, tBottom, tTop, tBuf, tNode,
                   historyVars>>

StealLoadBuffer(t) ==
    /\ tpc[t] = "stealBuffer"
    /\ tBuf' = [tBuf EXCEPT ![t] = Len(buffers)]
    /\ tpc' = [tpc EXCEPT ![t] = "stealCas"]
    /\ UNCHANGED <<indexVars, memVars, ownerVars, tBottom, tTop, tNode, historyVars>>

StealCasUnchecked(t) ==
    /\ tpc[t] = "stealCas"
    /\ topIndex' = tTop[t] + 1
    /\ Claim(tTop[t])
    /\ tpc' = [tpc EXCEPT ![t] = "stealRead"]
    /\ UNCHANGED <<bottomIndex, memVars, ownerVars, tBottom, tTop, tBuf, tNode,
                   pushed, log, delivered, overtaken>>

StealCasWon(t) ==
    /\ tpc[t] = "stealCas"
    /\ topIndex = tTop[t]
    /\ topIndex' = topIndex + 1
    /\ Claim(topIndex)
    /\ tpc' = [tpc EXCEPT ![t] = "stealRead"]
    /\ UNCHANGED <<bottomIndex, memVars, ownerVars, tBottom, tTop, tBuf, tNode,
                   pushed, log, delivered, overtaken>>

StealCasLost(t) ==
    /\ tpc[t] = "stealCas"
    /\ topIndex # tTop[t]
    /\ Return(t)
    /\ UNCHANGED <<indexVars, memVars, ownerVars, historyVars>>

\* The slot is read only now, after the CAS has given the index away.
StealRead(t) ==
    /\ tpc[t] = "stealRead"
    /\ tNode' = [tNode EXCEPT ![t] = At(buffers[tBuf[t]], tTop[t])]
    /\ tpc' = [tpc EXCEPT ![t] = "stealTake"]
    /\ UNCHANGED <<indexVars, memVars, ownerVars, tBottom, tTop, tBuf, historyVars>>

\* Move the task out and delete the node, never touching the free list.
StealTake(t) ==
    /\ tpc[t] = "stealTake"
    /\ Deliver(heap[tNode[t]])
    /\ heap' = [heap EXCEPT ![tNode[t]] = NoTask]
    /\ Return(t)
    /\ UNCHANGED <<indexVars, buffers, freeList, ownerVars, pushed, log, claims,
                   overtaken>>

----------------------------------------------------------------------------

OwnerInOperation == PushStore \/ PushPublish \/ PopUncontended \/ PopLoadTop
                    \/ PopCasWon \/ PopCasLost \/ PopRestore \/ PopTake

Owner == PushLoadTop \/ PopDecrement \/ OwnerInOperation

Thief(t) == SizeLoadBottom(t) \/ SizeZero(t) \/ SizeNonzero(t)
            \/ StealLoadTop(t) \/ StealEmpty(t) \/ StealNonempty(t)
            \/ StealLoadBuffer(t) \/ StealCasWon(t) \/ StealCasLost(t)
            \/ StealRead(t) \/ StealTake(t)

Next == Owner \/ \E t \in Thieves : Thief(t)

Spec == Init /\ [][Next]_vars

\* The owner finishes the operations it begins, and thieves keep trying: a
\* worker that fetched nothing while pendingTasks_ # 0 scans again.
FairSpec == /\ Spec
            /\ WF_vars(OwnerInOperation)
            /\ \A t \in Thieves : WF_vars(Thief(t))

----------------------------------------------------------------------------
\* Properties

OwnerLabels == {"idle", "pushStore", "pushPublish", "popLoadTop", "popCas",
                "popRestore", "popKeep", "popTake"}
ThiefLabels == {"idle", "sizeTop", "steal", "stealBottom", "stealBuffer",
                "stealCas", "stealRead", "stealTake"}
Indices == 0..MaxPushes

IndexTypeOK ==
    /\ topIndex \in Indices
    /\ bottomIndex \in Indices
    /\ opc \in OwnerLabels
    /\ oTop \in Indices
    /\ oIndex \in Indices
    /\ tpc \in [Thieves -> ThiefLabels]
    /\ tBottom \in [Thieves -> Indices]
    /\ tTop \in [Thieves -> Indices]
    /\ pushed \in Indices
    /\ log \in [Indices -> Tasks \cup {NoTask}]
    /\ claims \in [Tasks -> Nat]

IsBuffer(buffer) ==
    /\ buffer.capacity \in Nat \ {0}
    /\ buffer.tasks \in [0..(buffer.capacity - 1) -> Nodes \cup {NoNode}]

MemoryTypeOK ==
    /\ Len(buffers) >= 1
    /\ \A k \in 1..Len(buffers) : IsBuffer(buffers[k])
    /\ heap \in [Nodes -> Tasks \cup {NoTask}]
    /\ freeList \in Seq(Nodes \cup {NoNode})
    /\ tBuf \in [Thieves -> Nat \ {0}]
    /\ \A t \in Thieves : tBuf[t] <= Len(buffers)
    /\ tNode \in [Thieves -> Nodes \cup {NoNode}]
    /\ delivered \in [Tasks -> Nat]
    /\ overtaken \in BOOLEAN

\* Every variable of the queue has its type.
TypeOK == IndexTypeOK /\ MemoryTypeOK

\* The node an index's slot holds in the active buffer.
NodeAt(index) == At(Active, index)

\* Owner and thieves never claim the same task twice and never lose one: a
\* pushed task has been claimed once, or not at all and is still in the queue.
ClaimedExactlyOnce ==
    \A s \in Tasks : claims[s] = IF s <= pushed /\ \A i \in Live : log[i] # s
                                 THEN 1 ELSE 0

\* The node holds the task pushed at that index and is not on the free list.
Holds(node, index) ==
    /\ node \in Nodes
    /\ heap[node] = log[index]
    /\ \A k \in 1..Len(freeList) : freeList[k] # node

\* The thief has won its index and not read its slot, or can still win it.
MayRead(t) ==
    \/ tpc[t] = "stealRead"
    \/ tpc[t] = "stealCas" /\ tTop[t] = topIndex

\* Until a push overtakes a thief (one that won the CAS in steal() and had not
\* read its slot before a full round of pushes), the slots of the live indices
\* name distinct nodes that hold the tasks pushed there, and a thief that has won
\* an index or can still win it will find that index's task in the buffer it
\* loaded, which may have been grown out of and retired since: no node is
\* recycled, no slot reused and no buffer deleted under either.
LiveSlotsIntact ==
    ~overtaken =>
        /\ \A i \in Live : Holds(NodeAt(i), i)
        /\ \A i, j \in Live : i # j => NodeAt(i) # NodeAt(j)
        /\ \A t \in Thieves : MayRead(t) => Holds(At(buffers[tBuf[t]], tTop[t]), tTop[t])

\* Unless a push has overtaken a thief, what a thief is about to move out of
\* the node it read is a task no one else has received.
NoTaskDeliveredTwice ==
    ~overtaken =>
        /\ \A s \in Tasks : delivered[s] <= claims[s]
        /\ \A t \in Thieves : tpc[t] = "stealTake" =>
              /\ tNode[t] \in Nodes
              /\ heap[tNode[t]] \in Tasks
              /\ delivered[heap[tNode[t]]] = 0

\* Every pushed task is delivered exactly once, none lost or duplicated: what the
\* tests of concurrent stealing demand.  It is judged when every call that
\* claimed a task has returned it, and it is stated here with no proviso.
DeliveredExactlyOnce ==
    opc # "popTake" /\ opc # "popKeep"
        /\ (\A t \in Thieves : tpc[t] \notin {"stealRead", "stealTake"})
    => delivered = claims

\* A push that overtakes a thief is the only way to break it, at any moment.
DeliveredUnlessOvertaken ==
    NoTaskDeliveredTwice /\ (~overtaken => DeliveredExactlyOnce)

\* topIndex_ never moves back: the CAS of a delayed thief cannot succeed on an
\* index already given away.
TopNeverMovesBack == [][topIndex' >= topIndex]_vars

\* Every pushed task is claimed at last, whatever the contention for it.
EveryTaskClaimed == \A s \in Tasks : (pushed >= s) ~> (claims[s] = 1)

\* The implementation of the abstract deque: an operation takes effect when
\* bottomIndex_ publishes a push, when an uncontended pop reads topIndex_, and
\* when the CAS of a steal or of a contended pop succeeds.
Deque == INSTANCE StealDeque WITH
    deque <- [k \in 1..(LiveEnd - topIndex) |-> log[topIndex + k - 1]]

ImplementsDeque == Deque!Spec
=============================================================================
