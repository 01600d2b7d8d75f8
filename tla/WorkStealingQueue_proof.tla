----------------------- MODULE WorkStealingQueue_proof -----------------------
(***************************************************************************)
(* Theorems about WorkStealingQueue for any number of thieves, nodes and   *)
(* pushes and any capacity: the index protocol gives every pushed task to  *)
(* exactly one taker.                                                      *)
(***************************************************************************)
EXTENDS WorkStealingQueue, SequenceTheorems, TLAPS

USE PushesAssumption

\* The inductive invariant.  The live range is well formed and no longer than
\* the pushes done; a popping owner knows where topIndex_ can be; a thief past
\* its emptiness check cannot win an index that is no longer live; the live
\* indices hold distinct pushed tasks; and claims counts what has left.
Popped == {"popRestore", "popKeep"}
Pushing == {"pushStore", "pushPublish"}

RangeInv ==
    /\ topIndex <= LiveEnd
    /\ LiveEnd <= pushed
    /\ opc \in Pushing => pushed < MaxPushes
    /\ opc \in Popped => topIndex = bottomIndex + 1
    /\ opc = "popCas" => oTop = bottomIndex /\ topIndex >= bottomIndex

ThiefInv ==
    \A t \in Thieves :
        /\ tpc[t] \in {"stealBottom", "stealBuffer", "stealCas"} => tTop[t] <= topIndex
        /\ tpc[t] \in {"stealBuffer", "stealCas"} /\ tTop[t] = topIndex
              => topIndex < LiveEnd

LogInv ==
    /\ \A i \in Live : log[i] \in 1..pushed
    /\ \A i, j \in Live : i # j => log[i] # log[j]

IInv == IndexTypeOK /\ RangeInv /\ ThiefInv /\ LogInv /\ ClaimedExactlyOnce

LEMMA InitIInv == Init => IInv
<1> SUFFICES ASSUME Init PROVE IInv
  OBVIOUS
<1>1. IndexTypeOK
  BY DEF Init, IndexTypeOK, Indices, Tasks, NoTask, OwnerLabels, ThiefLabels
<1>2. RangeInv /\ LiveEnd = 0
  BY DEF Init, RangeInv, LiveEnd, Popped, Pushing
<1>3. ThiefInv
  BY DEF Init, ThiefInv
<1>4. LogInv
  BY <1>2 DEF Init, LogInv, Live
<1>5. ClaimedExactlyOnce
  BY DEF Init, ClaimedExactlyOnce, Tasks
<1> QED BY <1>1, <1>2, <1>3, <1>4, <1>5 DEF IInv

\* An action that changes neither the live range nor the history keeps the parts
\* of the invariant that are about them.
LEMMA SameRange ==
  ASSUME LogInv, ClaimedExactlyOnce,
         topIndex' = topIndex, LiveEnd' = LiveEnd,
         UNCHANGED <<pushed, log, claims>>
  PROVE  LogInv' /\ ClaimedExactlyOnce'
BY DEF LogInv, ClaimedExactlyOnce, Live

\* Winning the task at one end of the live range removes it from the range and
\* counts one claim of it.
LEMMA WinOne ==
  ASSUME IndexTypeOK, LogInv, ClaimedExactlyOnce,
         NEW i \in Live, Claim(i), UNCHANGED <<pushed, log>>,
         Live' = Live \ {i}
  PROVE  /\ LogInv' /\ ClaimedExactlyOnce'
         /\ claims' \in [Tasks -> Nat]
<1>1. log[i] \in 1..pushed /\ log[i] \in Tasks
  BY DEF LogInv, IndexTypeOK, Indices, Tasks
<1>2. claims' \in [Tasks -> Nat]
  BY <1>1 DEF Claim, IndexTypeOK
<1>3. LogInv'
  BY DEF LogInv
<1>4. ASSUME NEW s \in Tasks
      PROVE  claims'[s] = IF s <= pushed' /\ \A j \in Live' : log'[j] # s
                          THEN 1 ELSE 0
  <2>1. CASE s = log[i]
    <3>1. claims[s] = 0
      BY <2>1 DEF ClaimedExactlyOnce
    <3>2. claims'[s] = 1
      BY <2>1, <3>1 DEF Claim, IndexTypeOK
    <3>3. \A j \in Live' : log'[j] # s
      BY <2>1 DEF LogInv
    <3> QED BY <1>1, <2>1, <3>2, <3>3 DEF IndexTypeOK, Indices
  <2>2. CASE s # log[i]
    <3>1. claims'[s] = claims[s]
      BY <2>2 DEF Claim, IndexTypeOK
    <3>2. (\A j \in Live' : log'[j] # s) <=> (\A j \in Live : log[j] # s)
      BY <2>2
    <3> QED BY <3>1, <3>2 DEF ClaimedExactlyOnce
  <2> QED BY <2>1, <2>2
<1> QED BY <1>2, <1>3, <1>4 DEF ClaimedExactlyOnce

LEMMA StepIInv == IInv /\ [Next]_vars => IInv'
<1> SUFFICES ASSUME IInv, [Next]_vars PROVE IInv'
  OBVIOUS
<1> USE DEF IInv, indexVars, memVars, ownerVars, thiefVars, historyVars
<1>1. CASE UNCHANGED vars
  BY <1>1 DEF vars, IndexTypeOK, RangeInv, ThiefInv, LogInv, ClaimedExactlyOnce,
              Live, LiveEnd
<1>2. CASE PushLoadTop
  <2>1. IndexTypeOK'
    BY <1>2 DEF PushLoadTop, IndexTypeOK, OwnerLabels
  <2>2. LiveEnd' = LiveEnd /\ RangeInv' /\ ThiefInv'
    BY <1>2 DEF PushLoadTop, RangeInv, ThiefInv, LiveEnd, Popped, Pushing
  <2>3. LogInv' /\ ClaimedExactlyOnce'
    BY <1>2, <2>2, SameRange DEF PushLoadTop
  <2> QED BY <2>1, <2>2, <2>3
<1>3. CASE PushStore
  <2>1. IndexTypeOK'
    BY <1>3 DEF PushStore, IndexTypeOK, OwnerLabels, Indices
  <2>2. LiveEnd' = LiveEnd /\ RangeInv' /\ ThiefInv'
    BY <1>3 DEF PushStore, RangeInv, ThiefInv, LiveEnd, Popped, Pushing
  <2>3. LogInv' /\ ClaimedExactlyOnce'
    BY <1>3, <2>2, SameRange DEF PushStore
  <2> QED BY <2>1, <2>2, <2>3
<1>4. CASE PushPublish
  <2>1. /\ pushed \in Nat /\ bottomIndex \in Nat /\ topIndex \in Nat
        /\ pushed < MaxPushes /\ LiveEnd = bottomIndex /\ bottomIndex <= pushed
    BY <1>4 DEF PushPublish, RangeInv, LiveEnd, Pushing, IndexTypeOK, Indices
  <2>2. /\ LiveEnd' = LiveEnd + 1 /\ Live' = Live \cup {bottomIndex}
        /\ bottomIndex \notin Live
    BY <1>4, <2>1 DEF PushPublish, LiveEnd, Live, RangeInv
  <2>3. IndexTypeOK'
    BY <1>4, <2>1 DEF PushPublish, IndexTypeOK, Indices, OwnerLabels, Tasks
  <2>4. RangeInv'
    BY <1>4, <2>1, <2>2 DEF PushPublish, RangeInv, Popped, Pushing
  <2>5. ThiefInv'
    BY <1>4, <2>1, <2>2 DEF PushPublish, ThiefInv, RangeInv
  <2>6. /\ log'[bottomIndex] = pushed + 1
        /\ \A i \in Live : log'[i] = log[i] /\ log[i] \in 1..pushed
    BY <1>4, <2>1, <2>2 DEF PushPublish, IndexTypeOK, Indices, LogInv
  <2>7. LogInv'
    BY <1>4, <2>1, <2>2, <2>6 DEF PushPublish, LogInv
  <2>8. ASSUME NEW s \in Tasks
        PROVE  claims'[s] = IF s <= pushed' /\ \A i \in Live' : log'[i] # s
                            THEN 1 ELSE 0
    <3>1. claims'[s] = claims[s] /\ pushed' = pushed + 1
      BY <1>4 DEF PushPublish
    <3>2. CASE s = pushed + 1
      BY <2>1, <2>2, <2>6, <3>1, <3>2 DEF ClaimedExactlyOnce, Tasks
    <3>3. CASE s # pushed + 1
      <4>1. (\A i \in Live' : log'[i] # s) <=> (\A i \in Live : log[i] # s)
        BY <2>2, <2>6, <3>3
      <4>2. s <= pushed' <=> s <= pushed
        BY <2>1, <3>1, <3>3 DEF Tasks
      <4> QED BY <3>1, <4>1, <4>2 DEF ClaimedExactlyOnce
    <3> QED BY <3>2, <3>3
  <2>9. ClaimedExactlyOnce'
    BY <2>8 DEF ClaimedExactlyOnce
  <2> QED BY <2>3, <2>4, <2>5, <2>7, <2>9
<1>5. CASE PopDecrement
  <2>1. IndexTypeOK'
    BY <1>5 DEF PopDecrement, IndexTypeOK, Indices, OwnerLabels
  <2>2. LiveEnd' = LiveEnd /\ RangeInv' /\ ThiefInv'
    BY <1>5 DEF PopDecrement, RangeInv, ThiefInv, LiveEnd, Popped, Pushing,
                IndexTypeOK, Indices
  <2>3. LogInv' /\ ClaimedExactlyOnce'
    BY <1>5, <2>2, SameRange DEF PopDecrement
  <2> QED BY <2>1, <2>2, <2>3
<1>6. CASE PopUncontended
  <2>1. /\ topIndex \in Nat /\ bottomIndex \in Nat /\ topIndex < bottomIndex
        /\ LiveEnd = bottomIndex + 1 /\ LiveEnd' = bottomIndex
        /\ bottomIndex \in Live /\ Live' = Live \ {bottomIndex}
    BY <1>6 DEF PopUncontended, LiveEnd, Live, IndexTypeOK, Indices
  <2>2. LogInv' /\ ClaimedExactlyOnce' /\ claims' \in [Tasks -> Nat]
    BY <1>6, <2>1, WinOne DEF PopUncontended
  <2>3. IndexTypeOK'
    BY <1>6, <2>2 DEF PopUncontended, IndexTypeOK, OwnerLabels
  <2>4. RangeInv' /\ ThiefInv'
    BY <1>6, <2>1 DEF PopUncontended, RangeInv, ThiefInv, Popped, Pushing,
                      IndexTypeOK, Indices
  <2> QED BY <2>2, <2>3, <2>4
<1>7. CASE PopLoadTop
  <2>1. IndexTypeOK'
    BY <1>7 DEF PopLoadTop, IndexTypeOK, Indices, OwnerLabels
  <2>2. LiveEnd' = LiveEnd /\ RangeInv' /\ ThiefInv'
    BY <1>7 DEF PopLoadTop, RangeInv, ThiefInv, LiveEnd, Popped, Pushing,
                IndexTypeOK, Indices
  <2>3. LogInv' /\ ClaimedExactlyOnce'
    BY <1>7, <2>2, SameRange DEF PopLoadTop
  <2> QED BY <2>1, <2>2, <2>3
<1>8. CASE PopCasWon
  <2>1. /\ topIndex \in Nat /\ bottomIndex = topIndex
        /\ LiveEnd = topIndex + 1 /\ LiveEnd' = topIndex + 1
        /\ topIndex \in Live /\ Live' = Live \ {topIndex}
    BY <1>8 DEF PopCasWon, LiveEnd, Live, RangeInv, IndexTypeOK, Indices
  <2>2. LogInv' /\ ClaimedExactlyOnce' /\ claims' \in [Tasks -> Nat]
    BY <1>8, <2>1, WinOne DEF PopCasWon
  <2>3. IndexTypeOK'
    BY <1>8, <2>1, <2>2 DEF PopCasWon, IndexTypeOK, Indices, OwnerLabels, RangeInv
  <2>4. RangeInv' /\ ThiefInv'
    BY <1>8, <2>1 DEF PopCasWon, RangeInv, ThiefInv, Popped, Pushing,
                      IndexTypeOK, Indices
  <2> QED BY <2>2, <2>3, <2>4
<1>9. CASE PopCasLost
  <2>1. IndexTypeOK'
    BY <1>9 DEF PopCasLost, IndexTypeOK, Indices, OwnerLabels
  <2>2. LiveEnd' = LiveEnd /\ RangeInv' /\ ThiefInv'
    BY <1>9 DEF PopCasLost, RangeInv, ThiefInv, LiveEnd, Popped, Pushing,
                IndexTypeOK, Indices
  <2>3. LogInv' /\ ClaimedExactlyOnce'
    BY <1>9, <2>2, SameRange DEF PopCasLost
  <2> QED BY <2>1, <2>2, <2>3
<1>10. CASE PopRestore
  <2>1. LiveEnd' = LiveEnd /\ RangeInv' /\ ThiefInv'
    BY <1>10 DEF PopRestore, RangeInv, ThiefInv, LiveEnd, Popped, Pushing,
                 IndexTypeOK, Indices
  <2>2. IndexTypeOK'
    BY <1>10, <2>1 DEF PopRestore, IndexTypeOK, Indices, OwnerLabels, RangeInv,
                       LiveEnd
  <2>3. LogInv' /\ ClaimedExactlyOnce'
    BY <1>10, <2>1, SameRange DEF PopRestore
  <2> QED BY <2>1, <2>2, <2>3
<1>11. CASE PopTake
  <2>1. IndexTypeOK'
    BY <1>11 DEF PopTake, IndexTypeOK, Indices, OwnerLabels
  <2>2. LiveEnd' = LiveEnd /\ RangeInv' /\ ThiefInv'
    BY <1>11 DEF PopTake, RangeInv, ThiefInv, LiveEnd, Popped, Pushing
  <2>3. LogInv' /\ ClaimedExactlyOnce'
    BY <1>11, <2>2, SameRange DEF PopTake
  <2> QED BY <2>1, <2>2, <2>3
<1>12. ASSUME NEW t \in Thieves, Thief(t) PROVE IInv'
  <2>1. ASSUME UNCHANGED <<indexVars, opc, oTop, oIndex, pushed, log, claims>>,
               IndexTypeOK', ThiefInv'
        PROVE  IInv'
    <3>1. LiveEnd' = LiveEnd /\ RangeInv'
      BY <2>1 DEF RangeInv, LiveEnd, Popped, Pushing
    <3>2. LogInv' /\ ClaimedExactlyOnce'
      BY <2>1, <3>1, SameRange
    <3> QED BY <2>1, <3>1, <3>2
  <2>2. CASE SizeLoadBottom(t)
    BY <2>1, <2>2 DEF SizeLoadBottom, IndexTypeOK, ThiefLabels, ThiefInv, LiveEnd
  <2>3. CASE SizeZero(t)
    BY <2>1, <2>3 DEF SizeZero, Return, IndexTypeOK, Indices, ThiefLabels, ThiefInv,
                      LiveEnd
  <2>4. CASE SizeNonzero(t)
    BY <2>1, <2>4 DEF SizeNonzero, IndexTypeOK, Indices, ThiefLabels, ThiefInv,
                      LiveEnd
  <2>5. CASE StealLoadTop(t)
    BY <2>1, <2>5 DEF StealLoadTop, IndexTypeOK, Indices, ThiefLabels, ThiefInv,
                      LiveEnd
  <2>6. CASE StealEmpty(t)
    BY <2>1, <2>6 DEF StealEmpty, Return, IndexTypeOK, Indices, ThiefLabels,
                      ThiefInv, LiveEnd
  <2>7. CASE StealNonempty(t)
    <3>1. IndexTypeOK'
      BY <2>7 DEF StealNonempty, IndexTypeOK, ThiefLabels
    <3>2. ThiefInv'
      BY <2>7 DEF StealNonempty, IndexTypeOK, Indices, ThiefInv, LiveEnd
    <3> QED BY <2>1, <2>7, <3>1, <3>2 DEF StealNonempty
  <2>8. CASE StealLoadBuffer(t)
    BY <2>1, <2>8 DEF StealLoadBuffer, IndexTypeOK, ThiefLabels, ThiefInv, LiveEnd
  <2>9. CASE StealCasWon(t)
    <3>1. topIndex \in Nat /\ bottomIndex \in Nat /\ LiveEnd' = LiveEnd
          /\ LiveEnd \in Nat /\ topIndex < LiveEnd
      BY <2>9 DEF StealCasWon, IndexTypeOK, Indices, LiveEnd, ThiefInv
    <3>2. topIndex \in Live /\ Live' = Live \ {topIndex}
      BY <2>9, <3>1 DEF StealCasWon, Live
    <3>3. LogInv' /\ ClaimedExactlyOnce' /\ claims' \in [Tasks -> Nat]
      BY <2>9, <3>2, WinOne DEF StealCasWon
    <3>4. IndexTypeOK'
      BY <2>9, <3>1, <3>3 DEF StealCasWon, IndexTypeOK, Indices, ThiefLabels, RangeInv
    <3>5. RangeInv'
      BY <2>9, <3>1 DEF StealCasWon, RangeInv, LiveEnd, Popped, Pushing,
                        IndexTypeOK, Indices
    <3>6. ThiefInv'
      BY <2>9, <3>1 DEF StealCasWon, ThiefInv, IndexTypeOK, Indices
    <3> QED BY <3>3, <3>4, <3>5, <3>6
  <2>10. CASE StealCasLost(t)
    BY <2>1, <2>10 DEF StealCasLost, Return, IndexTypeOK, Indices, ThiefLabels,
                       ThiefInv, LiveEnd
  <2>11. CASE StealRead(t)
    BY <2>1, <2>11 DEF StealRead, IndexTypeOK, ThiefLabels, ThiefInv, LiveEnd
  <2>12. CASE StealTake(t)
    BY <2>1, <2>12 DEF StealTake, Return, IndexTypeOK, Indices, ThiefLabels,
                       ThiefInv, LiveEnd
  <2> QED BY <1>12, <2>2, <2>3, <2>4, <2>5, <2>6, <2>7, <2>8, <2>9, <2>10, <2>11,
             <2>12 DEF Thief
<1> QED BY <1>1, <1>2, <1>3, <1>4, <1>5, <1>6, <1>7, <1>8, <1>9, <1>10, <1>11, <1>12
        DEF Next, Owner, OwnerInOperation

\* Every task pushed onto a worker's queue is claimed by exactly one popBottom()
\* or steal(), or is still in the queue: the top/bottom protocol of
\* WorkStealingQueue.cpp, for any number of thieves and any capacity.
THEOREM ClaimedOnce == Spec => []ClaimedExactlyOnce
<1>1. IInv => ClaimedExactlyOnce
  BY DEF IInv
<1> QED BY <1>1, InitIInv, StepIInv, PTL DEF Spec

----------------------------------------------------------------------------
\* Type correctness.

Slots(capacity) == [0..(capacity - 1) -> Nodes \cup {NoNode}]

Buffer == UNION {[capacity : {c}, tasks : Slots(c)] : c \in Nat \ {0}}

\* MemoryTypeOK with buffers a sequence of buffers.
MemoryInv == MemoryTypeOK /\ buffers \in Seq(Buffer)

LEMMA BufferType ==
  ASSUME NEW c \in Nat \ {0}, NEW ts \in Slots(c)
  PROVE  [capacity |-> c, tasks |-> ts] \in Buffer
BY DEF Buffer

LEMMA BufferFields ==
  ASSUME NEW b \in Buffer
  PROVE  /\ IsBuffer(b)
         /\ b = [capacity |-> b.capacity, tasks |-> b.tasks]
         /\ b.tasks \in Slots(b.capacity)
         /\ \A i \in Nat : Slot(b, i) \in 0..(b.capacity - 1)
                           /\ At(b, i) \in Nodes \cup {NoNode}
<1>1. PICK c \in Nat \ {0} : b \in [capacity : {c}, tasks : Slots(c)]
  BY DEF Buffer
<1>2. b.capacity = c /\ b.tasks \in Slots(c)
      /\ b = [capacity |-> b.capacity, tasks |-> b.tasks]
  BY <1>1
<1>3. \A i \in Nat : i % c \in 0..(c - 1)
  OBVIOUS
<1> QED BY <1>2, <1>3 DEF IsBuffer, Slots, Slot, At

LEMMA PutType ==
  ASSUME NEW b \in Buffer, NEW i \in Nat, NEW n \in Nodes \cup {NoNode}
  PROVE  Put(b, i, n) \in Buffer
<1>1. [b.tasks EXCEPT ![Slot(b, i)] = n] \in Slots(b.capacity)
  BY BufferFields DEF Slots
<1>2. Put(b, i, n) = [capacity |-> b.capacity,
                      tasks |-> [b.tasks EXCEPT ![Slot(b, i)] = n]]
  BY BufferFields DEF Put
<1> QED BY <1>1, <1>2, BufferFields, BufferType DEF IsBuffer

LEMMA GrowType ==
  ASSUME NEW b \in Buffer, NEW bottom \in Nat, NEW top \in Nat
  PROVE  Grow(b, bottom, top) \in Buffer
<1> DEFINE capacity == 2 * b.capacity
           LiveAt(slot) == {i \in top..(bottom - 1) : i % capacity = slot}
           copy == [slot \in 0..(capacity - 1) |->
                       IF LiveAt(slot) = {} THEN NoNode
                       ELSE At(b, CHOOSE i \in LiveAt(slot) : TRUE)]
<1>1. capacity \in Nat \ {0}
  BY BufferFields DEF IsBuffer
<1>2. ASSUME NEW slot \in 0..(capacity - 1), LiveAt(slot) # {}
      PROVE  At(b, CHOOSE i \in LiveAt(slot) : TRUE) \in Nodes \cup {NoNode}
  <2>1. (CHOOSE i \in LiveAt(slot) : TRUE) \in LiveAt(slot)
    BY <1>2
  <2>2. (CHOOSE i \in LiveAt(slot) : TRUE) \in Nat
    BY <2>1
  <2> QED BY <2>2, BufferFields
<1>3. copy \in Slots(capacity)
  BY <1>2 DEF Slots
<1>4. Grow(b, bottom, top) = [capacity |-> capacity, tasks |-> copy]
  BY DEF Grow
<1> HIDE DEF capacity, copy
<1> QED BY <1>1, <1>3, <1>4, BufferType

LEMMA InitMemory == Init => MemoryInv
<1> SUFFICES ASSUME Init PROVE MemoryInv
  OBVIOUS
<1>1. NewBuffer(InitialCapacity) \in Buffer
  BY CapacityAssumption, BufferType DEF NewBuffer, Slots
<1>2. buffers \in Seq(Buffer) /\ Len(buffers) = 1 /\ buffers[1] \in Buffer
  BY <1>1 DEF Init
<1>3. \A k \in 1..Len(buffers) : IsBuffer(buffers[k])
  BY <1>2, BufferFields
<1>4. /\ heap \in [Nodes -> Tasks \cup {NoTask}]
      /\ freeList \in Seq(Nodes \cup {NoNode})
      /\ tBuf \in [Thieves -> Nat \ {0}]
      /\ tNode \in [Thieves -> Nodes \cup {NoNode}]
      /\ delivered \in [Tasks -> Nat]
      /\ overtaken \in BOOLEAN
  <2>1. heap \in [Nodes -> Tasks \cup {NoTask}]
    BY DEF Init
  <2>2. freeList \in Seq(Nodes \cup {NoNode})
    <3>1. freeList = <<>>
      BY DEF Init
    <3> QED BY <3>1
  <2>5. overtaken \in BOOLEAN
    BY DEF Init
  <2>3. tBuf \in [Thieves -> Nat \ {0}] /\ tNode \in [Thieves -> Nodes \cup {NoNode}]
    BY DEF Init
  <2>4. delivered \in [Tasks -> Nat]
    BY DEF Init
  <2> QED BY <2>1, <2>2, <2>3, <2>4, <2>5
<1>5. \A t \in Thieves : tBuf[t] <= Len(buffers)
  <2> SUFFICES ASSUME NEW t \in Thieves PROVE tBuf[t] <= Len(buffers)
    OBVIOUS
  <2>1. tBuf[t] = 1
    BY DEF Init
  <2>2. Len(buffers) = 1
    BY <1>2
  <2> QED BY <2>1, <2>2
<1> QED BY <1>2, <1>3, <1>4, <1>5 DEF MemoryInv, MemoryTypeOK

\* Reading a task from a node and marking the node empty.
LEMMA DeliverType ==
  ASSUME MemoryTypeOK, NEW task, Deliver(task)
  PROVE  delivered' \in [Tasks -> Nat]
<1>1. CASE task \in Tasks
  <2>1. delivered[task] + 1 \in Nat
    BY <1>1 DEF MemoryTypeOK
  <2> QED BY <1>1, <2>1 DEF Deliver, MemoryTypeOK
<1>2. CASE task \notin Tasks
  BY <1>2 DEF Deliver, MemoryTypeOK
<1> QED BY <1>1, <1>2

LEMMA StepMemory == IInv /\ MemoryInv /\ [Next]_vars => MemoryInv'
<1> SUFFICES ASSUME IInv, MemoryInv, [Next]_vars PROVE MemoryInv'
  OBVIOUS
<1> USE DEF memVars, indexVars, thiefVars, historyVars
<1>0. /\ buffers \in Seq(Buffer) /\ Len(buffers) \in Nat \ {0} /\ Active \in Buffer
      /\ bottomIndex \in Nat /\ topIndex \in Nat /\ oTop \in Nat /\ oIndex \in Nat
      /\ pushed \in Nat /\ MaxPushes \in Nat
      /\ opc = "pushStore" => pushed < MaxPushes
      /\ tTop \in [Thieves -> Nat]
  BY DEF MemoryInv, MemoryTypeOK, Active, IInv, IndexTypeOK, Indices, RangeInv, Pushing
<1>1. CASE UNCHANGED <<memVars, tBuf, tNode, delivered, overtaken>>
  BY <1>1 DEF MemoryInv, MemoryTypeOK
<1>2. CASE PushStore
  <2> DEFINE buffer == IF Full THEN Grow(Active, bottomIndex, oTop) ELSE Active
             new(node) == Put(buffer, bottomIndex, node)
  <2>1. PICK node \in FreshNodes :
          /\ heap' = [heap EXCEPT ![node] = pushed + 1]
          /\ buffers' = IF Full THEN Append(buffers, new(node))
                        ELSE [buffers EXCEPT ![Len(buffers)] = new(node)]
    BY <1>2 DEF PushStore
  <2>2. node \in Nodes \cup {NoNode}
    BY DEF FreshNodes, MemoryInv, MemoryTypeOK
  <2>3. new(node) \in Buffer
    BY <1>0, <2>2, GrowType, PutType
  <2> HIDE DEF new, buffer
  <2>5. buffers' \in Seq(Buffer) /\ Len(buffers') >= Len(buffers)
    <3>1. CASE Full
      BY <1>0, <2>1, <2>3, <3>1, AppendProperties
    <3>2. CASE ~Full
      BY <1>0, <2>1, <2>3, <3>2
    <3> QED BY <3>1, <3>2
  <2>6. \A k \in 1..Len(buffers') : IsBuffer(buffers'[k])
    BY <2>5, BufferFields
  <2>7. heap' \in [Nodes -> Tasks \cup {NoTask}]
    <3>1. pushed + 1 \in Tasks
      BY <1>0, <1>2 DEF PushStore, Tasks
    <3> QED BY <2>1, <3>1 DEF MemoryInv, MemoryTypeOK
  <2>8. freeList' \in Seq(Nodes \cup {NoNode})
    BY <1>2 DEF PushStore, MemoryInv, MemoryTypeOK
  <2>9. overtaken' \in BOOLEAN
    BY <1>2 DEF PushStore, MemoryInv, MemoryTypeOK
  <2>10. tBuf' = tBuf /\ tNode' = tNode /\ delivered' = delivered
    BY <1>2 DEF PushStore
  <2>11. \A t \in Thieves : tBuf'[t] <= Len(buffers')
    BY <1>0, <2>5, <2>10 DEF MemoryInv, MemoryTypeOK
  <2> QED BY <1>0, <2>5, <2>6, <2>7, <2>8, <2>9, <2>10, <2>11
          DEF MemoryInv, MemoryTypeOK
<1>3. CASE PopTake
  <2>1. At(Active, oIndex) \in Nodes \cup {NoNode}
    BY <1>0, BufferFields
  <2>2. freeList' \in Seq(Nodes \cup {NoNode})
    <3>1. freeList \in Seq(Nodes \cup {NoNode})
      BY DEF MemoryInv, MemoryTypeOK
    <3>2. <<At(Active, oIndex)>> \o freeList \in Seq(Nodes \cup {NoNode})
      BY <2>1, <3>1
    <3>3. freeList' = freeList \/ freeList' = <<At(Active, oIndex)>> \o freeList
      BY <1>3 DEF PopTake, Released
    <3> QED BY <3>1, <3>2, <3>3
  <2>3. delivered' \in [Tasks -> Nat]
    BY <1>3, DeliverType DEF PopTake, MemoryInv
  <2>4. heap' \in [Nodes -> Tasks \cup {NoTask}]
    BY <1>3 DEF PopTake, MemoryInv, MemoryTypeOK
  <2> QED BY <1>3, <2>2, <2>3, <2>4 DEF PopTake, MemoryInv, MemoryTypeOK
<1>4. ASSUME NEW t \in Thieves, Thief(t) PROVE MemoryInv'
  <2>1. ASSUME Return(t), UNCHANGED <<memVars, delivered, overtaken>>
        PROVE  MemoryInv'
    BY <1>0, <2>1 DEF Return, MemoryInv, MemoryTypeOK
  <2>2. CASE SizeZero(t) \/ StealEmpty(t) \/ StealCasLost(t)
    BY <2>1, <2>2 DEF SizeZero, StealEmpty, StealCasLost
  <2>3. CASE SizeLoadBottom(t) \/ SizeNonzero(t) \/ StealLoadTop(t)
             \/ StealNonempty(t) \/ StealCasWon(t)
    BY <1>1, <2>3 DEF SizeLoadBottom, SizeNonzero, StealLoadTop, StealNonempty,
                      StealCasWon
  <2>4. CASE StealLoadBuffer(t)
    BY <1>0, <2>4 DEF StealLoadBuffer, MemoryInv, MemoryTypeOK
  <2>5. CASE StealRead(t)
    <3>1. buffers[tBuf[t]] \in Buffer
      BY <1>0 DEF MemoryInv, MemoryTypeOK
    <3>2. At(buffers[tBuf[t]], tTop[t]) \in Nodes \cup {NoNode}
      BY <1>0, <3>1, BufferFields
    <3> QED BY <2>5, <3>2 DEF StealRead, MemoryInv, MemoryTypeOK
  <2>6. CASE StealTake(t)
    <3>1. delivered' \in [Tasks -> Nat]
      BY <2>6, DeliverType DEF StealTake, MemoryInv
    <3>2. heap' \in [Nodes -> Tasks \cup {NoTask}]
      BY <2>6 DEF StealTake, MemoryInv, MemoryTypeOK
    <3> QED BY <1>0, <2>6, <3>1, <3>2 DEF StealTake, Return, MemoryInv, MemoryTypeOK
  <2> QED BY <1>4, <2>2, <2>3, <2>4, <2>5, <2>6 DEF Thief
<1>5. CASE PushLoadTop \/ PushPublish \/ PopDecrement \/ PopUncontended \/ PopLoadTop
           \/ PopCasWon \/ PopCasLost \/ PopRestore
  BY <1>1, <1>5 DEF PushLoadTop, PushPublish, PopDecrement, PopUncontended,
                    PopLoadTop, PopCasWon, PopCasLost, PopRestore
<1>6. CASE UNCHANGED vars
  BY <1>1, <1>6 DEF vars
<1> QED BY <1>2, <1>3, <1>4, <1>5, <1>6 DEF Next, Owner, OwnerInOperation

\* Every variable of the queue keeps its type; the indices stay within the number
\* of pushes because the live range is never longer than the pushes done.
THEOREM TypeCorrect == Spec => []TypeOK
<1>1. IInv /\ MemoryInv => TypeOK
  BY DEF IInv, MemoryInv, TypeOK
<1> QED BY <1>1, InitIInv, InitMemory, StepIInv, StepMemory, PTL DEF Spec

\* topIndex_ never moves back, whichever of a steal and a contended pop moves it.
THEOREM TopMonotone == Spec => TopNeverMovesBack
<1>1. IInv /\ [Next]_vars => [topIndex' >= topIndex]_vars
  <2> SUFFICES ASSUME IInv, Next PROVE topIndex' >= topIndex
    OBVIOUS
  <2>1. topIndex \in Nat
    BY DEF IInv, IndexTypeOK, Indices
  <2>2. topIndex' = topIndex \/ topIndex' = topIndex + 1
    BY DEF Next, Owner, OwnerInOperation, Thief, PushLoadTop, PushStore, PushPublish,
           PopDecrement, PopUncontended, PopLoadTop, PopCasWon, PopCasLost,
           PopRestore, PopTake, SizeLoadBottom, SizeZero, SizeNonzero, StealLoadTop,
           StealEmpty, StealNonempty, StealLoadBuffer, StealCasWon, StealCasLost,
           StealRead, StealTake, indexVars
  <2> QED BY <2>1, <2>2
<1> QED BY <1>1, InitIInv, StepIInv, PTL DEF Spec, TopNeverMovesBack

----------------------------------------------------------------------------
\* The refinement of the abstract deque.

\* The part of a log between two indices is a sequence, its k-th element the one
\* logged at index top + k - 1.
Window(l, top, end) == [k \in 1..(end - top) |-> l[top + k - 1]]

Abstract == Window(log, topIndex, LiveEnd)

LEMMA WindowIsSeq ==
  ASSUME NEW l, NEW top \in Nat, NEW end \in Nat, top <= end,
         \A i \in top..(end - 1) : l[i] \in Tasks
  PROVE  /\ Window(l, top, end) \in Seq(Tasks)
         /\ Len(Window(l, top, end)) = end - top
         /\ end - top \in Nat
         /\ \A k \in 1..(end - top) : Window(l, top, end)[k] = l[top + k - 1]
<1>1. end - top \in Nat
  OBVIOUS
<1>2. \A k \in 1..(end - top) : top + k - 1 \in top..(end - 1)
  OBVIOUS
<1>3. Window(l, top, end) \in Seq(Tasks) /\ Len(Window(l, top, end)) = end - top
  BY <1>1, <1>2 DEF Window
<1> QED BY <1>1, <1>3 DEF Window

AbstractFacts ==
    /\ topIndex \in Nat /\ LiveEnd \in Nat /\ topIndex <= LiveEnd
    /\ Abstract \in Seq(Tasks)
    /\ Len(Abstract) = LiveEnd - topIndex
    /\ Len(Abstract) \in Nat
    /\ \A k \in 1..Len(Abstract) : Abstract[k] = log[topIndex + k - 1]

LEMMA AbstractIsSeq == IInv => AbstractFacts
<1> SUFFICES ASSUME IInv PROVE AbstractFacts
  OBVIOUS
<1>1. /\ topIndex \in Nat /\ LiveEnd \in Nat /\ topIndex <= LiveEnd
      /\ pushed \in Nat /\ pushed <= MaxPushes /\ LiveEnd <= pushed
  BY DEF IInv, IndexTypeOK, RangeInv, LiveEnd, Indices
<1>2. \A i \in topIndex..(LiveEnd - 1) : log[i] \in Tasks
  <2> SUFFICES ASSUME NEW i \in topIndex..(LiveEnd - 1) PROVE log[i] \in Tasks
    OBVIOUS
  <2>1. log[i] \in 1..pushed
    BY DEF IInv, LogInv, Live
  <2> QED BY <1>1, <2>1 DEF Tasks
<1>3. /\ Window(log, topIndex, LiveEnd) \in Seq(Tasks)
      /\ Len(Window(log, topIndex, LiveEnd)) = LiveEnd - topIndex
      /\ LiveEnd - topIndex \in Nat
      /\ \A k \in 1..(LiveEnd - topIndex) :
            Window(log, topIndex, LiveEnd)[k] = log[topIndex + k - 1]
  <2> HIDE DEF IInv
  <2> QED BY <1>1, <1>2, WindowIsSeq
<1> QED BY <1>1, <1>3 DEF Abstract, AbstractFacts

LEMMA AbstractIsSeqNext == IInv' => AbstractFacts'
BY AbstractIsSeq, PTL

LEMMA PushRefines == IInv /\ IInv' /\ PushPublish => Deque!PushBottom
<1> SUFFICES ASSUME IInv, IInv', PushPublish PROVE Deque!PushBottom
  OBVIOUS
<1>0. AbstractFacts /\ AbstractFacts'
  BY AbstractIsSeq, AbstractIsSeqNext
<1>1. /\ pushed \in Nat /\ topIndex \in Nat /\ bottomIndex \in Nat
      /\ LiveEnd = bottomIndex /\ pushed < MaxPushes /\ LiveEnd' = LiveEnd + 1
      /\ bottomIndex \in Indices
  BY DEF PushPublish, IInv, RangeInv, IndexTypeOK, Indices, LiveEnd, Pushing
<1>2. Abstract' \in Seq(Tasks) /\ Len(Abstract') = Len(Abstract) + 1
  BY <1>0, <1>1 DEF PushPublish, AbstractFacts
<1>3. /\ Append(Abstract, pushed + 1) \in Seq(Tasks)
      /\ Len(Append(Abstract, pushed + 1)) = Len(Abstract) + 1
      /\ \A k \in 1..Len(Abstract) : Append(Abstract, pushed + 1)[k] = Abstract[k]
      /\ Append(Abstract, pushed + 1)[Len(Abstract) + 1] = pushed + 1
  <2>1. pushed + 1 \in Tasks
    BY <1>1 DEF Tasks
  <2> QED BY <1>0, <2>1, AppendProperties DEF AbstractFacts
<1>4. \A k \in 1..Len(Abstract') : Abstract'[k] = Append(Abstract, pushed + 1)[k]
  <2> SUFFICES ASSUME NEW k \in 1..Len(Abstract')
               PROVE  Abstract'[k] = Append(Abstract, pushed + 1)[k]
    OBVIOUS
  <2>1. Abstract'[k] = log'[topIndex + k - 1]
    BY <1>0 DEF PushPublish, AbstractFacts
  <2>2. CASE k = Len(Abstract) + 1
    <3>1. topIndex + k - 1 = bottomIndex
      BY <1>0, <1>1, <2>2 DEF AbstractFacts
    <3>2. log'[bottomIndex] = pushed + 1
      BY <1>1 DEF PushPublish, IInv, IndexTypeOK
    <3> QED BY <1>3, <2>1, <2>2, <3>1, <3>2
  <2>3. CASE k # Len(Abstract) + 1
    <3>0. /\ Len(Abstract) = bottomIndex - topIndex /\ Len(Abstract) \in Nat
          /\ k \in 1..(Len(Abstract) + 1)
      BY <1>0, <1>1, <1>2 DEF AbstractFacts
    <3>1. k \in 1..Len(Abstract) /\ topIndex + k - 1 # bottomIndex
      BY <1>1, <2>3, <3>0
    <3>2. log'[topIndex + k - 1] = log[topIndex + k - 1]
      BY <3>1 DEF PushPublish, IInv, IndexTypeOK
    <3> QED BY <1>0, <1>3, <2>1, <3>1, <3>2 DEF AbstractFacts
  <2> QED BY <2>2, <2>3
<1>5. Abstract' = Append(Abstract, pushed + 1)
  BY <1>2, <1>3, <1>4, SeqEqual
<1> QED BY <1>1, <1>5 DEF PushPublish, Deque!PushBottom, Abstract, Window

\* A sequence without its last element.
LEMMA FrontFacts ==
  ASSUME NEW S, NEW q \in Seq(S), Len(q) > 0
  PROVE  /\ SubSeq(q, 1, Len(q) - 1) \in Seq(S)
         /\ Len(SubSeq(q, 1, Len(q) - 1)) = Len(q) - 1
         /\ \A k \in 1..(Len(q) - 1) : SubSeq(q, 1, Len(q) - 1)[k] = q[k]
<1>1. Len(q) \in Nat /\ 1 \in Int /\ Len(q) - 1 \in Int
  OBVIOUS
<1>2. \A i \in 1..(Len(q) - 1) : q[i] \in S
  BY <1>1, ElementOfSeq
<1>3. /\ SubSeq(q, 1, Len(q) - 1) \in Seq(S)
      /\ Len(SubSeq(q, 1, Len(q) - 1))
            = IF 1 <= Len(q) - 1 THEN (Len(q) - 1) - 1 + 1 ELSE 0
      /\ \A i \in 1..((Len(q) - 1) - 1 + 1) :
            SubSeq(q, 1, Len(q) - 1)[i] = q[1 + i - 1]
  BY <1>1, <1>2, SubSeqProperties
<1>4. ASSUME NEW n \in Nat \ {0}
      PROVE  /\ (n - 1) - 1 + 1 = n - 1
             /\ (IF 1 <= n - 1 THEN (n - 1) - 1 + 1 ELSE 0) = n - 1
             /\ \A i \in 1..(n - 1) : 1 + i - 1 = i
  OBVIOUS
<1>5. Len(q) \in Nat \ {0}
  BY <1>1
<1> DEFINE w == SubSeq(q, 1, Len(q) - 1)
<1>6. w \in Seq(S) /\ Len(w) = Len(q) - 1
  BY <1>3, <1>4, <1>5
<1>7. ASSUME NEW k \in 1..(Len(q) - 1) PROVE w[k] = q[k]
  <2>1. 1 + k - 1 = k /\ k \in 1..((Len(q) - 1) - 1 + 1)
    BY <1>4, <1>5
  <2>2. w[k] = q[1 + k - 1]
    BY <1>3, <2>1
  <2> QED BY <2>1, <2>2
<1> QED BY <1>6, <1>7

LEMMA PopRefines == IInv /\ IInv' /\ PopUncontended => Deque!PopBottom
<1> SUFFICES ASSUME IInv, IInv', PopUncontended PROVE Deque!PopBottom
  OBVIOUS
<1>0. AbstractFacts /\ AbstractFacts'
  BY AbstractIsSeq, AbstractIsSeqNext
<1>1. /\ topIndex \in Nat /\ bottomIndex \in Nat /\ topIndex < bottomIndex
      /\ LiveEnd = bottomIndex + 1 /\ LiveEnd' = bottomIndex
  BY DEF PopUncontended, IInv, IndexTypeOK, Indices, LiveEnd, indexVars
<1> DEFINE rest == SubSeq(Abstract, 1, Len(Abstract) - 1)
<1>2. Len(Abstract) = LiveEnd - topIndex /\ Len(Abstract) \in Nat \ {0}
  BY <1>0, <1>1 DEF AbstractFacts
<1>3. rest \in Seq(Tasks) /\ Len(rest) = Len(Abstract) - 1
      /\ \A k \in 1..Len(rest) : rest[k] = Abstract[k]
  <2>1. Abstract \in Seq(Tasks) /\ Len(Abstract) > 0
    BY <1>0, <1>2 DEF AbstractFacts
  <2> QED BY ONLY <2>1, FrontFacts
<1>4. Abstract' \in Seq(Tasks) /\ Len(Abstract') = Len(Abstract) - 1
      /\ \A k \in 1..Len(Abstract') : Abstract'[k] = log[topIndex + k - 1]
  BY <1>0, <1>1, <1>2 DEF PopUncontended, indexVars, AbstractFacts
<1>5. Abstract' = rest
  <2> HIDE DEF rest
  <2>1. ASSUME NEW k \in 1..Len(rest) PROVE rest[k] = Abstract'[k]
    <3>1. k \in 1..Len(Abstract) /\ k \in 1..Len(Abstract')
      BY <1>2, <1>3, <1>4
    <3>2. Abstract[k] = log[topIndex + k - 1]
      BY <1>0, <3>1 DEF AbstractFacts
    <3>3. Abstract'[k] = log[topIndex + k - 1]
      BY <1>4, <3>1
    <3>4. rest[k] = Abstract[k]
      BY <1>3
    <3> QED BY <3>2, <3>3, <3>4
  <2> QED BY <1>3, <1>4, <2>1, SeqEqual
<1>6. Abstract # <<>> /\ Abstract[Len(Abstract)] = log[bottomIndex]
  <2>1. Abstract # <<>> /\ Len(Abstract) \in 1..Len(Abstract)
    BY <1>2
  <2>2. topIndex + Len(Abstract) - 1 = bottomIndex
    BY <1>1, <1>2
  <2> QED BY <1>0, <2>1, <2>2 DEF AbstractFacts
<1> QED BY <1>5, <1>6 DEF PopUncontended, Claim, Deque!PopBottom, Abstract, Window

\* The CAS of a steal and the CAS of a contended pop both take the top task.
LEMMA CasRefines ==
  ASSUME IInv, IInv', topIndex < LiveEnd, topIndex' = topIndex + 1,
         LiveEnd' = LiveEnd, Claim(topIndex), UNCHANGED <<pushed, log>>
  PROVE  Deque!Steal
<1>0. AbstractFacts /\ AbstractFacts'
  BY AbstractIsSeq, AbstractIsSeqNext
<1>1. Len(Abstract) = LiveEnd - topIndex /\ Len(Abstract) \in Nat \ {0}
      /\ topIndex \in Nat /\ LiveEnd \in Nat
  BY <1>0 DEF AbstractFacts
<1>2. Tail(Abstract) \in Seq(Tasks) /\ Len(Tail(Abstract)) = Len(Abstract) - 1
      /\ \A k \in 1..Len(Tail(Abstract)) : Tail(Abstract)[k] = Abstract[k + 1]
  BY <1>0, <1>1 DEF AbstractFacts
<1>3. Abstract' \in Seq(Tasks) /\ Len(Abstract') = Len(Abstract) - 1
      /\ \A k \in 1..Len(Abstract') : Abstract'[k] = log[topIndex + 1 + k - 1]
  BY <1>0, <1>1 DEF AbstractFacts
<1>4. \A k \in 1..Len(Abstract') : Abstract'[k] = Tail(Abstract)[k]
  <2> SUFFICES ASSUME NEW k \in 1..Len(Abstract')
               PROVE  Abstract'[k] = Tail(Abstract)[k]
    OBVIOUS
  <2>1. k + 1 \in 1..Len(Abstract) /\ topIndex + 1 + k - 1 = topIndex + (k + 1) - 1
    BY <1>1, <1>3
  <2>2. Abstract[k + 1] = log[topIndex + (k + 1) - 1]
    BY <1>0, <2>1 DEF AbstractFacts
  <2> QED BY <1>2, <1>3, <2>1, <2>2
<1>5. Abstract' = Tail(Abstract)
  BY <1>2, <1>3, <1>4, SeqEqual
<1>6. Abstract # <<>> /\ Head(Abstract) = log[topIndex]
  BY <1>0, <1>1 DEF AbstractFacts
<1> QED BY <1>5, <1>6 DEF Claim, Deque!Steal, Abstract, Window

\* A step that keeps the range and the history is a stutter of the deque.
LEMMA StutterRefines ==
  ASSUME topIndex' = topIndex, LiveEnd' = LiveEnd, UNCHANGED <<pushed, log, claims>>
  PROVE  UNCHANGED Deque!vars
<1>1. Abstract' = Abstract
  BY DEF Abstract, Window
<1> QED BY <1>1 DEF Deque!vars, Abstract, Window

\* The queue implements the abstract deque: each pushBottom(), popBottom() and
\* steal() takes effect at one instant, pops and steals taking from its two ends.
THEOREM Refinement == Spec => ImplementsDeque
<1>1. Init => Deque!Init
  <2> SUFFICES ASSUME Init PROVE Deque!Init
    OBVIOUS
  <2>1. LiveEnd - topIndex = 0
    BY DEF Init, LiveEnd
  <2> QED BY <2>1 DEF Init, Deque!Init, Tasks, NoTask
<1>2. IInv /\ IInv' /\ [Next]_vars => [Deque!Next]_(Deque!vars)
  <2> SUFFICES ASSUME IInv, IInv', [Next]_vars
               PROVE  Deque!Next \/ UNCHANGED Deque!vars
    OBVIOUS
  <2> USE DEF indexVars, historyVars, ownerVars
  <2> DEFINE Quiet == /\ topIndex' = topIndex /\ LiveEnd' = LiveEnd
                      /\ UNCHANGED <<pushed, log, claims>>
  <2>1. ASSUME Quiet PROVE UNCHANGED Deque!vars
    BY <2>1, StutterRefines
  <2>2. /\ bottomIndex \in Nat /\ topIndex \in Nat
        /\ opc = "popCas" => oTop = bottomIndex
        /\ opc \in Popped => topIndex = bottomIndex + 1
    BY DEF IInv, IndexTypeOK, RangeInv, Indices
  <2>3. CASE UNCHANGED vars
    <3>1. Quiet
      BY <2>3 DEF vars, LiveEnd
    <3> QED BY <2>1, <3>1
  <2>4. CASE PushPublish
    BY <2>4, PushRefines DEF Deque!Next
  <2>5. CASE PopUncontended
    BY <2>5, PopRefines DEF Deque!Next
  <2>6. CASE PopCasWon
    <3>1. topIndex < LiveEnd /\ LiveEnd' = LiveEnd /\ topIndex' = topIndex + 1
          /\ Claim(topIndex) /\ UNCHANGED <<pushed, log>>
      BY <2>2, <2>6 DEF PopCasWon, LiveEnd
    <3> QED BY <3>1, CasRefines DEF Deque!Next
  <2>7. CASE PushLoadTop \/ PushStore \/ PopDecrement \/ PopLoadTop \/ PopCasLost
             \/ PopRestore \/ PopTake
    <3>1. Quiet
      BY <2>2, <2>7 DEF PushLoadTop, PushStore, PopDecrement, PopLoadTop,
                        PopCasLost, PopRestore, PopTake, LiveEnd
    <3> QED BY <2>1, <3>1
  <2>8. ASSUME NEW t \in Thieves, Thief(t)
        PROVE  Deque!Next \/ UNCHANGED Deque!vars
    <3>1. CASE StealCasWon(t)
      <4>1. topIndex < LiveEnd
        BY <3>1 DEF StealCasWon, IInv, ThiefInv
      <4>2. LiveEnd' = LiveEnd /\ topIndex' = topIndex + 1
            /\ Claim(topIndex) /\ UNCHANGED <<pushed, log>>
        BY <3>1 DEF StealCasWon, LiveEnd
      <4> QED BY <4>1, <4>2, CasRefines DEF Deque!Next
    <3>2. CASE ~StealCasWon(t)
      <4>1. Quiet
        BY <2>8, <3>2 DEF Thief, SizeLoadBottom, SizeZero, SizeNonzero, StealLoadTop,
           StealEmpty, StealNonempty, StealLoadBuffer, StealCasLost, StealRead,
           StealTake, LiveEnd
      <4> QED BY <2>1, <4>1
    <3> QED BY <3>1, <3>2
  <2> QED BY <2>3, <2>4, <2>5, <2>6, <2>7, <2>8 DEF Next, Owner, OwnerInOperation
<1> QED BY <1>1, <1>2, InitIInv, StepIInv, PTL DEF Spec, ImplementsDeque, Deque!Spec

----------------------------------------------------------------------------
\* The ring.

LEMMA ModApart ==
  ASSUME NEW c \in Nat \ {0}, NEW a \in Nat, NEW b \in Nat, a < b, b - a < c
  PROVE  a % c # b % c
<1>1. \A d, i \in Int : d > 0 => i = d * (i \div d) + (i % d)
  BY SMT
<1>2. a = c * (a \div c) + (a % c) /\ b = c * (b \div c) + (b % c)
  BY <1>1
<1>3. \A d, i \in Int : d > 0 => i \div d \in Int /\ i % d \in Int
  OBVIOUS
<1>4. \A d, i, j, p, q, r \in Int :
         d > 0 /\ i = d * p + r /\ j = d * q + r /\ i < j => j - i >= d
  <2> SUFFICES ASSUME NEW d \in Int, NEW p \in Int, NEW q \in Int, NEW r \in Int,
                      d > 0, d * p + r < d * q + r
               PROVE  (d * q + r) - (d * p + r) >= d
    OBVIOUS
  <2>1. d * p < d * q
    OBVIOUS
  <2>2. q >= p + 1
    BY <2>1
  <2>3. d * q >= d * (p + 1)
    BY <2>2
  <2>4. d * (p + 1) = d * p + d
    OBVIOUS
  <2> QED BY <2>3, <2>4
<1>5. /\ a \div c \in Int /\ b \div c \in Int /\ a % c \in Int /\ b % c \in Int
      /\ c \in Int /\ c > 0 /\ a \in Int /\ b \in Int
  BY <1>3
<1>6. ASSUME a % c = b % c PROVE FALSE
  <2>1. PICK p \in Int : p = a \div c
    BY <1>5
  <2>2. PICK q \in Int : q = b \div c
    BY <1>5
  <2>3. PICK r \in Int : r = a % c
    BY <1>5
  <2>4. a = c * p + r /\ b = c * q + r
    BY <1>2, <1>6, <2>1, <2>2, <2>3
  <2>5. b - a >= c
    BY ONLY <1>4, <1>5, <2>4, a < b, p \in Int, q \in Int, r \in Int, Zenon
  <2> QED BY <1>5, <2>5
<1> QED BY <1>6

LEMMA PutAt ==
  ASSUME NEW b \in Buffer, NEW i \in Nat, NEW n \in Nodes \cup {NoNode}
  PROVE  /\ Put(b, i, n).capacity = b.capacity
         /\ At(Put(b, i, n), i) = n
         /\ \A j \in Nat : Slot(b, j) # Slot(b, i) => At(Put(b, i, n), j) = At(b, j)
<1>1. Put(b, i, n) = [capacity |-> b.capacity,
                      tasks |-> [b.tasks EXCEPT ![Slot(b, i)] = n]]
  BY BufferFields DEF Put
<1>2. b.tasks \in [0..(b.capacity - 1) -> Nodes \cup {NoNode}]
      /\ \A j \in Nat : Slot(b, j) \in 0..(b.capacity - 1)
  BY BufferFields DEF Slots
<1>3. Put(b, i, n).capacity = b.capacity
      /\ Put(b, i, n).tasks = [b.tasks EXCEPT ![Slot(b, i)] = n]
  BY <1>1
<1>4. \A j \in Nat : At(Put(b, i, n), j) = [b.tasks EXCEPT ![Slot(b, i)] = n][Slot(b, j)]
  BY <1>3 DEF At, Slot
<1> QED BY <1>2, <1>3, <1>4 DEF At

LEMMA GrowAt ==
  ASSUME NEW b \in Buffer, NEW bottom \in Nat, NEW top \in Nat, bottom - top <= b.capacity
  PROVE  /\ Grow(b, bottom, top).capacity = 2 * b.capacity
         /\ \A i \in top..(bottom - 1) : At(Grow(b, bottom, top), i) = At(b, i)
<1> DEFINE capacity == 2 * b.capacity
           LiveAt(slot) == {i \in top..(bottom - 1) : i % capacity = slot}
           copy == [slot \in 0..(capacity - 1) |->
                       IF LiveAt(slot) = {} THEN NoNode
                       ELSE At(b, CHOOSE i \in LiveAt(slot) : TRUE)]
<1>1. b.capacity \in Nat \ {0} /\ capacity \in Nat \ {0}
  BY BufferFields DEF IsBuffer
<1>2. Grow(b, bottom, top) = [capacity |-> capacity, tasks |-> copy]
  BY DEF Grow
<1>3. ASSUME NEW i \in top..(bottom - 1) PROVE copy[i % capacity] = At(b, i)
  <2>1. i \in Nat /\ i % capacity \in 0..(capacity - 1) /\ i \in LiveAt(i % capacity)
    BY <1>1
  <2>2. ASSUME NEW j \in LiveAt(i % capacity) PROVE j = i
    <3>1. j \in Nat /\ j \in top..(bottom - 1) /\ j % capacity = i % capacity
      BY <2>2
    <3>2. b.capacity < capacity
      BY <1>1
    <3>3. j - i < capacity /\ i - j < capacity
      BY <1>1, <2>1, <3>1, <3>2
    <3> HIDE DEF capacity
    <3>4. CASE i < j
      BY <1>1, <2>1, <3>1, <3>3, <3>4, ModApart
    <3>5. CASE j < i
      BY <1>1, <2>1, <3>1, <3>3, <3>5, ModApart
    <3> QED BY <2>1, <3>1, <3>4, <3>5
  <2>3. (CHOOSE j \in LiveAt(i % capacity) : TRUE) = i
    BY <2>1, <2>2
  <2> HIDE DEF capacity
  <2> QED BY <2>1, <2>3
<1>4. Grow(b, bottom, top).capacity = capacity /\ Grow(b, bottom, top).tasks = copy
  BY <1>2
<1> HIDE DEF capacity, copy
<1>5. \A i \in top..(bottom - 1) : At(Grow(b, bottom, top), i) = copy[i % capacity]
  BY <1>4 DEF At, Slot
<1> QED BY <1>3, <1>4, <1>5 DEF capacity

----------------------------------------------------------------------------
\* The memory behind the indices.

\* The owner is about to take the task it popped; a thief, the one it won.
Taking == {"popKeep", "popTake"}
Robbers == {t \in Thieves : tpc[t] \in {"stealRead", "stealTake"}}

\* The indices whose slots name a node in use: the live ones, the one being
\* pushed and the one popped; and the task each node must hold.
Held == Live \cup (IF opc = "pushPublish" THEN {bottomIndex} ELSE {})
             \cup (IF opc \in Taking THEN {oIndex} ELSE {})
TaskOf(i) == IF opc = "pushPublish" /\ i = bottomIndex THEN pushed + 1 ELSE log[i]

\* The node a thief that has won its index is going to read, or has read.
Loot(t) == IF tpc[t] = "stealRead" THEN At(buffers[tBuf[t]], tTop[t]) ELSE tNode[t]

OnList(n) == \E k \in 1..Len(freeList) : freeList[k] = n
Safe(n, s) == n \in Nodes /\ s \in Tasks /\ heap[n] = s /\ ~OnList(n)

\* The ring is never overfull, with a stale top the owner sees it no emptier
\* than it is, and a thief's index stays below the top it moved.
CapacityInv ==
    /\ LiveEnd - topIndex <= Active.capacity
    /\ opc = "pushStore" => oTop <= topIndex /\ bottomIndex - oTop <= Active.capacity
    /\ opc = "pushPublish" => bottomIndex + 1 - topIndex <= Active.capacity
    /\ \A t \in Robbers : tTop[t] < topIndex

\* Each node in use belongs to one index or one thief, and the list has no other.
HeldInv ==
    /\ \A i \in Held : Safe(NodeAt(i), TaskOf(i))
    /\ \A i, j \in Held : i # j => NodeAt(i) # NodeAt(j)

LootInv ==
    /\ \A t \in Robbers : Safe(Loot(t), log[tTop[t]])
    /\ \A t \in Robbers : \A i \in Held : Loot(t) # NodeAt(i)
    /\ \A t, u \in Robbers : t # u => Loot(t) # Loot(u)

FreeInv ==
    /\ \A k \in 1..Len(freeList) : freeList[k] \in Nodes
    /\ \A k, l \in 1..Len(freeList) : freeList[k] = freeList[l] => k = l

\* The buffer of a thief that may still win the top index has the top's node.
AimInv ==
    \A t \in Thieves : tpc[t] = "stealCas" /\ tTop[t] = topIndex
                       => At(buffers[tBuf[t]], topIndex) = NodeAt(topIndex)

\* A task that was claimed has been delivered or is in one hand.
InHand(s) == \/ opc \in Taking /\ log[oIndex] = s
             \/ \E t \in Robbers : log[tTop[t]] = s

HandInv ==
    /\ \A s \in Tasks : InHand(s) => claims[s] = 1
    /\ \A t, u \in Robbers : log[tTop[t]] = log[tTop[u]] => t = u
    /\ opc \in Taking => \A t \in Robbers : log[tTop[t]] # log[oIndex]
    /\ \A s \in Tasks : delivered[s] = IF claims[s] = 1 /\ ~InHand(s) THEN 1 ELSE 0

NodesInv == HeldInv /\ LootInv /\ FreeInv /\ AimInv /\ HandInv
SlotsInv == CapacityInv /\ (~overtaken => NodesInv)


SlotTypes ==
    /\ topIndex \in Nat /\ bottomIndex \in Nat /\ LiveEnd \in Nat
    /\ oTop \in Nat /\ oIndex \in Nat /\ pushed \in Nat /\ pushed <= MaxPushes
    /\ topIndex <= LiveEnd /\ LiveEnd <= pushed
    /\ tTop \in [Thieves -> Indices] /\ \A t \in Thieves : tTop[t] \in Nat
    /\ buffers \in Seq(Buffer) /\ Len(buffers) \in Nat \ {0} /\ Active \in Buffer
    /\ Active.capacity \in Nat \ {0}
    /\ tBuf \in [Thieves -> Nat \ {0}]
    /\ \A t \in Thieves : tBuf[t] \in 1..Len(buffers) /\ buffers[tBuf[t]] \in Buffer
    /\ claims \in [Tasks -> Nat] /\ delivered \in [Tasks -> Nat]
    /\ freeList \in Seq(Nodes \cup {NoNode}) /\ Len(freeList) \in Nat
    /\ heap \in [Nodes -> Tasks \cup {NoTask}]
    /\ log \in [Indices -> Tasks \cup {NoTask}]

LEMMA SlotsTyped == IInv /\ MemoryInv => SlotTypes
<1> SUFFICES ASSUME IInv, MemoryInv PROVE SlotTypes
  OBVIOUS
<1>1. /\ topIndex \in Nat /\ bottomIndex \in Nat /\ LiveEnd \in Nat
      /\ oTop \in Nat /\ oIndex \in Nat /\ pushed \in Nat /\ pushed <= MaxPushes
      /\ topIndex <= LiveEnd /\ LiveEnd <= pushed
  BY DEF IInv, IndexTypeOK, RangeInv, LiveEnd, Indices
<1>2. tTop \in [Thieves -> Indices] /\ \A t \in Thieves : tTop[t] \in Nat
  BY DEF IInv, IndexTypeOK, Indices
<1>3. buffers \in Seq(Buffer) /\ Len(buffers) \in Nat \ {0} /\ Active \in Buffer
  BY DEF MemoryInv, MemoryTypeOK, Active
<1>4. Active.capacity \in Nat \ {0}
  BY <1>3, BufferFields DEF IsBuffer
<1>5. tBuf \in [Thieves -> Nat \ {0}]
  BY DEF MemoryInv, MemoryTypeOK
<1>6. \A t \in Thieves : tBuf[t] \in 1..Len(buffers) /\ buffers[tBuf[t]] \in Buffer
  <2> SUFFICES ASSUME NEW t \in Thieves
               PROVE  tBuf[t] \in 1..Len(buffers) /\ buffers[tBuf[t]] \in Buffer
    OBVIOUS
  <2>1. tBuf[t] \in Nat \ {0} /\ tBuf[t] <= Len(buffers)
    BY <1>5 DEF MemoryInv, MemoryTypeOK
  <2>2. tBuf[t] \in 1..Len(buffers)
    BY <1>3, <2>1
  <2> QED BY <1>3, <2>2, ElementOfSeq
<1>7. claims \in [Tasks -> Nat] /\ log \in [Indices -> Tasks \cup {NoTask}]
  BY DEF IInv, IndexTypeOK
<1>8. delivered \in [Tasks -> Nat] /\ freeList \in Seq(Nodes \cup {NoNode})
      /\ Len(freeList) \in Nat /\ heap \in [Nodes -> Tasks \cup {NoTask}]
  BY DEF MemoryInv, MemoryTypeOK
<1> QED BY <1>1, <1>2, <1>3, <1>4, <1>5, <1>6, <1>7, <1>8 DEF SlotTypes

\* What the push does to the buffers: the slot of the bottom index is written in
\* the active buffer, or in the copy of twice its size that replaces it.
LEMMA StoredAt ==
  ASSUME SlotTypes, CapacityInv, PushStore
  PROVE  \E node \in FreshNodes :
           /\ heap' = [heap EXCEPT ![node] = pushed + 1]
           /\ Active'.capacity = IF Full THEN 2 * Active.capacity ELSE Active.capacity
           /\ At(Active', bottomIndex) = node
           /\ \A i \in topIndex..(bottomIndex - 1) : At(Active', i) = At(Active, i)
           /\ \A k \in 1..Len(buffers) : Full \/ k # Len(buffers) => buffers'[k] = buffers[k]
           /\ ~Full => /\ buffers'[Len(buffers)] = Active'
                       /\ \A j \in Nat : Slot(Active, j) # Slot(Active, bottomIndex)
                                         => At(Active', j) = At(Active, j)
<1> DEFINE buffer == IF Full THEN Grow(Active, bottomIndex, oTop) ELSE Active
           new(n) == Put(buffer, bottomIndex, n)
<1>1. PICK node \in FreshNodes :
        /\ heap' = [heap EXCEPT ![node] = pushed + 1]
        /\ buffers' = IF Full THEN Append(buffers, new(node))
                      ELSE [buffers EXCEPT ![Len(buffers)] = new(node)]
  BY DEF PushStore
<1>2. node \in Nodes \cup {NoNode}
  <2>1. CASE freeList # <<>>
    <3>1. node = Head(freeList)
      BY <2>1 DEF FreshNodes
    <3>2. Head(freeList) \in Nodes \cup {NoNode}
      BY <2>1 DEF SlotTypes
    <3> QED BY <3>1, <3>2
  <2>2. CASE freeList = <<>>
    BY <2>2 DEF FreshNodes
  <2> QED BY <2>1, <2>2
<1>3. /\ topIndex \in Nat /\ bottomIndex \in Nat /\ oTop \in Nat
      /\ Active \in Buffer /\ Active.capacity \in Nat \ {0}
      /\ oTop <= topIndex /\ bottomIndex - oTop <= Active.capacity
  BY DEF SlotTypes, CapacityInv, PushStore
<1>4. buffer \in Buffer
  BY <1>3, GrowType
<1>5. /\ buffer.capacity = IF Full THEN 2 * Active.capacity ELSE Active.capacity
      /\ \A i \in topIndex..(bottomIndex - 1) : At(buffer, i) = At(Active, i)
  <2>1. CASE Full
    <3>1. /\ Grow(Active, bottomIndex, oTop).capacity = 2 * Active.capacity
          /\ \A i \in oTop..(bottomIndex - 1) :
                At(Grow(Active, bottomIndex, oTop), i) = At(Active, i)
      BY <1>3, GrowAt
    <3>2. \A i \in topIndex..(bottomIndex - 1) : i \in oTop..(bottomIndex - 1)
      BY <1>3
    <3> QED BY <2>1, <3>1, <3>2
  <2>2. CASE ~Full
    BY <2>2
  <2> QED BY <2>1, <2>2
<1>6. ~Full => buffer = Active
  OBVIOUS
<1> HIDE DEF buffer
<1>7. new(node) \in Buffer
  BY <1>2, <1>3, <1>4, PutType
<1>8. /\ new(node).capacity = buffer.capacity
      /\ At(new(node), bottomIndex) = node
      /\ \A j \in Nat : Slot(buffer, j) # Slot(buffer, bottomIndex)
                        => At(new(node), j) = At(buffer, j)
  BY <1>2, <1>3, <1>4, PutAt
<1> HIDE DEF new
<1>9. /\ Active' = new(node)
      /\ \A k \in 1..Len(buffers) : Full \/ k # Len(buffers) => buffers'[k] = buffers[k]
      /\ ~Full => buffers'[Len(buffers)] = new(node)
  <2>0. buffers \in Seq(Buffer) /\ Len(buffers) \in Nat \ {0}
    BY DEF SlotTypes
  <2>1. CASE Full
    <3>1. buffers' = Append(buffers, new(node))
      BY <1>1, <2>1
    <3>2. /\ Len(buffers') = Len(buffers) + 1
          /\ buffers'[Len(buffers) + 1] = new(node)
          /\ \A k \in 1..Len(buffers) : buffers'[k] = buffers[k]
      BY <1>7, <2>0, <3>1, AppendProperties
    <3> QED BY <2>1, <3>2 DEF Active
  <2>2. CASE ~Full
    <3>1. buffers' = [buffers EXCEPT ![Len(buffers)] = new(node)]
      BY <1>1, <2>2
    <3>2. Len(buffers') = Len(buffers) /\ buffers'[Len(buffers)] = new(node)
          /\ \A k \in 1..Len(buffers) : k # Len(buffers) => buffers'[k] = buffers[k]
      BY <1>7, <2>0, <3>1
    <3> QED BY <2>2, <3>2 DEF Active
  <2> QED BY <2>1, <2>2
<1>10. \A i \in topIndex..(bottomIndex - 1) : At(Active', i) = At(Active, i)
  <2> SUFFICES ASSUME NEW i \in topIndex..(bottomIndex - 1)
               PROVE  At(Active', i) = At(Active, i)
    OBVIOUS
  <2>1. /\ i \in Nat /\ i < bottomIndex
        /\ bottomIndex - i < buffer.capacity /\ buffer.capacity \in Nat \ {0}
    <3>1. i \in Nat /\ i < bottomIndex /\ bottomIndex - i <= Active.capacity
      BY <1>3
    <3>2. CASE Full
      BY <1>3, <1>5, <3>1, <3>2
    <3>3. CASE ~Full
      <4>1. bottomIndex - oTop <= Active.capacity - 1
        BY <1>3, <3>3 DEF Full
      <4> QED BY <1>3, <1>5, <3>1, <3>3, <4>1
    <3> QED BY <3>2, <3>3
  <2>2. Slot(buffer, i) # Slot(buffer, bottomIndex)
    BY <1>3, <2>1, ModApart DEF Slot
  <2> QED BY <1>5, <1>8, <1>9, <2>1, <2>2
<1> QED BY <1>1, <1>5, <1>6, <1>8, <1>9, <1>10


\* The capacity part does not depend on what the slots hold.
LEMMA InitSlots == Init => SlotsInv
<1> SUFFICES ASSUME Init PROVE SlotsInv
  OBVIOUS
<1>1. /\ LiveEnd = 0 /\ topIndex = 0 /\ opc = "idle" /\ Held = {} /\ Robbers = {}
      /\ freeList = <<>> /\ \A t \in Thieves : tpc[t] = "idle"
  BY DEF Init, LiveEnd, Held, Live, Taking, Robbers
<1>2. Active.capacity = InitialCapacity
  BY DEF Init, Active, NewBuffer
<1>3. CapacityInv
  BY <1>1, <1>2, CapacityAssumption DEF CapacityInv
<1>4. HeldInv /\ LootInv /\ FreeInv /\ AimInv
  BY <1>1 DEF HeldInv, LootInv, FreeInv, AimInv
<1>5. HandInv
  <2>1. \A s \in Tasks : ~InHand(s)
    BY <1>1 DEF InHand, Taking
  <2>2. \A s \in Tasks : claims[s] = 0 /\ delivered[s] = 0
    BY DEF Init
  <2> QED BY <1>1, <2>1, <2>2 DEF HandInv, Taking
<1> QED BY <1>3, <1>4, <1>5 DEF SlotsInv, NodesInv

LEMMA CapacityStep ==
  ASSUME IInv, MemoryInv, CapacityInv, [Next]_vars
  PROVE  CapacityInv'
<1> USE DEF indexVars, memVars, ownerVars, thiefVars, historyVars
<1>0. SlotTypes
  BY SlotsTyped
<1>1. ASSUME UNCHANGED <<indexVars, buffers, opc, oTop, tpc, tTop>>
      PROVE  CapacityInv'
  BY <1>1 DEF CapacityInv, LiveEnd, Active, Robbers
<1>2. CASE UNCHANGED vars
  BY <1>1, <1>2 DEF vars
<1>3. CASE PushLoadTop
  <2>1. Active' = Active /\ LiveEnd = bottomIndex /\ LiveEnd' = bottomIndex
        /\ Robbers' = Robbers
    BY <1>3 DEF PushLoadTop, Active, LiveEnd, Robbers
  <2> QED BY <1>0, <1>3, <2>1 DEF PushLoadTop, CapacityInv, SlotTypes
<1>4. CASE PushStore
  <2>1. Active'.capacity = IF Full THEN 2 * Active.capacity ELSE Active.capacity
    BY <1>0, <1>4, StoredAt
  <2>2. /\ oTop <= topIndex /\ bottomIndex - oTop <= Active.capacity
        /\ LiveEnd' = bottomIndex /\ Robbers' = Robbers
    BY <1>4 DEF PushStore, CapacityInv, LiveEnd, Robbers
  <2>3. /\ topIndex \in Nat /\ bottomIndex \in Nat /\ oTop \in Nat
        /\ Active.capacity \in Nat \ {0}
    BY <1>0 DEF SlotTypes
  <2>4. bottomIndex + 1 - topIndex <= Active'.capacity
        /\ bottomIndex - topIndex <= Active'.capacity
    <3>1. CASE Full
      BY <2>1, <2>2, <2>3, <3>1
    <3>2. CASE ~Full
      BY <2>1, <2>2, <2>3, <3>2 DEF Full
    <3> QED BY <3>1, <3>2
  <2>5. opc' = "pushPublish" /\ UNCHANGED <<indexVars, tTop>>
    BY <1>4 DEF PushStore
  <2>6. \A t \in Robbers' : tTop'[t] < topIndex'
    BY <2>2, <2>5 DEF CapacityInv
  <2> QED BY <2>2, <2>4, <2>5, <2>6 DEF CapacityInv
<1>5. CASE PushPublish
  <2>1. Active' = Active /\ LiveEnd' = bottomIndex + 1 /\ Robbers' = Robbers
    BY <1>5 DEF PushPublish, Active, LiveEnd, Robbers
  <2> QED BY <1>0, <1>5, <2>1 DEF PushPublish, CapacityInv, SlotTypes
<1>6. CASE PopDecrement \/ PopUncontended \/ PopLoadTop \/ PopCasLost \/ PopRestore
           \/ PopTake \/ PopCasWon
  <2>1. Active' = Active /\ Robbers' = Robbers
    BY <1>6 DEF PopDecrement, PopUncontended, PopLoadTop, PopCasLost, PopRestore,
                PopTake, PopCasWon, Active, Robbers
  <2>2. opc' \notin {"pushStore", "pushPublish"}
    BY <1>6 DEF PopDecrement, PopUncontended, PopLoadTop, PopCasLost, PopRestore,
                PopTake, PopCasWon
  <2>3. LiveEnd' <= LiveEnd /\ topIndex' >= topIndex /\ LiveEnd' \in Nat
        /\ topIndex' \in Nat /\ tTop' = tTop
    <3>1. CASE PopDecrement
      BY <1>0, <3>1 DEF PopDecrement, LiveEnd, SlotTypes
    <3>2. CASE PopUncontended
      BY <1>0, <3>2 DEF PopUncontended, LiveEnd, SlotTypes
    <3>3. CASE PopLoadTop
      BY <1>0, <3>3 DEF PopLoadTop, LiveEnd, SlotTypes
    <3>4. CASE PopCasLost
      BY <1>0, <3>4 DEF PopCasLost, LiveEnd, SlotTypes
    <3>5. CASE PopRestore
      <4>1. opc = "popKeep" => opc' = "popTake"
        BY <3>5 DEF PopRestore
      <4>2. opc = "popRestore" => opc' = "idle"
        BY <3>5 DEF PopRestore
      <4> QED BY <1>0, <3>5, <4>1, <4>2 DEF PopRestore, LiveEnd, SlotTypes
    <3>6. CASE PopTake
      BY <1>0, <3>6 DEF PopTake, LiveEnd, SlotTypes
    <3>7. CASE PopCasWon
      BY <1>0, <3>7 DEF PopCasWon, LiveEnd, SlotTypes
    <3> QED BY <1>6, <3>1, <3>2, <3>3, <3>4, <3>5, <3>6, <3>7
  <2>4. \A t \in Robbers' : tTop'[t] < topIndex'
    BY <1>0, <2>1, <2>3 DEF CapacityInv, SlotTypes, Robbers
  <2>5. LiveEnd' - topIndex' <= Active'.capacity
    BY <1>0, <2>1, <2>3 DEF CapacityInv, SlotTypes
  <2> QED BY <2>2, <2>4, <2>5 DEF CapacityInv
<1>7. ASSUME NEW t \in Thieves, Thief(t) PROVE CapacityInv'
  <2>1. CASE StealCasWon(t)
    <3>1. LiveEnd' = LiveEnd /\ Active' = Active /\ topIndex' = topIndex + 1
          /\ tTop' = tTop /\ tTop[t] = topIndex /\ Robbers' = Robbers \cup {t}
      BY <2>1 DEF StealCasWon, LiveEnd, Active, Robbers, IInv, IndexTypeOK
    <3>2. ASSUME NEW u \in Robbers' PROVE tTop'[u] < topIndex'
      <4>1. topIndex \in Nat /\ (u = t \/ u \in Robbers)
        BY <1>0, <3>1, <3>2 DEF SlotTypes
      <4>2. CASE u = t
        BY <3>1, <4>1, <4>2
      <4>3. CASE u \in Robbers
        <5>1. tTop[u] < topIndex /\ tTop[u] \in Nat
          BY <1>0, <4>3 DEF CapacityInv, SlotTypes, Robbers
        <5> QED BY <3>1, <4>1, <5>1
      <4> QED BY <4>1, <4>2, <4>3
    <3>3. UNCHANGED <<opc, oTop, bottomIndex>>
      BY <2>1 DEF StealCasWon
    <3> QED BY <1>0, <3>1, <3>2, <3>3 DEF CapacityInv, SlotTypes
  <2>2. CASE ~StealCasWon(t)
    <3>1. UNCHANGED <<indexVars, buffers, opc, oTop>>
      BY <1>7, <2>2 DEF Thief, SizeLoadBottom, SizeZero, SizeNonzero, StealLoadTop,
         StealEmpty, StealNonempty, StealLoadBuffer, StealCasLost, StealRead, StealTake
    <3>2. /\ \A u \in Thieves : tpc'[u] \in {"stealRead", "stealTake"}
                => tpc[u] \in {"stealRead", "stealTake"} /\ tTop'[u] = tTop[u]
      BY <1>7, <2>2 DEF Thief, SizeLoadBottom, SizeZero, SizeNonzero, StealLoadTop,
         StealEmpty, StealNonempty, StealLoadBuffer, StealCasLost, StealRead,
         StealTake, Return, IInv, IndexTypeOK
    <3>3. \A u \in Robbers' : tTop'[u] < topIndex'
      BY <3>1, <3>2 DEF CapacityInv, Robbers
    <3>4. LiveEnd' = LiveEnd /\ Active' = Active
      BY <3>1 DEF LiveEnd, Active
    <3> QED BY <3>1, <3>3, <3>4 DEF CapacityInv
  <2> QED BY <2>1, <2>2
<1> QED BY <1>2, <1>3, <1>4, <1>5, <1>6, <1>7 DEF Next, Owner, OwnerInOperation


\* A step that takes no index and no thief out of sight of what they hold, and
\* writes no node, keeps the nodes apart.
LEMMA SlotsKept ==
  ASSUME HeldInv, LootInv, FreeInv,
         \A i \in Held' : i \in Held /\ TaskOf(i)' = TaskOf(i) /\ NodeAt(i)' = NodeAt(i),
         \A t \in Robbers' : t \in Robbers /\ Loot(t)' = Loot(t)
                             /\ log'[tTop'[t]] = log[tTop[t]],
         UNCHANGED <<heap, freeList>>
  PROVE  HeldInv' /\ LootInv' /\ FreeInv'
<1>1. \A n, s : Safe(n, s)' <=> Safe(n, s)
  BY DEF Safe, OnList
<1>2. \A i \in Held' : Safe(NodeAt(i), TaskOf(i))'
  BY <1>1 DEF HeldInv
<1>3. \A i, j \in Held' : i # j => NodeAt(i)' # NodeAt(j)'
  BY DEF HeldInv
<1>4. \A t \in Robbers' : Safe(Loot(t), log[tTop[t]])'
  BY <1>1 DEF LootInv
<1>5. \A t \in Robbers' : \A i \in Held' : Loot(t)' # NodeAt(i)'
  BY DEF LootInv
<1>6. \A t, u \in Robbers' : t # u => Loot(t)' # Loot(u)'
  BY DEF LootInv
<1>7. FreeInv'
  BY DEF FreeInv
<1> QED BY <1>2, <1>3, <1>4, <1>5, <1>6, <1>7 DEF HeldInv, LootInv

\* A step in which no hand takes or gives up a task.
LEMMA HandsKept ==
  ASSUME HandInv, UNCHANGED <<claims, delivered>>,
         Robbers' = Robbers, \A t \in Robbers : log'[tTop'[t]] = log[tTop[t]],
         opc' \in Taking <=> opc \in Taking,
         opc \in Taking => log'[oIndex'] = log[oIndex]
  PROVE  HandInv'
<1>1. \A s : InHand(s)' <=> InHand(s)
  BY DEF InHand, Taking
<1> QED BY <1>1 DEF HandInv, Taking

\* A live index has a task no hand holds and no one has received.
LEMMA LiveUnclaimed ==
  ASSUME IInv, HandInv, NEW i \in Live
  PROVE  /\ log[i] \in Tasks
         /\ claims[log[i]] = 0
         /\ ~InHand(log[i])
         /\ opc \in Taking => i # oIndex
<1>1. log[i] \in Tasks
  BY DEF IInv, LogInv, IndexTypeOK, Indices, Tasks
<1>2. claims[log[i]] = 0
  BY <1>1 DEF IInv, ClaimedExactlyOnce
<1>3. ~InHand(log[i])
  BY <1>1, <1>2 DEF HandInv
<1>4. opc \in Taking => i # oIndex
  BY <1>3 DEF InHand
<1> QED BY <1>1, <1>2, <1>3, <1>4

\* The owner claims a live index.
LEMMA OwnHandFilled ==
  ASSUME SlotTypes, IInv, HandInv, NEW i \in Live, Claim(i),
         opc \notin Taking, opc' \in Taking, oIndex' = i,
         UNCHANGED <<log, delivered, tTop>>, Robbers' = Robbers
  PROVE  HandInv'
<1>1. log[i] \in Tasks /\ claims[log[i]] = 0 /\ ~InHand(log[i])
  BY LiveUnclaimed
<1>2. /\ claims'[log[i]] = 1
      /\ \A s \in Tasks : s # log[i] => claims'[s] = claims[s]
  BY <1>1 DEF Claim, SlotTypes
<1>3. \A s : InHand(s)' <=> InHand(s) \/ s = log[i]
  BY DEF InHand
<1>4. \A s \in Tasks : InHand(s)' => claims'[s] = 1
  BY <1>1, <1>2, <1>3 DEF HandInv
<1>5. \A t, u \in Robbers' : log'[tTop'[t]] = log'[tTop'[u]] => t = u
  BY DEF HandInv
<1>6. \A t \in Robbers' : log'[tTop'[t]] # log'[oIndex']
  BY <1>1 DEF InHand
<1>7. ASSUME NEW s \in Tasks
      PROVE  delivered'[s] = IF claims'[s] = 1 /\ ~(InHand(s)') THEN 1 ELSE 0
  <2>1. CASE s = log[i]
    BY <1>1, <1>3, <2>1 DEF HandInv
  <2>2. CASE s # log[i]
    BY <1>2, <1>3, <2>2 DEF HandInv
  <2> QED BY <2>1, <2>2
<1> QED BY <1>4, <1>5, <1>6, <1>7 DEF HandInv

\* A thief claims a live index.
LEMMA ThiefHandFilled ==
  ASSUME SlotTypes, IInv, HandInv, NEW i \in Live, Claim(i),
         NEW t \in Thieves, t \notin Robbers, tTop[t] = i,
         Robbers' = Robbers \cup {t}, UNCHANGED <<log, delivered, tTop, opc, oIndex>>
  PROVE  HandInv'
<1>1. log[i] \in Tasks /\ claims[log[i]] = 0 /\ ~InHand(log[i])
  BY LiveUnclaimed
<1>2. /\ claims'[log[i]] = 1
      /\ \A s \in Tasks : s # log[i] => claims'[s] = claims[s]
  BY <1>1 DEF Claim, SlotTypes
<1>3. \A s : InHand(s)' <=> InHand(s) \/ s = log[i]
  BY DEF InHand
<1>4. \A s \in Tasks : InHand(s)' => claims'[s] = 1
  BY <1>1, <1>2, <1>3 DEF HandInv
<1>5. \A u \in Robbers : log[tTop[u]] # log[i]
  BY <1>1 DEF InHand
<1>6. \A u, v \in Robbers' : log'[tTop'[u]] = log'[tTop'[v]] => u = v
  BY <1>5 DEF HandInv
<1>7. opc' \in Taking => \A u \in Robbers' : log'[tTop'[u]] # log'[oIndex']
  BY <1>1 DEF HandInv, InHand
<1>8. ASSUME NEW s \in Tasks
      PROVE  delivered'[s] = IF claims'[s] = 1 /\ ~(InHand(s)') THEN 1 ELSE 0
  <2>1. CASE s = log[i]
    BY <1>1, <1>3, <2>1 DEF HandInv
  <2>2. CASE s # log[i]
    BY <1>2, <1>3, <2>2 DEF HandInv
  <2> QED BY <2>1, <2>2
<1> QED BY <1>4, <1>6, <1>7, <1>8 DEF HandInv

\* A hand that held a task delivers it.
LEMMA HandEmptied ==
  ASSUME SlotTypes, HandInv, NEW task \in Tasks, InHand(task), Deliver(task),
         UNCHANGED <<log, claims>>,
         \A s : InHand(s)' <=> InHand(s) /\ s # task,
         \A u \in Robbers' : u \in Robbers /\ tTop'[u] = tTop[u],
         opc' \in Taking => opc \in Taking /\ oIndex' = oIndex
  PROVE  HandInv'
<1>1. claims[task] = 1 /\ delivered[task] = 0
  BY DEF HandInv
<1>2. /\ delivered'[task] = 1
      /\ \A s \in Tasks : s # task => delivered'[s] = delivered[s]
  BY <1>1 DEF Deliver, SlotTypes
<1>3. \A s \in Tasks : InHand(s)' => claims'[s] = 1
  BY DEF HandInv
<1>4. \A u, v \in Robbers' : log'[tTop'[u]] = log'[tTop'[v]] => u = v
  BY DEF HandInv
<1>5. opc' \in Taking => \A u \in Robbers' : log'[tTop'[u]] # log'[oIndex']
  BY DEF HandInv
<1>6. ASSUME NEW s \in Tasks
      PROVE  delivered'[s] = IF claims'[s] = 1 /\ ~(InHand(s)') THEN 1 ELSE 0
  BY <1>1, <1>2 DEF HandInv
<1> QED BY <1>3, <1>4, <1>5, <1>6 DEF HandInv


\* A step that leaves the memory and the thieves alone keeps a thief's aim.
LEMMA AimKept ==
  ASSUME AimInv, UNCHANGED <<topIndex, buffers, tpc, tTop, tBuf>>
  PROVE  AimInv'
BY DEF AimInv, NodeAt, Active

\* The push stores a node that is not in use in a slot that is not in use.
LEMMA StoreNodes ==
  ASSUME SlotTypes, IInv, CapacityInv, NodesInv, PushStore, ~overtaken'
  PROVE  NodesInv'
<1> USE DEF indexVars, memVars, ownerVars, thiefVars, historyVars
<1>1. PICK node \in FreshNodes :
        /\ heap' = [heap EXCEPT ![node] = pushed + 1]
        /\ At(Active', bottomIndex) = node
        /\ \A i \in topIndex..(bottomIndex - 1) : At(Active', i) = At(Active, i)
        /\ \A k \in 1..Len(buffers) : Full \/ k # Len(buffers) => buffers'[k] = buffers[k]
        /\ ~Full => /\ buffers'[Len(buffers)] = Active'
                    /\ \A j \in Nat : Slot(Active, j) # Slot(Active, bottomIndex)
                                      => At(Active', j) = At(Active, j)
  BY StoredAt
<1>2. /\ opc = "pushStore" /\ opc' = "pushPublish"
      /\ UNCHANGED <<topIndex, bottomIndex, tpc, tTop, tBuf, tNode, oIndex, log,
                     pushed, claims, delivered>>
      /\ freeList' = IF freeList = <<>> THEN <<>> ELSE Tail(freeList)
      /\ Robbers' = Robbers
  BY DEF PushStore, Robbers
<1>3. /\ Live = topIndex..(bottomIndex - 1) /\ Held = Live
      /\ Held' = Held \cup {bottomIndex} /\ bottomIndex \notin Held
      /\ bottomIndex \in Nat /\ \A i \in Live : i \in Nat
  BY <1>2 DEF Live, LiveEnd, Held, Taking, SlotTypes
<1>4. /\ \A i : i = bottomIndex => TaskOf(i)' = pushed + 1
      /\ \A i \in Held : TaskOf(i)' = TaskOf(i) /\ TaskOf(i) = log[i]
  BY <1>2, <1>3 DEF TaskOf
<1>5. /\ \A i : i = bottomIndex => NodeAt(i)' = node
      /\ \A i \in Held : NodeAt(i)' = NodeAt(i)
  BY <1>1, <1>2, <1>3 DEF NodeAt
<1>6. node \in Nodes /\ pushed + 1 \in Tasks /\ \A s \in Tasks : ~Safe(node, s)
  <2>1. pushed + 1 \in Tasks
    BY <1>2 DEF IInv, RangeInv, Pushing, SlotTypes, Tasks
  <2>2. CASE freeList # <<>>
    <3>1. node = Head(freeList) /\ Len(freeList) \in Nat \ {0}
      BY <2>2 DEF FreshNodes, SlotTypes
    <3>2. 1 \in 1..Len(freeList) /\ freeList[1] = node
      BY <3>1 DEF SlotTypes
    <3> QED BY <2>1, <3>2 DEF NodesInv, FreeInv, Safe, OnList
  <2>3. CASE freeList = <<>>
    <3>1. node \in Nodes /\ heap[node] = NoTask
      BY <2>3 DEF FreshNodes
    <3> QED BY <2>1, <3>1 DEF Safe, Tasks, NoTask
  <2> QED BY <2>2, <2>3
<1>7. /\ \A k \in 1..Len(freeList') : freeList'[k] \in Nodes /\ freeList'[k] # node
      /\ \A k \in 1..Len(freeList') : OnList(freeList'[k])
      /\ \A k, l \in 1..Len(freeList') : freeList'[k] = freeList'[l] => k = l
  <2>1. CASE freeList = <<>>
    BY <1>2, <2>1
  <2>2. CASE freeList # <<>>
    <3>1. node = Head(freeList)
      BY <2>2 DEF FreshNodes
    <3>2. /\ Len(freeList) \in Nat \ {0} /\ node = freeList[1] /\ 1 \in 1..Len(freeList)
          /\ Len(freeList') = Len(freeList) - 1
          /\ \A k \in 1..Len(freeList') : freeList'[k] = freeList[k + 1]
      BY <1>2, <2>2, <3>1 DEF SlotTypes
    <3>3. \A k \in 1..Len(freeList') : k + 1 \in 1..Len(freeList) /\ k + 1 # 1
      BY <3>2
    <3>4. /\ \A k \in 1..Len(freeList) : freeList[k] \in Nodes
          /\ \A k, l \in 1..Len(freeList) : freeList[k] = freeList[l] => k = l
      BY DEF NodesInv, FreeInv
    <3>5. ASSUME NEW k \in 1..Len(freeList')
          PROVE  /\ freeList'[k] \in Nodes /\ freeList'[k] # node
                 /\ OnList(freeList'[k])
      BY <3>2, <3>3, <3>4 DEF OnList
    <3>6. ASSUME NEW k \in 1..Len(freeList'), NEW l \in 1..Len(freeList'),
                 freeList'[k] = freeList'[l]
          PROVE  k = l
      <4>1. k + 1 = l + 1
        BY <3>2, <3>3, <3>4, <3>6
      <4> QED BY <4>1
    <3> QED BY <3>5, <3>6
  <2> QED BY <2>1, <2>2
<1>8. \A n, s : s \in Tasks /\ Safe(n, s) => n # node /\ Safe(n, s)'
  <2> SUFFICES ASSUME NEW n, NEW s, s \in Tasks, Safe(n, s)
               PROVE  n # node /\ Safe(n, s)'
    OBVIOUS
  <2>1. n # node
    BY <1>6
  <2>2. heap'[n] = heap[n]
    BY <1>1, <2>1 DEF Safe, SlotTypes
  <2>3. ~OnList(n)'
    BY <1>7 DEF Safe, OnList
  <2> QED BY <2>1, <2>2, <2>3 DEF Safe
<1>9. \A s : s = pushed + 1 => Safe(node, s)'
  <2>1. heap'[node] = pushed + 1
    BY <1>1, <1>6 DEF SlotTypes
  <2>2. ~OnList(node)'
    BY <1>7 DEF OnList
  <2> QED BY <1>6, <2>1, <2>2 DEF Safe
<1>10. \A t \in Robbers : Loot(t)' = Loot(t)
  <2> SUFFICES ASSUME NEW t \in Robbers PROVE Loot(t)' = Loot(t)
    OBVIOUS
  <2>1. CASE tpc[t] # "stealRead"
    BY <1>2, <2>1 DEF Loot
  <2>2. CASE tpc[t] = "stealRead"
    <3>1. t \in Thieves /\ tBuf[t] \in 1..Len(buffers) /\ tTop[t] \in Nat
      BY DEF Robbers, SlotTypes
    <3>2. CASE Full \/ tBuf[t] # Len(buffers)
      <4>1. buffers'[tBuf[t]] = buffers[tBuf[t]]
        BY <1>1, <3>1, <3>2
      <4> QED BY <1>2, <4>1 DEF Loot
    <3>3. CASE ~Full /\ tBuf[t] = Len(buffers)
      <4>1. Slot(Active, tTop[t]) # Slot(Active, bottomIndex)
        BY <2>2, <3>1, <3>3 DEF PushStore
      <4>2. At(Active', tTop[t]) = At(Active, tTop[t])
        BY <1>1, <3>1, <3>3, <4>1
      <4>3. buffers'[tBuf[t]] = Active' /\ buffers[tBuf[t]] = Active
        BY <1>1, <3>3 DEF Active
      <4> QED BY <1>2, <2>2, <4>2, <4>3 DEF Loot
    <3> QED BY <3>2, <3>3
  <2> QED BY <2>1, <2>2
<1>11. \A i \in Held : /\ NodeAt(i)' # node /\ Safe(NodeAt(i), TaskOf(i))'
                       /\ TaskOf(i) \in Tasks
  BY <1>4, <1>5, <1>8 DEF NodesInv, HeldInv, Safe
<1>12. HeldInv'
  <2>1. ASSUME NEW i \in Held' PROVE Safe(NodeAt(i), TaskOf(i))'
    <3>1. CASE i = bottomIndex
      <4>1. NodeAt(i)' = node /\ TaskOf(i)' = pushed + 1
        BY <1>4, <1>5, <3>1
      <4> QED BY <1>9, <4>1 DEF Safe, OnList
    <3>2. CASE i \in Held
      <4>1. NodeAt(i)' = NodeAt(i) /\ TaskOf(i)' = TaskOf(i)
        BY <1>4, <1>5, <3>2
      <4> QED BY <1>11, <3>2, <4>1 DEF Safe, OnList
    <3> QED BY <1>3, <3>1, <3>2
  <2>2. ASSUME NEW i \in Held', NEW j \in Held', i # j
        PROVE  NodeAt(i)' # NodeAt(j)'
    <3>1. CASE i = bottomIndex
      BY <1>3, <1>5, <1>11, <2>2, <3>1
    <3>2. CASE j = bottomIndex
      BY <1>3, <1>5, <1>11, <2>2, <3>2
    <3>3. CASE i \in Held /\ j \in Held
      BY <1>5, <2>2, <3>3 DEF NodesInv, HeldInv
    <3> QED BY <1>3, <3>1, <3>2, <3>3
  <2> QED BY <2>1, <2>2 DEF HeldInv
<1>13. LootInv'
  <2>1. \A t \in Robbers : /\ Loot(t)' # node /\ Safe(Loot(t), log[tTop[t]])'
    BY <1>2, <1>8, <1>10 DEF NodesInv, LootInv, Safe
  <2>2. \A t \in Robbers' : \A i \in Held' : Loot(t)' # NodeAt(i)'
    BY <1>2, <1>3, <1>5, <1>10, <2>1 DEF NodesInv, LootInv
  <2>3. \A t, u \in Robbers' : t # u => Loot(t)' # Loot(u)'
    BY <1>2, <1>10 DEF NodesInv, LootInv
  <2> QED BY <1>2, <2>1, <2>2, <2>3 DEF LootInv
<1>14. FreeInv'
  BY <1>7 DEF FreeInv
<1>15. AimInv'
  <2> SUFFICES ASSUME NEW t \in Thieves, tpc'[t] = "stealCas", tTop'[t] = topIndex'
               PROVE  At(buffers[tBuf[t]], topIndex)' = NodeAt(topIndex)'
    BY DEF AimInv
  <2>1. At(buffers[tBuf[t]], topIndex) = NodeAt(topIndex) /\ topIndex \in Held
    BY <1>2, <1>3 DEF NodesInv, AimInv, IInv, ThiefInv, Live, LiveEnd, SlotTypes
  <2>2. CASE Full \/ tBuf[t] # Len(buffers)
    <3>1. buffers'[tBuf[t]] = buffers[tBuf[t]]
      BY <1>1, <2>2 DEF SlotTypes
    <3> QED BY <1>2, <1>5, <2>1, <3>1
  <2>3. CASE ~Full /\ tBuf[t] = Len(buffers)
    <3>1. buffers'[tBuf[t]] = Active'
      BY <1>1, <2>3
    <3> QED BY <1>2, <3>1 DEF NodeAt
  <2> QED BY <2>2, <2>3
<1>16. HandInv'
  <2>1. opc' \notin Taking /\ opc \notin Taking
    BY <1>2 DEF Taking
  <2> QED BY <1>2, <2>1, HandsKept DEF NodesInv
<1> QED BY <1>12, <1>13, <1>14, <1>15, <1>16 DEF NodesInv


\* The owner moves or claims an index and touches no memory.
LEMMA OwnerNodes ==
  ASSUME SlotTypes, IInv, CapacityInv, NodesInv,
         PushLoadTop \/ PushPublish \/ PopDecrement \/ PopUncontended \/ PopLoadTop
            \/ PopCasWon \/ PopCasLost \/ PopRestore
  PROVE  NodesInv'
<1> USE DEF indexVars, memVars, ownerVars, thiefVars, historyVars
<1>1. UNCHANGED <<memVars, thiefVars, delivered>>
  BY DEF PushLoadTop, PushPublish, PopDecrement, PopUncontended, PopLoadTop,
         PopCasWon, PopCasLost, PopRestore
<1>2. /\ \A i : NodeAt(i)' = NodeAt(i)
      /\ \A t \in Robbers : Loot(t)' = Loot(t)
      /\ Robbers' = Robbers
  BY <1>1 DEF NodeAt, Active, Loot, Robbers
<1>3. topIndex' = topIndex \/ topIndex' = topIndex + 1
  BY DEF PushLoadTop, PushPublish, PopDecrement, PopUncontended, PopLoadTop,
         PopCasWon, PopCasLost, PopRestore
<1>4. AimInv'
  <2>1. CASE topIndex' = topIndex
    BY <1>1, <2>1, AimKept DEF NodesInv
  <2>2. CASE topIndex' = topIndex + 1
    <3>1. \A t \in Thieves : tpc[t] = "stealCas" => tTop[t] <= topIndex
      BY DEF IInv, ThiefInv
    <3>2. \A t \in Thieves : tTop[t] \in Nat
      BY DEF SlotTypes
    <3>3. topIndex \in Nat
      BY DEF SlotTypes
    <3> QED BY <1>1, <2>2, <3>1, <3>2, <3>3 DEF AimInv
  <2> QED BY <1>3, <2>1, <2>2
<1>5. ASSUME \A i \in Held' : i \in Held /\ TaskOf(i)' = TaskOf(i),
             \A t \in Robbers : log'[tTop[t]] = log[tTop[t]]
      PROVE  HeldInv' /\ LootInv' /\ FreeInv'
  BY <1>1, <1>2, <1>5, SlotsKept DEF NodesInv
<1>6. CASE PushLoadTop \/ PopDecrement \/ PopLoadTop \/ PopCasLost \/ PopRestore
  <2>1. /\ log' = log /\ claims' = claims /\ oIndex' = oIndex
        /\ opc \notin {"pushPublish"} /\ opc' \notin {"pushPublish"}
        /\ opc' \in Taking <=> opc \in Taking
    BY <1>6 DEF PushLoadTop, PopDecrement, PopLoadTop, PopCasLost, PopRestore, Taking
  <2>2. LiveEnd' = LiveEnd /\ topIndex' = topIndex
    <3>1. CASE PopRestore
      <4>1. opc = "popKeep" => opc' = "popTake"
        BY <3>1 DEF PopRestore
      <4>2. opc = "popRestore" => opc' = "idle"
        BY <3>1 DEF PopRestore
      <4> QED BY <3>1, <4>1, <4>2 DEF PopRestore, LiveEnd, SlotTypes
    <3>2. CASE PushLoadTop \/ PopDecrement \/ PopLoadTop \/ PopCasLost
      BY <3>2 DEF PushLoadTop, PopDecrement, PopLoadTop, PopCasLost, LiveEnd, SlotTypes
    <3> QED BY <1>6, <3>1, <3>2
  <2>3. \A i \in Held' : i \in Held /\ TaskOf(i)' = TaskOf(i)
    BY <2>1, <2>2 DEF Held, Live, TaskOf
  <2>4. HandInv'
    BY <1>1, <1>2, <2>1, HandsKept DEF NodesInv
  <2> QED BY <1>4, <1>5, <2>1, <2>3, <2>4 DEF NodesInv
<1>7. CASE PushPublish
  <2>1. /\ opc = "pushPublish" /\ opc' = "idle" /\ claims' = claims
        /\ log' = [log EXCEPT ![bottomIndex] = pushed + 1]
        /\ bottomIndex' = bottomIndex + 1 /\ topIndex' = topIndex
    BY <1>7 DEF PushPublish
  <2>2. /\ Held = Live \cup {bottomIndex} /\ Live = topIndex..(bottomIndex - 1)
        /\ Held' = topIndex..bottomIndex
    BY <2>1 DEF Held, Live, LiveEnd, Taking, SlotTypes
  <2>3. /\ bottomIndex \in Nat /\ bottomIndex \in Indices /\ topIndex \in Nat
        /\ topIndex <= bottomIndex
    BY <2>1 DEF SlotTypes, LiveEnd, IInv, IndexTypeOK
  <2>4. /\ log'[bottomIndex] = pushed + 1
        /\ \A i : i # bottomIndex => log'[i] = log[i]
    BY <2>1, <2>3 DEF SlotTypes
  <2>5. \A i \in Held' : i \in Held /\ TaskOf(i)' = TaskOf(i)
    BY <2>1, <2>2, <2>3, <2>4 DEF TaskOf
  <2>6. \A t \in Robbers : log'[tTop[t]] = log[tTop[t]]
    <3> SUFFICES ASSUME NEW t \in Robbers PROVE tTop[t] # bottomIndex
      BY <2>4
    <3>1. tTop[t] < topIndex /\ tTop[t] \in Nat
      BY DEF CapacityInv, SlotTypes, Robbers
    <3> QED BY <2>3, <3>1
  <2>7. HandInv'
    <3>1. opc \notin Taking /\ opc' \notin Taking
      BY <2>1 DEF Taking
    <3> QED BY <1>1, <1>2, <2>1, <2>6, <3>1, HandsKept DEF NodesInv
  <2> QED BY <1>4, <1>5, <2>5, <2>6, <2>7 DEF NodesInv
<1>8. ASSUME opc \in {"popLoadTop", "popCas"}, opc' \in Taking, log' = log,
             bottomIndex \in Live, Claim(bottomIndex), oIndex' = bottomIndex,
             Live' = Live \ {bottomIndex}
      PROVE  NodesInv'
  <2>1. opc # "pushPublish" /\ opc' # "pushPublish" /\ opc \notin Taking
    BY <1>8 DEF Taking
  <2>2. Held = Live /\ Held' = Live' \cup {bottomIndex}
    BY <1>8, <2>1 DEF Held
  <2>3. \A i \in Held' : i \in Held /\ TaskOf(i)' = TaskOf(i)
    BY <1>8, <2>1, <2>2 DEF TaskOf
  <2>4. HandInv'
    BY <1>1, <1>2, <1>8, <2>1, OwnHandFilled DEF NodesInv
  <2> QED BY <1>4, <1>5, <1>8, <2>3, <2>4 DEF NodesInv
<1>9. CASE PopUncontended
  <2>1. /\ opc = "popLoadTop" /\ opc' = "popTake" /\ log' = log
        /\ topIndex' = topIndex /\ bottomIndex' = bottomIndex
        /\ topIndex < bottomIndex /\ oIndex' = bottomIndex /\ Claim(bottomIndex)
    BY <1>9 DEF PopUncontended
  <2>2. /\ bottomIndex \in Live /\ Live' = Live \ {bottomIndex}
    BY <2>1 DEF Live, LiveEnd, SlotTypes
  <2> QED BY <1>8, <2>1, <2>2 DEF Taking
<1>10. CASE PopCasWon
  <2>1. /\ opc = "popCas" /\ opc' = "popKeep" /\ log' = log
        /\ topIndex' = topIndex + 1 /\ bottomIndex' = bottomIndex
        /\ topIndex = bottomIndex /\ oIndex' = bottomIndex /\ Claim(bottomIndex)
    BY <1>10 DEF PopCasWon, IInv, RangeInv
  <2>2. /\ bottomIndex \in Live /\ Live' = Live \ {bottomIndex}
    BY <2>1 DEF Live, LiveEnd, SlotTypes
  <2> QED BY <1>8, <2>1, <2>2 DEF Taking
<1> QED BY <1>6, <1>7, <1>9, <1>10

\* The owner takes the task it popped and keeps the node, or frees it.
LEMMA PopNodes ==
  ASSUME SlotTypes, IInv, CapacityInv, NodesInv, PopTake
  PROVE  NodesInv'
<1> USE DEF indexVars, memVars, ownerVars, thiefVars, historyVars
<1> DEFINE node == NodeAt(oIndex)
           task == log[oIndex]
<1>1. /\ opc = "popTake" /\ opc' = "idle" /\ Deliver(heap[node])
      /\ heap' = [heap EXCEPT ![node] = NoTask]
      /\ freeList' = Released(node)
      /\ UNCHANGED <<indexVars, buffers, thiefVars, pushed, log, claims>>
  BY DEF PopTake, NodeAt
<1>2. /\ Held = Live \cup {oIndex} /\ Held' = Live /\ oIndex \notin Live
      /\ \A i \in Held : TaskOf(i) = log[i]
      /\ \A i \in Held' : TaskOf(i)' = TaskOf(i)
  <2>1. Held = Live \cup {oIndex} /\ Held' = Live
    BY <1>1 DEF Held, Live, LiveEnd, Taking
  <2>2. oIndex \notin Live
    BY <1>1, LiveUnclaimed DEF Taking, NodesInv
  <2>3. \A i : TaskOf(i) = log[i] /\ TaskOf(i)' = log[i]
    BY <1>1 DEF TaskOf
  <2> QED BY <2>1, <2>2, <2>3
<1>3. Safe(node, task) /\ node \in Nodes /\ task \in Tasks /\ heap[node] = task
      /\ ~OnList(node)
  <2>1. Safe(NodeAt(oIndex), TaskOf(oIndex)) /\ TaskOf(oIndex) = log[oIndex]
    BY <1>2 DEF NodesInv, HeldInv
  <2> QED BY <2>1 DEF Safe
<1>4. /\ \A i : NodeAt(i)' = NodeAt(i)
      /\ \A t \in Robbers : Loot(t)' = Loot(t)
      /\ Robbers' = Robbers
  BY <1>1 DEF NodeAt, Active, Loot, Robbers
<1> HIDE DEF node, task
<1>5. \/ freeList' = freeList
      \/ /\ Len(freeList') = Len(freeList) + 1
         /\ freeList'[1] = node
         /\ \A k \in 1..Len(freeList) : freeList'[k + 1] = freeList[k]
  <2>1. CASE Len(freeList) >= TaskFreeListCapacity
    BY <1>1, <2>1 DEF Released
  <2>2. CASE ~(Len(freeList) >= TaskFreeListCapacity)
    <3>1. freeList' = <<node>> \o freeList
      BY <1>1, <2>2 DEF Released
    <3>2. freeList \in Seq(Nodes \cup {NoNode}) /\ <<node>> \in Seq(Nodes \cup {NoNode})
          /\ Len(<<node>>) = 1 /\ <<node>>[1] = node
      BY <1>3 DEF SlotTypes
    <3> QED BY <3>1, <3>2, ConcatProperties
  <2> QED BY <2>1, <2>2
<1>6. /\ FreeInv'
      /\ \A n : OnList(n)' => n = node \/ OnList(n)
  <2>1. CASE freeList' = freeList
    BY <2>1 DEF NodesInv, FreeInv, OnList
  <2>2. CASE freeList' # freeList
    <3>1. /\ Len(freeList') = Len(freeList) + 1 /\ Len(freeList) \in Nat
          /\ freeList'[1] = node
          /\ \A k \in 1..Len(freeList) : freeList'[k + 1] = freeList[k]
      BY <1>5, <2>2 DEF SlotTypes
    <3>2. ASSUME NEW k \in 1..Len(freeList')
          PROVE  \/ k = 1 /\ freeList'[k] = node
                 \/ k - 1 \in 1..Len(freeList) /\ freeList'[k] = freeList[k - 1]
      <4>1. k = 1 \/ (k - 1 \in 1..Len(freeList) /\ (k - 1) + 1 = k)
        BY <3>1
      <4> QED BY <3>1, <4>1
    <3>3. \A k \in 1..Len(freeList) : freeList[k] \in Nodes /\ freeList[k] # node
      BY <1>3 DEF NodesInv, FreeInv, OnList
    <3>4. \A k \in 1..Len(freeList') : freeList'[k] \in Nodes
      BY <1>3, <3>2, <3>3
    <3>5. ASSUME NEW k \in 1..Len(freeList'), NEW l \in 1..Len(freeList'),
                 freeList'[k] = freeList'[l]
          PROVE  k = l
      <4>1. CASE k = 1 \/ l = 1
        BY <3>2, <3>3, <3>5, <4>1
      <4>2. CASE k # 1 /\ l # 1
        <5>1. k - 1 \in 1..Len(freeList) /\ l - 1 \in 1..Len(freeList)
              /\ freeList[k - 1] = freeList[l - 1]
          BY <3>2, <3>5, <4>2
        <5>2. k - 1 = l - 1
          BY <5>1 DEF NodesInv, FreeInv
        <5> QED BY <5>2
      <4> QED BY <4>1, <4>2
    <3>6. \A n : OnList(n)' => n = node \/ OnList(n)
      BY <3>2 DEF OnList
    <3> QED BY <3>4, <3>5, <3>6 DEF FreeInv
  <2> QED BY <2>1, <2>2
<1>7. \A n, s : n # node /\ Safe(n, s) => Safe(n, s)'
  BY <1>1, <1>6 DEF Safe, SlotTypes
<1>8. HeldInv'
  <2>1. \A i \in Held' : NodeAt(i) # node /\ Safe(NodeAt(i), TaskOf(i))
    BY <1>2 DEF NodesInv, HeldInv, node
  <2>2. \A i \in Held' : Safe(NodeAt(i), TaskOf(i))'
    BY <1>2, <1>4, <1>7, <2>1
  <2>3. \A i, j \in Held' : i # j => NodeAt(i)' # NodeAt(j)'
    BY <1>2, <1>4 DEF NodesInv, HeldInv
  <2> QED BY <2>2, <2>3 DEF HeldInv
<1>9. LootInv'
  <2>1. \A t \in Robbers : Loot(t) # node /\ Safe(Loot(t), log[tTop[t]])
    BY <1>2 DEF NodesInv, LootInv, node
  <2>2. \A t \in Robbers' : Safe(Loot(t), log[tTop[t]])'
    BY <1>1, <1>4, <1>7, <2>1
  <2>3. \A t \in Robbers' : \A i \in Held' : Loot(t)' # NodeAt(i)'
    BY <1>2, <1>4 DEF NodesInv, LootInv
  <2>4. \A t, u \in Robbers' : t # u => Loot(t)' # Loot(u)'
    BY <1>4 DEF NodesInv, LootInv
  <2> QED BY <2>2, <2>3, <2>4 DEF LootInv
<1>10. AimInv'
  BY <1>1, AimKept DEF NodesInv
<1>11. HandInv'
  <2>1. InHand(task) /\ Deliver(task) /\ opc' \notin Taking
    BY <1>1, <1>3 DEF InHand, Taking, task
  <2>2. \A u \in Robbers : log[tTop[u]] # task
    BY <1>1 DEF NodesInv, HandInv, Taking, task
  <2>3. \A s : InHand(s)' <=> InHand(s) /\ s # task
    BY <1>1, <1>4, <2>1, <2>2 DEF InHand, task
  <2> QED BY <1>1, <1>3, <1>4, <2>1, <2>3, HandEmptied DEF NodesInv
<1> QED BY <1>6, <1>8, <1>9, <1>10, <1>11 DEF NodesInv


\* A thief's step that neither wins an index nor takes a task.
LEMMA ThiefNodes ==
  ASSUME SlotTypes, MemoryInv, IInv, CapacityInv, NodesInv, NEW t \in Thieves,
         SizeLoadBottom(t) \/ SizeZero(t) \/ SizeNonzero(t) \/ StealLoadTop(t)
            \/ StealEmpty(t) \/ StealNonempty(t) \/ StealLoadBuffer(t)
            \/ StealCasLost(t) \/ StealRead(t)
  PROVE  NodesInv'
<1> USE DEF indexVars, memVars, ownerVars, thiefVars, historyVars
<1>1. UNCHANGED <<indexVars, memVars, ownerVars, historyVars>>
  BY DEF SizeLoadBottom, SizeZero, SizeNonzero, StealLoadTop, StealEmpty,
         StealNonempty, StealLoadBuffer, StealCasLost, StealRead
<1>2. tpc \in [Thieves -> ThiefLabels] /\ tNode \in [Thieves -> Nodes \cup {NoNode}]
      /\ tTop \in [Thieves -> Indices] /\ tBuf \in [Thieves -> Nat \ {0}]
  BY DEF SlotTypes, IInv, IndexTypeOK, MemoryInv, MemoryTypeOK
<1>3. \A u \in Thieves : u # t => tpc'[u] = tpc[u] /\ tTop'[u] = tTop[u]
                                  /\ tBuf'[u] = tBuf[u] /\ tNode'[u] = tNode[u]
  BY <1>2 DEF SizeLoadBottom, SizeZero, SizeNonzero, StealLoadTop, StealEmpty,
         StealNonempty, StealLoadBuffer, StealCasLost, StealRead, Return
<1>4. /\ t \in Robbers' <=> t \in Robbers
      /\ t \in Robbers => tTop'[t] = tTop[t] /\ Loot(t)' = Loot(t)
  <2>1. CASE StealRead(t)
    BY <1>2, <2>1 DEF StealRead, Robbers, Loot
  <2>2. CASE ~StealRead(t)
    <3>1. tpc[t] \notin {"stealRead", "stealTake"} /\ tpc'[t] \notin {"stealRead", "stealTake"}
      BY <1>2, <2>2 DEF SizeLoadBottom, SizeZero, SizeNonzero, StealLoadTop, StealEmpty,
         StealNonempty, StealLoadBuffer, StealCasLost, Return
    <3> QED BY <3>1 DEF Robbers
  <2> QED BY <2>1, <2>2
<1>5. /\ Robbers' = Robbers
      /\ \A u \in Robbers : tTop'[u] = tTop[u] /\ Loot(u)' = Loot(u)
  <2>1. \A u \in Thieves : u # t => (u \in Robbers' <=> u \in Robbers)
                                    /\ Loot(u)' = Loot(u)
    BY <1>1, <1>3 DEF Robbers, Loot
  <2>2. Robbers \subseteq Thieves /\ Robbers' \subseteq Thieves
    BY DEF Robbers
  <2> QED BY <1>3, <1>4, <2>1, <2>2
<1>6. /\ Held' = Held
      /\ \A i : TaskOf(i)' = TaskOf(i) /\ NodeAt(i)' = NodeAt(i)
  BY <1>1 DEF Held, Live, LiveEnd, TaskOf, NodeAt, Active
<1>7. HeldInv' /\ LootInv' /\ FreeInv'
  BY <1>1, <1>5, <1>6, SlotsKept DEF NodesInv
<1>8. AimInv'
  <2> SUFFICES ASSUME NEW u \in Thieves, tpc'[u] = "stealCas", tTop'[u] = topIndex'
               PROVE  At(buffers[tBuf[u]], topIndex)' = NodeAt(topIndex)'
    BY DEF AimInv
  <2>1. CASE u # t
    <3>1. At(buffers[tBuf[u]], topIndex) = NodeAt(topIndex)
      BY <1>1, <1>3, <2>1 DEF NodesInv, AimInv
    <3> QED BY <1>1, <1>3, <2>1, <3>1 DEF NodeAt, Active
  <2>2. CASE u = t
    <3>1. StealLoadBuffer(t)
      BY <1>2, <2>2 DEF SizeLoadBottom, SizeZero, SizeNonzero, StealLoadTop, StealEmpty,
         StealNonempty, StealCasLost, StealRead, Return
    <3>2. tBuf'[t] = Len(buffers)
      BY <1>2, <3>1 DEF StealLoadBuffer
    <3> QED BY <1>1, <2>2, <3>2 DEF NodeAt, Active
  <2> QED BY <2>1, <2>2
<1>9. HandInv'
  BY <1>1, <1>5, HandsKept DEF NodesInv
<1> QED BY <1>7, <1>8, <1>9 DEF NodesInv

\* The thief that wins the top index takes over the node its slot names.
LEMMA WinNodes ==
  ASSUME SlotTypes, MemoryInv, IInv, CapacityInv, NodesInv, NEW t \in Thieves,
         StealCasWon(t)
  PROVE  NodesInv'
<1> USE DEF indexVars, memVars, ownerVars, thiefVars, historyVars
<1>1. /\ tpc[t] = "stealCas" /\ tTop[t] = topIndex /\ topIndex' = topIndex + 1
      /\ Claim(topIndex) /\ tpc' = [tpc EXCEPT ![t] = "stealRead"]
      /\ UNCHANGED <<bottomIndex, memVars, ownerVars, tBottom, tTop, tBuf, tNode,
                     pushed, log, delivered>>
  BY DEF StealCasWon
<1>2. tpc \in [Thieves -> ThiefLabels]
  BY DEF IInv, IndexTypeOK
<1>3. /\ topIndex \in Live /\ Live' = Live \ {topIndex}
      /\ t \notin Robbers /\ Robbers' = Robbers \cup {t}
  <2>1. topIndex < LiveEnd /\ LiveEnd' = LiveEnd
    BY <1>1 DEF IInv, ThiefInv, LiveEnd
  <2>2. topIndex \in Live /\ Live' = Live \ {topIndex}
    BY <1>1, <2>1 DEF Live, SlotTypes
  <2> QED BY <1>1, <1>2, <2>2 DEF Robbers
<1>4. /\ opc \in Taking => topIndex # oIndex
      /\ opc = "pushPublish" => topIndex # bottomIndex
  <2>1. opc \in Taking => topIndex # oIndex
    BY <1>3, LiveUnclaimed DEF NodesInv
  <2>2. opc = "pushPublish" => topIndex # bottomIndex
    BY <1>3 DEF Live, LiveEnd, SlotTypes
  <2> QED BY <2>1, <2>2
<1>5. topIndex \in Held /\ Held' = Held \ {topIndex}
  BY <1>1, <1>3, <1>4 DEF Held
<1>6. /\ \A i : NodeAt(i)' = NodeAt(i) /\ TaskOf(i)' = TaskOf(i)
      /\ TaskOf(topIndex) = log[topIndex]
      /\ \A n, s : Safe(n, s)' <=> Safe(n, s)
  BY <1>1, <1>4 DEF NodeAt, Active, TaskOf, Safe, OnList
<1>7. /\ Loot(t)' = NodeAt(topIndex)
      /\ \A u \in Robbers : Loot(u)' = Loot(u)
  <2>1. tpc'[t] = "stealRead" /\ Loot(t)' = At(buffers[tBuf[t]], tTop[t])
    BY <1>1, <1>2 DEF Loot
  <2>2. At(buffers[tBuf[t]], topIndex) = NodeAt(topIndex)
    BY <1>1 DEF NodesInv, AimInv
  <2>3. \A u \in Robbers : tpc'[u] = tpc[u]
    BY <1>1, <1>2, <1>3 DEF Robbers
  <2>4. \A u \in Robbers : Loot(u)' = Loot(u)
    BY <1>1, <2>3 DEF Loot
  <2> QED BY <1>1, <2>1, <2>2, <2>4
<1>8. HeldInv'
  BY <1>5, <1>6 DEF NodesInv, HeldInv
<1>9. LootInv'
  <2>1. \A u \in Robbers' : Safe(Loot(u), log[tTop[u]])'
    <3> SUFFICES ASSUME NEW u \in Robbers' PROVE Safe(Loot(u), log[tTop[u]])'
      OBVIOUS
    <3>1. CASE u = t
      <4>1. Safe(NodeAt(topIndex), log[topIndex])
        BY <1>5, <1>6 DEF NodesInv, HeldInv
      <4> QED BY <1>1, <1>6, <1>7, <3>1, <4>1
    <3>2. CASE u \in Robbers
      BY <1>1, <1>6, <1>7, <3>2 DEF NodesInv, LootInv
    <3> QED BY <1>3, <3>1, <3>2
  <2>2. \A u \in Robbers' : \A i \in Held' : Loot(u)' # NodeAt(i)'
    BY <1>3, <1>5, <1>6, <1>7 DEF NodesInv, LootInv, HeldInv
  <2>3. \A u, v \in Robbers' : u # v => Loot(u)' # Loot(v)'
    BY <1>3, <1>5, <1>7 DEF NodesInv, LootInv
  <2> QED BY <2>1, <2>2, <2>3 DEF LootInv
<1>10. FreeInv'
  BY <1>1 DEF NodesInv, FreeInv
<1>11. AimInv'
  <2>1. \A u \in Thieves : tpc'[u] = "stealCas" => tTop[u] <= topIndex
    BY <1>1, <1>2 DEF IInv, ThiefInv
  <2>2. topIndex \in Nat /\ \A u \in Thieves : tTop[u] \in Nat
    BY DEF SlotTypes
  <2> QED BY <1>1, <2>1, <2>2 DEF AimInv
<1>12. HandInv'
  BY <1>1, <1>3, ThiefHandFilled DEF NodesInv
<1> QED BY <1>8, <1>9, <1>10, <1>11, <1>12 DEF NodesInv

\* A thief moves the task out of the node it won and deletes the node.
LEMMA TakeNodes ==
  ASSUME SlotTypes, MemoryInv, IInv, CapacityInv, NodesInv, NEW t \in Thieves,
         StealTake(t)
  PROVE  NodesInv'
<1> USE DEF indexVars, memVars, ownerVars, thiefVars, historyVars
<1> DEFINE node == tNode[t]
           task == log[tTop[t]]
<1>1. /\ tpc[t] = "stealTake" /\ Deliver(heap[node])
      /\ heap' = [heap EXCEPT ![node] = NoTask] /\ Return(t)
      /\ UNCHANGED <<indexVars, buffers, freeList, ownerVars, pushed, log, claims>>
  BY DEF StealTake
<1>2. tpc \in [Thieves -> ThiefLabels] /\ tNode \in [Thieves -> Nodes \cup {NoNode}]
      /\ tTop \in [Thieves -> Indices] /\ tBuf \in [Thieves -> Nat \ {0}]
  BY DEF SlotTypes, IInv, IndexTypeOK, MemoryInv, MemoryTypeOK
<1>3. \A u \in Thieves : u # t => tpc'[u] = tpc[u] /\ tTop'[u] = tTop[u]
                                  /\ tBuf'[u] = tBuf[u] /\ tNode'[u] = tNode[u]
  BY <1>1, <1>2 DEF Return
<1>4. /\ t \in Robbers /\ Robbers' = Robbers \ {t}
      /\ \A u \in Robbers' : tTop'[u] = tTop[u] /\ Loot(u)' = Loot(u)
      /\ Loot(t) = node
  <2>1. t \in Robbers /\ Robbers' = Robbers \ {t} /\ Robbers \subseteq Thieves
    BY <1>1, <1>2, <1>3 DEF Robbers, Return
  <2>2. \A u \in Robbers' : tTop'[u] = tTop[u] /\ Loot(u)' = Loot(u)
    BY <1>1, <1>3, <2>1 DEF Loot
  <2> QED BY <1>1, <2>1, <2>2 DEF Loot
<1>5. /\ Held' = Held
      /\ \A i : TaskOf(i)' = TaskOf(i) /\ NodeAt(i)' = NodeAt(i)
  BY <1>1 DEF Held, Live, LiveEnd, TaskOf, NodeAt, Active
<1>6. node \in Nodes /\ task \in Tasks /\ heap[node] = task
  <2>1. Safe(Loot(t), log[tTop[t]])
    BY <1>4 DEF NodesInv, LootInv
  <2> QED BY <1>4, <2>1 DEF Safe
<1> HIDE DEF node, task
<1>7. \A n, s : n # node /\ Safe(n, s) => Safe(n, s)'
  BY <1>1 DEF Safe, OnList, SlotTypes
<1>8. HeldInv'
  <2>1. \A i \in Held : NodeAt(i) # node /\ Safe(NodeAt(i), TaskOf(i))
    BY <1>4 DEF NodesInv, HeldInv, LootInv
  <2>2. \A i \in Held' : Safe(NodeAt(i), TaskOf(i))'
    BY <1>5, <1>7, <2>1
  <2>3. \A i, j \in Held' : i # j => NodeAt(i)' # NodeAt(j)'
    BY <1>5 DEF NodesInv, HeldInv
  <2> QED BY <2>2, <2>3 DEF HeldInv
<1>9. LootInv'
  <2>1. \A u \in Robbers' : Loot(u) # node /\ Safe(Loot(u), log[tTop[u]])
    BY <1>4 DEF NodesInv, LootInv
  <2>2. \A u \in Robbers' : Safe(Loot(u), log[tTop[u]])'
    BY <1>1, <1>4, <1>7, <2>1
  <2>3. \A u \in Robbers' : \A i \in Held' : Loot(u)' # NodeAt(i)'
    BY <1>4, <1>5 DEF NodesInv, LootInv
  <2>4. \A u, v \in Robbers' : u # v => Loot(u)' # Loot(v)'
    BY <1>4 DEF NodesInv, LootInv
  <2> QED BY <2>2, <2>3, <2>4 DEF LootInv
<1>10. FreeInv'
  BY <1>1 DEF NodesInv, FreeInv
<1>11. AimInv'
  <2> SUFFICES ASSUME NEW u \in Thieves, tpc'[u] = "stealCas", tTop'[u] = topIndex'
               PROVE  At(buffers[tBuf[u]], topIndex)' = NodeAt(topIndex)'
    BY DEF AimInv
  <2>1. u # t
    BY <1>1, <1>2 DEF Return
  <2>2. At(buffers[tBuf[u]], topIndex) = NodeAt(topIndex)
    BY <1>1, <1>3, <2>1 DEF NodesInv, AimInv
  <2> QED BY <1>1, <1>3, <2>1, <2>2 DEF NodeAt, Active
<1>12. HandInv'
  <2>1. InHand(task) /\ Deliver(task)
    BY <1>1, <1>4, <1>6 DEF InHand, task
  <2>2. \A u \in Robbers : log[tTop[u]] = task => u = t
    BY <1>4 DEF NodesInv, HandInv, task
  <2>3. opc \in Taking => log[oIndex] # task
    BY <1>4 DEF NodesInv, HandInv, task
  <2>4. \A s : InHand(s)' <=> InHand(s) /\ s # task
    BY <1>1, <1>4, <2>2, <2>3 DEF InHand, task
  <2> QED BY <1>1, <1>4, <1>6, <2>1, <2>4, HandEmptied DEF NodesInv
<1> QED BY <1>8, <1>9, <1>10, <1>11, <1>12 DEF NodesInv

LEMMA StepSlots == IInv /\ MemoryInv /\ SlotsInv /\ [Next]_vars => SlotsInv'
<1> SUFFICES ASSUME IInv, MemoryInv, SlotsInv, [Next]_vars PROVE SlotsInv'
  OBVIOUS
<1>1. CapacityInv /\ CapacityInv' /\ SlotTypes
  BY CapacityStep, SlotsTyped DEF SlotsInv
<1> SUFFICES ASSUME ~overtaken' PROVE NodesInv'
  BY <1>1 DEF SlotsInv
<1>2. overtaken => overtaken'
  BY DEF Next, Owner, OwnerInOperation, Thief, PushLoadTop, PushStore, PushPublish,
         PopDecrement, PopUncontended, PopLoadTop, PopCasWon, PopCasLost,
         PopRestore, PopTake, SizeLoadBottom, SizeZero, SizeNonzero, StealLoadTop,
         StealEmpty, StealNonempty, StealLoadBuffer, StealCasWon, StealCasLost,
         StealRead, StealTake, vars, historyVars
<1>3. NodesInv
  BY <1>2 DEF SlotsInv
<1>4. CASE UNCHANGED vars
  <2>1. UNCHANGED <<indexVars, memVars, ownerVars, thiefVars, historyVars>>
    BY <1>4 DEF vars
  <2> USE DEF indexVars, memVars, ownerVars, thiefVars, historyVars
  <2>2. HeldInv' /\ LootInv' /\ FreeInv'
    <3>1. \A i \in Held' : i \in Held /\ TaskOf(i)' = TaskOf(i) /\ NodeAt(i)' = NodeAt(i)
      BY <2>1 DEF Held, Live, LiveEnd, TaskOf, NodeAt, Active
    <3>2. \A t \in Robbers' : t \in Robbers /\ Loot(t)' = Loot(t)
      BY <2>1 DEF Robbers, Loot
    <3> QED BY <1>3, <2>1, <3>1, <3>2, SlotsKept DEF NodesInv
  <2>3. AimInv'
    BY <1>3, <2>1, AimKept DEF NodesInv
  <2>4. HandInv'
    <3>1. Robbers' = Robbers
      BY <2>1 DEF Robbers
    <3> QED BY <1>3, <2>1, <3>1, HandsKept DEF NodesInv
  <2> QED BY <2>2, <2>3, <2>4 DEF NodesInv
<1>5. CASE PushStore
  BY <1>1, <1>3, <1>5, StoreNodes
<1>6. CASE PushLoadTop \/ PushPublish \/ PopDecrement \/ PopUncontended \/ PopLoadTop
           \/ PopCasWon \/ PopCasLost \/ PopRestore
  BY <1>1, <1>3, <1>6, OwnerNodes
<1>7. CASE PopTake
  BY <1>1, <1>3, <1>7, PopNodes
<1>8. ASSUME NEW t \in Thieves, Thief(t) PROVE NodesInv'
  <2>1. CASE StealCasWon(t)
    BY <1>1, <1>3, <2>1, WinNodes
  <2>2. CASE StealTake(t)
    BY <1>1, <1>3, <2>2, TakeNodes
  <2>3. CASE ~StealCasWon(t) /\ ~StealTake(t)
    BY <1>1, <1>3, <1>8, <2>3, ThiefNodes DEF Thief
  <2> QED BY <2>1, <2>2, <2>3
<1> QED BY <1>4, <1>5, <1>6, <1>7, <1>8 DEF Next, Owner, OwnerInOperation

\* The queue's memory, until a push overtakes a thief: the slots of the live
\* indices name distinct nodes, off the free list, that hold the tasks pushed
\* there; and so does, in the buffer a thief has loaded, retired or not, the slot
\* of the index it has won or can still win (pushBottom(), popBottom() and steal()
\* of WorkStealingQueue.cpp, for any capacity and any thieves).
THEOREM SlotsIntact == Spec => []LiveSlotsIntact
<1>1. IInv /\ MemoryInv /\ SlotsInv => LiveSlotsIntact
  <2> SUFFICES ASSUME IInv, MemoryInv, NodesInv
               PROVE  /\ \A i \in Live : Holds(NodeAt(i), i)
                      /\ \A i, j \in Live : i # j => NodeAt(i) # NodeAt(j)
                      /\ \A t \in Thieves :
                            MayRead(t) => Holds(At(buffers[tBuf[t]], tTop[t]), tTop[t])
    BY DEF SlotsInv, LiveSlotsIntact
  <2>1. \A i \in Live : i \in Held /\ TaskOf(i) = log[i]
    BY DEF Held, TaskOf, Live, LiveEnd
  <2>2. \A i \in Live : Holds(NodeAt(i), i)
    BY <2>1 DEF NodesInv, HeldInv, Safe, OnList, Holds
  <2>3. \A i, j \in Live : i # j => NodeAt(i) # NodeAt(j)
    BY <2>1 DEF NodesInv, HeldInv
  <2>4. ASSUME NEW t \in Thieves, tpc[t] = "stealRead"
        PROVE  Holds(At(buffers[tBuf[t]], tTop[t]), tTop[t])
    <3>1. t \in Robbers /\ Loot(t) = At(buffers[tBuf[t]], tTop[t])
      BY <2>4 DEF Robbers, Loot
    <3>2. Safe(Loot(t), log[tTop[t]])
      BY <3>1 DEF NodesInv, LootInv
    <3> QED BY <3>1, <3>2 DEF Safe, OnList, Holds
  <2>5. ASSUME NEW t \in Thieves, tpc[t] = "stealCas", tTop[t] = topIndex
        PROVE  Holds(At(buffers[tBuf[t]], tTop[t]), tTop[t])
    <3>1. topIndex \in Nat /\ LiveEnd \in Nat /\ topIndex < LiveEnd
      BY <2>5, SlotsTyped DEF SlotTypes, IInv, ThiefInv
    <3>2. topIndex \in Live
      BY <3>1 DEF Live
    <3>3. At(buffers[tBuf[t]], topIndex) = NodeAt(topIndex)
      BY <2>5 DEF NodesInv, AimInv
    <3> QED BY <2>2, <2>5, <3>2, <3>3
  <2> QED BY <2>2, <2>3, <2>4, <2>5 DEF MayRead
<1> QED BY <1>1, InitIInv, InitMemory, InitSlots, StepIInv, StepMemory, StepSlots,
           PTL DEF Spec

\* A push that overtakes a thief is the only way a task can be delivered twice or
\* lost: until then no task is delivered more often than it was claimed, what a
\* thief is about to move out is a task no one has received, and when no call is
\* between its claim and its return, every claimed task has been delivered.
THEOREM DeliveredOnce == Spec => []DeliveredUnlessOvertaken
<1>1. IInv /\ MemoryInv /\ SlotsInv => DeliveredUnlessOvertaken
  <2> SUFFICES ASSUME IInv, MemoryInv, NodesInv, ~overtaken
               PROVE  NoTaskDeliveredTwice /\ DeliveredExactlyOnce
    BY DEF SlotsInv, DeliveredUnlessOvertaken, NoTaskDeliveredTwice
  <2>1. \A s \in Tasks : claims[s] \in {0, 1}
    BY DEF IInv, ClaimedExactlyOnce
  <2>2. \A s \in Tasks : delivered[s] = IF claims[s] = 1 /\ ~InHand(s) THEN 1 ELSE 0
    BY DEF NodesInv, HandInv
  <2>3. ASSUME NEW t \in Thieves, tpc[t] = "stealTake"
        PROVE  tNode[t] \in Nodes /\ heap[tNode[t]] \in Tasks
               /\ delivered[heap[tNode[t]]] = 0
    <3>1. t \in Robbers /\ Loot(t) = tNode[t]
      BY <2>3 DEF Robbers, Loot
    <3>2. Safe(tNode[t], log[tTop[t]]) /\ InHand(log[tTop[t]])
      BY <3>1 DEF NodesInv, LootInv, InHand
    <3> QED BY <2>2, <3>2 DEF Safe
  <2>4. NoTaskDeliveredTwice
    BY <2>1, <2>2, <2>3 DEF NoTaskDeliveredTwice
  <2>5. DeliveredExactlyOnce
    <3> SUFFICES ASSUME opc \notin Taking, Robbers = {} PROVE delivered = claims
      BY DEF DeliveredExactlyOnce, Taking, Robbers
    <3>1. \A s \in Tasks : ~InHand(s)
      BY DEF InHand
    <3>2. \A s \in Tasks : delivered[s] = claims[s]
      BY <2>1, <2>2, <3>1
    <3>3. delivered \in [Tasks -> Nat] /\ claims \in [Tasks -> Nat]
      BY DEF IInv, IndexTypeOK, MemoryInv, MemoryTypeOK
    <3> QED BY <3>2, <3>3
  <2> QED BY <2>4, <2>5
<1> QED BY <1>1, InitIInv, InitMemory, InitSlots, StepIInv, StepMemory, StepSlots,
           PTL DEF Spec

=============================================================================
