----------------------------- MODULE Task_proof -----------------------------
(***************************************************************************)
(* Theorems about Task for any sets of places, blocks and callables: every *)
(* callable has one owner until it is destroyed, and a Task implements the *)
(* box that TaskBox describes.                                             *)
(***************************************************************************)
EXTENDS Task, FiniteSetTheorems, TLAPS

USE PlacesAssumption

\* The invariant is about any members T of the Tasks, memory h and callables w
\* that have been wrapped, because a move assignment passes through a state of
\* them that is between two states of the specification.
Members == [vtable : Callables \cup {Null}, isHeap : BOOLEAN, heapPtr : Blocks \cup {Null}]

Full(T, s) == T[s].vtable # Null
Where(T, s) == IF T[s].isHeap THEN T[s].heapPtr ELSE s

Types(T, h, w) ==
    /\ T \in [Slots -> Members] /\ h \in Heaps /\ w \subseteq Callables
    /\ \A s \in Slots : ~Full(T, s) => T[s] = Empty
    /\ \A s \in Slots : T[s].isHeap => T[s].heapPtr \in Blocks
    /\ \A b \in Blocks : h.object[b] # "raw" => b \in h.allocated

\* What a Task's vtable expects is where the Task looks, nobody else's, and
\* all there is.
InPlace(T, h) ==
    /\ \A s \in Slots : Full(T, s) => h.object[Where(T, s)] = T[s].vtable
    /\ \A s, t \in Slots : Full(T, s) /\ T[s].vtable = T[t].vtable => s = t
    /\ \A p \in Places : h.object[p] # "raw" => \E s \in Slots : Full(T, s) /\ Where(T, s) = p
    /\ ~h.misused

\* A callable that was wrapped is in a Task or has been destroyed, not both.
Accounted(T, h, w) ==
    /\ \A c \in w : c \in h.destroyed \/ \E s \in Slots : T[s].vtable = c
    /\ \A s \in Slots : Full(T, s) => T[s].vtable \in w \ h.destroyed
    /\ h.destroyed \subseteq w

Sound(T, h, w) == Types(T, h, w) /\ InPlace(T, h) /\ Accounted(T, h, w)

NoBlockLost(T, h) ==
    \A b \in h.allocated : \E s \in Slots : T[s].isHeap /\ T[s].heapPtr = b

Outside == \A s \in Slots \ alive : task[s] = Empty

IInv ==
    /\ Sound(task, heap, wrapped)
    /\ alive \subseteq Slots /\ Outside
    /\ called \in Callables \cup {Null}

\* Without a constructor that throws in a heap block, every block has an owner.
Contained == MayThrow \subseteq InlineTypes => NoBlockLost(task, heap)

\* Full Tasks look at different places, and at none of an empty one.
LEMMA Apart ==
  ASSUME NEW T, NEW h, NEW w, Sound(T, h, w)
  PROVE  /\ \A s \in Slots : Full(T, s) => /\ Where(T, s) \in Places
                                           /\ T[s].vtable \in Callables
         /\ \A s, t \in Slots : Full(T, s) /\ Full(T, t) /\ s # t
                                => Where(T, s) # Where(T, t)
         /\ \A s \in Slots : ~Full(T, s) => h.object[s] = "raw"
<1> USE DEF Sound, Types, InPlace, Full, Where, Places, Members
<1>1. \A s \in Slots : Full(T, s) => Where(T, s) \in Places /\ T[s].vtable \in Callables
  OBVIOUS
<1>2. \A s, t \in Slots : Full(T, s) /\ Full(T, t) /\ s # t => Where(T, s) # Where(T, t)
  OBVIOUS
<1>3. ASSUME NEW s \in Slots, ~Full(T, s), h.object[s] # "raw" PROVE FALSE
  <2>1. PICK t \in Slots : Full(T, t) /\ Where(T, t) = s
    BY <1>3
  <2>2. s \notin Blocks /\ s # t
    BY <1>3, <2>1
  <2> QED BY <2>1, <2>2
<1> QED BY <1>1, <1>2, <1>3

\* What the vtable's destroy and heapDelete do to the memory.
LEMMA DestroyFields ==
  ASSUME NEW h \in Heaps, NEW p \in Places
  PROVE  /\ Destroy(h, p) \in Heaps
         /\ Destroy(h, p).object = [h.object EXCEPT ![p] = "raw"]
         /\ Destroy(h, p).allocated = h.allocated
         /\ Destroy(h, p).destroyed = h.destroyed \cup ({h.object[p]} \ {"raw", "husk"})
         /\ Destroy(h, p).misused <=> h.misused \/ h.object[p] = "raw"
<1>1. Destroy(h, p) \in Heaps
  BY DEF Destroy, Heaps, Objects, Places
<1>2. /\ Destroy(h, p).object = [h.object EXCEPT ![p] = "raw"]
      /\ Destroy(h, p).allocated = h.allocated
  BY DEF Destroy, Heaps
<1>3. Destroy(h, p).destroyed = h.destroyed \cup ({h.object[p]} \ {"raw", "husk"})
  BY DEF Destroy, Heaps
<1>4. Destroy(h, p).misused <=> h.misused \/ h.object[p] = "raw"
  BY DEF Destroy, Heaps
<1> QED BY <1>1, <1>2, <1>3, <1>4

LEMMA HeapDeleteFields ==
  ASSUME NEW h \in Heaps, NEW p \in Places
  PROVE  LET d == Destroy(h, p)
             g == HeapDelete(h, p)
         IN  /\ g \in Heaps
             /\ g.object = d.object /\ g.destroyed = d.destroyed
             /\ g.misused <=> d.misused
             /\ g.allocated = h.allocated \ {p}
<1> DEFINE d == Destroy(h, p)
<1>1. d \in Heaps /\ d.allocated = h.allocated
  BY DestroyFields
<1>2. HeapDelete(h, p) = [d EXCEPT !.allocated = @ \ {p}]
  BY DEF HeapDelete
<1> HIDE DEF d
<1> DEFINE g == [d EXCEPT !.allocated = @ \ {p}]
<1>3. g \in Heaps /\ g.object = d.object /\ g.destroyed = d.destroyed
  BY <1>1 DEF Heaps
<1>4. g.allocated = h.allocated \ {p} /\ (g.misused <=> d.misused)
  BY <1>1 DEF Heaps
<1> QED BY <1>2, <1>3, <1>4 DEF d

\* reset() of a full Task: the object it looks at is destroyed and its block, if
\* it has one, given back.
LEMMA ResetFields ==
  ASSUME NEW s \in Slots, Sound(task, heap, wrapped), Full(task, s)
  PROVE  LET p == Where(task, s)
             g == Reset(heap, s)
         IN  /\ g \in Heaps
             /\ g.object = [heap.object EXCEPT ![p] = "raw"]
             /\ g.allocated = IF task[s].isHeap THEN heap.allocated \ {p} ELSE heap.allocated
             /\ g.destroyed = heap.destroyed \cup {task[s].vtable}
             /\ ~g.misused
<1> DEFINE p == Where(task, s)
           g == Reset(heap, s)
<1>1. /\ heap.object[p] = task[s].vtable /\ task[s].vtable \in Callables
      /\ ~heap.misused /\ p \in Places /\ heap \in Heaps
  BY Apart DEF Sound, InPlace, Types
<1>2. {heap.object[p]} \ {"raw", "husk"} = {task[s].vtable} /\ heap.object[p] # "raw"
  BY <1>1
<1>3. g = IF task[s].isHeap THEN HeapDelete(heap, p) ELSE Destroy(heap, p)
  BY DEF Reset, Where, Full
<1> HIDE DEF p, g
<1> DEFINE d == Destroy(heap, p)
<1>0. /\ d \in Heaps /\ d.object = [heap.object EXCEPT ![p] = "raw"]
      /\ d.allocated = heap.allocated /\ ~d.misused
      /\ d.destroyed = heap.destroyed \cup {task[s].vtable}
  BY <1>1, <1>2, DestroyFields
<1> HIDE DEF d
<1>4. CASE task[s].isHeap
  <2>1. g = HeapDelete(heap, p)
    BY <1>3, <1>4
  <2>2. /\ g \in Heaps /\ g.object = d.object /\ g.destroyed = d.destroyed
        /\ ~g.misused /\ g.allocated = heap.allocated \ {p}
    BY <1>0, <1>1, <2>1, HeapDeleteFields DEF d
  <2> QED BY <1>0, <1>4, <2>2 DEF p, g
<1>5. CASE ~task[s].isHeap
  <2>1. g = d
    BY <1>3, <1>5 DEF d
  <2> QED BY <1>0, <1>5, <2>1 DEF p, g
<1> QED BY <1>4, <1>5

\* reset() leaves an empty Task, and the end of its callable, in a sound state.
LEMMA ResetSound ==
  ASSUME NEW s \in Slots, Sound(task, heap, wrapped)
  PROVE  LET T == [task EXCEPT ![s] = Empty]
             g == Reset(heap, s)
         IN  /\ Sound(T, g, wrapped)
             /\ g.destroyed = heap.destroyed \cup ({task[s].vtable} \ {Null})
             /\ NoBlockLost(task, heap) => NoBlockLost(T, g)
<1> DEFINE T == [task EXCEPT ![s] = Empty]
           g == Reset(heap, s)
<1>1. CASE ~Full(task, s)
  <2>1. T = task /\ g = heap
    BY <1>1 DEF Sound, Types, Full, Reset
  <2> QED BY <1>1, <2>1 DEF Full
<1>2. CASE Full(task, s)
  <2> DEFINE p == Where(task, s)
  <2>2. p \in Places /\ task[s].vtable \in Callables /\ heap.object[p] = task[s].vtable
    BY <1>2, Apart DEF Sound, InPlace
  <2>3. /\ g.object = [heap.object EXCEPT ![p] = "raw"]
        /\ g.destroyed = heap.destroyed \cup {task[s].vtable}
        /\ g.allocated = IF task[s].isHeap THEN heap.allocated \ {p} ELSE heap.allocated
        /\ ~g.misused /\ g \in Heaps
    BY <1>2, ResetFields
  <2>4. heap.object \in [Places -> Objects]
    BY DEF Sound, Types, Heaps
  <2>5. /\ T \in [Slots -> Members]
        /\ ~Full(T, s) /\ T[s] = Empty
        /\ \A t \in Slots \ {s} : T[t] = task[t] /\ Where(T, t) = Where(task, t)
                                  /\ (Full(T, t) <=> Full(task, t))
    BY DEF Sound, Types, Members, Empty, Full, Where
  <2> HIDE DEF T, g
  <2>6. Types(T, g, wrapped)
    <3>1. \A t \in Slots : T[t].isHeap => T[t].heapPtr \in Blocks
      BY <2>5 DEF Sound, Types, Empty
    <3>2. \A b \in Blocks : g.object[b] # "raw" => b \in g.allocated
      BY <2>3, <2>4 DEF Sound, Types, Places
    <3>3. \A t \in Slots : ~Full(T, t) => T[t] = Empty
      BY <2>5 DEF Sound, Types
    <3> QED BY <2>3, <2>5, <3>1, <3>2, <3>3 DEF Sound, Types
  <2>7. InPlace(T, g)
    <3>1. \A t \in Slots : Full(T, t) => g.object[Where(T, t)] = T[t].vtable
      BY <1>2, <2>3, <2>4, <2>5, Apart DEF Sound, InPlace
    <3>2. \A t, u \in Slots : Full(T, t) /\ T[t].vtable = T[u].vtable => t = u
      BY <2>5 DEF Sound, InPlace, Full
    <3>3. \A q \in Places : g.object[q] # "raw"
                            => \E t \in Slots : Full(T, t) /\ Where(T, t) = q
      BY <2>3, <2>4, <2>5 DEF Sound, InPlace
    <3> QED BY <2>3, <3>1, <3>2, <3>3 DEF InPlace
  <2>8. Accounted(T, g, wrapped)
    <3>1. \A c \in wrapped : c \in g.destroyed \/ \E t \in Slots : T[t].vtable = c
      BY <2>3, <2>5 DEF Sound, Accounted
    <3>2. \A t \in Slots : Full(T, t) => T[t].vtable \in wrapped \ g.destroyed
      BY <1>2, <2>3, <2>5 DEF Sound, Accounted, InPlace
    <3>3. g.destroyed \subseteq wrapped
      BY <1>2, <2>3 DEF Sound, Accounted
    <3> QED BY <3>1, <3>2, <3>3 DEF Accounted
  <2>9. NoBlockLost(task, heap) => NoBlockLost(T, g)
    BY <2>3, <2>5 DEF NoBlockLost, Where, Sound, Types
  <2>10. g.destroyed = heap.destroyed \cup ({task[s].vtable} \ {Null})
    BY <1>2, <2>3 DEF Full
  <2> QED BY <2>6, <2>7, <2>8, <2>9, <2>10 DEF Sound, T, g
<1> QED BY <1>1, <1>2

\* Moving the callable of an inline Task: it is in the other storage, and the
\* husk it left is destroyed without the callable being counted as ended.
LEMMA RelocatedFields ==
  ASSUME NEW h \in Heaps, NEW s \in Slots, NEW other \in Slots, s # other,
         h.object[s] = "raw", h.object[other] \in Callables, ~h.misused
  PROVE  LET g == Destroy(MoveTo(h, other, s), other)
         IN  /\ g \in Heaps
             /\ g.object = [h.object EXCEPT ![s] = h.object[other], ![other] = "raw"]
             /\ g.allocated = h.allocated /\ g.destroyed = h.destroyed
             /\ ~g.misused
<1> DEFINE m == MoveTo(h, other, s)
           g == Destroy(m, other)
<1>1. h.object \in [Places -> Objects] /\ s \in Places /\ other \in Places
  BY DEF Heaps, Places
<1>2. /\ m \in Heaps
      /\ m.object = [h.object EXCEPT ![s] = h.object[other], ![other] = "husk"]
  BY <1>1 DEF MoveTo, Heaps, Objects
<1>3. m.allocated = h.allocated /\ m.destroyed = h.destroyed
  BY DEF MoveTo, Heaps
<1>4. ~m.misused
  BY DEF MoveTo, Heaps
<1>5. m.object[other] = "husk"
  BY <1>1, <1>2
<1> HIDE DEF m
<1>6. /\ g \in Heaps /\ g.object = [m.object EXCEPT ![other] = "raw"]
      /\ g.allocated = m.allocated
      /\ g.destroyed = m.destroyed \cup ({m.object[other]} \ {"raw", "husk"})
      /\ (g.misused <=> m.misused \/ m.object[other] = "raw")
  BY <1>1, <1>2, DestroyFields
<1> HIDE DEF g
<1>7. g.object = [h.object EXCEPT ![s] = h.object[other], ![other] = "raw"]
  BY <1>1, <1>2, <1>6
<1>8. g.destroyed = h.destroyed /\ ~g.misused
  BY <1>3, <1>4, <1>5, <1>6
<1> QED BY <1>3, <1>6, <1>7, <1>8 DEF g, m

\* A Task takes over what another one holds: everything stays where its owner
\* looks, and nothing ends.
LEMMA TakeSound ==
  ASSUME NEW T, NEW h, NEW w, Sound(T, h, w),
         NEW s \in Slots, NEW other \in Slots, s # other, T[s] = Empty
  PROVE  LET U == [T EXCEPT ![s] = T[other], ![other] = Empty]
             g == IF ~Full(T, other) \/ T[other].isHeap THEN h
                  ELSE Destroy(MoveTo(h, other, s), other)
         IN  /\ Sound(U, g, w)
             /\ g.destroyed = h.destroyed
             /\ NoBlockLost(T, h) => NoBlockLost(U, g)
<1> DEFINE U == [T EXCEPT ![s] = T[other], ![other] = Empty]
           g == IF ~Full(T, other) \/ T[other].isHeap THEN h
                ELSE Destroy(MoveTo(h, other, s), other)
           moved == Full(T, other) /\ ~T[other].isHeap
<1>1. /\ U \in [Slots -> Members] /\ U[s] = T[other] /\ U[other] = Empty
      /\ \A t \in Slots \ {s, other} : U[t] = T[t]
  BY DEF Sound, Types, Members, Empty
<1>2. ~Full(T, s) /\ h.object[s] = "raw" /\ ~T[s].isHeap /\ s \in Places /\ other \in Places
  BY Apart DEF Empty, Full, Places
<1>3. h \in Heaps /\ h.object \in [Places -> Objects] /\ ~h.misused
  BY DEF Sound, Types, InPlace, Heaps
<1>4. moved => h.object[other] = T[other].vtable /\ T[other].vtable \in Callables
  BY Apart DEF Sound, InPlace, Where
<1>5. /\ g \in Heaps /\ g.allocated = h.allocated /\ g.destroyed = h.destroyed /\ ~g.misused
      /\ g.object = IF moved THEN [h.object EXCEPT ![s] = T[other].vtable, ![other] = "raw"]
                    ELSE h.object
  <2>1. CASE moved
    BY <1>2, <1>3, <1>4, <2>1, RelocatedFields
  <2>2. CASE ~moved
    BY <1>3, <2>2
  <2> QED BY <2>1, <2>2
<1> HIDE DEF U, g
<1>6. /\ Full(U, s) <=> Full(T, other)
      /\ ~Full(U, other) /\ ~U[other].isHeap
      /\ \A t \in Slots \ {s, other} : (Full(U, t) <=> Full(T, t)) /\ Where(U, t) = Where(T, t)
      /\ Where(U, s) = IF T[other].isHeap THEN Where(T, other) ELSE s
  BY <1>1 DEF Full, Where, Empty
<1>7. Types(U, g, w)
  <2>1. \A t \in Slots : ~Full(U, t) => U[t] = Empty
    BY <1>1, <1>6 DEF Sound, Types
  <2>2. \A t \in Slots : U[t].isHeap => U[t].heapPtr \in Blocks
    BY <1>1, <1>6 DEF Sound, Types
  <2>3. \A b \in Blocks : g.object[b] # "raw" => b \in g.allocated
    BY <1>3, <1>5 DEF Sound, Types, Places
  <2> QED BY <1>1, <1>5, <2>1, <2>2, <2>3 DEF Sound, Types
<1>8. InPlace(U, g)
  <2>1. ASSUME NEW t \in Slots, Full(U, t) PROVE g.object[Where(U, t)] = U[t].vtable
    <3>1. CASE t = s
      BY <1>1, <1>2, <1>3, <1>5, <1>6, <2>1, <3>1 DEF Sound, InPlace, Where
    <3>2. CASE t # s
      <4>1. t # other /\ Full(T, t) /\ Where(T, t) # s /\ Where(T, t) \in Places
        BY <1>2, <1>6, <2>1, <3>2, Apart DEF Sound, InPlace
      <4>2. moved => Where(T, t) # other
        BY <4>1, Apart DEF Where
      <4> QED BY <1>1, <1>3, <1>5, <1>6, <3>2, <4>1, <4>2 DEF Sound, InPlace
    <3> QED BY <3>1, <3>2
  <2>2. \A t, u \in Slots : Full(U, t) /\ U[t].vtable = U[u].vtable => t = u
    BY <1>1, <1>6 DEF Sound, InPlace, Full
  <2>3. ASSUME NEW q \in Places, g.object[q] # "raw"
        PROVE  \E t \in Slots : Full(U, t) /\ Where(U, t) = q
    <3>1. CASE q = s /\ moved
      BY <1>6, <3>1
    <3>2. CASE q # s \/ ~moved
      <4>1. h.object[q] # "raw"
        BY <1>3, <1>5, <2>3, <3>2
      <4>2. PICK t \in Slots : Full(T, t) /\ Where(T, t) = q
        BY <4>1 DEF Sound, InPlace
      <4>3. CASE t = other
        <5>1. ~moved
          BY <1>2, <1>3, <1>5, <2>3, <3>2, <4>2, <4>3 DEF Where
        <5> QED BY <1>6, <4>2, <4>3, <5>1
      <4>4. CASE t # other
        BY <1>2, <1>6, <4>2, <4>4
      <4> QED BY <4>3, <4>4
    <3> QED BY <3>1, <3>2
  <2> QED BY <1>5, <2>1, <2>2, <2>3 DEF InPlace
<1>9. Accounted(U, g, w)
  <2>1. \A c \in w : c \in g.destroyed \/ \E t \in Slots : U[t].vtable = c
    <3>1. Null \notin w
      BY NullAssumption DEF Sound, Types
    <3>2. T[s].vtable = Null
      BY DEF Empty
    <3> QED BY <1>1, <1>5, <3>1, <3>2 DEF Sound, Accounted
  <2>2. \A t \in Slots : Full(U, t) => U[t].vtable \in w \ g.destroyed
    BY <1>1, <1>5, <1>6 DEF Sound, Accounted, Full
  <2> QED BY <1>5, <2>1, <2>2 DEF Sound, Accounted
<1>10. NoBlockLost(T, h) => NoBlockLost(U, g)
  BY <1>1, <1>2, <1>5 DEF NoBlockLost
<1> QED BY <1>5, <1>7, <1>8, <1>9, <1>10 DEF Sound, U, g

\* A callable is built in raw memory, the Task's own or a fresh block.
LEMMA WrapSound ==
  ASSUME NEW T, NEW h, NEW w, Sound(T, h, w), NEW s \in Slots, T[s] = Empty,
         NEW c \in Callables \ w, NEW m \in Members, m.vtable = c,
         m.isHeap => m.heapPtr \in Blocks \ h.allocated,
         NEW g \in Heaps,
         g.object = [h.object EXCEPT ![IF m.isHeap THEN m.heapPtr ELSE s] = c],
         g.allocated = h.allocated \cup (IF m.isHeap THEN {m.heapPtr} ELSE {}),
         g.destroyed = h.destroyed, ~g.misused
  PROVE  LET U == [T EXCEPT ![s] = m]
         IN  Sound(U, g, w \cup {c}) /\ (NoBlockLost(T, h) => NoBlockLost(U, g))
<1> DEFINE U == [T EXCEPT ![s] = m]
           p == IF m.isHeap THEN m.heapPtr ELSE s
<1>1. /\ U \in [Slots -> Members] /\ U[s] = m
      /\ \A t \in Slots \ {s} : U[t] = T[t]
  BY DEF Sound, Types
<1>2. ~Full(T, s) /\ h.object[s] = "raw" /\ ~T[s].isHeap /\ s \in Places
  BY Apart DEF Empty, Full, Places
<1>3. h.object \in [Places -> Objects] /\ p \in Places /\ h.object[p] = "raw" /\ c # "raw"
  BY <1>2 DEF Sound, Types, Heaps, Places
<1>4. g.object = [h.object EXCEPT ![p] = c]
  OBVIOUS
<1> HIDE DEF U
<1>5. /\ Full(U, s) /\ Where(U, s) = p
      /\ \A t \in Slots \ {s} : (Full(U, t) <=> Full(T, t)) /\ Where(U, t) = Where(T, t)
  BY <1>1, NullAssumption DEF Full, Where
<1> HIDE DEF p
<1>6. Types(U, g, w \cup {c})
  <2>1. \A t \in Slots : ~Full(U, t) => U[t] = Empty
    BY <1>1, <1>5 DEF Sound, Types
  <2>2. \A t \in Slots : U[t].isHeap => U[t].heapPtr \in Blocks
    BY <1>1 DEF Sound, Types
  <2>3. \A b \in Blocks : g.object[b] # "raw" => b \in g.allocated
    BY <1>2, <1>3 DEF Sound, Types, Places
  <2> QED BY <1>1, <2>1, <2>2, <2>3 DEF Sound, Types
<1>7. InPlace(U, g)
  <2>1. ASSUME NEW t \in Slots, Full(U, t) PROVE g.object[Where(U, t)] = U[t].vtable
    <3>1. CASE t = s
      BY <1>1, <1>3, <1>4, <1>5, <3>1
    <3>2. CASE t # s
      <4>1. /\ Full(T, t) /\ Where(U, t) = Where(T, t) /\ U[t] = T[t]
            /\ Where(T, t) \in Places
        BY <1>1, <1>5, <2>1, <3>2, Apart
      <4>2. h.object[Where(T, t)] = T[t].vtable /\ T[t].vtable # "raw"
        BY <4>1, Apart DEF Sound, InPlace
      <4> QED BY <1>3, <1>4, <4>1, <4>2
    <3> QED BY <3>1, <3>2
  <2>2. \A t, u \in Slots : Full(U, t) /\ U[t].vtable = U[u].vtable => t = u
    BY <1>1, <1>5 DEF Sound, InPlace, Accounted, Full
  <2>3. ASSUME NEW q \in Places, g.object[q] # "raw"
        PROVE  \E t \in Slots : Full(U, t) /\ Where(U, t) = q
    <3>1. CASE q = p
      BY <1>5, <3>1
    <3>2. CASE q # p
      <4>1. PICK t \in Slots : Full(T, t) /\ Where(T, t) = q
        BY <1>3, <1>4, <2>3, <3>2 DEF Sound, InPlace
      <4> QED BY <1>2, <1>5, <4>1
    <3> QED BY <3>1, <3>2
  <2> QED BY <2>1, <2>2, <2>3 DEF InPlace
<1>8. Accounted(U, g, w \cup {c})
  <2>1. \A d \in w \cup {c} : d \in g.destroyed \/ \E t \in Slots : U[t].vtable = d
    <3>1. Null \notin w /\ T[s].vtable = Null
      BY NullAssumption DEF Sound, Types, Empty
    <3> QED BY <1>1, <3>1 DEF Sound, Accounted
  <2>2. \A t \in Slots : Full(U, t) => U[t].vtable \in (w \cup {c}) \ g.destroyed
    BY <1>1, <1>5 DEF Sound, Accounted, Full
  <2> QED BY <2>1, <2>2 DEF Sound, Accounted
<1>9. NoBlockLost(T, h) => NoBlockLost(U, g)
  BY <1>1, <1>2 DEF NoBlockLost
<1> QED BY <1>6, <1>7, <1>8, <1>9 DEF Sound, U

LEMMA InitInv == Init => IInv /\ Contained
<1> SUFFICES ASSUME Init PROVE IInv /\ Contained
  OBVIOUS
<1> USE DEF Init
<1>1. /\ task \in [Slots -> Members] /\ \A s \in Slots : task[s] = Empty /\ ~Full(task, s)
      /\ heap \in Heaps /\ \A p \in Places : heap.object[p] = "raw"
  BY DEF Members, Empty, Full, Heaps, Objects
<1>2. heap.allocated = {} /\ heap.destroyed = {} /\ ~heap.misused
  OBVIOUS
<1>3. \A s \in Slots : ~task[s].isHeap
  BY <1>1 DEF Empty
<1>4. Types(task, heap, wrapped)
  BY <1>1, <1>3 DEF Types, Places
<1>5. InPlace(task, heap) /\ Accounted(task, heap, wrapped)
  BY <1>1, <1>2 DEF InPlace, Accounted
<1> QED BY <1>1, <1>2, <1>4, <1>5 DEF IInv, Contained, Sound, Outside, NoBlockLost

----------------------------------------------------------------------------
\* The steps: what each operation does to the invariant, and which callables
\* end in it.
Kept == IInv' /\ (NoBlockLost(task, heap) => NoBlockLost(task, heap)')

LEMMA WrapInlineStep ==
  ASSUME IInv, NEW s \in Slots, NEW c \in Callables, WrapInline(s, c)
  PROVE  Kept /\ heap'.destroyed = heap.destroyed
<1> DEFINE m == [Empty EXCEPT !.vtable = c]
<1>1. Sound(task, heap, wrapped) /\ task[s] = Empty /\ c \in Callables \ wrapped
  BY DEF IInv, WrapInline, Outside
<1>2. m \in Members /\ m.vtable = c /\ ~m.isHeap
  BY DEF Members, Empty
<1>3. heap \in Heaps /\ heap.object[s] = "raw" /\ ~heap.misused /\ s \in Places
  <2>1. ~Full(task, s)
    BY <1>1 DEF Full, Empty
  <2>2. heap.object[s] = "raw"
    BY <1>1, <2>1, Apart
  <2> QED BY <1>1, <2>2 DEF Sound, Types, InPlace, Places
<1>4. /\ heap' \in Heaps /\ heap'.object = [heap.object EXCEPT ![s] = c]
      /\ heap'.allocated = heap.allocated /\ heap'.destroyed = heap.destroyed /\ ~heap'.misused
  BY <1>3 DEF WrapInline, Heaps, Objects
<1>5. task' = [task EXCEPT ![s] = m] /\ wrapped' = wrapped \cup {c}
  BY DEF WrapInline
<1> HIDE DEF m
<1>6. /\ Sound(task', heap', wrapped')
      /\ (NoBlockLost(task, heap) => NoBlockLost(task', heap'))
  BY <1>1, <1>2, <1>4, <1>5, WrapSound
<1>7. Outside' /\ alive' \subseteq Slots /\ called' = called
  BY <1>5 DEF Outside, IInv, WrapInline
<1> QED BY <1>4, <1>6, <1>7 DEF Kept, IInv, Sound, Types, InPlace, Accounted, NoBlockLost

LEMMA WrapOnHeapStep ==
  ASSUME IInv, NEW s \in Slots, NEW c \in Callables, WrapOnHeap(s, c)
  PROVE  Kept /\ heap'.destroyed = heap.destroyed
<1>1. Sound(task, heap, wrapped) /\ task[s] = Empty /\ c \in Callables \ wrapped
  BY DEF IInv, WrapOnHeap, Outside
<1>2. PICK b \in Blocks \ heap.allocated :
        /\ task' = [task EXCEPT ![s] = [vtable |-> c, isHeap |-> TRUE, heapPtr |-> b]]
        /\ heap' = [heap EXCEPT !.object[b] = c, !.allocated = @ \cup {b}]
  BY DEF WrapOnHeap
<1> DEFINE m == [vtable |-> c, isHeap |-> TRUE, heapPtr |-> b]
<1>3. m \in Members /\ m.vtable = c /\ m.isHeap /\ m.heapPtr = b
  BY DEF Members
<1>4. heap \in Heaps /\ ~heap.misused /\ b \in Places
  BY <1>1 DEF Sound, Types, InPlace, Places
<1>5. /\ heap' \in Heaps /\ heap'.object = [heap.object EXCEPT ![b] = c]
      /\ heap'.allocated = heap.allocated \cup {b} /\ heap'.destroyed = heap.destroyed
      /\ ~heap'.misused
  BY <1>2, <1>4 DEF Heaps, Objects
<1>6. wrapped' = wrapped \cup {c}
  BY DEF WrapOnHeap
<1>7. task' = [task EXCEPT ![s] = m]
  BY <1>2
<1> HIDE DEF m
<1>8. /\ Sound(task', heap', wrapped')
      /\ (NoBlockLost(task, heap) => NoBlockLost(task', heap'))
  <2>1. /\ m.heapPtr \in Blocks \ heap.allocated
        /\ heap'.object = [heap.object EXCEPT ![IF m.isHeap THEN m.heapPtr ELSE s] = c]
        /\ heap'.allocated = heap.allocated \cup (IF m.isHeap THEN {m.heapPtr} ELSE {})
    BY <1>2, <1>3, <1>5
  <2> QED BY <1>1, <1>3, <1>5, <1>6, <1>7, <2>1, WrapSound
<1>9. Outside' /\ alive' \subseteq Slots /\ called' = called
  BY <1>7 DEF Outside, IInv, WrapOnHeap
<1> QED BY <1>5, <1>8, <1>9 DEF Kept, IInv, Sound, Types, InPlace, Accounted, NoBlockLost

LEMMA WrapThrowsStep ==
  ASSUME IInv, NEW s \in Slots, NEW c \in Callables, WrapThrows(s, c)
  PROVE  /\ IInv' /\ heap'.destroyed = heap.destroyed \cup {c} /\ c \notin wrapped
         /\ c \in InlineTypes /\ NoBlockLost(task, heap) => NoBlockLost(task, heap)'
<1>1. Sound(task, heap, wrapped) /\ c \in Callables \ wrapped
  BY DEF IInv, WrapThrows
<1>2. PICK lost \in SUBSET Blocks :
        /\ heap' = [heap EXCEPT !.allocated = @ \cup lost, !.destroyed = @ \cup {c}]
        /\ c \in InlineTypes => lost = {}
  <2>1. PICK lost \in IF c \in InlineTypes THEN {{}} ELSE {{b} : b \in Blocks \ heap.allocated} :
          heap' = [heap EXCEPT !.allocated = @ \cup lost, !.destroyed = @ \cup {c}]
    BY DEF WrapThrows
  <2>2. lost \in SUBSET Blocks /\ (c \in InlineTypes => lost = {})
    OBVIOUS
  <2> QED BY <2>1, <2>2
<1>3. /\ heap' \in Heaps /\ heap'.object = heap.object
      /\ heap'.allocated = heap.allocated \cup lost
      /\ heap'.destroyed = heap.destroyed \cup {c} /\ ~heap'.misused
  BY <1>1, <1>2 DEF Sound, Types, InPlace, Heaps
<1>4. wrapped' = wrapped \cup {c} /\ UNCHANGED <<alive, task, called>>
  BY DEF WrapThrows
<1>5. Types(task, heap', wrapped') /\ InPlace(task, heap')
  BY <1>1, <1>3, <1>4 DEF Sound, Types, InPlace
<1>6. Accounted(task, heap', wrapped')
  BY <1>1, <1>3, <1>4 DEF Sound, Accounted
<1>7. c \in InlineTypes /\ NoBlockLost(task, heap) => NoBlockLost(task, heap')
  BY <1>2, <1>3 DEF NoBlockLost
<1> QED BY <1>1, <1>3, <1>4, <1>5, <1>6, <1>7
        DEF IInv, Outside, Sound, Types, InPlace, Accounted, NoBlockLost

LEMMA MoveConstructStep ==
  ASSUME IInv, NEW s \in Slots, NEW other \in Slots, MoveConstruct(s, other)
  PROVE  Kept /\ heap'.destroyed = heap.destroyed
<1> DEFINE U == [task EXCEPT ![s] = task[other], ![other] = Empty]
           g == IF ~Full(task, other) \/ task[other].isHeap THEN heap
                ELSE Destroy(MoveTo(heap, other, s), other)
<1>1. Sound(task, heap, wrapped) /\ task[s] = Empty /\ s # other
  BY DEF IInv, MoveConstruct, Outside
<1>2. task' = U /\ heap' = g
  BY DEF MoveConstruct, TakeOver, Relocated, Full
<1>3. /\ Sound(task', heap', wrapped) /\ heap'.destroyed = heap.destroyed
      /\ (NoBlockLost(task, heap) => NoBlockLost(task', heap'))
  <2>1. /\ Sound(U, g, wrapped) /\ g.destroyed = heap.destroyed
        /\ (NoBlockLost(task, heap) => NoBlockLost(U, g))
    BY <1>1, TakeSound
  <2> HIDE DEF U, g
  <2> QED BY <1>2, <2>1
<1>4. /\ Outside' /\ alive' \subseteq Slots /\ called' = called /\ wrapped' = wrapped
  BY <1>1, <1>2 DEF IInv, Outside, MoveConstruct, Sound, Types
<1> QED BY <1>3, <1>4 DEF Kept, IInv, Sound, Types, InPlace, Accounted, NoBlockLost

LEMMA MoveAssignStep ==
  ASSUME IInv, NEW s \in Slots, NEW other \in Slots, MoveAssign(s, other)
  PROVE  Kept /\ heap'.destroyed = heap.destroyed \cup ({task[s].vtable} \ {Null})
<1> DEFINE T == [task EXCEPT ![s] = Empty]
           h == Reset(heap, s)
<1>1. Sound(task, heap, wrapped) /\ s # other /\ task \in [Slots -> Members]
  BY DEF IInv, MoveAssign, Sound, Types
<1>2. /\ Sound(T, h, wrapped)
      /\ h.destroyed = heap.destroyed \cup ({task[s].vtable} \ {Null})
      /\ NoBlockLost(task, heap) => NoBlockLost(T, h)
  BY <1>1, ResetSound
<1>3. T[s] = Empty /\ T[other] = task[other]
  BY <1>1
<1> DEFINE U == [T EXCEPT ![s] = T[other], ![other] = Empty]
           g == IF ~Full(T, other) \/ T[other].isHeap THEN h
                ELSE Destroy(MoveTo(h, other, s), other)
<1>4. task' = [task EXCEPT ![s] = task[other], ![other] = Empty] /\ task' = U
  BY <1>1 DEF MoveAssign, TakeOver
<1>5. heap' = g
  BY <1>3 DEF MoveAssign, Relocated, Full
<1> HIDE DEF T, h
<1>6. /\ Sound(task', heap', wrapped) /\ heap'.destroyed = h.destroyed
      /\ (NoBlockLost(T, h) => NoBlockLost(task', heap'))
  <2>1. /\ Sound(U, g, wrapped) /\ g.destroyed = h.destroyed
        /\ (NoBlockLost(T, h) => NoBlockLost(U, g))
    BY <1>1, <1>2, <1>3, TakeSound
  <2> HIDE DEF U, g
  <2> QED BY <1>4, <1>5, <2>1
<1>7. /\ Outside' /\ alive' \subseteq Slots /\ called' = called /\ wrapped' = wrapped
  BY <1>1, <1>4 DEF IInv, Outside, MoveAssign
<1> QED BY <1>2, <1>6, <1>7 DEF Kept, IInv, Sound, Types, InPlace, Accounted, NoBlockLost

LEMMA DestructStep ==
  ASSUME IInv, NEW s \in Slots, Destruct(s)
  PROVE  Kept /\ heap'.destroyed = heap.destroyed \cup ({task[s].vtable} \ {Null})
<1>1. Sound(task, heap, wrapped)
  BY DEF IInv
<1>2. task' = [task EXCEPT ![s] = Empty] /\ heap' = Reset(heap, s) /\ wrapped' = wrapped
  BY DEF Destruct
<1>3. /\ Sound(task', heap', wrapped)
      /\ heap'.destroyed = heap.destroyed \cup ({task[s].vtable} \ {Null})
      /\ (NoBlockLost(task, heap) => NoBlockLost(task', heap'))
  BY <1>1, <1>2, ResetSound
<1>4. Outside' /\ alive' \subseteq Slots /\ called' = called
  BY <1>1, <1>2 DEF IInv, Outside, Destruct, Sound, Types
<1> QED BY <1>2, <1>3, <1>4 DEF Kept, IInv, Sound, Types, InPlace, Accounted, NoBlockLost

\* A Task that is invoked finds its callable.
LEMMA Found ==
  ASSUME IInv, NEW s \in Slots
  PROVE  Holding(s) = task[s].vtable
<1>1. CASE ~Full(task, s) \/ s \notin alive
  BY <1>1 DEF Holding, Full, IInv, Outside, Empty
<1>2. CASE Full(task, s) /\ s \in alive
  BY <1>2 DEF Holding, Full, IInv, Sound, InPlace, Where, target
<1> QED BY <1>1, <1>2

\* The other operations touch neither the members nor the memory.
LEMMA QuietStep ==
  ASSUME IInv, NEW s \in Slots, Construct(s) \/ SelfAssign(s) \/ Invoke(s)
  PROVE  Kept /\ UNCHANGED <<task, heap, wrapped>>
<1>1. UNCHANGED <<task, heap, wrapped>>
  BY DEF Construct, SelfAssign, Invoke, vars
<1>2. alive' \subseteq Slots /\ alive \subseteq alive'
  BY DEF Construct, SelfAssign, Invoke, vars, IInv
<1>3. called' \in Callables \cup {Null}
  <2>1. CASE Invoke(s)
    <3>1. called' = Holding(s)
      BY <2>1 DEF Invoke, Holding
    <3> QED BY <3>1, Found DEF IInv, Sound, Types, Members
  <2>2. CASE Construct(s) \/ SelfAssign(s)
    BY <2>2 DEF Construct, SelfAssign, vars, IInv
  <2> QED BY <2>1, <2>2
<1>4. Outside'
  BY <1>1, <1>2 DEF IInv, Outside
<1> QED BY <1>1, <1>2, <1>3, <1>4
        DEF Kept, IInv, Sound, Types, InPlace, Accounted, NoBlockLost

LEMMA StepInv == IInv /\ Contained /\ [Next]_vars => IInv' /\ Contained'
<1> SUFFICES ASSUME IInv, Contained, [Next]_vars PROVE IInv' /\ Contained'
  OBVIOUS
<1>1. ASSUME NEW s \in Slots, NEW c \in Callables,
             WrapInline(s, c) \/ WrapOnHeap(s, c) \/ WrapThrows(s, c)
      PROVE  IInv' /\ Contained'
  <2>1. CASE WrapInline(s, c) \/ WrapOnHeap(s, c)
    BY <2>1, WrapInlineStep, WrapOnHeapStep DEF Kept, Contained
  <2>2. CASE WrapThrows(s, c)
    <3>1. MayThrow \subseteq InlineTypes => c \in InlineTypes
      BY <2>2 DEF WrapThrows
    <3> QED BY <2>2, <3>1, WrapThrowsStep DEF Contained
  <2> QED BY <1>1, <2>1, <2>2
<1>2. ASSUME NEW s \in Slots, NEW other \in Slots,
             MoveConstruct(s, other) \/ MoveAssign(s, other)
      PROVE  IInv' /\ Contained'
  BY <1>2, MoveConstructStep, MoveAssignStep DEF Kept, Contained
<1>3. ASSUME NEW s \in Slots, Construct(s) \/ SelfAssign(s) \/ Destruct(s) \/ Invoke(s)
      PROVE  IInv' /\ Contained'
  BY <1>3, DestructStep, QuietStep DEF Kept, Contained
<1>4. CASE UNCHANGED vars
  BY <1>4 DEF vars, IInv, Contained, Outside, Sound, Types, InPlace, Accounted, NoBlockLost
<1> QED BY <1>1, <1>2, <1>3, <1>4 DEF Next

LEMMA Invariant == Spec => [](IInv /\ Contained)
<1> QED BY InitInv, StepInv, PTL DEF Spec

----------------------------------------------------------------------------
\* Every variable of a Task has its type, and memory that holds an object is
\* allocated (Task's TypeOK).
THEOREM TypeCorrect == Spec => []TypeOK
<1>1. IInv => TypeOK
  BY DEF IInv, Sound, Types, Members, TypeOK
<1> QED BY <1>1, Invariant, PTL

\* A callable that was wrapped is in exactly one Task, where that Task looks
\* for it, until it is destroyed once; no operation of a vtable finds memory
\* that is not as it expects (HeldByOneTask).  Whatever constructors throw.
LEMMA OneHolder == IInv => HeldByOneTask
<1> SUFFICES ASSUME IInv PROVE HeldByOneTask
  OBVIOUS
<1>1. Sound(task, heap, wrapped) /\ \A s \in Slots : Full(task, s) => s \in alive
  BY DEF IInv, Outside, Full, Empty
<1>2. ASSUME NEW c \in wrapped
      PROVE  Cardinality(Holders(c)) = IF c \in heap.destroyed THEN 0 ELSE 1
  <2>1. c # Null /\ alive \subseteq Slots
    BY NullAssumption, <1>1 DEF Sound, Types, IInv
  <2>2. CASE c \in heap.destroyed
    <3>1. Holders(c) = {}
      BY <1>1, <2>1, <2>2 DEF Holders, Sound, Accounted, Full
    <3> QED BY <2>2, <3>1, FS_EmptySet
  <2>3. CASE c \notin heap.destroyed
    <3>1. PICK s \in Slots : task[s].vtable = c
      BY <1>1, <2>3 DEF Sound, Accounted
    <3>2. Holders(c) = {s}
      BY <1>1, <2>1, <3>1 DEF Holders, Sound, InPlace, Full
    <3> QED BY <2>3, <3>2, FS_Singleton
  <2> QED BY <2>2, <2>3
<1>3. ASSUME NEW p \in Places, heap.object[p] # "raw"
      PROVE  \E s \in alive : target(s) = p /\ task[s].vtable = heap.object[p]
  <2>1. PICK s \in Slots : Full(task, s) /\ Where(task, s) = p
    BY <1>1, <1>3 DEF Sound, InPlace
  <2> QED BY <1>1, <2>1 DEF Sound, InPlace, target, Where
<1> QED BY <1>1, <1>2, <1>3 DEF HeldByOneTask, Sound, InPlace

THEOREM HeldOnce == Spec => []HeldByOneTask
<1> QED BY OneHolder, Invariant, PTL

LEMMA OneOwner == IInv /\ NoBlockLost(task, heap) => BlocksOwned
<1> SUFFICES ASSUME IInv, NoBlockLost(task, heap), NEW b \in Blocks
             PROVE  Cardinality({s \in alive : task[s].isHeap /\ task[s].heapPtr = b})
                    = IF b \in heap.allocated THEN 1 ELSE 0
  BY DEF BlocksOwned
<1> DEFINE Owners == {s \in alive : task[s].isHeap /\ task[s].heapPtr = b}
<1>1. Sound(task, heap, wrapped) /\ alive \subseteq Slots
  BY DEF IInv
<1>2. \A s \in Slots : task[s].isHeap => Full(task, s) /\ s \in alive
  BY <1>1 DEF IInv, Outside, Sound, Types, Empty
<1>3. CASE b \in heap.allocated
  <2>1. PICK s \in Slots : task[s].isHeap /\ task[s].heapPtr = b
    BY <1>3 DEF NoBlockLost
  <2>2. \A t \in Slots : task[t].isHeap /\ task[t].heapPtr = b => t = s
    BY <1>1, <1>2, <2>1, Apart DEF Where
  <2>3. Owners = {s}
    BY <1>1, <1>2, <2>1, <2>2
  <2> QED BY <1>3, <2>3, FS_Singleton
<1>4. CASE b \notin heap.allocated
  <2>1. heap.object[b] = "raw"
    BY <1>1, <1>4 DEF Sound, Types
  <2>2. \A s \in Slots : ~(task[s].isHeap /\ task[s].heapPtr = b)
    BY <1>1, <1>2, <2>1, Apart DEF Where, Sound, InPlace
  <2>3. Owners = {}
    BY <1>1, <2>2
  <2> QED BY <1>4, <2>3, FS_EmptySet
<1> QED BY <1>3, <1>4

\* A callable and the storage it needs have one owner from the Task that
\* wrapped it to the Task that destroys it (CallablesOwned), unless a
\* constructor throws in a heap block: WrapThrows loses that block.
THEOREM CallablesKept == MayThrow \subseteq InlineTypes => (Spec => []CallablesOwned)
<1> SUFFICES ASSUME MayThrow \subseteq InlineTypes PROVE Spec => []CallablesOwned
  OBVIOUS
<1>1. IInv /\ Contained => CallablesOwned
  BY OneHolder, OneOwner DEF Contained, CallablesOwned
<1> QED BY <1>1, Invariant, PTL

----------------------------------------------------------------------------
\* The refinement: what a box holds is what the vtable of its Task says.
Held == [s \in Slots |-> task[s].vtable]

LEMMA Mapping == IInv => [s \in Slots |-> Holding(s)] = Held
<1> QED BY Found DEF Held

LEMMA InitRefines == Init => Box!Init
<1> SUFFICES ASSUME Init PROVE Box!Init
  OBVIOUS
<1>1. [s \in Slots |-> Holding(s)] = [s \in Slots |-> Null]
  BY DEF Init, Holding
<1> QED BY <1>1 DEF Init, Box!Init

\* A callable that no Task wrapped has not ended and is in no box.
LEMMA FreshRefines ==
  ASSUME IInv, NEW c \in Callables \ wrapped
  PROVE  Box!Fresh(c)
<1>1. c \notin heap.destroyed /\ \A s \in Slots : task[s].vtable # c
  BY NullAssumption DEF IInv, Sound, Accounted, Full
<1>2. [s \in Slots |-> Holding(s)] = Held
  BY Mapping
<1> HIDE DEF Held
<1> QED BY <1>1, <1>2 DEF Box!Fresh, Held

LEMMA StepRefines == IInv /\ IInv' /\ [Next]_vars => [Box!Next]_(Box!vars)
<1> SUFFICES ASSUME IInv, IInv', [Next]_vars PROVE [Box!Next]_(Box!vars)
  OBVIOUS
<1>1. [s \in Slots |-> Holding(s)] = Held
  BY Mapping
<1>2. ([s \in Slots |-> Holding(s)])' = Held'
  <2>1. (IInv => [s \in Slots |-> Holding(s)] = Held)'
    BY Mapping, PTL
  <2> QED BY <2>1
<1>3. task \in [Slots -> Members] /\ \A s \in Slots \ alive : task[s] = Empty
  BY DEF IInv, Outside, Sound, Types
<1>4. ASSUME NEW s \in Slots, NEW c \in Callables, WrapInline(s, c) \/ WrapOnHeap(s, c)
      PROVE  Box!Make(s)
  <2>1. Box!Fresh(c) /\ heap'.destroyed = heap.destroyed
    BY <1>4, FreshRefines, WrapInlineStep, WrapOnHeapStep DEF WrapInline, WrapOnHeap
  <2>2. Held' = [Held EXCEPT ![s] = c]
    <3>1. PICK m \in Members : m.vtable = c /\ task' = [task EXCEPT ![s] = m]
      <4>1. CASE WrapInline(s, c)
        <5>1. [Empty EXCEPT !.vtable = c] \in Members
          BY DEF Members, Empty
        <5>2. [Empty EXCEPT !.vtable = c].vtable = c
          BY DEF Empty
        <5> QED BY <4>1, <5>1, <5>2 DEF WrapInline
      <4>2. CASE WrapOnHeap(s, c)
        BY <4>2 DEF WrapOnHeap, Members
      <4> QED BY <1>4, <4>1, <4>2
    <3> QED BY <1>3, <3>1 DEF Held
  <2>3. s \notin alive /\ alive' = alive \cup {s} /\ called' = called
    BY <1>4 DEF WrapInline, WrapOnHeap
  <2> QED BY <1>1, <1>2, <2>1, <2>2, <2>3 DEF Box!Make
<1>5. ASSUME NEW s \in Slots, NEW c \in Callables, WrapThrows(s, c) PROVE Box!Spoil(c)
  <2>1. Box!Fresh(c)
    BY <1>5, WrapThrowsStep, FreshRefines
  <2>2. heap'.destroyed = heap.destroyed \cup {c}
    BY <1>5, WrapThrowsStep
  <2>3. Held' = Held /\ UNCHANGED <<alive, called>>
    BY <1>5 DEF WrapThrows, Held
  <2> QED BY <1>1, <1>2, <2>1, <2>2, <2>3 DEF Box!Spoil
<1>6. ASSUME NEW s \in Slots, NEW other \in Slots, MoveConstruct(s, other) \/ MoveAssign(s, other)
      PROVE  Box!Move(other, s)
  <2>1. /\ other \in alive /\ other # s /\ alive' = alive \cup {s} /\ called' = called
        /\ task' = [task EXCEPT ![s] = task[other], ![other] = Empty]
    BY <1>6 DEF MoveConstruct, MoveAssign, TakeOver
  <2>2. Held' = [Held EXCEPT ![s] = Held[other], ![other] = Null]
    BY <1>3, <2>1 DEF Held, Empty
  <2>3. heap'.destroyed = heap.destroyed \cup ({Held[s]} \ {Null})
    <3>1. CASE MoveConstruct(s, other)
      <4>1. task[s].vtable = Null
        BY <1>3, <3>1 DEF MoveConstruct, Empty
      <4> QED BY <3>1, <4>1, MoveConstructStep DEF Held
    <3>2. CASE MoveAssign(s, other)
      BY <3>2, MoveAssignStep DEF Held
    <3> QED BY <1>6, <3>1, <3>2
  <2> QED BY <1>1, <1>2, <2>1, <2>2, <2>3 DEF Box!Move
<1>7. ASSUME NEW s \in Slots, Destruct(s) PROVE Box!Drop(s)
  <2>1. Held' = [Held EXCEPT ![s] = Null]
    BY <1>3, <1>7 DEF Destruct, Held, Empty
  <2>2. heap'.destroyed = heap.destroyed \cup ({Held[s]} \ {Null})
    BY <1>7, DestructStep DEF Held
  <2> QED BY <1>1, <1>2, <1>7, <2>1, <2>2 DEF Box!Drop, Destruct
<1>8. ASSUME NEW s \in Slots, Construct(s) PROVE Box!Make(s)
  <2>1. Held' = [Held EXCEPT ![s] = Null] /\ heap' = heap /\ called' = called
    BY <1>3, <1>8 DEF Construct, Held, Empty
  <2> QED BY <1>1, <1>2, <1>8, <2>1 DEF Box!Make, Construct
<1>9. ASSUME NEW s \in Slots, Invoke(s) PROVE Box!Call(s)
  <2>1. called' = Held[s]
    BY <1>9, Found DEF Invoke, Holding, Held
  <2>2. Held' = Held
    BY <1>9 DEF Invoke, Held
  <2> QED BY <1>1, <1>2, <1>9, <2>1, <2>2 DEF Box!Call, Invoke
<1>10. ASSUME UNCHANGED vars PROVE UNCHANGED Box!vars
  BY <1>1, <1>2, <1>10 DEF Box!vars, vars, Held
<1>11. CASE \E s \in Slots, c \in Callables : WrapInline(s, c) \/ WrapOnHeap(s, c)
                                             \/ WrapThrows(s, c)
  BY <1>4, <1>5, <1>11 DEF Box!Next
<1>12. CASE \E s, other \in Slots : MoveConstruct(s, other) \/ MoveAssign(s, other)
  BY <1>6, <1>12 DEF Box!Next
<1>13. CASE \E s \in Slots : Construct(s) \/ SelfAssign(s) \/ Destruct(s) \/ Invoke(s)
  BY <1>7, <1>8, <1>9, <1>10, <1>13 DEF Box!Next, SelfAssign
<1> QED BY <1>10, <1>11, <1>12, <1>13 DEF Next

\* A Task behaves as a box that is empty or holds one callable, whether the
\* callable lives in it or on the heap, and whatever is moved over what.
THEOREM Refinement == Spec => ImplementsBox
<1> QED BY InitInv, StepInv, InitRefines, StepRefines, PTL DEF Spec, ImplementsBox, Box!Spec
=============================================================================
