------------------------- MODULE ResultFuture_proof -------------------------
(***************************************************************************)
(* Proofs about ResultFuture, for any number of clients, results and       *)
(* Futures: the two shares of a ResultState are exact, so that its memory  *)
(* is deleted once, under nobody, and by the last who owned it; and its    *)
(* result is there when it is taken, by the only one who can.              *)
(***************************************************************************)
EXTENDS ResultFuture, FiniteSetTheorems, TLAPS

\* The closure's share lasts from submit() to its release(); one that is
\* destroyed unrun keeps it, and one that could not be made leaves both behind.
ClosureShare(r) ==
    IF closure[r] = "unmade" THEN 2
    ELSE IF closure[r] \in {"queued", "run", "publish", "notify", "release", "discarded"}
         THEN 1 ELSE 0

\* The other share is a Future's or a call's; both are enqueue()'s before it
\* submits.
Submitting(r) == \E c \in Clients : subject[c] = r /\ client[c] \in {"copy", "submit"}
Consumed(r) ==
    (\E f \in Futures : state[f] = r) \/ (\E c \in Clients : subject[c] = r)
ConsumerShare(r) == IF Submitting(r) THEN 2 ELSE IF Consumed(r) THEN 1 ELSE 0

\* A call is about a state exactly while it lasts.
CallsHaveSubjects == \A c \in Clients : client[c] = "idle" <=> subject[c] = NoState

\* One pointer to a state besides the closure's.
OnePointer ==
    /\ \A f, g \in Futures : state[f] = state[g] /\ state[f] # NoState => f = g
    /\ \A c, d \in Clients : subject[c] = subject[d] /\ subject[c] # NoState => c = d
    /\ \A f \in Futures, c \in Clients : state[f] = subject[c] => state[f] = NoState

\* A state that does not exist yet is nobody's.
UnbornUnknown ==
    \A r \in Results : memory[r] = "unborn" =>
        closure[r] = "none" /\ ~Consumed(r)

\* The closure exists once submit() has returned, and not before.
ClosureExists ==
    /\ \A c \in Clients : subject[c] # NoState =>
           (closure[subject[c]] = "none" <=> client[c] \in {"copy", "submit", "rethrow"})
    /\ \A f \in Futures : state[f] # NoState => closure[state[f]] # "none"

SharesExact == \A r \in Results : refCount[r] = ClosureShare(r) + ConsumerShare(r)

DeletedByTheLast == \A r \in Results : memory[r] = "allocated" <=> refCount[r] # 0

IInv ==
    /\ TypeOK /\ CallsHaveSubjects /\ OnePointer /\ UnbornUnknown /\ ClosureExists
    /\ SharesExact /\ DeletedByTheLast

\* The initial states satisfy the invariant.
LEMMA InitIInv == Init => IInv
  <1> SUFFICES ASSUME Init PROVE IInv
    OBVIOUS
  <1> USE StatesAssumption DEF Init
  <1>1. TypeOK /\ CallsHaveSubjects /\ OnePointer
    BY DEF TypeOK, CallsHaveSubjects, OnePointer, NoState
  <1>2. \A r \in Results : ~Consumed(r) /\ ~Submitting(r) /\ ClosureShare(r) = 0
    BY DEF Consumed, Submitting, ClosureShare, NoState
  <1>3. UnbornUnknown /\ ClosureExists
    BY <1>2 DEF UnbornUnknown, ClosureExists, NoState
  <1>4. SharesExact
    BY <1>2 DEF SharesExact, ConsumerShare
  <1>5. DeletedByTheLast
    BY DEF DeletedByTheLast
  <1> QED
    BY <1>1, <1>3, <1>4, <1>5 DEF IInv

\* Steps of the closure: only its place in the program moves, and its share
\* goes with its release().
LEMMA RunKeepsIInv ==
    ASSUME IInv, NEW r \in Results, Run(r) \/ DiscardClosure(r)
    PROVE  IInv'
  <1> USE StatesAssumption DEF IInv, AtClosure
  <1>1. CASE RunClosure(r) \/ SetResult(r) \/ Publish(r) \/ DiscardClosure(r)
    <2> USE DEF RunClosure, SetResult, Publish, DiscardClosure, heapVars, callVars
    <2>1. TypeOK'
      BY <1>1 DEF TypeOK
    <2>2. \A q \in Results : /\ (closure'[q] = "none" <=> closure[q] = "none")
                             /\ ClosureShare(q)' = ClosureShare(q)
      BY <1>1 DEF TypeOK, ClosureShare
    <2>3. /\ UNCHANGED <<memory, refCount, state, client, subject>>
          /\ \A q \in Results : ConsumerShare(q)' = ConsumerShare(q)
          /\ \A q \in Results : Consumed(q)' = Consumed(q)
      BY <1>1 DEF ConsumerShare, Consumed, Submitting
    <2>4. (CallsHaveSubjects /\ OnePointer /\ UnbornUnknown)'
      BY <2>2, <2>3 DEF CallsHaveSubjects, OnePointer, UnbornUnknown
    <2>5. ClosureExists'
      BY <2>2, <2>3 DEF ClosureExists, TypeOK
    <2>6. (SharesExact /\ DeletedByTheLast)'
      BY <2>2, <2>3 DEF SharesExact, DeletedByTheLast
    <2> QED
      BY <2>1, <2>4, <2>5, <2>6
  <1>2. CASE NotifyReady(r)
    <2> USE DEF NotifyReady, heapVars, At
    <2>1. TypeOK'
      BY <1>2 DEF TypeOK
    <2>2. /\ UNCHANGED <<memory, refCount, state, subject>>
          /\ \A c \in Clients : /\ (client'[c] = "idle" <=> client[c] = "idle")
                                /\ (client'[c] \in {"copy", "submit"}
                                       <=> client[c] \in {"copy", "submit"})
                                /\ (client'[c] = "rethrow" <=> client[c] = "rethrow")
      BY <1>2
    <2>3. \A q \in Results : /\ (closure'[q] = "none" <=> closure[q] = "none")
                             /\ ClosureShare(q)' = ClosureShare(q)
      BY <1>2 DEF TypeOK, ClosureShare
    <2>4. \A q \in Results : /\ ConsumerShare(q)' = ConsumerShare(q)
                             /\ Consumed(q)' = Consumed(q)
      BY <2>2 DEF ConsumerShare, Consumed, Submitting
    <2>5. (CallsHaveSubjects /\ OnePointer /\ UnbornUnknown)'
      BY <2>2, <2>3, <2>4 DEF CallsHaveSubjects, OnePointer, UnbornUnknown
    <2>6. ClosureExists'
      BY <2>2, <2>3 DEF ClosureExists, TypeOK
    <2>7. (SharesExact /\ DeletedByTheLast)'
      BY <2>2, <2>3, <2>4 DEF SharesExact, DeletedByTheLast
    <2> QED
      BY <2>1, <2>5, <2>6, <2>7
  <1>3. CASE ReleaseClosure(r)
    <2> USE DEF ReleaseClosure, callVars, Release
    <2>0. r # NoState /\ closure[r] = "release"
      BY <1>3
    <2>1. refCount[r] \in 1..2 /\ memory[r] = "allocated"
      BY <2>0 DEF SharesExact, DeletedByTheLast, ClosureShare, ConsumerShare, TypeOK
    <2>2. TypeOK'
      BY <1>3, <2>0, <2>1 DEF TypeOK
    <2>3. \A q \in Results : /\ (closure'[q] = "none" <=> closure[q] = "none")
                             /\ ClosureShare(q)' = ClosureShare(q) - (IF q = r THEN 1 ELSE 0)
                             /\ refCount'[q] = refCount[q] - (IF q = r THEN 1 ELSE 0)
                             /\ ClosureShare(q) \in 0..2
      BY <1>3, <2>0 DEF TypeOK, ClosureShare
    <2>4. /\ UNCHANGED <<state, client, subject>>
          /\ \A q \in Results : ConsumerShare(q)' = ConsumerShare(q)
          /\ \A q \in Results : Consumed(q)' = Consumed(q)
          /\ \A q \in Results : ConsumerShare(q) \in 0..2
      BY <1>3 DEF ConsumerShare, Consumed, Submitting
    <2>5. (CallsHaveSubjects /\ OnePointer)'
      BY <2>4 DEF CallsHaveSubjects, OnePointer
    <2>6. UnbornUnknown'
      BY <1>3, <2>0, <2>3, <2>4 DEF UnbornUnknown, TypeOK
    <2>7. ClosureExists'
      BY <2>3, <2>4 DEF ClosureExists, TypeOK
    <2>8. SharesExact'
      BY <2>3, <2>4 DEF SharesExact
    <2>9. DeletedByTheLast'
      BY <1>3, <2>0, <2>1, <2>3 DEF DeletedByTheLast, TypeOK
    <2> QED
      BY <2>2, <2>5, <2>6, <2>7, <2>8, <2>9
  <1> QED
    BY <1>1, <1>2, <1>3 DEF Run

\* What a release() does to a state that has an owner: one share less, and
\* deleted with the last.
LEMMA ReleaseOwned ==
    ASSUME TypeOK, DeletedByTheLast, NEW r \in Results, refCount[r] # 0, Release(r)
    PROVE  /\ refCount' = [refCount EXCEPT ![r] = @ - 1]
           /\ refCount' \in [Results -> 0..2]
           /\ memory' \in [Results -> {"unborn", "allocated", "deleted"}]
           /\ DeletedByTheLast'
           /\ \A q \in Results : memory'[q] = "unborn" <=> memory[q] = "unborn"
  <1> r # NoState
    BY StatesAssumption
  <1> QED
    BY DEF Release, TypeOK, DeletedByTheLast

\* A Future that owns a state owns a share of it, and nobody else does but the
\* closure.
LEMMA OwnerShare ==
    ASSUME IInv, NEW f \in Futures, state[f] # NoState
    PROVE  /\ state[f] \in Results
           /\ ~Submitting(state[f]) /\ Consumed(state[f])
           /\ ConsumerShare(state[f]) = 1 /\ refCount[state[f]] # 0
           /\ memory[state[f]] = "allocated"
  <1>1. state[f] \in Results
    BY DEF IInv, TypeOK
  <1>2. ~Submitting(state[f]) /\ Consumed(state[f])
    BY DEF IInv, OnePointer, Submitting, Consumed
  <1>3. ConsumerShare(state[f]) = 1
    BY <1>2 DEF ConsumerShare
  <1>4. refCount[state[f]] # 0
    BY <1>1, <1>3 DEF IInv, SharesExact, ClosureShare
  <1> QED
    BY <1>1, <1>2, <1>3, <1>4 DEF IInv, DeletedByTheLast

\* The same of a call that is about a state.
LEMMA CallerShare ==
    ASSUME IInv, NEW c \in Clients, client[c] # "idle"
    PROVE  /\ subject[c] \in Results
           /\ (Submitting(subject[c]) <=> client[c] \in {"copy", "submit"})
           /\ Consumed(subject[c])
           /\ ConsumerShare(subject[c]) = IF client[c] \in {"copy", "submit"} THEN 2 ELSE 1
           /\ refCount[subject[c]] # 0
           /\ memory[subject[c]] = "allocated"
  <1>1. subject[c] \in Results /\ subject[c] # NoState
    BY StatesAssumption DEF IInv, TypeOK, CallsHaveSubjects
  <1>2. /\ Submitting(subject[c]) <=> client[c] \in {"copy", "submit"}
        /\ Consumed(subject[c])
    BY <1>1 DEF IInv, OnePointer, Submitting, Consumed
  <1>3. ConsumerShare(subject[c]) = IF client[c] \in {"copy", "submit"} THEN 2 ELSE 1
    BY <1>2 DEF ConsumerShare
  <1>4. refCount[subject[c]] # 0
    BY <1>1, <1>3 DEF IInv, SharesExact, ClosureShare
  <1> QED
    BY <1>1, <1>2, <1>3, <1>4 DEF IInv, DeletedByTheLast

\* enqueue().
LEMMA EnqueueKeepsIInv ==
    ASSUME IInv, NEW c \in Clients,
           \/ \E r \in Results : EnqueueState(c, r)
           \/ EnqueueCopies(c) \/ EnqueueCopyThrows(c)
           \/ EnqueueSubmits(c) \/ EnqueueThrows(c) \/ EnqueueRethrows(c)
    PROVE  IInv'
  <1> USE StatesAssumption DEF IInv, At, Goto
  <1>1. ASSUME NEW r \in Results, EnqueueState(c, r)
        PROVE  IInv'
    <2> USE <1>1 DEF EnqueueState
    <2>1. TypeOK'
      BY DEF TypeOK
    <2>2. closure[r] = "none" /\ ~Consumed(r) /\ r # NoState
      BY DEF UnbornUnknown
    <2>3. \A q \in Results : /\ Submitting(q)' <=> Submitting(q) \/ q = r
                             /\ Consumed(q)' <=> Consumed(q) \/ q = r
      BY <2>2 DEF Submitting, Consumed, TypeOK, CallsHaveSubjects
    <2>4. CallsHaveSubjects'
      BY <2>2 DEF CallsHaveSubjects, TypeOK
    <2>5. OnePointer'
      BY <2>2 DEF OnePointer, Consumed, TypeOK
    <2>6. UnbornUnknown'
      BY <2>3 DEF UnbornUnknown, TypeOK
    <2>7. ClosureExists'
      BY <2>2 DEF ClosureExists, TypeOK
    <2>8. SharesExact'
      BY <2>2, <2>3 DEF SharesExact, ClosureShare, ConsumerShare, TypeOK
    <2>9. DeletedByTheLast'
      BY DEF DeletedByTheLast, TypeOK
    <2> QED
      BY <2>1, <2>4, <2>5, <2>6, <2>7, <2>8, <2>9
  <1>2. CASE EnqueueSubmits(c)
    <2> USE <1>2 DEF EnqueueSubmits, heapVars
    <2> DEFINE r == subject[c]
    <2>1. /\ r \in Results /\ r # NoState /\ closure[r] = "none"
          /\ Submitting(r) /\ Consumed(r) /\ memory[r] = "allocated"
      BY CallerShare DEF ClosureExists
    <2>2. TypeOK'
      BY <2>1 DEF TypeOK
    <2>3. \A q \in Results : /\ Submitting(q)' <=> Submitting(q) /\ q # r
                             /\ Consumed(q)' <=> Consumed(q)
      BY <2>1 DEF Submitting, Consumed, TypeOK, OnePointer
    <2>4. CallsHaveSubjects'
      BY DEF CallsHaveSubjects, TypeOK
    <2>5. OnePointer'
      BY DEF OnePointer
    <2>6. UnbornUnknown'
      BY <2>1, <2>3 DEF UnbornUnknown, TypeOK
    <2>7. ClosureExists'
      BY <2>1 DEF ClosureExists, TypeOK, OnePointer
    <2>8. SharesExact'
      BY <2>1, <2>3 DEF SharesExact, ClosureShare, ConsumerShare, TypeOK
    <2>9. DeletedByTheLast'
      BY DEF DeletedByTheLast
    <2> QED
      BY <2>2, <2>4, <2>5, <2>6, <2>7, <2>8, <2>9
  <1>3. CASE EnqueueThrows(c)
    <2> USE <1>3 DEF EnqueueThrows
    <2> DEFINE r == subject[c]
    <2>1. /\ r \in Results /\ r # NoState /\ closure[r] = "none"
          /\ Submitting(r) /\ Consumed(r) /\ refCount[r] # 0
      BY CallerShare DEF ClosureExists
    <2>2. /\ refCount' = [refCount EXCEPT ![r] = @ - 1]
          /\ refCount' \in [Results -> 0..2]
          /\ memory' \in [Results -> {"unborn", "allocated", "deleted"}]
          /\ DeletedByTheLast'
          /\ \A q \in Results : memory'[q] = "unborn" <=> memory[q] = "unborn"
      BY <2>1, ReleaseOwned
    <2>3. TypeOK'
      BY <2>2 DEF TypeOK
    <2>4. \A q \in Results : /\ Submitting(q)' <=> Submitting(q) /\ q # r
                             /\ Consumed(q)' <=> Consumed(q)
      BY <2>1 DEF Submitting, Consumed, TypeOK, OnePointer
    <2>5. CallsHaveSubjects'
      BY DEF CallsHaveSubjects, TypeOK
    <2>6. OnePointer'
      BY DEF OnePointer
    <2>7. UnbornUnknown'
      BY <2>2, <2>4 DEF UnbornUnknown
    <2>8. ClosureExists'
      BY <2>1 DEF ClosureExists, TypeOK
    <2>9. SharesExact'
      BY <2>1, <2>2, <2>4 DEF SharesExact, ClosureShare, ConsumerShare, TypeOK
    <2> QED
      BY <2>2, <2>3, <2>5, <2>6, <2>7, <2>8, <2>9
  <1>4. CASE EnqueueRethrows(c)
    <2> USE <1>4 DEF EnqueueRethrows, Return
    <2> DEFINE r == subject[c]
    <2>1. /\ r \in Results /\ r # NoState /\ closure[r] = "none"
          /\ ~Submitting(r) /\ Consumed(r) /\ refCount[r] # 0
      BY CallerShare DEF ClosureExists
    <2>2. /\ refCount' = [refCount EXCEPT ![r] = @ - 1]
          /\ refCount' \in [Results -> 0..2]
          /\ memory' \in [Results -> {"unborn", "allocated", "deleted"}]
          /\ DeletedByTheLast'
          /\ \A q \in Results : memory'[q] = "unborn" <=> memory[q] = "unborn"
      BY <2>1, ReleaseOwned
    <2>3. TypeOK'
      BY <2>2 DEF TypeOK
    <2>4. \A q \in Results : /\ Submitting(q)' <=> Submitting(q)
                             /\ Consumed(q)' <=> Consumed(q) /\ q # r
      BY <2>1 DEF Submitting, Consumed, TypeOK, OnePointer
    <2>5. CallsHaveSubjects'
      BY DEF CallsHaveSubjects, TypeOK
    <2>6. OnePointer'
      BY DEF OnePointer, TypeOK
    <2>7. UnbornUnknown'
      BY <2>2, <2>4 DEF UnbornUnknown
    <2>8. ClosureExists'
      BY <2>1 DEF ClosureExists, TypeOK
    <2>9. SharesExact'
      BY <2>1, <2>2, <2>4 DEF SharesExact, ClosureShare, ConsumerShare, TypeOK
    <2> QED
      BY <2>2, <2>3, <2>5, <2>6, <2>7, <2>8, <2>9
  <1>5. CASE EnqueueCopies(c)
    <2> USE <1>5 DEF EnqueueCopies, heapVars
    <2>1. subject[c] \in Results /\ subject[c] # NoState /\ closure[subject[c]] = "none"
      BY CallerShare DEF ClosureExists
    <2>2. TypeOK'
      BY DEF TypeOK
    <2>3. \A q \in Results : /\ Submitting(q)' <=> Submitting(q)
                             /\ Consumed(q)' <=> Consumed(q)
      BY DEF Submitting, Consumed, TypeOK
    <2>4. (CallsHaveSubjects /\ OnePointer)'
      BY DEF CallsHaveSubjects, OnePointer, TypeOK
    <2>5. ClosureExists'
      BY <2>1 DEF ClosureExists, TypeOK
    <2>6. (UnbornUnknown /\ SharesExact /\ DeletedByTheLast)'
      BY <2>3 DEF UnbornUnknown, SharesExact, DeletedByTheLast, ClosureShare, ConsumerShare
    <2> QED
      BY <2>2, <2>4, <2>5, <2>6
  <1>6. CASE EnqueueCopyThrows(c)
    <2> USE <1>6 DEF EnqueueCopyThrows, Return, heapVars
    <2> DEFINE r == subject[c]
    <2>1. /\ r \in Results /\ r # NoState /\ closure[r] = "none"
          /\ Submitting(r) /\ Consumed(r) /\ memory[r] = "allocated"
      BY CallerShare DEF ClosureExists
    <2>2. TypeOK'
      BY <2>1 DEF TypeOK
    <2>3. \A q \in Results : /\ Submitting(q)' <=> Submitting(q) /\ q # r
                             /\ Consumed(q)' <=> Consumed(q) /\ q # r
      BY <2>1 DEF Submitting, Consumed, TypeOK, OnePointer
    <2>4. CallsHaveSubjects'
      BY DEF CallsHaveSubjects, TypeOK
    <2>5. OnePointer'
      BY DEF OnePointer, TypeOK
    <2>6. UnbornUnknown'
      BY <2>1, <2>3 DEF UnbornUnknown, TypeOK
    <2>7. ClosureExists'
      BY <2>1 DEF ClosureExists, TypeOK, OnePointer
    <2>8. SharesExact'
      BY <2>1, <2>3 DEF SharesExact, ClosureShare, ConsumerShare, TypeOK
    <2>9. DeletedByTheLast'
      BY DEF DeletedByTheLast
    <2> QED
      BY <2>2, <2>4, <2>5, <2>6, <2>7, <2>8, <2>9
  <1> QED
    BY <1>1, <1>2, <1>3, <1>4, <1>5, <1>6

\* releaseOwnedState(): nothing if the Future is empty.
LEMMA ReleaseFuture ==
    ASSUME IInv, NEW f \in Futures, Release(state[f])
    PROVE  /\ refCount' \in [Results -> 0..2]
           /\ \A q \in Results :
                 refCount'[q] = refCount[q] - (IF q = state[f] THEN 1 ELSE 0)
           /\ memory' \in [Results -> {"unborn", "allocated", "deleted"}]
           /\ DeletedByTheLast'
           /\ \A q \in Results : memory'[q] = "unborn" <=> memory[q] = "unborn"
  <1>1. CASE state[f] = NoState
    BY <1>1, StatesAssumption DEF Release, IInv, TypeOK, DeletedByTheLast
  <1>2. CASE state[f] # NoState
    BY <1>2, OwnerShare, ReleaseOwned DEF IInv, TypeOK
  <1> QED
    BY <1>1, <1>2

\* The Future's operations and the end of enqueue(): a pointer moves, and what
\* it replaces is released.
LEMMA FutureKeepsIInv ==
    ASSUME IInv, NEW c \in Clients,
           \/ \E f \in Futures : EnqueueReturns(c, f) \/ Get(c, f) \/ DestroyFuture(c, f)
           \/ \E from, to \in Futures : MoveFuture(c, from, to)
           \/ WaitReady(c) \/ TakeResult(c)
    PROVE  IInv'
  <1> USE StatesAssumption DEF IInv, At, Goto
  <1>1. ASSUME NEW f \in Futures, EnqueueReturns(c, f)
        PROVE  IInv'
    <2> USE <1>1 DEF EnqueueReturns, Return
    <2> DEFINE r == subject[c]
    <2>1. /\ r \in Results /\ r # NoState /\ closure[r] # "none" /\ r # state[f]
          /\ ~Submitting(r) /\ Consumed(r) /\ memory[r] = "allocated"
      BY CallerShare DEF ClosureExists, OnePointer
    <2>2. /\ refCount' \in [Results -> 0..2]
          /\ \A q \in Results :
                refCount'[q] = refCount[q] - (IF q = state[f] THEN 1 ELSE 0)
          /\ memory' \in [Results -> {"unborn", "allocated", "deleted"}]
          /\ DeletedByTheLast'
          /\ \A q \in Results : memory'[q] = "unborn" <=> memory[q] = "unborn"
      BY ReleaseFuture
    <2>3. state[f] # NoState => ~Submitting(state[f]) /\ Consumed(state[f])
      BY OwnerShare
    <2>4. TypeOK'
      BY <2>1, <2>2 DEF TypeOK
    <2>5. \A q \in Results : /\ Submitting(q)' <=> Submitting(q)
                             /\ Consumed(q)' <=> Consumed(q) /\ q # state[f]
      BY <2>1, <2>3 DEF Submitting, Consumed, TypeOK, OnePointer
    <2>6. CallsHaveSubjects'
      BY DEF CallsHaveSubjects, TypeOK
    <2>7. OnePointer'
      BY <2>1 DEF OnePointer, TypeOK
    <2>8. UnbornUnknown'
      BY <2>2, <2>5 DEF UnbornUnknown
    <2>9. ClosureExists'
      BY <2>1 DEF ClosureExists, TypeOK
    <2>10. SharesExact'
      BY <2>2, <2>3, <2>5 DEF SharesExact, ClosureShare, ConsumerShare, TypeOK
    <2> QED
      BY <2>2, <2>4, <2>6, <2>7, <2>8, <2>9, <2>10
  <1>2. ASSUME NEW f \in Futures, Get(c, f)
        PROVE  IInv'
    <2> USE <1>2 DEF Get, heapVars
    <2>1. state[f] \in Results /\ closure[state[f]] # "none"
      BY DEF TypeOK, ClosureExists
    <2>2. TypeOK'
      BY <2>1 DEF TypeOK
    <2>3. \A q \in Results : /\ Submitting(q)' <=> Submitting(q)
                             /\ Consumed(q)' <=> Consumed(q)
      BY <2>1 DEF Submitting, Consumed, TypeOK, OnePointer, CallsHaveSubjects
    <2>4. CallsHaveSubjects'
      BY DEF CallsHaveSubjects, TypeOK
    <2>5. OnePointer'
      BY DEF OnePointer, TypeOK
    <2>6. UnbornUnknown'
      BY <2>3 DEF UnbornUnknown
    <2>7. ClosureExists'
      BY <2>1 DEF ClosureExists, TypeOK
    <2>8. (SharesExact /\ DeletedByTheLast)'
      BY <2>3 DEF SharesExact, DeletedByTheLast, ClosureShare, ConsumerShare
    <2> QED
      BY <2>2, <2>4, <2>5, <2>6, <2>7, <2>8
  <1>3. ASSUME NEW f \in Futures, DestroyFuture(c, f)
        PROVE  IInv'
    <2> USE <1>3 DEF DestroyFuture, callVars
    <2>1. /\ state[f] \in Results /\ closure[state[f]] # "none"
          /\ ~Submitting(state[f]) /\ Consumed(state[f])
      BY OwnerShare DEF ClosureExists
    <2>2. /\ refCount' \in [Results -> 0..2]
          /\ \A q \in Results :
                refCount'[q] = refCount[q] - (IF q = state[f] THEN 1 ELSE 0)
          /\ memory' \in [Results -> {"unborn", "allocated", "deleted"}]
          /\ DeletedByTheLast'
          /\ \A q \in Results : memory'[q] = "unborn" <=> memory[q] = "unborn"
      BY ReleaseFuture
    <2>3. TypeOK'
      BY <2>2 DEF TypeOK
    <2>4. \A q \in Results : /\ Submitting(q)' <=> Submitting(q)
                             /\ Consumed(q)' <=> Consumed(q) /\ q # state[f]
      BY <2>1 DEF Submitting, Consumed, TypeOK, OnePointer
    <2>5. (CallsHaveSubjects /\ OnePointer)'
      BY DEF CallsHaveSubjects, OnePointer, TypeOK
    <2>6. UnbornUnknown'
      BY <2>2, <2>4 DEF UnbornUnknown
    <2>7. ClosureExists'
      BY DEF ClosureExists, TypeOK
    <2>8. SharesExact'
      BY <2>1, <2>2, <2>4 DEF SharesExact, ClosureShare, ConsumerShare, TypeOK
    <2> QED
      BY <2>2, <2>3, <2>5, <2>6, <2>7, <2>8
  <1>4. ASSUME NEW from \in Futures, NEW to \in Futures, MoveFuture(c, from, to)
        PROVE  IInv'
    <2> USE <1>4 DEF MoveFuture, callVars
    <2>1. state[to] # NoState =>
             /\ ~Submitting(state[to]) /\ Consumed(state[to])
             /\ state[to] # state[from]
      BY OwnerShare DEF OnePointer
    <2>2. /\ refCount' \in [Results -> 0..2]
          /\ \A q \in Results :
                refCount'[q] = refCount[q] - (IF q = state[to] THEN 1 ELSE 0)
          /\ memory' \in [Results -> {"unborn", "allocated", "deleted"}]
          /\ DeletedByTheLast'
          /\ \A q \in Results : memory'[q] = "unborn" <=> memory[q] = "unborn"
      BY ReleaseFuture
    <2>3. TypeOK'
      BY <2>2 DEF TypeOK
    <2>4. \A q \in Results : /\ Submitting(q)' <=> Submitting(q)
                             /\ Consumed(q)' <=> Consumed(q) /\ q # state[to]
      BY <2>1 DEF Submitting, Consumed, TypeOK, OnePointer
    <2>5. CallsHaveSubjects'
      BY DEF CallsHaveSubjects
    <2>6. OnePointer'
      BY DEF OnePointer, TypeOK
    <2>7. UnbornUnknown'
      BY <2>2, <2>4 DEF UnbornUnknown
    <2>8. ClosureExists'
      BY DEF ClosureExists, TypeOK
    <2>9. SharesExact'
      BY <2>1, <2>2, <2>4 DEF SharesExact, ClosureShare, ConsumerShare, TypeOK
    <2> QED
      BY <2>2, <2>3, <2>5, <2>6, <2>7, <2>8, <2>9
  <1>5. CASE WaitReady(c)
    <2> USE <1>5 DEF WaitReady, heapVars
    <2>1. TypeOK'
      BY DEF TypeOK
    <2>2. \A q \in Results : /\ Submitting(q)' <=> Submitting(q)
                             /\ Consumed(q)' <=> Consumed(q)
      BY DEF Submitting, Consumed, TypeOK
    <2>3. (CallsHaveSubjects /\ OnePointer /\ ClosureExists)'
      BY DEF CallsHaveSubjects, OnePointer, ClosureExists, TypeOK
    <2>4. (UnbornUnknown /\ SharesExact /\ DeletedByTheLast)'
      BY <2>2 DEF UnbornUnknown, SharesExact, DeletedByTheLast, ClosureShare, ConsumerShare
    <2> QED
      BY <2>1, <2>3, <2>4
  <1>6. CASE TakeResult(c)
    <2> USE <1>6 DEF TakeResult, Return
    <2> DEFINE r == subject[c]
    <2>1. /\ r \in Results /\ r # NoState /\ closure[r] # "none"
          /\ ~Submitting(r) /\ Consumed(r) /\ refCount[r] # 0
      BY CallerShare DEF ClosureExists
    <2>2. /\ refCount' = [refCount EXCEPT ![r] = @ - 1]
          /\ refCount' \in [Results -> 0..2]
          /\ memory' \in [Results -> {"unborn", "allocated", "deleted"}]
          /\ DeletedByTheLast'
          /\ \A q \in Results : memory'[q] = "unborn" <=> memory[q] = "unborn"
      BY <2>1, ReleaseOwned
    <2>3. TypeOK'
      BY <2>2 DEF TypeOK
    <2>4. \A q \in Results : /\ Submitting(q)' <=> Submitting(q)
                             /\ Consumed(q)' <=> Consumed(q) /\ q # r
      BY <2>1 DEF Submitting, Consumed, TypeOK, OnePointer
    <2>5. (CallsHaveSubjects /\ OnePointer)'
      BY DEF CallsHaveSubjects, OnePointer, TypeOK
    <2>6. UnbornUnknown'
      BY <2>2, <2>4 DEF UnbornUnknown
    <2>7. ClosureExists'
      BY DEF ClosureExists, TypeOK
    <2>8. SharesExact'
      BY <2>1, <2>2, <2>4 DEF SharesExact, ClosureShare, ConsumerShare, TypeOK
    <2> QED
      BY <2>2, <2>3, <2>5, <2>6, <2>7, <2>8
  <1> QED
    BY <1>1, <1>2, <1>3, <1>4, <1>5, <1>6

\* Every reachable state satisfies the invariant.
THEOREM Invariant == Spec => []IInv
  <1>1. Init => IInv
    BY InitIInv
  <1>2. IInv /\ [Next]_vars => IInv'
    <2> SUFFICES ASSUME IInv, [Next]_vars PROVE IInv'
      OBVIOUS
    <2>1. ASSUME NEW r \in Results, Run(r) \/ DiscardClosure(r) PROVE IInv'
      BY <2>1, RunKeepsIInv
    <2>2. ASSUME NEW c \in Clients, Continue(c) \/ Call(c) PROVE IInv'
      <3>1. CASE \/ \E r \in Results : EnqueueState(c, r)
                 \/ EnqueueCopies(c) \/ EnqueueCopyThrows(c)
                 \/ EnqueueSubmits(c) \/ EnqueueThrows(c) \/ EnqueueRethrows(c)
        BY <3>1, EnqueueKeepsIInv
      <3>2. CASE \/ \E f \in Futures : \/ EnqueueReturns(c, f) \/ Get(c, f)
                                       \/ DestroyFuture(c, f)
                 \/ \E from, to \in Futures : MoveFuture(c, from, to)
                 \/ WaitReady(c) \/ TakeResult(c)
        BY <3>2, FutureKeepsIInv
      <3> QED
        BY <2>2, <3>1, <3>2 DEF Continue, Call
    <2>3. CASE UNCHANGED vars
      BY <2>3 DEF vars, heapVars, callVars, IInv, TypeOK, CallsHaveSubjects, OnePointer,
                  UnbornUnknown, ClosureExists, SharesExact, DeletedByTheLast,
                  ClosureShare, ConsumerShare, Submitting, Consumed
    <2> QED
      BY <2>1, <2>2, <2>3 DEF Next
  <1> QED
    BY <1>1, <1>2, PTL DEF Spec

\* Every variable keeps its type: in particular a reference count never goes
\* below 0 nor above 2.
THEOREM TypeCorrect == Spec => []TypeOK
  <1>1. IInv => TypeOK
    BY DEF IInv
  <1> QED
    BY <1>1, Invariant, PTL

\* No closure, no call and no Future ever holds a pointer to a deleted state.
THEOREM MemoryOutlivesUse == Spec => []NoUseAfterFree
  <1>1. IInv => NoUseAfterFree
    <2> SUFFICES ASSUME IInv, NEW r \in Results,
                        ClosureOwns(r) \/ Callers(r) # {} \/ Owners(r) # {}
                 PROVE  memory[r] = "allocated"
      BY DEF NoUseAfterFree
    <2>1. CASE ClosureOwns(r)
      <3>1. ClosureShare(r) = 1 /\ ConsumerShare(r) \in 0..2
        BY <2>1 DEF ClosureOwns, ClosureShare, ConsumerShare
      <3> QED
        BY <3>1 DEF IInv, SharesExact, DeletedByTheLast
    <2>2. CASE Callers(r) # {}
      <3>1. PICK c \in Clients : subject[c] = r
        BY <2>2 DEF Callers
      <3> QED
        BY <3>1, CallerShare, StatesAssumption DEF IInv, CallsHaveSubjects
    <2>3. CASE Owners(r) # {}
      <3>1. PICK f \in Futures : state[f] = r
        BY <2>3 DEF Owners
      <3> QED
        BY <3>1, OwnerShare, StatesAssumption
    <2> QED
      BY <2>1, <2>2, <2>3
  <1> QED
    BY <1>1, Invariant, PTL

\* A state that no Future owns and no call is about is deleted or its closure
\* is still to release it, with two exceptions: the closure was destroyed unrun,
\* or a throwing copy kept enqueue() from making it.
THEOREM MemoryIsFreed == Spec => []FreedUnlessLost
  <1>1. IInv => FreedUnlessLost
    <2> SUFFICES ASSUME IInv, NEW r \in Results, memory[r] = "allocated",
                        Callers(r) = {}, Owners(r) = {}
                 PROVE  closure[r] = "queued" \/ ClosureOwns(r) \/ Lost(r)
      BY DEF FreedUnlessLost
    <2>1. ConsumerShare(r) = 0
      BY DEF ConsumerShare, Submitting, Consumed, Callers, Owners
    <2>2. refCount[r] # 0 /\ refCount[r] = ClosureShare(r) + 0
      BY <2>1 DEF IInv, SharesExact, DeletedByTheLast
    <2> QED
      BY <2>2 DEF ClosureShare, ClosureOwns, Lost
  <1> QED
    BY <1>1, Invariant, PTL

----------------------------------------------------------------------------
\* The result a get() takes.

\* A result is in its state before ready_ is set, and a get() goes on to take it
\* only when ready_ is.
Published ==
    /\ \A r \in Results : closure[r] = "publish" \/ ready[r] # 0 => outcome[r] # "none"
    /\ \A c \in Clients : client[c] = "take" => ready[subject[c]] # 0

LEMMA StepPublished == IInv /\ Published /\ [Next]_vars => Published'
  <1> SUFFICES ASSUME IInv, Published, [Next]_vars PROVE Published'
    OBVIOUS
  <1> USE DEF Published, heapVars, callVars, AtClosure, At, Goto
  <1>0. /\ TypeOK
        /\ \A c \in Clients : client[c] = "take" => subject[c] \in Results
    BY CallerShare DEF IInv
  <1>1. ASSUME NEW r \in Results, Run(r) \/ DiscardClosure(r) PROVE Published'
    <2>1. CASE SetResult(r)
      BY <1>0, <2>1 DEF SetResult, TypeOK, Outcomes
    <2>2. CASE Publish(r)
      BY <1>0, <2>2 DEF Publish, TypeOK
    <2>3. CASE NotifyReady(r)
      BY <1>0, <2>3 DEF NotifyReady, TypeOK
    <2>4. CASE RunClosure(r) \/ ReleaseClosure(r) \/ DiscardClosure(r)
      BY <1>0, <2>4 DEF RunClosure, ReleaseClosure, DiscardClosure, TypeOK
    <2> QED
      BY <1>1, <2>1, <2>2, <2>3, <2>4 DEF Run
  <1>2. ASSUME NEW c \in Clients, Continue(c) \/ Call(c) PROVE Published'
    <2>1. CASE \E r \in Results : EnqueueState(c, r)
      BY <1>0, <2>1 DEF EnqueueState, TypeOK
    <2>2. CASE EnqueueSubmits(c)
      BY <1>0, <2>2 DEF EnqueueSubmits, TypeOK
    <2>3. CASE WaitReady(c)
      BY <1>0, <2>3 DEF WaitReady, TypeOK
    <2>4. CASE \E f \in Futures : Get(c, f)
      BY <1>0, <2>4 DEF Get, TypeOK
    <2>5. CASE \/ EnqueueCopies(c) \/ EnqueueCopyThrows(c)
               \/ EnqueueThrows(c) \/ EnqueueRethrows(c) \/ TakeResult(c)
               \/ \E f \in Futures : EnqueueReturns(c, f) \/ DestroyFuture(c, f)
               \/ \E from, to \in Futures : MoveFuture(c, from, to)
      BY <1>0, <2>5 DEF EnqueueCopies, EnqueueCopyThrows, EnqueueThrows, EnqueueRethrows,
                        TakeResult, EnqueueReturns, DestroyFuture, MoveFuture, Return, TypeOK
    <2> QED
      BY <1>2, <2>1, <2>2, <2>3, <2>4, <2>5 DEF Continue, Call
  <1>3. CASE UNCHANGED vars
    BY <1>3 DEF vars
  <1> QED
    BY <1>1, <1>2, <1>3 DEF Next

\* Two disjoint sets of at most one element between them.
LEMMA OneOfTwo ==
    ASSUME NEW S, NEW T, \A x, y \in S : x = y, \A x, y \in T : x = y,
           S = {} \/ T = {}
    PROVE  Cardinality(S) + Cardinality(T) <= 1
  <1>1. ASSUME NEW U, \A x, y \in U : x = y PROVE Cardinality(U) \in {0, 1}
    <2>1. CASE U = {}
      BY <2>1, FS_EmptySet
    <2>2. ASSUME NEW x \in U PROVE Cardinality(U) = 1
      <3>1. U = {x}
        BY <1>1
      <3> QED
        BY <3>1, FS_Singleton
    <2> QED
      BY <2>1, <2>2
  <1>2. Cardinality(S) \in {0, 1} /\ Cardinality(T) \in {0, 1}
    BY <1>1
  <1>3. Cardinality(S) = 0 \/ Cardinality(T) = 0
    BY FS_EmptySet
  <1> QED
    BY <1>2, <1>3

\* get() takes a result that is there, and nobody else can take it.
THEOREM ResultOnce == Spec => []ResultTakenOnce
  <1>1. Init => Published
    BY DEF Init, Published
  <1>2. IInv /\ Published => ResultIsThere
    BY CallerShare DEF Published, ResultIsThere, At
  <1>3. IInv => OneConsumer
    <2> SUFFICES ASSUME IInv, NEW r \in Results
                 PROVE  Cardinality(Owners(r)) + Cardinality(Callers(r)) <= 1
      BY DEF OneConsumer
    <2>1. r # NoState
      BY StatesAssumption
    <2>2. /\ \A f, g \in Owners(r) : f = g
          /\ \A c, d \in Callers(r) : c = d
          /\ Owners(r) = {} \/ Callers(r) = {}
      BY <2>1 DEF IInv, OnePointer, Owners, Callers
    <2> QED
      BY <2>2, OneOfTwo
  <1> QED
    BY <1>1, <1>2, <1>3, Invariant, StepPublished, PTL DEF Spec, ResultTakenOnce
=============================================================================
