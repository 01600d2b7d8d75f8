---------------------------- MODULE ResultFuture ----------------------------
(***************************************************************************)
(* enqueue()'s result: a ResultState on the heap with exactly two shares,  *)
(* one of the task's closure and one of a Future, deleted by whoever gives *)
(* up the last.  Clients call enqueue(), get(), move their Futures and     *)
(* destroy them, while workers run the closures, or a pool that is shut    *)
(* down without finishing its tasks destroys them unrun.                   *)
(***************************************************************************)
EXTENDS Naturals, FiniteSets

CONSTANTS
    Clients,
    Results,               \* the calls of enqueue(): bounds how many there are
    Futures,               \* the clients' Future objects
    Discards,              \* whether a queued closure may be destroyed unrun
    CopiesThrow            \* whether copying a callable or its arguments may throw

ASSUME LossesAssumption == Discards \in BOOLEAN /\ CopiesThrow \in BOOLEAN

NoState == "nullptr"
ASSUME StatesAssumption == NoState \notin Results
Outcomes == {"value", "exception"}

VARIABLES
    memory,                \* each ResultState: "unborn", "allocated" or "deleted"
    ready, refCount,       \* its ready_ and refCount_
    outcome,               \* its value_ or exception_
    closure,               \* where its closure is
    state,                 \* each Future's state_
    client,                \* where each client is
    subject                \* the state its call is about

heapVars == <<memory, ready, refCount, outcome>>
callVars == <<client, subject>>
vars == <<heapVars, closure, state, callVars>>

Init ==
    /\ memory = [r \in Results |-> "unborn"]
    /\ ready = [r \in Results |-> 0]
    /\ refCount = [r \in Results |-> 0]
    /\ outcome = [r \in Results |-> "none"]
    /\ closure = [r \in Results |-> "none"]
    /\ state = [f \in Futures |-> NoState]
    /\ client = [c \in Clients |-> "idle"]
    /\ subject = [c \in Clients |-> NoState]

\* release(): the last of the two owners deletes the state.
Release(r) ==
    IF r = NoState THEN UNCHANGED <<refCount, memory>>
    ELSE /\ refCount' = [refCount EXCEPT ![r] = @ - 1]
         /\ memory' = IF refCount[r] = 1 THEN [memory EXCEPT ![r] = "deleted"] ELSE memory

At(c, from) == client[c] = from
Goto(c, to) == client' = [client EXCEPT ![c] = to]
Return(c) == Goto(c, "idle") /\ subject' = [subject EXCEPT ![c] = NoState]

----------------------------------------------------------------------------
\* The closure runAndPublish, on a worker.

AtClosure(r, from, to) == closure[r] = from /\ closure' = [closure EXCEPT ![r] = to]

RunClosure(r) ==
    /\ AtClosure(r, "queued", "run")
    /\ UNCHANGED <<heapVars, state, callVars>>

\* The callable returns or throws, and its result is put into the state.
SetResult(r) ==
    /\ AtClosure(r, "run", "publish")
    /\ \E o \in Outcomes : outcome' = [outcome EXCEPT ![r] = o]
    /\ UNCHANGED <<memory, ready, refCount, state, callVars>>

Publish(r) ==
    /\ AtClosure(r, "publish", "notify")
    /\ ready' = [ready EXCEPT ![r] = 1]
    /\ UNCHANGED <<memory, refCount, outcome, state, callVars>>

\* Mutant: nobody is notified.
NotifyNobody(r) ==
    /\ AtClosure(r, "notify", "release")
    /\ UNCHANGED <<heapVars, state, callVars>>

NotifyReady(r) ==
    /\ AtClosure(r, "notify", "release")
    /\ client' = [c \in Clients |-> IF At(c, "parked") /\ subject[c] = r
                                    THEN "wait" ELSE client[c]]
    /\ UNCHANGED <<heapVars, state, subject>>

ReleaseClosure(r) ==
    /\ AtClosure(r, "release", "done")
    /\ Release(r)
    /\ UNCHANGED <<ready, outcome, state, callVars>>

\* The Task that holds the closure is destroyed before it has run: nothing
\* gives up its share.
DiscardClosure(r) ==
    /\ Discards
    /\ AtClosure(r, "queued", "discarded")
    /\ UNCHANGED <<heapVars, state, callVars>>

----------------------------------------------------------------------------
\* enqueue(), into the Future f: a new state, the closure with its copies of the
\* callable and the arguments, submit(), and the Future, or two releases if
\* submit() has thrown.

EnqueueState(c, r) ==
    /\ At(c, "idle")
    /\ memory[r] = "unborn"
    /\ memory' = [memory EXCEPT ![r] = "allocated"]
    /\ refCount' = [refCount EXCEPT ![r] = 2]
    /\ subject' = [subject EXCEPT ![c] = r]
    /\ Goto(c, "copy")
    /\ UNCHANGED <<ready, outcome, closure, state>>

EnqueueCopies(c) ==
    /\ At(c, "copy")
    /\ Goto(c, "submit")
    /\ UNCHANGED <<heapVars, closure, state, subject>>

\* A copy throws, before the try block: enqueue() is left with nobody to give
\* up the state's two shares.
EnqueueCopyThrows(c) ==
    /\ CopiesThrow
    /\ At(c, "copy")
    /\ closure' = [closure EXCEPT ![subject[c]] = "unmade"]
    /\ Return(c)
    /\ UNCHANGED <<heapVars, state>>

EnqueueSubmits(c) ==
    /\ At(c, "submit")
    /\ closure' = [closure EXCEPT ![subject[c]] = "queued"]
    /\ Goto(c, "construct")
    /\ UNCHANGED <<heapVars, state, subject>>

EnqueueThrows(c) ==
    /\ At(c, "submit")
    /\ Release(subject[c])
    /\ Goto(c, "rethrow")
    /\ UNCHANGED <<ready, outcome, closure, state, subject>>

\* Mutant: the second release is forgotten.
EnqueueRethrowsOnce(c) ==
    /\ At(c, "rethrow")
    /\ Return(c)
    /\ UNCHANGED <<heapVars, closure, state>>

EnqueueRethrows(c) ==
    /\ At(c, "rethrow")
    /\ Release(subject[c])
    /\ Return(c)
    /\ UNCHANGED <<ready, outcome, closure, state>>

\* The returned Future is move-assigned to f, which gives up what it owned.
EnqueueReturns(c, f) ==
    /\ At(c, "construct")
    /\ Release(state[f])
    /\ state' = [state EXCEPT ![f] = subject[c]]
    /\ Return(c)
    /\ UNCHANGED <<ready, outcome, closure>>

----------------------------------------------------------------------------
\* The Future.  (A get() on an empty one throws and changes nothing.)

\* Mutant: the Future keeps its state.
GetKeepsState(c, f) ==
    /\ At(c, "idle")
    /\ state[f] # NoState
    /\ subject' = [subject EXCEPT ![c] = state[f]]
    /\ Goto(c, "wait")
    /\ UNCHANGED <<heapVars, closure, state>>

Get(c, f) ==
    /\ At(c, "idle")
    /\ state[f] # NoState
    /\ subject' = [subject EXCEPT ![c] = state[f]]
    /\ state' = [state EXCEPT ![f] = NoState]
    /\ Goto(c, "wait")
    /\ UNCHANGED <<heapVars, closure>>

\* spinYieldPark(ready_, ready_ # 0): the token is the condition itself.
WaitReady(c) ==
    /\ At(c, "wait")
    /\ Goto(c, IF ready[subject[c]] # 0 THEN "take" ELSE "parked")
    /\ UNCHANGED <<heapVars, closure, state, subject>>

\* The value is moved out, or the exception rethrown, and the share given up.
TakeResult(c) ==
    /\ At(c, "take")
    /\ Release(subject[c])
    /\ Return(c)
    /\ UNCHANGED <<ready, outcome, closure, state>>

\* Mutant: the source keeps its state.
MoveKeepsSource(c, from, to) ==
    /\ At(c, "idle")
    /\ from # to
    /\ Release(state[to])
    /\ state' = [state EXCEPT ![to] = state[from]]
    /\ UNCHANGED <<ready, outcome, closure, callVars>>

MoveFuture(c, from, to) ==
    /\ At(c, "idle")
    /\ from # to
    /\ Release(state[to])
    /\ state' = [state EXCEPT ![to] = state[from], ![from] = NoState]
    /\ UNCHANGED <<ready, outcome, closure, callVars>>

DestroyFuture(c, f) ==
    /\ At(c, "idle")
    /\ state[f] # NoState
    /\ Release(state[f])
    /\ state' = [state EXCEPT ![f] = NoState]
    /\ UNCHANGED <<ready, outcome, closure, callVars>>

----------------------------------------------------------------------------
\* Mutant: ready_ is set before the result is there.
RunPublishFirst(r) ==
    \/ RunClosure(r) \/ NotifyReady(r) \/ ReleaseClosure(r)
    \/ /\ AtClosure(r, "run", "publish")
       /\ ready' = [ready EXCEPT ![r] = 1]
       /\ UNCHANGED <<memory, refCount, outcome, state, callVars>>
    \/ /\ AtClosure(r, "publish", "notify")
       /\ \E o \in Outcomes : outcome' = [outcome EXCEPT ![r] = o]
       /\ UNCHANGED <<memory, ready, refCount, state, callVars>>

\* A worker runs a closure.
Run(r) ==
    \/ RunClosure(r) \/ SetResult(r) \/ Publish(r) \/ NotifyReady(r) \/ ReleaseClosure(r)

\* A client goes on with the call it is in.
Continue(c) ==
    \/ EnqueueCopies(c) \/ EnqueueCopyThrows(c)
    \/ EnqueueSubmits(c) \/ EnqueueThrows(c) \/ EnqueueRethrows(c)
    \/ \E f \in Futures : EnqueueReturns(c, f)
    \/ WaitReady(c) \/ TakeResult(c)

Call(c) ==
    \/ \E r \in Results : EnqueueState(c, r)
    \/ \E f \in Futures : Get(c, f) \/ DestroyFuture(c, f)
    \/ \E from, to \in Futures : MoveFuture(c, from, to)

Next ==
    \/ \E r \in Results : Run(r) \/ DiscardClosure(r)
    \/ \E c \in Clients : Continue(c) \/ Call(c)

Spec == Init /\ [][Next]_vars

\* Workers and clients are scheduled; a callable returns or throws.  Clients
\* need not call anything.
FairSpec ==
    /\ Spec
    /\ \A r \in Results : WF_vars(Run(r))
    /\ \A c \in Clients : WF_vars(Continue(c))

----------------------------------------------------------------------------
\* Properties.

\* Every variable has its type.
TypeOK ==
    /\ memory \in [Results -> {"unborn", "allocated", "deleted"}]
    /\ ready \in [Results -> 0..1]
    /\ refCount \in [Results -> 0..2]
    /\ outcome \in [Results -> Outcomes \cup {"none"}]
    /\ closure \in [Results -> {"none", "queued", "run", "publish", "notify", "release",
                                "done", "discarded", "unmade"}]
    /\ state \in [Futures -> Results \cup {NoState}]
    /\ client \in [Clients -> {"idle", "copy", "submit", "construct", "rethrow", "wait",
                               "parked", "take"}]
    /\ subject \in [Clients -> Results \cup {NoState}]

\* A closure that has begun will touch its state until its release(), a
\* client until its call returns, and a Future at its next operation.
ClosureOwns(r) == closure[r] \in {"run", "publish", "notify", "release"}
Callers(r) == {c \in Clients : subject[c] = r}
Owners(r) == {f \in Futures : state[f] = r}

\* Nobody holds a pointer to a state that has been deleted: the notify_all()
\* of a publish() in particular never reaches a state that the woken get() has
\* freed meanwhile.
NoUseAfterFree ==
    \A r \in Results :
        ClosureOwns(r) \/ Callers(r) # {} \/ Owners(r) # {} => memory[r] = "allocated"

\* Nobody will ever give up a share: the closure was destroyed unrun, or
\* enqueue() was left before it had one.
Lost(r) == closure[r] \in {"discarded", "unmade"}

\* A state that no Future owns and no call is about has a closure that is still
\* to run to its release(), or is deleted, unless it is lost in one of those two
\* ways: whoever of the closure, get(), a move, a destruction and the second
\* release() of a failed submit() comes last deletes it.
FreedUnlessLost ==
    \A r \in Results :
        memory[r] = "allocated" /\ Callers(r) = {} /\ Owners(r) = {}
        => closure[r] = "queued" \/ ClosureOwns(r) \/ Lost(r)

\* No state is lost: the last of the owners to release it deletes it, also when
\* enqueue() throws.
StatesFreed ==
    \A r \in Results :
        memory[r] = "allocated" /\ Callers(r) = {} /\ Owners(r) = {}
        => closure[r] = "queued" \/ ClosureOwns(r)

\* get() takes a result that is there: it never finds value_ empty.
ResultIsThere ==
    \A c \in Clients : At(c, "take") => outcome[subject[c]] # "none"

\* A result is taken by one get(): no two Futures or calls share a state.
OneConsumer ==
    \A r \in Results : Cardinality(Owners(r)) + Cardinality(Callers(r)) <= 1

\* A get() takes a result that is there, and no other one can.
ResultTakenOnce == ResultIsThere /\ OneConsumer

\* get() returns, unless the closure was destroyed without running.
GetReturns ==
    \A c \in Clients, r \in Results :
        (client[c] \in {"wait", "parked"} /\ subject[c] = r)
        ~> (At(c, "idle") \/ closure[r] = "discarded")

\* get() returns, whatever becomes of the task.
GetAlwaysReturns ==
    \A c \in Clients : client[c] \in {"wait", "parked"} ~> At(c, "idle")
=============================================================================
