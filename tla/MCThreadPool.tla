---------------------------- MODULE MCThreadPool ----------------------------
(***************************************************************************)
(* Instances of ThreadPool for TLC: what the clients and the tasks of each *)
(* run do.  Tasks are strings; clients are model values, which TLC can     *)
(* compare with the workers' numbers.                                      *)
(***************************************************************************)
EXTENDS ThreadPool, TLC

CONSTANTS c1, c2

\* The operations, for short.
S(k) == <<"submit", k>>
G(k) == <<"get", k>>
W == <<"waitIdle">>
P == <<"pause">>
R == <<"resume">>
Finish == <<"shutdown", "Finish">>
Discard == <<"shutdown", "Discard">>

TwoTasks == {"a", "b"}
ThreeTasks == {"a", "b", "c"}
OneTask == {"a"}
OneClient == {c1}
TwoClients == {c1, c2}

LeafBodies == [k \in ThreeTasks |-> <<>>]
\* b throws.
ThrowingBodies == ("a" :> <<>>) @@ ("b" :> <<<<"throw">>>>)
LeafPrograms == c1 :> {<<S("a"), S("b"), W, Finish>>, <<S("a"), S("b"), W, Discard>>,
                         <<S("a"), S("b"), Finish>>, <<S("a"), S("b"), Discard>>,
                         <<S("a"), P, S("b"), R, W, Discard>>}

\* a pauses the pool from a worker, b shuts it down from a worker and then
\* throws, c submits d; c2 pauses and resumes the pool meanwhile, and c1 shuts
\* it down, paused or not.
FourTasks == {"a", "b", "c", "d"}
ControlBodies == ("a" :> <<P>>) @@ ("b" :> <<Discard, <<"throw">>>>)
                 @@ ("c" :> <<S("d")>>) @@ ("d" :> <<>>)
ControlPrograms == (c1 :> {<<S("a"), R, Finish>>, <<S("c"), S("b"), Finish>>})
                   @@ (c2 :> {<<P, R>>})

\* a submits b and waits for its result; b submits c, which throws.  c2 submits
\* d beside c1's a.
NestedBodies == ("a" :> <<S("b"), G("b")>>) @@ ("b" :> <<S("c")>>)
                @@ ("c" :> <<<<"throw">>>>) @@ ("d" :> <<>>)
NestedPrograms == (c1 :> {<<S("a"), G("a")>>})
                  @@ (c2 :> {<<S("d")>>})

\* The programs of the runs in which the pool does not do what is said of it.

\* c2 submits while c1 waits for what it has submitted.
RacePrograms == (c1 :> {<<S("a"), W>>}) @@ (c2 :> {<<S("b")>>})
\* a submits b while c1 waits.
NestingBodies == ("a" :> <<S("b")>>) @@ ("b" :> <<>>)
WaitPrograms == c1 :> {<<S("a"), W>>}
\* b's result is what a waits for, and c2 submits b while c1 waits.
AwaitingBodies == ("a" :> <<G("b")>>) @@ ("b" :> <<>>)
\* c1 submits and waits while c2 has paused the pool.
HelpPrograms == (c1 :> {<<S("a"), W>>}) @@ (c2 :> {<<P>>})
\* a shuts the pool down, with b behind it.
StoppingBodies == ("a" :> <<Finish>>) @@ ("b" :> <<>>)
StopPrograms == c1 :> {<<S("a"), S("b")>>}
\* The pool is shut down while a submits b, which it waits for.
FosterBodies == ("a" :> <<S("b"), G("b")>>) @@ ("b" :> <<>>)
FosterPrograms == c1 :> {<<S("a"), Finish>>}
\* c1 waits, and may help with a or b, while c2 shuts the pool down; b is first.
HelpStopPrograms == (c1 :> {<<S("b"), S("a"), W>>}) @@ (c2 :> {<<G("a"), Finish>>})
\* c1 submits while c2 shuts the pool down.
RaceStopPrograms == (c1 :> {<<S("a")>>}) @@ (c2 :> {<<Finish>>})
=============================================================================
