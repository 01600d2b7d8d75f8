----------------------------- MODULE MCCrossPool -----------------------------
(***************************************************************************)
(* Instances of CrossPool for TLC.  Pools and tasks are strings, threads   *)
(* are pairs.                                                              *)
(***************************************************************************)
EXTENDS CrossPool, TLC

TwoPools == {"A", "B"}
\* A has two workers, B one.
ThreeWorkers == ("A" :> {<<"A", 1>>, <<"A", 2>>}) @@ ("B" :> {<<"B", 1>>})
client == <<"client", 1>>
OneClient == {client}

S(p, k) == <<"submit", p, k>>
G(k) == <<"get", k>>
W(p) == <<"waitIdle", p>>
Finish(p) == <<"shutdown", p, "Finish">>
Discard(p) == <<"shutdown", p, "Discard">>

FiveTasks == {"a", "b", "x", "y", "z"}
\* a, of pool A, submits x to B; b, of B, submits y to A.
CrossBodies == ("a" :> <<S("B", "x")>>) @@ ("b" :> <<S("A", "y")>>)
               @@ ("x" :> <<>>) @@ ("y" :> <<>>) @@ ("z" :> <<>>)

\* One crossing or two, an even balance and an uneven one, in pools that are
\* kept or shut down, and a wait for the pool that nothing was crossed to.
CrossPrograms == client :> {
    <<S("A", "a"), S("B", "b"), G("x"), G("y"), Finish("A"), Finish("B"), Finish("A")>>,
    <<S("A", "a"), Finish("B"), Discard("A"), S("A", "b")>>,
    <<S("A", "z"), W("A"), S("A", "a"), S("B", "b")>>,
    <<S("A", "a"), G("x"), S("B", "z"), W("B")>>,
    <<S("B", "b"), Finish("A")>>}

\* a waits for x: the only worker of its pool that knows of x is its own.
WaitingBodies == ("a" :> <<S("B", "x"), G("x")>>) @@ ("b" :> <<>>)
                 @@ ("x" :> <<>>) @@ ("y" :> <<>>) @@ ("z" :> <<>>)
\* The programs of the runs in which two pools do not do what is said of one.
OneCrossing == client :> {<<S("A", "a"), Finish("B")>>}
CrossingWaited == client :> {<<S("A", "a"), G("a"), W("B")>>}
CrossingAwaited == client :> {<<S("A", "a")>>}
=============================================================================
