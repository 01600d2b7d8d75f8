--------------------------- MODULE MCThreadMarket ---------------------------
(***************************************************************************)
(* Instances of ThreadMarket for TLC.                                      *)
(***************************************************************************)
EXTENDS ThreadMarket, TLC

CONSTANTS u1, u2

OneUser == {u1}
TwoUsers == {u1, u2}

AlwaysWait == [u \in TwoUsers |-> {"wait"}]
WaitOrDetach == [u \in TwoUsers |-> {"wait", "detach"}]
\* The second user's pool lives as long as the process.
SecondKeeps == [u \in TwoUsers |-> IF u = u1 THEN {"wait"} ELSE {"keep"}]

OneEach == [u \in TwoUsers |-> 1]
FirstTwice == [u \in TwoUsers |-> IF u = u1 THEN 2 ELSE 1]
TwiceAlone == [u \in OneUser |-> 2]
OnceAlone == [u \in OneUser |-> 1]
=============================================================================
