------------------------ MODULE MCWorkStealingQueue ------------------------
(***************************************************************************)
(* Instances of WorkStealingQueue for TLC.  Addresses and thieves are      *)
(* interchangeable in the safety runs.                                     *)
(***************************************************************************)
EXTENDS WorkStealingQueue, TLC

CONSTANTS t1, t2, n1, n2, n3, n4

OneThief == {t1}
TwoThieves == {t1, t2}
TwoNodes == {n1, n2}
FourNodes == {n1, n2, n3, n4}


Symmetry == Permutations(Thieves) \cup Permutations(Nodes)
=============================================================================
