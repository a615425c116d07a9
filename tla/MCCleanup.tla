------------------------------ MODULE MCCleanup ------------------------------
(* Instances of Cleanup for TLC. *)
EXTENDS Cleanup

CONSTANTS t1, t2, t3

TwoFiles == {t1, t2}
ThreeFiles == {t1, t2, t3}
ForeverOrNot == {0, 1}
==============================================================================
