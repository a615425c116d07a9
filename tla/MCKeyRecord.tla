----------------------------- MODULE MCKeyRecord -----------------------------
(* Instance of KeyRecord for TLC. *)
EXTENDS KeyRecord

CONSTANTS k1, k2

ThreeKeys == {k1, k2, ZeroKey}
==============================================================================
