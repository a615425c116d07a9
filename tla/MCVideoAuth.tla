----------------------------- MODULE MCVideoAuth -----------------------------
(* Instances of VideoAuth for TLC. *)
EXTENDS VideoAuth, TLC

CONSTANTS c1, c2

TwoClients == {c1, c2}
Symmetry == Permutations(TwoClients)
==============================================================================
