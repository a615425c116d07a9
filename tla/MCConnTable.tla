----------------------------- MODULE MCConnTable -----------------------------
(* Instances of ConnTable for TLC. *)
EXTENDS ConnTable

CONSTANTS a, b, s1, s2

OneSlot == {0}
TwoSlots == {0, 1}
TwoConns == {a, b}
OneSnap == {s1}
TwoSnaps == {s1, s2}
OneVideo == {0}
TwoVideo == {0, 1}
==============================================================================
