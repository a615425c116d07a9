----------------------------- MODULE MCVideoSlot -----------------------------
(* Instances of VideoSlot for TLC. *)
EXTENDS VideoSlot

CONSTANTS u1, u2

OneSender == {u1}
TwoSenders == {u1, u2}
==============================================================================
