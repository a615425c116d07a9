------------------------------- MODULE MCParent -------------------------------
(* Instances of Parent for TLC. *)
EXTENDS Parent

CONSTANTS e1, e2, p1, p2, va, vb

OneEntry == {e1}
TwoEntries == {e1, e2}
OnePort == {p1}
TwoPorts == {p1, p2}
VideoOff == {NoVideo}
VideoTwo == {NoVideo, va, vb}
OneUserSock == {"sock1_tcp"}
OneEngSock == {"sock2_udp"}
UserTcp == {"sock1_tcp"}
===============================================================================
