----------------------------- MODULE MCWebSocket -----------------------------
(* Instance of WebSocket for TLC. *)
EXTENDS WebSocket

OneOrTwo == {1, 2}
==============================================================================
