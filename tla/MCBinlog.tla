------------------------------ MODULE MCBinlog ------------------------------
(* Instance of Binlog for TLC. *)
EXTENDS Binlog
==============================================================================
