---------------------------- MODULE MCSessionChild ----------------------------
(* Instances of SessionChild for TLC. *)
EXTENDS SessionChild

CONSTANTS e1, e2

Entry(bidi, binlog, tap) == [bidi |-> bidi, binlog |-> binlog, tap |-> tap]

NoBinlog == [bidi : BOOLEAN, binlog : {FALSE}, tap : BOOLEAN]
PlainEntry == {Entry(FALSE, FALSE, FALSE)}
BinlogEntry == {Entry(FALSE, TRUE, FALSE)}
BidiOnly == {Entry(TRUE, FALSE, FALSE)}

OnePeer == {e1}
TwoPeers == {e1, e2}
=============================================================================
