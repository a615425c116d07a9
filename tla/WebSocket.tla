------------------------------ MODULE WebSocket ------------------------------
(***************************************************************************)
(* One WebSocket connection, plain or over TLS (websocket.cpp): the        *)
(* upgrade, the decoding of frames into the byte stream that recv() hands  *)
(* out, and the output queue that send() appends to and flush() drains.    *)
(*                                                                         *)
(* Input and output are in units smaller than a frame, so that reads and   *)
(* writes stop in the middle of one.  A frame of the peer is two units; a  *)
(* payload byte is its number in the peer's stream.  A frame sent is two   *)
(* units that name it.  The kernel, OpenSSL and the peer are external.     *)
(***************************************************************************)
EXTENDS Integers, Sequences

CONSTANTS
    HANDSHAKE,      \* units of the 101 response
    RECORD,         \* units of a TLS record: 16384 bytes
    WS_MAX_TX_QUEUE,
    MAX_MESSAGE,    \* in payload bytes
    MAX_RX,         \* max_message + 64, in units
    BUFFER,         \* payload bytes the caller takes at a time
    Payloads,       \* the lengths of payloads
    MaxBytes,       \* bounds the payload bytes the peer sends
    MaxPings,       \* bounds its pings
    MaxFrames       \* bounds the frames the caller sends to it

ASSUME WebSocketAssumption ==
    /\ HANDSHAKE \in Nat \ {0} /\ RECORD \in Nat \ {0}
    /\ WS_MAX_TX_QUEUE \in Nat /\ MAX_MESSAGE \in Nat /\ MAX_RX \in Nat
    /\ BUFFER \in Nat \ {0}
    /\ Payloads \subseteq Nat
    /\ MaxBytes \in Nat /\ MaxPings \in Nat /\ MaxFrames \in Nat

VARIABLES
    up,         \* fd >= 0
    tls,        \* _is_SSL
    accepted,   \* SSL_handshake_complete
    handshake,  \* handshake_sent
    done,       \* done_headers
    rx, msg,    \* raw units read; payload decoded and not yet handed out
    fragment,   \* in_fragment
    decoding,   \* recv() is in decode_frames
    tx,         \* framed output from tx_sent on
    record,     \* tls_tx
    pending,    \* the write that OpenSSL wants repeated
    wire,       \* what went out
    sock,       \* what the peer sent and nobody read
    peer,       \* the peer: bytes and pings sent, in a message, has closed
    queued,     \* the frames queued, all units of them
    delivered   \* the payload handed to the caller

inVars == <<rx, msg, fragment, decoding, delivered>>
outVars == <<tx, record, pending, wire, queued>>
peerVars == <<sock, peer>>
vars == <<up, tls, accepted, handshake, done, inVars, outVars, peerVars>>

(* a frame of the peer is its first unit and its last *)
Opening(f) == [frame |-> f, last |-> FALSE]
Closing(f) == [frame |-> f, last |-> TRUE]
Request == [op |-> "request", fin |-> TRUE, payload |-> <<>>]

(* a frame sent; the 101 response is frame 0 *)
OutFrame(id) == <<<<id, 1>>, <<id, 2>>>>
NextId == Len(queued) \div 2 + 1

TypeOK ==
    /\ up \in BOOLEAN /\ tls \in BOOLEAN /\ accepted \in BOOLEAN
    /\ handshake \in 0 .. HANDSHAKE /\ done \in BOOLEAN
    /\ fragment \in BOOLEAN /\ decoding \in BOOLEAN
    /\ Len(record) <= RECORD
    /\ Len(msg) <= MAX_MESSAGE
    /\ peer.bytes \in 0 .. MaxBytes /\ peer.pings \in 0 .. MaxPings
    /\ done => handshake = HANDSHAKE

Init ==
    /\ up = TRUE /\ tls \in BOOLEAN /\ accepted = FALSE
    /\ handshake = 0 /\ done = FALSE
    /\ rx = <<>> /\ msg = <<>> /\ fragment = FALSE /\ decoding = FALSE
    /\ tx = <<>> /\ record = <<>> /\ pending = <<>>
    /\ wire = <<>> /\ queued = <<>> /\ delivered = <<>>
    /\ sock = <<Opening(Request), Closing(Request)>>
    /\ peer = [bytes |-> 0, pings |-> 0, open |-> FALSE, eof |-> FALSE]

-----------------------------------------------------------------------------
(* Output *)

Least(i, j) == IF i < j THEN i ELSE j

(* flush() of a queue q: all that it may have written, kept as its record  *)
(* and left in the queue when it stops.                                    *)

(* plain: any number of units *)
PlainFlush(q) ==
    {[wrote |-> SubSeq(q, 1, k), left |-> SubSeq(q, k + 1, Len(q)),
      record |-> <<>>, pending |-> <<>>] : k \in 0 .. Len(q)}

(* Wrong on purpose: each attempt takes what is at the front by now. *)
NextRecordAnew(q, rec) == SubSeq(q, 1, Least(RECORD, Len(q)))

(* the record the next SSL_write is given *)
NextRecord(q, rec) ==
    IF rec # <<>> THEN rec ELSE SubSeq(q, 1, Least(RECORD, Len(q)))

(* TLS: any number of whole records; the one that is not accepted stays *)
TlsFlush(q, rec) ==
    LET one == NextRecord(q, rec)
        ends == {k \in Len(one) .. Len(q) :
                    k = Len(q) \/ (k - Len(one)) % RECORD = 0}
        Stops(k) == SubSeq(q, k + 1, Least(k + RECORD, Len(q)))
    IN  {[wrote |-> <<>>, left |-> q, record |-> one, pending |-> one]}
        \cup
        {[wrote |-> one \o SubSeq(q, Len(one) + 1, k),
          left |-> SubSeq(q, k + 1, Len(q)),
          record |-> Stops(k), pending |-> Stops(k)] : k \in ends}

(* OpenSSL refuses a write that does not repeat the one it left pending *)
BadRetry(q) ==
    tls /\ q # <<>> /\ pending # <<>> /\ NextRecord(q, record) # pending

Flushes(q) ==
    IF BadRetry(q) THEN {[wrote |-> <<>>, left |-> q,
                          record |-> NextRecord(q, record), pending |-> pending]}
    ELSE IF tls THEN TlsFlush(q, record)
    ELSE PlainFlush(q)

Flushed(r) ==
    /\ tx' = r.left /\ record' = r.record /\ wire' = wire \o r.wrote
    /\ pending' = r.pending

(* flush() of q: it ends with the queue empty, the socket full or an error *)
flush(q) ==
    \E r \in Flushes(q) :
        /\ Flushed(r)
        /\ up' \in {u \in {up, FALSE} : r.left = <<>> => u = up}
        /\ BadRetry(q) => ~up'

(* queue_frame, then flush *)
QueueAndFlush(id) ==
    /\ queued' = queued \o OutFrame(id)
    /\ flush(tx \o OutFrame(id))

(* Wrong on purpose: frames may precede the upgrade response. *)
MaySendAlways == TRUE

MaySend == done

(* send(): dropped before the upgrade; a queue beyond its cap ends the     *)
(* connection                                                              *)
Send ==
    /\ ~decoding /\ Len(queued) < 2 * MaxFrames
    /\ MaySend /\ up
    /\ IF Len(tx) > WS_MAX_TX_QUEUE
       THEN up' = FALSE /\ UNCHANGED outVars
       ELSE QueueAndFlush(NextId)
    /\ UNCHANGED <<tls, accepted, handshake, done, inVars, peerVars>>

-----------------------------------------------------------------------------
(* Input *)

(* Wrong on purpose: the whole buffer goes with the request. *)
AfterRequestCleared(units) == <<>>

(* only the request is dropped: a frame may have come with it *)
AfterRequest(units) == SubSeq(units, 3, Len(units))

(* check_headers and send_handshake, with rx' the units so far: once the   *)
(* request is complete the response goes out, in one write or several      *)
CheckHeaders(units) ==
    IF done \/ Len(units) < 2
    THEN rx' = units /\ UNCHANGED <<up, handshake, done, wire>>
    ELSE \/ \E h \in handshake .. HANDSHAKE :
              /\ tls => h \in {handshake, HANDSHAKE}
              /\ handshake' = h
              /\ wire' = wire \o [i \in 1 .. h - handshake |-> <<0, handshake + i>>]
              /\ done' = (h = HANDSHAKE)
              /\ rx' = IF h = HANDSHAKE THEN AfterRequest(units) ELSE units
              /\ UNCHANGED up
         \/ /\ up' = FALSE /\ rx' = units /\ UNCHANGED <<handshake, done, wire>>

(* recv() up to decode_frames, or the constructor: the socket is readable, *)
(* the caller's buffer empty.  Without the headers there is nothing to     *)
(* decode.                                                                 *)
RecvBegin ==
    /\ up /\ ~decoding /\ msg = <<>>
    /\ sock # <<>> /\ Len(rx) <= MAX_RX
    /\ \/ /\ tls /\ ~accepted                       \* SSL_accept is not through
          /\ UNCHANGED <<up, accepted, handshake, done, rx, wire, sock, decoding>>
       \/ /\ accepted' = tls
          /\ \E k \in 1 .. Len(sock) :
                /\ sock' = SubSeq(sock, k + 1, Len(sock))
                /\ CheckHeaders(rx \o SubSeq(sock, 1, k))
          /\ decoding' = (up' /\ done')
    /\ UNCHANGED <<tls, msg, fragment, delivered, tx, record, pending, queued, peer>>

(* the end of the peer's stream, too much unread, an error of SSL_accept *)
RecvFails ==
    /\ up /\ ~decoding /\ msg = <<>>
    /\ \/ peer.eof /\ sock = <<>>
       \/ sock # <<>> /\ Len(rx) > MAX_RX
       \/ tls /\ ~accepted
    /\ up' = FALSE
    /\ UNCHANGED <<tls, accepted, handshake, done, inVars, outVars, peerVars>>

(* a complete frame at the front of rx *)
Complete == Len(rx) >= 2 /\ rx[1].frame = rx[2].frame
Frame == rx[1].frame

(* a frame that cannot be taken: malformed, in the wrong place, too much *)
Refused(f) ==
    \/ f.op = "cont" /\ ~fragment
    \/ f.op = "bin" /\ fragment
    \/ f.op \in {"bin", "cont"} /\ Len(msg) + Len(f.payload) > MAX_MESSAGE
    \/ f.op = "bad"

(* decode_frames, one frame: data is appended to msg *)
DecodeData ==
    /\ decoding /\ Complete /\ Frame.op \in {"bin", "cont"} /\ ~Refused(Frame)
    /\ msg' = msg \o Frame.payload
    /\ fragment' = ~Frame.fin
    /\ rx' = SubSeq(rx, 3, Len(rx))
    /\ UNCHANGED <<up, tls, accepted, handshake, done, decoding, delivered,
                   outVars, peerVars>>

(* a ping is answered at once, whatever is queued *)
DecodePing ==
    /\ decoding /\ Complete /\ Frame.op = "ping"
    /\ QueueAndFlush(NextId)
    /\ rx' = SubSeq(rx, 3, Len(rx))
    /\ UNCHANGED <<tls, accepted, handshake, done, msg, fragment, decoding,
                   delivered, peerVars>>

(* a close is echoed and, like a refused frame, ends the connection *)
DecodeEnds ==
    /\ decoding /\ Complete
    /\ \/ /\ Frame.op = "close"
          /\ queued' = queued \o OutFrame(NextId)
          /\ \E r \in Flushes(tx \o OutFrame(NextId)) : Flushed(r)
       \/ Refused(Frame) /\ UNCHANGED outVars
    /\ up' = FALSE /\ decoding' = FALSE
    /\ UNCHANGED <<tls, accepted, handshake, done, rx, msg, fragment, delivered,
                   peerVars>>

(* the first bytes of msg are handed out *)
Take ==
    /\ delivered' = delivered \o SubSeq(msg, 1, Least(BUFFER, Len(msg)))
    /\ msg' = SubSeq(msg, Least(BUFFER, Len(msg)) + 1, Len(msg))

(* recv() after decode_frames: a message that is not complete is not       *)
(* handed out                                                              *)
RecvEnd ==
    /\ decoding /\ ~Complete
    /\ decoding' = FALSE
    /\ IF fragment THEN UNCHANGED <<msg, delivered>> ELSE Take
    /\ UNCHANGED <<up, tls, accepted, handshake, done, rx, fragment, outVars, peerVars>>

(* recv() with something decoded already: it is handed out first *)
RecvRest ==
    /\ ~decoding /\ msg # <<>> /\ (sock # <<>> \/ peer.eof)
    /\ Take
    /\ UNCHANGED <<up, tls, accepted, handshake, done, rx, fragment, decoding,
                   outVars, peerVars>>

-----------------------------------------------------------------------------
(* The peer *)

PeerFrame(f) == sock' = sock \o <<Opening(f), Closing(f)>>

(* data, whole or in fragments, as RFC 6455 has it *)
PeerData ==
    \E n \in Payloads, fin \in BOOLEAN :
        /\ ~peer.eof /\ peer.bytes + n <= MaxBytes
        /\ PeerFrame([op |-> IF peer.open THEN "cont" ELSE "bin", fin |-> fin,
                      payload |-> [i \in 1 .. n |-> peer.bytes + i]])
        /\ peer' = [peer EXCEPT !.bytes = @ + n, !.open = ~fin]

PeerPing ==
    /\ ~peer.eof /\ peer.pings < MaxPings
    /\ PeerFrame([op |-> "ping", fin |-> TRUE, payload |-> <<peer.pings>>])
    /\ peer' = [peer EXCEPT !.pings = @ + 1]

(* a close frame, one this end does not take, or just the end *)
PeerCloses ==
    /\ ~peer.eof
    /\ \/ \E op \in {"close", "bad"} :
             PeerFrame([op |-> op, fin |-> TRUE, payload |-> <<>>])
       \/ UNCHANGED sock
    /\ peer' = [peer EXCEPT !.eof = TRUE]

PeerNext ==
    /\ PeerData \/ PeerPing \/ PeerCloses
    /\ UNCHANGED <<up, tls, accepted, handshake, done, inVars, outVars>>

Next ==
    \/ Send \/ RecvBegin \/ RecvFails \/ RecvRest \/ RecvEnd
    \/ DecodeData \/ DecodePing \/ DecodeEnds \/ PeerNext

Spec == Init /\ [][Next]_vars

-----------------------------------------------------------------------------
(* Properties *)

Response == [i \in 1 .. HANDSHAKE |-> <<0, i>>]

StartsWith(t, s) == Len(s) <= Len(t) /\ SubSeq(t, 1, Len(s)) = s

(* What goes out is the 101 response and then every frame queued, whole,   *)
(* once and in the order of the calls, however the writes are cut up and   *)
(* although pings are answered in between; what is not out is in tx.       *)
WireInOrder ==
    wire \o tx = SubSeq(Response, 1, handshake) \o queued

(* A TLS write that OpenSSL could not finish is repeated with the same     *)
(* units, while the queue behind it grows (the comment on tls_tx; the test *)
(* test_tls_retry_preserves_queued_video).                                 *)
RetrySame == pending # <<>> => record = pending /\ StartsWith(tx, record)

(* what a unit adds to the peer's stream, and a sequence of them *)
Piece(u) ==
    IF u.last /\ u.frame.op \in {"bin", "cont"} THEN u.frame.payload ELSE <<>>

DataIn(units) ==
    LET upTo[i \in 0 .. Len(units)] ==
            IF i = 0 THEN <<>> ELSE upTo[i - 1] \o Piece(units[i])
    IN  upTo[Len(units)]

(* No payload byte of the peer is lost, repeated or moved on its way to    *)
(* the caller, through partial reads, fragments, a frame that comes with   *)
(* the request, and buffers smaller than a message.                        *)
BytesInOrder ==
    LET stream == [i \in 1 .. peer.bytes |-> i]
    IN  /\ StartsWith(stream, delivered \o msg)
        /\ up => delivered \o msg \o DataIn(rx) \o DataIn(sock) = stream

(* A message that is still being put together is not handed out (the       *)
(* comment at the end of recv()). The code does not meet this, and no run  *)
(* checks it: see the README, section 3.                                   *)
WholeMessages ==
    [][fragment /\ fragment' => delivered' = delivered]_vars
==============================================================================
