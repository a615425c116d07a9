------------------------------ MODULE VideoSlot ------------------------------
(***************************************************************************)
(* One slot of the video child: who publishes into it, the backend that    *)
(* muxes for some publishers, the pool of RTMP handshakes, the recorder,   *)
(* the viewers and the loop that serves them all (video.cpp, videorec.cpp, *)
(* videortsp.cpp; the ring and the viewers are VideoView).                 *)
(*                                                                         *)
(* The child has one thread.  A round of its loop takes the events of one  *)
(* epoll_wait, at most one for each descriptor, then pumps the viewers in  *)
(* order and then, every 5 s, runs tick.  Whether a publisher is admitted  *)
(* is VideoAuth; here it may be either.                                    *)
(***************************************************************************)
EXTENDS VideoView, Sequences

CONSTANTS
    Senders,                    \* addresses that send datagrams
    Alike,                      \* those a publisher of a connection may share
    VIDEO_MAX_EPOLL_EVENTS,
    VIDEO_MAX_PENDING_RTMP,
    Record,                     \* VIDEO_SLOT_RECORD of the slot
    Sizes,                      \* what one read or datagram may bring
    NoPub

ASSUME SlotAssumption ==
    /\ VIDEO_MAX_EPOLL_EVENTS \in Nat \ {0}
    /\ VIDEO_MAX_PENDING_RTMP \in Nat \ {0}
    /\ Record \in BOOLEAN /\ Sizes \subseteq Nat \ {0} /\ NoPub \notin Senders
    /\ Alike \subseteq Senders
    /\ "tcp" \notin Senders /\ NoPub # "tcp"

VARIABLES
    turn,       \* 0: events are taken; then the viewer to pump; then tick
    served,     \* the descriptors whose event this round has handled
    tickDue,    \* VIDEO_TICK_S have passed, or last_tick_ was cleared
    pub,        \* has_pub and the latched address, "tcp" for a connection
    age,        \* how long ago pub_last was
    backend,    \* rtsp.running() and its protocol
    exited,     \* the backend has exited and has not been reaped
    client,     \* rtsp_client_fd
    rtmp,       \* the RTMP session that owns the slot
    overdue,    \* RTMP_CODEC_DEADLINE_S have passed since it published
    mkv,        \* mkv_fd
    rtp,        \* rtp_seen > 0
    pending,    \* the pool of handshakes, oldest first: timed out or not
    rec         \* recording, stopped_, and the open segment

loopVars == <<turn, served, tickDue>>
backendVars == <<backend, exited>>
connVars == <<client, rtmp, overdue, mkv, pending>>
vars == <<viewVars, loopVars, pub, age, backendVars, connVars, rtp, rec>>

Ages == {"fresh", "aging", "idle"}
Files == {"none", "any", "own", "old", "mixed"}

TypeOK ==
    /\ ring \in [wp : 0 .. MaxBytes, anchor : -1 .. MaxBytes]
    /\ viewers \in [Table -> Viewer]
    /\ turn \in 0 .. VIDEO_MAX_VIEWERS + 1 /\ tickDue \in BOOLEAN
    /\ pub \in Senders \cup {"tcp", NoPub} /\ age \in Ages
    /\ backend \in {"off", "rtsp", "rtmp", "rtp"} /\ exited \in BOOLEAN
    /\ client \in BOOLEAN /\ rtmp \in BOOLEAN /\ overdue \in BOOLEAN
    /\ mkv \in BOOLEAN /\ rtp \in BOOLEAN
    /\ pending \in Seq(BOOLEAN) /\ Len(pending) <= VIDEO_MAX_PENDING_RTMP
    /\ rec \in [on : BOOLEAN, stopped : BOOLEAN, file : Files]

Init ==
    /\ ring = Empty /\ viewers = [v \in Table |-> Free]
    /\ turn = 0 /\ served = {} /\ tickDue = TRUE
    /\ pub = NoPub /\ age = "fresh" /\ backend = "off" /\ exited = FALSE
    /\ client = FALSE /\ rtmp = FALSE /\ overdue = FALSE /\ mkv = FALSE
    /\ rtp = FALSE /\ pending = <<>>
    /\ rec = [on |-> FALSE, stopped |-> FALSE, file |-> "none"]

Event(fd) ==
    /\ turn = 0 /\ fd \notin served
    /\ Cardinality(served) < VIDEO_MAX_EPOLL_EVENTS
    /\ served' = served \cup {fd}
    /\ turn' = turn

(* The stream comes over a connection or through a backend, as app_proto *)
(* of write_conn_rows tells; else it is MPEG-TS in datagrams.            *)
Connected == mkv \/ client \/ rtp \/ backend # "off"

(***************************************************************************)
(* VideoWriter                                                             *)
(***************************************************************************)
Closed(f) == [f EXCEPT !.file = "none"]

(* The recorder's part of ingest: nothing, or the bytes are written, to a *)
(* new segment after a cut or when there is none; or no segment can be    *)
(* opened; or the disk is full, which stops recording.                    *)
Recorded(f, conn) ==
    LET new == [f EXCEPT !.file = IF conn THEN "own" ELSE "any"]
        more == [f EXCEPT !.file = IF @ = "old" THEN "mixed" ELSE @]
    IN  IF ~f.on \/ f.stopped THEN {f}
        ELSE {Closed(f), new, [Closed(f) EXCEPT !.stopped = TRUE]}
               \cup (IF f.file = "none" THEN {} ELSE {more})

(* latch_publisher on the recorder: the segment is not closed. *)
Relatched(f) ==
    [f EXCEPT !.on = Record, !.file = IF @ = "own" THEN "old" ELSE @]

(***************************************************************************)
(* Taking the slot and giving it up                                        *)
(***************************************************************************)
Held == pub # NoPub /\ age # "idle"

(* the test of handle_udp, handle_rtsp and promote_pending *)
Busy == mkv \/ backend # "off" \/ client \/ Held

(* latch_publisher, but for the ring and the recorder *)
Latch(p) ==
    /\ pub' = p /\ age' = "fresh" /\ tickDue' = TRUE

Outlive == [v \in Table |-> Outlived(viewers[v])]

(* end_stream; drop_viewer also asks for an early tick. *)
EndStream ==
    /\ ring' = Empty
    /\ viewers' = [v \in Table |-> Free]

Prompt == tickDue' = (tickDue \/ \E v \in Table : Active(v))

(* what every way of releasing a publisher does *)
Release ==
    /\ pub' = NoPub /\ age' = "fresh" /\ rtp' = FALSE
    /\ rec' = [Closed(rec) EXCEPT !.on = FALSE]
    /\ EndStream

close_rtsp ==
    /\ Release
    /\ backend' = "off" /\ exited' = FALSE
    /\ client' = FALSE /\ rtmp' = FALSE /\ overdue' = FALSE
    /\ UNCHANGED mkv

close_mkv ==
    /\ Release
    /\ mkv' = FALSE
    /\ UNCHANGED <<backendVars, client, rtmp, overdue>>

(* the connection of the publisher is over, at an event *)
Gone == close_rtsp /\ Prompt /\ UNCHANGED pending

(***************************************************************************)
(* Datagrams.  One that is refused changes nothing.                        *)
(***************************************************************************)
(* ingest and ingest_stream, or the scanner's and the ring's part of *)
(* pump_mkv, from ring r and recorder f                              *)
Ingest(r, f, conn) ==
    \E n \in Sizes, key \in BOOLEAN :
        /\ r.wp + n <= MaxBytes
        /\ ring' = Fed(r, n, key)
        /\ rec' \in Recorded(f, conn)

(* ingest_rtp: the codec is not known yet, or the backend is started or *)
(* fails to start.                                                      *)
IngestRtp ==
    /\ rtp' = TRUE
    /\ backend' \in {"off", "rtp"}
    /\ UNCHANGED exited

(* ingest_udp.  The scanner has seen no packet while nothing is written. *)
IngestUdp(r, f, seen) ==
    \/ /\ backend # "off"
       /\ ring' = r /\ rec' = f /\ rtp' = seen
       /\ UNCHANGED backendVars
    \/ /\ backend = "off" /\ (seen \/ r.wp = 0)
       /\ ring' = r /\ rec' = f
       /\ IngestRtp
    \/ /\ backend = "off" /\ ~seen
       /\ \/ ring' = r /\ rec' = f
          \/ Ingest(r, f, FALSE)
       /\ rtp' = seen
       /\ UNCHANGED backendVars

(* The sender is compared with the latched address and port only, which   *)
(* may also be those of a connection.                                     *)
FromPublisher(p) ==
    /\ pub \in IF p \in Alike THEN {p, "tcp"} ELSE {p}
    /\ age' = "fresh"
    /\ IngestUdp(ring, rec, rtp)
    /\ UNCHANGED <<pub, tickDue, viewers>>

NewSender(p) ==
    /\ pub # p /\ ~Busy
    /\ Latch(p)
    /\ viewers' = Outlive
    /\ IngestUdp(Empty, Relatched(rec), FALSE)

handle_udp(p) ==
    /\ Event(<<"udp">>)
    /\ ~mkv
    /\ FromPublisher(p) \/ NewSender(p)
    /\ UNCHANGED connVars

(***************************************************************************)
(* Connections                                                             *)
(***************************************************************************)
(* handle_tcp; the per-address limit may refuse instead. *)
handle_tcp ==
    /\ Event(<<"tcp">>)
    /\ \E v \in Table : ~Active(v)
    /\ viewers' = [viewers EXCEPT ![Min({v \in Table : ~Active(v)})] = start]
    /\ UNCHANGED <<ring, tickDue, pub, age, backendVars, connVars, rtp, rec>>

Replaced(v, w) ==
    /\ viewers' = [viewers EXCEPT ![v] = w]
    /\ tickDue' = (tickDue \/ w.st = "free")
    /\ UNCHANGED <<ring, pub, age, backendVars, connVars, rtp, rec>>

(* an event of a viewer's socket *)
ViewerEvent(v) ==
    /\ Event(<<"viewer", v>>)
    /\ Active(v)
    /\ \E w \in Heard(viewers[v], ring, Connected, ~mkv)
                 \cup Written(viewers[v], ring) : Replaced(v, w)

(* the take-over of a slot by a connection *)
TakeSlot ==
    /\ Latch("tcp")
    /\ ring' = Empty /\ rtp' = FALSE
    /\ rec' = Relatched(rec)

handle_rtsp ==
    /\ ~Busy
    /\ TakeSlot
    /\ backend' = "rtsp" /\ client' = TRUE
    /\ UNCHANGED <<exited, rtmp, overdue, mkv, pending>>

(* the RTMP half of handle_rtsp: a handshake joins the pool *)
JoinPool ==
    /\ pending' = Append(IF Len(pending) = VIDEO_MAX_PENDING_RTMP
                         THEN Tail(pending) ELSE pending, FALSE)
    /\ UNCHANGED <<ring, tickDue, pub, age, backendVars, client, rtmp, overdue,
                   mkv, rtp, rec>>

handle_mkv ==
    /\ pub = NoPub /\ backend = "off" /\ ~mkv
    /\ TakeSlot
    /\ mkv' = TRUE
    /\ UNCHANGED <<backendVars, client, rtmp, overdue, pending>>

(* pump_viewers at table entry v, which turns out to be a publisher: it *)
(* leaves the table and takes the slot, joins the pool or is refused.   *)
HandOn(v) ==
    LET left == [viewers EXCEPT ![v] = Free]
    IN  \/ /\ viewers[v].st \in {"rtsp", "mkv"}
           /\ viewers' = left
           /\ UNCHANGED <<ring, tickDue, pub, age, backendVars, connVars, rtp,
                          rec>>
        \/ /\ viewers[v].st = "rtmp"
           /\ viewers' = left
           /\ JoinPool
        \/ /\ \/ viewers[v].st = "rtsp" /\ handle_rtsp
              \/ viewers[v].st = "mkv" /\ handle_mkv
           /\ viewers' = [Outlive EXCEPT ![v] = Free]

Publishing == {"rtsp", "rtmp", "mkv"}

pump_viewers ==
    /\ turn \in Table
    /\ turn' = turn + 1
    /\ \/ viewers[turn].st \in Publishing /\ HandOn(turn)
       \/ /\ viewers[turn].st \notin Publishing \cup {"free"}
          /\ \E w \in Pumped(viewers[turn], ring, Connected) :
                Replaced(turn, w)
       \/ /\ viewers[turn].st = "free"
          /\ UNCHANGED <<viewVars, tickDue, pub, age, backendVars, connVars, rtp,
                         rec>>
    /\ UNCHANGED served

(***************************************************************************)
(* The RTMP pool: a handshake ends, or it publishes and is refused, or it  *)
(* is promoted, with its codec known or not, or ended at once by an error  *)
(* in what it sent behind the publish.  One that only goes on changes      *)
(* nothing here.                                                           *)
(***************************************************************************)
Without(i) == SubSeq(pending, 1, i - 1) \o SubSeq(pending, i + 1, Len(pending))

EndPending ==
    UNCHANGED <<viewVars, tickDue, pub, age, backendVars, client, rtmp, overdue,
                mkv, rtp, rec>>

promote_pending ==
    /\ ~Busy
    /\ \/ close_rtsp /\ tickDue' = TRUE
       \/ /\ TakeSlot
          /\ viewers' = Outlive
          /\ client' = TRUE /\ rtmp' = TRUE /\ overdue' = FALSE
          /\ backend' \in {"off", "rtmp"}
          /\ UNCHANGED <<exited, mkv>>

pump_pending ==
    /\ Event(<<"pending", Len(pending)>>)
    /\ \E i \in 1 .. Len(pending) : pending' = Without(i)
    /\ EndPending \/ promote_pending

(***************************************************************************)
(* The publisher that owns the slot                                        *)
(***************************************************************************)
Refreshed ==
    /\ age' = "fresh"
    /\ UNCHANGED <<viewers, tickDue, pub, exited, connVars, rtp>>

(* pump_rtsp and pump_rtmp on the client's socket: it is gone, or its     *)
(* request is refused, or its backend does not start; or its bytes count. *)
ClientEvent ==
    /\ Event(<<"client">>)
    /\ client
    /\ \/ Gone
       \/ /\ Refreshed
          /\ backend' \in IF rtmp /\ backend = "off" THEN {"off", "rtmp"}
                          ELSE {backend}
          /\ UNCHANGED <<ring, rec>>

(* the socket between the child and its backend *)
BackendEvent ==
    /\ Event(<<"backend">>)
    /\ \/ /\ backend \in {"rtsp", "rtmp"}
          /\ Gone
       \/ /\ backend = "rtsp"
          /\ Refreshed
          /\ UNCHANGED <<backend, ring, rec>>

(* the backend's stdout: closed, by a backend that has exited or not, or   *)
(* media from it                                                           *)
MediaEvent ==
    /\ Event(<<"media">>)
    /\ backend # "off"
    /\ \/ Gone
       \/ /\ Refreshed
          /\ Ingest(ring, rec, TRUE)
          /\ UNCHANGED backend

pump_mkv ==
    /\ Event(<<"mkv">>)
    /\ mkv
    /\ \/ close_mkv /\ Prompt /\ UNCHANGED pending
       \/ /\ Refreshed
          /\ \/ Ingest(ring, rec, TRUE)
             \/ UNCHANGED <<ring, rec>>
          /\ UNCHANGED backend

(* the backend process ends *)
BackendExits ==
    /\ turn = 0 /\ served = {}
    /\ backend # "off" /\ ~exited
    /\ exited' = TRUE
    /\ UNCHANGED <<viewVars, loopVars, pub, age, backend, connVars, rtp, rec>>

(***************************************************************************)
(* The loop                                                                *)
(***************************************************************************)
EndEvents ==
    /\ turn = 0
    /\ turn' = 1 /\ served' = {}
    /\ UNCHANGED <<viewVars, tickDue, pub, age, backendVars, connVars,
                   rtp, rec>>

(* Wrong on purpose: every publisher is just forgotten. *)
SplicedNever == FALSE

(* A spliced publisher has to be torn down, not just forgotten. *)
Spliced == backend # "off" \/ client

(* Wrong on purpose: there is no codec deadline. *)
NoCodecNever == FALSE

(* accepted, but it never said what it is sending *)
NoCodec == rtmp /\ backend = "off" /\ overdue

(* the pool without the handshakes that have timed out *)
InTime ==
    LET left == {i \in 1 .. Len(pending) : ~pending[i]}
    IN  [n \in 1 .. Cardinality(left) |-> FALSE]

tick ==
    LET idle == pub # NoPub /\ age = "idle"
        gone == exited \/ NoCodec \/ (idle /\ Spliced)
    IN  /\ tickDue' = FALSE
        /\ pending' = InTime
        /\ \/ mkv /\ idle /\ close_mkv
           \/ ~(mkv /\ idle) /\ gone /\ close_rtsp
           \/ /\ idle /\ ~mkv /\ ~gone
              /\ Release
              /\ UNCHANGED <<backendVars, client, rtmp, overdue, mkv>>
           \/ /\ ~idle /\ ~gone
              /\ UNCHANGED <<viewVars, pub, age, backendVars, client, rtmp,
                             overdue, mkv, rtp, rec>>

EndRound ==
    /\ turn = VIDEO_MAX_VIEWERS + 1
    /\ turn' = 0 /\ UNCHANGED served
    /\ \/ tickDue /\ tick
       \/ /\ ~tickDue
          /\ UNCHANGED <<viewVars, tickDue, pub, age, backendVars, connVars, rtp,
                         rec>>

(* time passes in epoll_wait *)
Elapse ==
    /\ turn = 0 /\ served = {}
    /\ age' = IF pub = NoPub THEN age
              ELSE IF age = "fresh" THEN "aging" ELSE "idle"
    /\ overdue' = rtmp
    /\ pending' = [i \in 1 .. Len(pending) |-> TRUE]
    /\ viewers' = [v \in Table |-> Older(viewers[v])]
    /\ UNCHANGED <<ring, loopVars, pub, backendVars, client, rtmp, mkv, rtp, rec>>

TickComesDue ==
    /\ turn = 0 /\ served = {}
    /\ tickDue' = TRUE
    /\ UNCHANGED <<viewVars, turn, served, pub, age, backendVars, connVars, rtp,
                   rec>>

Loop == EndEvents \/ pump_viewers \/ EndRound

Next ==
    \/ \E p \in Senders : handle_udp(p)
    \/ handle_tcp
    \/ \E v \in Table : ViewerEvent(v)
    \/ pump_pending
    \/ ClientEvent
    \/ BackendEvent
    \/ MediaEvent
    \/ pump_mkv
    \/ BackendExits
    \/ Loop
    \/ Elapse
    \/ TickComesDue

Spec == Init /\ [][Next]_vars

(* epoll_wait returns within a second and the round then always reaches its *)
(* end; time passes.                                                        *)
FairSpec == Spec /\ WF_vars(Loop) /\ SF_vars(Elapse) /\ SF_vars(TickComesDue)

(***************************************************************************)
(* Properties                                                              *)
(***************************************************************************)
(* What can feed the ring belongs to the one publisher that is latched: a   *)
(* datagram sender with at most an RTP backend, a spliced RTSP client, an   *)
(* RTMP session with at most its own backend, or a Matroska connection;     *)
(* only a datagram sender with the address and port of an RTMP publisher    *)
(* can start another backend for it.  In particular nothing holds the slot  *)
(* that tick would not find by has_pub (the tests of handle_udp,            *)
(* handle_rtsp, handle_mkv and promote_pending; close_rtsp; tick).          *)
Source(u, c, m, r, b) ==
    u = (pub \in Senders) /\ client = c /\ mkv = m /\ rtmp = r /\ backend \in b

OneSource ==
    IF pub = NoPub
    THEN Source(FALSE, FALSE, FALSE, FALSE, {"off"})
    ELSE \/ Source(TRUE, FALSE, FALSE, FALSE, {"off", "rtp"})
         \/ Source(FALSE, TRUE, FALSE, FALSE, {"rtsp"})
         \/ Source(FALSE, TRUE, FALSE, TRUE, {"off", "rtmp"})
         \/ Source(FALSE, TRUE, FALSE, TRUE, {"rtp"}) /\ Alike # {}
         \/ Source(FALSE, FALSE, TRUE, FALSE, {"off"})

(* Not met by the code: a datagram sender never mixes into the stream of    *)
(* a connection (the comment of handle_udp: "a second sender behind the     *)
(* same NAT must not be able to interleave into the stream").  A datagram   *)
(* from the address and port of an RTMP publisher that has not named its    *)
(* codec starts a backend of its own.                                       *)
NoInterleaving == ~(rtmp /\ backend = "rtp")

(* A viewer gets, and a recorded segment holds, the bytes of one stream and *)
(* none that were overwritten, provided that stream came over a connection  *)
(* or through a backend: those publishers' streams end with end_stream and  *)
(* close_segment before another can be latched.                             *)
WholeStream ==
    /\ \A v \in Table : viewers[v].bytes # "mixed"
    /\ rec.file # "mixed"

(* Nobody keeps the slot for ever in silence, and no RTMP publisher keeps   *)
(* it for ever by talking without naming a codec (tick, reap and the idle   *)
(* and codec deadlines).                                                    *)
SlotReleased == []<>(age = "fresh" /\ ~(rtmp /\ backend = "off"))

(* A viewer that takes nothing of what waits for it does not keep its place *)
(* in the table (the stalled and the lapped test of on_writable).           *)
Stalled(v) ==
    viewers[v].st \in {"stream", "play"} /\ viewers[v].late
      /\ viewers[v].pos < ring.wp

ViewersMove == \A v \in Table : []<>~Stalled(v)
==============================================================================
