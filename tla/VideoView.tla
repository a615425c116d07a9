------------------------------ MODULE VideoView ------------------------------
(***************************************************************************)
(* The ring of one video slot and the table of TCP connections that read   *)
(* from it (VideoRing in videostream.cpp, VideoViewer in videoview.cpp,    *)
(* RtspViewer in videortspview.cpp).                                       *)
(*                                                                         *)
(* Positions count units of stream data and start at 0 with each stream,   *)
(* as write_pos_ does.  What a send or a peer's bytes may do to a viewer   *)
(* is the set of the viewers it may turn into; Free stands for drop_viewer. *)
(***************************************************************************)
EXTENDS Integers, FiniteSetsExt

CONSTANTS
    CAP,            \* video_ring_bytes
    CHUNK,          \* VIDEO_VIEWER_WRITE_CHUNK
    MaxBytes,       \* bounds the data of one stream
    VIDEO_MAX_VIEWERS

ASSUME ViewAssumption ==
    /\ CAP \in Nat \ {0} /\ CHUNK \in Nat \ {0} /\ MaxBytes \in Nat
    /\ VIDEO_MAX_VIEWERS \in Nat \ {0}

VARIABLES
    ring,       \* write_pos_, and the join offset the scanner has found
    viewers     \* the table

viewVars == <<ring, viewers>>

NoAnchor == -1
Empty == [wp |-> 0, anchor |-> NoAnchor]

(* VideoRing::reset keeps the buffer, and init replaces it. *)
oldest(r) == IF r.wp > CAP THEN r.wp - CAP ELSE 0

(* Wrong on purpose: what was overwritten counts as there. *)
residentLapped(r, pos) == pos <= r.wp

resident(r, pos) == oldest(r) <= pos /\ pos <= r.wp

(* The buffer still holds at pos % CAP what was written as byte pos. *)
Intact(r, pos) == pos < r.wp /\ r.wp - pos <= CAP

(* VideoScanner::feed and VideoRing::write: key when the data completes a *)
(* join point.                                                            *)
Fed(r, n, key) ==
    [wp |-> r.wp + n, anchor |-> IF key THEN r.wp ELSE r.anchor]

(***************************************************************************)
(* A viewer.  st refines viewer_state by what on_readable has found:       *)
(* "rtsp", "rtmp" and "mkv" are publishers to be handed on, "ws" a         *)
(* WebSocket before its stream, "reply" and "fail" VV_RESPONDING with and  *)
(* without a stream to follow; "talk", "play" and "pause" are an RTSP      *)
(* viewer before its first PLAY, playing_ and after a PAUSE.  bytes is     *)
(* history of a viewer whose stream was published over a connection or     *)
(* through a backend: it got that stream's bytes only ("own"), or may get  *)
(* others since a new publisher has been latched ("old"), or did           *)
(* ("mixed").  Streams of datagrams are not followed ("any").              *)
(***************************************************************************)
States == {"free", "detect", "rtsp", "rtmp", "mkv", "ws", "reply", "fail",
           "stream", "talk", "play", "pause"}

Viewer == [st : States, pos : 0 .. MaxBytes,
           bytes : {"any", "own", "old", "mixed"},
           behind : {"no", "since", "long"}, late : BOOLEAN]

Free == [st |-> "free", pos |-> 0, bytes |-> "any", behind |-> "no",
         late |-> FALSE]

start == [Free EXCEPT !.st = "detect"]

Table == 1 .. VIDEO_MAX_VIEWERS
Active(v) == viewers[v].st # "free"
Watching(w) == w.st \in {"reply", "stream", "play", "pause"}

(* begin_stream and the last part of begin_ws: the next state is st, or *)
(* "fail" where there is no join point or it has been overwritten.      *)
Joined(r, conn, st) ==
    IF r.anchor # NoAnchor /\ resident(r, r.anchor)
    THEN [Free EXCEPT !.st = st, !.pos = r.anchor,
                      !.bytes = IF conn THEN "own" ELSE "any"]
    ELSE [Free EXCEPT !.st = "fail"]

(* RtspViewer::request.  The first PLAY joins at the anchor; after a PAUSE *)
(* it goes on where it was, or at the anchor if that has been overwritten. *)
Playing(w, r, conn) ==
    LET j == Joined(r, conn, "play")
    IN  CASE w.st = "play" \/ (w.st = "pause" /\ resident(r, w.pos)) ->
               [w EXCEPT !.st = "play", !.late = FALSE]
          [] j.st = "fail" -> w
          [] w.st = "talk" -> j
          [] OTHER -> [w EXCEPT !.st = "play", !.pos = j.pos,
                                !.bytes = IF @ = "old" THEN "mixed" ELSE @]

Paused(w) ==
    IF w.st = "play" THEN [w EXCEPT !.st = "pause", !.late = FALSE] ELSE w

(* RtspViewer::on_readable: one read may carry several requests.  The one *)
(* that ends the session leaves a reply to be sent, and Matroska is not   *)
(* played (415).                                                          *)
Requested(w, r, conn, ts) ==
    LET q == Playing(Paused(w), r, conn)
    IN  {w, Free, [Free EXCEPT !.st = "fail"], Paused(w)}
          \cup (IF ts THEN {Playing(w, r, conn), q, Paused(q)} ELSE {})

(* on_readable; ts unless the scanner is in Matroska *)
Heard(w, r, conn, ts) ==
    CASE w.st = "detect" ->
           {w, Free, [Free EXCEPT !.st = "fail"], Joined(r, conn, "reply")}
             \cup {[Free EXCEPT !.st = st] : st \in {"rtsp", "rtmp", "mkv", "ws"}}
             \cup Requested([Free EXCEPT !.st = "talk"], r, conn, ts)
      [] w.st \in {"talk", "play", "pause"} -> Requested(w, r, conn, ts)
      [] w.st \in {"rtsp", "rtmp", "mkv", "ws"} -> {w}
      [] OTHER -> {w, Free}

(* The checks at the end of on_writable: chronically behind, stalled. *)
Slow(w, r) == r.wp - w.pos > CAP \div 2
Lagging(w, r) ==
    [w EXCEPT !.behind = IF ~Slow(w, r) THEN "no"
                         ELSE IF @ = "no" THEN "since" ELSE @]

(* Wrong on purpose: only a viewer that is far behind is dropped. *)
KeptStalled(w, r) ==
    IF Slow(w, r) /\ w.behind = "long" THEN Free ELSE Lagging(w, r)

Kept(w, r) ==
    IF \/ Slow(w, r) /\ w.behind = "long"
       \/ r.wp > w.pos /\ w.late
    THEN Free
    ELSE Lagging(w, r)

(* on_writable in VV_STREAMING, when the socket takes k bytes *)
Sent(w, r, k) ==
    IF k = 0 THEN w
    ELSE [w EXCEPT !.pos = @ + k, !.late = FALSE,
                   !.bytes = IF @ = "any" \/ (@ = "own" /\ Intact(r, w.pos))
                             THEN @ ELSE "mixed"]

Room(w, r) == Min({CHUNK, r.wp - w.pos})

Pushed(w, r) ==
    IF ~resident(r, w.pos) THEN {Free}
    ELSE {Free} \cup {Kept(Sent(w, r, k), r) : k \in 0 .. Room(w, r)}

(* RtspViewer::on_writable while playing_.  What is copied from the ring    *)
(* waits in out_, and nothing more is copied until that is sent: nothing    *)
(* new means that the socket takes part of it or nothing, and nothing for   *)
(* too long ends the viewer.                                                *)
Played(w, r) ==
    IF ~resident(r, w.pos) THEN {Free}
    ELSE {Free, [w EXCEPT !.late = w.late /\ w.pos = r.wp]}
           \cup {Sent(w, r, k) : k \in 1 .. Room(w, r)}

(* on_writable *)
Written(w, r) ==
    CASE w.st \in {"fail", "talk", "pause"} -> {w, Free}
      [] w.st = "play" -> Played(w, r)
      [] w.st = "reply" -> {w} \cup Pushed([w EXCEPT !.st = "stream"], r)
      [] w.st = "stream" -> Pushed(w, r)
      [] OTHER -> {w}

(* A WebSocket's handshake is driven, and its stream starts once there is *)
(* a join point.                                                          *)
begin_ws(w, r, conn) ==
    {w, Free} \cup (IF r.anchor = NoAnchor THEN {}
                    ELSE {Joined(r, conn, "stream")})

(* After the silence a raw client is refused, or started and pushed to. *)
detect_timeout(r, conn) == {Free} \cup Written(Joined(r, conn, "stream"), r)

(* what pump_viewers does with a connection that is not a publisher *)
Pumped(w, r, conn) ==
    CASE w.st = "ws" -> begin_ws(w, r, conn)
      [] w.st = "detect" /\ ~w.late -> {w}
      [] w.st = "detect" /\ w.late -> detect_timeout(r, conn)
      [] OTHER -> Written(w, r)

(* time passes for the deadlines of a viewer *)
Older(w) ==
    IF w.st = "detect" \/ (Watching(w) /\ w.st # "pause")
    THEN [w EXCEPT !.late = TRUE,
                   !.behind = IF @ = "since" THEN "long" ELSE @]
    ELSE w

(* A new publisher is latched: whoever is watching joined another stream. *)
Outlived(w) == IF Watching(w) /\ w.bytes = "own"
               THEN [w EXCEPT !.bytes = "old"] ELSE w
==============================================================================
