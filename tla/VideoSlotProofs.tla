--------------------------- MODULE VideoSlotProofs ---------------------------
(***************************************************************************)
(* One publisher feeds a slot, and a viewer or a recorded segment of a     *)
(* connected publisher gets that one stream only, for every value of the   *)
(* constants.                                                              *)
(*                                                                         *)
(* OneSource is inductive.  WholeStream needs more: whoever watches such a *)
(* stream does so while its publisher is still connected, so no latch can  *)
(* come in between.  Plain RTP is the delicate case, since a sender of RTP *)
(* counts as connected before its backend runs: nothing has been written   *)
(* to the ring then, so nobody can have joined.                            *)
(***************************************************************************)
EXTENDS VideoSlot, FiniteSetTheorems, SequenceTheorems, TLAPS

Ring == [wp : 0 .. MaxBytes, anchor : -1 .. MaxBytes]
Recorder == [on : BOOLEAN, stopped : BOOLEAN, file : Files]

(* a publisher that only close_rtsp or close_mkv can remove *)
Carried == mkv \/ client \/ backend # "off"

(* a segment of a stream that came over a connection *)
Tied(f) == f.file \notin {"none", "any"}

ViewerOK(w) == w.bytes # "any" => w.bytes = "own" /\ Carried
RecorderOK(f) == Tied(f) => f.file = "own" /\ (mkv \/ backend # "off")

SlotInv ==
    /\ ring \in Ring /\ viewers \in [Table -> Viewer] /\ rec \in Recorder
    /\ OneSource
    /\ rtp \in BOOLEAN /\ (rtp => pub # NoPub /\ ~mkv)
    /\ exited => backend # "off"
    /\ ring.wp = 0 => ring.anchor = NoAnchor
    /\ rtp /\ backend = "off" => ring.anchor = NoAnchor
    /\ \A v \in Table : ViewerOK(viewers[v])
    /\ RecorderOK(rec)

-----------------------------------------------------------------------------
(* The least of two numbers, as on_writable takes it. *)
LEMMA MinOfTwo ==
    ASSUME NEW a \in Int, NEW b \in Int
    PROVE  Min({a, b}) = IF a <= b THEN a ELSE b
  <1> DEFINE m == IF a <= b THEN a ELSE b
  <1>1. m \in {a, b} /\ \A y \in {a, b} : m <= y
    OBVIOUS
  <1>2. \A x \in {a, b} : (\A y \in {a, b} : x <= y) => x = m
    OBVIOUS
  <1> HIDE DEF m
  <1>3. Min({a, b}) = m
    BY <1>1, <1>2 DEF Min
  <1> QED
    BY <1>3 DEF m

(* The empty ring and a free place are values of their types. *)
LEMMA EmptyTypes ==
    /\ Empty \in Ring /\ Empty.wp = 0 /\ Empty.anchor = NoAnchor
    /\ Free \in Viewer /\ Free.bytes = "any"
    /\ start \in Viewer /\ start.bytes = "any"
  <1>1. 0 \in 0 .. MaxBytes /\ -1 \in -1 .. MaxBytes
    BY ViewAssumption
  <1>2. Empty \in Ring /\ Empty.wp = 0 /\ Empty.anchor = NoAnchor
    BY <1>1 DEF Empty, NoAnchor, Ring
  <1>3. Free \in Viewer /\ Free.bytes = "any"
    BY <1>1 DEF Free, Viewer, States
  <1>4. start \in Viewer /\ start.bytes = "any"
    BY <1>1 DEF start, Free, Viewer, States
  <1> QED
    BY <1>2, <1>3, <1>4

(* What a viewer may turn into: still a viewer, on one stream, and on a    *)
(* connected one only if it was before or joins one now.                   *)
Follows(x, w, r, conn) ==
    /\ x \in Viewer
    /\ \/ x.bytes = "any"
       \/ x.bytes = "own" /\ (w.bytes = "own" \/ (conn /\ r.anchor # NoAnchor))

(* begin_stream *)
LEMMA JoinedFollows ==
    ASSUME NEW w, NEW r \in Ring, NEW conn \in BOOLEAN, NEW st \in States
    PROVE  Follows(Joined(r, conn, st), w, r, conn)
  <1>1. r.anchor \in Int /\ r.wp \in 0 .. MaxBytes /\ MaxBytes \in Nat /\ CAP \in Nat
    BY ViewAssumption DEF Ring
  <1>2. CASE r.anchor # NoAnchor /\ resident(r, r.anchor)
    <2>1. r.anchor \in 0 .. MaxBytes
      BY <1>1, <1>2 DEF resident, oldest
    <2>2. Joined(r, conn, st) =
            [Free EXCEPT !.st = st, !.pos = r.anchor,
                         !.bytes = IF conn THEN "own" ELSE "any"]
      BY <1>2 DEF Joined
    <2> QED
      BY <1>2, <2>1, <2>2 DEF Follows, Viewer, Free
  <1>3. CASE ~(r.anchor # NoAnchor /\ resident(r, r.anchor))
    <2>1. Joined(r, conn, st) = [Free EXCEPT !.st = "fail"]
      BY <1>3 DEF Joined
    <2> QED
      BY <2>1, EmptyTypes DEF Follows, Viewer, Free, States
  <1> QED
    BY <1>2, <1>3

(* on_writable while streaming: whatever is sent is what was written there *)
LEMMA PushedFollows ==
    ASSUME NEW w \in Viewer, w.bytes \in {"any", "own"}, NEW r \in Ring,
           NEW x \in Pushed(w, r)
    PROVE  x \in Viewer /\ x.bytes \in {"any", w.bytes}
  <1>1. /\ w.pos \in Nat /\ r.wp \in 0 .. MaxBytes /\ MaxBytes \in Nat
        /\ CAP \in Nat /\ CHUNK \in Nat
    BY ViewAssumption DEF Ring, Viewer
  <1>2. CASE x = Free
    BY <1>2, EmptyTypes
  <1>3. CASE x # Free
    <2>1. resident(r, w.pos)
      BY <1>3 DEF Pushed
    <2>2. PICK k \in 0 .. Room(w, r) : x = Kept(Sent(w, r, k), r)
      BY <1>3, <2>1 DEF Pushed
    <2>3. oldest(r) <= w.pos /\ w.pos <= r.wp
      BY <2>1 DEF resident
    <2>4. k \in Nat /\ w.pos + k <= r.wp
      <3>1. Room(w, r) = IF CHUNK <= r.wp - w.pos THEN CHUNK ELSE r.wp - w.pos
        BY <1>1, MinOfTwo DEF Room
      <3> QED
        BY <1>1, <2>2, <2>3, <3>1
    <2>5. ASSUME k # 0 PROVE Intact(r, w.pos)
      BY <1>1, <2>3, <2>4, <2>5 DEF Intact, oldest
    <2>6. w.pos + k \in 0 .. MaxBytes
      BY <1>1, <2>4
    <2>7. Sent(w, r, k) \in Viewer /\ Sent(w, r, k).bytes = w.bytes
      BY <2>5, <2>6 DEF Sent, Viewer
    <2> DEFINE s == Sent(w, r, k)
    <2> HIDE DEF s
    <2>8. Lagging(s, r) \in Viewer /\ Lagging(s, r).bytes = s.bytes
      <3>1. s \in Viewer
        BY <2>7 DEF s
      <3>2. (IF ~Slow(s, r) THEN "no" ELSE IF s.behind = "no" THEN "since"
             ELSE s.behind) \in {"no", "since", "long"}
        BY <3>1 DEF Viewer
      <3> QED
        BY <3>1, <3>2 DEF Lagging, Viewer
    <2>9. x \in {Free, Lagging(s, r)}
      BY <2>2 DEF Kept, s
    <2> QED
      BY <1>3, <2>7, <2>8, <2>9 DEF s
  <1> QED
    BY <1>2, <1>3

(* RtspViewer::on_writable: the same, when the data is copied *)
LEMMA PlayedFollows ==
    ASSUME NEW w \in Viewer, w.bytes \in {"any", "own"}, NEW r \in Ring,
           NEW x \in Played(w, r)
    PROVE  x \in Viewer /\ x.bytes \in {"any", w.bytes}
  <1>1. /\ w.pos \in Nat /\ r.wp \in 0 .. MaxBytes /\ MaxBytes \in Nat
        /\ CAP \in Nat /\ CHUNK \in Nat
    BY ViewAssumption DEF Ring, Viewer
  <1>2. CASE x = Free
    BY <1>2, EmptyTypes
  <1>3. CASE x = [w EXCEPT !.late = w.late /\ w.pos = r.wp]
    BY <1>3 DEF Viewer
  <1>4. CASE resident(r, w.pos) /\ \E k \in 1 .. Room(w, r) : x = Sent(w, r, k)
    <2>1. PICK k \in 1 .. Room(w, r) : x = Sent(w, r, k)
      BY <1>4
    <2>2. oldest(r) <= w.pos /\ w.pos <= r.wp
      BY <1>4 DEF resident
    <2>3. k \in Nat /\ k # 0 /\ w.pos + k <= r.wp
      <3>1. Room(w, r) = IF CHUNK <= r.wp - w.pos THEN CHUNK ELSE r.wp - w.pos
        BY <1>1, MinOfTwo DEF Room
      <3> QED
        BY <1>1, <2>1, <2>2, <3>1
    <2>4. Intact(r, w.pos)
      BY <1>1, <2>2, <2>3 DEF Intact, oldest
    <2>5. w.pos + k \in 0 .. MaxBytes
      BY <1>1, <2>3
    <2> QED
      BY <2>1, <2>3, <2>4, <2>5 DEF Sent, Viewer
  <1> QED
    BY <1>2, <1>3, <1>4 DEF Played

(* on_writable *)
LEMMA WrittenFollows ==
    ASSUME NEW w \in Viewer, w.bytes \in {"any", "own"}, NEW r \in Ring,
           NEW x \in Written(w, r)
    PROVE  x \in Viewer /\ x.bytes \in {"any", w.bytes}
  <1>1. CASE x \in {w, Free}
    BY <1>1, EmptyTypes
  <1>2. CASE x \notin {w, Free} /\ w.st = "reply"
    <2> DEFINE s == [w EXCEPT !.st = "stream"]
    <2>1. s \in Viewer /\ s.bytes = w.bytes
      BY DEF Viewer, States
    <2>2. x \in Pushed(s, r)
      BY <1>2 DEF Written
    <2> HIDE DEF s
    <2> QED
      BY <2>1, <2>2, PushedFollows
  <1>3. CASE x \notin {w, Free} /\ w.st = "play"
    BY <1>3, PlayedFollows DEF Written
  <1>4. CASE x \notin {w, Free} /\ w.st \notin {"reply", "play"}
    <2>1. x \in Pushed(w, r)
      BY <1>4 DEF Written
    <2> QED
      BY <2>1, PushedFollows
  <1> QED
    BY <1>1, <1>2, <1>3, <1>4

(* RtspViewer::request *)
LEMMA PlayingFollows ==
    ASSUME NEW w \in Viewer, w.bytes \in {"any", "own"}, NEW r \in Ring,
           NEW conn \in BOOLEAN
    PROVE  Follows(Playing(w, r, conn), w, r, conn)
  <1> DEFINE j == Joined(r, conn, "play")
  <1>1. Follows(j, w, r, conn)
    BY JoinedFollows DEF States
  <1>2. Playing(w, r, conn) \in
          {w, j, [w EXCEPT !.st = "play", !.late = FALSE],
           [w EXCEPT !.st = "play", !.pos = j.pos,
                     !.bytes = IF @ = "old" THEN "mixed" ELSE @]}
    BY DEF Playing
  <1>3. j.pos \in 0 .. MaxBytes
    BY <1>1 DEF Follows, Viewer
  <1> HIDE DEF j
  <1> QED
    BY <1>1, <1>2, <1>3 DEF Follows, Viewer, States

(* A PAUSE keeps what the viewer is watching. *)
LEMMA PausedFollows ==
    ASSUME NEW w \in Viewer
    PROVE  Paused(w) \in Viewer /\ Paused(w).bytes = w.bytes
  BY DEF Paused, Viewer, States

(* RtspViewer::on_readable *)
LEMMA RequestedFollows ==
    ASSUME NEW w \in Viewer, w.bytes \in {"any", "own"}, NEW r \in Ring,
           NEW conn \in BOOLEAN, NEW ts, NEW x \in Requested(w, r, conn, ts)
    PROVE  Follows(x, w, r, conn)
  <1> DEFINE p == Paused(w)
             q == Playing(p, r, conn)
  <1>1. p \in Viewer /\ p.bytes = w.bytes
    BY PausedFollows
  <1>2. Follows(q, w, r, conn)
    <2>1. Follows(q, p, r, conn)
      BY <1>1, PlayingFollows
    <2> QED
      BY <1>1, <2>1 DEF Follows
  <1>3. Paused(q) \in Viewer /\ Paused(q).bytes = q.bytes
    BY <1>2, PausedFollows DEF Follows
  <1>4. x \in {w, Free, [Free EXCEPT !.st = "fail"], p, Playing(w, r, conn), q,
               Paused(q)}
    BY DEF Requested
  <1>5. [Free EXCEPT !.st = "fail"] \in Viewer /\ Free.bytes = "any"
        /\ [Free EXCEPT !.st = "fail"].bytes = "any" /\ Free \in Viewer
    BY EmptyTypes DEF Viewer, States
  <1>6. Follows(Playing(w, r, conn), w, r, conn)
    BY PlayingFollows
  <1> HIDE DEF p, q
  <1> QED
    BY <1>1, <1>2, <1>3, <1>4, <1>5, <1>6 DEF Follows

(* on_readable *)
LEMMA HeardFollows ==
    ASSUME NEW w \in Viewer, w.bytes \in {"any", "own"}, NEW r \in Ring,
           NEW conn \in BOOLEAN, NEW ts, NEW x \in Heard(w, r, conn, ts)
    PROVE  Follows(x, w, r, conn)
  <1>1. CASE x \in {w, Free}
    BY <1>1, EmptyTypes DEF Follows
  <1>2. CASE x = Joined(r, conn, "reply")
    BY <1>2, JoinedFollows DEF States
  <1>3. CASE \E st \in States : x = [Free EXCEPT !.st = st]
    BY <1>3, EmptyTypes DEF Follows, Viewer
  <1>4. CASE x \in Requested(w, r, conn, ts)
    BY <1>4, RequestedFollows
  <1>5. CASE x \in Requested([Free EXCEPT !.st = "talk"], r, conn, ts)
    <2> DEFINE t == [Free EXCEPT !.st = "talk"]
    <2>1. t \in Viewer /\ t.bytes = "any"
      BY EmptyTypes DEF Viewer, States
    <2> HIDE DEF t
    <2>2. Follows(x, t, r, conn)
      BY <1>5, <2>1, RequestedFollows DEF t
    <2> QED
      BY <2>1, <2>2 DEF Follows
  <1> QED
    BY <1>1, <1>2, <1>3, <1>4, <1>5 DEF Heard, States

(* the viewer's part of pump_viewers *)
LEMMA PumpedFollows ==
    ASSUME NEW w \in Viewer, w.bytes \in {"any", "own"}, NEW r \in Ring,
           NEW conn \in BOOLEAN, NEW x \in Pumped(w, r, conn)
    PROVE  Follows(x, w, r, conn)
  <1> DEFINE j == Joined(r, conn, "stream")
  <1>1. Follows(j, w, r, conn)
    BY JoinedFollows DEF States
  <1> HIDE DEF j
  <1>2. CASE x \in {w, Free}
    BY <1>2, EmptyTypes DEF Follows
  <1>3. CASE x = j
    BY <1>1, <1>3
  <1>4. CASE x \in Written(j, r)
    <2>1. x \in Viewer /\ x.bytes \in {"any", j.bytes}
      BY <1>1, <1>4, WrittenFollows DEF Follows
    <2> QED
      BY <1>1, <2>1 DEF Follows
  <1>5. CASE x \in Written(w, r)
    BY <1>5, WrittenFollows DEF Follows
  <1> QED
    BY <1>2, <1>3, <1>4, <1>5 DEF Pumped, begin_ws, detect_timeout, j

-----------------------------------------------------------------------------
(* VideoWriter::write: a segment goes on only with the bytes it began with. *)
LEMMA RecordedFollows ==
    ASSUME NEW f \in Recorder, NEW conn \in BOOLEAN, NEW x \in Recorded(f, conn),
           Tied(f) => f.file = "own"
    PROVE  /\ x \in Recorder
           /\ Tied(x) =>
                 x.file = "own" /\ (conn \/ Tied(f))
  <1>1. CASE x = f
    BY <1>1
  <1>2. CASE x = Closed(f) \/ x = [Closed(f) EXCEPT !.stopped = TRUE]
    BY <1>2 DEF Closed, Recorder, Files, Tied
  <1>3. CASE x = [f EXCEPT !.file = IF conn THEN "own" ELSE "any"]
    BY <1>3 DEF Recorder, Files, Tied
  <1>4. CASE /\ f.file # "none"
             /\ x = [f EXCEPT !.file = IF @ = "old" THEN "mixed" ELSE @]
    BY <1>4 DEF Recorder, Files, Tied
  <1> QED
    BY <1>1, <1>2, <1>3, <1>4 DEF Recorded

(* latch_publisher on the recorder *)
LEMMA RelatchedFollows ==
    ASSUME NEW f \in Recorder, ~Tied(f)
    PROVE  /\ Relatched(f) \in Recorder
           /\ ~Tied(Relatched(f))
  BY SlotAssumption DEF Relatched, Recorder, Files, Tied

(* latch_publisher and the viewers *)
LEMMA OutliveFollows ==
    ASSUME viewers \in [Table -> Viewer]
    PROVE  /\ Outlive \in [Table -> Viewer]
           /\ \A v \in Table :
                 viewers[v].bytes = "any" => Outlive[v].bytes = "any"
  <1>1. ASSUME NEW w \in Viewer
        PROVE  Outlived(w) \in Viewer /\ (w.bytes = "any" => Outlived(w).bytes = "any")
    BY <1>1 DEF Outlived, Viewer
  <1> QED
    BY <1>1 DEF Outlive

(* ingest: the ring is no longer empty *)
LEMMA IngestFollows ==
    ASSUME NEW r \in Ring, NEW f \in Recorder, NEW conn \in BOOLEAN,
           Tied(f) => f.file = "own",
           Ingest(r, f, conn)
    PROVE  /\ ring' \in Ring /\ ring'.wp # 0
           /\ rec' \in Recorder
           /\ Tied(rec') =>
                 rec'.file = "own" /\ (conn \/ Tied(f))
  <1>1. PICK n \in Sizes, key \in BOOLEAN :
            r.wp + n <= MaxBytes /\ ring' = Fed(r, n, key) /\ rec' \in Recorded(f, conn)
    BY DEF Ingest
  <1>2. /\ n \in Nat /\ n # 0 /\ r.wp \in Nat /\ r.anchor \in -1 .. MaxBytes
        /\ MaxBytes \in Nat
    BY ViewAssumption, SlotAssumption DEF Ring
  <1>3. /\ r.wp + n \in 0 .. MaxBytes /\ r.wp + n # 0
        /\ (IF key THEN r.wp ELSE r.anchor) \in -1 .. MaxBytes
    BY <1>1, <1>2
  <1>4. ring' \in Ring /\ ring'.wp # 0
    BY <1>1, <1>3 DEF Fed, Ring
  <1> QED
    BY <1>1, <1>4, RecordedFollows

(* ingest_udp: RTP writes nothing until its backend runs *)
LEMMA UdpFollows ==
    ASSUME NEW r \in Ring, NEW f \in Recorder, NEW seen \in BOOLEAN,
           r.wp = 0 => r.anchor = NoAnchor,
           seen /\ backend = "off" => r.anchor = NoAnchor,
           Tied(f) => f.file = "own" /\ backend # "off",
           IngestUdp(r, f, seen)
    PROVE  /\ ring' \in Ring /\ (ring'.wp = 0 => ring'.anchor = NoAnchor)
           /\ rtp' \in BOOLEAN /\ exited' = exited
           /\ backend' = backend \/ (backend = "off" /\ backend' = "rtp")
           /\ rtp' /\ backend' = "off" => ring'.anchor = NoAnchor
           /\ rec' \in Recorder
           /\ Tied(rec') => rec'.file = "own" /\ backend' # "off"
  <1>1. CASE /\ backend # "off"
             /\ ring' = r /\ rec' = f /\ rtp' = seen
             /\ UNCHANGED backendVars
    BY <1>1 DEF backendVars
  <1>2. CASE /\ backend = "off" /\ (seen \/ r.wp = 0)
             /\ ring' = r /\ rec' = f
             /\ IngestRtp
    BY <1>2 DEF IngestRtp
  <1>3. CASE /\ backend = "off" /\ ~seen /\ ring' = r /\ rec' = f
             /\ rtp' = seen /\ UNCHANGED backendVars
    BY <1>3 DEF backendVars
  <1>4. CASE /\ backend = "off" /\ ~seen /\ Ingest(r, f, FALSE)
             /\ rtp' = seen /\ UNCHANGED backendVars
    <2>1. /\ ring' \in Ring /\ ring'.wp # 0
          /\ rec' \in Recorder
          /\ ~Tied(rec')
      BY <1>4, IngestFollows
    <2> QED
      BY <1>4, <2>1 DEF backendVars
  <1> QED
    BY <1>1, <1>2, <1>3, <1>4 DEF IngestUdp

-----------------------------------------------------------------------------
(* Releasing the publisher leaves an empty slot. *)
LEMMA ReleaseKeeps ==
    ASSUME SlotInv, Release,
           ~client', ~mkv', ~rtmp', backend' = "off", ~exited',
           client' \in BOOLEAN, mkv' \in BOOLEAN, rtmp' \in BOOLEAN
    PROVE  SlotInv'
  <1>1. rec' \in Recorder /\ rec'.file = "none"
    BY DEF SlotInv, Release, Closed, Recorder, Files
  <1>2. ring' \in Ring /\ ring'.anchor = NoAnchor
    BY EmptyTypes DEF Release, EndStream
  <1>3. viewers' \in [Table -> Viewer] /\ \A v \in Table : viewers'[v].bytes = "any"
    BY EmptyTypes DEF Release, EndStream
  <1>4. pub' = NoPub /\ rtp' = FALSE
    BY DEF Release
  <1>5. OneSource'
    BY <1>4, SlotAssumption DEF OneSource, Source
  <1> QED
    BY <1>1, <1>2, <1>3, <1>4, <1>5 DEF SlotInv, ViewerOK, RecorderOK, Tied

(* A connection takes a slot that is not busy. *)
LEMMA TakeKeeps ==
    ASSUME SlotInv, ~Carried, TakeSlot, OneSource', exited' => backend' # "off",
           viewers' \in [Table -> Viewer],
           \A v \in Table : viewers[v].bytes = "any" => viewers'[v].bytes = "any"
    PROVE  SlotInv'
  <1>1. ring' \in Ring /\ ring'.anchor = NoAnchor
    BY EmptyTypes DEF TakeSlot
  <1>2. \A v \in Table : viewers'[v].bytes = "any"
    BY DEF SlotInv, ViewerOK
  <1>3. rec' \in Recorder /\ ~Tied(rec')
    BY RelatchedFollows DEF SlotInv, RecorderOK, Carried, TakeSlot
  <1>4. rtp' = FALSE
    BY DEF TakeSlot
  <1> QED
    BY <1>1, <1>2, <1>3, <1>4 DEF SlotInv, ViewerOK, RecorderOK

(* The state besides the viewers stays, and one of them moves on. *)
LEMMA ReplacedKeeps ==
    ASSUME SlotInv, NEW v \in Table, NEW w,
           Follows(w, viewers[v], ring, Connected), Replaced(v, w)
    PROVE  SlotInv'
  <1>1. viewers' \in [Table -> Viewer]
    BY DEF SlotInv, Follows, Replaced
  <1>2. UNCHANGED <<ring, pub, rtp, rec, backend, exited, client, rtmp, mkv>>
    BY DEF Replaced, backendVars, connVars
  <1>3. w.bytes = "any" \/ (w.bytes = "own" /\ Carried)
    BY DEF Follows, SlotInv, ViewerOK, Connected, Carried
  <1>4. \A u \in Table : ViewerOK(viewers[u])'
    BY <1>2, <1>3 DEF SlotInv, Replaced, ViewerOK, Carried
  <1> QED
    BY <1>1, <1>2, <1>4 DEF SlotInv, OneSource, Source, RecorderOK, Carried

(* The variables the invariant is about, but for the viewers *)
SourceVars == <<ring, pub, rtp, rec, backend, exited, client, rtmp, mkv>>

(* Steps that leave the stream alone and add no viewer of it. *)
LEMMA SameStream ==
    ASSUME SlotInv, UNCHANGED SourceVars,
           viewers' \in [Table -> Viewer],
           \A v \in Table : viewers'[v].bytes \in {"any", viewers[v].bytes}
    PROVE  SlotInv'
  <1>1. \A v \in Table : ViewerOK(viewers[v])'
    BY DEF SlotInv, ViewerOK, Carried, SourceVars
  <1> QED
    BY <1>1 DEF SlotInv, SourceVars, OneSource, Source, RecorderOK, Carried

(* Steps that change nothing of it at all. *)
LEMMA SameSlot ==
    ASSUME SlotInv, UNCHANGED SourceVars, UNCHANGED viewers
    PROVE  SlotInv'
  BY SameStream DEF SlotInv

(* close_rtsp is called for no Matroska publisher. *)
LEMMA CloseRtspKeeps ==
    ASSUME SlotInv, ~mkv, close_rtsp
    PROVE  SlotInv'
  <1>1. mkv \in BOOLEAN
    BY DEF SlotInv, OneSource, Source
  <1> QED
    BY <1>1, ReleaseKeeps DEF close_rtsp

(* The slot's connection publishes, or its backend does. *)
LEMMA MediaKeeps ==
    ASSUME SlotInv, mkv \/ backend # "off", Ingest(ring, rec, TRUE),
           UNCHANGED <<viewers, pub, rtp, backend, exited, client, rtmp, mkv>>
    PROVE  SlotInv'
  <1>1. Carried
    BY DEF Carried
  <1>2. /\ ring' \in Ring /\ ring'.wp # 0
        /\ rec' \in Recorder
        /\ Tied(rec') => rec'.file = "own"
    BY IngestFollows DEF SlotInv, RecorderOK
  <1>3. rtp => backend # "off"
    BY SlotAssumption DEF SlotInv, OneSource, Source
  <1>4. Carried' /\ OneSource'
    BY <1>1 DEF Carried, SlotInv, OneSource, Source
  <1> QED
    BY <1>2, <1>3, <1>4 DEF SlotInv, ViewerOK, RecorderOK

(* handle_udp *)
LEMMA UdpKeeps ==
    ASSUME SlotInv, NEW p \in Senders, handle_udp(p)
    PROVE  SlotInv'
  <1>0. /\ p # NoPub /\ p # "tcp"
        /\ UNCHANGED <<client, rtmp, mkv>>
        /\ ~mkv
    BY SlotAssumption DEF handle_udp, connVars
  <1>1. CASE FromPublisher(p)
    <2>1. /\ pub = p \/ (pub = "tcp" /\ Alike # {})
          /\ UNCHANGED <<pub, viewers>> /\ IngestUdp(ring, rec, rtp)
      BY <1>1 DEF FromPublisher
    <2>2. /\ ring' \in Ring /\ (ring'.wp = 0 => ring'.anchor = NoAnchor)
          /\ rtp' \in BOOLEAN /\ exited' = exited
          /\ backend' = backend \/ (backend = "off" /\ backend' = "rtp")
          /\ rtp' /\ backend' = "off" => ring'.anchor = NoAnchor
          /\ rec' \in Recorder
          /\ Tied(rec') => rec'.file = "own" /\ backend' # "off"
      BY <1>0, <2>1, UdpFollows DEF SlotInv, RecorderOK
    <2>3. pub # NoPub
      BY <1>0, <2>1, SlotAssumption
    <2>4. OneSource
      BY DEF SlotInv
    <2>5. OneSource'
      <3>1. CASE pub = p
        BY <1>0, <2>1, <2>2, <2>3, <2>4, <3>1 DEF OneSource, Source
      <3>2. CASE pub = "tcp" /\ Alike # {}
        BY <1>0, <2>1, <2>2, <2>3, <2>4, <3>2, SlotAssumption DEF OneSource, Source
      <3> QED
        BY <2>1, <3>1, <3>2
    <2>6. Carried => Carried'
      BY <1>0, <2>2 DEF Carried
    <2>7. \A v \in Table : ViewerOK(viewers[v])'
      BY <2>1, <2>6 DEF SlotInv, ViewerOK
    <2>8. exited' => backend' # "off"
      BY <2>2 DEF SlotInv
    <2> QED
      BY <1>0, <2>1, <2>2, <2>3, <2>5, <2>7, <2>8 DEF SlotInv, RecorderOK
  <1>2. CASE NewSender(p)
    <2>1. ~Carried /\ backend = "off" /\ client = FALSE /\ mkv = FALSE /\ rtmp = FALSE
      BY <1>2 DEF NewSender, Busy, Carried, SlotInv, OneSource, Source
    <2>2. /\ Relatched(rec) \in Recorder
          /\ ~Tied(Relatched(rec))
      BY <2>1, RelatchedFollows DEF SlotInv, RecorderOK
    <2>3. /\ ring' \in Ring /\ (ring'.wp = 0 => ring'.anchor = NoAnchor)
          /\ rtp' \in BOOLEAN /\ exited' = exited
          /\ backend' \in {"off", "rtp"}
          /\ rtp' /\ backend' = "off" => ring'.anchor = NoAnchor
          /\ rec' \in Recorder
          /\ Tied(rec') => rec'.file = "own" /\ backend' # "off"
      BY <1>2, <2>1, <2>2, UdpFollows, EmptyTypes DEF NewSender
    <2>4. viewers' \in [Table -> Viewer] /\ \A v \in Table : viewers'[v].bytes = "any"
      BY <1>2, <2>1, OutliveFollows DEF NewSender, SlotInv, ViewerOK
    <2>5. pub' = p
      BY <1>2 DEF NewSender, Latch
    <2>6. OneSource'
      BY <1>0, <2>1, <2>3, <2>5 DEF OneSource, Source
    <2> QED
      BY <1>0, <2>1, <2>3, <2>4, <2>5, <2>6 DEF SlotInv, ViewerOK, RecorderOK, Carried
  <1> QED
    BY <1>1, <1>2 DEF handle_udp

(* pump_viewers hands a publisher on. *)
LEMMA HandOnKeeps ==
    ASSUME SlotInv, NEW v \in Table, HandOn(v)
    PROVE  SlotInv'
  <1> DEFINE left == [viewers EXCEPT ![v] = Free]
             outlived == [Outlive EXCEPT ![v] = Free]
  <1>1. /\ left \in [Table -> Viewer]
        /\ \A u \in Table : left[u].bytes \in {"any", viewers[u].bytes}
    BY EmptyTypes DEF SlotInv
  <1>2. /\ outlived \in [Table -> Viewer]
        /\ \A u \in Table : viewers[u].bytes = "any" => outlived[u].bytes = "any"
    BY EmptyTypes, OutliveFollows DEF SlotInv
  <1> HIDE DEF left, outlived
  <1>3. CASE viewers' = left /\ UNCHANGED SourceVars
    BY <1>1, <1>3, SameStream
  <1>4. CASE viewers' = outlived /\ handle_rtsp
    <2>1. ~Carried /\ mkv = FALSE /\ rtmp = FALSE /\ TakeSlot
      BY <1>4 DEF handle_rtsp, Busy, Carried, SlotInv, OneSource, Source
    <2>2. OneSource'
      BY <1>4, <2>1, SlotAssumption
      DEF handle_rtsp, OneSource, Source, TakeSlot, Latch
    <2> QED
      BY <1>2, <1>4, <2>1, <2>2, TakeKeeps DEF handle_rtsp
  <1>5. CASE viewers' = outlived /\ handle_mkv
    <2>1. ~Carried /\ client = FALSE /\ rtmp = FALSE /\ TakeSlot /\ backend = "off"
      BY <1>5 DEF handle_mkv, Carried, SlotInv, OneSource, Source
    <2>2. OneSource'
      BY <1>5, <2>1, SlotAssumption
      DEF handle_mkv, OneSource, Source, TakeSlot, Latch, backendVars
    <2> QED
      BY <1>2, <1>5, <2>1, <2>2, TakeKeeps DEF handle_mkv, SlotInv, backendVars
  <1> QED
    BY <1>3, <1>4, <1>5
    DEF HandOn, JoinPool, SourceVars, backendVars, connVars, left, outlived

(* pump_pending *)
LEMMA PendingKeeps ==
    ASSUME SlotInv, pump_pending
    PROVE  SlotInv'
  <1>1. CASE EndPending
    BY <1>1, SameSlot DEF EndPending, SourceVars, viewVars, backendVars
  <1>2. CASE promote_pending
    <2>1. ~Carried /\ mkv = FALSE
      BY <1>2 DEF promote_pending, Busy, Carried, SlotInv, OneSource, Source
    <2>2. CASE close_rtsp
      BY <2>1, <2>2, CloseRtspKeeps
    <2>3. CASE ~close_rtsp
      <3>1. /\ TakeSlot /\ viewers' = Outlive /\ client' = TRUE /\ rtmp' = TRUE
            /\ backend' \in {"off", "rtmp"} /\ UNCHANGED <<exited, mkv>>
        BY <1>2, <2>3 DEF promote_pending
      <3>2. OneSource'
        BY <2>1, <3>1, SlotAssumption DEF OneSource, Source, TakeSlot, Latch
      <3>3. ~exited
        BY <2>1 DEF SlotInv, Carried
      <3>4. /\ viewers' \in [Table -> Viewer]
            /\ \A v \in Table : viewers[v].bytes = "any" => viewers'[v].bytes = "any"
        BY <3>1, OutliveFollows DEF SlotInv
      <3> QED
        BY <2>1, <3>1, <3>2, <3>3, <3>4, TakeKeeps
    <2> QED
      BY <2>2, <2>3
  <1> QED
    BY <1>1, <1>2 DEF pump_pending

(* pump_rtsp, pump_rtmp and pump_mkv *)
LEMMA PublisherKeeps ==
    ASSUME SlotInv, ClientEvent \/ BackendEvent \/ MediaEvent \/ pump_mkv
    PROVE  SlotInv'
  <1>1. CASE Gone /\ (client \/ backend # "off")
    <2>1. ~mkv
      BY <1>1 DEF SlotInv, OneSource, Source
    <2> QED
      BY <1>1, <2>1, CloseRtspKeeps DEF Gone
  <1>2. CASE /\ Refreshed /\ client
             /\ backend' \in IF rtmp /\ backend = "off" THEN {"off", "rtmp"}
                             ELSE {backend}
             /\ UNCHANGED <<ring, rec>>
    <2>1. UNCHANGED <<viewers, pub, exited, client, rtmp, mkv, rtp, ring, rec>>
      BY <1>2 DEF Refreshed, connVars
    <2>2. OneSource' /\ Carried' /\ Carried
      BY <1>2, <2>1, SlotAssumption DEF SlotInv, OneSource, Source, Carried
    <2>3. backend # "off" => backend' # "off"
      BY <1>2
    <2> QED
      BY <2>1, <2>2, <2>3 DEF SlotInv, ViewerOK, RecorderOK
  <1>3. CASE Refreshed /\ UNCHANGED <<backend, ring, rec>>
    BY <1>3, SameSlot DEF Refreshed, SourceVars, connVars
  <1>4. CASE /\ Refreshed /\ (mkv \/ backend # "off")
             /\ Ingest(ring, rec, TRUE) /\ UNCHANGED backend
    BY <1>4, MediaKeeps DEF Refreshed, connVars
  <1>5. CASE mkv /\ close_mkv
    <2>1. /\ client = FALSE /\ rtmp = FALSE /\ backend = "off" /\ ~exited
      BY <1>5 DEF SlotInv, OneSource, Source
    <2> QED
      BY <1>5, <2>1, ReleaseKeeps DEF close_mkv, backendVars
  <1> QED
    BY <1>1, <1>2, <1>3, <1>4, <1>5
    DEF ClientEvent, BackendEvent, MediaEvent, pump_mkv

(* tick *)
LEMMA TickKeeps ==
    ASSUME SlotInv, tick
    PROVE  SlotInv'
  <1> DEFINE idle == pub # NoPub /\ age = "idle"
             gone == exited \/ NoCodec \/ (idle /\ Spliced)
  <1>1. CASE mkv /\ close_mkv
    <2>1. /\ client = FALSE /\ rtmp = FALSE /\ backend = "off" /\ ~exited
      BY <1>1 DEF SlotInv, OneSource, Source
    <2> QED
      BY <1>1, <2>1, ReleaseKeeps DEF close_mkv, backendVars
  <1>2. CASE gone /\ close_rtsp
    <2>1. ~mkv
      BY <1>2 DEF SlotInv, OneSource, Source, NoCodec, Spliced
    <2> QED
      BY <1>2, <2>1, CloseRtspKeeps
  <1>3. CASE /\ idle /\ ~mkv /\ ~gone /\ Release
             /\ UNCHANGED <<backendVars, client, rtmp, overdue, mkv>>
    <2>1. /\ client = FALSE /\ backend = "off" /\ mkv = FALSE /\ rtmp = FALSE
          /\ ~exited
      BY <1>3 DEF SlotInv, OneSource, Source, Spliced
    <2> QED
      BY <1>3, <2>1, ReleaseKeeps DEF backendVars
  <1>4. CASE UNCHANGED <<viewVars, pub, age, backendVars, client, rtmp, overdue,
                         mkv, rtp, rec>>
    BY <1>4, SameSlot DEF SourceVars, viewVars, backendVars
  <1> QED
    BY <1>1, <1>2, <1>3, <1>4 DEF tick

(* The invariant holds in the slot's first state. *)
LEMMA SlotInit == Init => SlotInv
  <1> SUFFICES ASSUME Init PROVE SlotInv
    OBVIOUS
  <1>1. OneSource
    BY SlotAssumption DEF Init, OneSource, Source
  <1>2. rec \in Recorder /\ rec.file = "none"
    BY DEF Init, Recorder, Files
  <1>3. viewers \in [Table -> Viewer] /\ \A v \in Table : viewers[v].bytes = "any"
    BY EmptyTypes DEF Init
  <1> QED
    BY <1>1, <1>2, <1>3, EmptyTypes DEF Init, SlotInv, ViewerOK, RecorderOK, Tied

(* Every step of the loop keeps it. *)
LEMMA SlotNext == SlotInv /\ [Next]_vars => SlotInv'
  <1> SUFFICES ASSUME SlotInv, [Next]_vars PROVE SlotInv'
    OBVIOUS
  <1>0. /\ viewers \in [Table -> Viewer] /\ ring \in Ring /\ Connected \in BOOLEAN
        /\ \A v \in Table : viewers[v].bytes \in {"any", "own"}
    BY DEF SlotInv, ViewerOK, Connected, OneSource, Source
  <1>1. CASE \E p \in Senders : handle_udp(p)
    BY <1>1, UdpKeeps
  <1>2. CASE handle_tcp
    <2>1. /\ viewers' \in [Table -> Viewer]
          /\ \A v \in Table : viewers'[v].bytes \in {"any", viewers[v].bytes}
      BY <1>0, <1>2, EmptyTypes DEF handle_tcp
    <2> QED
      BY <1>2, <2>1, SameStream DEF handle_tcp, SourceVars, backendVars, connVars
  <1>3. ASSUME NEW v \in Table, ViewerEvent(v) PROVE SlotInv'
    <2>1. PICK w \in Heard(viewers[v], ring, Connected, ~mkv)
                       \cup Written(viewers[v], ring) : Replaced(v, w)
      BY <1>3 DEF ViewerEvent
    <2>2. Follows(w, viewers[v], ring, Connected)
      BY <1>0, <2>1, HeardFollows, WrittenFollows DEF Follows
    <2> QED
      BY <2>1, <2>2, ReplacedKeeps
  <1>4. CASE pump_pending
    BY <1>4, PendingKeeps
  <1>5. CASE ClientEvent \/ BackendEvent \/ MediaEvent \/ pump_mkv
    BY <1>5, PublisherKeeps
  <1>6. CASE BackendExits
    BY <1>6 DEF BackendExits, SlotInv, viewVars, connVars, OneSource, Source,
                ViewerOK, RecorderOK, Carried
  <1>7. CASE EndEvents
    BY <1>7, SameSlot DEF EndEvents, SourceVars, viewVars, backendVars, connVars
  <1>8. CASE pump_viewers
    <2>1. CASE HandOn(turn)
      BY <1>8, <2>1, HandOnKeeps DEF pump_viewers
    <2>2. ASSUME NEW w \in Pumped(viewers[turn], ring, Connected),
                 Replaced(turn, w)
          PROVE  SlotInv'
      <3>1. turn \in Table
        BY <1>8 DEF pump_viewers
      <3>2. Follows(w, viewers[turn], ring, Connected)
        BY <1>0, <2>2, <3>1, PumpedFollows
      <3> QED
        BY <2>2, <3>1, <3>2, ReplacedKeeps
    <2>3. CASE UNCHANGED <<viewVars, tickDue, pub, age, backendVars, connVars,
                           rtp, rec>>
      BY <2>3, SameSlot DEF SourceVars, viewVars, backendVars, connVars
    <2> QED
      BY <1>8, <2>1, <2>2, <2>3 DEF pump_viewers
  <1>9. CASE EndRound
    <2>1. CASE tick
      BY <2>1, TickKeeps
    <2>2. CASE ~tick
      BY <1>9, <2>2, SameSlot
      DEF EndRound, SourceVars, viewVars, backendVars, connVars
    <2> QED
      BY <2>1, <2>2
  <1>10. CASE Elapse
    <2>1. ASSUME NEW w \in Viewer
          PROVE  Older(w) \in Viewer /\ Older(w).bytes = w.bytes
      BY <2>1 DEF Older, Viewer
    <2>2. /\ viewers' \in [Table -> Viewer]
          /\ \A v \in Table : viewers'[v].bytes = viewers[v].bytes
      BY <1>0, <1>10, <2>1 DEF Elapse
    <2> QED
      BY <1>10, <2>2, SameStream DEF Elapse, SourceVars, backendVars
  <1>11. CASE TickComesDue
    BY <1>11, SameSlot DEF TickComesDue, SourceVars, viewVars, backendVars, connVars
  <1>12. CASE UNCHANGED vars
    BY <1>12, SameSlot DEF vars, SourceVars, viewVars, backendVars, connVars
  <1> QED
    BY <1>1, <1>2, <1>3, <1>4, <1>5, <1>6, <1>7, <1>8, <1>9, <1>10, <1>11, <1>12
    DEF Next, Loop

(* The inductive invariant of a slot. *)
THEOREM SlotInvariant == Spec => []SlotInv
  BY SlotInit, SlotNext, PTL DEF Spec

(* One publisher feeds the ring, and nothing is left of one before it       *)
(* (handle_udp, handle_rtsp, handle_mkv, promote_pending, close_rtsp, tick). *)
THEOREM OneSourceHolds == Spec => []OneSource
  <1>1. SlotInv => OneSource
    BY DEF SlotInv
  <1> QED
    BY <1>1, SlotInvariant, PTL

(* Viewers and segments of connected publishers never mix two streams, nor  *)
(* are they sent bytes that were overwritten (latch_publisher, end_stream,  *)
(* on_writable, VideoWriter::write).                                        *)
THEOREM WholeStreamHolds == Spec => []WholeStream
  <1>1. SlotInv => WholeStream
    BY DEF SlotInv, WholeStream, ViewerOK, RecorderOK, Tied
  <1> QED
    BY <1>1, SlotInvariant, PTL

-----------------------------------------------------------------------------
(* The types of the rest, and the pool *)

Pool(s) == s \in Seq(BOOLEAN) /\ Len(s) <= VIDEO_MAX_PENDING_RTMP

LoopTypes ==
    /\ turn \in 0 .. VIDEO_MAX_VIEWERS + 1 /\ tickDue \in BOOLEAN
    /\ pub \in Senders \cup {"tcp", NoPub} /\ age \in Ages
    /\ exited \in BOOLEAN /\ overdue \in BOOLEAN

(* handle_rtsp makes room for one more handshake. *)
LEMMA PoolJoins ==
    ASSUME Pool(pending), JoinPool
    PROVE  Pool(pending')
  <1> DEFINE full == Len(pending) = VIDEO_MAX_PENDING_RTMP
             s == IF full THEN Tail(pending) ELSE pending
  <1>1. /\ pending \in Seq(BOOLEAN) /\ Len(pending) \in Nat
        /\ Len(pending) <= VIDEO_MAX_PENDING_RTMP
        /\ VIDEO_MAX_PENDING_RTMP \in Nat \ {0}
    BY SlotAssumption, LenProperties DEF Pool
  <1>2. s \in Seq(BOOLEAN) /\ Len(s) + 1 <= VIDEO_MAX_PENDING_RTMP /\ Len(s) \in Nat
    <2>1. CASE full
      <3>1. pending # <<>>
        BY <1>1, <2>1, EmptySeq
      <3>2. Tail(pending) \in Seq(BOOLEAN) /\ Len(Tail(pending)) = Len(pending) - 1
        BY <1>1, <3>1, HeadTailProperties
      <3> QED BY <1>1, <2>1, <3>2
    <2>2. CASE ~full
      BY <1>1, <2>2
    <2> QED BY <2>1, <2>2
  <1>3. pending' = Append(s, FALSE)
    BY DEF JoinPool
  <1> HIDE DEF s
  <1>4. Append(s, FALSE) \in Seq(BOOLEAN) /\ Len(Append(s, FALSE)) = Len(s) + 1
    BY <1>2, AppendProperties
  <1> QED BY <1>2, <1>3, <1>4 DEF Pool

(* close_pending takes one handshake out. *)
LEMMA PoolLeft ==
    ASSUME Pool(pending), NEW i \in 1 .. Len(pending)
    PROVE  Pool(Without(i))
  <1>1. /\ pending \in Seq(BOOLEAN) /\ Len(pending) \in Nat
        /\ Len(pending) <= VIDEO_MAX_PENDING_RTMP /\ i \in Nat /\ 1 <= i
        /\ i <= Len(pending) /\ VIDEO_MAX_PENDING_RTMP \in Nat
    BY SlotAssumption, LenProperties DEF Pool
  <1>2. \A j \in 1 .. Len(pending) : pending[j] \in BOOLEAN
    BY <1>1, ElementOfSeq
  <1> DEFINE a == SubSeq(pending, 1, i - 1)
             b == SubSeq(pending, i + 1, Len(pending))
  <1>3. a \in Seq(BOOLEAN) /\ Len(a) = i - 1
    <2>1. \A j \in 1 .. i - 1 : pending[j] \in BOOLEAN
      BY <1>1, <1>2
    <2>2. a \in Seq(BOOLEAN) /\ Len(a) = IF 1 <= i - 1 THEN (i - 1) - 1 + 1 ELSE 0
      BY <1>1, <2>1, SubSeqProperties
    <2> QED BY <1>1, <2>2
  <1>4. b \in Seq(BOOLEAN) /\ Len(b) = Len(pending) - i
    <2>1. \A j \in i + 1 .. Len(pending) : pending[j] \in BOOLEAN
      BY <1>1, <1>2
    <2>2. /\ b \in Seq(BOOLEAN)
          /\ Len(b) = IF i + 1 <= Len(pending) THEN Len(pending) - (i + 1) + 1 ELSE 0
      BY <1>1, <2>1, SubSeqProperties
    <2> QED BY <1>1, <2>2
  <1>5. Without(i) = a \o b
    BY DEF Without
  <1> HIDE DEF a, b
  <1>6. a \o b \in Seq(BOOLEAN) /\ Len(a \o b) = Len(a) + Len(b)
    BY <1>3, <1>4, ConcatProperties
  <1> QED BY <1>1, <1>3, <1>4, <1>5, <1>6 DEF Pool

(* as many handshakes as a set of places has, all alike *)
LEMMA PoolAlike ==
    ASSUME NEW n \in Nat, n <= VIDEO_MAX_PENDING_RTMP, NEW late \in BOOLEAN
    PROVE  Pool([i \in 1 .. n |-> late])
  <1> DEFINE s == [i \in 1 .. n |-> late]
  <1>1. s \in Seq(BOOLEAN) /\ Len(s) = n
    OBVIOUS
  <1> HIDE DEF s
  <1>2. Pool(s)
    BY <1>1 DEF Pool
  <1> QED BY <1>2 DEF s

(* tick times handshakes out. *)
LEMMA PoolInTime ==
    ASSUME Pool(pending)
    PROVE  Pool(InTime)
  <1> DEFINE left == {i \in 1 .. Len(pending) : ~pending[i]}
  <1>1. /\ Len(pending) \in Nat /\ Len(pending) <= VIDEO_MAX_PENDING_RTMP
        /\ VIDEO_MAX_PENDING_RTMP \in Nat
    BY SlotAssumption, LenProperties DEF Pool
  <1>2. /\ IsFiniteSet(1 .. Len(pending))
        /\ Cardinality(1 .. Len(pending)) = Len(pending)
    <2>1. 1 \in Int /\ Len(pending) \in Int
      BY <1>1
    <2>2. /\ IsFiniteSet(1 .. Len(pending))
          /\ Cardinality(1 .. Len(pending)) =
               IF 1 > Len(pending) THEN 0 ELSE Len(pending) - 1 + 1
      BY <2>1, FS_Interval
    <2> QED BY <1>1, <2>2
  <1>3. left \in SUBSET (1 .. Len(pending))
    OBVIOUS
  <1>4. InTime = [n \in 1 .. Cardinality(left) |-> FALSE]
    BY DEF InTime
  <1> HIDE DEF left
  <1>5. IsFiniteSet(left) /\ Cardinality(left) <= Len(pending)
    BY <1>2, <1>3, FS_Subset
  <1>6. Cardinality(left) \in Nat
    BY <1>5, FS_CardinalityType
  <1>7. Cardinality(left) <= VIDEO_MAX_PENDING_RTMP /\ FALSE \in BOOLEAN
    BY <1>1, <1>5, <1>6
  <1>8. Pool([n \in 1 .. Cardinality(left) |-> FALSE])
    BY <1>6, <1>7, PoolAlike, Zenon
  <1> QED BY <1>4, <1>8

(* The pool stays within VIDEO_MAX_PENDING_RTMP. *)
LEMMA PoolNext == Pool(pending) /\ [Next]_vars => Pool(pending')
  <1> SUFFICES ASSUME Pool(pending), [Next]_vars PROVE Pool(pending')
    OBVIOUS
  <1>0. pending' = pending => Pool(pending')
    OBVIOUS
  <1>1. CASE pump_pending
    BY <1>1, PoolLeft DEF pump_pending
  <1>2. CASE Elapse
    <2>1. Len(pending) \in Nat /\ Len(pending) <= VIDEO_MAX_PENDING_RTMP
      BY LenProperties DEF Pool
    <2>2. Pool([i \in 1 .. Len(pending) |-> TRUE])
      BY <2>1, PoolAlike
    <2> QED BY <1>2, <2>2 DEF Elapse
  <1>3. CASE EndRound
    BY <1>0, <1>3, PoolInTime DEF EndRound, tick, connVars
  <1>4. CASE pump_viewers
    BY <1>0, <1>4, PoolJoins
    DEF pump_viewers, HandOn, handle_rtsp, handle_mkv, Replaced, connVars
  <1>5. CASE \E p \in Senders : handle_udp(p)
    BY <1>0, <1>5 DEF handle_udp, connVars
  <1>6. CASE \/ handle_tcp \/ BackendExits \/ EndEvents \/ TickComesDue
             \/ \E v \in Table : ViewerEvent(v)
    BY <1>0, <1>6
    DEF handle_tcp, BackendExits, EndEvents, TickComesDue, ViewerEvent, Replaced,
        connVars
  <1>7. CASE ClientEvent \/ BackendEvent \/ MediaEvent \/ pump_mkv
    BY <1>0, <1>7
    DEF ClientEvent, BackendEvent, MediaEvent, pump_mkv, Gone, Refreshed, connVars
  <1>8. CASE UNCHANGED vars
    BY <1>0, <1>8 DEF vars, connVars
  <1> QED
    BY <1>1, <1>2, <1>3, <1>4, <1>5, <1>6, <1>7, <1>8 DEF Next, Loop

(* The loop's turn, the publisher and the clocks keep their types. *)
LEMMA LoopNext == SlotInv /\ LoopTypes /\ [Next]_vars => LoopTypes'
  <1> SUFFICES ASSUME SlotInv, LoopTypes, [Next]_vars PROVE LoopTypes'
    OBVIOUS
  <1> DEFINE T(t) == t \in 0 .. VIDEO_MAX_VIEWERS + 1
             P(p, a) == p \in Senders \cup {"tcp", NoPub} /\ a \in Ages
  <1>0. /\ T(turn) /\ tickDue \in BOOLEAN /\ P(pub, age)
        /\ exited \in BOOLEAN /\ overdue \in BOOLEAN /\ rtmp \in BOOLEAN
    BY DEF LoopTypes, SlotInv, OneSource, Source
  <1>00. /\ P(NoPub, "fresh") /\ P("tcp", "fresh") /\ P(pub, "fresh")
         /\ \A p \in Senders : P(p, "fresh")
    BY <1>0 DEF Ages
  <1> HIDE DEF P
  <1>1. CASE \E p \in Senders : handle_udp(p)
    <2>1. turn' = turn /\ overdue' = overdue
      BY <1>1 DEF handle_udp, Event, connVars
    <2>2. P(pub', age') /\ tickDue' \in BOOLEAN /\ exited' = exited
      BY <1>0, <1>00, <1>1
      DEF handle_udp, FromPublisher, NewSender, Latch, IngestUdp, IngestRtp, backendVars
    <2> QED BY <1>0, <2>1, <2>2 DEF LoopTypes, P
  <1>2. CASE handle_tcp \/ \E v \in Table : ViewerEvent(v)
    <2>1. turn' = turn /\ UNCHANGED <<pub, age, exited, overdue>>
      BY <1>2 DEF handle_tcp, ViewerEvent, Replaced, Event, connVars, backendVars
    <2>2. tickDue' \in BOOLEAN
      BY <1>0, <1>2 DEF handle_tcp, ViewerEvent, Replaced
    <2> QED BY <1>0, <2>1, <2>2 DEF LoopTypes, P
  <1>3. CASE pump_pending
    <2>1. turn' = turn
      BY <1>3 DEF pump_pending, Event
    <2>2. P(pub', age') /\ tickDue' \in BOOLEAN
      BY <1>0, <1>00, <1>3
      DEF pump_pending, EndPending, promote_pending, close_rtsp, Release, TakeSlot, Latch
    <2>3. exited' \in BOOLEAN /\ overdue' \in BOOLEAN
      BY <1>0, <1>3
      DEF pump_pending, EndPending, promote_pending, close_rtsp, backendVars
    <2> QED BY <1>0, <2>1, <2>2, <2>3 DEF LoopTypes, P
  <1>4. CASE ClientEvent \/ BackendEvent \/ MediaEvent \/ pump_mkv
    <2>1. turn' = turn
      BY <1>4 DEF ClientEvent, BackendEvent, MediaEvent, pump_mkv, Event
    <2>2. Gone \/ Refreshed \/ (close_mkv /\ Prompt)
      BY <1>4 DEF ClientEvent, BackendEvent, MediaEvent, pump_mkv
    <2>3. P(pub', age') /\ tickDue' \in BOOLEAN
      BY <1>0, <1>00, <2>2 DEF Gone, Refreshed, close_rtsp, close_mkv, Release, Prompt
    <2>4. exited' \in BOOLEAN /\ overdue' \in BOOLEAN
      BY <1>0, <2>2
      DEF Gone, Refreshed, close_rtsp, close_mkv, backendVars, connVars
    <2> QED BY <1>0, <2>1, <2>3, <2>4 DEF LoopTypes, P
  <1>5. CASE BackendExits \/ EndEvents \/ TickComesDue \/ UNCHANGED vars
    <2>1. T(turn')
      BY <1>0, <1>5, ViewAssumption
      DEF BackendExits, EndEvents, TickComesDue, vars, loopVars
    <2>2. UNCHANGED <<pub, age, overdue>>
      BY <1>5 DEF BackendExits, EndEvents, TickComesDue, vars, connVars
    <2>3. exited' \in BOOLEAN /\ tickDue' \in BOOLEAN
      BY <1>0, <1>5
      DEF BackendExits, EndEvents, TickComesDue, vars, loopVars, backendVars
    <2> QED BY <1>0, <2>1, <2>2, <2>3 DEF LoopTypes, P
  <1>6. CASE pump_viewers
    <2>1. T(turn')
      <3>1. turn \in 1 .. VIDEO_MAX_VIEWERS /\ turn' = turn + 1
        BY <1>6 DEF pump_viewers, Table
      <3>2. VIDEO_MAX_VIEWERS \in Nat
        BY ViewAssumption
      <3> QED BY ONLY <3>1, <3>2
    <2>2. P(pub', age') /\ tickDue' \in BOOLEAN
      BY <1>0, <1>00, <1>6
      DEF pump_viewers, HandOn, JoinPool, handle_rtsp, handle_mkv, TakeSlot, Latch,
          Replaced
    <2>3. UNCHANGED <<exited, overdue>>
      BY <1>6
      DEF pump_viewers, HandOn, JoinPool, handle_rtsp, handle_mkv, Replaced,
          backendVars, connVars
    <2> QED BY <1>0, <2>1, <2>2, <2>3 DEF LoopTypes, P
  <1>7. CASE EndRound
    <2>1. T(turn')
      BY <1>7, ViewAssumption DEF EndRound
    <2>2. P(pub', age') /\ tickDue' \in BOOLEAN
      BY <1>0, <1>00, <1>7 DEF EndRound, tick, close_rtsp, close_mkv, Release
    <2>3. exited' \in BOOLEAN /\ overdue' \in BOOLEAN
      BY <1>0, <1>7 DEF EndRound, tick, close_rtsp, close_mkv, backendVars, connVars
    <2> QED BY <2>1, <2>2, <2>3 DEF LoopTypes, P
  <1>8. CASE Elapse
    BY <1>0, <1>8 DEF Elapse, LoopTypes, P, Ages, loopVars, backendVars
  <1> QED
    BY <1>1, <1>2, <1>3, <1>4, <1>5, <1>6, <1>7, <1>8 DEF Next, Loop

(* The types of a slot's state: the pool of RTMP handshakes never exceeds  *)
(* VIDEO_MAX_PENDING_RTMP however many arrive (handle_rtsp drops the       *)
(* oldest), the loop visits no place outside the table, and no viewer is   *)
(* beyond the end of the longest stream.                                   *)
THEOREM SlotTypes == Spec => []TypeOK
  <1>1. Init => Pool(pending) /\ LoopTypes
    <2> SUFFICES ASSUME Init PROVE Pool(pending) /\ LoopTypes
      OBVIOUS
    <2>1. Pool(<<>>)
      BY EmptySeq, SlotAssumption DEF Pool
    <2>2. Pool(pending)
      BY <2>1 DEF Init
    <2>3. LoopTypes
      <3>1. /\ turn = 0 /\ tickDue = TRUE /\ pub = NoPub /\ age = "fresh"
            /\ exited = FALSE /\ overdue = FALSE
        BY DEF Init
      <3>2. 0 \in 0 .. VIDEO_MAX_VIEWERS + 1
        BY ViewAssumption
      <3> QED BY <3>1, <3>2 DEF LoopTypes, Ages
    <2> QED BY <2>2, <2>3
  <1>2. SlotInv /\ Pool(pending) /\ LoopTypes /\ [Next]_vars
          => Pool(pending)' /\ LoopTypes'
    BY PoolNext, LoopNext
  <1>3. SlotInv /\ Pool(pending) /\ LoopTypes => TypeOK
    BY DEF SlotInv, Pool, LoopTypes, TypeOK, OneSource, Source, Ring, Recorder
  <1> QED
    BY <1>1, <1>2, <1>3, SlotInvariant, PTL DEF Spec
==============================================================================
