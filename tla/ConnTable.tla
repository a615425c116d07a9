------------------------------ MODULE ConnTable ------------------------------
(***************************************************************************)
(* connections.tdb: the table in which the children of one entry publish   *)
(* who is connected, and through which the web admin asks for a connection *)
(* to be dropped (conntdb.cpp, conntdb_lib.py, the snapshot block and      *)
(* process_drops of main_loop, check_children, VideoChild::write_conn_rows).*)
(*                                                                         *)
(* The session child itself is Links.  The actors around the table are the *)
(* session child, the grandchildren it forks to write snapshots, the       *)
(* parent that reaps it, the video child and the web admin; each           *)
(* transaction on the table is one step.                                   *)
(***************************************************************************)
EXTENDS Links

CONSTANTS
    MASK_BITS,      \* width of the mask of conn_drop_mask: 32
    SnapIds,        \* bounds the snapshot writers in flight
    MaxSessions,    \* bounds the sessions the parent forks one after another
    VideoSlots,     \* the video ports of the entry, 0 .. n-1, or none
    None

VARIABLES
    session,    \* which session child this is, standing for its pid
    reaped,     \* the parent has reaped it
    db,         \* the rows of this port2, by conn_index
    pending,    \* g_drops_pending of the session child
    snaps,      \* the snapshot writers: what each copied when it was forked
    kill,       \* a web admin between setting the flag and the signal
    video,      \* the video child: "up", "dead" (not reaped) or "down"
    pubs,       \* the video ports that have a publisher
    asked,      \* the present connections somebody asked to be dropped
    come        \* the engineer connections there have been: each comes once

tableVars == <<db, snaps>>
adminVars == <<kill, asked>>
videoVars == <<video, pubs>>
vars == <<linkVars, session, reaped, pending, tableVars, adminVars, videoVars,
          come>>

VIDEO_CONN_INDEX_BASE == 1000

MavIndex == {0} \cup {i + 1 : i \in Slots}
VideoIndex == {VIDEO_CONN_INDEX_BASE + v : v \in VideoSlots}
Index == MavIndex \cup VideoIndex

(* Rows and kills of the video child carry session 0. *)
Row == [session : 0 .. MaxSessions, who : Conns \cup {"user", "pub"},
        drop : BOOLEAN]

Snapshot == [session : 1 .. MaxSessions, user : BOOLEAN,
             held : [Slots -> Conns \cup {NoConn}]]

ASSUME TableAssumption ==
    /\ MASK_BITS \in Nat \ {0} /\ MaxSessions \in Nat \ {0}
    /\ Slots \subseteq 0 .. VIDEO_CONN_INDEX_BASE - 2 /\ VideoSlots \subseteq Nat
    /\ NoConn \notin {"user", "pub"} /\ None \notin Row /\ None \notin 0 .. MaxSessions

TypeOK ==
    /\ LinksTypeOK
    /\ session \in 1 .. MaxSessions /\ reaped \in BOOLEAN
    /\ db \in [Index -> Row \cup {None}]
    /\ pending \in BOOLEAN
    /\ snaps \in [SnapIds -> Snapshot \cup {None}]
    /\ kill \in 0 .. MaxSessions \cup {None}
    /\ video \in {"up", "dead", "down"} /\ pubs \subseteq VideoSlots
    /\ asked \subseteq MavIndex /\ come \subseteq Conns

Init ==
    /\ LinksInit
    /\ session = 1 /\ reaped = FALSE
    /\ db = [i \in Index |-> None]
    /\ pending = FALSE
    /\ snaps = [s \in SnapIds |-> None]
    /\ kill = None
    /\ video = "up" /\ pubs = {}
    /\ asked = {} /\ come = {}

(* the connection with conn_index i, given the user flag and the slots *)
Owner(i, u, h) ==
    IF i = 0 THEN (IF u THEN "user" ELSE NoConn) ELSE h[i - 1]

Flagged(i) == db[i] # None /\ db[i].drop

(* the rows without those of the indices in gone *)
Deleted(gone) == [i \in Index |-> IF i \in gone THEN None ELSE db[i]]

(* a connection that has left is no longer asked to leave *)
KeepAsked ==
    asked' = {i \in asked : /\ running'
                            /\ Owner(i, user', held') = Owner(i, user, held)}

-----------------------------------------------------------------------------
(* The session child *)

(* Connections come and go. *)
Traffic ==
    /\ \/ \E i \in Slots, c \in Conns \ come :
             Join(i, c) /\ come' = come \cup {c}
       \/ /\ End \/ \E gone \in SUBSET Slots : UserLatch(gone) \/ Leave(gone)
          /\ UNCHANGED come
    /\ KeepAsked
    /\ UNCHANGED <<session, reaped, pending, tableVars, kill, videoVars>>

(* process_drops: flagged rows are deleted and their connections closed;   *)
(* dropping the user ends the session.  Video rows are deleted too, but    *)
(* there is nothing to close for them.                                     *)
process_drops ==
    /\ running
    /\ db' = Deleted({i \in Index : Flagged(i)})
    /\ IF Flagged(0) THEN End ELSE Leave({i \in Slots : Flagged(i + 1)})
    /\ KeepAsked

(* the transaction could not be started *)
process_drops_failed == running /\ UNCHANGED <<db, linkVars, asked>>

(* SIGUSR1 was seen at the top of the loop. *)
DropsPending ==
    /\ pending /\ pending' = FALSE
    /\ process_drops \/ process_drops_failed
    /\ UNCHANGED <<session, reaped, snaps, kill, videoVars, come>>

(* Wrong on purpose: the heartbeat trusts the signal. *)
RescanSkipped == process_drops_failed

(* the rescan on the snapshot cadence *)
Rescan == process_drops

(* fork() of a snapshot writer, with a copy of the connections *)
ForkSnapshot(s) ==
    /\ snaps[s] = None
    /\ snaps' = [snaps EXCEPT ![s] =
           [session |-> session, user |-> user', held |-> held']]

(* Every 5 s: rescan for drop requests, then fork a snapshot writer. *)
Heartbeat(s) ==
    /\ Rescan
    /\ IF running' THEN ForkSnapshot(s) ELSE UNCHANGED snaps
    /\ UNCHANGED <<session, reaped, pending, kill, videoVars, come>>

(* The same with a rescan or a fork that fails. *)
HeartbeatFailed ==
    /\ \/ Rescan /\ UNCHANGED snaps
       \/ process_drops_failed /\ \E s \in SnapIds : ForkSnapshot(s)
    /\ UNCHANGED <<session, reaped, pending, kill, videoVars, come>>

-----------------------------------------------------------------------------
(* The snapshot writer *)

(* Wrong on purpose: flags start from 0 in a rewritten row. *)
DropBitCleared(i, wraps) == FALSE

(* drop_mask & (1u << i): the mask covers conn_index 0 .. MASK_BITS-1.     *)
(* Beyond that the shift is undefined: it wraps around, or gives nothing.  *)
DropBit(i, wraps) ==
    IF i < MASK_BITS THEN Flagged(i) ELSE wraps /\ Flagged(i % MASK_BITS)

SnapshotRow(snap, i, wraps) ==
    [session |-> snap.session, who |-> Owner(i, snap.user, snap.held),
     drop |-> DropBit(i, wraps)]

(* Wrong on purpose: slots that are not in use get a row too. *)
PresentAll(snap) == MavIndex

Present(snap) == {i \in MavIndex : Owner(i, snap.user, snap.held) # NoConn}

(* Wrong on purpose: rows are rewritten but not deleted first. *)
RewrittenOver(snap, wraps) ==
    [i \in Index |-> IF i \in Present(snap) THEN SnapshotRow(snap, i, wraps)
                     ELSE db[i]]

(* conn_delete_for_port2, then one conn_write per connection *)
Rewritten(snap, wraps) ==
    [i \in Index |-> IF i \in Present(snap) THEN SnapshotRow(snap, i, wraps)
                     ELSE None]

WriteSnapshot(s) ==
    /\ snaps[s] # None
    /\ \E wraps \in BOOLEAN : db' = Rewritten(snaps[s], wraps)
    /\ snaps' = [snaps EXCEPT ![s] = None]
    /\ UNCHANGED <<linkVars, session, reaped, pending, adminVars, videoVars, come>>

(* the writer cannot open the table and gives up *)
LoseSnapshot(s) ==
    /\ snaps[s] # None
    /\ snaps' = [snaps EXCEPT ![s] = None]
    /\ UNCHANGED <<linkVars, session, reaped, db, pending, adminVars,
                   videoVars, come>>

-----------------------------------------------------------------------------
(* The parent *)

(* check_children: the session child's rows are deleted, unless the table  *)
(* cannot be opened.                                                       *)
ReapSession ==
    /\ ~running /\ ~reaped
    /\ reaped' = TRUE
    /\ db' \in {Deleted(MavIndex), db}
    /\ UNCHANGED <<linkVars, session, pending, snaps, adminVars, videoVars, come>>

(* handle_connection: the next session *)
NewSession ==
    /\ reaped /\ session < MaxSessions
    /\ session' = session + 1
    /\ running' = TRUE /\ user' = FALSE
    /\ held' = [i \in Slots |-> NoConn]
    /\ reaped' = FALSE /\ pending' = FALSE
    /\ UNCHANGED <<tableVars, adminVars, videoVars, come>>

(* reload_ports: the entry has gone from keys.tdb.  Its children are       *)
(* ended and all its rows deleted (conn_remove_port2).                     *)
RemoveEntry ==
    /\ running' = FALSE /\ UNCHANGED <<user, held>>
    /\ KeepAsked
    /\ IF VideoSlots # {} /\ video = "up"
       THEN video' = "dead" /\ pubs' = {} ELSE UNCHANGED videoVars
    /\ db' \in {Deleted(Index), db}
    /\ UNCHANGED <<session, reaped, pending, snaps, kill, come>>

-----------------------------------------------------------------------------
(* The web admin: request_drop *)

(* _flip_drop_flag, one transaction; the pid of the row is remembered *)
FlipDropFlag(i) ==
    /\ kill = None /\ db[i] # None
    /\ db' = [db EXCEPT ![i].drop = TRUE]
    /\ kill' = db[i].session
    /\ asked' = IF /\ i \in MavIndex /\ running
                   /\ db[i].session = session
                   /\ db[i].who = Owner(i, user, held)
                THEN asked \cup {i} ELSE asked
    /\ UNCHANGED <<linkVars, session, reaped, pending, snaps, videoVars, come>>

(* SIGUSR1 to that pid, if it is still a supportproxy process: it sets     *)
(* g_drops_pending in a session child, and ends a video child.             *)
Signal ==
    /\ kill # None /\ kill' = None
    /\ pending' = (pending \/ (running /\ kill = session))
    /\ IF kill = 0 /\ video = "up" THEN video' = "dead" /\ pubs' = {}
                                   ELSE UNCHANGED videoVars
    /\ UNCHANGED <<linkVars, session, reaped, tableVars, asked, come>>

(* the web admin went away before it got to the signal *)
NoSignal ==
    /\ kill # None /\ kill' = None
    /\ UNCHANGED <<linkVars, session, reaped, pending, tableVars, asked,
                   videoVars, come>>

-----------------------------------------------------------------------------
(* The video child *)

Publish(v) ==
    /\ video = "up"
    /\ pubs' = IF v \in pubs THEN pubs \ {v} ELSE pubs \cup {v}
    /\ UNCHANGED <<linkVars, session, reaped, pending, tableVars, adminVars,
                   video, come>>

PubRow == [session |-> 0, who |-> "pub", drop |-> FALSE]

(* Wrong on purpose: rows of publishers that have gone are left. *)
PubRowsKept(i) ==
    IF i - VIDEO_CONN_INDEX_BASE \in pubs THEN PubRow ELSE db[i]

(* the row at index i of the video range: one for each publisher *)
PubRows(i) ==
    IF i - VIDEO_CONN_INDEX_BASE \in pubs THEN PubRow ELSE None

(* write_conn_rows: its own range only *)
WriteConnRows ==
    /\ video = "up"
    /\ db' = [i \in Index |-> IF i \in MavIndex THEN db[i] ELSE PubRows(i)]
    /\ UNCHANGED <<linkVars, session, reaped, pending, snaps, adminVars,
                   videoVars, come>>

(* The video child ends, having removed its rows or not. *)
VideoExit ==
    /\ VideoSlots # {} /\ video = "up"
    /\ video' = "dead" /\ pubs' = {}
    /\ db' \in {Deleted(VideoIndex), db}
    /\ UNCHANGED <<linkVars, session, reaped, pending, snaps, adminVars, come>>

(* check_children: conn_remove_video *)
ReapVideo ==
    /\ video = "dead" /\ video' = "down"
    /\ db' \in {Deleted(VideoIndex), db}
    /\ UNCHANGED <<linkVars, session, reaped, pending, snaps, adminVars, pubs,
                   come>>

(* fork_video_child *)
ForkVideo ==
    /\ video = "down" /\ video' = "up"
    /\ UNCHANGED <<linkVars, session, reaped, pending, tableVars, adminVars,
                   pubs, come>>

-----------------------------------------------------------------------------
SessionNext == Traffic \/ DropsPending \/ HeartbeatFailed
               \/ \E s \in SnapIds : Heartbeat(s)

SnapshotNext == \E s \in SnapIds : WriteSnapshot(s) \/ LoseSnapshot(s)

ParentNext == ReapSession \/ NewSession \/ RemoveEntry

AdminNext == (\E i \in Index : FlipDropFlag(i)) \/ Signal \/ NoSignal

VideoNext == (\E v \in VideoSlots : Publish(v)) \/ WriteConnRows
             \/ VideoExit \/ ReapVideo \/ ForkVideo

Next == SessionNext \/ SnapshotNext \/ ParentNext \/ AdminNext \/ VideoNext

Spec == Init /\ [][Next]_vars

(* The heartbeat comes every 5 s while the loop runs, a snapshot writer    *)
(* gets to run, and an open of the table does not fail for ever.  The      *)
(* video child writes its rows on its tick, and the parent reaps and forks *)
(* it anew.                                                                *)
Fairness ==
    /\ \A s \in SnapIds :
          SF_vars(Heartbeat(s)) /\ SF_vars(WriteSnapshot(s))
    /\ WF_vars(WriteConnRows) /\ WF_vars(ReapVideo) /\ WF_vars(ForkVideo)

FairSpec == Spec /\ Fairness

-----------------------------------------------------------------------------
(* Properties *)

(* conn_drop_mask has a bit for conn_index i *)
Covered(i) == i < MASK_BITS

(* A drop request for a connection that is there stays in the table until  *)
(* it is carried out: no snapshot that races it wipes it                   *)
(* (tests/test_drop_lost_request.py, conn_drop_mask in conntdb.h).         *)
DropKept == \A i \in asked : Covered(i) => Flagged(i)

(* Every such request is carried out, whether or not its signal arrives.   *)
DropHonoured ==
    \A i \in MavIndex : Covered(i) => ((i \in asked) ~> (i \notin asked))

(* the writer of snapshot s ends in this step *)
WriterEnds(s) == snaps[s] # None /\ snaps'[s] = None

(* However many snapshot writers there are, and however wide the mask is,  *)
(* a request for a connection that stays is wiped only by a snapshot: by   *)
(* one that was forked while nobody had that conn_index, or by any one if  *)
(* the index is beyond the mask (conn_drop_mask, conn_write,               *)
(* process_drops, check_children, write_conn_rows).                        *)
RequestLostBySnapshot ==
    [][\A i \in asked' : Flagged(i) /\ ~Flagged(i)' =>
          \E s \in SnapIds :
              /\ WriterEnds(s)
              /\ ~Covered(i) \/ Owner(i, snaps[s].user, snaps[s].held) = NoConn]_vars

(* A row gets its flag from a web admin that flags this row and no other,  *)
(* or, beyond the mask, from the row whose bit the shift wraps around to   *)
(* (conn_drop_mask, conn_write).  This is said of rows: the connection     *)
(* that a row shows may be another one by then, see FlagsAsked.            *)
FlagsFromRows ==
    [][\A i \in Index : Flagged(i)' /\ ~Flagged(i) =>
          \/ /\ kill = None /\ db[i] # None /\ kill' = db[i].session
             /\ \A j \in Index \ {i} : db'[j] = db[j]
          \/ ~Covered(i) /\ Flagged(i % MASK_BITS)]_vars

(* A connection whose row is flagged is one that somebody asked to be      *)
(* dropped, as the web page promises.  The code does not meet this, and no *)
(* run checks it: see the README, section 3.                               *)
FlagsAsked ==
    \A i \in MavIndex :
        /\ running /\ Flagged(i)
        /\ db[i].session = session /\ db[i].who = Owner(i, user, held)
        => i \in asked

(* The session's snapshots leave the rows of the video child alone, as     *)
(* conntdb.h says of the two writers. The code does not meet this, and no  *)
(* run checks it: see the README, section 3.                               *)
VideoRowsKept ==
    [][snaps # snaps' => \A i \in VideoIndex : db'[i] = db[i]]_vars

(* A request to drop one publisher leaves the others alone. The code does  *)
(* not meet this, and no run checks it: see the README, section 3.         *)
KillLeavesOthers ==
    [][kill # None /\ kill' = None => Cardinality(pubs \ pubs') <= 1]_vars

(* what the table should show of the session *)
Accurate ==
    \A i \in MavIndex :
        IF Owner(i, user, held) = NoConn THEN db[i] = None
        ELSE /\ db[i] # None
             /\ db[i].session = session /\ db[i].who = Owner(i, user, held)

(* The table catches up: when connections stop changing it gets to show    *)
(* exactly them, again and again.                                          *)
RowsCatchUp ==
    \/ []<><<linkVars # linkVars'>>_vars
    \/ []<>(~running)
    \/ []<>Accurate

(* The video rows catch up in the same way while the video child stays up, *)
(* although the session's snapshots erase them.                            *)
VideoRowsCatchUp ==
    \/ []<><<pubs # pubs'>>_vars
    \/ []<>(video # "up")
    \/ []<>(\A v \in VideoSlots :
              (v \in pubs) = (db[VIDEO_CONN_INDEX_BASE + v] # None))
==============================================================================
