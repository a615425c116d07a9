--------------------------- MODULE ConnTableProofs ---------------------------
(***************************************************************************)
(* Drop requests in connections.tdb: where flags come from, what can wipe  *)
(* one of a connection that stays, and that nothing does while snapshot    *)
(* writers do not overlap; for any number of slots, connections, sessions, *)
(* snapshot writers and video ports and any width of the mask.             *)
(***************************************************************************)
EXTENDS ConnTable, TLAPS

(* Snapshot writers do not overlap: the fork of one finds the one before   *)
(* it gone.  main_loop does not see to it, and conn_drop_overtaken shows   *)
(* what follows when they do.                                              *)
OneInFlight ==
    \A s, t \in SnapIds : snaps[s] # None /\ snaps[t] # None => s = t

(* row i of the table shows the connection that now has index i *)
Shown(i) ==
    /\ running /\ Owner(i, user, held) # NoConn
    /\ db[i] # None /\ db[i].session = session
    /\ db[i].who = Owner(i, user, held)

(* Rows and snapshots are of this session or an earlier one, and show only *)
(* connections there have been.                                            *)
Past ==
    /\ reaped => ~running
    /\ \A i \in Slots : held[i] # NoConn => held[i] \in come
    /\ \A i \in MavIndex : db[i] # None =>
          /\ db[i].session <= session
          /\ i # 0 => db[i].who \in come
          /\ i = 0 /\ db[i].session = session => user
    /\ \A s \in SnapIds : snaps[s] # None =>
          /\ snaps[s].session <= session
          /\ \A i \in Slots : snaps[s].held[i] # NoConn => snaps[s].held[i] \in come
          /\ snaps[s].session = session /\ snaps[s].user => user

(* A snapshot under way has every connection that the table shows. *)
Fresh ==
    \A s \in SnapIds, i \in MavIndex : snaps[s] # None /\ Shown(i) =>
        /\ snaps[s].session = session
        /\ Owner(i, snaps[s].user, snaps[s].held) = Owner(i, user, held)

(* Who is asked to leave is shown, and flagged if the mask has a bit for   *)
(* the index.                                                              *)
AskedShown == \A i \in asked : Shown(i) /\ (Covered(i) => Flagged(i))

DropInv == TypeOK /\ Past /\ Fresh /\ AskedShown

-----------------------------------------------------------------------------
(* Which numbers are a conn_index of the session child. *)
LEMMA IndexFacts ==
    /\ MavIndex \subseteq Nat /\ 0 \in MavIndex /\ MavIndex \subseteq Index
    /\ \A i \in Slots : i + 1 \in MavIndex /\ i + 1 # 0 /\ (i + 1) - 1 = i
    /\ \A i \in MavIndex : i # 0 => i - 1 \in Slots /\ i = (i - 1) + 1
  BY TableAssumption DEF MavIndex, Index

(* The two children write different rows. *)
LEMMA RangesApart == MavIndex \cap VideoIndex = {}
  <1>1. VideoSlots \subseteq Nat /\ \A i \in Slots : i \in 0 .. 998
    BY TableAssumption DEF VIDEO_CONN_INDEX_BASE
  <1> QED
    BY <1>1 DEF MavIndex, VideoIndex, VIDEO_CONN_INDEX_BASE

(* The connection at an index is the user, an engineer or nobody. *)
LEMMA OwnerType ==
    ASSUME NEW i \in MavIndex, NEW u \in BOOLEAN,
           NEW h \in [Slots -> Conns \cup {NoConn}],
           Owner(i, u, h) # NoConn
    PROVE  Owner(i, u, h) \in Conns \cup {"user"}
  BY IndexFacts DEF Owner

(* Deleting rows, and the flags and owners of rows that are left. *)
LEMMA DeletedType ==
    ASSUME db \in [Index -> Row \cup {None}], NEW gone
    PROVE  /\ Deleted(gone) \in [Index -> Row \cup {None}]
           /\ \A i \in Index : Deleted(gone)[i] \in {None, db[i]}
           /\ \A i \in Index : i \notin gone => Deleted(gone)[i] = db[i]
           /\ \A i \in Index \cap gone : Deleted(gone)[i] = None
  BY DEF Deleted

(* What a snapshot writes for a connection is a row. *)
LEMMA SnapshotRowType ==
    ASSUME NEW snap \in Snapshot, NEW wraps \in BOOLEAN, NEW i \in Present(snap)
    PROVE  SnapshotRow(snap, i, wraps) \in Row
  <1>1. i \in MavIndex /\ Owner(i, snap.user, snap.held) # NoConn
    BY DEF Present
  <1>2. /\ snap.session \in 1 .. MaxSessions /\ snap.user \in BOOLEAN
        /\ snap.held \in [Slots -> Conns \cup {NoConn}]
    BY DEF Snapshot
  <1>3. Owner(i, snap.user, snap.held) \in Conns \cup {"user"}
    BY <1>1, <1>2, OwnerType
  <1>4. snap.session \in 0 .. MaxSessions
    BY <1>2, TableAssumption
  <1>5. DropBit(i, wraps) \in BOOLEAN
    <2>1. Flagged(i) \in BOOLEAN /\ Flagged(i % MASK_BITS) \in BOOLEAN
      BY DEF Flagged
    <2> QED
      BY <2>1 DEF DropBit
  <1> QED
    BY <1>3, <1>4, <1>5 DEF SnapshotRow, Row

(* The table after a snapshot is a table. *)
LEMMA RewrittenType ==
    ASSUME NEW snap \in Snapshot, NEW wraps \in BOOLEAN
    PROVE  Rewritten(snap, wraps) \in [Index -> Row \cup {None}]
  BY SnapshotRowType DEF Rewritten

(* What the session child does to its connections. *)
LinkStep ==
    \/ End
    \/ \E gone \in SUBSET Slots : UserLatch(gone) \/ Leave(gone)
    \/ \E i \in Slots, c \in Conns : Join(i, c)

(* Coming, going and ending keep the types of the session. *)
LEMMA LinkTypes ==
    ASSUME LinksTypeOK, LinkStep
    PROVE  LinksTypeOK'
  <1>1. \A gone : Without(gone) \in [Slots -> Conns \cup {NoConn}]
    BY DEF Without, LinksTypeOK
  <1> QED
    BY <1>1 DEF LinkStep, LinksTypeOK, End, UserLatch, Leave, Join

(* process_drops in its two outcomes *)
LEMMA DropsTypes ==
    ASSUME TypeOK, process_drops \/ process_drops_failed
    PROVE  /\ LinksTypeOK' /\ db' \in [Index -> Row \cup {None}]
           /\ asked' \subseteq asked
  <1>1. CASE process_drops
    <2>1. LinkStep
      BY <1>1 DEF process_drops, LinkStep
    <2> QED
      BY <1>1, <2>1, LinkTypes, DeletedType DEF process_drops, KeepAsked, TypeOK
  <1>2. CASE process_drops_failed
    BY <1>2 DEF process_drops_failed, TypeOK, LinksTypeOK, linkVars
  <1> QED
    BY <1>1, <1>2

(* fork() of a snapshot writer *)
LEMMA ForkTypes ==
    ASSUME TypeOK, LinksTypeOK', NEW s \in SnapIds, ForkSnapshot(s)
    PROVE  snaps' \in [SnapIds -> Snapshot \cup {None}]
  <1>1. [session |-> session, user |-> user', held |-> held'] \in Snapshot
    BY DEF TypeOK, LinksTypeOK, Snapshot
  <1> QED
    BY <1>1 DEF ForkSnapshot, TypeOK

(* The types are kept by the session child *)
LEMMA SessionTypes ==
    ASSUME TypeOK, SessionNext
    PROVE  TypeOK'
  <1>1. CASE Traffic
    <2>1. LinkStep
      BY <1>1 DEF Traffic, LinkStep
    <2>2. LinksTypeOK'
      BY <2>1, LinkTypes DEF TypeOK
    <2>3. asked' \subseteq asked /\ come' \subseteq Conns
      BY <1>1 DEF Traffic, KeepAsked, TypeOK
    <2> QED
      BY <1>1, <2>2, <2>3 DEF Traffic, TypeOK, tableVars, videoVars
  <1>2. CASE DropsPending
    <2>1. process_drops \/ process_drops_failed
      BY <1>2 DEF DropsPending
    <2> QED
      BY <1>2, <2>1, DropsTypes DEF DropsPending, TypeOK, videoVars
  <1>3. CASE HeartbeatFailed
    <2>1. process_drops \/ process_drops_failed
      BY <1>3 DEF HeartbeatFailed, Rescan
    <2>2. LinksTypeOK'
      BY <2>1, DropsTypes
    <2>3. snaps' \in [SnapIds -> Snapshot \cup {None}]
      BY <1>3, <2>2, ForkTypes DEF HeartbeatFailed, TypeOK
    <2> QED
      BY <1>3, <2>1, <2>3, DropsTypes DEF HeartbeatFailed, TypeOK, videoVars
  <1>4. ASSUME NEW s \in SnapIds, Heartbeat(s) PROVE TypeOK'
    <2>1. process_drops
      BY <1>4 DEF Heartbeat, Rescan
    <2>2. LinksTypeOK'
      BY <2>1, DropsTypes
    <2>3. snaps' \in [SnapIds -> Snapshot \cup {None}]
      BY <1>4, <2>2, ForkTypes DEF Heartbeat, TypeOK
    <2> QED
      BY <1>4, <2>1, <2>3, DropsTypes DEF Heartbeat, TypeOK, videoVars
  <1> QED
    BY <1>1, <1>2, <1>3, <1>4 DEF SessionNext

(* and by everybody else. *)
LEMMA OtherTypes ==
    ASSUME TypeOK, SnapshotNext \/ ParentNext \/ AdminNext \/ VideoNext
    PROVE  TypeOK'
  <1>0. /\ LinksTypeOK /\ db \in [Index -> Row \cup {None}]
        /\ snaps \in [SnapIds -> Snapshot \cup {None}]
    BY DEF TypeOK
  <1>1. ASSUME NEW s \in SnapIds, WriteSnapshot(s) PROVE TypeOK'
    <2>1. PICK wraps \in BOOLEAN : db' = Rewritten(snaps[s], wraps)
      BY <1>1 DEF WriteSnapshot
    <2>2. snaps[s] \in Snapshot
      BY <1>0, <1>1 DEF WriteSnapshot
    <2>3. db' \in [Index -> Row \cup {None}]
      BY <1>0, <2>1, <2>2, RewrittenType
    <2> QED
      BY <1>1, <2>3 DEF WriteSnapshot, TypeOK, LinksTypeOK, linkVars, adminVars, videoVars
  <1>2. ASSUME NEW s \in SnapIds, LoseSnapshot(s) PROVE TypeOK'
    BY <1>2 DEF LoseSnapshot, TypeOK, LinksTypeOK, linkVars, adminVars, videoVars
  <1>3. CASE ReapSession
    BY <1>0, <1>3, DeletedType
    DEF ReapSession, TypeOK, LinksTypeOK, linkVars, adminVars, videoVars
  <1>4. CASE NewSession
    <2>1. session' \in 1 .. MaxSessions
      BY <1>4, TableAssumption DEF NewSession, TypeOK
    <2> QED
      BY <1>4, <2>1
      DEF NewSession, TypeOK, LinksTypeOK, tableVars, adminVars, videoVars
  <1>5. CASE RemoveEntry
    <2>1. asked' \subseteq asked /\ LinksTypeOK'
      BY <1>0, <1>5 DEF RemoveEntry, KeepAsked, LinksTypeOK
    <2>2. video' \in {"up", "dead", "down"} /\ pubs' \subseteq VideoSlots
      BY <1>5 DEF RemoveEntry, TypeOK, videoVars
    <2> QED
      BY <1>0, <1>5, <2>1, <2>2, DeletedType DEF RemoveEntry, TypeOK
  <1>6. ASSUME NEW i \in Index, FlipDropFlag(i) PROVE TypeOK'
    <2>1. db[i] \in Row
      BY <1>0, <1>6 DEF FlipDropFlag
    <2>2. [db[i] EXCEPT !.drop = TRUE] \in Row /\ db[i].session \in 0 .. MaxSessions
      BY <2>1 DEF Row
    <2>3. db' \in [Index -> Row \cup {None}]
      BY <1>0, <1>6, <2>2 DEF FlipDropFlag
    <2>4. asked' \subseteq MavIndex
      BY <1>6 DEF FlipDropFlag, TypeOK
    <2> QED
      BY <1>6, <2>2, <2>3, <2>4
      DEF FlipDropFlag, TypeOK, LinksTypeOK, linkVars, videoVars
  <1>7. CASE Signal \/ NoSignal
    <2>1. video' \in {"up", "dead", "down"} /\ pubs' \subseteq VideoSlots
      BY <1>7 DEF Signal, NoSignal, TypeOK, videoVars
    <2>2. pending' \in BOOLEAN
      BY <1>7 DEF Signal, NoSignal, TypeOK, LinksTypeOK
    <2> QED
      BY <1>7, <2>1, <2>2
      DEF Signal, NoSignal, TypeOK, LinksTypeOK, linkVars, tableVars
  <1>8. CASE \E v \in VideoSlots : Publish(v)
    BY <1>8 DEF Publish, TypeOK, LinksTypeOK, linkVars, tableVars, adminVars
  <1>9. CASE WriteConnRows
    <2>1. PubRow \in Row
      BY TableAssumption DEF PubRow, Row
    <2>2. db' \in [Index -> Row \cup {None}]
      BY <1>0, <1>9, <2>1 DEF WriteConnRows, PubRows
    <2> QED
      BY <1>9, <2>2 DEF WriteConnRows, TypeOK, LinksTypeOK, linkVars, adminVars, videoVars
  <1>10. CASE VideoExit \/ ReapVideo
    BY <1>0, <1>10, DeletedType
    DEF VideoExit, ReapVideo, TypeOK, LinksTypeOK, linkVars, adminVars
  <1>11. CASE ForkVideo
    BY <1>11 DEF ForkVideo, TypeOK, LinksTypeOK, linkVars, tableVars, adminVars
  <1> QED
    BY <1>1, <1>2, <1>3, <1>4, <1>5, <1>6, <1>7, <1>8, <1>9, <1>10, <1>11
    DEF SnapshotNext, ParentNext, AdminNext, VideoNext

(* The types of the table and of those who write it. *)
THEOREM TableTypes == Spec => []TypeOK
  <1>1. Init => TypeOK
    <2>1. 1 \in 1 .. MaxSessions
      BY TableAssumption
    <2>2. LinksInit => LinksTypeOK
      BY DEF LinksInit, LinksTypeOK
    <2> QED
      BY <2>1, <2>2 DEF Init, TypeOK
  <1>2. TypeOK /\ [Next]_vars => TypeOK'
    <2> SUFFICES ASSUME TypeOK, [Next]_vars PROVE TypeOK'
      OBVIOUS
    <2>1. CASE UNCHANGED vars
      BY <2>1
      DEF vars, TypeOK, LinksTypeOK, linkVars, tableVars, adminVars, videoVars
    <2> QED
      BY <2>1, SessionTypes, OtherTypes DEF Next
  <1> QED
    BY <1>1, <1>2, PTL DEF Spec

-----------------------------------------------------------------------------
(* In the rows that fit the mask a snapshot finds the flag it found before. *)
LEMMA DropBitExact ==
    ASSUME NEW i \in MavIndex, NEW wraps, Covered(i)
    PROVE  DropBit(i, wraps) = Flagged(i)
  BY DEF Covered, DropBit

(* Steps that delete rows set no flag. *)
LEMMA RowsOnlyGo ==
    ASSUME \A i \in Index : db'[i] \in {None, db[i]}
    PROVE  \A i \in Index : Flagged(i)' => Flagged(i)
  BY DEF Flagged

(* A flag comes from a web admin that flags this very row or, beyond the    *)
(* mask, from the row whose bit the shift wraps around to (conn_drop_mask,  *)
(* conn_write); no other step of anybody sets one.                          *)
THEOREM FlagsFromRowsHolds == Spec => FlagsFromRows
  <1> DEFINE Step == \A i \in Index : Flagged(i)' /\ ~Flagged(i) =>
                         \/ /\ kill = None /\ db[i] # None /\ kill' = db[i].session
                            /\ \A j \in Index \ {i} : db'[j] = db[j]
                         \/ ~Covered(i) /\ Flagged(i % MASK_BITS)
  <1>1. TypeOK /\ [Next]_vars => [Step]_vars
    <2> SUFFICES ASSUME TypeOK, Next PROVE Step
      OBVIOUS
    <2>0. db \in [Index -> Row \cup {None}]
      BY DEF TypeOK
    <2>1. CASE \A i \in Index : db'[i] \in {None, db[i]}
      BY <2>1, RowsOnlyGo
    <2>2. CASE SessionNext
      <3>1. db' = db \/ \E gone : db' = Deleted(gone)
        BY <2>2 DEF SessionNext, Traffic, DropsPending, Heartbeat, HeartbeatFailed,
                    Rescan, process_drops, process_drops_failed, tableVars
      <3> QED
        BY <2>0, <2>1, <3>1, DeletedType
    <2>3. CASE SnapshotNext
      <3>1. PICK s \in SnapIds : WriteSnapshot(s) \/ LoseSnapshot(s)
        BY <2>3 DEF SnapshotNext
      <3>2. CASE LoseSnapshot(s)
        BY <2>1, <3>2 DEF LoseSnapshot
      <3>3. CASE WriteSnapshot(s)
        <4>1. PICK wraps \in BOOLEAN : db' = Rewritten(snaps[s], wraps)
          BY <3>3 DEF WriteSnapshot
        <4>2. ASSUME NEW i \in Index, Flagged(i)'
              PROVE  Flagged(i) \/ (~Covered(i) /\ Flagged(i % MASK_BITS))
          <5>1. i \in Present(snaps[s]) /\ db'[i] = SnapshotRow(snaps[s], i, wraps)
            BY <4>1, <4>2 DEF Rewritten, Flagged
          <5>2. i \in MavIndex /\ db'[i].drop = DropBit(i, wraps)
            BY <5>1 DEF Present, SnapshotRow
          <5>3. DropBit(i, wraps)
            BY <4>2, <5>2 DEF Flagged
          <5> QED
            BY <5>3 DEF DropBit, Covered
        <4> QED
          BY <4>2
      <3> QED
        BY <3>1, <3>2, <3>3
    <2>4. CASE ParentNext
      <3>1. db' = db \/ \E gone : db' = Deleted(gone)
        BY <2>4 DEF ParentNext, ReapSession, NewSession, RemoveEntry, tableVars
      <3> QED
        BY <2>0, <2>1, <3>1, DeletedType
    <2>5. CASE AdminNext
      <3>1. CASE Signal \/ NoSignal
        BY <2>1, <3>1 DEF Signal, NoSignal, tableVars
      <3>2. ASSUME NEW i \in Index, FlipDropFlag(i) PROVE Step
        <4>1. \A j \in Index \ {i} : db'[j] = db[j]
          BY <2>0, <3>2 DEF FlipDropFlag
        <4>2. kill = None /\ db[i] # None /\ kill' = db[i].session
          BY <3>2 DEF FlipDropFlag
        <4> QED
          BY <4>1, <4>2 DEF Flagged
      <3> QED
        BY <2>5, <3>1, <3>2 DEF AdminNext
    <2>6. CASE VideoNext
      <3>1. CASE WriteConnRows
        BY <3>1 DEF WriteConnRows, PubRows, PubRow, Flagged
      <3>2. CASE ~WriteConnRows
        <4>1. db' = db \/ \E gone : db' = Deleted(gone)
          BY <2>6, <3>2 DEF VideoNext, Publish, VideoExit, ReapVideo, ForkVideo, tableVars
        <4> QED
          BY <2>0, <2>1, <4>1, DeletedType
      <3> QED
        BY <3>1, <3>2
    <2> QED
      BY <2>2, <2>3, <2>4, <2>5, <2>6 DEF Next
  <1> QED
    BY <1>1, TableTypes, PTL DEF Spec, FlagsFromRows

-----------------------------------------------------------------------------
(* The connection at an index stays, leaves, or is one that has just come. *)
LEMMA OwnerMoves ==
    ASSUME LinksTypeOK, NEW i \in MavIndex,
           \/ LinkStep /\ ~(\E j \in Slots, c \in Conns : Join(j, c))
           \/ \E j \in Slots, c \in Conns \ come : Join(j, c) /\ come' = come \cup {c}
    PROVE  /\ running
           /\ user => user'
           /\ \/ Owner(i, user', held') \in {NoConn, Owner(i, user, held)}
              \/ i = 0 /\ ~user
              \/ i # 0 /\ Owner(i, user', held') \in come' \ come
  <1>1. CASE End
    BY <1>1 DEF End
  <1>2. ASSUME NEW gone \in SUBSET Slots, UserLatch(gone) \/ Leave(gone)
        PROVE  /\ running
               /\ user => user'
               /\ \/ Owner(i, user', held') \in {NoConn, Owner(i, user, held)}
                  \/ i = 0 /\ ~user
    <2>1. i # 0 => held'[i - 1] \in {NoConn, held[i - 1]}
      BY <1>2, IndexFacts DEF UserLatch, Leave, Without
    <2> QED
      BY <1>2, <2>1 DEF UserLatch, Leave, Owner
  <1>3. ASSUME NEW j \in Slots, NEW c \in Conns \ come, Join(j, c),
               come' = come \cup {c}
        PROVE  /\ running
               /\ user => user'
               /\ \/ Owner(i, user', held') \in {NoConn, Owner(i, user, held)}
                  \/ i # 0 /\ Owner(i, user', held') \in come' \ come
    <2>1. i # 0 => held'[i - 1] \in {c, held[i - 1]}
      BY <1>3, IndexFacts DEF Join, LinksTypeOK
    <2> QED
      BY <1>3, <2>1 DEF Join, Owner
  <1> QED
    BY <1>1, <1>2, <1>3 DEF LinkStep

(* Who holds a slot has come. *)
LEMMA HoldersCome ==
    ASSUME \A i \in MavIndex : i # 0 /\ Owner(i, user', held') # NoConn =>
               Owner(i, user', held') \in come'
    PROVE  \A i \in Slots : held'[i] # NoConn => held'[i] \in come'
  <1> SUFFICES ASSUME NEW i \in Slots PROVE held'[i] # NoConn => held'[i] \in come'
    OBVIOUS
  <1>1. i + 1 \in MavIndex /\ i + 1 # 0 /\ Owner(i + 1, user', held') = held'[i]
    BY IndexFacts DEF Owner
  <1> QED
    BY <1>1

(* Connections come and go. *)
LEMMA TrafficKeeps ==
    ASSUME DropInv, Traffic
    PROVE  (Past /\ Fresh /\ AskedShown)'
  <1>0. TypeOK /\ Past /\ Fresh /\ AskedShown /\ LinksTypeOK
    BY DEF DropInv, TypeOK
  <1>1. UNCHANGED <<session, reaped, db, snaps>> /\ KeepAsked /\ come \subseteq come'
    BY DEF Traffic, tableVars
  <1>2. ASSUME NEW i \in MavIndex
        PROVE  /\ running
               /\ user => user'
               /\ \/ Owner(i, user', held') \in {NoConn, Owner(i, user, held)}
                  \/ i = 0 /\ ~user
                  \/ i # 0 /\ Owner(i, user', held') \in come' \ come
    <2>1. \/ LinkStep /\ ~(\E j \in Slots, c \in Conns : Join(j, c))
          \/ \E j \in Slots, c \in Conns \ come : Join(j, c) /\ come' = come \cup {c}
      <3>1. CASE End \/ \E gone \in SUBSET Slots : UserLatch(gone) \/ Leave(gone)
        <4>1. ASSUME NEW j \in Slots, NEW c \in Conns, Join(j, c) PROVE FALSE
          <5>1. held[j] = NoConn /\ held'[j] = c /\ c # NoConn
            BY <1>0, <4>1, NoConnAssumption DEF Join, LinksTypeOK
          <5>2. held'[j] \in {NoConn, held[j]}
            BY <3>1 DEF End, UserLatch, Leave, Without
          <5> QED
            BY <5>1, <5>2
        <4> QED
          BY <3>1, <4>1 DEF LinkStep
      <3> QED
        BY <3>1 DEF Traffic
    <2> QED
      BY <1>0, <1>2, <2>1, OwnerMoves
  <1>3. ASSUME NEW i \in MavIndex, Shown(i)'
        PROVE  Shown(i) /\ Owner(i, user', held') = Owner(i, user, held)
    <2>1. /\ Owner(i, user', held') # NoConn
          /\ db[i] # None /\ db[i].session = session
          /\ db[i].who = Owner(i, user', held')
      BY <1>1, <1>3 DEF Shown
    <2>2. Owner(i, user', held') = Owner(i, user, held)
      BY <1>0, <1>2, <2>1 DEF Past
    <2> QED
      BY <1>2, <2>1, <2>2 DEF Shown
  <1>4. Fresh'
    BY <1>0, <1>1, <1>3 DEF Fresh
  <1>5. AskedShown'
    BY <1>0, <1>1 DEF AskedShown, KeepAsked, Shown, Flagged
  <1>6. \A i \in Slots : held'[i] # NoConn => held'[i] \in come'
    <2>1. ASSUME NEW i \in MavIndex, i # 0, Owner(i, user', held') # NoConn
          PROVE  Owner(i, user', held') \in come'
      <3>1. Owner(i, user, held) # NoConn => Owner(i, user, held) \in come
        BY <1>0, <2>1, IndexFacts DEF Past, Owner
      <3> QED
        BY <1>1, <1>2, <2>1, <3>1
    <2> QED
      BY <2>1, HoldersCome
  <1>7. running /\ (user => user')
    BY <1>2, IndexFacts
  <1>8. Past'
    BY <1>0, <1>1, <1>6, <1>7 DEF Past
  <1> QED
    BY <1>4, <1>5, <1>8

(* process_drops closes the connection at an index that is flagged. *)
LEMMA DropsClose ==
    ASSUME process_drops, NEW i \in MavIndex, Flagged(i), running',
           Owner(i, user, held) # NoConn
    PROVE  Owner(i, user', held') # Owner(i, user, held)
  <1>1. ~Flagged(0) /\ Leave({j \in Slots : Flagged(j + 1)})
    BY DEF process_drops, End
  <1>2. i # 0 /\ i - 1 \in Slots /\ Flagged((i - 1) + 1)
    BY <1>1, IndexFacts
  <1>3. held'[i - 1] = NoConn
    BY <1>1, <1>2 DEF Leave, Without
  <1> QED
    BY <1>2, <1>3 DEF Owner

(* process_drops, with or without the fork of a snapshot writer *)
LEMMA DropsKeep ==
    ASSUME DropInv, process_drops \/ process_drops_failed,
           UNCHANGED <<session, reaped, come>>,
           \A s \in SnapIds : snaps'[s] \in
               {snaps[s], [session |-> session, user |-> user', held |-> held']}
    PROVE  (Past /\ Fresh /\ AskedShown)'
  <1>0. TypeOK /\ Past /\ Fresh /\ AskedShown /\ LinksTypeOK
        /\ db \in [Index -> Row \cup {None}] /\ asked \subseteq MavIndex
    BY DEF DropInv, TypeOK
  <1>1. /\ running /\ user' = user
        /\ \A i \in Slots : held'[i] \in {NoConn, held[i]}
    BY DEF process_drops, process_drops_failed, End, Leave, Without, linkVars
  <1>2. \A i \in MavIndex :
            /\ db'[i] \in {None, db[i]}
            /\ Owner(i, user', held') \in {NoConn, Owner(i, user, held)}
    <2>1. \A i \in MavIndex : db'[i] \in {None, db[i]}
      BY <1>0, DeletedType, IndexFacts DEF process_drops, process_drops_failed
    <2> QED
      BY <1>1, <2>1, IndexFacts DEF Owner
  <1>3. \A i \in MavIndex : Shown(i)' =>
            Shown(i) /\ Owner(i, user', held') = Owner(i, user, held)
    BY <1>1, <1>2 DEF Shown
  <1>4. Fresh'
    <2> SUFFICES ASSUME NEW s \in SnapIds, NEW i \in MavIndex,
                        snaps'[s] # None, Shown(i)'
                 PROVE  /\ snaps'[s].session = session
                        /\ Owner(i, snaps'[s].user, snaps'[s].held)
                               = Owner(i, user', held')
      BY DEF Fresh
    <2>1. Shown(i) /\ Owner(i, user', held') = Owner(i, user, held)
      BY <1>3
    <2>2. CASE snaps'[s] = snaps[s]
      BY <1>0, <2>1, <2>2 DEF Fresh
    <2>3. CASE snaps'[s] = [session |-> session, user |-> user', held |-> held']
      BY ONLY <2>3
    <2> QED
      BY <2>2, <2>3
  <1>5. AskedShown'
    <2>1. CASE process_drops_failed
      BY <1>0, <2>1 DEF process_drops_failed, linkVars, AskedShown, Shown, Flagged
    <2>2. ASSUME process_drops, NEW i \in asked'
          PROVE  Shown(i)' /\ ~Flagged(i) /\ (Covered(i) => Flagged(i))
      <3>1. /\ i \in asked /\ i \in MavIndex /\ running'
            /\ Owner(i, user', held') = Owner(i, user, held)
            /\ Shown(i) /\ (Covered(i) => Flagged(i))
        BY <1>0, <2>2 DEF process_drops, KeepAsked, AskedShown
      <3>2. ~Flagged(i)
        BY <2>2, <3>1, DropsClose DEF Shown
      <3>3. db'[i] = db[i]
        BY <1>0, <2>2, <3>1, <3>2, DeletedType, IndexFacts DEF process_drops
      <3> QED
        BY <3>1, <3>2, <3>3 DEF Shown
    <2> QED
      BY <2>1, <2>2 DEF AskedShown
  <1>6. Past'
    <2>1. \A i \in Slots : held'[i] # NoConn => held'[i] \in come
      BY <1>0, <1>1 DEF Past
    <2>2. session \in Int
      BY <1>0 DEF TypeOK
    <2>3. \A i \in MavIndex : db'[i] # None =>
            /\ db'[i].session <= session
            /\ i # 0 => db'[i].who \in come
            /\ i = 0 /\ db'[i].session = session => user
      BY <1>0, <1>2 DEF Past
    <2>4. \A s \in SnapIds : snaps'[s] # None =>
            /\ snaps'[s].session <= session
            /\ \A i \in Slots : snaps'[s].held[i] # NoConn => snaps'[s].held[i] \in come
            /\ snaps'[s].session = session /\ snaps'[s].user => user
      <3> DEFINE Old(r) == /\ r.session <= session
                           /\ \A i \in Slots : r.held[i] # NoConn => r.held[i] \in come
                           /\ r.session = session /\ r.user => user
      <3>1. Old([session |-> session, user |-> user', held |-> held'])
        BY <1>1, <2>1, <2>2
      <3>2. \A s \in SnapIds : snaps[s] # None => Old(snaps[s])
        BY <1>0 DEF Past
      <3> HIDE DEF Old
      <3>3. \A s \in SnapIds : snaps'[s] # None => Old(snaps'[s])
        BY <3>1, <3>2
      <3> QED
        BY <3>3 DEF Old
    <2> QED
      BY <1>0, <1>1, <2>1, <2>3, <2>4 DEF Past
  <1> QED
    BY <1>4, <1>5, <1>6

(* Steps that leave the session and its rows alone. *)
LEMMA SameRows ==
    ASSUME DropInv, UNCHANGED <<linkVars, session, reaped, come, asked>>,
           \A i \in MavIndex : db'[i] = db[i],
           \A s \in SnapIds : snaps'[s] \in {snaps[s], None}
    PROVE  (Past /\ Fresh /\ AskedShown)'
  <1>0. TypeOK /\ Past /\ Fresh /\ AskedShown /\ asked \subseteq MavIndex
    BY DEF DropInv, TypeOK
  <1>1. UNCHANGED <<running, user, held>>
    BY DEF linkVars
  <1>2. \A i \in MavIndex : Shown(i)' <=> Shown(i)
    BY <1>1 DEF Shown
  <1>3. Past'
    BY <1>0, <1>1 DEF Past
  <1>4. Fresh'
    BY <1>0, <1>1, <1>2 DEF Fresh
  <1>5. AskedShown'
    BY <1>0, <1>2 DEF AskedShown, Flagged
  <1> QED
    BY <1>3, <1>4, <1>5

(* The one snapshot under way is written: it has the connections that are  *)
(* asked to leave, and finds their flags.                                  *)
LEMMA WriteKeeps ==
    ASSUME OneInFlight, DropInv, NEW s \in SnapIds, WriteSnapshot(s)
    PROVE  (Past /\ Fresh /\ AskedShown)'
  <1>0. TypeOK /\ Past /\ Fresh /\ AskedShown /\ asked \subseteq MavIndex
        /\ snaps[s] \in Snapshot /\ snaps[s] # None
    BY DEF DropInv, TypeOK, WriteSnapshot
  <1> DEFINE snap == snaps[s]
  <1>1. PICK wraps \in BOOLEAN : db' = Rewritten(snap, wraps)
    BY DEF WriteSnapshot
  <1>2. /\ UNCHANGED <<running, user, held, session, reaped, asked, come>>
        /\ \A t \in SnapIds : snaps'[t] = None
    BY <1>0 DEF WriteSnapshot, linkVars, adminVars, OneInFlight, TypeOK
  <1> HIDE DEF snap
  <1>3. \A i \in MavIndex :
            db'[i] = IF i \in Present(snap) THEN SnapshotRow(snap, i, wraps) ELSE None
    BY <1>1, IndexFacts DEF Rewritten
  <1>4. ASSUME NEW i \in MavIndex, db'[i] # None
        PROVE  /\ db'[i].session <= session
               /\ i # 0 => db'[i].who \in come
               /\ i = 0 /\ db'[i].session = session => user
    <2>1. i \in Present(snap) /\ db'[i] = SnapshotRow(snap, i, wraps)
      BY <1>3, <1>4
    <2>2. /\ Owner(i, snap.user, snap.held) # NoConn
          /\ db'[i].session = snap.session
          /\ db'[i].who = Owner(i, snap.user, snap.held)
      BY <2>1 DEF Present, SnapshotRow
    <2> QED
      BY <1>0, <2>2, IndexFacts DEF Past, Owner, snap
  <1>5. Past'
    BY <1>0, <1>2, <1>4 DEF Past
  <1>6. Fresh'
    BY <1>2 DEF Fresh
  <1>7. AskedShown'
    <2> SUFFICES ASSUME NEW i \in asked
                 PROVE  Shown(i)' /\ (Covered(i) => Flagged(i)')
      BY <1>2 DEF AskedShown, Covered
    <2>1. i \in MavIndex /\ Shown(i) /\ (Covered(i) => Flagged(i))
      BY <1>0 DEF AskedShown
    <2>2. /\ snap.session = session
          /\ Owner(i, snap.user, snap.held) = Owner(i, user, held)
      BY <1>0, <2>1 DEF Fresh, snap
    <2>3. i \in Present(snap) /\ db'[i] = SnapshotRow(snap, i, wraps)
      BY <1>3, <2>1, <2>2 DEF Present, Shown
    <2>4. db'[i] # None
      BY <1>0, <2>3, SnapshotRowType, TableAssumption DEF snap
    <2>5. db'[i].session = session /\ db'[i].who = Owner(i, user, held)
      BY <2>2, <2>3 DEF SnapshotRow
    <2>6. ASSUME Covered(i) PROVE db'[i].drop
      <3>1. DropBit(i, wraps) = TRUE
        BY <2>1, <2>6, DropBitExact DEF Flagged
      <3> QED
        BY <2>3, <3>1 DEF SnapshotRow
    <2> QED
      BY <1>2, <2>1, <2>4, <2>5, <2>6 DEF Shown, Flagged
  <1> QED
    BY <1>5, <1>6, <1>7

(* check_children, handle_connection and reload_ports *)
LEMMA ParentKeeps ==
    ASSUME DropInv, ParentNext
    PROVE  (Past /\ Fresh /\ AskedShown)'
  <1>0. /\ TypeOK /\ Past /\ Fresh /\ AskedShown /\ asked \subseteq MavIndex
        /\ db \in [Index -> Row \cup {None}] /\ session \in Int
        /\ ~running => asked = {}
    BY DEF DropInv, TypeOK, AskedShown, Shown
  <1>1. CASE ReapSession \/ RemoveEntry
    <2>1. /\ running' = FALSE /\ asked' = {}
          /\ UNCHANGED <<user, held, session, snaps, come>>
      BY <1>0, <1>1 DEF ReapSession, RemoveEntry, linkVars, adminVars, KeepAsked, TypeOK, LinksTypeOK
    <2>2. \A i \in MavIndex : db'[i] \in {None, db[i]}
      BY <1>0, <1>1, DeletedType, IndexFacts DEF ReapSession, RemoveEntry
    <2>3. Past'
      BY <1>0, <2>1, <2>2 DEF Past
    <2> QED
      BY <2>1, <2>3 DEF Fresh, AskedShown, Shown
  <1>2. CASE NewSession
    <2>1. /\ ~running /\ asked' = {} /\ user' = FALSE /\ session' = session + 1
          /\ held' = [i \in Slots |-> NoConn] /\ reaped' = FALSE
          /\ UNCHANGED <<db, snaps, come>>
      BY <1>0, <1>2 DEF NewSession, Past, tableVars, adminVars
    <2>2. \A i \in MavIndex : Owner(i, user', held') = NoConn
      BY <2>1, IndexFacts DEF Owner
    <2>3. \A i \in MavIndex : db[i] # None =>
            /\ db[i].session <= session' /\ db[i].session # session'
            /\ i # 0 => db[i].who \in come
      <3>1. ASSUME NEW i \in MavIndex, db[i] # None PROVE db[i].session \in Int
        BY <1>0, <3>1, IndexFacts DEF Row
      <3> QED
        BY <1>0, <2>1, <3>1 DEF Past
    <2>4. \A t \in SnapIds : snaps[t] # None =>
            snaps[t].session <= session' /\ snaps[t].session # session'
      <3>1. ASSUME NEW t \in SnapIds, snaps[t] # None PROVE snaps[t].session \in Int
        BY <1>0, <3>1 DEF TypeOK, Snapshot
      <3> QED
        BY <1>0, <2>1, <3>1 DEF Past
    <2>5. Past'
      BY <1>0, <2>1, <2>3, <2>4 DEF Past
    <2> QED
      BY <2>1, <2>2, <2>5 DEF Fresh, AskedShown, Shown
  <1> QED
    BY <1>1, <1>2 DEF ParentNext

(* request_drop: only a row that shows a connection is asked for *)
LEMMA FlipKeeps ==
    ASSUME DropInv, NEW i \in Index, FlipDropFlag(i)
    PROVE  (Past /\ Fresh /\ AskedShown)'
  <1>0. /\ TypeOK /\ Past /\ Fresh /\ AskedShown /\ asked \subseteq MavIndex
        /\ db \in [Index -> Row \cup {None}] /\ come \subseteq Conns
    BY DEF DropInv, TypeOK
  <1>1. /\ UNCHANGED <<running, user, held, session, reaped, snaps, come>>
        /\ db[i] \in Row
        /\ db' = [db EXCEPT ![i] = [db[i] EXCEPT !.drop = TRUE]]
    BY <1>0 DEF FlipDropFlag, linkVars
  <1>2. \A j \in Index : db[j] \in Row =>
            /\ db'[j] \in Row /\ db'[j] # None
            /\ db'[j].session = db[j].session /\ db'[j].who = db[j].who
            /\ Flagged(j) => Flagged(j)'
    BY <1>0, <1>1, TableAssumption DEF Row, Flagged
  <1>3. \A j \in Index : db'[j] # None => db[j] \in Row
    BY <1>0, <1>1
  <1>4. \A j \in Index : Shown(j)' <=> Shown(j)
    BY <1>0, <1>1, <1>2, <1>3, TableAssumption DEF Shown
  <1>5. Past'
    <2>1. \A j \in MavIndex : db'[j] # None =>
            /\ db[j] # None
            /\ db'[j].session = db[j].session /\ db'[j].who = db[j].who
      BY <1>2, <1>3, IndexFacts, TableAssumption
    <2> QED
      BY <1>0, <1>1, <2>1 DEF Past
  <1>6. Fresh'
    BY <1>0, <1>1, <1>4, IndexFacts DEF Fresh
  <1>7. AskedShown'
    <2>1. ASSUME NEW j \in asked PROVE Shown(j)' /\ (Covered(j) => Flagged(j)')
      <3>1. j \in Index /\ Shown(j) /\ (Covered(j) => Flagged(j)) /\ db[j] \in Row
        BY <1>0, IndexFacts DEF AskedShown, Shown
      <3> QED
        BY <1>2, <1>4, <3>1
    <2>2. ASSUME i \in MavIndex, running, db[i].session = session,
                 db[i].who = Owner(i, user, held)
          PROVE  Shown(i)' /\ Flagged(i)'
      <3>1. db[i] # None
        BY <1>1, TableAssumption
      <3>2. Owner(i, user, held) # NoConn
        <4>1. CASE i = 0
          BY <1>0, <2>2, <3>1, <4>1, TableAssumption DEF Past, Owner
        <4>2. CASE i # 0
          BY <1>0, <2>2, <3>1, <4>2, NoConnAssumption DEF Past
        <4> QED
          BY <4>1, <4>2
      <3>3. Shown(i)'
        BY <1>4, <2>2, <3>1, <3>2 DEF Shown
      <3>4. Flagged(i)'
        BY <1>0, <1>1, <1>2 DEF Flagged, Row
      <3> QED
        BY <3>3, <3>4
    <2>3. asked' = asked \/ /\ asked' = asked \cup {i}
                            /\ i \in MavIndex /\ running
                            /\ db[i].session = session
                            /\ db[i].who = Owner(i, user, held)
      BY DEF FlipDropFlag
    <2> QED
      BY <2>1, <2>2, <2>3 DEF AskedShown
  <1> QED
    BY <1>5, <1>6, <1>7

(* The invariant is kept by every step. *)
LEMMA DropNext == DropInv /\ OneInFlight /\ [Next]_vars => DropInv'
  <1> SUFFICES ASSUME DropInv, OneInFlight, [Next]_vars, TypeOK'
               PROVE  (Past /\ Fresh /\ AskedShown)'
    <2>1. ASSUME DropInv, [Next]_vars PROVE TypeOK'
      <3>1. TypeOK
        BY <2>1 DEF DropInv
      <3>2. CASE UNCHANGED vars
        BY <3>1, <3>2
        DEF vars, TypeOK, LinksTypeOK, linkVars, tableVars, adminVars, videoVars
      <3> QED
        BY <2>1, <3>1, <3>2, SessionTypes, OtherTypes DEF Next
    <2> QED
      BY <2>1 DEF DropInv
  <1>0. snaps \in [SnapIds -> Snapshot \cup {None}] /\ db \in [Index -> Row \cup {None}]
    BY DEF DropInv, TypeOK
  <1>1. CASE Traffic
    BY <1>1, TrafficKeeps
  <1>2. CASE DropsPending
    BY <1>2, DropsKeep DEF DropsPending
  <1>3. CASE HeartbeatFailed
    <2>1. \A s \in SnapIds : snaps'[s] \in
               {snaps[s], [session |-> session, user |-> user', held |-> held']}
      BY <1>0, <1>3 DEF HeartbeatFailed, ForkSnapshot
    <2> QED
      BY <1>3, <2>1, DropsKeep DEF HeartbeatFailed, Rescan
  <1>4. CASE \E s \in SnapIds : Heartbeat(s)
    <2>1. \A s \in SnapIds : snaps'[s] \in
               {snaps[s], [session |-> session, user |-> user', held |-> held']}
      BY <1>0, <1>4 DEF Heartbeat, ForkSnapshot
    <2> QED
      BY <1>4, <2>1, DropsKeep DEF Heartbeat, Rescan
  <1>5. CASE \E s \in SnapIds : WriteSnapshot(s)
    BY <1>5, WriteKeeps
  <1>6. CASE \E s \in SnapIds : LoseSnapshot(s)
    BY <1>0, <1>6, SameRows DEF LoseSnapshot, adminVars
  <1>7. CASE ParentNext
    BY <1>7, ParentKeeps
  <1>8. CASE \E i \in Index : FlipDropFlag(i)
    BY <1>8, FlipKeeps
  <1>9. CASE Signal \/ NoSignal \/ ForkVideo \/ \E v \in VideoSlots : Publish(v)
    BY <1>9, SameRows DEF Signal, NoSignal, ForkVideo, Publish, tableVars, adminVars
  <1>10. CASE WriteConnRows
    BY <1>10, SameRows, IndexFacts DEF WriteConnRows, adminVars
  <1>11. CASE VideoExit \/ ReapVideo
    <2>1. \A i \in MavIndex : db'[i] = db[i]
      BY <1>0, <1>11, DeletedType, RangesApart, IndexFacts DEF VideoExit, ReapVideo
    <2> QED
      BY <1>11, <2>1, SameRows DEF VideoExit, ReapVideo, adminVars
  <1>12. CASE UNCHANGED vars
    BY <1>12, SameRows DEF vars, tableVars, adminVars
  <1> QED
    BY <1>1, <1>2, <1>3, <1>4, <1>5, <1>6, <1>7, <1>8, <1>9, <1>10, <1>11, <1>12
    DEF Next, SessionNext, SnapshotNext, AdminNext, VideoNext

(* While snapshot writers do not overlap, a drop request for a connection   *)
(* that is there, at an index the mask has a bit for, stays in the table    *)
(* until it is carried out, whatever snapshots race it (conn_drop_mask,     *)
(* conn_write, process_drops).                                              *)
THEOREM DropKeptHolds == Spec /\ []OneInFlight => []DropKept
  <1>1. Init => DropInv
    <2> SUFFICES ASSUME Init PROVE DropInv
      OBVIOUS
    <2>1. TypeOK
      <3>1. 1 \in 1 .. MaxSessions
        BY TableAssumption
      <3>2. LinksTypeOK
        BY DEF Init, LinksInit, LinksTypeOK
      <3> QED
        BY <3>1, <3>2 DEF Init, TypeOK
    <2> QED
      BY <2>1, IndexFacts
      DEF Init, LinksInit, DropInv, Past, Fresh, AskedShown
  <1>2. DropInv => DropKept
    BY DEF DropInv, AskedShown, DropKept
  <1> QED
    BY <1>1, <1>2, DropNext, PTL DEF Spec

-----------------------------------------------------------------------------
(* Who is asked to leave is there, however many snapshot writers overlap. *)
AskedThere ==
    /\ reaped => ~running
    /\ \A i \in asked : running /\ Owner(i, user, held) # NoConn

(* Steps after which those who are asked to leave are the same, or fewer. *)
LEMMA KeepAskedThere ==
    ASSUME AskedThere, KeepAsked
    PROVE  \A i \in asked' : running' /\ Owner(i, user', held') # NoConn
  BY DEF AskedThere, KeepAsked

(* The session child's own steps. *)
LEMMA SessionThere ==
    ASSUME AskedThere, SessionNext
    PROVE  AskedThere'
  <1>1. running /\ reaped' = reaped
    BY DEF SessionNext, Traffic, DropsPending, Heartbeat, HeartbeatFailed, Rescan,
           process_drops, process_drops_failed, End, Join, UserLatch, Leave
  <1>2. KeepAsked \/ UNCHANGED <<linkVars, asked>>
    BY DEF SessionNext, Traffic, DropsPending, Heartbeat, HeartbeatFailed, Rescan,
           process_drops, process_drops_failed
  <1>3. CASE KeepAsked
    BY <1>1, <1>3, KeepAskedThere DEF AskedThere
  <1>4. CASE UNCHANGED <<linkVars, asked>>
    BY <1>1, <1>4 DEF AskedThere, linkVars
  <1> QED
    BY <1>2, <1>3, <1>4

(* Everybody else's. *)
LEMMA OthersThere ==
    ASSUME TypeOK, AskedThere, SnapshotNext \/ ParentNext \/ AdminNext \/ VideoNext
    PROVE  AskedThere'
  <1>1. CASE UNCHANGED <<linkVars, reaped, asked>>
    BY <1>1 DEF AskedThere, linkVars
  <1>2. CASE ReapSession
    BY <1>2 DEF ReapSession, AskedThere, linkVars, adminVars
  <1>3. CASE NewSession
    BY <1>3 DEF NewSession, AskedThere, adminVars
  <1>4. CASE RemoveEntry
    BY <1>4, KeepAskedThere DEF RemoveEntry, AskedThere
  <1>5. ASSUME NEW i \in Index, FlipDropFlag(i) PROVE AskedThere'
    <2>1. db[i] \in Row
      BY <1>5 DEF FlipDropFlag, TypeOK
    <2>2. db[i].who # NoConn
      BY <2>1, TableAssumption, NoConnAssumption DEF Row
    <2>3. asked' = asked \/ /\ asked' = asked \cup {i}
                            /\ running /\ db[i].who = Owner(i, user, held)
      BY <1>5 DEF FlipDropFlag
    <2>4. UNCHANGED <<running, user, held, reaped>>
      BY <1>5 DEF FlipDropFlag, linkVars
    <2> QED
      BY <2>2, <2>3, <2>4 DEF AskedThere
  <1>6. CASE SnapshotNext \/ Signal \/ NoSignal \/ VideoNext
    BY <1>1, <1>6 DEF SnapshotNext, WriteSnapshot, LoseSnapshot, Signal, NoSignal,
       VideoNext, Publish, WriteConnRows, VideoExit, ReapVideo, ForkVideo, adminVars
  <1> QED
    BY <1>2, <1>3, <1>4, <1>5, <1>6 DEF ParentNext, AdminNext

(* The invariant of the requests, for any number of writers. *)
THEOREM AskedThereHolds == Spec => []AskedThere
  <1>1. Init => AskedThere
    BY DEF Init, LinksInit, AskedThere
  <1>2. TypeOK /\ AskedThere /\ [Next]_vars => AskedThere'
    <2> SUFFICES ASSUME TypeOK, AskedThere, [Next]_vars PROVE AskedThere'
      OBVIOUS
    <2>1. CASE UNCHANGED vars
      BY <2>1 DEF vars, linkVars, adminVars, AskedThere
    <2> QED
      BY <2>1, SessionThere, OthersThere DEF Next
  <1> QED
    BY <1>1, <1>2, TableTypes, PTL DEF Spec

(* Nothing but a snapshot wipes a request for a connection that stays, for  *)
(* any number of writers and any mask: neither the rescans, nor the parent, *)
(* nor the video child on its own rows; and a snapshot that has the         *)
(* connection wipes it only beyond the mask.                                *)
THEOREM RequestLostBySnapshotHolds == Spec => RequestLostBySnapshot
  <1> DEFINE Lost(i) ==
                 \E s \in SnapIds :
                     /\ WriterEnds(s)
                     /\ ~Covered(i) \/ Owner(i, snaps[s].user, snaps[s].held) = NoConn
             Step == \A i \in asked' : Flagged(i) /\ ~Flagged(i)' => Lost(i)
  <1>1. TypeOK /\ TypeOK' /\ AskedThere /\ [Next]_vars => [Step]_vars
    <2> SUFFICES ASSUME TypeOK, TypeOK', AskedThere, Next,
                        NEW i \in asked', Flagged(i), ~Flagged(i)'
                 PROVE  Lost(i)
      OBVIOUS
    <2>0. /\ db \in [Index -> Row \cup {None}] /\ i \in MavIndex /\ i \in Index
          /\ i \notin VideoIndex /\ db'[i] # db[i]
      BY IndexFacts, RangesApart DEF TypeOK, Flagged
    <2>1. CASE SessionNext
      <3>1. process_drops
        BY <2>0, <2>1 DEF SessionNext, Traffic, DropsPending, Heartbeat,
           HeartbeatFailed, Rescan, process_drops_failed, tableVars
      <3>2. i \in asked /\ running' /\ Owner(i, user', held') = Owner(i, user, held)
        BY <3>1 DEF process_drops, KeepAsked
      <3> QED
        BY <2>0, <3>1, <3>2, DropsClose DEF AskedThere
    <2>2. CASE SnapshotNext
      <3>1. PICK s \in SnapIds : WriteSnapshot(s)
        BY <2>0, <2>2 DEF SnapshotNext, LoseSnapshot
      <3>2. WriterEnds(s)
        BY <3>1 DEF WriteSnapshot, WriterEnds, TypeOK
      <3>3. PICK wraps \in BOOLEAN : db' = Rewritten(snaps[s], wraps)
        BY <3>1 DEF WriteSnapshot
      <3>4. ASSUME Covered(i), Owner(i, snaps[s].user, snaps[s].held) # NoConn
            PROVE  FALSE
        <4>1. i \in Present(snaps[s]) /\ snaps[s] \in Snapshot
          BY <2>0, <3>1, <3>4 DEF Present, WriteSnapshot, TypeOK
        <4>2. db'[i] = SnapshotRow(snaps[s], i, wraps) /\ db'[i] \in Row
          BY <2>0, <3>3, <4>1, SnapshotRowType DEF Rewritten
        <4>3. db'[i] # None
          BY ONLY <4>2, TableAssumption
        <4>5. db'[i].drop = DropBit(i, wraps)
          BY ONLY <4>2 DEF SnapshotRow
        <4>4. DropBit(i, wraps) = Flagged(i)
          BY <2>0, <3>4, DropBitExact
        <4> QED
          BY <4>3, <4>4, <4>5 DEF Flagged
      <3> QED
        BY <3>2, <3>4
    <2>3. CASE ParentNext
      <3>1. asked' = {}
        BY <2>3 DEF ParentNext, ReapSession, NewSession, RemoveEntry, KeepAsked,
           adminVars, AskedThere
      <3> QED
        BY <3>1
    <2>4. CASE AdminNext
      <3>1. PICK j \in Index : FlipDropFlag(j)
        BY <2>0, <2>4 DEF AdminNext, Signal, NoSignal, tableVars
      <3>2. db[i] \in Row /\ db'[i] = [db[i] EXCEPT !.drop = TRUE]
        BY <2>0, <3>1 DEF FlipDropFlag
      <3>3. db'[i] \in Row /\ db'[i].drop
        BY <3>2 DEF Row
      <3> QED
        BY <3>3, TableAssumption DEF Flagged
    <2>5. CASE VideoNext
      <3>1. CASE db' = Deleted(VideoIndex)
        BY <2>0, <3>1, DeletedType
      <3>2. CASE WriteConnRows
        BY <2>0, <3>2 DEF WriteConnRows
      <3>3. db' = db \/ db' = Deleted(VideoIndex) \/ WriteConnRows
        BY <2>5 DEF VideoNext, Publish, VideoExit, ReapVideo, ForkVideo, tableVars
      <3> QED
        BY <2>0, <3>1, <3>2, <3>3
    <2> QED
      BY <2>1, <2>2, <2>3, <2>4, <2>5 DEF Next
  <1> QED
    BY <1>1, TableTypes, AskedThereHolds, PTL DEF Spec, RequestLostBySnapshot
==============================================================================
