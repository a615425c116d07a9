---------------------------- MODULE StorageProofs ----------------------------
(***************************************************************************)
(* What a session stores: the signing record of its entry (KeyRecord), for *)
(* any keys, any number of savers, sessions and edits, and any bound on    *)
(* the clock; and the blocks of the open .bin (Binlog), for any number of  *)
(* blocks and any limits.                                                  *)
(***************************************************************************)
EXTENDS KeyRecord, Binlog, TLAPS

(* A transaction excludes all others from its read to its end, so what it  *)
(* has read is what is stored; an entry that is not there has no           *)
(* timestamp.                                                              *)
Exclusive ==
    /\ \A t, u \in tx : t = u
    /\ \A t \in tx : t.read = record
    /\ record.key = NoKey => record.ts = 0

RecordInv == TypeOK /\ Exclusive /\ NothingLost

(* The clock is a natural number. *)
LEMMA NowType == TypeOK => now \in Nat
  BY KeyRecordAssumption DEF TypeOK

(* Most and Least of two times are times, and bound them. *)
LEMMA MostType ==
    ASSUME NEW i \in Nat, NEW j \in Nat
    PROVE  /\ Most(i, j) \in Nat /\ Most(i, j) >= i /\ Most(i, j) >= j
           /\ Least(i, j) \in Nat /\ Least(i, j) <= i /\ Least(i, j) <= j
  BY DEF Most, Least

(* A new entry is well formed and has no timestamp yet. *)
LEMMA NewEntryType ==
    ASSUME NEW k \in Keys
    PROVE  /\ NewEntry(k) \in Entries /\ NewEntry(k).key # NoKey
           /\ NewEntry(k).ts = 0
  BY KeyRecordAssumption DEF NewEntry, Entries

(* So is the record of no entry at all. *)
LEMMA GoneType == Gone \in Entries /\ Gone.ts = 0 /\ Gone.connections = 0
  BY DEF Gone, Entries

(* the fields that a change of each kind has *)
LEMMA ChangeFields ==
    ASSUME NEW c \in Changes
    PROVE  /\ c.kind \in {"save", "setup", "pass", "add", "end", "reset", "remove"}
           /\ c.kind \in {"save", "setup"} => c.ts \in Nat
           /\ c.kind \in {"setup", "pass", "add"} => c.key \in Keys
  BY DEF Changes

(* What a change makes of an entry is an entry.  Its timestamp passes the   *)
(* clock only by SETUP_SIGNING, and falls only for a change that says so.   *)
LEMMA ChangedFacts ==
    ASSUME NEW c \in Changes, NEW r \in Entries, now \in Nat,
           r.key = NoKey => r.connections = 0 /\ r.ts = 0
    PROVE  /\ Changed(c, r) \in Entries
           /\ Changed(c, r).key = NoKey =>
                 Changed(c, r).connections = 0 /\ Changed(c, r).ts = 0
           /\ c.kind # "setup" => Changed(c, r).ts <= r.ts \/ Changed(c, r).ts <= now
           /\ c.kind \notin {"setup", "reset", "remove"} =>
                 Changed(c, r).ts >= r.ts
  <1> DEFINE d == Changed(c, r)
  <1>0. /\ r.key \in Keys \cup {NoKey} /\ r.ts \in Nat /\ r.connections \in Nat
        /\ r = [key |-> r.key, ts |-> r.ts, connections |-> r.connections]
    BY DEF Entries
  <1>1. CASE r.key = NoKey
    <2>1. CASE c.kind = "add"
      BY <1>0, <1>1, <2>1, ChangeFields, NewEntryType DEF Changed
    <2>2. CASE c.kind # "add"
      BY <1>0, <1>1, <2>2 DEF Changed
    <2> QED
      BY <2>1, <2>2
  <1>2. CASE r.key # NoKey
    <2>1. CASE c.kind = "save"
      <3>1. d = [r EXCEPT !.ts = Most(r.ts, Least(c.ts, now))]
        BY <1>2, <2>1 DEF Changed, Saved
      <3>2. Least(c.ts, now) \in Nat /\ Least(c.ts, now) <= now
        BY <2>1, ChangeFields, MostType
      <3>3. /\ Most(r.ts, Least(c.ts, now)) \in Nat
            /\ Most(r.ts, Least(c.ts, now)) >= r.ts
            /\ \/ Most(r.ts, Least(c.ts, now)) <= r.ts
               \/ Most(r.ts, Least(c.ts, now)) <= now
        BY <1>0, <3>2 DEF Most
      <3> QED
        BY <1>0, <1>2, <2>1, <3>1, <3>3 DEF Entries
    <2>2. CASE c.kind = "setup"
      <3>1. d = [r EXCEPT !.key = c.key, !.ts = c.ts]
        BY <1>2, <2>2 DEF Changed
      <3>2. c.key \in Keys /\ c.ts \in Nat
        BY <2>2, ChangeFields
      <3>3. d = [key |-> c.key, ts |-> c.ts, connections |-> r.connections]
        BY <1>0, <3>1
      <3> HIDE DEF d
      <3>4. d \in Entries /\ d.key = c.key /\ d.ts = c.ts
        BY <1>0, <3>2, <3>3 DEF Entries
      <3> QED
        BY <1>0, <2>2, <3>2, <3>3, <3>4, KeyRecordAssumption DEF d
    <2>3. CASE c.kind = "end"
      <3>1. d = [r EXCEPT !.connections = @ + 1]
        BY <1>2, <2>3 DEF Changed
      <3> QED
        BY <1>0, <1>2, <3>1 DEF Entries
    <2>4. CASE c.kind = "pass"
      <3>1. d = [r EXCEPT !.key = c.key] /\ c.key \in Keys
        BY <1>2, <2>4, ChangeFields DEF Changed
      <3> QED
        BY <1>0, <3>1, KeyRecordAssumption DEF Entries
    <2>5. CASE c.kind = "reset"
      <3>1. d = [r EXCEPT !.ts = 0]
        BY <1>2, <2>5 DEF Changed
      <3> QED
        BY <1>0, <1>2, <2>5, <3>1 DEF Entries
    <2>6. CASE c.kind = "remove"
      <3>1. d = Gone
        BY <1>2, <2>6 DEF Changed
      <3> QED
        BY <2>6, <3>1, GoneType
    <2>7. CASE c.kind = "add"
      BY <1>0, <1>2, <2>7 DEF Changed
    <2> QED
      BY <2>1, <2>2, <2>3, <2>4, <2>5, <2>6, <2>7, ChangeFields
  <1> QED
    BY <1>1, <1>2

Sessions == [live : BOOLEAN, loaded : BOOLEAN, ts : Nat, saved : Int]

(* What load_signing_key makes of a stored entry is a well-formed session. *)
LEMMA LoadedType ==
    ASSUME TypeOK, NEW r \in Entries
    PROVE  Loaded(r) \in Sessions /\ Loaded(r).live /\ Loaded(r).ts \in Nat
  <1>1. Usable(r) \in BOOLEAN
    BY DEF Usable
  <1>2. Most(r.ts + LOAD_AHEAD, now) \in Nat
    <2>1. r.ts + LOAD_AHEAD \in Nat
      BY KeyRecordAssumption DEF Entries
    <2> QED
      BY <2>1, MostType, NowType
  <1>3. session.saved \in Int
    BY DEF TypeOK
  <1> QED
    BY <1>1, <1>2, <1>3 DEF Loaded, Sessions

(* A transaction begins, or none does; the entry stays as it is. *)
LEMMA StartKeeps ==
    ASSUME RecordInv, NEW c \in Changes,
           Start(c) \/ tx' = tx,
           now' = now, record' = record, asked' = asked,
           session' \in Sessions, session'.loaded => session'.live,
           savers' \subseteq Nat
    PROVE  RecordInv'
  <1>1. CASE tx' = tx
    BY <1>1 DEF RecordInv, TypeOK, Exclusive, NothingLost, Sessions
  <1>2. CASE Start(c)
    <2> DEFINE t == [change |-> c, read |-> record]
    <2>1. tx' = {t}
      BY <1>2 DEF Start, MayStart
    <2>2. t \in [change : Changes, read : Entries]
      BY DEF RecordInv, TypeOK
    <2>3. TypeOK'
      BY <2>1, <2>2 DEF RecordInv, TypeOK, Sessions
    <2>4. Exclusive'
      BY <2>1 DEF RecordInv, Exclusive
    <2> QED
      BY <2>3, <2>4 DEF RecordInv, NothingLost
  <1> QED
    BY <1>1, <1>2

(* A step that touches neither the entry nor the transactions. *)
LEMMA SessionKeeps ==
    ASSUME RecordInv, now' = now, UNCHANGED <<record, tx, asked>>,
           session' \in Sessions, session'.loaded => session'.live,
           savers' \subseteq Nat
    PROVE  RecordInv'
  BY DEF RecordInv, TypeOK, Exclusive, NothingLost, Sessions

(* A transaction that commits keeps the invariant: nobody wrote since it read. *)
LEMMA CommitKeeps ==
    ASSUME RecordInv, NEW t \in tx, Commit(t)
    PROVE  RecordInv'
  <1>1. /\ t.change \in Changes /\ t.read = record /\ record = asked
        /\ record \in Entries /\ now \in Nat
    BY NowType DEF RecordInv, TypeOK, Exclusive, NothingLost
  <1>2. /\ record' = Changed(t.change, record) /\ asked' = record'
        /\ tx' = tx \ {t} /\ now' = now /\ savers' = savers
    BY <1>1 DEF Commit
  <1>3. /\ record' \in Entries
        /\ record'.key = NoKey => record'.connections = 0 /\ record'.ts = 0
    BY <1>1, <1>2, ChangedFacts
    DEF RecordInv, TypeOK, Exclusive
  <1>4. session' \in Sessions /\ (session'.loaded => session'.live)
    <2>1. session' = session \/ session' = Loaded(record')
      BY DEF Commit
    <2>2. session \in Sessions /\ (session.loaded => session.live)
      BY DEF RecordInv, TypeOK, Sessions
    <2> QED
      BY <1>3, <2>1, <2>2, LoadedType DEF RecordInv
  <1>5. tx' = {}
    BY <1>2 DEF RecordInv, Exclusive
  <1>6. TypeOK'
    BY <1>2, <1>3, <1>4, <1>5 DEF RecordInv, TypeOK, Sessions
  <1>7. Exclusive'
    BY <1>3, <1>5 DEF Exclusive
  <1> QED
    BY <1>2, <1>3, <1>6, <1>7 DEF RecordInv, NothingLost

(* Every step keeps the invariant. *)
LEMMA RecordNext == RecordInv /\ [Next]_vars => RecordInv'
  <1> SUFFICES ASSUME RecordInv, [Next]_vars PROVE RecordInv'
    OBVIOUS
  <1>0. /\ session \in Sessions /\ (session.loaded => session.live)
        /\ savers \subseteq Nat /\ record \in Entries /\ now \in Nat
        /\ NoSession \in Sessions /\ ~NoSession.loaded
    BY NowType DEF RecordInv, TypeOK, Sessions, NoSession
  <1>1. CASE StartSession
    <2>1. session' = [Loaded(record) EXCEPT !.saved = now]
      BY <1>1 DEF StartSession
    <2>2. Loaded(record) \in Sessions /\ Loaded(record).live /\ Loaded(record).ts \in Nat
      BY <1>0, LoadedType DEF RecordInv
    <2>3. session' \in Sessions /\ session'.live
      BY <1>0, <2>1, <2>2 DEF Sessions
    <2>4. savers' \subseteq Nat
      BY <1>0, <1>1, <2>2 DEF StartSession
    <2> QED
      BY <1>1, <2>3, <2>4, SessionKeeps DEF StartSession
  <1>2. CASE update_signing_timestamp
    <2>1. Most(session.ts, now) \in Nat
      BY <1>0, MostType DEF Sessions
    <2>2. session' = [session EXCEPT !.saved = now, !.ts = Most(session.ts, now)]
      BY <1>2 DEF update_signing_timestamp
    <2>3. session' \in Sessions /\ session'.live = session.live
          /\ session'.loaded = session.loaded /\ session'.ts \in Nat
      <3>1. session' = [live |-> session.live, loaded |-> session.loaded,
                        ts |-> Most(session.ts, now), saved |-> now]
        BY <1>0, <2>2 DEF Sessions
      <3>2. now \in Int /\ session.live \in BOOLEAN /\ session.loaded \in BOOLEAN
        BY <1>0 DEF Sessions
      <3> QED
        BY <2>1, <3>1, <3>2 DEF Sessions
    <2>4. savers' \subseteq Nat
      BY <1>0, <1>2, <2>3 DEF update_signing_timestamp
    <2> QED
      BY <1>0, <1>2, <2>3, <2>4, SessionKeeps DEF update_signing_timestamp
  <1>3. CASE EndSession
    <2>1. [kind |-> "end"] \in Changes
      BY DEF Changes
    <2> QED
      BY <1>0, <1>3, <2>1, StartKeeps DEF EndSession
  <1>4. ASSUME NEW ts \in 0 .. now + AHEAD, Hear(ts) PROVE RecordInv'
    <2>1. ts \in Nat
      BY <1>0, KeyRecordAssumption
    <2>2. Most(session.ts, ts) \in Nat
      BY <1>0, <2>1, MostType DEF Sessions
    <2>3. session' = [session EXCEPT !.ts = Most(session.ts, ts)]
      BY <1>4 DEF Hear
    <2>4. session' \in Sessions /\ session'.live = session.live
          /\ session'.loaded = session.loaded
      BY <1>0, <2>2, <2>3 DEF Sessions
    <2> QED
      BY <1>0, <1>4, <2>4, SessionKeeps DEF Hear
  <1>5. ASSUME NEW ts \in savers, SaverRuns(ts) PROVE RecordInv'
    <2>1. [kind |-> "save", ts |-> ts] \in Changes
      BY <1>0 DEF Changes
    <2>2. savers' \subseteq Nat
      BY <1>0, <1>5 DEF SaverRuns
    <2> QED
      BY <1>0, <1>5, <2>1, <2>2, StartKeeps DEF SaverRuns
  <1>6. ASSUME NEW k \in Keys, NEW ts \in 0 .. MaxTime, SetupSigning(k, ts)
        PROVE  RecordInv'
    <2>1. [kind |-> "setup", key |-> k, ts |-> ts] \in Changes
      BY KeyRecordAssumption DEF Changes
    <2> QED
      BY <1>0, <1>6, <2>1, StartKeeps DEF SetupSigning
  <1>7. ASSUME NEW t \in tx, Commit(t) PROVE RecordInv'
    BY <1>7, CommitKeeps
  <1>8. ASSUME NEW t \in tx, Abandon(t) PROVE RecordInv'
    <2>1. tx' = {}
      BY <1>8 DEF Abandon, RecordInv, Exclusive
    <2>2. session' \in Sessions /\ (session'.loaded => session'.live)
      BY <1>0, <1>8 DEF Abandon
    <2>3. TypeOK'
      BY <1>8, <2>1, <2>2 DEF Abandon, RecordInv, TypeOK, Sessions
    <2> QED
      BY <1>8, <2>1, <2>3
      DEF Abandon, RecordInv, Exclusive, NothingLost
  <1>9. CASE Edit
    <2>1. PICK c \in [kind : {"pass", "add"}, key : Keys \ {ZeroKey}]
                      \cup [kind : {"reset", "remove"}] : Start(c)
      BY <1>9 DEF Edit
    <2>2. c \in Changes /\ c.kind # "setup"
      BY DEF Changes
    <2> QED
      BY <1>0, <1>9, <2>1, <2>2, StartKeeps DEF Edit
  <1>10. CASE Elapse
    <2>1. now' = now + 1 /\ now' \in 0 .. MaxTime
      BY <1>0, <1>10, KeyRecordAssumption DEF Elapse, RecordInv, TypeOK
    <2>2. TypeOK'
      BY <1>10, <2>1 DEF Elapse, RecordInv, TypeOK
    <2> QED
      BY <1>10, <2>2 DEF Elapse, RecordInv, Exclusive, NothingLost
  <1>11. CASE UNCHANGED vars
    BY <1>0, <1>11, SessionKeeps DEF vars
  <1> QED
    BY <1>1, <1>2, <1>3, <1>4, <1>5, <1>6, <1>7, <1>8, <1>9, <1>10, <1>11 DEF Next

(* The invariant holds at first. *)
LEMMA RecordInit == Init => RecordInv
  <1> SUFFICES ASSUME Init PROVE RecordInv
    OBVIOUS
  <1>1. now = 0 /\ 0 \in 0 .. MaxTime
    BY KeyRecordAssumption DEF Init
  <1>2. /\ record \in Entries /\ record.ts = 0
        /\ record.key = NoKey => record.connections = 0
    BY GoneType, NewEntryType DEF Init
  <1>3. session \in Sessions /\ ~session.loaded
    BY DEF Init, NoSession, Sessions
  <1>4. TypeOK
    BY <1>1, <1>2, <1>3 DEF Init, TypeOK, Sessions
  <1> QED
    BY <1>1, <1>2, <1>4
    DEF Init, RecordInv, Exclusive, NothingLost

(* The inductive invariant of an entry of keys.tdb: one transaction at a    *)
(* time, whose copy of the entry is the stored one (keydb.cpp,              *)
(* webadmin/db.py).                                                         *)
THEOREM RecordInvariant == Spec => []RecordInv
  BY RecordInit, RecordNext, PTL DEF Spec

(* The types of the entry, the session's copy and the transactions.         *)
THEOREM RecordTypes == Spec => []TypeOK
  <1>1. RecordInv => TypeOK
    BY DEF RecordInv
  <1> QED
    BY <1>1, RecordInvariant, PTL

(* No committed change is overwritten by another process's copy of the      *)
(* entry (db_open_transaction, tdb_transaction of webadmin/db.py).          *)
THEOREM NothingLostHolds == Spec => []NothingLost
  <1>1. RecordInv => NothingLost
    BY DEF RecordInv
  <1> QED
    BY <1>1, RecordInvariant, PTL

(* Only the commit of a transaction changes the stored entry, and it makes  *)
(* of it what the change says.                                              *)
LEMMA EntryChanges ==
    ASSUME RecordInv, Next, record' # record
    PROVE  \E t \in tx : /\ t.change \in Changes
                         /\ record' = Changed(t.change, record)
  <1>1. ASSUME NEW t \in tx, Commit(t)
        PROVE  t.change \in Changes /\ record' = Changed(t.change, record)
    BY <1>1 DEF Commit, RecordInv, TypeOK, Exclusive
  <1>2. CASE \E t \in tx : Abandon(t)
    BY <1>2 DEF Abandon
  <1>3. CASE StartSession \/ update_signing_timestamp \/ EndSession \/ Edit \/ Elapse
    BY <1>3
    DEF StartSession, update_signing_timestamp, EndSession, Edit, Elapse
  <1>4. CASE \E ts \in 0 .. now + AHEAD : Hear(ts)
    BY <1>4 DEF Hear
  <1>5. CASE \E ts \in savers : SaverRuns(ts)
    BY <1>5 DEF SaverRuns
  <1>6. CASE \E k \in Keys, ts \in 0 .. MaxTime : SetupSigning(k, ts)
    BY <1>6 DEF SetupSigning
  <1> QED
    BY <1>1, <1>2, <1>3, <1>4, <1>5, <1>6 DEF Next

(* What a step may do to the stored timestamp. *)
LEMMA TimestampMoves ==
    ASSUME RecordInv, Next
    PROVE  /\ record'.ts > record.ts =>
                 record'.ts <= now \/ \E t \in tx : t.change.kind = "setup"
           /\ record'.ts < record.ts =>
                 \E t \in tx : t.change.kind \in {"setup", "reset", "remove"}
  <1>1. record.ts \in Nat /\ record \in Entries /\ now \in Nat
    BY NowType DEF RecordInv, TypeOK, Entries
  <1>2. CASE record' = record
    BY <1>1, <1>2
  <1>3. CASE record' # record
    <2>1. PICK t \in tx : /\ t.change \in Changes
                          /\ record' = Changed(t.change, record)
      BY <1>3, EntryChanges
    <2>2. /\ record' \in Entries
          /\ t.change.kind # "setup" => record'.ts <= record.ts \/ record'.ts <= now
          /\ t.change.kind \notin {"setup", "reset", "remove"} =>
                record'.ts >= record.ts
      BY <1>1, <2>1, ChangedFacts DEF RecordInv, TypeOK, Exclusive
    <2>3. record'.ts \in Nat
      BY <2>2 DEF Entries
    <2>4. record'.ts > record.ts =>
            record'.ts <= now \/ t.change.kind = "setup"
      BY <1>1, <2>2, <2>3
    <2>5. record'.ts < record.ts =>
            t.change.kind \in {"setup", "reset", "remove"}
      BY <1>1, <2>2, <2>3
    <2> QED
      BY <2>4, <2>5
  <1> QED
    BY <1>2, <1>3

(* Only SETUP_SIGNING stores a timestamp ahead of the clock, however often  *)
(* it was loaded 15 s ahead (save_signing_timestamp, load_signing_key).     *)
THEOREM StoredNotAheadHolds == Spec => StoredNotAhead
  <1> DEFINE Step == record'.ts > record.ts =>
                record'.ts <= now \/ \E t \in tx : t.change.kind = "setup"
  <1>1. RecordInv /\ [Next]_vars => [Step]_vars
    BY TimestampMoves
  <1> QED
    BY <1>1, RecordInvariant, PTL DEF Spec, StoredNotAhead

(* Savers that run late or out of order never lower the stored timestamp    *)
(* (save_signing_timestamp).                                                *)
THEOREM NeverBackwardsHolds == Spec => NeverBackwards
  <1> DEFINE Step == record'.ts < record.ts =>
                \E t \in tx : t.change.kind \in {"setup", "reset", "remove"}
  <1>1. RecordInv /\ [Next]_vars => [Step]_vars
    BY TimestampMoves
  <1> QED
    BY <1>1, RecordInvariant, PTL DEF Spec, NeverBackwards

-----------------------------------------------------------------------------
(* BinlogWriter: what is acknowledged is in the open file, and every gap   *)
(* is tracked.  The inductive invariant adds that a writer without a file  *)
(* holds nothing of an earlier log.                                        *)

(* rotate_for_reboot and the writer's first state leave nothing behind *)
NothingWithoutFile == ~log.fp => log = NoLog

BinlogInv ==
    /\ BinlogTypeOK /\ AckedOnDisk /\ GapsTracked
    /\ NothingWithoutFile

(* the part of the invariant that is about one log *)
GoodLog(l) ==
    /\ l \in Log
    /\ l.acks \subseteq l.seen
    /\ l.acks # {} => l.fp
    /\ \A s \in 1 .. l.highest : s \in l.seen \cup l.nack \cup l.given
    /\ l.nack \cap l.seen = {}
    /\ l.asked \subseteq l.nack
    /\ \A s \in l.nack : s < l.highest
    /\ ~l.fp => l = NoLog

(* the types of the variables other than log *)
RestOK ==
    /\ any \in BOOLEAN /\ gated \in 0 .. STOP_MIN_GATED_BLOCKS
    /\ startNow \in BOOLEAN /\ bootTime \in 0 .. TIME_MOD - 1
    /\ veh \in Vehicle /\ held \subseteq Seqno
    /\ strays \in 0 .. MaxSeq + 1

(* The invariant is what is said of the log and the types of the rest. *)
LEMMA InvParts == BinlogInv <=> GoodLog(log) /\ RestOK
  BY DEF BinlogInv, GoodLog, RestOK, BinlogTypeOK, AckedOnDisk,
     GapsTracked, NothingWithoutFile

(* Seqnos are naturals and begin with 0. *)
LEMMA SeqnoFacts == 0 \in Seqno /\ Seqno \subseteq Nat
  BY BinlogAssumption DEF Seqno

(* The state after a rotation is in order. *)
LEMMA NoLogGood == GoodLog(NoLog)
  <1>1. NoLog \in Log
    BY SeqnoFacts DEF NoLog, Log
  <1>2. /\ NoLog.acks = {} /\ NoLog.nack = {} /\ NoLog.asked = {}
        /\ NoLog.highest = 0
    BY DEF NoLog
  <1>3. \A s \in 1 .. NoLog.highest : FALSE
    BY <1>2
  <1> QED
    BY <1>1, <1>2, <1>3 DEF GoodLog

(* Opening a file for a writer that has none, or keeping the open one. *)
LEMMA OpenedGood ==
    ASSUME NEW l, GoodLog(l)
    PROVE  GoodLog([l EXCEPT !.fp = TRUE])
  BY DEF GoodLog, Log

(* handle_block stores a block: the gap up to it is now asked for. *)
LEMMA WrittenGood ==
    ASSUME NEW l, GoodLog(l), l.fp,
           NEW s \in Seqno
    PROVE  GoodLog(Written(l, s))
  <1> DEFINE w == Written(l, s)
  <1>0. /\ l \in Log /\ l.highest \in Nat /\ s \in Nat /\ s <= MaxSeq
        /\ Seqno \subseteq Nat
    BY SeqnoFacts, BinlogAssumption DEF GoodLog, Log, Seqno
  <1>1. /\ w.fp = l.fp
        /\ w.seen = l.seen \cup {s}
        /\ w.nack = (l.nack \ {s}) \cup Gap(l, s)
        /\ w.asked = l.asked \ {s}
        /\ w.given = l.given \ {s}
        /\ w.highest = IF s >= l.highest THEN s ELSE l.highest
        /\ w.acks = l.acks \cup {s}
    BY <1>0 DEF Written, Log
  <1>2. Gap(l, s) \subseteq Seqno
    BY <1>0, BinlogAssumption DEF Gap, Seqno
  <1>3. w \in Log
    BY <1>0, <1>2 DEF Written, Log
  <1>4. w.acks \subseteq w.seen
    BY <1>1 DEF GoodLog
  <1>5. \A t \in 1 .. w.highest : t \in w.seen \cup w.nack \cup w.given
    <2> SUFFICES ASSUME NEW t \in 1 .. w.highest, t # s
                 PROVE  t \in w.seen \cup w.nack \cup w.given
      BY <1>1
    <2>1. CASE t \in 1 .. l.highest
      BY <1>1, <2>1 DEF GoodLog
    <2>2. CASE t \notin 1 .. l.highest
      <3>1. t \in (l.highest + 1) .. (s - 1)
        BY <1>0, <1>1, <2>2
      <3> QED
        BY <1>1, <3>1 DEF Gap
    <2> QED
      BY <2>1, <2>2
  <1>6. w.nack \cap w.seen = {}
    <2>1. s \notin Gap(l, s)
      BY <1>0 DEF Gap
    <2> QED
      BY <1>1, <2>1 DEF GoodLog, Gap
  <1>7. w.asked \subseteq w.nack
    BY <1>1 DEF GoodLog
  <1>8. \A t \in w.nack : t < w.highest
    <2>1. ASSUME NEW t \in l.nack PROVE t < w.highest
      BY <1>0, <1>1, <2>1 DEF GoodLog, Log
    <2>2. ASSUME NEW t \in Gap(l, s) PROVE t < w.highest
      BY <1>0, <1>1, <2>2 DEF Gap
    <2> QED
      BY <1>1, <2>1, <2>2
  <1> HIDE DEF w
  <1>9. w.fp
    BY <1>1
  <1> QED
    BY <1>3, <1>4, <1>5, <1>6, <1>7, <1>8, <1>9 DEF GoodLog, w

(* Rotating, or not, before a block is handled. *)
LEMMA CurrentGood ==
    ASSUME GoodLog(log), NEW s
    PROVE  GoodLog(Current(s))
  BY NoLogGood DEF Current, Rotated

(* handle_block *)
LEMMA BlockHandled ==
    ASSUME BinlogInv, NEW s \in Seqno,
           handle_block(s)
    PROVE  /\ GoodLog(log') /\ any' \in BOOLEAN
           /\ gated' \in 0 .. STOP_MIN_GATED_BLOCKS
           /\ startNow' \in BOOLEAN /\ bootTime' \in 0 .. TIME_MOD - 1
  <1>1. GoodLog(log) /\ RestOK
    BY InvParts
  <1>2. GoodLog(Current(s))
    BY <1>1, CurrentGood
  <1>3. 0 \in 0 .. STOP_MIN_GATED_BLOCKS /\ 0 \in 0 .. TIME_MOD - 1
    BY BinlogAssumption
  <1>4. CASE Gated(s)
    BY <1>1, <1>4, BinlogAssumption DEF Gated, RestOK
  <1>5. CASE OpenFails(s)
    BY <1>1, <1>2, <1>3, <1>5 DEF OpenFails, Rearm, RestOK
  <1>6. ASSUME NEW outcome \in {"dropped", "short", "written"},
               Store(s, outcome)
        PROVE  /\ GoodLog(log') /\ any' \in BOOLEAN
               /\ gated' \in 0 .. STOP_MIN_GATED_BLOCKS
               /\ startNow' \in BOOLEAN /\ bootTime' \in 0 .. TIME_MOD - 1
    <2> DEFINE l == [Current(s) EXCEPT !.fp = TRUE]
    <2>1. GoodLog(l) /\ l.fp
      <3>1. Current(s) \in Log
        BY <1>2 DEF GoodLog
      <3>2. l.fp
        BY <3>1 DEF Log
      <3> QED BY <1>2, <3>2, OpenedGood
    <2>2. log' = IF outcome = "written" THEN Written(l, s) ELSE l
      BY <1>6 DEF Store
    <2> HIDE DEF l
    <2>3. GoodLog(log')
      BY <2>1, <2>2, WrittenGood
    <2> QED
      BY <1>1, <1>3, <1>6, <2>3 DEF Store, Rearm, RestOK
  <1> QED
    BY <1>4, <1>5, <1>6 DEF handle_block

(* What STOP and START make of the vehicle is a vehicle. *)
LEMMA MagicKeeps ==
    ASSUME RestOK, NEW stop, NEW start,
           SendMagic(stop, start)
    PROVE  startNow' \in BOOLEAN /\ veh' \in Vehicle
  <1>1. veh \in Vehicle /\ 0 \in Seqno
    BY SeqnoFacts DEF RestOK
  <1>2. Nudged(stop, start) \in Vehicle
    BY <1>1 DEF Nudged, Vehicle
  <1> QED
    BY <1>2 DEF SendMagic, RestOK

(* A tick with an open file gives gaps up and asks for others. *)
LEMMA OpenTickKeeps ==
    ASSUME GoodLog(log), log.fp,
           NEW start, NEW got, NEW old, NEW again, NEW out,
           TickOpen(start, got, old, again, out)
    PROVE  GoodLog(log')
  <1> DEFINE stale == Stale(log, old)
             l == [log EXCEPT !.acks = {}, !.nack = @ \ stale,
                              !.asked = @ \ stale,
                              !.given = @ \cup (stale \ log.seen)]
  <1>1. stale \subseteq log.nack
    BY DEF Stale
  <1> HIDE DEF stale
  <1>2. out \subseteq NackDue(l, again) /\ log' = [l EXCEPT !.asked = @ \cup out]
    BY DEF TickOpen, stale
  <1>3. out \subseteq l.nack
    BY <1>2 DEF NackDue
  <1>4. /\ l.fp = log.fp /\ l.seen = log.seen /\ l.highest = log.highest
        /\ l.acks = {} /\ l.nack = log.nack \ stale
        /\ l.asked = log.asked \ stale
        /\ l.given = log.given \cup (stale \ log.seen)
        /\ l \in Log
    BY <1>1 DEF GoodLog, Log
  <1>5. GoodLog(l)
    BY <1>1, <1>4 DEF GoodLog
  <1> HIDE DEF l
  <1> QED
    BY <1>2, <1>3, <1>4, <1>5 DEF GoodLog, Log

(* The invariant holds at first. *)
LEMMA BinlogStarts == BinlogInit => BinlogInv
  <1> SUFFICES ASSUME BinlogInit PROVE GoodLog(log) /\ RestOK
    BY InvParts
  <1>1. strays \in 0 .. MaxSeq + 1
    BY BinlogAssumption DEF BinlogInit, Vehicle, Seqno
  <1>2. gated \in 0 .. STOP_MIN_GATED_BLOCKS /\ bootTime \in 0 .. TIME_MOD - 1
    BY BinlogAssumption DEF BinlogInit
  <1>3. GoodLog(log)
    BY NoLogGood DEF BinlogInit
  <1> QED
    BY <1>1, <1>2, <1>3 DEF BinlogInit, RestOK

(* Every step of the writer and of the vehicle keeps it. *)
LEMMA BinlogSteps == BinlogInv /\ [BinlogNext]_binlogVars => BinlogInv'
  <1> SUFFICES ASSUME BinlogInv, [BinlogNext]_binlogVars
               PROVE  GoodLog(log') /\ RestOK'
    BY DEF BinlogInv, GoodLog, RestOK, BinlogTypeOK, AckedOnDisk,
       GapsTracked, NothingWithoutFile
  <1>0. GoodLog(log) /\ RestOK
    BY InvParts
  <1>1. ASSUME NEW s \in Seqno, Block(s)
        PROVE  GoodLog(log') /\ RestOK'
    <2>1. handle_block(s) /\ UNCHANGED vehVars
      BY <1>1 DEF Block
    <2> QED
      BY <1>0, <2>1, BlockHandled DEF RestOK, vehVars
  <1>2. ASSUME NEW t \in 0 .. TIME_MOD - 1, observe(t)
        PROVE  GoodLog(log') /\ RestOK'
    <2>1. GoodLog(log')
      BY <1>0, <1>2, NoLogGood DEF observe, Rotated
    <2> QED
      BY <1>0, <1>2, <2>1, BinlogAssumption DEF observe, RestOK, vehVars
  <1>3. ASSUME NEW stop, NEW start, TickWaiting(stop, start)
        PROVE  GoodLog(log') /\ RestOK'
    <2>1. startNow' \in BOOLEAN /\ veh' \in Vehicle
      BY <1>0, <1>3, MagicKeeps DEF TickWaiting
    <2> QED
      BY <1>0, <1>3, <2>1 DEF TickWaiting, RestOK
  <1>4. ASSUME NEW start, NEW got, NEW old, NEW again, NEW out,
               TickOpen(start, got, old, again, out)
        PROVE  GoodLog(log') /\ RestOK'
    <2>1. startNow' \in BOOLEAN /\ veh' \in Vehicle
      BY <1>0, <1>4, MagicKeeps DEF TickOpen
    <2>2. GoodLog(log')
      BY <1>0, <1>4, OpenTickKeeps DEF TickOpen
    <2> QED
      BY <1>0, <1>4, <2>1, <2>2 DEF TickOpen, RestOK
  <1>5. CASE VehicleSend
    <2>1. veh.next \in Seqno /\ veh.next \in Nat
      BY <1>0, SeqnoFacts DEF RestOK, Vehicle
    <2>2. strays' \in 0 .. MaxSeq + 1
      BY <1>0, <1>5, <2>1, BinlogAssumption DEF VehicleSend, RestOK, Seqno
    <2>3. veh' \in Vehicle
      BY <1>0, <1>5, <2>1, BinlogAssumption
         DEF VehicleSend, RestOK, Vehicle, Seqno
    <2> QED
      BY <1>0, <1>5, <2>1, <2>2, <2>3 DEF VehicleSend, RestOK,
         writerVars
  <1>6. CASE VehicleStop
    <2>1. veh' \in Vehicle
      BY <1>0, <1>6 DEF VehicleStop, RestOK, Vehicle
    <2> QED
      BY <1>0, <1>6, <2>1 DEF VehicleStop, RestOK, writerVars
  <1>7. CASE UNCHANGED binlogVars
    BY <1>0, <1>7 DEF binlogVars, writerVars, vehVars, RestOK
  <1> QED
    BY <1>1, <1>2, <1>3, <1>4, <1>5, <1>6, <1>7 DEF BinlogNext, Tick

(* The inductive invariant of the writer. *)
THEOREM BinlogInvariant == BinlogSpec => []BinlogInv
  BY BinlogStarts, BinlogSteps, PTL DEF BinlogSpec

(* The types of the writer's and the vehicle's state. *)
THEOREM BinlogTypes == BinlogSpec => []BinlogTypeOK
  <1>1. BinlogInv => BinlogTypeOK
    BY DEF BinlogInv
  <1> QED
    BY <1>1, BinlogInvariant, PTL

(* No acknowledgement ever goes out for a block that is not in the open    *)
(* file (handle_block, rotate_for_reboot).                                 *)
THEOREM AckedOnDiskHolds == BinlogSpec => []AckedOnDisk
  <1>1. BinlogInv => AckedOnDisk
    BY DEF BinlogInv
  <1> QED
    BY <1>1, BinlogInvariant, PTL

(* Every block below the highest is stored, asked for or given up          *)
(* (queue_gap_nacks, drop_stale_nack_state, tick).                         *)
THEOREM GapsTrackedHolds == BinlogSpec => []GapsTracked
  <1>1. BinlogInv => GapsTracked
    BY DEF BinlogInv
  <1> QED
    BY <1>1, BinlogInvariant, PTL
=============================================================================
