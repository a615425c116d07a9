------------------------------ MODULE KeyRecord ------------------------------
(***************************************************************************)
(* One entry of keys.tdb and everybody who writes it: a session child that *)
(* rotates the signing key (SETUP_SIGNING) and adds its counters when it   *)
(* ends, the savers it forks to store the signing timestamp, and the web   *)
(* admin and keydb.py.  Each reads the record, changes it and stores the   *)
(* whole of it inside a TDB transaction (keydb.cpp, webadmin/db.py), and   *)
(* may die before it commits.                                              *)
(*                                                                         *)
(* The tdb library, the clock and the clocks of peers are external.  Time  *)
(* is counted in units of 5 s.                                             *)
(***************************************************************************)
EXTENDS Integers

CONSTANTS
    Keys,           \* signing keys
    ZeroKey,        \* the key of 32 zero bytes
    NoKey,          \* not a key: the entry does not exist
    LOAD_AHEAD,     \* 15 s: added to the stored timestamp on load
    SAVE_EVERY,     \* 10 s: between two savers
    AHEAD,          \* how far a peer's clock may be ahead
    MaxTime,        \* bounds the clock
    MaxSessions     \* bounds the counter of sessions

ASSUME KeyRecordAssumption ==
    /\ ZeroKey \in Keys /\ NoKey \notin Keys
    /\ LOAD_AHEAD \in Nat /\ SAVE_EVERY \in Nat \ {0} /\ AHEAD \in Nat
    /\ MaxTime \in Nat /\ MaxSessions \in Nat

VARIABLES
    now,
    record,     \* the stored entry: secret_key, timestamp, connections
    session,    \* the session child: its copy of the key and signing.timestamp
    savers,     \* the timestamps that forked savers carry
    tx,         \* the open transactions: what is to be done, what was read
    asked       \* the entry if every committed change were applied at once

vars == <<now, record, session, savers, tx, asked>>

Entries ==
    [key : Keys \cup {NoKey}, ts : Nat, connections : Nat]

(* save_signing_timestamp, handle_setup_signing, the end of main_loop, and *)
(* set_pass, reset_timestamp, remove_entry and add_entry of keydb_lib      *)
Changes ==
    [kind : {"save"}, ts : Nat]
    \cup [kind : {"setup"}, key : Keys, ts : Nat]
    \cup [kind : {"pass", "add"}, key : Keys]
    \cup [kind : {"end", "reset", "remove"}]

TypeOK ==
    /\ now \in 0 .. MaxTime
    /\ record \in Entries /\ asked \in Entries
    /\ record.key = NoKey => record.connections = 0
    /\ session.loaded => session.live
    /\ session \in [live : BOOLEAN, loaded : BOOLEAN, ts : Nat, saved : Int]
    /\ savers \subseteq Nat
    /\ tx \subseteq [change : Changes, read : Entries]

Gone == [key |-> NoKey, ts |-> 0, connections |-> 0]
NewEntry(k) == [key |-> k, ts |-> 0, connections |-> 0]
NoSession == [live |-> FALSE, loaded |-> FALSE, ts |-> 0, saved |-> 0]

Init ==
    /\ now = 0
    /\ record \in {Gone} \cup {NewEntry(k) : k \in Keys \ {ZeroKey}}
    /\ asked = record
    /\ session = NoSession
    /\ savers = {} /\ tx = {}

Least(i, j) == IF i < j THEN i ELSE j
Most(i, j) == IF i < j THEN j ELSE i

-----------------------------------------------------------------------------
(* Transactions *)

(* Wrong on purpose: the saver stores what it carries. *)
SavedUncapped(r, ts) == [r EXCEPT !.ts = Most(r.ts, ts)]

(* Wrong on purpose: what the saver finds does not matter. *)
SavedAlways(r, ts) == [r EXCEPT !.ts = Least(ts, now)]

(* save_signing_timestamp: not beyond the clock, and only upwards *)
Saved(r, ts) == [r EXCEPT !.ts = Most(r.ts, Least(ts, now))]

(* what a change makes of the entry it has read *)
Changed(c, r) ==
    IF r.key = NoKey
    THEN IF c.kind = "add" THEN NewEntry(c.key) ELSE r
    ELSE CASE c.kind = "save" -> Saved(r, c.ts)
           [] c.kind = "setup" -> [r EXCEPT !.key = c.key, !.ts = c.ts]
           [] c.kind = "end" -> [r EXCEPT !.connections = @ + 1]
           [] c.kind = "pass" -> [r EXCEPT !.key = c.key]
           [] c.kind = "reset" -> [r EXCEPT !.ts = 0]
           [] c.kind = "remove" -> Gone
           [] c.kind = "add" -> r

(* Wrong on purpose: nobody waits for a transaction to end. *)
MayStartAlways == TRUE

(* tdb_transaction_start waits for the transaction of another process *)
MayStart == tx = {}

(* db_open_transaction and db_load_key *)
Start(c) ==
    /\ MayStart
    /\ tx' = tx \cup {[change |-> c, read |-> record]}

(* the session child waits for its own transaction *)
Waiting == \E t \in tx : t.change.kind \in {"setup", "end"}

(* load_signing_key takes neither a missing entry nor an all-zero one *)
Usable(r) == r.key # NoKey /\ ~(r.key = ZeroKey /\ r.ts = 0)

(* the session after load_signing_key *)
Loaded(r) == [live |-> TRUE, loaded |-> Usable(r),
              ts |-> Most(r.ts + LOAD_AHEAD, now), saved |-> session.saved]

(* db_save_key and db_close_commit; SETUP_SIGNING then loads the new key,  *)
(* unless there was no entry                                               *)
Commit(t) ==
    /\ t.change.kind = "end" => record.connections < MaxSessions
    /\ tx' = tx \ {t}
    /\ record' = Changed(t.change, t.read)
    /\ asked' = Changed(t.change, asked)
    /\ session' = IF t.change.kind = "setup" /\ t.read.key # NoKey
                  THEN Loaded(record') ELSE session
    /\ UNCHANGED <<now, savers>>

(* the process dies before it commits: the tdb library undoes its writes *)
Abandon(t) ==
    /\ tx' = tx \ {t}
    /\ session' = IF t.change.kind = "setup" THEN NoSession ELSE session
    /\ UNCHANGED <<now, record, savers, asked>>

-----------------------------------------------------------------------------
(* The session child *)

(* MAVLink::init of a signed link: load_signing_key, and then              *)
(* update_signing_timestamp, which forks the first saver                   *)
StartSession ==
    /\ ~session.live /\ ~Waiting
    /\ session' = [Loaded(record) EXCEPT !.saved = now]
    /\ savers' = IF Usable(record) THEN savers \cup {Loaded(record).ts} ELSE savers
    /\ UNCHANGED <<now, record, tx, asked>>

(* a good signed packet: the parser keeps the highest timestamp it sees *)
Hear(ts) ==
    /\ session.live /\ session.loaded /\ ~Waiting
    /\ session' = [session EXCEPT !.ts = Most(@, ts)]
    /\ UNCHANGED <<now, record, savers, tx, asked>>

(* send_message: update_signing_timestamp, at most every SAVE_EVERY *)
update_signing_timestamp ==
    /\ session.live /\ session.loaded /\ ~Waiting
    /\ now - session.saved >= SAVE_EVERY
    /\ session' = [session EXCEPT !.saved = now, !.ts = Most(@, now)]
    /\ savers' = savers \cup {session'.ts}
    /\ UNCHANGED <<now, record, tx, asked>>

(* a saver gets to its transaction, or fails to open the database *)
SaverRuns(ts) ==
    /\ Start([kind |-> "save", ts |-> ts]) \/ UNCHANGED tx
    /\ savers' = savers \ {ts}
    /\ UNCHANGED <<now, record, session, asked>>

(* handle_setup_signing: not to an all-zero entry.  The timestamp is the   *)
(* one the peer asks for, ahead of the clock or behind it.                 *)
SetupSigning(k, ts) ==
    /\ session.live /\ session.loaded /\ ~Waiting
    /\ k # ZeroKey \/ ts # 0
    /\ Start([kind |-> "setup", key |-> k, ts |-> ts])
    /\ UNCHANGED <<now, record, session, savers, asked>>

(* the end of main_loop; a child that is killed adds nothing *)
EndSession ==
    /\ session.live /\ ~Waiting
    /\ session' = NoSession
    /\ Start([kind |-> "end"]) \/ UNCHANGED tx
    /\ UNCHANGED <<now, record, savers, asked>>

(* The web admin and keydb.py *)
Edit ==
    /\ \E c \in [kind : {"pass", "add"}, key : Keys \ {ZeroKey}]
                \cup [kind : {"reset", "remove"}] : Start(c)
    /\ UNCHANGED <<now, record, session, savers, asked>>

Elapse ==
    /\ now < MaxTime
    /\ now' = now + 1
    /\ UNCHANGED <<record, session, savers, tx, asked>>

Next ==
    \/ StartSession \/ update_signing_timestamp \/ EndSession
    \/ \E ts \in 0 .. now + AHEAD : Hear(ts)
    \/ \E ts \in savers : SaverRuns(ts)
    \/ \E k \in Keys, ts \in 0 .. MaxTime : SetupSigning(k, ts)
    \/ \E t \in tx : Commit(t) \/ Abandon(t)
    \/ Edit \/ Elapse

Spec == Init /\ [][Next]_vars

-----------------------------------------------------------------------------
(* Properties *)

(* No committed change is lost: the stored entry is the one that results   *)
(* from applying them one at a time.  A saver forked before a key was      *)
(* rotated does not bring the old key back, a session that ends while an   *)
(* owner edits the entry loses neither, and nothing brings back an entry   *)
(* that was removed.                                                       *)
NothingLost == record = asked

(* The stored timestamp is raised beyond the clock only by a SETUP_SIGNING *)
(* that asks for it, although every load adds 15 s to the copy in memory   *)
(* and peers whose clocks are ahead raise it: short sessions one after the *)
(* other do not add up until a peer whose clock is right is refused (the   *)
(* comments in load_signing_key and save_signing_timestamp).               *)
StoredNotAhead ==
    [][record'.ts > record.ts =>
          record'.ts <= now \/ \E t \in tx : t.change.kind = "setup"]_vars

(* Savers may commit in any order, a late one carries an old timestamp:    *)
(* the stored timestamp falls only when someone asks for it.               *)
NeverBackwards ==
    [][record'.ts < record.ts =>
          \E t \in tx : t.change.kind \in {"setup", "reset", "remove"}]_vars
==============================================================================
