------------------------------ MODULE VideoAuth ------------------------------
(***************************************************************************)
(* Who may publish into a video slot: the publish password, the open slot, *)
(* and the address of the entry's MAVLink session, of which the video      *)
(* child keeps a cached view that outlives the session's row in            *)
(* connections.tdb (videoauth.cpp; tick of video.cpp).                     *)
(*                                                                         *)
(* Clients are addresses.  The clock starts at 1, as fetched_at_ takes 0   *)
(* for "never".                                                            *)
(***************************************************************************)
EXTENDS Integers

CONSTANTS
    Clients,
    VIDEO_AUTH_CACHE_S,
    Graces,                 \* values of video_mav_grace_s, the default applied
    MaxTime                 \* bounds the clock

ASSUME AuthAssumption ==
    VIDEO_AUTH_CACHE_S \in Nat /\ Graces \subseteq Nat /\ MaxTime \in Nat \ {0}

VARIABLES
    now,        \* time()
    row,        \* the user's row in connections.tdb: present or not, its
                \* address and flag, and since when it is what it is
    ke,         \* the child's copy of the entry in keys.tdb
    view,       \* have_, peer_ip_be_, authenticated_, seen_at_, fetched_at_
    agreed,     \* when row and view last were the same session (history)
    missed,     \* connections.tdb could not be opened since row.since (history)
    last        \* the decision just taken (history)

vars == <<now, row, ke, view, agreed, missed, last>>

Never == 0
NoDecision == [by |-> "none"]
Times == 0 .. MaxTime

Entry == [have_pw : BOOLEAN, bidi : BOOLEAN, grace : Graces]
Results == {"ok", "no_session", "wrong_ip", "stale_session", "unauth",
            "bad_password", "missing_password"}

(* by which path, and whether the view could be read for it *)
Decision == [by : {"password", "open", "session"}, r : Results, ip : Clients,
             current : BOOLEAN] \cup {NoDecision}

TypeOK ==
    /\ now \in Times
    /\ row \in [on : BOOLEAN, ip : Clients, auth : BOOLEAN, since : Times]
    /\ ke \in Entry
    /\ view \in [have : BOOLEAN, ip : Clients, auth : BOOLEAN, seen_at : Times,
                 fetched_at : Times]
    /\ agreed \in Times /\ missed \in BOOLEAN
    /\ last \in Decision

Init ==
    /\ now = 1
    /\ \E c \in Clients :
          /\ row = [on |-> FALSE, ip |-> c, auth |-> FALSE, since |-> Never]
          /\ view = [have |-> FALSE, ip |-> c, auth |-> FALSE,
                     seen_at |-> Never, fetched_at |-> Never]
    /\ ke \in Entry
    /\ agreed = Never /\ missed = FALSE /\ last = NoDecision

(* history: at time t there is row r while the view is v *)
Noted(r, v, t) ==
    agreed' = IF r.on /\ v.have /\ r.ip = v.ip /\ r.auth = v.auth THEN t
              ELSE agreed

(***************************************************************************)
(* VideoAuth                                                               *)
(***************************************************************************)
(* Wrong on purpose: any look at the table counts as seeing the session. *)
refreshSeen(v, opens) ==
    LET seen == [v EXCEPT !.fetched_at = now, !.seen_at = now]
    IN  IF opens /\ row.on
        THEN [seen EXCEPT !.have = TRUE, !.ip = row.ip, !.auth = row.auth]
        ELSE seen

(* refresh, when connections.tdb opens or not *)
refresh(v, opens) ==
    IF opens /\ row.on
    THEN [have |-> TRUE, ip |-> row.ip, auth |-> row.auth, seen_at |-> now,
          fetched_at |-> now]
    ELSE [v EXCEPT !.fetched_at = now]

check_session(v, ip) ==
    IF ~v.have THEN "no_session"
    ELSE IF v.ip # ip THEN "wrong_ip"
    ELSE IF now > v.seen_at + ke.grace THEN "stale_session"
    ELSE IF ke.bidi /\ ~v.auth THEN "unauth"
    ELSE "ok"

(* path A of admit: what the password, or an open slot, settles; "session" *)
(* where path B decides                                                    *)
Credential(password, session_ok, open_publish) ==
    CASE ke.have_pw /\ password = "right" -> "ok"
      [] ke.have_pw /\ password = "wrong" -> "bad_password"
      [] ke.have_pw /\ password = "none" /\ ~session_ok /\ ~open_publish ->
           "missing_password"
      [] ~(ke.have_pw /\ password # "none") /\ open_publish -> "open"
      [] OTHER -> "session"

(* Wrong on purpose: the view is kept a second longer. *)
ExpiredLate(v) == v.fetched_at = Never \/ now - v.fetched_at > VIDEO_AUTH_CACHE_S

(* path B of admit: the cached view, read again when it is old or before a *)
(* refusal, but not a second time in one second                            *)
Expired(v) == v.fetched_at = Never \/ now - v.fetched_at >= VIDEO_AUTH_CACHE_S

(* Wrong on purpose: a refusal is not checked again. *)
AgainNever(v, ip) == FALSE

Again(v, ip) == check_session(v, ip) # "ok" /\ now > v.fetched_at

SessionPath(ip, opens) ==
    LET reads == Expired(view) \/ Again(view, ip)
        v == IF reads THEN refresh(view, opens) ELSE view
    IN  /\ view' = v
        /\ Noted(row, v, now)
        /\ missed' = (missed \/ (reads /\ ~opens))
        /\ last' = [by |-> "session", r |-> check_session(v, ip), ip |-> ip,
                    current |-> opens /\ view.fetched_at # now]

admit(ip, password, session_ok, open_publish) ==
    LET a == Credential(password, session_ok, open_publish)
    IN  /\ \/ /\ a = "session"
              /\ \E opens \in BOOLEAN : SessionPath(ip, opens)
           \/ /\ a # "session"
              /\ last' = [by |-> IF a = "open" THEN "open" ELSE "password",
                          r |-> IF a = "open" THEN "ok" ELSE a, ip |-> ip,
                          current |-> FALSE]
              /\ UNCHANGED <<view, agreed, missed>>
        /\ UNCHANGED <<now, row, ke>>

(* tick: load_entry, which finds the entry as it is by now or cannot read *)
(* it, invalidate, observe                                                *)
tick ==
    /\ ke' \in Entry
    /\ \E opens \in BOOLEAN :
          /\ view' = refresh(view, opens)
          /\ Noted(row, view', now)
          /\ missed' = (missed \/ ~opens)
    /\ last' = NoDecision
    /\ UNCHANGED <<now, row>>

(***************************************************************************)
(* The session child writes, replaces and removes the row.                 *)
(***************************************************************************)
RowWritten(ip, auth) ==
    LET same == row.on /\ row.ip = ip
    IN  /\ row' = [on |-> TRUE, ip |-> ip, auth |-> auth,
                   since |-> IF same THEN row.since ELSE now]
        /\ missed' = (same /\ missed)
        /\ Noted(row', view, now)
        /\ last' = NoDecision
        /\ UNCHANGED <<now, ke, view>>

RowRemoved ==
    /\ row.on
    /\ row' = [row EXCEPT !.on = FALSE]
    /\ last' = NoDecision
    /\ UNCHANGED <<now, ke, view, agreed, missed>>

Clock ==
    /\ now < MaxTime
    /\ now' = now + 1
    /\ Noted(row, view, now')
    /\ last' = NoDecision
    /\ UNCHANGED <<row, ke, view, missed>>

Next ==
    \/ \E ip \in Clients, p \in {"none", "right", "wrong"},
          session_ok, open_publish \in BOOLEAN :
             admit(ip, p, session_ok, open_publish)
    \/ tick
    \/ \E ip \in Clients, auth \in BOOLEAN : RowWritten(ip, auth)
    \/ RowRemoved
    \/ Clock

Spec == Init /\ [][Next]_vars

(***************************************************************************)
(* Properties                                                              *)
(***************************************************************************)
(* The view never claims a session later than there was one: the grace      *)
(* window runs from a moment at which that very address had a live row with *)
(* that very flag, and lengthens neither with reads that find no row nor    *)
(* with reads that fail (refresh, check_session).                           *)
GraceFromLive ==
    view.have => view.seen_at <= agreed

(* When another address has had the row for VIDEO_AUTH_CACHE_S and          *)
(* connections.tdb could be opened ever since, the old address is admitted  *)
(* by its session no more (admit, refresh).                                 *)
OldAddressRefused ==
    last.by = "session" /\ last.r = "ok" /\ row.on /\ row.ip # last.ip =>
        now - row.since < VIDEO_AUTH_CACHE_S \/ missed

(* Whoever has the row, with what the entry asks for, is refused only by a  *)
(* view that was read in the same second or could not be read (the re-read  *)
(* of admit before it rejects).                                             *)
EntitledAdmitted ==
    last.by = "session" /\ last.current /\ row.on /\ row.ip = last.ip
        /\ (ke.bidi => row.auth) => last.r = "ok"
==============================================================================
