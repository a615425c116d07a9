--------------------------- MODULE VideoAuthProofs ---------------------------
(***************************************************************************)
(* VideoAuth for any number of clients, any cache time, any grace and any  *)
(* bound on the clock.                                                     *)
(***************************************************************************)
EXTENDS VideoAuth, TLAPS

(* What is remembered lies in the past, and a view of another address than *)
(* the row's was fetched before the row came, unless a read has failed     *)
(* since.                                                                  *)
ViewAged ==
    /\ row.since <= now /\ view.fetched_at <= now /\ view.seen_at <= now
    /\ agreed <= now
    /\ row.on /\ view.have /\ view.ip # row.ip /\ ~missed =>
           view.fetched_at <= row.since

AuthInv == TypeOK /\ ViewAged /\ GraceFromLive

(* refresh keeps the types, and takes over the row whenever it can. *)
LEMMA RefreshFacts ==
    ASSUME TypeOK, NEW opens \in BOOLEAN
    PROVE  LET v == refresh(view, opens)
           IN  /\ v \in [have : BOOLEAN, ip : Clients, auth : BOOLEAN,
                         seen_at : Times, fetched_at : Times]
               /\ v.fetched_at = now
               /\ IF opens /\ row.on
                  THEN v.have = TRUE /\ v.ip = row.ip /\ v.auth = row.auth
                       /\ v.seen_at = now
                  ELSE v.have = view.have /\ v.ip = view.ip
                       /\ v.auth = view.auth /\ v.seen_at = view.seen_at
  BY DEF TypeOK, refresh

(* The view of no session at all is well formed. *)
LEMMA AuthInit == Init => AuthInv
  <1> SUFFICES ASSUME Init PROVE AuthInv
    OBVIOUS
  <1>1. 0 \in Times /\ now \in Times
    BY AuthAssumption DEF Init, Times
  <1>2. last \in Decision
    BY DEF Init, Decision
  <1>3. PICK c \in Clients :
          /\ row = [on |-> FALSE, ip |-> c, auth |-> FALSE, since |-> Never]
          /\ view = [have |-> FALSE, ip |-> c, auth |-> FALSE,
                     seen_at |-> Never, fetched_at |-> Never]
    BY DEF Init
  <1>4. TypeOK
    BY <1>1, <1>2, <1>3 DEF Init, TypeOK, Never
  <1> QED
    BY <1>3, <1>4 DEF Init, AuthInv, ViewAged, GraceFromLive, Never

(* A view read anew, or left as it is: what the paths that may read share. *)
LEMMA ReadKeeps ==
    ASSUME AuthInv, NEW reads \in BOOLEAN, NEW opens \in BOOLEAN,
           view' = IF reads THEN refresh(view, opens) ELSE view,
           Noted(row, view', now), missed' = (missed \/ (reads /\ ~opens)),
           now' = now, row' = row, ke' \in Entry, last' \in Decision
    PROVE  AuthInv'
  <1> DEFINE v == refresh(view, opens)
  <1>1. view' \in [have : BOOLEAN, ip : Clients, auth : BOOLEAN, seen_at : Times,
                   fetched_at : Times]
    BY RefreshFacts DEF AuthInv, TypeOK
  <1>2. agreed' \in Times /\ missed' \in BOOLEAN
    BY DEF AuthInv, TypeOK, Noted
  <1>3. TypeOK'
    BY <1>1, <1>2 DEF AuthInv, TypeOK
  <1>4. CASE reads
    <2>1. view' = v /\ v.fetched_at = now
      BY <1>4, RefreshFacts DEF AuthInv
    <2>2. CASE opens /\ row.on
      <3>1. v.have = TRUE /\ v.ip = row.ip /\ v.auth = row.auth /\ v.seen_at = now
        BY <2>2, RefreshFacts DEF AuthInv
      <3>2. agreed' = now
        BY <2>1, <2>2, <3>1 DEF Noted
      <3> QED
        BY <1>3, <2>1, <3>1, <3>2, AuthAssumption
        DEF AuthInv, ViewAged, GraceFromLive, TypeOK, Times
    <2>3. CASE ~(opens /\ row.on)
      <3>1. /\ v.have = view.have /\ v.ip = view.ip
            /\ v.auth = view.auth /\ v.seen_at = view.seen_at
        BY <2>3, RefreshFacts DEF AuthInv
      <3>2. agreed' >= agreed /\ agreed' <= now
        BY AuthAssumption DEF Noted, AuthInv, ViewAged, TypeOK, Times
      <3>3. ~row.on \/ missed' = TRUE
        BY <1>4, <2>3
      <3> QED
        BY <1>3, <2>1, <3>1, <3>2, <3>3, AuthAssumption
        DEF AuthInv, ViewAged, GraceFromLive, TypeOK, Times
    <2> QED
      BY <2>2, <2>3
  <1>5. CASE ~reads
    <2>1. view' = view /\ missed' = missed
      BY <1>5 DEF AuthInv, TypeOK
    <2>2. agreed' >= agreed /\ agreed' <= now
      BY AuthAssumption DEF Noted, AuthInv, ViewAged, TypeOK, Times
    <2> QED
      BY <1>3, <2>1, <2>2, AuthAssumption
      DEF AuthInv, ViewAged, GraceFromLive, TypeOK, Times
  <1> QED
    BY <1>4, <1>5

(* check_session returns one of the results of admit. *)
LEMMA CheckResult ==
    ASSUME NEW v, NEW ip
    PROVE  check_session(v, ip) \in Results
  BY DEF check_session, Results

(* The decision of the session path has its type. *)
LEMMA SessionDecision ==
    ASSUME TypeOK, NEW ip \in Clients, NEW opens \in BOOLEAN,
           SessionPath(ip, opens)
    PROVE  last' \in Decision
  <1> DEFINE v == IF Expired(view) \/ Again(view, ip) THEN refresh(view, opens)
                  ELSE view
  <1>1. last' = [by |-> "session", r |-> check_session(v, ip), ip |-> ip,
                 current |-> opens /\ view.fetched_at # now]
    BY DEF SessionPath
  <1>2. (opens /\ view.fetched_at # now) \in BOOLEAN
    OBVIOUS
  <1>3. check_session(v, ip) \in Results
    BY CheckResult
  <1> QED
    BY <1>1, <1>2, <1>3 DEF Decision

(* What path A settles is a decision that no session was needed for. *)
LEMMA CredentialDecision ==
    ASSUME NEW a, NEW p \in {"none", "right", "wrong"}, NEW so \in BOOLEAN,
           NEW op \in BOOLEAN, NEW ip \in Clients,
           a = Credential(p, so, op), a # "session"
    PROVE  [by |-> IF a = "open" THEN "open" ELSE "password",
            r |-> IF a = "open" THEN "ok" ELSE a, ip |-> ip,
            current |-> FALSE] \in Decision
  <1>1. a \in {"ok", "bad_password", "missing_password", "open"}
    BY DEF Credential
  <1> QED
    BY <1>1 DEF Decision, Results

(* Every step of the child and of the session keeps the invariant. *)
LEMMA AuthNext == AuthInv /\ [Next]_vars => AuthInv'
  <1> SUFFICES ASSUME AuthInv, [Next]_vars PROVE AuthInv'
    OBVIOUS
  <1>0. NoDecision \in Decision
    BY DEF Decision
  <1>1. ASSUME NEW ip \in Clients, NEW p \in {"none", "right", "wrong"},
               NEW so \in BOOLEAN, NEW op \in BOOLEAN, admit(ip, p, so, op)
        PROVE  AuthInv'
    <2>1. CASE Credential(p, so, op) = "session"
      <3>1. PICK opens \in BOOLEAN : SessionPath(ip, opens)
        BY <1>1, <2>1 DEF admit
      <3>2. last' \in Decision
        BY <3>1, SessionDecision DEF AuthInv
      <3>3. now' = now /\ row' = row /\ ke' \in Entry
        BY <1>1 DEF admit, AuthInv, TypeOK
      <3> DEFINE reads == Expired(view) \/ Again(view, ip)
      <3>4. reads \in BOOLEAN
        BY DEF Expired, Again
      <3>5. /\ view' = IF reads THEN refresh(view, opens) ELSE view
            /\ Noted(row, view', now)
            /\ missed' = (missed \/ (reads /\ ~opens))
        BY <3>1 DEF SessionPath, Noted
      <3> HIDE DEF reads
      <3> QED
        BY <3>2, <3>3, <3>4, <3>5, ReadKeeps
    <2>2. CASE Credential(p, so, op) # "session"
      <3>1. last' \in Decision
        BY <1>1, <2>2, CredentialDecision DEF admit
      <3>2. UNCHANGED <<now, row, ke, view, agreed, missed>>
        BY <1>1, <2>2 DEF admit
      <3> QED
        BY <3>1, <3>2 DEF AuthInv, TypeOK, ViewAged, GraceFromLive
    <2> QED
      BY <2>1, <2>2
  <1>2. CASE tick
    <2>1. PICK opens \in BOOLEAN :
             /\ view' = refresh(view, opens)
             /\ Noted(row, view', now)
             /\ missed' = (missed \/ ~opens)
      BY <1>2 DEF tick, Noted
    <2>2. missed' = (missed \/ (TRUE /\ ~opens))
      BY <2>1
    <2> QED
      BY <1>0, <1>2, <2>1, <2>2, ReadKeeps DEF tick
  <1>3. ASSUME NEW ip \in Clients, NEW auth \in BOOLEAN, RowWritten(ip, auth)
        PROVE  AuthInv'
    <2> DEFINE same == row.on /\ row.ip = ip
    <2>1. /\ row' = [on |-> TRUE, ip |-> ip, auth |-> auth,
                     since |-> IF same THEN row.since ELSE now]
          /\ missed' = (same /\ missed)
          /\ last' = NoDecision /\ UNCHANGED <<now, ke, view>>
      BY <1>3 DEF RowWritten
    <2>2. agreed' = agreed \/ agreed' = now
      BY <1>3 DEF RowWritten, Noted
    <2>3. TypeOK'
      BY <1>0, <2>1, <2>2 DEF AuthInv, TypeOK
    <2>4. ViewAged'
      <3>1. CASE same
        BY <2>1, <2>2, <2>3, <3>1, AuthAssumption
        DEF AuthInv, TypeOK, ViewAged, Times
      <3>2. CASE ~same
        BY <2>1, <2>2, <2>3, <3>2, AuthAssumption
        DEF AuthInv, TypeOK, ViewAged, Times
      <3> QED
        BY <3>1, <3>2
    <2>5. GraceFromLive'
      BY <2>1, <2>2, AuthAssumption
      DEF AuthInv, TypeOK, ViewAged, GraceFromLive, Times
    <2> QED
      BY <2>3, <2>4, <2>5 DEF AuthInv
  <1>4. CASE RowRemoved
    <2>1. TypeOK'
      BY <1>0, <1>4 DEF RowRemoved, AuthInv, TypeOK
    <2> QED
      BY <1>4, <2>1 DEF RowRemoved, AuthInv, TypeOK, ViewAged, GraceFromLive
  <1>5. CASE Clock
    <2>1. now' = now + 1 /\ now' \in Times
      BY <1>5, AuthAssumption DEF Clock, AuthInv, TypeOK, Times
    <2>2. agreed' = agreed \/ agreed' = now'
      BY <1>5 DEF Clock, Noted
    <2>3. TypeOK'
      BY <1>0, <1>5, <2>1, <2>2 DEF Clock, AuthInv, TypeOK
    <2> QED
      BY <1>5, <2>1, <2>2, <2>3, AuthAssumption
      DEF Clock, AuthInv, TypeOK, ViewAged, GraceFromLive, Times
  <1>6. CASE UNCHANGED vars
    BY <1>6 DEF vars, AuthInv, TypeOK, ViewAged, GraceFromLive
  <1> QED
    BY <1>1, <1>2, <1>3, <1>4, <1>5, <1>6 DEF Next

(***************************************************************************)
(* The decisions                                                           *)
(***************************************************************************)
DecisionInv == AuthInv /\ OldAddressRefused /\ EntitledAdmitted

(* Path B decides on the view as it is after at most one read. *)
LEMMA SessionPathSound ==
    ASSUME AuthInv, AuthInv', NEW ip \in Clients, NEW opens \in BOOLEAN,
           SessionPath(ip, opens), now' = now, row' = row, ke' = ke
    PROVE  OldAddressRefused' /\ EntitledAdmitted'
  <1> DEFINE reads == Expired(view) \/ Again(view, ip)
             v == refresh(view, opens)
  <1>1. /\ last' = [by |-> "session", r |-> check_session(view', ip), ip |-> ip,
                    current |-> opens /\ view.fetched_at # now]
        /\ view' = IF reads THEN v ELSE view
        /\ missed' = (missed \/ (reads /\ ~opens))
    BY DEF SessionPath
  <1>2. last'.r = check_session(view', ip) /\ last'.ip = ip
        /\ (last'.current => opens /\ view.fetched_at # now)
    BY <1>1
  <1>3. CASE reads
    <2>1. view' = v
      BY <1>1, <1>3
    <2>2. CASE opens /\ row.on
      <3>1. v.have = TRUE /\ v.ip = row.ip /\ v.auth = row.auth /\ v.seen_at = now
        BY <2>2, RefreshFacts DEF AuthInv
      <3>2. ~(now > now + ke.grace)
        <4>1. ke.grace \in Nat
          BY AuthAssumption DEF AuthInv, TypeOK, Entry
        <4>2. now \in Int
          BY AuthAssumption DEF AuthInv, TypeOK, Times
        <4> QED
          BY <4>1, <4>2
      <3>3. row.ip = ip /\ (ke.bidi => row.auth) => check_session(v, ip) = "ok"
        BY <3>1, <3>2 DEF check_session
      <3>4. row.ip # ip => check_session(v, ip) # "ok"
        BY <3>1 DEF check_session
      <3> QED
        BY <1>2, <2>1, <3>3, <3>4 DEF OldAddressRefused, EntitledAdmitted
    <2>3. CASE ~(opens /\ row.on)
      <3>1. row.on => missed' = TRUE /\ ~opens
        BY <1>1, <1>3, <2>3
      <3> QED
        BY <1>2, <3>1 DEF OldAddressRefused, EntitledAdmitted
    <2> QED
      BY <2>2, <2>3
  <1>4. CASE ~reads
    <2>1. view' = view /\ (missed => missed')
      BY <1>1, <1>4
    <2>2. now - view.fetched_at < VIDEO_AUTH_CACHE_S
      BY <1>4, AuthAssumption DEF Expired, AuthInv, TypeOK, Times
    <2>3. view.fetched_at # now => check_session(view, ip) = "ok"
      BY <1>4, AuthAssumption DEF Again, AuthInv, TypeOK, ViewAged, Times
    <2>4. check_session(view, ip) = "ok" => view.have /\ view.ip = ip
      BY DEF check_session
    <2>5. OldAddressRefused'
      <3> SUFFICES ASSUME last'.r = "ok", row.on, row.ip # ip, ~missed'
                   PROVE  now - row.since < VIDEO_AUTH_CACHE_S
        BY <1>2 DEF OldAddressRefused
      <3>1. view.have /\ view.ip # row.ip /\ ~missed
        BY <1>2, <2>1, <2>4
      <3>2. view.fetched_at <= row.since
        BY <3>1 DEF AuthInv, ViewAged
      <3> QED
        BY <2>2, <3>2, AuthAssumption DEF AuthInv, TypeOK, Times
    <2>6. EntitledAdmitted'
      BY <1>2, <2>1, <2>3 DEF EntitledAdmitted
    <2> QED
      BY <2>5, <2>6
  <1> QED
    BY <1>3, <1>4

(* Every step keeps the invariant. *)
LEMMA DecisionNext == DecisionInv /\ [Next]_vars => DecisionInv'
  <1> SUFFICES ASSUME DecisionInv, [Next]_vars PROVE DecisionInv'
    OBVIOUS
  <1>1. AuthInv'
    BY AuthNext DEF DecisionInv
  <1> SUFFICES OldAddressRefused' /\ EntitledAdmitted'
    BY <1>1 DEF DecisionInv
  <1>2. ASSUME last'.by # "session"
        PROVE  OldAddressRefused' /\ EntitledAdmitted'
    BY <1>2 DEF OldAddressRefused, EntitledAdmitted
  <1>3. ASSUME last' = NoDecision
        PROVE  OldAddressRefused' /\ EntitledAdmitted'
    BY <1>2, <1>3 DEF NoDecision
  <1>4. ASSUME NEW ip \in Clients, NEW p \in {"none", "right", "wrong"},
               NEW so \in BOOLEAN, NEW op \in BOOLEAN, admit(ip, p, so, op)
        PROVE  OldAddressRefused' /\ EntitledAdmitted'
    <2>1. CASE Credential(p, so, op) = "session"
      <3>1. PICK opens \in BOOLEAN : SessionPath(ip, opens)
        BY <1>4, <2>1 DEF admit
      <3> QED
        BY <1>1, <1>4, <3>1, SessionPathSound DEF admit, DecisionInv
    <2>2. CASE Credential(p, so, op) # "session"
      <3>1. last'.by # "session"
        BY <1>4, <2>2 DEF admit
      <3> QED
        BY <1>2, <3>1
    <2> QED
      BY <2>1, <2>2
  <1>5. CASE tick
    BY <1>3, <1>5 DEF tick
  <1>6. CASE \E ip \in Clients, auth \in BOOLEAN : RowWritten(ip, auth)
    BY <1>3, <1>6 DEF RowWritten
  <1>7. CASE RowRemoved
    BY <1>3, <1>7 DEF RowRemoved
  <1>8. CASE Clock
    BY <1>3, <1>8 DEF Clock
  <1>9. CASE UNCHANGED vars
    BY <1>9 DEF vars, DecisionInv, OldAddressRefused, EntitledAdmitted
  <1> QED
    BY <1>4, <1>5, <1>6, <1>7, <1>8, <1>9 DEF Next

(* The inductive invariant of admission (videoauth.cpp): the view is        *)
(* well-typed and ages as the clock and the row say.                        *)
THEOREM DecisionInvariant == Spec => []DecisionInv
  <1>1. Init => DecisionInv
    <2>1. ASSUME Init PROVE OldAddressRefused /\ EntitledAdmitted
      BY <2>1 DEF Init, NoDecision, OldAddressRefused, EntitledAdmitted
    <2> QED
      BY <2>1, AuthInit DEF DecisionInv
  <1> QED
    BY <1>1, DecisionNext, PTL DEF Spec

(* The grace window of check_session runs from a live row, for any cache    *)
(* time, grace and clients.                                                 *)
THEOREM GraceFromLiveHolds == Spec => []GraceFromLive
  <1>1. DecisionInv => GraceFromLive
    BY DEF DecisionInv, AuthInv
  <1> QED
    BY <1>1, DecisionInvariant, PTL

(* admit refuses an address that another one has replaced.                  *)
THEOREM OldAddressRefusedHolds == Spec => []OldAddressRefused
  <1>1. DecisionInv => OldAddressRefused
    BY DEF DecisionInv
  <1> QED
    BY <1>1, DecisionInvariant, PTL

(* admit does not refuse an entitled address on a view that is out of date. *)
THEOREM EntitledAdmittedHolds == Spec => []EntitledAdmitted
  <1>1. DecisionInv => EntitledAdmitted
    BY DEF DecisionInv
  <1> QED
    BY <1>1, DecisionInvariant, PTL

(* The types of the row, of VideoAuth's view of it and of the decision.     *)
THEOREM AuthTypes == Spec => []TypeOK
  <1>1. DecisionInv => TypeOK
    BY DEF DecisionInv, AuthInv
  <1> QED
    BY <1>1, DecisionInvariant, PTL
==============================================================================
