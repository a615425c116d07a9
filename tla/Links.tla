-------------------------------- MODULE Links --------------------------------
(***************************************************************************)
(* What a session child promises about the connections it proxies, with   *)
(* the loop that implements it left out.  A session has at most one user   *)
(* connection, which stays for the life of the session, and a table of    *)
(* engineer slots.  A slot is handed to a connection only while it is      *)
(* free, a connection holds at most one slot, and connections leave        *)
(* without disturbing the others.                                          *)
(*                                                                         *)
(* SessionChild implements this specification (supportproxy.cpp,           *)
(* main_loop); ConnTable builds on it.                                     *)
(***************************************************************************)
EXTENDS Integers, FiniteSets

CONSTANTS
    Slots,      \* the engineer slots, conn2[0 .. MAX_COMM2_LINKS-1]
    Conns,      \* engineer connections
    NoConn      \* the content of a free slot

ASSUME NoConnAssumption == NoConn \notin Conns

VARIABLES
    running,    \* main_loop has not been left
    user,       \* have_conn1
    held        \* who holds each slot

linkVars == <<running, user, held>>

Occupied == {i \in Slots : held[i] # NoConn}

LinksTypeOK ==
    /\ running \in BOOLEAN
    /\ user \in BOOLEAN
    /\ held \in [Slots -> Conns \cup {NoConn}]

LinksInit ==
    /\ running = TRUE
    /\ user = FALSE
    /\ held = [i \in Slots |-> NoConn]

(* held once the connections in the slots of gone have left *)
Without(gone) == [i \in Slots |-> IF i \in gone THEN NoConn ELSE held[i]]

(* The user connects; a frame of that very datagram that cannot be         *)
(* delivered makes engineers leave in the same step.                       *)
UserLatch(gone) ==
    /\ running /\ ~user
    /\ user' = TRUE
    /\ held' = Without(gone)
    /\ UNCHANGED running

(* An engineer connects and takes a free slot. *)
Join(i, c) ==
    /\ running
    /\ held[i] = NoConn
    /\ \A j \in Slots : held[j] # c
    /\ held' = [held EXCEPT ![i] = c]
    /\ UNCHANGED <<running, user>>

(* The connections in the slots of gone leave, the others stay. *)
Leave(gone) ==
    /\ running
    /\ held' = Without(gone)
    /\ UNCHANGED <<running, user>>

(* The session ends, with everyone still in it. *)
End ==
    /\ running
    /\ running' = FALSE
    /\ UNCHANGED <<user, held>>

LinksNext ==
    \/ \E gone \in SUBSET Slots : UserLatch(gone) \/ Leave(gone)
    \/ \E i \in Slots, c \in Conns : Join(i, c)
    \/ End

LinksSpec == LinksInit /\ [][LinksNext]_linkVars
==============================================================================
