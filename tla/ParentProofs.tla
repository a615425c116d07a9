----------------------------- MODULE ParentProofs -----------------------------
(***************************************************************************)
(* Proofs about the listeners of the parent, for any set of entries, ports *)
(* and sockets and any number of edits of keys.tdb.                        *)
(***************************************************************************)
EXTENDS Parent, TLAPS

(* The inductive invariant: what EpollExact and ListenersCurrent need of   *)
(* the types, and the two themselves.  EpollExact is not inductive alone:  *)
(* the epoll set is rebuilt from the entries without a child, and only     *)
(* ListenersCurrent says that no other entry has a listener.               *)
Shape ==
    /\ pc \in {"wait", "reload", "reconcile"}
    /\ ports \in [Entries -> ListenPort \cup {None}]
    /\ conf \in [Entries -> Config \cup {None}]
    /\ DOMAIN sock = Entries /\ \A e \in Entries : DOMAIN sock[e] = Socks
    /\ DOMAIN child = Entries
    /\ epoll \subseteq Entries \X Socks
    /\ \A e \in Entries : Busy(e) => Known(e)

ListenerInv == Shape /\ ListenersCurrent /\ EpollExact

USE DEF Known, Busy

(* A new epoll set has exactly the open listeners in it. *)
LEMMA EpollSetExact ==
    ASSUME ListenersCurrent
    PROVE  EpollSet(ports, sock, child)
               = {r \in Entries \X Socks : sock[r[1]][r[2]] # None}
BY DEF EpollSet, ListenersCurrent

(* The invariant holds when main() has read keys.tdb. *)
LEMMA InitListeners == Init => ListenerInv
<1> SUFFICES ASSUME Init PROVE ListenerInv
  OBVIOUS
<1>1. PICK opened \in SUBSET Openable(ports, Unlistened, child) :
          sock = Opened(ports, Unlistened, opened)
  BY DEF Init
<1>2. Shape
  <2>1. ports \in [Entries -> ListenPort \cup {None}]
    <3>1. ASSUME NEW e \in Entries, conf[e] # None
          PROVE  [port1 |-> conf[e].port1, video |-> conf[e].video,
                  removed |-> FALSE] \in ListenPort
      <4>1. conf[e] \in Config
        BY <3>1 DEF Init
      <4> QED
        BY <4>1 DEF Config, ListenPort
    <3> QED
      BY <3>1 DEF Init
  <2>2. child = [e \in Entries |-> "none"] /\ pc = "reconcile"
        /\ conf \in [Entries -> Config \cup {None}] /\ epoll = {}
    BY DEF Init
  <2> QED
    BY <1>1, <2>1, <2>2 DEF Shape, Opened
<1>3. ListenersCurrent
  BY <1>1 DEF Init, ListenersCurrent, Opened, Openable, Unlistened, NoSocks
<1>4. EpollExact
  BY DEF Init, EpollExact
<1> QED
  BY <1>2, <1>3, <1>4 DEF ListenerInv

(* SIGTERM makes no entry idle or busy: only check_children does. *)
LEMMA KilledIdle ==
    ASSUME NEW s PROVE Killed(s) = "none" <=> s = "none"
BY DEF Killed

(* handle_connection *)
LEMMA ForkKeeps ==
    ASSUME ListenerInv, NEW e \in Entries, NEW k \in Socks,
           handle_connection(e, k)
    PROVE  ListenerInv'
<1> USE DEF ListenerInv, handle_connection
<1>1. Shape'
  BY DEF Shape, Deregistered, NoSocks, MayFork, ListenersCurrent
<1>2. ListenersCurrent'
  BY DEF Shape, ListenersCurrent, NoSocks
<1>3. EpollExact'
  BY DEF Shape, EpollExact, Deregistered, NoSocks, MayFork
<1> QED
  BY <1>1, <1>2, <1>3

(* check_children: the listeners of reaped sessions *)
LEMMA ReapKeeps ==
    ASSUME ListenerInv, NEW opened, NEW forked, check_children(opened, forked)
    PROVE  ListenersCurrent'
<1> USE DEF ListenerInv
<1> SUFFICES ASSUME NEW e \in Entries, NEW k \in Socks, sock'[e][k] # None
             PROVE  /\ ports[e] # None /\ ~ports[e].removed
                    /\ child'[e] = "none"
                    /\ sock'[e][k] = PortOf(e, k, ports[e].port1)
  BY DEF ListenersCurrent, check_children
<1>1. CASE <<e, k>> \in opened
  <2>1. e \in ReapedSession /\ ~ports[e].removed /\ ports[e] # None
    BY <1>1 DEF check_children, Reopenable, Reopens, ReapedSession, Shape
  <2>2. child'[e] = "none"
    BY <2>1 DEF check_children, Reaped
  <2>3. sock'[e][k] = PortOf(e, k, ports[e].port1)
    BY <1>1 DEF check_children, Opened
  <2> QED
    BY <2>1, <2>2, <2>3
<1>2. CASE <<e, k>> \notin opened
  <2>1. sock'[e][k] = sock[e][k]
    BY <1>2 DEF check_children, Opened
  <2> QED
    BY <2>1 DEF ListenersCurrent, check_children, Reaped, ReapedSession
<1> QED
  BY <1>1, <1>2

(* check_children keeps the types, and entries with a child known. *)
LEMMA ReapKeepsShape ==
    ASSUME Shape, NEW opened, NEW forked, check_children(opened, forked),
           pc' \in {"wait", "reload"}
    PROVE  Shape'
BY DEF Shape, check_children, Opened, Reaped

(* One round of housekeeping: listeners are only opened when a reload, and *)
(* with it a new epoll set, follows.                                       *)
LEMMA HousekeepKeeps ==
    ASSUME ListenerInv, NEW opened, NEW forked,
           Housekeep(opened, forked) \/ HousekeepReload(opened, forked)
    PROVE  ListenerInv'
<1> USE DEF ListenerInv
<1>1. check_children(opened, forked) /\ pc' \in {"wait", "reload"}
  BY DEF Housekeep, HousekeepReload, check_children
<1>2. Shape' /\ ListenersCurrent'
  BY <1>1, ReapKeeps, ReapKeepsShape
<1>3. EpollExact'
  <2>1. CASE pc' = "reload"
    BY <2>1 DEF EpollExact
  <2>2. CASE Housekeep(opened, forked)
    <3>1. opened = {}
      BY <2>2 DEF Housekeep, check_children, Reopenable
    <3>2. \A e \in Entries, k \in Socks : sock'[e][k] = sock[e][k]
      BY <3>1, <1>1 DEF check_children, Opened
    <3> QED
      BY <3>2, <1>1, <2>2 DEF EpollExact, Housekeep, check_children
  <2> QED
    BY <2>1, <2>2 DEF HousekeepReload
<1> QED
  BY <1>2, <1>3

(* upsert_port: what the parent has of an entry after a reload *)
LEMMA ReconciledType ==
    ASSUME Shape, NEW e \in Entries
    PROVE  /\ Reconciled(e) \in ListenPort \cup {None}
           /\ ports[e] # None => Reconciled(e) # None
           /\ conf[e] # None => /\ Reconciled(e) # None
                                /\ ~Reconciled(e).removed
                                /\ Reconciled(e).port1 = conf[e].port1
<1>1. CASE conf[e] # None
  <2>1. conf[e] \in Config
    BY <1>1 DEF Shape
  <2> DEFINE r == [port1 |-> conf[e].port1, video |-> conf[e].video,
                   removed |-> FALSE]
  <2>2. Reconciled(e) = r
    BY <1>1 DEF Reconciled
  <2>3. r \in ListenPort /\ ~r.removed /\ r.port1 = conf[e].port1
    BY <2>1 DEF Config, ListenPort
  <2> QED
    BY <1>1, <2>2, <2>3, ParentAssumption
<1>2. CASE conf[e] = None /\ ports[e] # None
  <2>1. ports[e] \in ListenPort
    BY <1>2 DEF Shape
  <2>2. Reconciled(e) = [ports[e] EXCEPT !.removed = TRUE]
    BY <1>2 DEF Reconciled
  <2>3. Reconciled(e) \in ListenPort
    BY <2>1, <2>2 DEF ListenPort
  <2> QED
    BY <1>2, <2>3, ParentAssumption
<1>3. CASE conf[e] = None /\ ports[e] = None
  BY <1>3 DEF Reconciled
<1> QED
  BY <1>1, <1>2, <1>3

(* reload_ports: the listeners of entries that vanished or moved are       *)
(* closed before any is opened, so those left open fit what keys.tdb says. *)
LEMMA ReloadKeeps ==
    ASSUME ListenerInv, NEW opened, Reload(opened)
    PROVE  ListenerInv'
<1> USE DEF ListenerInv
<1>1. ASSUME NEW e \in Entries
      PROVE  /\ ports'[e] = Reconciled(e)
             /\ child'[e] = "none" <=> child[e] = "none"
  BY KilledIdle DEF Reload
<1>2. Shape'
  <2>1. ports' \in [Entries -> ListenPort \cup {None}]
    BY ReconciledType DEF Reload
  <2> QED
    BY <2>1, <1>1, ReconciledType DEF Shape, Reload, Opened
<1>3. ListenersCurrent'
  <2> SUFFICES ASSUME NEW e \in Entries, NEW k \in Socks, sock'[e][k] # None
               PROVE  /\ ports'[e] # None /\ ~ports'[e].removed
                      /\ child'[e] = "none"
                      /\ sock'[e][k] = PortOf(e, k, ports'[e].port1)
    BY DEF ListenersCurrent
  <2>1. CASE <<e, k>> \in opened
    BY <2>1, <1>1 DEF Reload, Openable, Opened
  <2>2. CASE <<e, k>> \notin opened
    <3>1. sock'[e][k] = sock[e][k] /\ sock[e][k] # None /\ ~Closes(e)
      BY <2>2 DEF Reload, Opened, Left, NoSocks
    <3>2. /\ ports[e] # None /\ ~ports[e].removed /\ child[e] = "none"
          /\ sock[e][k] = PortOf(e, k, ports[e].port1)
      BY <3>1 DEF ListenersCurrent
    <3>3. conf[e] # None /\ ports[e].port1 = conf[e].port1
      BY <3>1, <3>2 DEF Closes, Vanished, Moved
    <3>4. /\ ports'[e] # None /\ ~ports'[e].removed
          /\ ports'[e].port1 = conf[e].port1
      BY <3>3, <1>1, ReconciledType
    <3> QED
      BY <3>1, <3>2, <3>3, <3>4, <1>1
  <2> QED
    BY <2>1, <2>2
<1>4. EpollExact'
  BY DEF Reload, EpollExact
<1> QED
  BY <1>2, <1>3, <1>4

(* The steps that end a reload build a new epoll set. *)
LEMMA RebuildKeeps ==
    ASSUME ListenerInv, epoll' = EpollSet(ports, sock, child), pc' = "wait",
           UNCHANGED <<conf, ports, sock, child>>
    PROVE  ListenerInv'
<1> USE DEF ListenerInv
<1>1. ListenersCurrent'
  BY DEF ListenersCurrent
<1>2. EpollExact'
  BY EpollSetExact DEF EpollExact
<1>3. Shape'
  BY DEF Shape, EpollSet
<1> QED
  BY <1>1, <1>2, <1>3

(* Steps of the children, and edits of keys.tdb, do not touch listeners. *)
LEMMA OthersKeep ==
    ASSUME ListenerInv, UNCHANGED <<pc, ports, sock, epoll>>,
           conf' \in [Entries -> Config \cup {None}],
           DOMAIN child' = Entries,
           \A e \in Entries : child'[e] = "none" <=> child[e] = "none"
    PROVE  ListenerInv'
<1> USE DEF ListenerInv
<1>1. Shape'
  BY DEF Shape
<1>2. ListenersCurrent'
  BY DEF ListenersCurrent
<1> QED
  BY <1>1, <1>2 DEF EpollExact

(* ListenerInv is inductive: one case for each action of Next. *)
THEOREM ListenerInvariant == Spec => []ListenerInv
<1>1. ListenerInv /\ [Next]_vars => ListenerInv'
  <2> SUFFICES ASSUME ListenerInv, [Next]_vars PROVE ListenerInv'
    OBVIOUS
  <2> USE DEF ListenerInv
  <2>1. CASE \E e \in Entries, c \in Config \cup {None} : Edit(e, c)
    BY <2>1, OthersKeep DEF Edit, Shape, sockVars, childVars
  <2>2. CASE \E e \in Entries, k \in Socks : handle_connection(e, k)
    BY <2>2, ForkKeeps
  <2>3. CASE \E e \in Entries, k \in Socks : handle_connection_failed(e, k)
    BY <2>3, OthersKeep
       DEF handle_connection_failed, PidKept, Shape, sockVars
  <2>4. CASE \E opened \in SUBSET Reopenable, forked \in BOOLEAN :
                Housekeep(opened, forked) \/ HousekeepReload(opened, forked)
    BY <2>4, HousekeepKeeps
  <2>5. CASE \E opened \in Sockets : Reload(opened)
    BY <2>5, ReloadKeeps
  <2>6. CASE ReloadSkipped
    BY <2>6, RebuildKeeps DEF ReloadSkipped, childVars
  <2>7. CASE \E unforked \in SUBSET Entries : Reconcile(unforked)
    BY <2>7, RebuildKeeps DEF Reconcile, childVars
  <2>8. CASE \E e \in Entries : SessionExits(e)
    BY <2>8, OthersKeep DEF SessionExits, Shape, sockVars
  <2>9. CASE \E e \in Entries : VideoExits(e) \/ BackoffOver(e)
    BY <2>9, OthersKeep
       DEF VideoExits, BackoffOver, Shape, sockVars, childVars
  <2>10. CASE CleanupExits
    BY <2>10, OthersKeep DEF CleanupExits, Shape, sockVars, childVars
  <2>11. CASE UNCHANGED vars
    BY <2>11, OthersKeep DEF vars, Shape, sockVars, childVars
  <2> QED
    BY <2>1, <2>2, <2>3, <2>4, <2>5, <2>6, <2>7, <2>8, <2>9, <2>10, <2>11
       DEF Next, ParentNext, ChildNext
<1> QED
  BY InitListeners, <1>1, PTL DEF Spec

(* While the parent waits, the epoll set holds exactly its open listeners. *)
THEOREM EpollExactHolds == Spec => []EpollExact
<1>1. ListenerInv => EpollExact
  BY DEF ListenerInv
<1> QED
  BY <1>1, ListenerInvariant, PTL

(* Every listener is bound to the port of an entry that is there and idle. *)
THEOREM ListenersCurrentHolds == Spec => []ListenersCurrent
<1>1. ListenerInv => ListenersCurrent
  BY DEF ListenerInv
<1> QED
  BY <1>1, ListenerInvariant, PTL

-----------------------------------------------------------------------------
(* Opening sockets of entries that the parent knows leaves sockets. *)
LEMMA OpenedType ==
    ASSUME NEW p, NEW socks \in [Entries -> [Socks -> Ports \cup Entries \cup {None}]],
           NEW opened,
           \A e \in Entries, k \in Socks : <<e, k>> \in opened => p[e] \in ListenPort
    PROVE  Opened(p, socks, opened)
               \in [Entries -> [Socks -> Ports \cup Entries \cup {None}]]
  BY DEF Opened, PortOf, ListenPort

(* What a signal makes of a process is a process. *)
LEMMA KilledType ==
    ASSUME NEW state \in Process
    PROVE  Killed(state) \in Process
  BY DEF Killed, Process

(* The types hold when main() gets to wait_connection, *)
LEMMA InitTypes == Init => TypeOK
  <1> SUFFICES ASSUME Init PROVE TypeOK
    OBVIOUS
  <1>1. Shape
    BY InitListeners DEF ListenerInv
  <1>2. PICK opened \in SUBSET Openable(ports, Unlistened, child) :
            sock = Opened(ports, Unlistened, opened)
    BY DEF Init
  <1>3. \A e \in Entries, k \in Socks : <<e, k>> \in opened => ports[e] \in ListenPort
    BY <1>1, <1>2 DEF Openable, Shape
  <1>4. sock \in [Entries -> [Socks -> Ports \cup Entries \cup {None}]]
    BY <1>2, <1>3, OpenedType DEF Unlistened, NoSocks
  <1>5. vcfg \in [Entries -> Videos] /\ vchild \in [Entries -> Process]
    BY ParentAssumption DEF Init, Process
  <1>6. edits \in 0 .. MaxEdits
    BY ParentAssumption DEF Init
  <1>7. child \in [Entries -> Process] /\ childPort \in [Entries -> Ports \cup {None}]
    BY DEF Init, Process
  <1>8. backoff = {} /\ misread = {} /\ cleanup \in {"run", "none"}
    BY DEF Init
  <1> QED
    BY <1>1, <1>4, <1>5, <1>6, <1>7, <1>8 DEF TypeOK, Shape

(* and every step keeps them, given the invariant of the listeners. *)
LEMMA NextTypes ==
    TypeOK /\ ListenerInv /\ [Next]_vars => TypeOK'
  <1> SUFFICES ASSUME TypeOK, ListenerInv, [Next]_vars PROVE TypeOK'
    OBVIOUS
  <1>0. /\ Shape /\ ListenersCurrent
        /\ conf \in [Entries -> Config \cup {None}] /\ edits \in 0 .. MaxEdits
        /\ ports \in [Entries -> ListenPort \cup {None}]
        /\ sock \in [Entries -> [Socks -> Ports \cup Entries \cup {None}]]
        /\ child \in [Entries -> Process] /\ childPort \in [Entries -> Ports \cup {None}]
        /\ vchild \in [Entries -> Process] /\ vcfg \in [Entries -> Videos]
        /\ NoSocks \in [Socks -> Ports \cup Entries \cup {None}]
    BY DEF TypeOK, ListenerInv, NoSocks
  <1>1. ASSUME NEW e \in Entries, NEW c \in Config \cup {None}, Edit(e, c)
        PROVE  TypeOK'
    <2>1. edits' \in 0 .. MaxEdits
      BY <1>0, <1>1, ParentAssumption DEF Edit
    <2> QED
      BY <1>0, <1>1, <2>1 DEF Edit, TypeOK, sockVars, childVars, videoVars
  <1>2. ASSUME NEW e \in Entries, NEW k \in Socks,
               handle_connection(e, k) \/ handle_connection_failed(e, k)
        PROVE  TypeOK'
    <2>1. ports[e] \in ListenPort
      BY <1>0, <1>2
      DEF handle_connection, handle_connection_failed, MayFork, ListenersCurrent
    <2>2. ports[e].port1 \in Ports
      BY <2>1 DEF ListenPort
    <2>3. CASE handle_connection(e, k)
      BY <1>0, <2>2, <2>3
      DEF handle_connection, TypeOK, Deregistered, Process, videoVars
    <2>4. CASE handle_connection_failed(e, k)
      BY <1>0, <2>4
      DEF handle_connection_failed, PidKept, TypeOK, sockVars, videoVars
    <2> QED
      BY <1>2, <2>3, <2>4
  <1>3. ASSUME NEW opened \in SUBSET Reopenable, NEW forked \in BOOLEAN,
               Housekeep(opened, forked) \/ HousekeepReload(opened, forked)
        PROVE  TypeOK'
    <2>1. check_children(opened, forked) /\ pc' \in {"wait", "reload", "reconcile"}
      BY <1>0, <1>3 DEF Housekeep, HousekeepReload, Shape
    <2>2. \A e \in Entries, k \in Socks : <<e, k>> \in opened => ports[e] \in ListenPort
      BY <1>0 DEF Reopenable, Reopens, ReapedSession, Shape
    <2>3. sock' \in [Entries -> [Socks -> Ports \cup Entries \cup {None}]]
      BY <1>0, <2>1, <2>2, OpenedType DEF check_children
    <2>4. /\ child' \in [Entries -> Process] /\ vchild' \in [Entries -> Process]
          /\ childPort' \in [Entries -> Ports \cup {None}]
      BY <1>0, <2>1 DEF check_children, Reaped, Process
    <2>5. backoff' \subseteq Entries /\ cleanup' \in {"none", "run", "exited"}
      BY <2>1 DEF check_children, ReapedVideo, TypeOK
    <2> QED
      BY <2>1, <2>3, <2>4, <2>5 DEF check_children, TypeOK
  <1>4. ASSUME NEW opened \in Sockets, Reload(opened) PROVE TypeOK'
    <2>1. ports' \in [Entries -> ListenPort \cup {None}]
      BY <1>0, <1>4, ReconciledType DEF Reload
    <2>2. Left \in [Entries -> [Socks -> Ports \cup Entries \cup {None}]]
      BY <1>0 DEF Left
    <2>3. \A e \in Entries, k \in Socks : <<e, k>> \in opened => ports'[e] \in ListenPort
      BY <1>4, <2>1 DEF Reload, Openable
    <2>4. sock' \in [Entries -> [Socks -> Ports \cup Entries \cup {None}]]
      BY <1>4, <2>2, <2>3, OpenedType DEF Reload
    <2>5. child' \in [Entries -> Process] /\ vchild' \in [Entries -> Process]
      BY <1>0, <1>4, KilledType DEF Reload
    <2> QED
      BY <1>4, <2>1, <2>4, <2>5 DEF Reload, TypeOK
  <1>5. CASE ReloadSkipped
    BY <1>5 DEF ReloadSkipped, TypeOK, EpollSet, childVars, videoVars
  <1>6. ASSUME NEW unforked \in SUBSET Entries, Reconcile(unforked) PROVE TypeOK'
    <2>1. vchild' \in [Entries -> Process]
      BY <1>0, <1>6, KilledType DEF Reconcile, Process
    <2>2. vcfg' \in [Entries -> Videos]
      BY <1>0, <1>6 DEF Reconcile, Config
    <2> QED
      BY <1>6, <2>1, <2>2 DEF Reconcile, TypeOK, EpollSet, childVars
  <1>7. ASSUME NEW e \in Entries, SessionExits(e) \/ VideoExits(e) \/ BackoffOver(e)
        PROVE  TypeOK'
    BY <1>0, <1>7
    DEF SessionExits, VideoExits, BackoffOver, TypeOK, Process, sockVars, childVars,
        videoVars
  <1>8. CASE CleanupExits
    BY <1>8 DEF CleanupExits, TypeOK, sockVars, childVars, videoVars
  <1>9. CASE UNCHANGED vars
    BY <1>9 DEF vars, TypeOK, sockVars, childVars, videoVars
  <1> QED
    BY <1>1, <1>2, <1>3, <1>4, <1>5, <1>6, <1>7, <1>8, <1>9
    DEF Next, ParentNext, ChildNext

(* The types of the parent's state.  They rest on ListenersCurrent: a       *)
(* session child is forked only for an entry the parent knows.              *)
THEOREM ParentTypes == Spec => []TypeOK
  BY InitTypes, NextTypes, ListenerInvariant, PTL DEF Spec
===============================================================================
