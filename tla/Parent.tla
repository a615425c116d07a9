-------------------------------- MODULE Parent --------------------------------
(***************************************************************************)
(* The parent process of supportproxy.cpp: it keeps listening sockets for  *)
(* every entry of keys.tdb, forks a session child for an entry when        *)
(* something arrives on one of them, keeps a video child running for every *)
(* entry that wants one, keeps the log cleanup child, and follows the      *)
(* edits that the web admin and keydb.py make to keys.tdb.                 *)
(*                                                                         *)
(* One iteration of wait_connection is epoll_wait and the events it        *)
(* reports ("wait"), check_children, and on the reload cadence or after a  *)
(* session child was reaped the two halves of reload_ports ("reload" and   *)
(* "reconcile"), after which the epoll set is built anew.                  *)
(***************************************************************************)
EXTENDS Integers, FiniteSets

CONSTANTS
    Entries,    \* the entries, by port2
    Ports,      \* values of port1
    Videos,     \* video settings that need a rebind: flags and ports
    NoVideo,    \* the setting with which no video child is wanted
    UserSocks,  \* the listening sockets on port1: sock1_udp, sock1_tcp
    EngSocks,   \* those on port2: sock2_udp, sock2_listen
    TcpSocks,   \* the ones of these that are TCP
    MaxEdits,   \* bounds the edits of keys.tdb
    None

Socks == UserSocks \cup EngSocks

(* an entry as keys.tdb and as the parent has it *)
Config == [port1 : Ports, video : Videos]
ListenPort == [port1 : Ports, video : Videos, removed : BOOLEAN]

ASSUME ParentAssumption ==
    /\ None \notin Ports \cup Entries \cup Config \cup ListenPort
    /\ NoVideo \in Videos
    /\ UserSocks \cap EngSocks = {} /\ TcpSocks \subseteq Socks
    /\ MaxEdits \in Nat

VARIABLES
    conf,       \* keys.tdb: what each entry says, None for no entry
    edits,      \* how often it was edited
    pc,         \* where wait_connection is
    ports,      \* the parent's copy of each entry it has met
    sock,       \* the port each listening socket of the parent is bound to
    epoll,      \* the sockets registered with the epoll instance
    child,      \* the session child of each entry
    childPort,  \* the port1 the session child serves
    vchild,     \* the video child of each entry
    vcfg,       \* the setting the video child has bound
    backoff,    \* video_respawn_after lies in the future
    misread,    \* the video children that read other settings than the
                \* parent had when it forked them (observed)
    cleanup     \* the log cleanup child

sockVars == <<sock, epoll>>
childVars == <<child, childPort>>
videoVars == <<vchild, vcfg, backoff, misread>>
vars == <<conf, edits, pc, ports, sockVars, childVars, videoVars, cleanup>>

(* "dying": sent SIGTERM; "exited": gone, but not waited for yet *)
Process == {"none", "run", "dying", "exited"}

TypeOK ==
    /\ conf \in [Entries -> Config \cup {None}] /\ edits \in 0 .. MaxEdits
    /\ pc \in {"wait", "reload", "reconcile"}
    /\ ports \in [Entries -> ListenPort \cup {None}]
    /\ sock \in [Entries -> [Socks -> Ports \cup Entries \cup {None}]]
    /\ epoll \subseteq Entries \X Socks
    /\ child \in [Entries -> Process]
    /\ childPort \in [Entries -> Ports \cup {None}]
    /\ vchild \in [Entries -> Process] /\ vcfg \in [Entries -> Videos]
    /\ backoff \subseteq Entries /\ misread \subseteq Entries
    /\ cleanup \in {"none", "run", "exited"}

NoSocks == [k \in Socks |-> None]

Known(e) == ports[e] # None

(* p->pid != 0 and p->video_pid != 0 *)
Busy(e) == child[e] # "none"
HasVideo(e) == vchild[e] # "none"

Wants(video) == video # NoVideo

(* SIGTERM to a child: one that has already gone stays so *)
Killed(state) == IF state = "run" THEN "dying" ELSE state

-----------------------------------------------------------------------------
(* Sockets *)

PortOf(e, k, port1) == IF k \in UserSocks THEN port1 ELSE e

(* The sockets that open_sockets would open, entry by entry, when it has   *)
(* p for the entries, socks for their sockets and ch for their children.   *)
Openable(p, socks, ch) ==
    {r \in Entries \X Socks : /\ p[r[1]] # None /\ ~p[r[1]].removed
                              /\ ch[r[1]] = "none" /\ socks[r[1]][r[2]] = None}

Opened(p, socks, opened) ==
    [e \in Entries |-> [k \in Socks |->
        IF <<e, k>> \in opened THEN PortOf(e, k, p[e].port1)
        ELSE socks[e][k]]]

(* Two listening TCP sockets cannot have the same port; two UDP sockets    *)
(* can (SO_REUSEADDR).                                                     *)
Bindable(socks) ==
    \A e, f \in Entries, k \in TcpSocks :
        e # f /\ socks[e][k] = socks[f][k] => socks[e][k] = None

(* bind() failed only for sockets whose port a listener of another entry,  *)
(* or a session child, has.                                                *)
OnlyTakenFail(p, socks, ch, opened) ==
    \A r \in Openable(p, Opened(p, socks, opened), ch) :
        LET port == PortOf(r[1], r[2], p[r[1]].port1)
        IN  /\ r[2] \in TcpSocks
            /\ \E f \in Entries \ {r[1]} :
                  \/ Opened(p, socks, opened)[f][r[2]] = port
                  \/ childPort[f] = port

(* rebuild_epoll_set on a fresh epoll instance *)
EpollSet(p, socks, ch) ==
    {r \in Entries \X Socks : /\ p[r[1]] # None /\ ~p[r[1]].removed
                              /\ ch[r[1]] = "none" /\ socks[r[1]][r[2]] # None}

Unlistened == [e \in Entries |-> NoSocks]

-----------------------------------------------------------------------------
(* main() up to its reconcile_video_children, with the cleanup child that  *)
(* it forks next, if it can.  Ports that cannot be bound are left to the   *)
(* reloads; a cleanup child that cannot be forked is not.                  *)
Init ==
    /\ conf \in [Entries -> Config \cup {None}]
    /\ edits = 0 /\ pc = "reconcile"
    /\ ports = [e \in Entries |->
                   IF conf[e] = None THEN None
                   ELSE [port1 |-> conf[e].port1, video |-> conf[e].video,
                         removed |-> FALSE]]
    /\ child = [e \in Entries |-> "none"]
    /\ childPort = [e \in Entries |-> None]
    /\ \E opened \in SUBSET Openable(ports, Unlistened, child) :
          sock = Opened(ports, Unlistened, opened)
    /\ Bindable(sock) /\ epoll = {}
    /\ vchild = [e \in Entries |-> "none"] /\ vcfg = [e \in Entries |-> NoVideo]
    /\ backoff = {} /\ misread = {} /\ cleanup \in {"run", "none"}

(* Somebody edits one entry of keys.tdb. *)
Edit(e, c) ==
    /\ edits < MaxEdits /\ edits' = edits + 1
    /\ conf' = [conf EXCEPT ![e] = c] /\ conf' # conf
    /\ UNCHANGED <<pc, ports, sockVars, childVars, videoVars, cleanup>>

-----------------------------------------------------------------------------
(* handle_connection: the child takes over the sockets; the parent takes   *)
(* them out of the epoll set and closes its own copies.                    *)

(* Wrong on purpose: closing is taken to deregister. *)
DeregisteredNot(e) == epoll

Deregistered(e) == epoll \ ({e} \X Socks)

MayFork(e, k) ==
    /\ pc = "wait" /\ <<e, k>> \in epoll
    /\ sock[e][k] # None /\ ~Busy(e) /\ ~ports[e].removed

handle_connection(e, k) ==
    /\ MayFork(e, k)
    /\ child' = [child EXCEPT ![e] = "run"]
    /\ childPort' = [childPort EXCEPT ![e] = ports[e].port1]
    /\ epoll' = Deregistered(e)
    /\ sock' = [sock EXCEPT ![e] = NoSocks]
    /\ UNCHANGED <<conf, edits, pc, ports, videoVars, cleanup>>

(* Wrong on purpose: the -1 that fork returned is kept as the child. *)
PidMinusOne(e) == "failed"

(* p->pid of entry e after a fork that failed *)
PidKept(e) == child[e]

handle_connection_failed(e, k) ==
    /\ MayFork(e, k)
    /\ child' = [child EXCEPT ![e] = PidKept(e)]
    /\ UNCHANGED <<conf, edits, pc, ports, sockVars, childPort, videoVars,
                   cleanup>>

-----------------------------------------------------------------------------
(* check_children: every child that has exited is waited for.  The entry   *)
(* of a session child gets its listeners back, unless it was removed.      *)

ReapedSession == {e \in Entries : child[e] = "exited"}
ReapedVideo == {e \in Entries : vchild[e] = "exited"}

(* Wrong on purpose: an entry that was removed gets its listeners back. *)
ReopensRemoved(e) == e \in ReapedSession

Reopens(e) == e \in ReapedSession /\ ~ports[e].removed

Reaped == [e \in Entries |-> IF e \in ReapedSession THEN "none" ELSE child[e]]

Reopenable ==
    {r \in ReapedSession \X Socks : Reopens(r[1])}

check_children(opened, forked) ==
    /\ pc = "wait"
    /\ child' = Reaped
    /\ childPort' = [e \in Entries |->
                        IF e \in ReapedSession THEN None ELSE childPort[e]]
    /\ opened \subseteq Reopenable
    /\ sock' = Opened(ports, sock, opened) /\ Bindable(sock')
    /\ vchild' = [e \in Entries |->
                     IF e \in ReapedVideo THEN "none" ELSE vchild[e]]
    /\ backoff' = backoff \cup ReapedVideo
    /\ cleanup' = IF cleanup # "exited" THEN cleanup
                  ELSE IF forked THEN "run" ELSE "none"
    /\ UNCHANGED <<conf, edits, ports, epoll, vcfg, misread>>

(* nothing more to do in this iteration *)
Housekeep(opened, forked) ==
    /\ ReapedSession = {}
    /\ check_children(opened, forked)
    /\ UNCHANGED pc

(* a session child was reaped, or the reload is due *)
HousekeepReload(opened, forked) ==
    /\ check_children(opened, forked)
    /\ pc' = "reload"

-----------------------------------------------------------------------------
(* reload_ports, first half: keys.tdb is read in one transaction, every    *)
(* entry is reconciled (upsert_port), entries that have gone are torn      *)
(* down, and missing listeners are opened.                                 *)

Vanished(e) == Known(e) /\ conf[e] = None /\ ~ports[e].removed

(* upsert_port, port1 changed: not for an entry that comes back *)
Moved(e) == /\ Known(e) /\ conf[e] # None
            /\ ~ports[e].removed /\ ports[e].port1 # conf[e].port1

(* close_sockets of entry e *)
Closes(e) == Vanished(e) \/ Moved(e)

(* Wrong on purpose: the child of changed settings is left alone. *)
StopsVanished(e) == Vanished(e)

(* video_cfg_differs, and what removal does *)
StopsVideo(e) ==
    \/ Vanished(e)
    \/ Known(e) /\ conf[e] # None /\ ports[e].video # conf[e].video

Reconciled(e) ==
    IF conf[e] # None
    THEN [port1 |-> conf[e].port1, video |-> conf[e].video, removed |-> FALSE]
    ELSE IF Known(e) THEN [ports[e] EXCEPT !.removed = TRUE] ELSE None

(* Wrong on purpose: a session keeps its old port1. *)
TermsVanished(e) == Vanished(e)

(* SIGTERM to the session child of entry e *)
Terms(e) == Vanished(e) \/ Moved(e)

Left == [e \in Entries |-> IF Closes(e) THEN NoSocks ELSE sock[e]]

Reload(opened) ==
    /\ pc = "reload" /\ pc' = "reconcile"
    /\ ports' = [e \in Entries |-> Reconciled(e)]
    /\ child' = [e \in Entries |->
                    IF Terms(e) THEN Killed(child[e]) ELSE child[e]]
    /\ opened \subseteq Openable(ports', Left, child)
    /\ sock' = Opened(ports', Left, opened) /\ Bindable(sock')
    /\ vchild' = [e \in Entries |->
                     IF StopsVideo(e) THEN Killed(vchild[e]) ELSE vchild[e]]
    /\ UNCHANGED <<conf, edits, epoll, childPort, vcfg, backoff, misread,
                   cleanup>>

(* keys.tdb cannot be opened: the whole reload is skipped *)
ReloadSkipped ==
    /\ pc = "reload" /\ pc' = "wait"
    /\ epoll' = EpollSet(ports, sock, child)
    /\ UNCHANGED <<conf, edits, ports, sock, childVars, videoVars, cleanup>>

(* reconcile_video_children, and the new epoll set.  A video child reads   *)
(* its settings from keys.tdb itself; without an entry it exits.           *)
VideoWanted(e) == Known(e) /\ ~ports[e].removed /\ Wants(ports[e].video)

ForksVideo(e) == VideoWanted(e) /\ ~HasVideo(e) /\ e \notin backoff

Reconcile(unforked) ==
    /\ pc = "reconcile" /\ pc' = "wait"
    /\ LET new == {e \in Entries : ForksVideo(e)} \ unforked
       IN  /\ vchild' = [e \in Entries |->
                  IF e \in new THEN IF conf[e] = None THEN "exited" ELSE "run"
                  ELSE IF ~VideoWanted(e) THEN Killed(vchild[e])
                  ELSE vchild[e]]
           /\ vcfg' = [e \in Entries |->
                  IF e \in new /\ conf[e] # None THEN conf[e].video
                  ELSE vcfg[e]]
           /\ misread' = (misread \ new) \cup
                  {e \in new : conf[e] # None /\ conf[e].video # ports[e].video}
    /\ epoll' = EpollSet(ports, sock, child)
    /\ UNCHANGED <<conf, edits, ports, sock, childVars, backoff, cleanup>>

-----------------------------------------------------------------------------
(* The children *)

(* A session ends by itself, or by SIGTERM. *)
SessionExits(e) ==
    /\ child[e] \in {"run", "dying"}
    /\ child' = [child EXCEPT ![e] = "exited"]
    /\ UNCHANGED <<conf, edits, pc, ports, sockVars, childPort, videoVars,
                   cleanup>>

VideoExits(e) ==
    /\ vchild[e] \in {"run", "dying"}
    /\ vchild' = [vchild EXCEPT ![e] = "exited"]
    /\ UNCHANGED <<conf, edits, pc, ports, sockVars, childVars, vcfg, backoff,
                   misread, cleanup>>

BackoffOver(e) ==
    /\ e \in backoff /\ backoff' = backoff \ {e}
    /\ UNCHANGED <<conf, edits, pc, ports, sockVars, childVars, vchild, vcfg,
                   misread, cleanup>>

CleanupExits ==
    /\ cleanup = "run" /\ cleanup' = "exited"
    /\ UNCHANGED <<conf, edits, pc, ports, sockVars, childVars, videoVars>>

-----------------------------------------------------------------------------
Sockets == SUBSET (Entries \X Socks)

ParentNext ==
    \/ \E e \in Entries, k \in Socks :
          handle_connection(e, k) \/ handle_connection_failed(e, k)
    \/ \E opened \in SUBSET Reopenable, forked \in BOOLEAN :
          Housekeep(opened, forked) \/ HousekeepReload(opened, forked)
    \/ \E opened \in Sockets : Reload(opened)
    \/ ReloadSkipped
    \/ \E unforked \in SUBSET Entries : Reconcile(unforked)

ChildNext ==
    \/ \E e \in Entries : SessionExits(e) \/ VideoExits(e) \/ BackoffOver(e)
    \/ CleanupExits

Next == \/ \E e \in Entries, c \in Config \cup {None} : Edit(e, c)
        \/ ParentNext \/ ChildNext

Spec == Init /\ [][Next]_vars

(* wait_connection never blocks for more than 1 s, so the reload comes     *)
(* round, and keys.tdb, bind() and fork() do not fail for ever; a child    *)
(* that was sent SIGTERM goes.                                             *)
Fairness ==
    /\ SF_vars(\E opened \in SUBSET Reopenable :
                  HousekeepReload(opened, TRUE))
    /\ SF_vars(\E opened \in Sockets :
                  /\ Reload(opened)
                  /\ OnlyTakenFail(ports', Left, child, opened))
    /\ SF_vars(Reconcile({}))
    /\ WF_vars(pc # "wait" /\ ParentNext)
    /\ \A e \in Entries :
          /\ WF_vars(child[e] = "dying" /\ SessionExits(e))
          /\ WF_vars(vchild[e] = "dying" /\ VideoExits(e))
          /\ WF_vars(BackoffOver(e))

FairSpec == Spec /\ Fairness

-----------------------------------------------------------------------------
(* Properties *)

(* While the parent waits, exactly the listeners it has open are in the    *)
(* epoll set: none is deaf, and no session child's traffic wakes the       *)
(* parent through a registration that survived close()                     *)
(* (tests/test_parent_housekeeping.py, handle_connection).                 *)
EpollExact ==
    pc = "wait" => epoll = {r \in Entries \X Socks : sock[r[1]][r[2]] # None}

(* A listener is bound to the port its entry has now, and an entry that is *)
(* removed or has a session child has none.                                *)
ListenersCurrent ==
    \A e \in Entries, k \in Socks :
        sock[e][k] # None =>
            /\ Known(e) /\ ~ports[e].removed /\ ~Busy(e)
            /\ sock[e][k] = PortOf(e, k, ports[e].port1)

(* entry e is served as keys.tdb says: by a session or by listeners *)
Served(e) ==
    IF conf[e] = None THEN child[e] = "none" /\ sock[e] = NoSocks
    ELSE \/ child[e] = "run" /\ childPort[e] = conf[e].port1
         \/ /\ \A k \in Socks : sock[e][k] = PortOf(e, k, conf[e].port1)
            /\ {e} \X Socks \subseteq epoll

Distinct == \A e, f \in Entries :
    conf[e] # None /\ conf[f] # None /\ conf[e].port1 = conf[f].port1 => e = f

(* Whatever was edited, and whatever failed meanwhile, every entry comes   *)
(* to be served as keys.tdb says, as soon as no two entries ask for the    *)
(* same port1 any more (upsert_port, check_children, reload_ports).        *)
ServedAgain == <>[]Distinct => \A e \in Entries : []<>Served(e)

(* the video child of entry e is the one keys.tdb asks for *)
VideoCurrent(e) ==
    IF conf[e] = None \/ ~Wants(conf[e].video) THEN vchild[e] = "none"
    ELSE vchild[e] = "run" /\ vcfg[e] = conf[e].video

(* The child of entry e read keys.tdb while it held settings that the      *)
(* parent never saw, and that were taken back before the next reload.      *)
TakenBack(e) ==
    /\ e \in misread /\ vchild[e] = "run"
    /\ conf[e] # None /\ conf[e].video = ports[e].video

(* A change of the video settings re-forks the video child, so that it     *)
(* comes to run with the settings of keys.tdb, whenever they change and    *)
(* whatever fails meanwhile (video_cfg_differs, reconcile_video_children); *)
(* the one change that goes unnoticed is one between the halves of a       *)
(* reload that the child reads and that is then taken back.                *)
VideoFollows == \A e \in Entries : []<>(VideoCurrent(e) \/ TakenBack(e))

(* The same without the exception, as the comments on video_cfg_differs    *)
(* and upsert_port have it.  It does not hold once settings can change     *)
(* twice.                                                                  *)
ChangeReforks == \A e \in Entries : []<>VideoCurrent(e)

===============================================================================
