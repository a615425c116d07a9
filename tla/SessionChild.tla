----------------------------- MODULE SessionChild -----------------------------
(***************************************************************************)
(* The session child of one port pair: main_loop of supportproxy.cpp.      *)
(* One user connection (conn1, UDP or TCP/WebSocket) and a table of        *)
(* engineer connections (conn2) share one select loop.                     *)
(*                                                                         *)
(* One iteration of the loop visits its sections in the order of the       *)
(* code: the checks at the top, then one section per ready socket, then    *)
(* the tail (binlog tick and drop rescan).  pc is the next section that    *)
(* may still run in this iteration; 0 is the top of the loop, and a        *)
(* "continue" of the code goes back to 0.                                  *)
(*                                                                         *)
(* Time is kept as the answer to the comparisons the loop makes: pre says  *)
(* that the pre-auth deadline of a connection has passed, idle that its    *)
(* last packet is more than 10 s old.  Elapse makes them true.             *)
(***************************************************************************)
EXTENDS Integers, FiniteSets

CONSTANTS
    MAX_COMM2_LINKS,    \* size of conn2
    Peers,              \* source addresses of UDP engineers
    NoPeer,
    Entries,            \* the keys.tdb entries (flags) to consider
    Packets,            \* what may arrive on a link, see PacketKinds
    Streams             \* what TCP peers may speak: "raw" and/or "ws"

PacketKinds ==
    {"good",     \* signed with the key of the entry
     "bad",      \* unsigned, or badly signed and reported
     "quiet",    \* badly signed and silently dropped, or no key loaded
     "setup",    \* good SETUP_SIGNING that installs a new key
     "refused"}  \* good SETUP_SIGNING that is not carried out

ASSUME SizeAssumption == MAX_COMM2_LINKS \in Nat \ {0}
ASSUME InputAssumption ==
    /\ Entries \subseteq [bidi : BOOLEAN, binlog : BOOLEAN, tap : BOOLEAN]
    /\ Packets \subseteq PacketKinds
    /\ Streams \subseteq {"raw", "ws"}

Slots == 0 .. MAX_COMM2_LINKS - 1

ASSUME PeerAssumption == NoPeer \notin Peers \cup Slots /\ Peers \cap Slots = {}

VARIABLES
    p,                  \* flags of the entry; tap: tlog or video enabled
    pc,                 \* next section of the loop
    why,                \* why main_loop was left, "" while it runs
    sock1_udp,          \* user-side UDP socket is open
    sock1_tcp,          \* user-side TCP socket: "listen", "conn" or "closed"
    conn1,              \* the user connection, see User
    conn2,              \* the engineer slots, see Connection2
    conn2_count,        \* number of used slots
    max_conn2_count     \* scan watermark

tableVars == <<conn2, conn2_count, max_conn2_count>>
vars == <<p, pc, why, sock1_udp, sock1_tcp, conn1, tableVars>>

(* What main_loop knows of one engineer, and three things only the model   *)
(* knows: the protocol the peer speaks, whether it has sent a correctly    *)
(* signed packet since it connected, and whether a plain MAVLink frame was *)
(* written to it although it speaks WebSocket.                             *)
Connection2 ==
    [used : BOOLEAN, is_udp : BOOLEAN, from : Peers \cup {NoPeer},
     tcp_active : BOOLEAN, ws : BOOLEAN, signed : BOOLEAN,
     pre : BOOLEAN, idle : BOOLEAN,
     speaks : {"raw", "ws"}, earned : BOOLEAN, spoiled : BOOLEAN]

(* The same for the user side; active stands for count1 > 0. *)
User ==
    [have : BOOLEAN, is_tcp : BOOLEAN, active : BOOLEAN, ws : BOOLEAN,
     signed : BOOLEAN, pre : BOOLEAN, idle : BOOLEAN,
     speaks : {"raw", "ws"}, earned : BOOLEAN, spoiled : BOOLEAN]

ExitReasons ==
    {"", "idle", "timeout", "preauth", "drop", "error", "eof", "send"}

(* pc of the sections *)
UDP_USER == 1
UDP_ENGINEER == 2
TCP_USER_ACCEPT == 3
TCP_USER == 4
TCP_ENGINEER_ACCEPT == 5
TCP_ENGINEER(i) == 6 + i
TAIL == 6 + MAX_COMM2_LINKS

Used == {i \in Slots : conn2[i].used}

(* the slots the loops over i < max_conn2_count visit *)
Scanned == {i \in Used : i < max_conn2_count}

TypeOK ==
    /\ p \in Entries
    /\ pc \in 0 .. TAIL
    /\ why \in ExitReasons
    /\ sock1_udp \in BOOLEAN
    /\ sock1_tcp \in {"listen", "conn", "closed"}
    /\ conn1 \in User
    /\ conn2 \in [Slots -> Connection2]
    /\ conn2_count \in 0 .. MAX_COMM2_LINKS
    /\ max_conn2_count \in 0 .. MAX_COMM2_LINKS

FreeSlot ==
    [used |-> FALSE, is_udp |-> FALSE, from |-> NoPeer,
     tcp_active |-> FALSE, ws |-> FALSE, signed |-> FALSE,
     pre |-> FALSE, idle |-> FALSE,
     speaks |-> "raw", earned |-> FALSE, spoiled |-> FALSE]

NoUser ==
    [have |-> FALSE, is_tcp |-> FALSE, active |-> FALSE, ws |-> FALSE,
     signed |-> FALSE, pre |-> FALSE, idle |-> FALSE,
     speaks |-> "raw", earned |-> FALSE, spoiled |-> FALSE]

(* handle_connection() forks with the sockets the parent could open. *)
Init ==
    /\ p \in Entries
    /\ pc = 0
    /\ why = ""
    /\ sock1_udp \in BOOLEAN
    /\ sock1_tcp \in {"listen", "closed"}
    /\ conn1 = NoUser
    /\ conn2 = [i \in Slots |-> FreeSlot]
    /\ conn2_count = 0
    /\ max_conn2_count = 0

-----------------------------------------------------------------------------
(* Control of the loop *)

At(section) == why = "" /\ 1 <= pc /\ pc <= section

Goto(section) == pc' = section /\ UNCHANGED why

Continue == Goto(0)

(* break out of the loop: the process ends with what it holds *)
Break(reason) ==
    /\ why' = reason
    /\ UNCHANGED <<p, pc, sock1_udp, sock1_tcp, conn1, tableVars>>

-----------------------------------------------------------------------------
(* MAVLink::receive_message and MAVLink::send_message (mavlink.cpp).       *)
(* keyed is key_id # -1.                                                   *)

Accepted(keyed, m) == keyed => m = "good"

SignedAfter(keyed, signed, m) ==
    CASE ~keyed \/ m = "quiet"         -> signed
      [] keyed /\ m \in {"good", "refused"} -> TRUE
      [] keyed /\ m \in {"bad", "setup"}    -> FALSE

Heard(c, m) ==
    [c EXCEPT !.earned = @ \/ m \in {"good", "setup", "refused"}]

Received(c, keyed, m) ==
    [Heard(c, m) EXCEPT !.signed = SignedAfter(keyed, @, m)]

(* one frame put on the socket: through the WebSocket if there is one,     *)
(* plain otherwise                                                         *)
Wrote(c) == [c EXCEPT !.spoiled = @ \/ (c.speaks = "ws" /\ ~c.ws)]

-----------------------------------------------------------------------------
(* The slot table *)

(* Connection2::close(); the MAVLink state of the slot stays as it is.     *)
(* Fields that are written again before they are read are cleared.         *)
Closed(c) == [FreeSlot EXCEPT !.signed = c.signed]

(* the watermark w that the while loop of close_conn2 stops at *)
Watermark(w, used) ==
    /\ w \in 0 .. max_conn2_count
    /\ w = 0 \/ w - 1 \in used
    /\ \A i \in w .. max_conn2_count - 1 : i \notin used

(* Wrong on purpose: the counters as an earlier close_conn2 kept them, the *)
(* watermark following the count when the two happened to be equal.        *)
CountClosedByMatch(gone) ==
    /\ conn2_count' = IF Cardinality(gone) <= conn2_count
                      THEN conn2_count - Cardinality(gone) ELSE 0
    /\ max_conn2_count' = IF conn2_count = max_conn2_count
                          THEN conn2_count' ELSE max_conn2_count

(* Wrong on purpose: slots are closed without being counted. *)
CountClosedLeak(gone) ==
    /\ UNCHANGED conn2_count
    /\ \E w \in 0 .. max_conn2_count :
          Watermark(w, Used \ gone) /\ max_conn2_count' = w

(* close_conn2 for every slot of gone: what becomes of the two counters *)
CountClosed(gone) ==
    /\ conn2_count' = IF Cardinality(gone) <= conn2_count
                      THEN conn2_count - Cardinality(gone) ELSE 0
    /\ \E w \in 0 .. max_conn2_count :
          Watermark(w, Used \ gone) /\ max_conn2_count' = w

(* close_conn2 for every slot of gone, a set of used slots *)
CloseAll(gone) ==
    /\ conn2' = [i \in Slots |-> IF i \in gone THEN Closed(conn2[i])
                                 ELSE conn2[i]]
    /\ IF gone = {} THEN UNCHANGED <<conn2_count, max_conn2_count>>
                    ELSE CountClosed(gone)

(* the first slot that is not in use *)
FirstFree(i) == i \notin Used /\ \A j \in 0 .. i - 1 : j \in Used

(* Wrong on purpose: a slot keeps the state of its previous holder. *)
InitMavKept(c) == c

(* MAVLink::init on the channel of a slot: nothing is authenticated yet *)
InitMav(c) == [c EXCEPT !.signed = FALSE]

(* A connection c takes slot i. *)
Take(i, c) ==
    /\ conn2' = [conn2 EXCEPT ![i] = c]
    /\ conn2_count' = conn2_count + 1
    /\ max_conn2_count' = IF max_conn2_count < conn2_count + 1
                          THEN conn2_count + 1 ELSE max_conn2_count

(* A message of the user goes to the engineers.  send_message fails for    *)
(* the slots of dead, and puts a frame on the sockets of reached: before   *)
(* an engineer has authenticated it gets HEARTBEATs only, and a congested  *)
(* socket gets nothing.                                                    *)
Receivers(heartbeat) == {i \in Scanned : heartbeat \/ conn2[i].signed}

ToEngineers(heartbeat, dead, reached) ==
    /\ dead \subseteq Scanned
    /\ reached \subseteq Receivers(heartbeat) \ dead
    /\ conn2' = [i \in Slots |->
                    IF i \in dead THEN Closed(conn2[i])
                    ELSE IF i \in reached THEN Wrote(conn2[i])
                    ELSE conn2[i]]
    /\ IF dead = {} THEN UNCHANGED <<conn2_count, max_conn2_count>>
                    ELSE CountClosed(dead)

-----------------------------------------------------------------------------
(* Top of the loop *)

(* process_drops: the slots asked for are closed; index 0 is the user *)
DropTargets(drops) == {i \in Used : i + 1 \in drops}

(* Wrong on purpose: the pre-auth deadline counted from the last packet. *)
ExpiredByLastPacket(c) == (c.idle /\ ~c.signed) \/ (c.is_udp /\ c.idle)

(* slots past their pre-auth deadline and idle UDP slots *)
Expired(c) == (c.pre /\ ~c.signed) \/ (c.is_udp /\ c.idle)

UserExpired ==
    p.bidi /\ conn1.have /\ ~conn1.signed /\ conn1.is_tcp /\ conn1.pre

(* An iteration begins: requested drops (none when g_drops_pending is not  *)
(* set), the idle check, select() with something to read, and the sweep    *)
(* over the slots.                                                         *)
LoopTop(drops) ==
    /\ why = "" /\ pc = 0
    /\ 0 \notin drops
    /\ ~(conn1.have /\ conn1.idle)
    /\ ~UserExpired
    /\ CloseAll(DropTargets(drops) \cup {i \in Scanned : Expired(conn2[i])})
    /\ Goto(1)
    /\ UNCHANGED <<p, sock1_udp, sock1_tcp, conn1>>

(* The ways out of the loop at its top: the user was dropped, has been     *)
(* silent, or missed its pre-auth deadline; or select() timed out.         *)
LeaveTop ==
    /\ why = "" /\ pc = 0
    /\ \/ Break("drop")
       \/ conn1.have /\ conn1.idle /\ Break("idle")
       \/ ~(conn1.have /\ conn1.idle) /\ Break("timeout")
       \/ ~(conn1.have /\ conn1.idle) /\ UserExpired /\ Break("preauth")

-----------------------------------------------------------------------------
(* The user side *)

(* User-side bytes are parsed when there is somewhere for them to go. *)
SomewhereToGo == conn2_count > 0 \/ p.binlog \/ p.tap

(* The bytes of m on connection c: m is accepted or not, and forwarded (or *)
(* consumed by binlog: reached is empty then).                             *)
ParseUser(c, m, heartbeat, dead, reached) ==
    IF SomewhereToGo
    THEN /\ conn1' = Received(c, p.bidi, m)
         /\ IF Accepted(p.bidi, m)
            THEN ToEngineers(heartbeat, dead, reached)
            ELSE dead = {} /\ reached = {} /\ UNCHANGED tableVars
    ELSE /\ conn1' = Heard(c, m)
         /\ dead = {} /\ reached = {} /\ UNCHANGED tableVars

UdpUserReady == At(UDP_USER) /\ sock1_udp

UdpUserError == UdpUserReady /\ Break("error")

(* bidi: a datagram that does not validate is dropped, but the TCP         *)
(* listener has been closed by then *)
UdpUserReject(m) ==
    /\ UdpUserReady
    /\ ~conn1.have /\ p.bidi /\ ~Accepted(TRUE, m)
    /\ sock1_tcp' = "closed"
    /\ conn1' = [Received(conn1, TRUE, m) EXCEPT !.active = TRUE]
    /\ Continue
    /\ UNCHANGED <<p, sock1_udp, tableVars>>

(* bidi: a datagram that validates latches its sender; its bytes are used  *)
(* up by the validation *)
UdpUserValidate(m) ==
    /\ UdpUserReady
    /\ ~conn1.have /\ p.bidi /\ Accepted(TRUE, m)
    /\ sock1_tcp' = "closed"
    /\ conn1' = [Received(conn1, TRUE, m) EXCEPT
                    !.have = TRUE, !.active = TRUE,
                    !.pre = FALSE, !.idle = FALSE]
    /\ Goto(UDP_ENGINEER)
    /\ UNCHANGED <<p, sock1_udp, tableVars>>

(* A datagram from the latched sender, or the first one without bidi. *)
UdpUserData(m, heartbeat, dead, reached) ==
    /\ UdpUserReady
    /\ conn1.have \/ ~p.bidi
    /\ sock1_tcp' = "closed"
    /\ \A i \in dead : ~conn2[i].is_udp
    /\ ParseUser([conn1 EXCEPT !.have = TRUE, !.active = TRUE,
                               !.pre = @ /\ conn1.have, !.idle = FALSE],
                 m, heartbeat, dead, reached)
    /\ Goto(UDP_ENGINEER)
    /\ UNCHANGED <<p, sock1_udp>>

TcpUserAcceptReady ==
    At(TCP_USER_ACCEPT) /\ ~conn1.have /\ sock1_tcp = "listen"

TcpUserAcceptError == TcpUserAcceptReady /\ Break("error")

(* Wrong on purpose: the UDP socket stays open. *)
TcpUserAcceptBoth(speaks) ==
    /\ TcpUserAcceptReady
    /\ sock1_tcp' = "conn"
    /\ conn1' = [NoUser EXCEPT !.have = TRUE, !.is_tcp = TRUE,
                               !.active = conn1.active,
                               !.speaks = speaks]
    /\ Continue
    /\ UNCHANGED <<p, sock1_udp, tableVars>>

(* A user connects over TCP; the listener makes way for the connection. *)
TcpUserAccept(speaks) ==
    /\ TcpUserAcceptReady
    /\ sock1_udp' = FALSE
    /\ sock1_tcp' = "conn"
    /\ conn1' = [NoUser EXCEPT !.have = TRUE, !.is_tcp = TRUE,
                               !.active = conn1.active,
                               !.speaks = speaks]
    /\ Continue
    /\ UNCHANGED <<p, tableVars>>

TcpUserReady == At(TCP_USER) /\ sock1_tcp = "conn"

(* the transport of conn1 is not known yet *)
Undecided(c) == ~c.active /\ ~c.ws

(* Wrong on purpose: waiting for more counts as hearing from the user. *)
TcpUserMoreRefreshed ==
    /\ TcpUserReady
    /\ Undecided(conn1)
    /\ sock1_udp' = FALSE
    /\ conn1' = [conn1 EXCEPT !.idle = FALSE]
    /\ Continue
    /\ UNCHANGED <<p, sock1_tcp, tableVars>>

(* WS_MORE: the first bytes could still be a WebSocket handshake, or the   *)
(* peer is gone without having sent any                                    *)
TcpUserMore ==
    /\ TcpUserReady
    /\ Undecided(conn1)
    /\ sock1_udp' = FALSE
    /\ Continue
    /\ UNCHANGED <<p, sock1_tcp, conn1, tableVars>>

TcpUserEof ==
    /\ TcpUserReady
    /\ Undecided(conn1) => conn1.speaks = "ws"
    /\ Break("eof")

(* conn1 once bytes were read from it *)
UserRead ==
    [conn1 EXCEPT !.active = TRUE, !.idle = FALSE,
                  !.ws = @ \/ (Undecided(conn1) /\ conn1.speaks = "ws")]

(* no complete WebSocket frame yet *)
TcpUserPartial ==
    /\ TcpUserReady
    /\ UserRead.ws
    /\ sock1_udp' = FALSE
    /\ conn1' = UserRead
    /\ Goto(TCP_ENGINEER_ACCEPT)
    /\ UNCHANGED <<p, sock1_tcp, tableVars>>

TcpUserData(m, heartbeat, dead, reached) ==
    /\ TcpUserReady
    /\ sock1_udp' = FALSE
    /\ ParseUser(UserRead, m, heartbeat, dead, reached)
    /\ Goto(TCP_ENGINEER_ACCEPT)
    /\ UNCHANGED <<p, sock1_tcp>>

-----------------------------------------------------------------------------
(* The engineer side *)

(* Wrong on purpose: frames are forwarded as soon as the user is there. *)
UserPresent == conn1.have

(* the user's transport is decided, frames may be forwarded to it *)
UserDecided == conn1.have /\ conn1.active

(* mav1.send_message: nothing but a HEARTBEAT goes to a user that has to   *)
(* authenticate and has not.                                               *)
ToUser(heartbeat, reached) ==
    IF reached /\ (p.bidi => heartbeat \/ conn1.signed)
    THEN conn1' = Wrote(conn1) ELSE UNCHANGED conn1

(* the first slot of the scan that belongs to UDP peer e *)
SlotOf(i, e) ==
    /\ i \in Scanned /\ conn2[i].is_udp /\ conn2[i].from = e
    /\ \A j \in Scanned :
          conn2[j].is_udp /\ conn2[j].from = e => i <= j

Known(e) == \E i \in Scanned : conn2[i].is_udp /\ conn2[i].from = e

UdpEngineerReady == At(UDP_ENGINEER)

UdpEngineerError == UdpEngineerReady /\ Break("error")

NewUdp(i, e) ==
    InitMav([Closed(conn2[i]) EXCEPT
                !.used = TRUE, !.is_udp = TRUE, !.from = e,
                !.tcp_active = TRUE])

(* slot i after a datagram from e: idle no more, and heard out when the    *)
(* user is there to forward to *)
AfterDatagram(c, m) ==
    LET d == [c EXCEPT !.idle = FALSE]
    IN  IF UserDecided THEN Received(d, TRUE, m) ELSE Heard(d, m)

Forwards(m) == UserDecided /\ Accepted(TRUE, m)

(* A datagram from an engineer who has a slot. *)
UdpEngineerData(i, e, m, heartbeat, reached) ==
    /\ UdpEngineerReady
    /\ SlotOf(i, e)
    /\ conn2' = [conn2 EXCEPT ![i] = AfterDatagram(@, m)]
    /\ ToUser(heartbeat, reached /\ Forwards(m))
    /\ Goto(TCP_USER_ACCEPT)
    /\ UNCHANGED <<p, sock1_udp, sock1_tcp, conn2_count, max_conn2_count>>

(* A datagram from a new engineer who gets the first free slot. *)
UdpEngineerNew(i, e, m, heartbeat, reached) ==
    /\ UdpEngineerReady
    /\ ~Known(e) /\ FirstFree(i)
    /\ Take(i, AfterDatagram(NewUdp(i, e), m))
    /\ ToUser(heartbeat, reached /\ Forwards(m))
    /\ Goto(TCP_USER_ACCEPT)
    /\ UNCHANGED <<p, sock1_udp, sock1_tcp>>

(* A datagram that finds the table full is dropped. *)
UdpEngineerFull(e) ==
    /\ UdpEngineerReady
    /\ ~Known(e) /\ Used = Slots
    /\ Goto(TCP_USER_ACCEPT)
    /\ UNCHANGED <<p, sock1_udp, sock1_tcp, conn1, tableVars>>

(* A frame that cannot be sent to the user ends the session. *)
UdpEngineerSendFailed(e, m) ==
    /\ UdpEngineerReady
    /\ Known(e) \/ Used # Slots
    /\ Forwards(m)
    /\ Break("send")

(* A TCP engineer is accepted into the first free slot... *)
TcpEngineerAccept(i, speaks) ==
    /\ At(TCP_ENGINEER_ACCEPT)
    /\ conn2_count < MAX_COMM2_LINKS
    /\ FirstFree(i)
    /\ Take(i, InitMav([Closed(conn2[i]) EXCEPT !.used = TRUE,
                                                !.speaks = speaks]))
    /\ Continue
    /\ UNCHANGED <<p, sock1_udp, sock1_tcp, conn1>>

(* ...or closed again: the accept failed or the table is full. *)
TcpEngineerRefuse ==
    /\ At(TCP_ENGINEER_ACCEPT)
    /\ Continue
    /\ UNCHANGED <<p, sock1_udp, sock1_tcp, conn1, tableVars>>

TcpEngineerReady(i) ==
    At(TCP_ENGINEER(i)) /\ i \in Scanned /\ ~conn2[i].is_udp

EngineerUndecided(c) == ~c.tcp_active /\ ~c.ws

(* WS_MORE (see TcpUserMore), or a WebSocket frame that is not complete *)
TcpEngineerPartial(i, decided) ==
    /\ TcpEngineerReady(i)
    /\ EngineerUndecided(conn2[i]) \/ conn2[i].ws
    /\ decided => conn2[i].speaks = "ws"
    /\ conn2' = [conn2 EXCEPT ![i].ws = @ \/ decided]
    /\ Goto(TCP_ENGINEER(i + 1))
    /\ UNCHANGED <<p, sock1_udp, sock1_tcp, conn1,
                   conn2_count, max_conn2_count>>

TcpEngineerEof(i) ==
    /\ TcpEngineerReady(i)
    /\ EngineerUndecided(conn2[i]) => conn2[i].speaks = "ws"
    /\ CloseAll({i})
    /\ Goto(TCP_ENGINEER(i + 1))
    /\ UNCHANGED <<p, sock1_udp, sock1_tcp, conn1>>

(* Bytes from a TCP engineer.  When the frame cannot be sent to the user   *)
(* the code leaves the loop over the slots, not main_loop.                 *)
TcpEngineerData(i, m, heartbeat, reached, failed) ==
    /\ TcpEngineerReady(i)
    /\ failed => Forwards(m) /\ ~reached
    /\ LET c == [conn2[i] EXCEPT
                    !.tcp_active = TRUE,
                    !.ws = @ \/ (EngineerUndecided(conn2[i])
                                 /\ conn2[i].speaks = "ws")]
       IN  conn2' = [conn2 EXCEPT ![i] =
                        IF UserDecided THEN Received(c, TRUE, m)
                                       ELSE Heard(c, m)]
    /\ ToUser(heartbeat, reached /\ Forwards(m))
    /\ Goto(IF failed THEN TAIL ELSE TCP_ENGINEER(i + 1))
    /\ UNCHANGED <<p, sock1_udp, sock1_tcp, conn2_count, max_conn2_count>>

-----------------------------------------------------------------------------
(* Tail of the loop *)

(* binlog.tick() may write a START or status to the user *)
BinlogTick(sends) ==
    IF sends /\ p.binlog /\ conn1.have
    THEN conn1' = Wrote(conn1) ELSE UNCHANGED conn1

(* The tail: binlog tick, then on the snapshot cadence a rescan for drop   *)
(* requests (none when it is not due).  It may run without any section     *)
(* having run: the sweep can close the socket that was ready.              *)
Tail(sends, drops) ==
    /\ At(TAIL)
    /\ 0 \notin drops
    /\ BinlogTick(sends)
    /\ CloseAll(DropTargets(drops))
    /\ Continue
    /\ UNCHANGED <<p, sock1_udp, sock1_tcp>>

LeaveTail == At(TAIL) /\ Break("drop")

-----------------------------------------------------------------------------
(* Time: a deadline passes.  A connection is idle for 10 s only after the  *)
(* 5 s of its pre-auth deadline. *)

Aged(c) == IF c.pre THEN [c EXCEPT !.idle = TRUE] ELSE [c EXCEPT !.pre = TRUE]

ElapseUser ==
    /\ why = "" /\ conn1.have /\ ~conn1.idle
    /\ conn1' = Aged(conn1)
    /\ UNCHANGED <<p, pc, why, sock1_udp, sock1_tcp, tableVars>>

ElapseEngineer(i) ==
    /\ why = "" /\ i \in Used
    /\ ~conn2[i].pre \/ (conn2[i].is_udp /\ ~conn2[i].idle)
    /\ conn2' = [conn2 EXCEPT ![i] = Aged(@)]
    /\ UNCHANGED <<p, pc, why, sock1_udp, sock1_tcp, conn1,
                   conn2_count, max_conn2_count>>

-----------------------------------------------------------------------------
Loop ==
    \/ \E drops \in SUBSET (0 .. MAX_COMM2_LINKS) : LoopTop(drops)
    \/ LeaveTop

UserSide ==
    \/ UdpUserError
    \/ \E m \in Packets : UdpUserReject(m) \/ UdpUserValidate(m)
    \/ \E m \in Packets, h \in BOOLEAN, dead, reached \in SUBSET Slots :
          \/ UdpUserData(m, h, dead, reached)
          \/ TcpUserData(m, h, dead, reached)
    \/ TcpUserAcceptError
    \/ \E s \in Streams : TcpUserAccept(s)
    \/ TcpUserMore
    \/ TcpUserEof
    \/ TcpUserPartial

EngineerSide ==
    \/ UdpEngineerError
    \/ \E i \in Slots, e \in Peers, m \in Packets, h, reached \in BOOLEAN :
          \/ UdpEngineerData(i, e, m, h, reached)
          \/ UdpEngineerNew(i, e, m, h, reached)
    \/ \E e \in Peers : UdpEngineerFull(e)
    \/ \E e \in Peers, m \in Packets : UdpEngineerSendFailed(e, m)
    \/ \E i \in Slots, s \in Streams : TcpEngineerAccept(i, s)
    \/ TcpEngineerRefuse
    \/ \E i \in Slots : TcpEngineerEof(i)
    \/ \E i \in Slots, d \in BOOLEAN : TcpEngineerPartial(i, d)
    \/ \E i \in Slots, m \in Packets, h, reached, failed \in BOOLEAN :
          TcpEngineerData(i, m, h, reached, failed)

LoopTail ==
    \/ \E s \in BOOLEAN, drops \in SUBSET (0 .. MAX_COMM2_LINKS) :
          Tail(s, drops)
    \/ LeaveTail

Time == ElapseUser \/ \E i \in Slots : ElapseEngineer(i)

Next == Loop \/ UserSide \/ EngineerSide \/ LoopTail \/ Time

Spec == Init /\ [][Next]_vars

(* select() returns within 10 s, with something to read or with a timeout  *)
(* that ends the loop; one pass over the sections always gets to its end;  *)
(* time passes.                                                            *)
Fairness ==
    /\ WF_vars(Loop)
    /\ WF_vars(LoopTail)
    /\ WF_vars(ElapseUser)
    /\ \A i \in Slots : WF_vars(ElapseEngineer(i))

FairSpec == Spec /\ Fairness

-----------------------------------------------------------------------------
(* Safety *)

(* conn2_count is the number of used slots and max_conn2_count the highest *)
(* used slot + 1, whatever order engineers come and go in: no used slot is *)
(* ever outside the scan loops, and the clamp of max_conn2_count at the    *)
(* top of the loop has nothing to do (close_conn2 and its comment).        *)
SlotAccounting ==
    /\ conn2_count = Cardinality(Used)
    /\ max_conn2_count = 0 \/ max_conn2_count - 1 \in Used
    /\ \A i \in Used : i < max_conn2_count

(* A UDP engineer holds at most one slot: the lookup by address never      *)
(* misses the slot it already has.                                         *)
OneSlotPerPeer ==
    \A i, j \in Used :
        /\ conn2[i].is_udp /\ conn2[j].is_udp
        /\ conn2[i].from = conn2[j].from
        => i = j

(* Once a user is connected, its transport is the only user-side socket    *)
(* left; and a connected TCP socket always belongs to a user.  (sock1_udp  *)
(* and sock1_tcp are closed by the handlers of the other transport.)       *)
Conn1Exclusive ==
    /\ conn1.have /\ conn1.is_tcp => ~sock1_udp /\ sock1_tcp = "conn"
    /\ conn1.have /\ ~conn1.is_tcp => sock1_udp /\ sock1_tcp = "closed"
    /\ sock1_tcp = "conn" => conn1.have

(* A connection counts as authenticated only if it has itself sent a       *)
(* correctly signed packet: a reused slot inherits nothing (MAVLink::init  *)
(* on accept and on the first datagram).                                   *)
AuthEarned ==
    /\ conn1.have /\ conn1.signed => conn1.earned
    /\ \A i \in Used : conn2[i].signed => conn2[i].earned

(* No plain MAVLink frame is written to a user that turns out to speak     *)
(* WebSocket (tests/test_ws_handshake_ordering.py).  Holds for entries     *)
(* without binlog.                                                         *)
UserHandshakeClean == ~conn1.spoiled

(* The same for the engineer connections. The code does not meet this one, *)
(* and no run checks it: see the README, section 3.                        *)
EngineerHandshakeClean == \A i \in Used : ~conn2[i].spoiled

(* The pre-auth deadline of a bidi user on TCP ends the session only when  *)
(* no correctly signed packet has arrived on it (comment at the check).    *)
(* The code does not meet this without a tap, and no run checks it: see    *)
(* the README, section 3.                                                  *)
SignedUserKept == why = "preauth" => ~conn1.earned

-----------------------------------------------------------------------------
(* Liveness, under FairSpec *)

(* A user whose transport is undecided does not hold up the loop for ever: *)
(* it makes up its mind or the idle timeout ends the session (TcpUserMore  *)
(* does not refresh last_pkt1).                                            *)
UserDecides ==
    (why = "" /\ conn1.have /\ Undecided(conn1))
        ~> (why # "" \/ ~Undecided(conn1))

(* No connection camps on a slot: it authenticates or loses it, whatever   *)
(* it sends in the meantime.                                               *)
PreauthReclaimed ==
    \A i \in Slots :
        (why = "" /\ conn2[i].used /\ ~conn2[i].signed)
            ~> (why # "" \/ ~conn2[i].used \/ conn2[i].signed)

-----------------------------------------------------------------------------
(* The abstract view of the session: who holds which slot.  A TCP          *)
(* engineer is known by its slot.                                          *)
Holder ==
    [i \in Slots |-> IF ~conn2[i].used THEN NoPeer
                     ELSE IF conn2[i].is_udp THEN conn2[i].from ELSE i]

Abstract == INSTANCE Links WITH
    Conns <- Peers \cup Slots, NoConn <- NoPeer,
    running <- (why = ""), user <- conn1.have, held <- Holder

(* The loop hands out slots, latches the user and ends exactly as Links    *)
(* promises.                                                               *)
ImplementsLinks == Abstract!LinksSpec
=============================================================================
