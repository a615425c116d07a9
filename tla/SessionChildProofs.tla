------------------------- MODULE SessionChildProofs -------------------------
(***************************************************************************)
(* Proofs about SessionChild for every number of slots, every set of peers *)
(* and every set of entries.                                               *)
(*                                                                         *)
(* Whatever main_loop does, the slot table changes in one of two ways:     *)
(* some used slots are closed, or the first free slot is taken.  The       *)
(* invariants of the table follow from that alone.                         *)
(***************************************************************************)
EXTENDS SessionChild, FiniteSetTheorems, TLAPS

(* slot i is held by the same connection before and after the step *)
SameHolder(i) ==
    /\ conn2'[i].used = conn2[i].used
    /\ conn2'[i].is_udp = conn2[i].is_udp
    /\ conn2'[i].from = conn2[i].from

(* the step closes the slots of gone and leaves the others to their holders *)
TableClosed(gone) ==
    /\ gone \subseteq Used
    /\ conn2' \in [Slots -> Connection2]
    /\ \A i \in gone : ~conn2'[i].used
    /\ \A i \in Slots \ gone : SameHolder(i)
    /\ IF gone = {} THEN UNCHANGED <<conn2_count, max_conn2_count>>
                    ELSE CountClosed(gone)

(* the step gives slot i to a connection that holds no other *)
TableTaken(i) ==
    /\ FirstFree(i)
    /\ conn2' \in [Slots -> Connection2]
    /\ conn2'[i].used
    /\ conn2'[i].is_udp => conn2'[i].from \in Peers /\ ~Known(conn2'[i].from)
    /\ \A j \in Slots \ {i} : SameHolder(j)
    /\ conn2_count' = conn2_count + 1
    /\ max_conn2_count' = IF max_conn2_count < conn2_count + 1
                          THEN conn2_count + 1 ELSE max_conn2_count

TableStep ==
    \/ \E gone \in SUBSET Slots : TableClosed(gone)
    \/ \E i \in Slots : TableTaken(i)

(* the types of everything but the counters, which need SlotAccounting *)
LoopTypeOK ==
    /\ p \in Entries
    /\ pc \in 0 .. TAIL
    /\ why \in ExitReasons
    /\ sock1_udp \in BOOLEAN
    /\ sock1_tcp \in {"listen", "conn", "closed"}
    /\ conn1 \in User
    /\ conn2 \in [Slots -> Connection2]
    /\ conn2_count \in Nat
    /\ max_conn2_count \in Nat

-----------------------------------------------------------------------------
(* What the operations on one connection preserve. *)

(* A slot that is closed is free. *)
LEMMA ClosedSlot ==
    ASSUME NEW c \in Connection2
    PROVE  Closed(c) \in Connection2 /\ ~Closed(c).used
<1>1. c.signed \in BOOLEAN
  BY DEF Connection2
<1>2. FreeSlot \in Connection2 /\ ~FreeSlot.used
  BY DEF FreeSlot, Connection2
<1>3. ASSUME NEW d \in Connection2, NEW g \in BOOLEAN
      PROVE  /\ [d EXCEPT !.signed = g] \in Connection2
             /\ [d EXCEPT !.signed = g].used = d.used
  BY ONLY DEF Connection2
<1> QED BY ONLY <1>1, <1>2, <1>3 DEF Closed

(* What each operation on a slot keeps: its type, and but for close its holder. *)
LEMMA SlotOps ==
    ASSUME NEW c \in Connection2, NEW m \in Packets, NEW k \in BOOLEAN
    PROVE  /\ Closed(c) \in Connection2 /\ ~Closed(c).used
           /\ InitMav(c) \in Connection2
           /\ InitMav(c).used = c.used /\ InitMav(c).is_udp = c.is_udp
           /\ InitMav(c).from = c.from
           /\ Wrote(c) \in Connection2
           /\ Wrote(c).used = c.used /\ Wrote(c).is_udp = c.is_udp
           /\ Wrote(c).from = c.from
           /\ Heard(c, m) \in Connection2
           /\ Heard(c, m).used = c.used /\ Heard(c, m).is_udp = c.is_udp
           /\ Heard(c, m).from = c.from
           /\ Received(c, k, m) \in Connection2
           /\ Received(c, k, m).used = c.used
           /\ Received(c, k, m).is_udp = c.is_udp
           /\ Received(c, k, m).from = c.from
           /\ Aged(c) \in Connection2
           /\ Aged(c).used = c.used /\ Aged(c).is_udp = c.is_udp
           /\ Aged(c).from = c.from
<1>1. SignedAfter(k, c.signed, m) \in BOOLEAN
  BY InputAssumption DEF SignedAfter, PacketKinds, Connection2
<1>2. FreeSlot \in Connection2
  BY DEF FreeSlot, Connection2
<1>3. Closed(c) \in Connection2 /\ ~Closed(c).used
  BY ClosedSlot
<1>4. /\ Heard(c, m) \in Connection2
      /\ Heard(c, m).used = c.used /\ Heard(c, m).is_udp = c.is_udp
      /\ Heard(c, m).from = c.from /\ Heard(c, m).signed = c.signed
  BY DEF Heard, Connection2
<1>5. /\ Received(c, k, m) \in Connection2
      /\ Received(c, k, m).used = c.used
      /\ Received(c, k, m).is_udp = c.is_udp
      /\ Received(c, k, m).from = c.from
  BY <1>1, <1>4 DEF Received, Connection2
<1>6. /\ InitMav(c) \in Connection2
      /\ InitMav(c).used = c.used /\ InitMav(c).is_udp = c.is_udp
      /\ InitMav(c).from = c.from
  BY DEF InitMav, Connection2
<1>7. /\ Wrote(c) \in Connection2
      /\ Wrote(c).used = c.used /\ Wrote(c).is_udp = c.is_udp
      /\ Wrote(c).from = c.from
  BY DEF Wrote, Connection2
<1>8. /\ Aged(c) \in Connection2
      /\ Aged(c).used = c.used /\ Aged(c).is_udp = c.is_udp
      /\ Aged(c).from = c.from
  BY DEF Aged, Connection2
<1> QED BY <1>3, <1>4, <1>5, <1>6, <1>7, <1>8

(* Hearing, answering and ageing keep the record of conn1 well typed. *)
LEMMA UserOps ==
    ASSUME NEW c \in User, NEW m \in Packets, NEW k \in BOOLEAN
    PROVE  /\ Wrote(c) \in User
           /\ Heard(c, m) \in User
           /\ Received(c, k, m) \in User
           /\ Aged(c) \in User
<1>1. SignedAfter(k, c.signed, m) \in BOOLEAN
  BY InputAssumption DEF SignedAfter, PacketKinds, User
<1>2. Heard(c, m) \in User /\ Heard(c, m).signed = c.signed
  BY DEF Heard, User
<1>3. Received(c, k, m) \in User
  BY <1>1, <1>2 DEF Received, User
<1>4. Wrote(c) \in User /\ Aged(c) \in User
  BY DEF Wrote, Aged, User
<1> QED BY <1>2, <1>3, <1>4

-----------------------------------------------------------------------------
(* The slot table under its two kinds of change. *)

(* The table is finite, so the slots in use can be counted. *)
LEMMA SlotsFinite ==
    /\ IsFiniteSet(Slots) /\ Cardinality(Slots) = MAX_COMM2_LINKS
    /\ IsFiniteSet(Used) /\ Cardinality(Used) \in Nat
    /\ Cardinality(Used) <= MAX_COMM2_LINKS
<1>1. IsFiniteSet(Slots) /\ Cardinality(Slots) = MAX_COMM2_LINKS
  BY FS_Interval, SizeAssumption DEF Slots
<1>2. Used \in SUBSET Slots
  BY DEF Used
<1> QED BY <1>1, <1>2, FS_Subset, FS_CardinalityType

(* Closing used slots keeps the count and the watermark exact. *)
LEMMA CloseKeepsAccounting ==
    ASSUME LoopTypeOK, SlotAccounting,
           NEW gone \in SUBSET Slots, TableClosed(gone)
    PROVE  SlotAccounting'
<1> USE DEF LoopTypeOK
<1>1. Used' = Used \ gone
  BY DEF TableClosed, Used, SameHolder
<1>2. CASE gone = {}
  <2>1. Used' = Used /\ UNCHANGED <<conn2_count, max_conn2_count>>
    BY <1>1, <1>2 DEF TableClosed
  <2> QED BY <2>1 DEF SlotAccounting
<1>3. CASE gone # {}
  <2>1. CountClosed(gone) /\ gone \subseteq Used
    BY <1>3 DEF TableClosed
  <2>2. Cardinality(Used') = Cardinality(Used) - Cardinality(gone)
    <3>1. Used \cap gone = gone
      BY <2>1
    <3>2. IsFiniteSet(Used)
      BY SlotsFinite
    <3>3. Cardinality(Used \ gone) = Cardinality(Used) - Cardinality(Used \cap gone)
      BY ONLY <3>2, FS_Difference
    <3> QED BY <1>1, <3>1, <3>3
  <2>3. /\ Cardinality(gone) \in Nat
        /\ Cardinality(gone) <= Cardinality(Used)
    BY <2>1, SlotsFinite, FS_Subset, FS_CardinalityType
  <2>4. conn2_count' = Cardinality(Used')
    BY <2>1, <2>2, <2>3, SlotsFinite DEF CountClosed, SlotAccounting
  <2>5. PICK w \in 0 .. max_conn2_count :
            Watermark(w, Used \ gone) /\ max_conn2_count' = w
    BY <2>1 DEF CountClosed
  <2>6. max_conn2_count' = 0 \/ max_conn2_count' - 1 \in Used'
    BY <1>1, <2>5 DEF Watermark
  <2>7. ASSUME NEW i \in Used' PROVE i < max_conn2_count'
    <3>1. i \in Used /\ i < max_conn2_count /\ i \in Nat
      BY <1>1, <2>7, SizeAssumption DEF SlotAccounting, Used, Slots
    <3>2. i \notin w .. max_conn2_count - 1
      BY <1>1, <2>5, <2>7 DEF Watermark
    <3> QED BY <2>5, <3>1, <3>2
  <2> QED BY <2>4, <2>6, <2>7 DEF SlotAccounting
<1> QED BY <1>2, <1>3

(* So does taking the first free slot: if it lies at the watermark, all    *)
(* slots below it are used and the count has reached it.                   *)
LEMMA TakeKeepsAccounting ==
    ASSUME LoopTypeOK, SlotAccounting,
           NEW i \in Slots, TableTaken(i)
    PROVE  SlotAccounting'
<1> USE DEF LoopTypeOK
<1>1. Used' = Used \cup {i} /\ i \notin Used /\ i \in Nat
  BY SizeAssumption DEF TableTaken, FirstFree, Used, SameHolder, Slots
<1>2. conn2_count' = Cardinality(Used')
  BY <1>1, SlotsFinite, FS_AddElement DEF TableTaken, SlotAccounting
<1>3. Cardinality(Used) >= i
  <2>1. 0 .. i - 1 \in SUBSET Used
    BY DEF TableTaken, FirstFree
  <2>2. Cardinality(0 .. i - 1) = i
    BY <1>1, FS_Interval
  <2>3. Cardinality(0 .. i - 1) <= Cardinality(Used)
    BY <2>1, SlotsFinite, FS_Subset
  <2> QED BY <2>2, <2>3
<1>4. Cardinality(Used) <= max_conn2_count
  <2>1. Used \in SUBSET (0 .. max_conn2_count - 1)
    BY SizeAssumption DEF SlotAccounting, Used, Slots
  <2>2. /\ IsFiniteSet(0 .. max_conn2_count - 1)
        /\ Cardinality(0 .. max_conn2_count - 1) = max_conn2_count
    <3>1. max_conn2_count \in Nat
      BY SizeAssumption
    <3>2. 0 \in Int /\ max_conn2_count - 1 \in Int
      BY <3>1
    <3>3. /\ IsFiniteSet(0 .. max_conn2_count - 1)
          /\ Cardinality(0 .. max_conn2_count - 1) =
               IF 0 > max_conn2_count - 1 THEN 0 ELSE (max_conn2_count - 1) - 0 + 1
      BY ONLY <3>2, FS_Interval
    <3> QED BY <3>1, <3>3
  <2>3. Cardinality(Used) <= Cardinality(0 .. max_conn2_count - 1)
    BY ONLY <2>1, <2>2, FS_Subset
  <2> QED BY ONLY <2>2, <2>3
<1>5. CASE max_conn2_count < conn2_count + 1
  <2>1. max_conn2_count = Cardinality(Used)
    BY <1>4, <1>5, SlotsFinite DEF SlotAccounting
  <2>2. i >= max_conn2_count
    <3>1. Used \in SUBSET (0 .. max_conn2_count - 1)
      BY SizeAssumption DEF SlotAccounting, Used, Slots
    <3>2. /\ IsFiniteSet(0 .. max_conn2_count - 1)
          /\ Cardinality(0 .. max_conn2_count - 1) = max_conn2_count
      BY FS_Interval
    <3>3. Used = 0 .. max_conn2_count - 1
      BY <2>1, <3>1, <3>2, FS_Subset
    <3> QED BY <1>1, <3>3
  <2>3. i = max_conn2_count /\ max_conn2_count' = i + 1
    BY <1>1, <1>3, <1>5, <2>1, <2>2, SlotsFinite
       DEF TableTaken, SlotAccounting
  <2> QED BY <1>1, <1>2, <2>3, SizeAssumption
          DEF SlotAccounting, Used, Slots
<1>6. CASE ~(max_conn2_count < conn2_count + 1)
  <2>1. max_conn2_count' = max_conn2_count
    BY <1>6 DEF TableTaken
  <2>2. i < max_conn2_count
    BY <1>1, <1>3, <1>6, SlotsFinite DEF SlotAccounting
  <2> QED BY <1>1, <1>2, <2>1, <2>2 DEF SlotAccounting
<1> QED BY <1>5, <1>6

(* No UDP peer gets a second slot: every slot it may hold is scanned. *)
LEMMA TableKeepsPeers ==
    ASSUME LoopTypeOK, SlotAccounting, OneSlotPerPeer, TableStep
    PROVE  OneSlotPerPeer'
<1>1. CASE \E gone \in SUBSET Slots : TableClosed(gone)
  <2>1. PICK gone \in SUBSET Slots : TableClosed(gone)
    BY <1>1
  <2>2. \A i \in Used' : i \in Used /\ SameHolder(i)
    BY <2>1 DEF TableClosed, Used, SameHolder
  <2> QED BY <2>2 DEF OneSlotPerPeer, SameHolder
<1>2. CASE \E i \in Slots : TableTaken(i)
  <2>1. PICK i \in Slots : TableTaken(i)
    BY <1>2
  <2>2. \A j \in Used' : j # i => j \in Used /\ SameHolder(j)
    BY <2>1 DEF TableTaken, Used, SameHolder
  <2>3. \A j \in Used : j \in Scanned
    BY DEF Scanned, SlotAccounting
  <2>4. \A j \in Used' : /\ j # i /\ conn2'[j].is_udp /\ conn2'[i].is_udp
                         => conn2'[j].from # conn2'[i].from
    BY <2>1, <2>2, <2>3 DEF TableTaken, Known, SameHolder
  <2> QED BY <2>2, <2>4 DEF OneSlotPerPeer, SameHolder
<1> QED BY <1>1, <1>2 DEF TableStep

-----------------------------------------------------------------------------
(* Every step of the loop is a step of the table. *)

(* close_conn2 over a set of slots frees those and keeps every other holder. *)
LEMMA CloseAllIsTableStep ==
    ASSUME LoopTypeOK, NEW gone \in SUBSET Used, CloseAll(gone)
    PROVE  TableClosed(gone)
<1>1. \A i \in Slots : Closed(conn2[i]) \in Connection2
                      /\ ~Closed(conn2[i]).used
  <2>1. FreeSlot \in Connection2 /\ ~FreeSlot.used
    BY DEF FreeSlot, Connection2
  <2> QED BY <2>1 DEF LoopTypeOK, Closed, FreeSlot, Connection2
<1>2. conn2' \in [Slots -> Connection2]
  BY <1>1 DEF CloseAll, LoopTypeOK
<1>3. \A i \in gone : i \in Slots /\ conn2'[i] = Closed(conn2[i])
  BY DEF CloseAll, Used
<1>4. \A i \in Slots \ gone : conn2'[i] = conn2[i]
  BY DEF CloseAll
<1> QED BY <1>1, <1>2, <1>3, <1>4
        DEF CloseAll, TableClosed, SameHolder

(* Forwarding to the engineers frees only the slots whose send failed. *)
LEMMA ToEngineersIsTableStep ==
    ASSUME LoopTypeOK, NEW h \in BOOLEAN,
           NEW dead \in SUBSET Slots, NEW reached \in SUBSET Slots,
           ToEngineers(h, dead, reached)
    PROVE  TableClosed(dead)
<1>1. dead \subseteq Used
  BY DEF ToEngineers, Scanned
<1>2. ASSUME NEW i \in Slots
      PROVE  /\ Closed(conn2[i]) \in Connection2 /\ ~Closed(conn2[i]).used
             /\ Wrote(conn2[i]) \in Connection2
             /\ Wrote(conn2[i]).used = conn2[i].used
             /\ Wrote(conn2[i]).is_udp = conn2[i].is_udp
             /\ Wrote(conn2[i]).from = conn2[i].from
  <2>1. conn2[i] \in Connection2
    BY <1>2 DEF LoopTypeOK
  <2>3. Closed(conn2[i]) \in Connection2 /\ ~Closed(conn2[i]).used
    BY <2>1, ClosedSlot
  <2>4. /\ Wrote(conn2[i]) \in Connection2
        /\ Wrote(conn2[i]).used = conn2[i].used
        /\ Wrote(conn2[i]).is_udp = conn2[i].is_udp
        /\ Wrote(conn2[i]).from = conn2[i].from
    BY <2>1 DEF Wrote, Connection2
  <2> QED BY <2>3, <2>4
<1>3. conn2' \in [Slots -> Connection2]
  BY <1>2 DEF ToEngineers, LoopTypeOK
<1>4. \A i \in dead : conn2'[i] = Closed(conn2[i])
  BY DEF ToEngineers
<1>5. \A i \in Slots \ dead : conn2'[i] = Wrote(conn2[i])
                               \/ conn2'[i] = conn2[i]
  BY DEF ToEngineers
<1>6. \A i \in Slots \ dead : SameHolder(i)
  BY <1>2, <1>5 DEF SameHolder
<1>7. \A i \in dead : ~conn2'[i].used
  BY <1>2, <1>4
<1> QED BY <1>1, <1>3, <1>6, <1>7 DEF ToEngineers, TableClosed

(* a step that leaves the table alone *)
LEMMA KeptIsTableStep ==
    ASSUME LoopTypeOK, UNCHANGED tableVars
    PROVE  TableClosed({})
BY DEF LoopTypeOK, tableVars, TableClosed, SameHolder

(* a step that changes slot i without changing its holder *)
LEMMA TouchIsTableStep ==
    ASSUME LoopTypeOK, NEW i \in Slots, NEW c \in Connection2,
           conn2' = [conn2 EXCEPT ![i] = c],
           c.used = conn2[i].used, c.is_udp = conn2[i].is_udp,
           c.from = conn2[i].from,
           UNCHANGED <<conn2_count, max_conn2_count>>
    PROVE  TableClosed({})
BY DEF LoopTypeOK, TableClosed, SameHolder

(* A new engineer takes the first free slot, under an address no slot holds. *)
LEMMA TakeIsTableStep ==
    ASSUME LoopTypeOK, NEW i \in Slots, NEW c \in Connection2,
           Take(i, c), FirstFree(i), c.used,
           c.is_udp => c.from \in Peers /\ ~Known(c.from)
    PROVE  TableTaken(i)
BY DEF LoopTypeOK, Take, TableTaken, SameHolder

(* What the user sends frees at most the slots whose send failed. *)
LEMMA ParseUserIsTableStep ==
    ASSUME LoopTypeOK, NEW c \in User, NEW m \in Packets, NEW h \in BOOLEAN,
           NEW dead \in SUBSET Slots, NEW reached \in SUBSET Slots,
           ParseUser(c, m, h, dead, reached)
    PROVE  TableClosed(dead) /\ conn1' \in User
<1>1. p.bidi \in BOOLEAN
  BY InputAssumption DEF LoopTypeOK
<1>2. conn1' \in User
  BY <1>1, UserOps DEF ParseUser
<1>3. CASE ToEngineers(h, dead, reached)
  BY <1>2, <1>3, ToEngineersIsTableStep
<1>4. CASE dead = {} /\ UNCHANGED tableVars
  BY <1>2, <1>4, KeptIsTableStep
<1> QED BY <1>3, <1>4 DEF ParseUser

(* the types of the variables outside the table *)
ScalarsOK ==
    /\ p \in Entries
    /\ pc \in 0 .. TAIL
    /\ why \in ExitReasons
    /\ sock1_udp \in BOOLEAN
    /\ sock1_tcp \in {"listen", "conn", "closed"}
    /\ conn1 \in User

(* what every action is shown to do *)
GoodStep == ScalarsOK' /\ TableStep

(* Every section of the loop body is one of the counter's values. *)
LEMMA Sections ==
    /\ \A s \in 0 .. 6 : s \in 0 .. TAIL
    /\ TAIL \in 0 .. TAIL
    /\ \A i \in Slots : TCP_ENGINEER(i + 1) \in 0 .. TAIL
BY SizeAssumption DEF TAIL, TCP_ENGINEER, Slots

(* A section that only moves on leaves the scalars well typed. *)
LEMMA ScalarsKept ==
    ASSUME LoopTypeOK, NEW s \in 0 .. TAIL, Goto(s), UNCHANGED p,
           sock1_udp' \in BOOLEAN,
           sock1_tcp' \in {"listen", "conn", "closed"},
           conn1' \in User
    PROVE  ScalarsOK'
BY DEF LoopTypeOK, ScalarsOK, Goto

(* Breaking out of the loop leaves the table alone. *)
LEMMA BreakIsGood ==
    ASSUME LoopTypeOK, NEW r \in ExitReasons, Break(r)
    PROVE  GoodStep
<1>1. TableClosed({})
  BY KeptIsTableStep DEF Break
<1>2. ScalarsOK'
  BY DEF Break, LoopTypeOK, ScalarsOK
<1> QED BY <1>1, <1>2 DEF GoodStep, TableStep

(* The top and the tail of the loop are table steps. *)
LEMMA LoopIsGood ==
    ASSUME LoopTypeOK, Loop \/ LoopTail
    PROVE  GoodStep
<1> USE SizeAssumption
<1>1. ASSUME NEW drops \in SUBSET (0 .. MAX_COMM2_LINKS), LoopTop(drops)
      PROVE  GoodStep
  <2> DEFINE gone == DropTargets(drops) \cup
                     {i \in Scanned : Expired(conn2[i])}
  <2>1. gone \in SUBSET Used
    BY DEF DropTargets, Scanned
  <2>2. TableClosed(gone)
    BY <1>1, <2>1, CloseAllIsTableStep DEF LoopTop
  <2>3. ScalarsOK'
    <3>1. Goto(1) /\ UNCHANGED <<p, sock1_udp, sock1_tcp, conn1>>
      BY <1>1 DEF LoopTop
    <3> QED BY <3>1, Sections, ScalarsKept DEF LoopTypeOK
  <2>4. gone \in SUBSET Slots
    BY <2>1 DEF Used
  <2> QED BY <2>2, <2>3, <2>4 DEF GoodStep, TableStep
<1>2. CASE LeaveTop
  BY <1>2, BreakIsGood DEF LeaveTop, ExitReasons
<1>3. ASSUME NEW s \in BOOLEAN, NEW drops \in SUBSET (0 .. MAX_COMM2_LINKS),
             Tail(s, drops)
      PROVE  GoodStep
  <2>1. DropTargets(drops) \in SUBSET Used /\ DropTargets(drops) \in SUBSET Slots
    BY DEF DropTargets, Used
  <2>2. TableClosed(DropTargets(drops))
    BY <1>3, <2>1, CloseAllIsTableStep DEF Tail
  <2>3. Wrote(conn1) \in User
    BY DEF LoopTypeOK, Wrote, User
  <2>4. ScalarsOK'
    BY <1>3, <2>3
       DEF Tail, LoopTypeOK, ScalarsOK, Continue, Goto, BinlogTick, TAIL
  <2> QED BY <2>1, <2>2, <2>4 DEF GoodStep, TableStep
<1>4. CASE LeaveTail
  BY <1>4, BreakIsGood DEF LeaveTail, ExitReasons
<1> QED BY <1>1, <1>2, <1>3, <1>4 DEF Loop, LoopTail

(* The two user sections are table steps. *)
LEMMA UserSideIsGood ==
    ASSUME LoopTypeOK, UserSide
    PROVE  GoodStep
<1> USE SizeAssumption
<1>0. p.bidi \in BOOLEAN
  BY InputAssumption DEF LoopTypeOK
<1>1. CASE UdpUserError \/ TcpUserAcceptError \/ TcpUserEof
  BY <1>1, BreakIsGood
     DEF UdpUserError, TcpUserAcceptError, TcpUserEof, ExitReasons
<1>2. ASSUME NEW m \in Packets, UdpUserReject(m) PROVE GoodStep
  <2>1. Received(conn1, TRUE, m) \in User
    BY UserOps DEF LoopTypeOK
  <2>2. conn1' \in User
    BY <1>2, <2>1 DEF UdpUserReject, User
  <2>3. ScalarsOK'
    BY <1>2, <2>2
       DEF UdpUserReject, LoopTypeOK, ScalarsOK, Continue, Goto, TAIL
  <2> QED BY <1>2, <2>3, KeptIsTableStep
          DEF UdpUserReject, GoodStep, TableStep
<1>3. ASSUME NEW m \in Packets, UdpUserValidate(m) PROVE GoodStep
  <2>1. Received(conn1, TRUE, m) \in User
    BY UserOps DEF LoopTypeOK
  <2>2. conn1' \in User
    BY <1>3, <2>1 DEF UdpUserValidate, User
  <2>3. ScalarsOK'
    BY <1>3, <2>2
       DEF UdpUserValidate, LoopTypeOK, ScalarsOK, Goto, UDP_ENGINEER, TAIL
  <2> QED BY <1>3, <2>3, KeptIsTableStep
          DEF UdpUserValidate, GoodStep, TableStep
<1>4. ASSUME NEW m \in Packets, NEW h \in BOOLEAN,
             NEW dead \in SUBSET Slots, NEW reached \in SUBSET Slots,
             UdpUserData(m, h, dead, reached)
      PROVE  GoodStep
  <2> DEFINE c == [conn1 EXCEPT !.have = TRUE, !.active = TRUE,
                                !.pre = @ /\ conn1.have, !.idle = FALSE]
  <2>1. c \in User
    BY DEF LoopTypeOK, User
  <2>2. ParseUser(c, m, h, dead, reached)
    BY <1>4 DEF UdpUserData
  <2>3. TableClosed(dead) /\ conn1' \in User
    BY <2>1, <2>2, ParseUserIsTableStep
  <2>4. ScalarsOK'
    BY <1>4, <2>3
       DEF UdpUserData, LoopTypeOK, ScalarsOK, Goto, UDP_ENGINEER, TAIL
  <2> QED BY <2>3, <2>4 DEF GoodStep, TableStep
<1>5. UserRead \in User
  BY DEF UserRead, LoopTypeOK, User
<1>6. ASSUME NEW m \in Packets, NEW h \in BOOLEAN,
             NEW dead \in SUBSET Slots, NEW reached \in SUBSET Slots,
             TcpUserData(m, h, dead, reached)
      PROVE  GoodStep
  <2>1. ParseUser(UserRead, m, h, dead, reached)
    BY <1>6 DEF TcpUserData
  <2>2. TableClosed(dead) /\ conn1' \in User
    BY <1>5, <2>1, ParseUserIsTableStep
  <2>3. ScalarsOK'
    <3>1. sock1_udp' \in BOOLEAN /\ UNCHANGED <<p, sock1_tcp>>
      BY <1>6 DEF TcpUserData
    <3>2. Goto(5)
      BY <1>6 DEF TcpUserData, TCP_ENGINEER_ACCEPT
    <3> QED BY <2>2, <3>1, <3>2, Sections, ScalarsKept DEF LoopTypeOK
  <2> QED BY <2>2, <2>3 DEF GoodStep, TableStep
<1>7. ASSUME NEW s \in Streams, TcpUserAccept(s) PROVE GoodStep
  <2>1. conn1' \in User
    BY <1>7, InputAssumption DEF TcpUserAccept, NoUser, User, LoopTypeOK
  <2>2. ScalarsOK'
    <3>1. sock1_udp' \in BOOLEAN /\ sock1_tcp' = "conn" /\ UNCHANGED p
      BY <1>7 DEF TcpUserAccept
    <3>2. Goto(0)
      BY <1>7 DEF TcpUserAccept, Continue
    <3> QED BY <2>1, <3>1, <3>2, Sections, ScalarsKept
  <2> QED BY <1>7, <2>2, KeptIsTableStep
          DEF TcpUserAccept, GoodStep, TableStep
<1>8. CASE TcpUserMore
  <2>1. ScalarsOK'
    <3>1. sock1_udp' \in BOOLEAN /\ UNCHANGED <<p, sock1_tcp, conn1>>
      BY <1>8 DEF TcpUserMore
    <3>2. Goto(0)
      BY <1>8 DEF TcpUserMore, Continue
    <3> QED BY <3>1, <3>2, Sections, ScalarsKept DEF LoopTypeOK
  <2> QED BY <1>8, <2>1, KeptIsTableStep
          DEF TcpUserMore, GoodStep, TableStep
<1>9. CASE TcpUserPartial
  <2>1. ScalarsOK'
    <3>1. sock1_udp' \in BOOLEAN /\ UNCHANGED <<p, sock1_tcp>>
      BY <1>9 DEF TcpUserPartial
    <3>2. Goto(5) /\ conn1' \in User
      BY <1>9, <1>5 DEF TcpUserPartial, TCP_ENGINEER_ACCEPT
    <3> QED BY <3>1, <3>2, Sections, ScalarsKept DEF LoopTypeOK
  <2> QED BY <1>9, <2>1, KeptIsTableStep
          DEF TcpUserPartial, GoodStep, TableStep
<1> QED BY <1>1, <1>2, <1>3, <1>4, <1>6, <1>7, <1>8, <1>9 DEF UserSide

(* Sending to the user keeps the record of conn1 well typed. *)
LEMMA ToUserIsGood ==
    ASSUME LoopTypeOK, NEW h, NEW r, ToUser(h, r)
    PROVE  conn1' \in User
<1>1. Wrote(conn1) \in User
  BY DEF LoopTypeOK, Wrote, User
<1> QED BY <1>1 DEF ToUser, LoopTypeOK

(* Hearing a packet does not change who holds the slot. *)
LEMMA HearingKeepsHolder ==
    ASSUME NEW c \in Connection2, NEW m \in Packets,
           NEW d \in {Received(c, TRUE, m), Heard(c, m)}
    PROVE  /\ d \in Connection2
           /\ d.used = c.used /\ d.is_udp = c.is_udp /\ d.from = c.from
<1>1. CASE d = Heard(c, m)
  BY <1>1 DEF Heard, Connection2
<1>2. CASE d = Received(c, TRUE, m)
  <2>1. TRUE \in BOOLEAN
    OBVIOUS
  <2>2. \A k \in BOOLEAN :
           /\ Received(c, k, m) \in Connection2
           /\ Received(c, k, m).used = c.used
           /\ Received(c, k, m).is_udp = c.is_udp
           /\ Received(c, k, m).from = c.from
    BY SlotOps
  <2> QED BY <1>2, <2>1, <2>2, Zenon
<1> QED BY <1>1, <1>2

(* Nor does a whole datagram. *)
LEMMA AfterDatagramKeepsHolder ==
    ASSUME NEW c \in Connection2, NEW m \in Packets
    PROVE  /\ AfterDatagram(c, m) \in Connection2
           /\ AfterDatagram(c, m).used = c.used
           /\ AfterDatagram(c, m).is_udp = c.is_udp
           /\ AfterDatagram(c, m).from = c.from
<1> DEFINE d == [c EXCEPT !.idle = FALSE]
<1>1. d \in Connection2 /\ d.used = c.used /\ d.is_udp = c.is_udp
      /\ d.from = c.from
  BY DEF Connection2
<1>2. AfterDatagram(c, m) \in {Received(d, TRUE, m), Heard(d, m)}
  BY DEF AfterDatagram
<1> HIDE DEF d
<1> QED BY <1>1, <1>2, HearingKeepsHolder

(* The engineer sections are table steps. *)
LEMMA EngineerSideIsGood ==
    ASSUME LoopTypeOK, EngineerSide
    PROVE  GoodStep
<1>1. CASE UdpEngineerError
  BY <1>1, BreakIsGood DEF UdpEngineerError, ExitReasons
<1>2. ASSUME NEW i \in Slots, NEW e \in Peers, NEW m \in Packets,
             NEW h \in BOOLEAN, NEW r \in BOOLEAN,
             UdpEngineerData(i, e, m, h, r)
      PROVE  GoodStep
  <2>1. conn2[i] \in Connection2
    BY DEF LoopTypeOK
  <2>2. TableClosed({})
    <3>1. conn2' = [conn2 EXCEPT ![i] = AfterDatagram(conn2[i], m)]
      BY <1>2 DEF UdpEngineerData
    <3>2. UNCHANGED <<conn2_count, max_conn2_count>>
      BY <1>2 DEF UdpEngineerData
    <3> QED BY <2>1, <3>1, <3>2, AfterDatagramKeepsHolder, TouchIsTableStep
  <2>3. conn1' \in User
    BY <1>2, ToUserIsGood DEF UdpEngineerData
  <2>4. Goto(3) /\ UNCHANGED <<p, sock1_udp, sock1_tcp>>
    BY <1>2 DEF UdpEngineerData, TCP_USER_ACCEPT
  <2>5. ScalarsOK'
    BY <2>3, <2>4, Sections, ScalarsKept DEF LoopTypeOK
  <2> QED BY <2>2, <2>5 DEF GoodStep, TableStep
<1>3. ASSUME NEW i \in Slots, NEW e \in Peers, NEW m \in Packets,
             NEW h \in BOOLEAN, NEW r \in BOOLEAN,
             UdpEngineerNew(i, e, m, h, r)
      PROVE  GoodStep
  <2> DEFINE c == [Closed(conn2[i]) EXCEPT !.used = TRUE, !.is_udp = TRUE,
                                           !.from = e, !.tcp_active = TRUE]
  <2>1. c \in Connection2 /\ c.used /\ c.is_udp /\ c.from = e
    <3>1. conn2[i] \in Connection2
      BY DEF LoopTypeOK
    <3>2. Closed(conn2[i]) \in Connection2
      BY <3>1, ClosedSlot
    <3> QED BY <3>2 DEF Connection2
  <2>2. NewUdp(i, e) \in Connection2 /\ NewUdp(i, e).used
        /\ NewUdp(i, e).is_udp /\ NewUdp(i, e).from = e
    BY <2>1, SlotOps DEF NewUdp
  <2>3. TableTaken(i)
    <3> DEFINE d == AfterDatagram(NewUdp(i, e), m)
    <3>1. d \in Connection2 /\ d.used /\ d.is_udp /\ d.from = e
      BY <2>2, AfterDatagramKeepsHolder
    <3>2. Take(i, d) /\ FirstFree(i) /\ ~Known(e)
      BY <1>3 DEF UdpEngineerNew
    <3> HIDE DEF d
    <3> QED BY <3>1, <3>2, TakeIsTableStep
  <2>4. conn1' \in User
    BY <1>3, ToUserIsGood DEF UdpEngineerNew
  <2>5. Goto(3) /\ UNCHANGED <<p, sock1_udp, sock1_tcp>>
    BY <1>3 DEF UdpEngineerNew, TCP_USER_ACCEPT
  <2>6. ScalarsOK'
    BY <2>4, <2>5, Sections, ScalarsKept DEF LoopTypeOK
  <2> QED BY <2>3, <2>6 DEF GoodStep, TableStep
<1>4. ASSUME NEW e \in Peers, UdpEngineerFull(e) PROVE GoodStep
  <2>1. Goto(3) /\ UNCHANGED <<p, sock1_udp, sock1_tcp, conn1, tableVars>>
    BY <1>4 DEF UdpEngineerFull, TCP_USER_ACCEPT
  <2>2. ScalarsOK'
    BY <2>1, Sections, ScalarsKept DEF LoopTypeOK
  <2> QED BY <2>1, <2>2, KeptIsTableStep DEF GoodStep, TableStep
<1>5. ASSUME NEW e \in Peers, NEW m \in Packets, UdpEngineerSendFailed(e, m)
      PROVE  GoodStep
  BY <1>5, BreakIsGood DEF UdpEngineerSendFailed, ExitReasons
<1>6. ASSUME NEW i \in Slots, NEW s \in Streams, TcpEngineerAccept(i, s)
      PROVE  GoodStep
  <2> DEFINE c == [Closed(conn2[i]) EXCEPT !.used = TRUE, !.speaks = s]
  <2>1. c \in Connection2 /\ c.used /\ ~c.is_udp
    <3>1. conn2[i] \in Connection2
      BY DEF LoopTypeOK
    <3>2. Closed(conn2[i]) \in Connection2 /\ ~Closed(conn2[i]).is_udp
      BY <3>1 DEF Closed, FreeSlot, Connection2
    <3> QED BY <3>2, InputAssumption DEF Connection2
  <2>2. InitMav(c) \in Connection2 /\ InitMav(c).used /\ ~InitMav(c).is_udp
    <3> HIDE DEF c
    <3> QED BY <2>1 DEF InitMav, Connection2
  <2>3. Take(i, InitMav(c)) /\ FirstFree(i)
    BY <1>6 DEF TcpEngineerAccept
  <2>4. TableTaken(i)
    <3> HIDE DEF c
    <3> QED BY <2>2, <2>3, TakeIsTableStep
  <2>5. Goto(0) /\ UNCHANGED <<p, sock1_udp, sock1_tcp, conn1>>
    BY <1>6 DEF TcpEngineerAccept, Continue
  <2>6. ScalarsOK'
    BY <2>5, Sections, ScalarsKept DEF LoopTypeOK
  <2> QED BY <2>4, <2>6 DEF GoodStep, TableStep
<1>7. CASE TcpEngineerRefuse
  <2>1. Goto(0) /\ UNCHANGED <<p, sock1_udp, sock1_tcp, conn1, tableVars>>
    BY <1>7 DEF TcpEngineerRefuse, Continue
  <2>2. ScalarsOK'
    BY <2>1, Sections, ScalarsKept DEF LoopTypeOK
  <2> QED BY <2>1, <2>2, KeptIsTableStep DEF GoodStep, TableStep
<1>8. ASSUME NEW i \in Slots, TcpEngineerEof(i) PROVE GoodStep
  <2>1. {i} \in SUBSET Used /\ {i} \in SUBSET Slots
    BY <1>8 DEF TcpEngineerEof, TcpEngineerReady, Scanned
  <2>2. TableClosed({i})
    BY <1>8, <2>1, CloseAllIsTableStep DEF TcpEngineerEof
  <2>3. /\ Goto(TCP_ENGINEER(i + 1))
        /\ UNCHANGED <<p, sock1_udp, sock1_tcp, conn1>>
    BY <1>8 DEF TcpEngineerEof
  <2>4. ScalarsOK'
    BY <2>3, Sections, ScalarsKept DEF LoopTypeOK
  <2> QED BY <2>1, <2>2, <2>4 DEF GoodStep, TableStep
<1>9. ASSUME NEW i \in Slots, NEW d \in BOOLEAN, TcpEngineerPartial(i, d)
      PROVE  GoodStep
  <2> DEFINE c == [conn2[i] EXCEPT !.ws = @ \/ d]
  <2>1. c \in Connection2 /\ c.used = conn2[i].used
        /\ c.is_udp = conn2[i].is_udp /\ c.from = conn2[i].from
    BY DEF LoopTypeOK, Connection2
  <2>2. conn2' = [conn2 EXCEPT ![i] = c]
    BY <1>9 DEF TcpEngineerPartial
  <2>3. /\ Goto(TCP_ENGINEER(i + 1))
        /\ UNCHANGED <<p, sock1_udp, sock1_tcp, conn1>>
        /\ UNCHANGED <<conn2_count, max_conn2_count>>
    BY <1>9 DEF TcpEngineerPartial
  <2>4. TableClosed({})
    <3> HIDE DEF c
    <3> QED BY <2>1, <2>2, <2>3, TouchIsTableStep
  <2>5. ScalarsOK'
    BY <2>3, Sections, ScalarsKept DEF LoopTypeOK
  <2> QED BY <2>4, <2>5 DEF GoodStep, TableStep
<1>10. ASSUME NEW i \in Slots, NEW m \in Packets, NEW h \in BOOLEAN,
              NEW r \in BOOLEAN, NEW f \in BOOLEAN,
              TcpEngineerData(i, m, h, r, f)
       PROVE  GoodStep
  <2> DEFINE c == [conn2[i] EXCEPT
                      !.tcp_active = TRUE,
                      !.ws = @ \/ (EngineerUndecided(conn2[i])
                                   /\ conn2[i].speaks = "ws")]
             d == IF UserDecided THEN Received(c, TRUE, m) ELSE Heard(c, m)
  <2>1. c \in Connection2 /\ c.used = conn2[i].used
        /\ c.is_udp = conn2[i].is_udp /\ c.from = conn2[i].from
    BY DEF LoopTypeOK, Connection2
  <2>2. d \in Connection2 /\ d.used = conn2[i].used
        /\ d.is_udp = conn2[i].is_udp /\ d.from = conn2[i].from
    <3> HIDE DEF c
    <3>1. d \in {Received(c, TRUE, m), Heard(c, m)}
      OBVIOUS
    <3> HIDE DEF d
    <3> QED BY <2>1, <3>1, HearingKeepsHolder
  <2>3. conn2' = [conn2 EXCEPT ![i] = d]
    BY <1>10 DEF TcpEngineerData
  <2>4. /\ Goto(IF f THEN TAIL ELSE TCP_ENGINEER(i + 1))
        /\ UNCHANGED <<p, sock1_udp, sock1_tcp>>
        /\ UNCHANGED <<conn2_count, max_conn2_count>>
    BY <1>10 DEF TcpEngineerData
  <2>5. TableClosed({})
    <3> HIDE DEF d
    <3> QED BY <2>2, <2>3, <2>4, TouchIsTableStep
  <2>6. conn1' \in User
    BY <1>10, ToUserIsGood DEF TcpEngineerData
  <2>7. ScalarsOK'
    <3> DEFINE s == IF f THEN TAIL ELSE TCP_ENGINEER(i + 1)
    <3>1. s \in 0 .. TAIL
      BY Sections
    <3> HIDE DEF s
    <3> QED BY <2>4, <2>6, <3>1, ScalarsKept DEF s, LoopTypeOK
  <2> QED BY <2>5, <2>7 DEF GoodStep, TableStep
<1> QED BY <1>1, <1>2, <1>3, <1>4, <1>5, <1>6, <1>7, <1>8, <1>9, <1>10
        DEF EngineerSide

(* Time passing touches no slot's holder. *)
LEMMA TimeIsGood ==
    ASSUME LoopTypeOK, Time
    PROVE  GoodStep
<1>1. CASE ElapseUser
  <2>1. Aged(conn1) \in User
    BY DEF LoopTypeOK, Aged, User
  <2>2. ScalarsOK'
    BY <1>1, <2>1 DEF ElapseUser, LoopTypeOK, ScalarsOK
  <2> QED BY <1>1, <2>2, KeptIsTableStep DEF ElapseUser, GoodStep, TableStep
<1>2. ASSUME NEW i \in Slots, ElapseEngineer(i) PROVE GoodStep
  <2>1. conn2[i] \in Connection2
    BY DEF LoopTypeOK
  <2>2. /\ Aged(conn2[i]) \in Connection2
        /\ Aged(conn2[i]).used = conn2[i].used
        /\ Aged(conn2[i]).is_udp = conn2[i].is_udp
        /\ Aged(conn2[i]).from = conn2[i].from
    BY <2>1 DEF Aged, Connection2
  <2>3. /\ conn2' = [conn2 EXCEPT ![i] = Aged(conn2[i])]
        /\ UNCHANGED <<conn2_count, max_conn2_count>>
    BY <1>2 DEF ElapseEngineer
  <2>4. TableClosed({})
    BY <2>2, <2>3, TouchIsTableStep
  <2>5. ScalarsOK'
    BY <1>2 DEF ElapseEngineer, LoopTypeOK, ScalarsOK
  <2> QED BY <2>4, <2>5 DEF GoodStep, TableStep
<1> QED BY <1>1, <1>2 DEF Time

(* Every step is a table step. *)
LEMMA NextIsGood ==
    ASSUME LoopTypeOK, [Next]_vars
    PROVE  GoodStep
<1>1. CASE UNCHANGED vars
  <2>1. ScalarsOK'
    BY <1>1 DEF vars, LoopTypeOK, ScalarsOK
  <2> QED BY <1>1, <2>1, KeptIsTableStep DEF vars, GoodStep, TableStep
<1> QED BY <1>1, LoopIsGood, UserSideIsGood, EngineerSideIsGood, TimeIsGood
        DEF Next

-----------------------------------------------------------------------------
(* The inductive invariant of the table.  SlotAccounting needs nothing but *)
(* types; OneSlotPerPeer needs SlotAccounting, which puts every used slot  *)
(* inside the scan of the lookup by address; the range of the two counters *)
(* follows from SlotAccounting.                                            *)
TableInv == LoopTypeOK /\ SlotAccounting /\ OneSlotPerPeer

(* The fresh session has an empty, consistent table. *)
LEMMA TableInvInit == Init => TableInv
<1> SUFFICES ASSUME Init PROVE TableInv
  OBVIOUS
<1>1. FreeSlot \in Connection2 /\ ~FreeSlot.used
  BY DEF FreeSlot, Connection2
<1>2. NoUser \in User
  BY DEF NoUser, User
<1>3. LoopTypeOK
  <2>1. pc \in 0 .. TAIL
    <3>1. 0 \in 0 .. TAIL
      BY Sections
    <3>2. pc = 0
      BY DEF Init
    <3> QED BY <3>1, <3>2
  <2> QED BY <1>1, <1>2, <2>1 DEF Init, LoopTypeOK, ExitReasons
<1>4. Used = {}
  BY <1>1 DEF Init, Used
<1>5. SlotAccounting
  BY <1>4, FS_EmptySet DEF Init, SlotAccounting
<1> QED BY <1>3, <1>4, <1>5 DEF TableInv, OneSlotPerPeer

(* No step of the loop breaks the table. *)
LEMMA TableInvNext == TableInv /\ [Next]_vars => TableInv'
<1> SUFFICES ASSUME TableInv, [Next]_vars PROVE TableInv'
  OBVIOUS
<1>1. LoopTypeOK /\ SlotAccounting /\ OneSlotPerPeer
  BY DEF TableInv
<1>2. ScalarsOK' /\ TableStep
  BY <1>1, NextIsGood DEF GoodStep
<1>3. SlotAccounting'
  BY <1>1, <1>2, CloseKeepsAccounting, TakeKeepsAccounting DEF TableStep
<1>4. OneSlotPerPeer'
  BY <1>1, <1>2, TableKeepsPeers
<1>5. conn2' \in [Slots -> Connection2]
  BY <1>2 DEF TableStep, TableClosed, TableTaken
<1>6. max_conn2_count' \in Nat /\ conn2_count' \in Nat
  <2>1. ASSUME NEW gone \in SUBSET Slots, TableClosed(gone)
        PROVE  max_conn2_count' \in Nat /\ conn2_count' \in Nat
    <3>1. Cardinality(gone) \in Nat
      BY SlotsFinite, FS_Subset, FS_CardinalityType
    <3> QED BY <1>1, <2>1, <3>1 DEF TableClosed, CountClosed, LoopTypeOK
  <2>2. ASSUME NEW i \in Slots, TableTaken(i)
        PROVE  max_conn2_count' \in Nat /\ conn2_count' \in Nat
    BY <1>1, <2>2 DEF TableTaken, LoopTypeOK
  <2> QED BY <1>2, <2>1, <2>2 DEF TableStep
<1>7. LoopTypeOK'
  BY <1>2, <1>5, <1>6 DEF ScalarsOK, LoopTypeOK
<1> QED BY <1>3, <1>4, <1>7 DEF TableInv

(* The inductive invariant holds in every reachable state of main_loop. *)
THEOREM TableInvariant == Spec => []TableInv
BY TableInvInit, TableInvNext, PTL DEF Spec

(* close_conn2 and the two places that take a slot keep conn2_count equal  *)
(* to the number of used slots and max_conn2_count to the highest one + 1, *)
(* for any table size and any order of comings and goings.                 *)
THEOREM SlotAccountingHolds == Spec => []SlotAccounting
<1>1. TableInv => SlotAccounting
  BY DEF TableInv
<1> QED BY <1>1, TableInvariant, PTL

(* No UDP engineer ever holds two slots: the lookup by address over        *)
(* i < max_conn2_count always finds the slot it has.                       *)
THEOREM OneSlotPerPeerHolds == Spec => []OneSlotPerPeer
<1>1. TableInv => OneSlotPerPeer
  BY DEF TableInv
<1> QED BY <1>1, TableInvariant, PTL

(* Type correctness; in particular conn2_count and max_conn2_count never   *)
(* leave 0 .. MAX_COMM2_LINKS, so that the loops over i < max_conn2_count  *)
(* stay inside conn2[].                                                    *)
THEOREM TypeCorrect == Spec => []TypeOK
<1>1. TableInv => TypeOK
  <2> SUFFICES ASSUME TableInv PROVE TypeOK
    OBVIOUS
  <2>1. LoopTypeOK /\ SlotAccounting
    BY DEF TableInv
  <2>2. conn2_count \in 0 .. MAX_COMM2_LINKS
    BY <2>1, SlotsFinite, SizeAssumption DEF SlotAccounting
  <2>3. max_conn2_count \in 0 .. MAX_COMM2_LINKS
    BY <2>1, SizeAssumption DEF SlotAccounting, LoopTypeOK, Used, Slots
  <2> QED BY <2>1, <2>2, <2>3 DEF LoopTypeOK, TypeOK
<1> QED BY <1>1, TableInvariant, PTL

-----------------------------------------------------------------------------
(* The connections: which user-side socket is open, whose signature        *)
(* counts, and that main_loop implements Links.                            *)

(* c counts as authenticated only if it sent a correctly signed packet *)
Honest(c) == c.signed => c.earned

(* Conn1Exclusive is not inductive by itself: a datagram makes a user of   *)
(* whatever conn1 holds, which must not be a leftover TCP user.            *)
UserInv ==
    /\ Conn1Exclusive
    /\ conn1.is_tcp => conn1.have
    /\ Honest(conn1)

(* What a step does to the session as a whole: it ends it and touches      *)
(* nothing else, or keeps the user, or latches one without handing out a   *)
(* slot.                                                                   *)
SessionStep ==
    /\ why = ""
    /\ \/ why' # "" /\ UNCHANGED <<conn1, tableVars>>
       \/ why' = "" /\ conn1'.have = conn1.have
       \/ /\ why' = "" /\ ~conn1.have /\ conn1'.have
          /\ \E gone \in SUBSET Slots : TableClosed(gone)

(* what is shown of every action *)
UserGood == UserInv' /\ SessionStep

-----------------------------------------------------------------------------
(* Only accept and the first datagram change whether and how a user is there. *)
LEMMA UserFields ==
    ASSUME NEW c \in User, NEW m \in Packets, NEW k \in BOOLEAN
    PROVE  /\ Wrote(c).have = c.have /\ Wrote(c).is_tcp = c.is_tcp
           /\ Heard(c, m).have = c.have /\ Heard(c, m).is_tcp = c.is_tcp
           /\ Received(c, k, m).have = c.have
           /\ Received(c, k, m).is_tcp = c.is_tcp
           /\ Aged(c).have = c.have /\ Aged(c).is_tcp = c.is_tcp
BY DEF Wrote, Heard, Received, Aged, User

(* got_signed_packet is raised by a packet whose signature was good. *)
LEMMA SignedMeansHeard ==
    ASSUME NEW s \in BOOLEAN, NEW m \in Packets, NEW k \in BOOLEAN,
           SignedAfter(k, s, m)
    PROVE  s \/ m \in {"good", "setup", "refused"}
BY InputAssumption DEF SignedAfter, PacketKinds

(* Hearing, answering and ageing keep the user's flag earned. *)
LEMMA UserStaysHonest ==
    ASSUME NEW c \in User, Honest(c), NEW m \in Packets, NEW k \in BOOLEAN
    PROVE  /\ Honest(Wrote(c)) /\ Honest(Aged(c))
           /\ Honest(Heard(c, m)) /\ Honest(Received(c, k, m))
<1>1. Honest(Wrote(c)) /\ Honest(Aged(c))
  BY DEF Honest, Wrote, Aged, User
<1>2. /\ Heard(c, m).signed = c.signed
      /\ Heard(c, m).earned = (c.earned \/ m \in {"good", "setup", "refused"})
  BY DEF Heard, User
<1>3. /\ Received(c, k, m).signed = SignedAfter(k, c.signed, m)
      /\ Received(c, k, m).earned
            = (c.earned \/ m \in {"good", "setup", "refused"})
  BY DEF Heard, Received, User
<1>4. c.signed \in BOOLEAN
  BY DEF User
<1> QED BY <1>1, <1>2, <1>3, <1>4, SignedMeansHeard DEF Honest

(* The same of an engineer's slot. *)
LEMMA SlotStaysHonest ==
    ASSUME NEW c \in Connection2, Honest(c), NEW m \in Packets,
           NEW k \in BOOLEAN
    PROVE  /\ Honest(Wrote(c)) /\ Honest(Aged(c))
           /\ Honest(Heard(c, m)) /\ Honest(Received(c, k, m))
<1>1. Honest(Wrote(c)) /\ Honest(Aged(c))
  BY DEF Honest, Wrote, Aged, Connection2
<1>2. /\ Heard(c, m).signed = c.signed
      /\ Heard(c, m).earned = (c.earned \/ m \in {"good", "setup", "refused"})
  BY DEF Heard, Connection2
<1>3. /\ Received(c, k, m).signed = SignedAfter(k, c.signed, m)
      /\ Received(c, k, m).earned
            = (c.earned \/ m \in {"good", "setup", "refused"})
  BY DEF Heard, Received, Connection2
<1>4. c.signed \in BOOLEAN
  BY DEF Connection2
<1> QED BY <1>1, <1>2, <1>3, <1>4, SignedMeansHeard DEF Honest

(* a step that writes to, or ages, the user at most *)
LEMMA UserKept ==
    ASSUME LoopTypeOK, UserInv, why = "", why' = "",
           UNCHANGED <<sock1_udp, sock1_tcp>>,
           conn1' \in {conn1, Wrote(conn1), Aged(conn1)}
    PROVE  UserGood
<1>1. conn1'.have = conn1.have /\ conn1'.is_tcp = conn1.is_tcp
  BY DEF LoopTypeOK, Wrote, Aged, User
<1>2. Honest(conn1')
  BY DEF UserInv, Honest, LoopTypeOK, Wrote, Aged, User
<1>3. Conn1Exclusive'
  BY <1>1 DEF UserInv, Conn1Exclusive
<1> QED BY <1>1, <1>2, <1>3 DEF UserInv, UserGood, SessionStep, Honest

(* Leaving the loop changes nothing of the user. *)
LEMMA BreakKeepsUser ==
    ASSUME UserInv, NEW r, r # "", why = "", Break(r)
    PROVE  UserGood
<1>1. UserInv'
  BY DEF Break, UserInv, Conn1Exclusive, Honest
<1>2. SessionStep
  BY DEF Break, SessionStep
<1> QED BY <1>1, <1>2 DEF UserGood

-----------------------------------------------------------------------------
(* One lemma per part of Next. *)

(* Neither do the top and the tail of the loop. *)
LEMMA LoopKeepsUser ==
    ASSUME LoopTypeOK, UserInv, Loop \/ LoopTail
    PROVE  UserGood
<1>1. ASSUME NEW drops, LoopTop(drops) PROVE UserGood
  <2>1. why = "" /\ why' = "" /\ UNCHANGED <<sock1_udp, sock1_tcp, conn1>>
    BY <1>1 DEF LoopTop, Goto
  <2> QED BY <2>1, UserKept
<1>2. CASE LeaveTop
  BY <1>2, BreakKeepsUser DEF LeaveTop
<1>3. ASSUME NEW s, NEW drops, Tail(s, drops) PROVE UserGood
  <2>1. why = "" /\ why' = "" /\ UNCHANGED <<sock1_udp, sock1_tcp>>
    BY <1>3 DEF Tail, At, Continue, Goto
  <2>2. conn1' \in {conn1, Wrote(conn1)}
    BY <1>3 DEF Tail, BinlogTick
  <2> QED BY <2>1, <2>2, UserKept
<1>4. CASE LeaveTail
  BY <1>4, BreakKeepsUser DEF LeaveTail, At
<1> QED BY <1>1, <1>2, <1>3, <1>4 DEF Loop, LoopTail

(* The engineer sections write to the user at most. *)
LEMMA EngineerSideKeepsUser ==
    ASSUME LoopTypeOK, UserInv, EngineerSide
    PROVE  UserGood
<1>1. CASE UdpEngineerError
  BY <1>1, BreakKeepsUser DEF UdpEngineerError, UdpEngineerReady, At
<1>2. ASSUME NEW i, NEW e, NEW m, NEW h, NEW r,
             UdpEngineerData(i, e, m, h, r) \/ UdpEngineerNew(i, e, m, h, r)
      PROVE  UserGood
  <2>1. why = "" /\ why' = "" /\ UNCHANGED <<sock1_udp, sock1_tcp>>
    BY <1>2 DEF UdpEngineerData, UdpEngineerNew, UdpEngineerReady, At, Goto
  <2>2. ToUser(h, r /\ Forwards(m))
    BY <1>2 DEF UdpEngineerData, UdpEngineerNew
  <2>3. conn1' \in {conn1, Wrote(conn1)}
    BY <2>2 DEF ToUser
  <2> QED BY <2>1, <2>3, UserKept
<1>3. ASSUME NEW e, UdpEngineerFull(e) PROVE UserGood
  <2>1. why = "" /\ why' = "" /\ UNCHANGED <<sock1_udp, sock1_tcp, conn1>>
    BY <1>3 DEF UdpEngineerFull, UdpEngineerReady, At, Goto
  <2> QED BY <2>1, UserKept
<1>4. ASSUME NEW e, NEW m, UdpEngineerSendFailed(e, m) PROVE UserGood
  BY <1>4, BreakKeepsUser DEF UdpEngineerSendFailed, UdpEngineerReady, At
<1>5. ASSUME NEW i, NEW s, TcpEngineerAccept(i, s) PROVE UserGood
  <2>1. why = "" /\ why' = "" /\ UNCHANGED <<sock1_udp, sock1_tcp, conn1>>
    BY <1>5 DEF TcpEngineerAccept, At, Continue, Goto
  <2> QED BY <2>1, UserKept
<1>6. CASE TcpEngineerRefuse
  <2>1. why = "" /\ why' = "" /\ UNCHANGED <<sock1_udp, sock1_tcp, conn1>>
    BY <1>6 DEF TcpEngineerRefuse, At, Continue, Goto
  <2> QED BY <2>1, UserKept
<1>7. ASSUME NEW i, NEW d, TcpEngineerEof(i) \/ TcpEngineerPartial(i, d)
      PROVE  UserGood
  <2>1. why = "" /\ why' = "" /\ UNCHANGED <<sock1_udp, sock1_tcp, conn1>>
    BY <1>7 DEF TcpEngineerEof, TcpEngineerPartial, TcpEngineerReady, At, Goto
  <2> QED BY <2>1, UserKept
<1>8. ASSUME NEW i, NEW m, NEW h, NEW r, NEW f, TcpEngineerData(i, m, h, r, f)
      PROVE  UserGood
  <2>1. why = "" /\ why' = "" /\ UNCHANGED <<sock1_udp, sock1_tcp>>
    BY <1>8 DEF TcpEngineerData, TcpEngineerReady, At, Goto
  <2>2. ToUser(h, r /\ Forwards(m))
    BY <1>8 DEF TcpEngineerData
  <2>3. conn1' \in {conn1, Wrote(conn1)}
    BY <2>2 DEF ToUser
  <2> QED BY <2>1, <2>3, UserKept
<1> QED BY <1>1, <1>2, <1>3, <1>4, <1>5, <1>6, <1>7, <1>8 DEF EngineerSide

(* Time passing only ages the user. *)
LEMMA TimeKeepsUser ==
    ASSUME LoopTypeOK, UserInv, Time
    PROVE  UserGood
<1>1. CASE ElapseUser
  BY <1>1, UserKept DEF ElapseUser
<1>2. ASSUME NEW i, ElapseEngineer(i) PROVE UserGood
  BY <1>2, UserKept DEF ElapseEngineer
<1> QED BY <1>1, <1>2 DEF Time

(* what ParseUser makes of connection c *)
LEMMA ParseUserKeeps ==
    ASSUME LoopTypeOK, NEW c \in User, Honest(c), NEW m \in Packets,
           NEW h, NEW dead, NEW reached, ParseUser(c, m, h, dead, reached)
    PROVE  /\ conn1'.have = c.have /\ conn1'.is_tcp = c.is_tcp
           /\ Honest(conn1')
<1>1. p.bidi \in BOOLEAN
  BY InputAssumption DEF LoopTypeOK
<1>2. conn1' \in {Received(c, p.bidi, m), Heard(c, m)}
  BY DEF ParseUser
<1> QED BY <1>1, <1>2, UserFields, UserStaysHonest

(* a datagram on the UDP socket: there is no TCP user *)
LEMMA UdpMeansUdp ==
    ASSUME UserInv, sock1_udp
    PROVE  ~conn1.is_tcp
BY DEF UserInv, Conn1Exclusive

(* data on the connected TCP socket: its user is there *)
LEMMA TcpMeansTcp ==
    ASSUME UserInv, sock1_tcp = "conn"
    PROVE  conn1.have /\ conn1.is_tcp
BY DEF UserInv, Conn1Exclusive

(* A datagram latches the user it came from, on UDP alone. *)
LEMMA UdpUserKeepsUser ==
    ASSUME LoopTypeOK, UserInv, UdpUserReady, NEW m \in Packets,
           \/ UdpUserReject(m)
           \/ UdpUserValidate(m)
           \/ \E h \in BOOLEAN, dead, reached \in SUBSET Slots :
                 UdpUserData(m, h, dead, reached)
    PROVE  UserGood
<1>1. why = "" /\ sock1_udp /\ ~conn1.is_tcp
  BY UdpMeansUdp DEF UdpUserReady, At
<1>2. /\ Received(conn1, TRUE, m) \in User
      /\ Received(conn1, TRUE, m).have = conn1.have
      /\ Received(conn1, TRUE, m).is_tcp = conn1.is_tcp
      /\ Honest(Received(conn1, TRUE, m))
  BY UserOps, UserFields, UserStaysHonest DEF LoopTypeOK, UserInv
<1>3. CASE UdpUserReject(m)
  <2>1. conn1' = [Received(conn1, TRUE, m) EXCEPT !.active = TRUE]
    BY <1>3 DEF UdpUserReject
  <2>2. conn1'.have = conn1.have /\ ~conn1'.is_tcp /\ Honest(conn1')
    BY <1>1, <1>2, <2>1 DEF User, Honest
  <2>3. ~conn1.have /\ sock1_tcp' = "closed" /\ why' = ""
    BY <1>1, <1>3 DEF UdpUserReject, Continue, Goto
  <2>4. UserInv'
    BY <2>2, <2>3 DEF UserInv, Conn1Exclusive, Honest
  <2> QED BY <1>1, <2>2, <2>3, <2>4 DEF UserGood, SessionStep
<1>4. CASE UdpUserValidate(m)
  <2>1. conn1' = [Received(conn1, TRUE, m) EXCEPT
                     !.have = TRUE, !.active = TRUE,
                     !.pre = FALSE, !.idle = FALSE]
    BY <1>4 DEF UdpUserValidate
  <2>2. conn1'.have /\ ~conn1'.is_tcp /\ Honest(conn1')
    BY <1>1, <1>2, <2>1 DEF User, Honest
  <2>3. /\ ~conn1.have /\ sock1_tcp' = "closed" /\ why' = ""
        /\ sock1_udp' = sock1_udp
    BY <1>1, <1>4 DEF UdpUserValidate, Goto
  <2>4. UserInv'
    BY <1>1, <2>2, <2>3 DEF UserInv, Conn1Exclusive, Honest
  <2>5. TableClosed({})
    BY <1>4, KeptIsTableStep DEF UdpUserValidate
  <2> QED BY <1>1, <2>2, <2>3, <2>4, <2>5 DEF UserGood, SessionStep
<1>5. ASSUME NEW h \in BOOLEAN, NEW dead \in SUBSET Slots,
             NEW reached \in SUBSET Slots, UdpUserData(m, h, dead, reached)
      PROVE  UserGood
  <2> DEFINE c == [conn1 EXCEPT !.have = TRUE, !.active = TRUE,
                                !.pre = @ /\ conn1.have, !.idle = FALSE]
  <2>1. c \in User /\ c.have /\ ~c.is_tcp /\ Honest(c)
    BY <1>1 DEF LoopTypeOK, User, UserInv, Honest
  <2>2. ParseUser(c, m, h, dead, reached)
    BY <1>5 DEF UdpUserData
  <2>3. conn1'.have /\ ~conn1'.is_tcp /\ Honest(conn1')
    <3> HIDE DEF c
    <3> QED BY <2>1, <2>2, ParseUserKeeps
  <2>4. TableClosed(dead)
    <3> HIDE DEF c
    <3> QED BY <2>1, <2>2, ParseUserIsTableStep
  <2>5. why' = "" /\ sock1_tcp' = "closed" /\ sock1_udp' = sock1_udp
    BY <1>1, <1>5 DEF UdpUserData, Goto
  <2>6. UserInv'
    BY <1>1, <2>3, <2>5 DEF UserInv, Conn1Exclusive, Honest
  <2>7. conn1.have \in BOOLEAN /\ conn1'.have \in BOOLEAN
    <3> HIDE DEF c
    <3>1. conn1' \in User /\ conn1 \in User
      BY <2>1, <2>2, ParseUserIsTableStep DEF LoopTypeOK
    <3> QED BY <3>1 DEF User
  <2> QED BY <1>1, <2>3, <2>4, <2>5, <2>6, <2>7 DEF UserGood, SessionStep
<1> QED BY <1>3, <1>4, <1>5

(* An accepted user is on TCP alone, and reads keep it there. *)
LEMMA TcpUserKeepsUser ==
    ASSUME LoopTypeOK, UserInv,
           \/ \E s \in Streams : TcpUserAccept(s)
           \/ TcpUserMore \/ TcpUserPartial
           \/ \E m \in Packets, h \in BOOLEAN, dead, reached \in SUBSET Slots :
                 TcpUserData(m, h, dead, reached)
    PROVE  UserGood
<1>1. ASSUME NEW s \in Streams, TcpUserAccept(s) PROVE UserGood
  <2>1. /\ why = "" /\ why' = "" /\ ~conn1.have
        /\ ~sock1_udp' /\ sock1_tcp' = "conn"
    BY <1>1 DEF TcpUserAccept, TcpUserAcceptReady, At, Continue, Goto
  <2>2. conn1'.have /\ conn1'.is_tcp /\ ~conn1'.signed
    BY <1>1 DEF TcpUserAccept, NoUser
  <2>3. UserInv'
    BY <2>1, <2>2 DEF UserInv, Conn1Exclusive, Honest
  <2>4. TableClosed({})
    BY <1>1, KeptIsTableStep DEF TcpUserAccept
  <2> QED BY <2>1, <2>2, <2>3, <2>4 DEF UserGood, SessionStep
<1>2. ASSUME TcpUserReady, why' = "", ~sock1_udp', sock1_tcp' = sock1_tcp,
             conn1'.have = conn1.have, conn1'.is_tcp = conn1.is_tcp,
             Honest(conn1')
      PROVE  UserGood
  <2>1. why = "" /\ sock1_tcp = "conn" /\ conn1.have /\ conn1.is_tcp
    BY <1>2, TcpMeansTcp DEF TcpUserReady, At
  <2>2. UserInv'
    BY <1>2, <2>1 DEF UserInv, Conn1Exclusive, Honest
  <2> QED BY <1>2, <2>1, <2>2 DEF UserGood, SessionStep
<1>3. UserRead \in User /\ UserRead.have = conn1.have
      /\ UserRead.is_tcp = conn1.is_tcp /\ Honest(UserRead)
  BY DEF UserRead, LoopTypeOK, User, UserInv, Honest
<1>4. CASE TcpUserMore
  <2>1. /\ TcpUserReady /\ why' = "" /\ ~sock1_udp'
        /\ UNCHANGED <<sock1_tcp, conn1>>
    BY <1>4 DEF TcpUserMore, TcpUserReady, At, Continue, Goto
  <2>2. Honest(conn1')
    BY <2>1 DEF UserInv, Honest
  <2> QED BY <1>2, <2>1, <2>2
<1>5. CASE TcpUserPartial
  <2>1. /\ TcpUserReady /\ why' = "" /\ ~sock1_udp'
        /\ UNCHANGED sock1_tcp /\ conn1' = UserRead
    BY <1>5 DEF TcpUserPartial, TcpUserReady, At, Goto
  <2> QED BY <1>2, <1>3, <2>1
<1>6. ASSUME NEW m \in Packets, NEW h \in BOOLEAN,
             NEW dead \in SUBSET Slots, NEW reached \in SUBSET Slots,
             TcpUserData(m, h, dead, reached)
      PROVE  UserGood
  <2>1. /\ TcpUserReady /\ why' = "" /\ ~sock1_udp'
        /\ UNCHANGED sock1_tcp
    BY <1>6 DEF TcpUserData, TcpUserReady, At, Goto
  <2>2. ParseUser(UserRead, m, h, dead, reached)
    BY <1>6 DEF TcpUserData
  <2>3. conn1'.have = conn1.have /\ conn1'.is_tcp = conn1.is_tcp
        /\ Honest(conn1')
    BY <1>3, <2>2, ParseUserKeeps
  <2> QED BY <1>2, <2>1, <2>3
<1> QED BY <1>1, <1>4, <1>5, <1>6

(* The two user sections keep the user's invariant. *)
LEMMA UserSideKeepsUser ==
    ASSUME LoopTypeOK, UserInv, UserSide
    PROVE  UserGood
<1>1. CASE UdpUserError \/ TcpUserAcceptError \/ TcpUserEof
  BY <1>1, BreakKeepsUser
     DEF UdpUserError, UdpUserReady, TcpUserAcceptError, TcpUserAcceptReady,
         TcpUserEof, TcpUserReady, At
<1>2. ASSUME NEW m \in Packets, UdpUserReject(m) \/ UdpUserValidate(m)
      PROVE  UserGood
  BY <1>2, UdpUserKeepsUser DEF UdpUserReject, UdpUserValidate
<1>3. ASSUME NEW m \in Packets, NEW h \in BOOLEAN,
             NEW dead \in SUBSET Slots, NEW reached \in SUBSET Slots,
             UdpUserData(m, h, dead, reached)
      PROVE  UserGood
  BY <1>3, UdpUserKeepsUser DEF UdpUserData
<1>4. ASSUME NEW m \in Packets, NEW h \in BOOLEAN,
             NEW dead \in SUBSET Slots, NEW reached \in SUBSET Slots,
             TcpUserData(m, h, dead, reached)
      PROVE  UserGood
  BY <1>4, TcpUserKeepsUser
<1> QED BY <1>1, <1>2, <1>3, <1>4, TcpUserKeepsUser DEF UserSide

-----------------------------------------------------------------------------
(* The same for the engineers.  A free slot may hold the authentication of *)
(* its last holder; MAVLink::init clears it before the slot is used again. *)
SlotsHonest == \A i \in Used : Honest(conn2[i])

(* A step that leaves the table alone keeps every slot's flag earned. *)
LEMMA SlotsKeptHonest ==
    ASSUME SlotsHonest, UNCHANGED conn2
    PROVE  SlotsHonest'
BY DEF SlotsHonest, Used, Honest

(* So does closing slots. *)
LEMMA CloseAllKeepsHonest ==
    ASSUME LoopTypeOK, SlotsHonest, NEW gone \in SUBSET Used, CloseAll(gone)
    PROVE  SlotsHonest'
<1>1. \A i \in Used' : i \in Used /\ conn2'[i] = conn2[i]
  BY DEF CloseAll, Used, Closed, FreeSlot
<1> QED BY <1>1 DEF SlotsHonest, Honest

(* So does forwarding what the user sent. *)
LEMMA ParseUserKeepsHonest ==
    ASSUME LoopTypeOK, SlotsHonest, NEW c, NEW m, NEW h,
           NEW dead, NEW reached, ParseUser(c, m, h, dead, reached)
    PROVE  SlotsHonest'
<1>1. CASE UNCHANGED tableVars
  BY <1>1, SlotsKeptHonest DEF tableVars
<1>2. CASE ToEngineers(h, dead, reached)
  <2>1. \A i \in Slots : /\ ~Closed(conn2[i]).used
                         /\ Wrote(conn2[i]).used = conn2[i].used
                         /\ Wrote(conn2[i]).signed = conn2[i].signed
                         /\ Wrote(conn2[i]).earned = conn2[i].earned
    BY DEF Closed, FreeSlot, Wrote, LoopTypeOK, Connection2
  <2>2. \A i \in Slots : conn2'[i] \in {Closed(conn2[i]), Wrote(conn2[i]),
                                         conn2[i]}
    BY <1>2 DEF ToEngineers
  <2> QED BY <2>1, <2>2 DEF SlotsHonest, Used, Honest
<1> QED BY <1>1, <1>2 DEF ParseUser

(* a step that changes slot i only *)
LEMMA TouchKeepsHonest ==
    ASSUME LoopTypeOK, SlotsHonest, NEW i \in Slots, NEW c,
           conn2' = [conn2 EXCEPT ![i] = c], Honest(c)
    PROVE  SlotsHonest'
BY DEF LoopTypeOK, SlotsHonest, Used, Honest

(* A datagram raises the flag only with a good signature. *)
LEMMA AfterDatagramHonest ==
    ASSUME NEW c \in Connection2, Honest(c), NEW m \in Packets
    PROVE  Honest(AfterDatagram(c, m))
<1> DEFINE d == [c EXCEPT !.idle = FALSE]
<1>1. d \in Connection2 /\ Honest(d)
  BY DEF Connection2, Honest
<1>2. AfterDatagram(c, m) \in {Received(d, TRUE, m), Heard(d, m)}
  BY DEF AfterDatagram
<1> HIDE DEF d
<1> QED BY <1>1, <1>2, SlotStaysHonest

(* No step raises a slot's flag without a good signature. *)
LEMMA SlotsStayHonest ==
    ASSUME LoopTypeOK, SlotsHonest, [Next]_vars
    PROVE  SlotsHonest'
<1>1. CASE UNCHANGED conn2
  BY <1>1, SlotsKeptHonest
<1>2. ASSUME NEW drops \in SUBSET (0 .. MAX_COMM2_LINKS), LoopTop(drops)
      PROVE  SlotsHonest'
  <2> DEFINE gone == DropTargets(drops) \cup
                     {i \in Scanned : Expired(conn2[i])}
  <2>1. gone \in SUBSET Used
    BY DEF DropTargets, Scanned
  <2> QED BY <1>2, <2>1, CloseAllKeepsHonest DEF LoopTop
<1>3. ASSUME NEW s, NEW drops, Tail(s, drops) PROVE SlotsHonest'
  <2>1. DropTargets(drops) \in SUBSET Used
    BY DEF DropTargets
  <2> QED BY <1>3, <2>1, CloseAllKeepsHonest DEF Tail
<1>4. ASSUME NEW r, Break(r) PROVE SlotsHonest'
  BY <1>4, SlotsKeptHonest DEF Break, tableVars
<1>5. CASE UserSide
  <2>1. ASSUME NEW m, NEW h, NEW dead, NEW reached,
               \/ UdpUserData(m, h, dead, reached)
               \/ TcpUserData(m, h, dead, reached)
        PROVE  SlotsHonest'
    BY <2>1, ParseUserKeepsHonest DEF UdpUserData, TcpUserData
  <2>2. ASSUME NEW m, UdpUserReject(m) \/ UdpUserValidate(m)
        PROVE  SlotsHonest'
    BY <1>1, <2>2 DEF UdpUserReject, UdpUserValidate, tableVars
  <2>3. ASSUME NEW s, TcpUserAccept(s) PROVE SlotsHonest'
    BY <1>1, <2>3 DEF TcpUserAccept, tableVars
  <2>4. CASE UdpUserError \/ TcpUserAcceptError \/ TcpUserEof
    BY <1>4, <2>4 DEF UdpUserError, TcpUserAcceptError, TcpUserEof
  <2>5. CASE TcpUserMore \/ TcpUserPartial
    BY <1>1, <2>5 DEF TcpUserMore, TcpUserPartial, tableVars
  <2> QED BY <1>5, <2>1, <2>2, <2>3, <2>4, <2>5 DEF UserSide
<1>6. ASSUME NEW i \in Slots, i \in Used PROVE Honest(conn2[i])
  BY <1>6 DEF SlotsHonest
<1>7. \A i \in Slots : conn2[i] \in Connection2
  BY DEF LoopTypeOK
<1>8. ASSUME NEW i \in Slots, NEW e \in Peers, NEW m \in Packets, NEW h, NEW r,
             UdpEngineerData(i, e, m, h, r)
      PROVE  SlotsHonest'
  <2>1. i \in Used /\ conn2' = [conn2 EXCEPT ![i] = AfterDatagram(conn2[i], m)]
    BY <1>8 DEF UdpEngineerData, SlotOf, Scanned
  <2>2. Honest(AfterDatagram(conn2[i], m))
    BY <1>6, <1>7, <2>1, AfterDatagramHonest
  <2> QED BY <2>1, <2>2, TouchKeepsHonest
<1>9. ASSUME NEW i \in Slots, NEW e \in Peers, NEW m \in Packets, NEW h, NEW r,
             UdpEngineerNew(i, e, m, h, r)
      PROVE  SlotsHonest'
  <2>1. NewUdp(i, e) \in Connection2 /\ Honest(NewUdp(i, e))
    <3>1. Closed(conn2[i]) \in Connection2
      BY <1>7 DEF Closed, FreeSlot, Connection2
    <3> QED BY <3>1 DEF NewUdp, InitMav, Connection2, Honest
  <2>2. Honest(AfterDatagram(NewUdp(i, e), m))
    BY <2>1, AfterDatagramHonest
  <2>3. conn2' = [conn2 EXCEPT ![i] = AfterDatagram(NewUdp(i, e), m)]
    BY <1>9 DEF UdpEngineerNew, Take
  <2> QED BY <2>2, <2>3, TouchKeepsHonest
<1>10. ASSUME NEW i \in Slots, NEW s \in Streams, TcpEngineerAccept(i, s)
       PROVE  SlotsHonest'
  <2> DEFINE c == [Closed(conn2[i]) EXCEPT !.used = TRUE, !.speaks = s]
  <2>1. Honest(InitMav(c))
    <3>1. Closed(conn2[i]) \in Connection2
      BY <1>7 DEF Closed, FreeSlot, Connection2
    <3> QED BY <3>1 DEF InitMav, Connection2, Honest
  <2>2. conn2' = [conn2 EXCEPT ![i] = InitMav(c)]
    BY <1>10 DEF TcpEngineerAccept, Take
  <2> HIDE DEF c
  <2> QED BY <2>1, <2>2, TouchKeepsHonest
<1>11. ASSUME NEW i \in Slots, TcpEngineerEof(i) PROVE SlotsHonest'
  <2>1. {i} \in SUBSET Used
    BY <1>11 DEF TcpEngineerEof, TcpEngineerReady, Scanned
  <2> QED BY <1>11, <2>1, CloseAllKeepsHonest DEF TcpEngineerEof
<1>12. ASSUME NEW i \in Slots, NEW d \in BOOLEAN, TcpEngineerPartial(i, d)
       PROVE  SlotsHonest'
  <2> DEFINE c == [conn2[i] EXCEPT !.ws = @ \/ d]
  <2>1. i \in Used /\ conn2' = [conn2 EXCEPT ![i] = c]
    BY <1>12 DEF TcpEngineerPartial, TcpEngineerReady, Scanned
  <2>2. Honest(c)
    BY <1>6, <1>7, <2>1 DEF Honest, Connection2
  <2> HIDE DEF c
  <2> QED BY <2>1, <2>2, TouchKeepsHonest
<1>13. ASSUME NEW i \in Slots, NEW m \in Packets, NEW h, NEW r, NEW f,
              TcpEngineerData(i, m, h, r, f)
       PROVE  SlotsHonest'
  <2> DEFINE c == [conn2[i] EXCEPT
                      !.tcp_active = TRUE,
                      !.ws = @ \/ (EngineerUndecided(conn2[i])
                                   /\ conn2[i].speaks = "ws")]
             d == IF UserDecided THEN Received(c, TRUE, m) ELSE Heard(c, m)
  <2>1. i \in Used /\ conn2' = [conn2 EXCEPT ![i] = d]
    BY <1>13 DEF TcpEngineerData, TcpEngineerReady, Scanned
  <2>2. c \in Connection2 /\ Honest(c)
    BY <1>6, <1>7, <2>1 DEF Honest, Connection2
  <2>3. Honest(d)
    <3> HIDE DEF c
    <3>1. d \in {Received(c, TRUE, m), Heard(c, m)}
      OBVIOUS
    <3> HIDE DEF d
    <3> QED BY <2>2, <3>1, SlotStaysHonest
  <2> HIDE DEF d
  <2> QED BY <2>1, <2>3, TouchKeepsHonest
<1>14. CASE EngineerSide
  <2>1. CASE UdpEngineerError
    BY <1>4, <2>1 DEF UdpEngineerError
  <2>2. ASSUME NEW e, NEW m, UdpEngineerFull(e) \/ UdpEngineerSendFailed(e, m)
        PROVE  SlotsHonest'
    BY <1>1, <1>4, <2>2 DEF UdpEngineerFull, UdpEngineerSendFailed, tableVars
  <2>3. CASE TcpEngineerRefuse
    BY <1>1, <2>3 DEF TcpEngineerRefuse, tableVars
  <2> QED BY <1>8, <1>9, <1>10, <1>11, <1>12, <1>13, <1>14, <2>1, <2>2, <2>3
          DEF EngineerSide
<1>15. ASSUME NEW i \in Slots, ElapseEngineer(i) PROVE SlotsHonest'
  <2>1. i \in Used /\ conn2' = [conn2 EXCEPT ![i] = Aged(conn2[i])]
    BY <1>15 DEF ElapseEngineer
  <2>2. Honest(Aged(conn2[i]))
    BY <1>6, <1>7, <2>1 DEF Honest, Aged, Connection2
  <2> QED BY <2>1, <2>2, TouchKeepsHonest
<1>16. CASE Time
  BY <1>1, <1>15, <1>16 DEF Time, ElapseUser, tableVars
<1>17. CASE Loop
  BY <1>2, <1>4, <1>17 DEF Loop, LeaveTop
<1>18. CASE LoopTail
  BY <1>3, <1>4, <1>18 DEF LoopTail, LeaveTail
<1> QED BY <1>1, <1>5, <1>14, <1>16, <1>17, <1>18 DEF Next, vars, tableVars

-----------------------------------------------------------------------------
SessionInv == TableInv /\ UserInv /\ SlotsHonest

(* No step breaks the user's invariant. *)
LEMMA NextKeepsUser ==
    ASSUME LoopTypeOK, UserInv, Next
    PROVE  UserGood
BY LoopKeepsUser, UserSideKeepsUser, EngineerSideKeepsUser, TimeKeepsUser
   DEF Next

(* The fresh session has no user and no engineer. *)
LEMMA SessionInvInit == Init => SessionInv
<1> SUFFICES ASSUME Init PROVE SessionInv
  OBVIOUS
<1>1. UserInv
  BY DEF Init, NoUser, UserInv, Conn1Exclusive, Honest
<1>2. Used = {}
  BY DEF Init, FreeSlot, Used
<1> QED BY <1>1, <1>2, TableInvInit DEF SessionInv, SlotsHonest

(* No step of the loop breaks the session's invariant. *)
LEMMA SessionInvNext == SessionInv /\ [Next]_vars => SessionInv'
<1> SUFFICES ASSUME SessionInv, [Next]_vars PROVE SessionInv'
  OBVIOUS
<1>1. TableInv /\ LoopTypeOK /\ UserInv /\ SlotsHonest
  BY DEF SessionInv, TableInv
<1>2. TableInv'
  BY <1>1, TableInvNext
<1>3. SlotsHonest'
  BY <1>1, SlotsStayHonest
<1>4. UserInv'
  <2>1. CASE Next
    BY <1>1, <2>1, NextKeepsUser DEF UserGood
  <2>2. CASE UNCHANGED vars
    BY <1>1, <2>2 DEF vars, UserInv, Conn1Exclusive, Honest
  <2> QED BY <2>1, <2>2
<1> QED BY <1>2, <1>3, <1>4 DEF SessionInv

(* The invariant of the whole session, inductive. *)
THEOREM SessionInvariant == Spec => []SessionInv
BY SessionInvInit, SessionInvNext, PTL DEF Spec

(* Whichever transport the user comes in by, and whatever the other one    *)
(* does meanwhile, main_loop keeps exactly the user's socket open.         *)
THEOREM Conn1ExclusiveHolds == Spec => []Conn1Exclusive
<1>1. SessionInv => Conn1Exclusive
  BY DEF SessionInv, UserInv
<1> QED BY <1>1, SessionInvariant, PTL

(* No connection is authenticated by a signature it did not send: slots    *)
(* are re-initialised before they are reused.                              *)
THEOREM AuthEarnedHolds == Spec => []AuthEarned
<1>1. SessionInv => AuthEarned
  BY DEF SessionInv, UserInv, SlotsHonest, AuthEarned, Honest
<1> QED BY <1>1, SessionInvariant, PTL

-----------------------------------------------------------------------------
(* No plain frame to a WebSocket user.  What is inductive: a user that is   *)
(* forwarded to (active) and speaks WebSocket has its WebSocket object, only *)
(* TCP users speak it, and nobody has been heard while the listener is open. *)
Clean(c) ==
    /\ ~c.spoiled
    /\ c.speaks = "ws" => c.is_tcp
    /\ c.speaks = "ws" /\ c.active => c.ws

CleanInv == Clean(conn1) /\ (sock1_tcp = "listen" => ~conn1.active)

NoBinlog == \A e \in Entries : ~e.binlog

(* Hearing and ageing write nothing; a write to a user whose transport is  *)
(* decided goes through its WebSocket if it speaks it.                     *)
LEMMA UserStaysClean ==
    ASSUME NEW c \in User, Clean(c), NEW m, NEW k \in BOOLEAN
    PROVE  /\ Clean(Aged(c)) /\ Clean(Heard(c, m)) /\ Clean(Received(c, k, m))
           /\ c.active => Clean(Wrote(c))
           /\ Aged(c).active = c.active /\ Wrote(c).active = c.active
BY DEF Clean, Aged, Heard, Received, Wrote, User

(* a step that leaves the user's sockets alone *)
LEMMA SameUserClean ==
    ASSUME LoopTypeOK, CleanInv, UNCHANGED sock1_tcp,
           \/ conn1' \in {conn1, Aged(conn1)}
           \/ conn1' = Wrote(conn1) /\ conn1.active
    PROVE  CleanInv'
<1>1. conn1 \in User /\ Clean(conn1)
  BY DEF LoopTypeOK, CleanInv
<1>2. Clean(conn1') /\ conn1'.active = conn1.active
  BY <1>1, UserStaysClean DEF Clean
<1> QED BY <1>2 DEF CleanInv, Clean

(* The engineer sections write to a user whose transport is decided. *)
LEMMA ToUserClean ==
    ASSUME LoopTypeOK, CleanInv, UNCHANGED sock1_tcp, NEW h, NEW r, NEW m,
           ToUser(h, r /\ Forwards(m))
    PROVE  CleanInv'
<1>1. \/ conn1' = conn1
      \/ conn1' = Wrote(conn1) /\ conn1.active
  BY DEF ToUser, Forwards, UserDecided
<1> QED BY <1>1, SameUserClean

(* the user that ParseUser leaves *)
LEMMA ParseUserClean ==
    ASSUME LoopTypeOK, NEW c \in User, Clean(c), NEW m, NEW h, NEW dead,
           NEW reached, ParseUser(c, m, h, dead, reached)
    PROVE  Clean(conn1')
<1>1. p.bidi \in BOOLEAN
  BY InputAssumption DEF LoopTypeOK
<1>2. conn1' \in {Received(c, p.bidi, m), Heard(c, m)}
  BY DEF ParseUser
<1> QED BY <1>1, <1>2, UserStaysClean

(* The user sections: a datagram closes the listener and comes from nobody *)
(* on TCP; the first bytes of a TCP user decide its transport.             *)
LEMMA UserSideClean ==
    ASSUME LoopTypeOK, UserInv, CleanInv, UserSide
    PROVE  CleanInv'
<1>1. conn1 \in User /\ Clean(conn1)
  BY DEF LoopTypeOK, CleanInv
<1>2. CASE UdpUserError \/ TcpUserAcceptError \/ TcpUserEof
  BY <1>2, SameUserClean
     DEF UdpUserError, TcpUserAcceptError, TcpUserEof, Break
<1>3. ASSUME NEW m \in Packets, UdpUserReject(m) \/ UdpUserValidate(m)
      PROVE  CleanInv'
  <2>1. sock1_tcp' = "closed" /\ conn1.speaks # "ws"
    BY <1>1, <1>3, UdpMeansUdp
       DEF UdpUserReject, UdpUserValidate, UdpUserReady, Clean
  <2>2. /\ Received(conn1, TRUE, m) \in User
        /\ Received(conn1, TRUE, m).speaks = conn1.speaks
        /\ Received(conn1, TRUE, m).spoiled = conn1.spoiled
    <3>1. Received(conn1, TRUE, m) \in User
      BY <1>1, UserOps
    <3>2. Heard(conn1, m) \in User
      BY <1>1, UserOps
    <3>3. /\ Heard(conn1, m).speaks = conn1.speaks
          /\ Heard(conn1, m).spoiled = conn1.spoiled
      BY <1>1 DEF Heard, User
    <3>4. /\ Received(conn1, TRUE, m).speaks = Heard(conn1, m).speaks
          /\ Received(conn1, TRUE, m).spoiled = Heard(conn1, m).spoiled
      BY <3>2 DEF Received, User
    <3> QED BY <3>1, <3>3, <3>4
  <2>3. conn1'.speaks = conn1.speaks /\ conn1'.spoiled = conn1.spoiled
    BY <1>3, <2>2 DEF UdpUserReject, UdpUserValidate, User
  <2> QED BY <1>1, <2>1, <2>3 DEF CleanInv, Clean
<1>4. ASSUME NEW m \in Packets, NEW h \in BOOLEAN,
             NEW dead \in SUBSET Slots, NEW reached \in SUBSET Slots,
             UdpUserData(m, h, dead, reached)
      PROVE  CleanInv'
  <2> DEFINE c == [conn1 EXCEPT !.have = TRUE, !.active = TRUE,
                                !.pre = @ /\ conn1.have, !.idle = FALSE]
  <2>1. sock1_tcp' = "closed" /\ conn1.speaks # "ws"
    BY <1>1, <1>4, UdpMeansUdp DEF UdpUserData, UdpUserReady, Clean
  <2>2. c \in User /\ Clean(c)
    BY <1>1, <2>1 DEF User, Clean
  <2>3. ParseUser(c, m, h, dead, reached)
    BY <1>4 DEF UdpUserData
  <2>4. Clean(conn1')
    <3> HIDE DEF c
    <3> QED BY <2>2, <2>3, ParseUserClean
  <2> QED BY <2>1, <2>4 DEF CleanInv, Clean
<1>5. ASSUME NEW s \in Streams, TcpUserAccept(s) PROVE CleanInv'
  <2>1. sock1_tcp' = "conn" /\ ~conn1.active
    BY <1>5 DEF TcpUserAccept, TcpUserAcceptReady, CleanInv
  <2>2. ~conn1'.spoiled /\ conn1'.is_tcp /\ conn1'.active = conn1.active
    BY <1>5 DEF TcpUserAccept, NoUser
  <2> QED BY <2>1, <2>2 DEF CleanInv, Clean
<1>6. CASE TcpUserMore
  BY <1>6, SameUserClean DEF TcpUserMore
<1>7. UserRead \in User /\ Clean(UserRead)
  BY <1>1 DEF UserRead, Undecided, User, Clean
<1>8. CASE TcpUserPartial
  <2>1. sock1_tcp' = "conn" /\ conn1' = UserRead
    BY <1>8 DEF TcpUserPartial, TcpUserReady
  <2> QED BY <1>7, <2>1 DEF CleanInv, Clean
<1>9. ASSUME NEW m \in Packets, NEW h \in BOOLEAN,
             NEW dead \in SUBSET Slots, NEW reached \in SUBSET Slots,
             TcpUserData(m, h, dead, reached)
      PROVE  CleanInv'
  <2>1. sock1_tcp' = "conn" /\ ParseUser(UserRead, m, h, dead, reached)
    BY <1>9 DEF TcpUserData, TcpUserReady
  <2>2. Clean(conn1')
    BY <1>7, <2>1, ParseUserClean
  <2> QED BY <2>1, <2>2 DEF CleanInv, Clean
<1> QED BY <1>2, <1>3, <1>4, <1>5, <1>6, <1>8, <1>9 DEF UserSide

(* No other part of the loop writes to an undecided user; binlog would. *)
LEMMA OthersClean ==
    ASSUME NoBinlog, LoopTypeOK, CleanInv,
           Loop \/ EngineerSide \/ LoopTail \/ Time
    PROVE  CleanInv'
<1>1. ASSUME UNCHANGED <<sock1_tcp, conn1>> PROVE CleanInv'
  BY <1>1, SameUserClean
<1>2. ASSUME NEW r, Break(r) PROVE CleanInv'
  BY <1>1, <1>2 DEF Break
<1>3. CASE Loop
  BY <1>1, <1>2, <1>3 DEF Loop, LoopTop, LeaveTop
<1>4. CASE EngineerSide
  <2>1. ASSUME NEW i, NEW e, NEW m, NEW h, NEW r,
               UdpEngineerData(i, e, m, h, r) \/ UdpEngineerNew(i, e, m, h, r)
        PROVE  CleanInv'
    BY <2>1, ToUserClean DEF UdpEngineerData, UdpEngineerNew
  <2>2. ASSUME NEW i, NEW m, NEW h, NEW r, NEW f,
               TcpEngineerData(i, m, h, r, f)
        PROVE  CleanInv'
    BY <2>2, ToUserClean DEF TcpEngineerData
  <2>3. ASSUME NEW e, NEW m, UdpEngineerFull(e) \/ UdpEngineerSendFailed(e, m)
        PROVE  CleanInv'
    BY <1>1, <1>2, <2>3 DEF UdpEngineerFull, UdpEngineerSendFailed
  <2>4. ASSUME NEW i, NEW s, TcpEngineerAccept(i, s) PROVE CleanInv'
    BY <1>1, <2>4 DEF TcpEngineerAccept
  <2>5. ASSUME NEW i, NEW d, TcpEngineerEof(i) \/ TcpEngineerPartial(i, d)
        PROVE  CleanInv'
    BY <1>1, <2>5 DEF TcpEngineerEof, TcpEngineerPartial
  <2>6. CASE UdpEngineerError \/ TcpEngineerRefuse
    BY <1>1, <1>2, <2>6 DEF UdpEngineerError, TcpEngineerRefuse
  <2> QED BY <1>4, <2>1, <2>2, <2>3, <2>4, <2>5, <2>6 DEF EngineerSide
<1>5. CASE LoopTail
  <2>1. ~p.binlog
    BY DEF NoBinlog, LoopTypeOK
  <2>2. ASSUME NEW s, NEW drops, Tail(s, drops) PROVE CleanInv'
    BY <1>1, <2>1, <2>2 DEF Tail, BinlogTick
  <2> QED BY <1>2, <1>5, <2>2 DEF LoopTail, LeaveTail
<1>6. CASE Time
  BY <1>1, <1>6, SameUserClean DEF Time, ElapseUser, ElapseEngineer
<1> QED BY <1>3, <1>4, <1>5, <1>6

(* When no entry has binlog on, main_loop writes no plain frame to a user  *)
(* that speaks WebSocket: what goes to the user waits for its transport to *)
(* be decided, on every path but the binlog tick.                          *)
THEOREM UserHandshakeCleanHolds ==
    ASSUME NoBinlog PROVE Spec => []UserHandshakeClean
<1>1. Init => CleanInv
  <2> SUFFICES ASSUME Init PROVE CleanInv
    OBVIOUS
  <2>1. conn1.speaks = "raw" /\ ~conn1.spoiled /\ ~conn1.active
    BY DEF Init, NoUser
  <2> QED BY <2>1 DEF CleanInv, Clean
<1>2. SessionInv /\ CleanInv /\ [Next]_vars => CleanInv'
  <2> SUFFICES ASSUME SessionInv, CleanInv, [Next]_vars PROVE CleanInv'
    OBVIOUS
  <2>1. LoopTypeOK /\ UserInv
    BY DEF SessionInv, TableInv
  <2>2. CASE Next
    BY <2>1, <2>2, UserSideClean, OthersClean DEF Next
  <2>3. CASE UNCHANGED vars
    BY <2>3 DEF vars, CleanInv, Clean
  <2> QED BY <2>2, <2>3
<1>3. CleanInv => UserHandshakeClean
  BY DEF CleanInv, Clean, UserHandshakeClean
<1> QED BY <1>1, <1>2, <1>3, SessionInvariant, PTL DEF Spec

-----------------------------------------------------------------------------
(* main_loop implements Links. *)

(* Freeing slots is what Links calls Without. *)
LEMMA ClosedHolder ==
    ASSUME NEW gone \in SUBSET Slots, TableClosed(gone)
    PROVE  Holder' = Abstract!Without(gone)
<1>1. \A i \in Slots : Holder'[i] = IF i \in gone THEN NoPeer ELSE Holder[i]
  BY DEF TableClosed, SameHolder, Holder
<1> QED BY <1>1 DEF Holder, Abstract!Without

(* Taking a slot is a Join of somebody who holds no slot. *)
LEMMA TakenHolder ==
    ASSUME LoopTypeOK, SlotAccounting, NEW i \in Slots, TableTaken(i)
    PROVE  \E c \in Peers \cup Slots :
              /\ Holder[i] = NoPeer
              /\ \A j \in Slots : Holder[j] # c
              /\ Holder' = [Holder EXCEPT ![i] = c]
<1> DEFINE c == IF conn2'[i].is_udp THEN conn2'[i].from ELSE i
<1>1. c \in Peers \cup Slots
  BY DEF TableTaken
<1>2. Holder[i] = NoPeer
  BY DEF TableTaken, FirstFree, Used, Holder
<1>3. Holder' = [Holder EXCEPT ![i] = c]
  <2>1. \A j \in Slots : Holder'[j] = IF j = i THEN c ELSE Holder[j]
    BY DEF TableTaken, SameHolder, Holder
  <2> QED BY <2>1 DEF Holder
<1>4. ASSUME NEW j \in Slots PROVE Holder[j] # c
  <2>1. CASE ~conn2[j].used
    BY <1>1, <2>1, PeerAssumption DEF Holder
  <2>2. CASE conn2[j].used /\ ~conn2[j].is_udp
    <3>1. Holder[j] = j /\ j # i
      BY <2>2 DEF Holder, TableTaken, FirstFree, Used
    <3>2. conn2'[i].is_udp => conn2'[i].from \in Peers
      BY DEF TableTaken
    <3> QED BY <3>1, <3>2, PeerAssumption
  <2>3. CASE conn2[j].used /\ conn2[j].is_udp
    <3>1. Holder[j] = conn2[j].from /\ j \in Scanned
      BY <2>3 DEF Holder, Scanned, Used, SlotAccounting
    <3>2. conn2[j].from \in Peers \cup {NoPeer}
      BY DEF LoopTypeOK, Connection2
    <3>3. conn2'[i].is_udp => conn2'[i].from # conn2[j].from
      BY <2>3, <3>1 DEF TableTaken, Known
    <3> QED BY <3>1, <3>2, <3>3, PeerAssumption
  <2> QED BY <2>1, <2>2, <2>3
<1> QED BY <1>1, <1>2, <1>3, <1>4

(* Every step of the session child is a step or a stutter of Links. *)
LEMMA LinksStep ==
    ASSUME SessionInv, [Next]_vars
    PROVE  [Abstract!LinksNext]_(Abstract!linkVars)
<1>1. LoopTypeOK /\ SlotAccounting /\ UserInv
  BY DEF SessionInv, TableInv
<1>2. CASE UNCHANGED vars
  BY <1>2 DEF vars, tableVars, Abstract!linkVars, Holder
<1>3. CASE Next
  <2>1. SessionStep /\ TableStep /\ ScalarsOK'
    BY <1>1, <1>3, NextKeepsUser, NextIsGood DEF UserGood, GoodStep
  <2>2. conn1.have \in BOOLEAN /\ conn1'.have \in BOOLEAN
    BY <1>1, <2>1 DEF LoopTypeOK, ScalarsOK, User
  <2>3. CASE why' # "" /\ UNCHANGED <<conn1, tableVars>>
    <3>1. Holder' = Holder
      BY <2>3 DEF tableVars, Holder
    <3>2. Abstract!End
      BY <2>1, <2>3, <3>1 DEF SessionStep, Abstract!End
    <3> QED BY <3>2 DEF Abstract!LinksNext
  <2>4. CASE /\ why' = "" /\ ~conn1.have /\ conn1'.have
             /\ \E gone \in SUBSET Slots : TableClosed(gone)
    <3>1. PICK gone \in SUBSET Slots : TableClosed(gone)
      BY <2>4
    <3>2. Abstract!UserLatch(gone)
      BY <2>1, <2>2, <2>4, <3>1, ClosedHolder
         DEF SessionStep, Abstract!UserLatch
    <3> QED BY <3>2 DEF Abstract!LinksNext
  <2>5. CASE why' = "" /\ conn1'.have = conn1.have
    <3>1. why = ""
      BY <2>1 DEF SessionStep
    <3>2. ASSUME NEW gone \in SUBSET Slots, TableClosed(gone)
          PROVE  Abstract!LinksNext
      <4>1. Abstract!Leave(gone)
        BY <2>5, <3>1, <3>2, ClosedHolder DEF Abstract!Leave
      <4> QED BY <4>1 DEF Abstract!LinksNext
    <3>3. ASSUME NEW i \in Slots, TableTaken(i)
          PROVE  Abstract!LinksNext
      <4>1. PICK c \in Peers \cup Slots :
                    /\ Holder[i] = NoPeer
                    /\ \A j \in Slots : Holder[j] # c
                    /\ Holder' = [Holder EXCEPT ![i] = c]
        BY <1>1, <3>3, TakenHolder
      <4>2. Abstract!Join(i, c)
        BY <2>5, <3>1, <4>1 DEF Abstract!Join
      <4> QED BY <4>2 DEF Abstract!LinksNext
    <3> QED BY <2>1, <3>2, <3>3 DEF TableStep
  <2> QED BY <2>1, <2>3, <2>4, <2>5 DEF SessionStep
<1> QED BY <1>2, <1>3

(* Every behaviour of main_loop is one that Links allows: slots are only   *)
(* given away free, to connections that have none, and the user stays.     *)
THEOREM ImplementsLinksHolds == Spec => ImplementsLinks
<1>1. Init => Abstract!LinksInit
  <2> SUFFICES ASSUME Init PROVE Abstract!LinksInit
    OBVIOUS
  <2>1. Holder = [i \in Slots |-> NoPeer]
    BY DEF Init, FreeSlot, Holder
  <2>2. why = "" /\ conn1.have = FALSE
    BY DEF Init, NoUser
  <2> QED BY <2>1, <2>2 DEF Abstract!LinksInit
<1>2. SessionInv /\ [Next]_vars => [Abstract!LinksNext]_(Abstract!linkVars)
  BY LinksStep
<1> QED BY <1>1, <1>2, SessionInvariant, PTL
        DEF Spec, ImplementsLinks, Abstract!LinksSpec
=============================================================================
