------------------------------- MODULE Binlog -------------------------------
(***************************************************************************)
(* BinlogWriter (binlog.cpp): the session child stores the log that the    *)
(* vehicle streams in numbered blocks.  It writes each block at its place  *)
(* in the open file, acknowledges what it wrote, asks again for what is    *)
(* missing, and makes the vehicle start over from block 0 when there is no *)
(* file to write to.                                                       *)
(*                                                                         *)
(* The vehicle is external: it is modelled from what binlog.h and          *)
(* binlog.cpp say of it.  Between the two is a link that loses, repeats    *)
(* and reorders.  A block is its seqno; time only decides which throttles  *)
(* and deadlines have passed.                                              *)
(***************************************************************************)
EXTENDS Integers, FiniteSets

CONSTANTS
    MaxSeq,                     \* the last seqno; stands for all beyond it
    SEQNO0_RESTART_MIN_HIGHEST, \* 200
    NACK_GIVEUP_BLOCKS,         \* 200
    STOP_MIN_GATED_BLOCKS,      \* 3
    MAX_NACKS_PER_TICK,         \* 10
    MAX_FORWARD_JUMP,           \* 100 MB, in blocks
    TIME_MOD                    \* 2^32 ms, in units of 10 s

ASSUME BinlogAssumption ==
    /\ MaxSeq \in Nat /\ SEQNO0_RESTART_MIN_HIGHEST \in Nat \ {0}
    /\ NACK_GIVEUP_BLOCKS \in Nat /\ STOP_MIN_GATED_BLOCKS \in Nat \ {0}
    /\ MAX_NACKS_PER_TICK \in Nat \ {0} /\ MAX_FORWARD_JUMP \in Nat \ {0}
    /\ TIME_MOD \in Nat \ {0}

VARIABLES
    log,        \* the open file and what is known of its blocks
    any,        \* any_block_seen
    gated,      \* gated_block_count_
    startNow,   \* last_start_sent_s is 0: the next tick sends START
    bootTime,   \* last_system_time_boot_ms_, 0 when there is none
    veh,        \* the vehicle: streaming or not, and its next seqno
    held,       \* the blocks it still holds and sends again
    strays      \* how many seqnos ever went out: late copies of them may come

writerVars == <<log, any, gated, startNow, bootTime>>
vehVars == <<veh, held, strays>>
binlogVars == <<writerVars, vehVars>>

Seqno == 0 .. MaxSeq

(* given: the missing blocks that were given up, asked for or not *)
Log == [fp : BOOLEAN, seen : SUBSET Seqno, highest : Seqno,
        acks : SUBSET Seqno, nack : SUBSET Seqno, asked : SUBSET Seqno,
        given : SUBSET Seqno]

Vehicle == [on : BOOLEAN, next : Seqno]

BinlogTypeOK ==
    /\ log \in Log
    /\ any \in BOOLEAN /\ gated \in 0 .. STOP_MIN_GATED_BLOCKS
    /\ startNow \in BOOLEAN /\ bootTime \in 0 .. TIME_MOD - 1
    /\ veh \in Vehicle /\ held \subseteq Seqno /\ strays \in 0 .. MaxSeq + 1

NoLog == [fp |-> FALSE, seen |-> {}, highest |-> 0, acks |-> {},
          nack |-> {}, asked |-> {}, given |-> {}]

(* A vehicle may be in the middle of a log for another collector. *)
BinlogInit ==
    /\ log = NoLog
    /\ any = FALSE /\ gated = 0 /\ startNow = TRUE /\ bootTime = 0
    /\ veh \in Vehicle /\ held = {}
    /\ strays = IF veh.on THEN veh.next ELSE 0

-----------------------------------------------------------------------------
(* Wrong on purpose: the acknowledgements outlive the file. *)
RotatedKeepsAcks(l) == [NoLog EXCEPT !.acks = l.acks]

(* rotate_for_reboot: the per-log state goes with the file *)
Rotated(l) == NoLog

(* what rotate_for_reboot does outside the per-log state, if it is called *)
Rearm(rotate) ==
    /\ startNow' = (startNow \/ rotate)
    /\ bootTime' = IF rotate THEN 0 ELSE bootTime

(* current_file_size_ in blocks *)
FileBlocks(l) == IF l.seen = {} THEN 0 ELSE l.highest + 1

(* the expansion of the file by block s is beyond the cap *)
TooFar(l, s) == s + 1 - FileBlocks(l) > MAX_FORWARD_JUMP

(* Wrong on purpose: the first missing block is forgotten. *)
GapSkipsFirst(l, s) == ((l.highest + 2) .. (s - 1)) \ l.seen

(* queue_gap_nacks: the missing blocks between the highest so far and s *)
Gap(l, s) == ((l.highest + 1) .. (s - 1)) \ l.seen

(* Wrong on purpose: a block that is in the file already is not            *)
(* acknowledged again.                                                     *)
WrittenAcksOnce(l, s) ==
    [l EXCEPT !.seen = @ \cup {s},
              !.nack = (@ \ {s}) \cup Gap(l, s),
              !.asked = @ \ {s},
              !.given = @ \ {s},
              !.highest = IF s >= @ THEN s ELSE @,
              !.acks = IF s \in l.seen THEN @ ELSE @ \cup {s}]

(* handle_block from the write on: block s is in the file *)
Written(l, s) ==
    [l EXCEPT !.seen = @ \cup {s},
              !.nack = (@ \ {s}) \cup Gap(l, s),
              !.asked = @ \ {s},
              !.given = @ \ {s},
              !.highest = IF s >= @ THEN s ELSE @,
              !.acks = @ \cup {s}]

(* block 0 comes long after block 0: the vehicle started a new log *)
Restarts(s) ==
    log.fp /\ s = 0 /\ log.highest >= SEQNO0_RESTART_MIN_HIGHEST

Current(s) == IF Restarts(s) THEN Rotated(log) ELSE log

(* no file and not its first block: discarded, and counted *)
Gated(s) ==
    /\ ~log.fp /\ s # 0
    /\ gated' = IF gated < STOP_MIN_GATED_BLOCKS THEN gated + 1 ELSE gated
    /\ UNCHANGED <<log, any, startNow, bootTime>>

(* the file for block 0 cannot be opened *)
OpenFails(s) ==
    /\ ~Current(s).fp /\ s = 0
    /\ log' = Current(s)
    /\ gated' = IF Restarts(s) THEN 0 ELSE gated
    /\ Rearm(Restarts(s))
    /\ UNCHANGED any

(* There is a file for block s, opened now if need be.  The block is       *)
(* dropped (jump cap, quota), only partly written, or written.             *)
Store(s, outcome) ==
    LET l == [Current(s) EXCEPT !.fp = TRUE] IN
    /\ log.fp \/ s = 0
    /\ TooFar(l, s) => outcome = "dropped"
    /\ log' = IF outcome = "written" THEN Written(l, s) ELSE l
    /\ any' = (any \/ outcome # "dropped")
    /\ gated' = 0
    /\ Rearm(Restarts(s))

handle_block(s) ==
    \/ Gated(s) \/ OpenFails(s)
    \/ \E outcome \in {"dropped", "short", "written"} : Store(s, outcome)

(* A block that the vehicle sends, for the first time or again, or a late  *)
(* copy of one from this or an earlier log.                                *)
Block(s) ==
    /\ (veh.on /\ s \in held) \/ s < strays
    /\ handle_block(s)
    /\ UNCHANGED vehVars

(* the same for a block that is on its way and meets no obstacle *)
GoodBlock(s) ==
    /\ veh.on /\ s \in held
    /\ Gated(s) \/ Store(s, "written")
    /\ UNCHANGED vehVars

(* observe: a SYSTEM_TIME of the autopilot.  Late packets, and other       *)
(* autopilots when there is no sysid filter, make any order of times.      *)
observe(t) ==
    LET jump == bootTime # 0 /\ (t + 1) % TIME_MOD <= bootTime /\ log.fp IN
    /\ log' = IF jump THEN Rotated(log) ELSE log
    /\ startNow' = (startNow \/ jump)
    /\ gated' = IF jump THEN 0 ELSE gated
    /\ bootTime' = t
    /\ UNCHANGED <<any, vehVars>>

-----------------------------------------------------------------------------
(* tick *)

Outcome == {"throttled", "failed", "lost", "arrived"}

Sent(o) == o \in {"lost", "arrived"}

(* Wrong on purpose: nothing but the client timeout stops the vehicle. *)
StopDueNever == FALSE

(* blocks come but there is no file to put them in *)
StopDue == ~log.fp /\ gated >= STOP_MIN_GATED_BLOCKS

(* STOP and START on their way to the vehicle: STOP ends the stream, START *)
(* begins one at seqno 0 unless one is on.                                 *)
Nudged(stop, start) ==
    LET stopped == IF stop = "arrived" THEN [veh EXCEPT !.on = FALSE] ELSE veh
    IN  IF start = "arrived" /\ ~stopped.on
        THEN [on |-> TRUE, next |-> 0] ELSE stopped

SendMagic(stop, start) ==
    /\ ~StopDue => stop = "throttled"
    /\ startNow \/ Sent(stop) => start # "throttled"
    /\ startNow' = ((startNow \/ Sent(stop)) /\ ~Sent(start))
    /\ veh' = Nudged(stop, start)

(* a stream that is begun anew holds nothing of the one before *)
NewStream == veh'.on /\ (~veh.on \/ veh' # veh)

(* no stream yet, or no file: START is all there is to do *)
TickWaiting(stop, start) ==
    /\ ~any \/ ~log.fp
    /\ SendMagic(stop, start)
    /\ held' = IF NewStream THEN {} ELSE held
    /\ UNCHANGED <<log, any, gated, bootTime, strays>>

(* drop_stale_nack_state: filled, too old, or too far behind *)
Stale(l, old) ==
    {s \in l.nack : s \in l.seen \/ s \in old
                    \/ l.highest - s > NACK_GIVEUP_BLOCKS}

(* the NACKs not throttled: never sent, or not within 100 ms *)
NackDue(l, again) == (l.nack \ l.asked) \cup (l.nack \cap again)

(* All acknowledgements go out, got arrive; then stale gaps are given up   *)
(* and at most MAX_NACKS_PER_TICK of the due ones are sent, in the order   *)
(* of a hash table.  One that send_status fails for stays as it was and    *)
(* uses no budget.                                                         *)
TickOpen(start, got, old, again, out) ==
    LET l == [log EXCEPT !.acks = {}, !.nack = @ \ Stale(log, old),
                         !.asked = @ \ Stale(log, old),
                         !.given = @ \cup (Stale(log, old) \ log.seen)]
    IN
    /\ any /\ log.fp
    /\ SendMagic("throttled", start)
    /\ held' = IF NewStream THEN {} ELSE held \ got
    /\ out \subseteq NackDue(l, again) /\ Cardinality(out) <= MAX_NACKS_PER_TICK
    /\ log' = [l EXCEPT !.asked = @ \cup out]
    /\ UNCHANGED <<any, gated, bootTime, strays>>

Tick ==
    \/ \E stop, start \in Outcome : TickWaiting(stop, start)
    \/ \E start \in Outcome, got \in SUBSET log.acks, old \in SUBSET log.nack,
          again \in SUBSET log.asked, out \in SUBSET log.nack :
          TickOpen(start, got, old, again, out)

(* a tick in which START is due if there is need of it, and what is sent   *)
(* arrives; any NACKs may be due and any of them go out                    *)
GoodTick ==
    \/ TickWaiting(IF StopDue THEN "arrived" ELSE "throttled", "arrived")
    \/ \E old \in SUBSET log.nack, again \in SUBSET log.asked,
          out \in SUBSET log.nack :
          TickOpen("arrived", log.acks, old, again, out)

-----------------------------------------------------------------------------
(* The vehicle *)

(* the next block of the log *)
VehicleSend ==
    /\ veh.on
    /\ held' = held \cup {veh.next}
    /\ strays' = IF strays > veh.next THEN strays ELSE veh.next + 1
    /\ veh' = [veh EXCEPT !.next = IF @ < MaxSeq THEN @ + 1 ELSE @]
    /\ UNCHANGED writerVars

(* a reboot, or its client timeout after 10 s without an ACK *)
VehicleStop ==
    /\ veh.on /\ veh' = [veh EXCEPT !.on = FALSE]
    /\ UNCHANGED <<writerVars, held, strays>>

BinlogNext ==
    \/ \E s \in Seqno : Block(s)
    \/ \E t \in 0 .. TIME_MOD - 1 : observe(t)
    \/ Tick \/ VehicleSend \/ VehicleStop

BinlogSpec == BinlogInit /\ [][BinlogNext]_binlogVars

(* main_loop ticks for ever; of a packet that is sent again and again the  *)
(* link does not lose every copy; quota and disk give way in the end; and  *)
(* the vehicle gets to send while it is up.                                *)
BinlogFairness ==
    /\ SF_binlogVars(GoodTick) /\ SF_binlogVars(VehicleSend)
    /\ \A s \in Seqno : SF_binlogVars(GoodBlock(s))

BinlogFairSpec == BinlogSpec /\ BinlogFairness

-----------------------------------------------------------------------------
(* Properties *)

(* An acknowledgement waits only for a block that is in the open file:     *)
(* none is ever sent for a block that was dropped or cut short, or for one *)
(* of a file that has been rotated away (handle_block, rotate_for_reboot). *)
AckedOnDisk ==
    /\ log.acks \subseteq log.seen
    /\ log.acks # {} => log.fp

(* Every block below the highest one is in the file, due to be asked for   *)
(* (nack_state), or given up by drop_stale_nack_state; and only missing    *)
(* blocks are asked for.  Block 0 is the exception: no gap ever begins     *)
(* before block 1.                                                         *)
GapsTracked ==
    /\ \A s \in 1 .. log.highest : s \in log.seen \cup log.nack \cup log.given
    /\ log.nack \cap log.seen = {}
    /\ log.asked \subseteq log.nack
    /\ \A s \in log.nack : s < log.highest

(* Without a file the writer gets one: whether the vehicle was in the      *)
(* middle of a log, has rebooted, or a late SYSTEM_TIME made for a         *)
(* rotation that no reboot called for, STOP and START bring block 0.       *)
LogResumes == ~log.fp ~> log.fp

(* What the vehicle still holds, and so sends again, is acknowledged       *)
(* again, however many acknowledgements were lost (handle_block), or a new *)
(* stream replaces it.  Two things are beyond the writer: logs that are    *)
(* rotated for ever, and a block that lies further beyond the file than a  *)
(* write may extend it.                                                    *)
AckedAgain ==
    \A s \in Seqno :
        \/ s \in held ~> (s \notin held \/ s \in log.acks \/ TooFar(log, s))
        \/ []<><<log.fp /\ (log'.fp => ~(log.seen \subseteq log'.seen))>>_log
==============================================================================
