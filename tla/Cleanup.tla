------------------------------- MODULE Cleanup -------------------------------
(***************************************************************************)
(* The telemetry files of one entry and those who share their quota: the   *)
(* .bin and .tlog writers of its session child and the cleanup child       *)
(* (cleanup.cpp, the quota gate of handle_block in binlog.cpp, tlog.cpp).  *)
(* Video segments are files of another kind, with a budget and passes of   *)
(* their own; enforce_quota never looks at both kinds at once.             *)
(*                                                                         *)
(* A quota pass looks at the directory, then unlinks one file after the    *)
(* other, and the others go on meanwhile.  Sizes are in file system        *)
(* blocks; the age of a file is the time since it was last written, in     *)
(* steps that saturate.                                                    *)
(***************************************************************************)
EXTENDS Integers, FiniteSetsExt

CONSTANTS
    Ids,                    \* bounds the files
    QUOTA,                  \* port2_quota_bytes
    TARGET,                 \* what a pass frees down to: 80% of QUOTA
    GRACE,                  \* active_file_grace_s: 60 s
    RETENTION,              \* the settings of log_retention_days; 0: for ever
    REFRESH,                \* writes between two looks at the directory: 10000
    MaxSize,                \* bounds a telemetry file
    None

ASSUME CleanupAssumption ==
    /\ IsFiniteSet(Ids) /\ None \notin [id : Ids, size : Nat, age : Nat]
    /\ QUOTA \in Nat \ {0} /\ TARGET \in 0 .. QUOTA
    /\ GRACE \in Nat \ {0} /\ RETENTION \subseteq Nat
    /\ REFRESH \in Nat \ {0} /\ MaxSize \in Nat \ {0}

(* None is neither a file nor a pass *)
ASSUME NoneAssumption ==
    /\ None \notin [size : Nat, age : Nat]
    /\ None \notin [total : Nat, todo : SUBSET [id : Ids, size : Nat, age : Nat]]

VARIABLES
    retention,  \* log_retention_days of the entry
    file,       \* the directory
    tlog,       \* the open .tlog
    bin,        \* the open .bin and what its writer believes of the rest
    refused,    \* the last block was dropped for the quota
    unseen,     \* what the other telemetry files grew since it last looked
    pass        \* the quota passes under way, by who runs them

sessionVars == <<tlog, bin, refused, unseen>>
vars == <<retention, file, sessionVars, pass>>

Runners == {"cleaner", "writer"}
MaxAge == IF retention < GRACE THEN GRACE ELSE retention + 1
Sizes == 0 .. MaxSize

File == [size : Sizes, age : 0 .. MaxAge]

(* an Item of enforce_quota *)
Item == [id : Ids, size : Sizes, age : 0 .. MaxAge]

TypeOK ==
    /\ retention \in RETENTION
    /\ file \in [Ids -> File \cup {None}]
    /\ tlog \in Ids \cup {None}
    /\ bin # None => /\ bin.id \in Ids /\ bin.size \in Sizes
                     /\ bin.other \in Nat /\ bin.writes \in 0 .. REFRESH - 1
                     /\ file[bin.id] # None => bin.size = file[bin.id].size
    /\ refused \in BOOLEAN /\ unseen \in Nat
    /\ \A r \in Runners :
          pass[r] # None => /\ pass[r].todo \subseteq Item
                            /\ pass[r].total \in Nat

(* of a directory d: its files, those outside the grace, the blocks taken *)
Present(d) == {f \in Ids : d[f] # None}
Evictable(d) == {f \in Present(d) : d[f].age >= GRACE}
Allocated(d, ids) == MapThenSumSet(LAMBDA f : d[f].size, ids \cap Present(d))

Init ==
    /\ retention \in RETENTION
    /\ file \in [Ids -> {None, [size |-> 1, age |-> GRACE]}]
    /\ tlog = None /\ bin = None /\ refused = FALSE /\ unseen = 0
    /\ pass = [r \in Runners |-> None]

-----------------------------------------------------------------------------
(* enforce_quota *)

(* the caller's prospective growth *)
Needed(r) == IF r = "writer" THEN 1 ELSE 0

(* Wrong on purpose: only what is on disk already counts. *)
OverNow(total, r) == total > QUOTA

(* Wrong on purpose: the pass waits for one block too many. *)
OverLate(total, r) == total + Needed(r) > QUOTA + 1

Over(total, r) == total + Needed(r) > QUOTA

(* The scan.  Files within the grace count but are no candidates; when the *)
(* budget is kept the pass ends here.                                      *)
Scan(r, d) ==
    pass' = [pass EXCEPT ![r] =
        [total |-> Allocated(d, Ids),
         todo |-> IF Over(Allocated(d, Ids), r)
                  THEN {[id |-> f, size |-> d[f].size, age |-> d[f].age] :
                           f \in Evictable(d)}
                  ELSE {}]]

(* the head of the list sorted by mtime *)
Oldest(todo) == {i \in todo : \A j \in todo : j.age <= i.age}

(* nothing left to unlink, or enough of it is *)
PassDone(r) ==
    /\ pass[r] # None
    /\ pass[r].todo = {} \/ pass[r].total + Needed(r) <= TARGET

(* unlink of the next file; of a file that has gone already it fails, and  *)
(* then nothing is taken off the total                                     *)
Unlink(r) ==
    /\ pass[r] # None /\ ~PassDone(r)
    /\ \E i \in Oldest(pass[r].todo) :
          /\ file' = [file EXCEPT ![i.id] = None]
          /\ pass' = [pass EXCEPT ![r].todo = @ \ {i},
                          ![r].total = IF file[i.id] # None THEN @ - i.size ELSE @]
    /\ UNCHANGED <<retention, sessionVars>>

-----------------------------------------------------------------------------
(* The cleanup child: the retention pass, then the quota pass *)

(* retention_pass *)
Expired(f) == retention # 0 /\ file[f] # None /\ file[f].age > retention

(* log_cleanup_once up to the scan of enforce_quota *)
CleanerWakes ==
    /\ pass["cleaner"] = None
    /\ file' = [f \in Ids |-> IF Expired(f) THEN None ELSE file[f]]
    /\ Scan("cleaner", file')
    /\ UNCHANGED <<retention, sessionVars>>

CleanerSleeps ==
    /\ PassDone("cleaner")
    /\ pass' = [pass EXCEPT !["cleaner"] = None]
    /\ UNCHANGED <<retention, file, sessionVars>>

-----------------------------------------------------------------------------
(* The session child *)

(* a new name: not of a file that is there, open, or on a list of a pass *)
Fresh(f) ==
    /\ file[f] = None /\ f # tlog
    /\ bin # None => f # bin.id
    /\ \A r \in Runners : pass[r] # None => \A i \in pass[r].todo : i.id # f

(* ensure_tlog_open.  The session child does one thing at a time: nothing  *)
(* else while its .bin writer is in a quota pass.                          *)
OpenTlog(f) ==
    /\ tlog = None /\ Fresh(f) /\ pass["writer"] = None
    /\ tlog' = f
    /\ file' = [file EXCEPT ![f] = [size |-> 0, age |-> 0]]
    /\ UNCHANGED <<retention, bin, refused, unseen, pass>>

(* write_frame: no quota applies *)
TlogWrite ==
    /\ tlog # None /\ pass["writer"] = None
    /\ file[tlog] # None => file[tlog].size < MaxSize
    /\ IF file[tlog] = None THEN UNCHANGED <<file, unseen>>
       ELSE /\ file' = [file EXCEPT ![tlog] = [size |-> @.size + 1, age |-> 0]]
            /\ unseen' = IF bin # None THEN unseen + 1 ELSE unseen
    /\ UNCHANGED <<retention, tlog, bin, refused, pass>>

(* refresh_other_sessions_bytes: everything but the writer's own file *)
Others(f) == Allocated(file, Ids \ {f})

(* BinlogWriter::open; an entry may have either log without the other *)
OpenBin(f) ==
    /\ bin = None /\ Fresh(f)
    /\ file' = [file EXCEPT ![f] = [size |-> 0, age |-> 0]]
    /\ bin' = [id |-> f, size |-> 0, other |-> Others(f), writes |-> 0]
    /\ unseen' = 0
    /\ UNCHANGED <<retention, tlog, refused, pass>>

(* Wrong on purpose: the growth of the file by this write is left out. *)
BreachAfter(other) == other + bin.size > QUOTA

(* the quota gate of handle_block, given what the others take *)
Breach(other) == other + bin.size + 1 > QUOTA

(* The write; every REFRESH of them the writer looks at the others.  The   *)
(* block may fall into space the file has already.                         *)
Stored(other, missed, grow) ==
    LET again == bin.writes + 1 >= REFRESH IN
    /\ bin.size + grow <= MaxSize
    /\ file' = IF file[bin.id] = None THEN file
               ELSE [file EXCEPT ![bin.id] = [size |-> @.size + grow, age |-> 0]]
    /\ bin' = [bin EXCEPT !.size = @ + grow,
                          !.writes = IF again THEN 0 ELSE @ + 1,
                          !.other = IF again THEN Others(bin.id) ELSE other]
    /\ unseen' = IF again THEN 0 ELSE missed
    /\ refused' = FALSE

(* A block: written, dropped, or held up by a quota pass that makes room   *)
(* for it.  due: the writer's last pass is 30 s ago.                       *)
BinBlock(due) ==
    /\ bin # None /\ pass["writer"] = None
    /\ \/ /\ ~Breach(bin.other)
          /\ \E grow \in 0 .. 1 : Stored(bin.other, unseen, grow)
          /\ UNCHANGED pass
       \/ /\ Breach(bin.other) /\ due
          /\ Scan("writer", file)
          /\ UNCHANGED <<file, bin, unseen, refused>>
       \/ /\ Breach(bin.other) /\ ~due
          /\ refused' = TRUE
          /\ UNCHANGED <<file, bin, unseen, pass>>
    /\ UNCHANGED <<retention, tlog>>

(* the pass is over: the writer looks at the others and decides *)
BinAfterPass ==
    /\ PassDone("writer")
    /\ pass' = [pass EXCEPT !["writer"] = None]
    /\ IF Breach(Others(bin.id))
       THEN /\ refused' = TRUE /\ unseen' = 0
            /\ bin' = [bin EXCEPT !.other = Others(bin.id)]
            /\ UNCHANGED file
       ELSE \E grow \in 0 .. 1 : Stored(Others(bin.id), 0, grow)
    /\ UNCHANGED <<retention, tlog>>

(* the session ends, or its .bin is rotated *)
CloseBin ==
    /\ bin # None /\ pass["writer"] = None
    /\ bin' = None /\ refused' = FALSE /\ unseen' = 0
    /\ UNCHANGED <<retention, file, tlog, pass>>

EndSession ==
    /\ tlog # None /\ bin = None /\ tlog' = None
    /\ UNCHANGED <<retention, file, bin, refused, unseen, pass>>

-----------------------------------------------------------------------------
(* time passes for all files *)
Age ==
    /\ file' = [f \in Ids |-> IF file[f] = None \/ file[f].age = MaxAge THEN file[f]
                              ELSE [file[f] EXCEPT !.age = @ + 1]]
    /\ UNCHANGED <<retention, sessionVars, pass>>

SessionNext ==
    \/ \E f \in Ids : OpenTlog(f) \/ OpenBin(f)
    \/ \E due \in BOOLEAN : BinBlock(due)
    \/ TlogWrite \/ BinAfterPass \/ CloseBin \/ EndSession

Next ==
    \/ CleanerWakes \/ CleanerSleeps
    \/ \E r \in Runners : Unlink(r)
    \/ SessionNext \/ Age

Spec == Init /\ [][Next]_vars

(* The cleanup child runs for ever, passes come to their end, time passes, *)
(* and the vehicle goes on sending blocks.                                 *)
Fairness ==
    /\ WF_vars(CleanerWakes) /\ WF_vars(CleanerSleeps)
    /\ \A r \in Runners : WF_vars(Unlink(r))
    /\ WF_vars(Age)
    /\ SF_vars(BinBlock(TRUE)) /\ SF_vars(BinAfterPass)

FairSpec == Spec /\ Fairness

-----------------------------------------------------------------------------
(* Properties *)

(* What the .bin writer adds never takes telemetry over its quota by more  *)
(* than what the .tlog grew since the writer last looked at the directory, *)
(* however the cleanup child deletes meanwhile.                            *)
QuotaHeld ==
    [][bin # None /\ bin' # None /\ bin'.size > bin.size
         => Allocated(file', Ids) <= QUOTA + unseen]_vars

(* what no pass can free for the writer: live files, and its own *)
Kept == Allocated(file, (Ids \ Evictable(file)) \cup {bin.id})

Relievable == bin # None /\ file[bin.id] # None /\ Kept + 1 <= QUOTA

(* A block that is dropped for the quota is not dropped for ever while     *)
(* there is enough that a pass may delete: `needed' makes the pass free    *)
(* space although the total is still at the quota.                         *)
WriterRelieved == (refused /\ Relievable) ~> (~refused \/ ~Relievable)

(* Unless files keep growing, telemetry gets back within its quota as far  *)
(* as files outside the grace allow.                                       *)
QuotaRestored ==
    \/ []<><<\E f \in Ids : file'[f] # None /\ file'[f].age = 0>>_vars
    \/ []<>(Allocated(file, Ids) <= QUOTA \/ Evictable(file) = {})

(* A quota pass deletes no more than it has to: each file goes while       *)
(* telemetry still takes more than 80% of its quota, as the comment on the *)
(* target in enforce_quota says. Two passes at once do not meet this, and  *)
(* no run checks it: see the README, section 3.                            *)
EvictedForNeed ==
    [][\A r \in Runners :
         /\ pass[r] # None /\ pass'[r] # None /\ pass'[r] # pass[r]
         /\ Present(file') # Present(file)
         => Allocated(file, Ids) + Needed(r) > TARGET]_vars
==============================================================================
