# A TLA+ development of SupportProxy

SupportProxy relays MAVLink between a user and support engineers that are both
behind NAT. This directory holds TLA+ modules of its processes, the
configurations with which TLC checks them on small instances, and proofs that
TLAPS checks for instances of every size. Line numbers below refer to the
sources under `src/`.

## 1. The system

| part | where | state | operations |
|---|---|---|---|
| parent | `supportproxy.cpp` 78-290, 1163-1652 | the list of entries, four listeners each, an epoll set, the pids of session, video and cleanup children | accept traffic by forking, reap children, reload `keys.tdb`, stop and start video children |
| session child | `supportproxy.cpp` 292-1161 | one user connection, up to 100 engineer slots, counters, drop flag | one `select` round: checks, five kinds of ready socket, tail |
| MAVLink link | `mavlink.cpp` | signing key, timestamp, `got_signed_packet` | receive, send, rotate key, save timestamp |
| WebSocket | `websocket.cpp` | handshake and fragment state, output queue, the TLS record to be repeated | detect, receive, send, flush |
| `connections.tdb` | `conntdb.cpp`, `conntdb_lib.py` | a row per connection with a drop flag | snapshot by a grandchild, drop scan, clear on reap, web admin's request |
| `keys.tdb` | `keydb.cpp`, `keydb_lib.py` | an entry per port2: ports, key, flags, counters | edit, read-modify-write by sessions |
| binlog | `binlog.cpp` | open file, seen blocks, pending ACKs and NACKs | block, tick, rotate on reboot |
| tlog, names | `tlog.cpp`, `session.cpp` | open file | append |
| cleanup | `cleanup.cpp` | files on disk | quota and retention passes |
| video child | `video.cpp` | a publisher, backend, RTMP pool, ring and viewers per slot | latch, relay, end, rows in `connections.tdb` |
| video admission | `videoauth.cpp` | cached session row | refresh, admit |
| ring and viewers | `videostream.cpp`, `videoview.cpp`, `videortspview.cpp` | ring offsets, join points, a state per viewer | append, detect, join, send, drop |
| recorder | `videorec.cpp` | open segment | write, rotate, stop |
| protocols | `videortsp.cpp`, `videortmp.cpp`, `videots.cpp`, `videomkv.h`, `httpreq.cpp` | parser state | parse, packetise |
| web admin | `webadmin/` | none of its own that the proxy sees | edits `keys.tdb`, asks for drops |

How they interact. The parent forks a session child for an entry when
something arrives on one of its listeners; the child takes the listeners over
and the parent reopens them when it has reaped the child. The session child
forks short-lived grandchildren to write its snapshot into `connections.tdb`
and its signing timestamp into `keys.tdb`, so those writes are not ordered with
one another, with the child's end, or with the parent's clearing of rows. The
web admin never talks to a child directly: it sets a flag in a row and sends
SIGUSR1 to the pid in that row, and it edits `keys.tdb`, which the parent reads
every 5 s. The video child of an entry lives independently of its sessions but
shares the table of connections with them, and admits publishers by the row the
session writes there. The session's log writers and the cleanup child share a
directory and its quota without any lock.

What makes it hard: the order in which engineers come and go over a table with
a count and a watermark; connections whose protocol is not known yet;
authentication that must be earned again in a reused slot; deadlines that run
against traffic; processes that race over one database without being ordered;
signals that may be lost; forks and binds that fail; entries edited while their
children are dying; blocks that are lost and come late from before a reboot;
deletions decided on a directory as it was; writes that stop in the middle of a
frame; a slot that several kinds of publisher compete for while the last one's
viewers and recorder are still there.

## 2. The modules

| module | models | role |
|---|---|---|
| `Links` | what a session promises: a user that is latched once, engineers that hold one slot each, an end | abstract specification |
| `SessionChild` | `main_loop`, with the link behaviour of `mavlink.cpp` and WebSocket detection | detailed specification, implements `Links` |
| `ConnTable` | `connections.tdb`, its writers, the web admin's drop requests | extends `Links`: the session it watches is the abstract one |
| `Parent` | `wait_connection`, `reload_ports`, `check_children` and all they call | component |
| `KeyRecord` | one entry of `keys.tdb`: signing key, timestamp, a counter, and all who write it | component |
| `WebSocket` | one connection of `websocket.cpp`, plain or TLS | component |
| `Binlog` | `BinlogWriter` and the vehicle it talks to | component |
| `Cleanup` | the telemetry files of an entry, their two writers and the cleanup child | composition of `cleanup.cpp`, `tlog.cpp` and the quota gate of `binlog.cpp` |
| `VideoView` | the ring of a slot and what its viewers do | component |
| `VideoSlot` | one slot of the video child: publishers, backend, pool, recorder, loop | extends `VideoView` |
| `VideoAuth` | `VideoAuth::admit` and its cached view of the session's row | component |
| `MC...` | values for the constants, one module for each of the above that has a run | model checking |
| `...Proofs` | theorems about the module of that name; those about `KeyRecord` and `Binlog` are together in `StorageProofs` | proofs |

`ConnTable` is a composition: its session component is `Links`, which
`SessionChild` is proved to implement, so what is shown of the table holds for
whatever the select loop really does. `Cleanup` and `VideoSlot` compose parts
that share state. `Links` and `Binlog` are extended together with another
component, so their initial state, next step and specification carry the
module's name (`LinksSpec`, `BinlogSpec`). In every module the definitions
marked *wrong on purpose* are
plausible mistakes that the properties must notice; nothing else uses them.

### SessionChild

`pc` is the next section of the loop body that may still run in this round; a
`continue` of the code goes back to 0 and a `break` sets `why`. Each ready
socket of the code is one section with one action per way through it
(`UdpUserReject`, `UdpUserValidate`, `UdpUserData`, ...). A section that is not
ready is skipped by moving `pc` on. `conn1` and `conn2` are records with the
fields of the code that decide something. Three fields are only observed:
`speaks` (the protocol the peer will turn out to speak), `earned` (it has sent a
correctly signed packet) and `spoiled` (a plain frame was written to it
although it speaks WebSocket). Packets are five kinds by what
`MAVLink::receive_message` does with them. Time is kept as the answers to the
comparisons the loop makes (`pre`, `idle`); `Time` makes them true.

### ConnTable

Rows are indexed by `conn_index`; a row keeps its session (for the pid), whom
it describes and the drop flag. Each TDB transaction is one step, as TDB's
lock makes it. A snapshot writer holds the copy of the connections it was
forked with and commits at any later time, or gives up. The web admin's two
steps, flag and signal, are separate. A shift beyond the width of the mask is
undefined in C++, so its outcome is a choice (`wraps`). `asked` is the set of
present connections somebody asked to be dropped; `come` keeps connection names
from being used twice. `Covered` are the indices the mask reaches; the module
allows slots beyond it, as the code has them.

### Parent

`pc` distinguishes the wait, the first half of `reload_ports` (one transaction
on `keys.tdb`) and the second half (video children, which read `keys.tdb`
themselves); the first state is `main`'s call of the second half. `misread` is
observed only: the entries whose video child was forked on settings that the
parent had not seen. `sock` gives the port each listener is bound to; `bind` may fail
for any of them, and must for a TCP port that is taken. Children are `"run"`,
`"dying"` (SIGTERM sent), `"exited"` (not reaped) or `"none"`.

### KeyRecord

A transaction is a record in `tx`: what its process wants to change and the
entry it has read. `Commit` stores the whole entry, as `db_save_key` does, made
from what was read; `Abandon` is the death of the process. Whether two may be
open at once is `MayStart`, which is what TDB's transaction lock is used for.
`asked` is the entry as it would be if each committed change were applied to it
at once. `savers` are the timestamps of forked grandchildren that have not got
to their transaction. Time is in units of 5 s and `Hear` is a peer whose clock
may be ahead.

### WebSocket

Frames and the 101 response are cut into units smaller than themselves, so that
a read or a write can stop anywhere. `recv` is `RecvBegin` (read, headers), one
step per decoded frame and `RecvEnd`, or `RecvRest` when decoded bytes are left
over. `Flushes` gives everything one call of `flush` may have written; with TLS
it works in records, and `pending` is what OpenSSL expects to be given again.
`queued` and `delivered` are history: all that was queued, and all that the
caller got.

### Binlog

`log` is the state that belongs to one file: `seen`, `highest`, pending `acks`,
`nack` and of those the ones `asked` for at least once; `given` remembers those
given up, asked for or not. `handle_block` ends as `Gated`, `OpenFails` or `Store`, the latter
with the block dropped, cut short or written. Throttles and ages are choices of
`Tick` (`again`, `old`), and so is which of the NACKs that are due go out
(`out`): the table has no order, the budget of a tick is limited and a send may
fail. `held` are blocks the vehicle still sends; any seqno
that ever went out may come again (`strays`), also after a reboot.

### Cleanup

`pass` holds what a quota pass has read of the directory; each `Unlink` is a
step, and others go on in between; only the session child waits for a pass of its
own. `bin` is the open `.bin` and what its
writer believes the other files take (`other`, refreshed every `REFRESH` writes
and after its own pass). `unseen` is history: what the `.tlog` grew since. Ages
saturate at the last one that makes a difference.

### VideoView and VideoSlot

A round of the loop is: up to `VIDEO_MAX_EPOLL_EVENTS` events, each descriptor
at most once (`served`), `pump_viewers` for each place of the table in order
(`turn`), and `tick` when it is due. What a send, a request or a timeout may do
to a viewer is a set of viewers it may become (`Heard`, `Written`, `Pumped`).
`pub` is the latched publisher; `backend`, `client`, `rtmp` and `mkv` are the
other things that can feed the ring. Admission is a choice here; it is
`VideoAuth`'s subject. `bytes` and `rec.file` are history: which stream a viewer
or the open segment has been given.

`Alike` are the senders of datagrams whose address and port a publisher of a
connection may have as well, which the code cannot tell apart. There are none in
the run; the proofs are for any.

### VideoAuth

`row` is the user's row of `connections.tdb` and `view` the members of
`VideoAuth`. `tick` includes `load_entry`, after which the entry may be any.
`agreed`, `missed` and `last` are history: when row and view last told the same,
whether a read failed since the row is what it is, and the decision just taken.

## 3. The runs

Runs with outcome *pass*:

| run | checks | shows |
|---|---|---|
| `session_slots` | `TypeOK` `SlotAccounting` `OneSlotPerPeer` `ImplementsLinks` | the table stays consistent in every order of coming and going, and the loop implements `Links` |
| `session_user` | `Conn1Exclusive` `AuthEarned` `UserHandshakeClean` `UserDecides` `PreauthReclaimed` | with binlog off: one transport; earned authentication; no plain frame to a WebSocket user; nobody holds the loop or a slot for ever without authenticating |
| `conn_table` | `TypeOK` `DropKept` `DropHonoured` `RowsCatchUp` `VideoRowsCatchUp` | with one writer in flight and indices within the mask no drop request is lost, and every one is carried out with or without its signal; late snapshots, also of an earlier session, do not leave the table wrong for ever once a session runs; publishers' rows come back |
| `parent_ports` | `TypeOK` `EpollExact` `ListenersCurrent` `ServedAgain` | registrations and listeners are exactly right whatever is edited or fails, and every entry gets to be served as `keys.tdb` says |
| `parent_video` | `VideoFollows` | changed video settings reach the child, but for a change that a fork fell into and that was taken back before the next reload |
| `key_record` | `NothingLost` `StoredNotAhead` `NeverBackwards` | savers, sessions and owners lose none of each other's changes; the 15 s added at every load never add up in the stored timestamp; late savers do not turn it back |
| `websocket` | `WireInOrder` `RetrySame` `BytesInOrder` | output is whole and in order after the 101, a pending TLS write is repeated unchanged, and input bytes arrive once and in order |
| `binlog` | `AckedOnDisk` `GapsTracked` `LogResumes` `AckedAgain` | only what is in the open file is acknowledged, no gap is forgotten, a block that the vehicle goes on sending is acknowledged again, a log without a file gets one |
| `cleanup` | `QuotaHeld` `WriterRelieved` `QuotaRestored` | the writer exceeds the quota at most by what it cannot have seen, is not refused for ever while something may be deleted, and the quota is restored |
| `video_slot` | `OneSource` `WholeStream` `SlotReleased` `ViewersMove` | one source feeds the ring, no viewer or segment gets two streams, nobody keeps the slot in silence, a stalled viewer goes |
| `video_auth` | `GraceFromLive` `OldAddressRefused` `EntitledAdmitted` | the cached view claims no session longer than there was one, an address that lost the row is refused, one that has it is admitted |

One run has the outcome *violation*: in `conn_drop_overtaken`, with two snapshot
writers in flight, `DropKept` fails. An older snapshot overtakes a newer one and
wipes a drop request, against what `conntdb.h` 176 says of the mask (quoted in
`PROJECT.json`, *findings*).

### Statements the code does not meet

These follow from comments, tests or pages of the repository. The definitions
are in the modules; TLC finds a counterexample with the values named, and no run
is kept for them.

| definition | instance | what the repository says | what happens |
|---|---|---|---|
| `UserHandshakeClean` | `session_user` with `Entries <- BinlogEntry` | `tests/test_ws_handshake_ordering.py` 1: "the proxy must not write MAVLink frames to a would-be WebSocket user before it has sent the HTTP upgrade (101) response" | `binlog.tick` is guarded by `have_conn1` only (`supportproxy.cpp` 1049), so a START goes to a user whose protocol is not known |
| `EngineerHandshakeClean` | `session_user` with `Entries <- PlainEntry` | `websocket.cpp` 557: "Writing a MAVLink frame onto the socket now would land *before* the "HTTP/1.1 101" line and corrupt the handshake" | a user packet is forwarded to an accepted engineer that has no WebSocket object yet (`supportproxy.cpp` 707) |
| `SignedUserKept` | `session_user` with `Entries <- BidiOnly` | `supportproxy.cpp` 616: "If we don't see a valid signed packet in time, exit the child so the parent reopens the listener for the legitimate signed user." | a TCP user is parsed only with an engineer or a tap (`supportproxy.cpp` 894), so a signing user on an idle session is cut off |
| `ChangeReforks` | `parent_video` (it holds with `MaxEdits = 1`) | `supportproxy.cpp` 153: "A change here re-forks the video child.", and 194: "the running child still binds the old set, so stop it and let check_children() re-fork with the new config." | the child reads `keys.tdb` itself; settings edited between the two halves of a reload and edited back before the next one are what it runs with, and `video_cfg_differs` sees no change (`supportproxy.cpp` 192) |
| `NoInterleaving` | `video_slot` with `Alike <- OneSender` | `video.cpp` 565: "One publisher at a time: a second sender behind the same NAT must not be able to interleave into the stream." | the test for the established publisher (`video.cpp` 544) compares address and port only and comes first, also when a connection is latched: a datagram from there starts an RTP backend in the slot of an RTMP publisher that has not named its codec |
| `FlagsAsked` | `conn_table` | `webadmin/templates/owner.html` 28: "Other connections stay up." | a request is kept by `conn_index`: an engineer leaves, another takes the slot, the row of the first is flagged, and the next snapshot hands the flag to the second (`supportproxy.cpp` 1127), whom the next rescan closes |
| `VideoRowsKept` | `conn_table` | `conntdb.h` 67: "each deletes and rewrites only its own range, so neither erases the other's rows" | the session's snapshot deletes every row of the port2 (`supportproxy.cpp` 1077); they come back with the video child's next one (`VideoRowsCatchUp`) |
| `KillLeavesOthers` | `conn_table` with `VideoSlots <- TwoVideo` | `webadmin/templates/owner.html` 28: "Other connections stay up." | SIGUSR1 has its default action in the video child (`supportproxy.cpp` 1249) and ends it with every publisher |
| `WholeMessages` | `websocket` | `websocket.cpp` 623: "A message still being assembled from fragments isn't deliverable yet." | the call that decodes a first fragment returns nothing, but the next one finds bytes in `msg` and hands them out before it looks at `in_fragment` (`websocket.cpp` 594) |
| `EvictedForNeed` | `cleanup` | `cleanup.cpp` 253: "delete down to 80% of quota" | the cleanup child and a writer that pass over the directory at once each free the excess, and delete more than either would; with one pass at a time it holds (`EvictedWhenAlone`, proved) |

### Further observations

The models also show these, or they came up while the code was translated; each
names the lines and, where there is one, the action.

Session, table and parent:

* `conn_drop_mask` covers indices 0 to 31 while there are 100 slots: beyond the
  mask a snapshot wipes a request (`conntdb.cpp` 164), and `1u << (i + 1)`
  (`supportproxy.cpp` 1127) is undefined and may flag another engineer.
  `conn_table` with `MASK_BITS = 1` is such an instance; `RequestLostBySnapshot`
  and `FlagsFromRows` say what can happen there and no more (proved).
* `process_drops` (`supportproxy.cpp` 516) closes whoever holds the slot now; a
  request on a row up to 5 s old can close a later connection (`FlagsAsked`).
* A snapshot writer may commit after the parent has cleared the rows of an
  ended session (`WriteSnapshot` after `ReapSession`); the rows stay until the
  next session's snapshot, and for good if there is none. `RowsCatchUp` is about
  a running session.
* `got_signed_packet` is taken back by a bad packet (`mavlink.cpp` 124), though
  `mavlink.h` 51 describes it as latched (`SignedAfter`); the pre-auth deadline
  (`supportproxy.cpp` 593) counts from the connection and is then over.
* A datagram of a bidi user that is rejected has already closed the user's TCP
  listener (`supportproxy.cpp` 632; `UdpUserReject`).
* When the cleanup child's respawn fails (`supportproxy.cpp` 1401) nothing forks
  it again (`check_children` with `forked` false).

Signing and `keys.tdb`:

* SETUP_SIGNING reloads the key of the channel it came on (`mavlink.cpp` 564);
  the other channels of the session keep the old one.
* SETUP_SIGNING stores the initial timestamp it is given as it is (`mavlink.cpp`
  556): the one change that can put the stored timestamp ahead of the clock.
* A session that cannot open `keys.tdb` when it ends loses its counters
  (`EndSession` without a transaction).

WebSocket:

* Frames that came with what has been read, and decoded bytes that did not fit,
  wait until the socket is readable again (`RecvBegin`, `RecvRest`); so does the
  rest of a 101 response that was sent in part. Nobody outside calls
  `has_pending_output()` and `flush()` (`websocket.h` 52).
* A PONG is queued without regard to `WS_MAX_TX_QUEUE` (`DecodePing`).

Binlog and cleanup:

* Block 0 that is refused by the quota or cut short is not asked for again, since
  gaps begin after block 0 (`GapsTracked` says so).
* A late SYSTEM_TIME of before a reboot makes the next one look like another
  reboot and rotates a good file away (`observe`); `time_boot_ms + 10000` wraps.
  `LogResumes` shows that logging goes on.
* A new log whose block 0 comes while `highest` is below 200 is written over the
  head of the old file (`Restarts`).
* Which of the NACKs that are due go out is up to the order of a hash table. With
  ticks 100 ms or more apart all are due again at each, so the same ones may use
  up the budget every time, and a gap may be given up without ever being asked
  for; `binlog.cpp` 362 expects of a new gap that "tick() will emit the first
  NACK on its next call". `GapsTracked` counts such gaps as given up.
* A `.bin` whose blocks are refused for longer than the grace may be deleted by
  its own writer's pass (`Unlink`).

Video:

* A plain datagram publisher that was silent for 10 s can be replaced before the
  next tick ends its stream: its viewers and its open segment go on with the new
  stream (`NewSender`; `latch_publisher` closes neither). `WholeStream` is
  therefore about the other kinds of publisher.
* Recording that stopped on a full disk stays stopped for every later publisher
  (`videorec.cpp` 182), and a video port that could not be bound is not tried
  again (`video.cpp` 1835), until the child is forked anew.
* A WebSocket viewer that is waiting for a join point is not read from
  (`videoview.cpp` 173), so what it sends keeps the loop awake. A viewer whose
  socket takes no reply has no deadline (`videoview.cpp` 394).
* After more than 10 s without data the first write that is not taken at once
  counts as a stall (`videoview.cpp` 477).
* `end_stream` also closes connections whose kind is not known yet.

### Bounds

* `session_*`: `MAX_COMM2_LINKS` is 100 in the code; 2 slots suffice for a hole
  below a used slot, a full table, a reused slot and a close at and below the
  watermark. Two UDP addresses besides TCP engineers: one to hold a slot, one to
  compete. The accounting is proved for every size.
* `conn_*`: `MASK_BITS` is 32 in the code; 3 with the indices 0 to 2 keeps the
  indices within the mask, since what is checked does not hold beyond it. `SnapIds` is the number of writers in flight: one
  where a writer's delay is the question, two where the writers' order is.
  `MaxSessions` 2: the rows, snapshots and signals of one earlier session are
  enough to disturb a later one.
* `parent_*`: `MaxEdits` 2 with two entries and two ports: a swap of ports, and
  removing and adding again. `parent_video` has one entry and three edits: the
  settings can be changed, changed back and changed again. One listener on each
  side stands for the two of the code, which the parent treats alike; the user
  side's is a TCP one, whose port only one can have. The proofs are for any sets.
* `key_record`: two keys and the zero key; `MaxTime` 4 is long enough for two
  intervals between savers (`SAVE_EVERY` 2), and `LOAD_AHEAD` 3 (15 s) is more
  than one of them, so that savers of several sessions wait at once with
  timestamps ahead of the clock and behind it. 2.2 million states.
* `websocket`: a response of 2 units and records of 3 can stop in the middle; 3
  frames with up to 2 units of payload make a fragmented message with a PING
  between; a queue of 3 and messages of 3 reach their limits; `BUFFER` 1 leaves
  decoded bytes over. 1.6 million states.
* `binlog`: seqnos 0 to 3 and one NACK in each tick make two gaps compete; the
  limits (200, 60000 and so on in the code) are 1 to 3, so that each is reached
  and passed; the boot clock wraps at 3. 37 thousand states.
* `cleanup`: three files (the open `.tlog`, the open `.bin` and an old one) of
  one unit with a quota of 2 and a target of 1; retention off and on; the view of
  the directory is refreshed at every second write. 298 thousand states.
* `video_slot`: a ring of 2 units and a stream of 3 lap a viewer; 2 events in a
  round make the descriptors compete; one viewer, one UDP sender besides the TCP
  publishers, one place in the RTMP pool, recording on. 675 thousand states. The
  invariants were also checked with two senders, with two viewers and with two
  places in the pool (up to 14 million states), and they are proved. With
  `Alike <- OneSender` all four properties were checked as well (1.6 million
  states).
* `video_auth`: two addresses (symmetric), cache time and grace of 2, time up to
  5, so that a view can expire, be fetched again and expire again. 220 thousand
  states.

Deadlock is checked where the system runs for ever: in `Parent`, `KeyRecord`,
`Binlog`, `Cleanup`, `VideoSlot` and `VideoAuth`. The session child really ends,
`ConnTable` stops when its sessions are used up and a WebSocket when it is
closed, so those runs do not check it.

### Fairness

* Session child: `select` returns within 10 s and the round then always reaches
  its end (`Loop`, `LoopTail`), and time passes. Nothing is assumed of peers.
* ConnTable: the heartbeat comes every 5 s while the loop runs, a snapshot writer
  gets to run, and opening the database does not fail every time (strong fairness
  on the successful outcome). No signal is assumed to arrive.
* Parent: `epoll_wait` returns within 1 s, so the reload comes round; `fork`,
  `bind` of a free port and opening `keys.tdb` do not fail every time; a child
  that was sent SIGTERM exits; the 2 s backoff ends. Sessions need not end.
* Binlog: `main_loop` calls `tick` for ever, and of a packet that is sent again
  and again the link does not lose every copy: what a tick sends arrives time
  after time (`GoodTick`), whichever NACKs are due in it, and a block that is sent
  for ever is received at some time, when disk and quota give way (`GoodBlock`).
  The vehicle gets to send. Packets come in any order, and reboots at any time.
  A tick that arrives need not be the one with the ACK of a given block, so
  `AckedAgain` says that the ACK is queued again and not that it arrives.
* Cleanup: the cleanup child wakes, works and sleeps, `unlink` returns and time
  passes; the session keeps offering blocks while it logs (`BinBlock(TRUE)`,
  `BinAfterPass`). `unlink` fails only for a file the other pass has deleted.
* VideoSlot: the loop of the video child goes round (`epoll_wait` has a timeout),
  time passes for every deadline (`Elapse`) and the tick comes due. Nothing is
  assumed of publishers, viewers or the backend.

The runs of `WebSocket`, `KeyRecord` and `VideoAuth` check safety and assume no
fairness.

## 4. The proofs

TLAPS proves, for every value of the constants that the assumptions allow:

* `SessionChildProofs`: `Spec => []SlotAccounting`, `Spec => []OneSlotPerPeer`,
  `Spec => []TypeOK`. None is inductive alone: the address lookup scans only up
  to the watermark, so uniqueness needs the accounting, which needs the types.
  The invariant is `TableInv`, the three together. The argument goes through
  *table steps*: every action either frees a set of slots and keeps every other
  holder, or takes the first free slot for somebody who holds none. Two lemmas
  show that such steps keep the count and the watermark, one that they keep
  addresses unique, and one lemma for each side of the loop that its actions
  are table steps.
  For the whole child: `Spec => []Conn1Exclusive`, `Spec => []AuthEarned` and
  `Spec => ImplementsLinks`, from `SessionInv`, which adds to `TableInv` the
  user's transport and that every raised flag was earned. The refinement maps a
  slot to its UDP address, or for TCP to its own number; table steps map to
  `Join`, `Leave` or `UserLatch`, and a `break` to `End`. `UserHandshakeClean` is
  proved for entries without binlog (`CleanInv`): while the user's protocol is
  unknown nothing else in the loop writes to them.
* `ConnTableProofs`, for any number of slots and of writers in flight and a mask
  of any width: `Spec => []TypeOK`, `Spec => FlagsFromRows` and
  `Spec => RequestLostBySnapshot`. The second says that no step but the web
  admin's sets the flag of a row within the mask; the third that the request for
  a connection that stays is wiped only by a snapshot forked while nobody had its
  index, or beyond the mask. Both are action properties; the third needs the
  invariant `AskedThere`: only connections that are there are in `asked`.
  `Spec /\ []OneInFlight => []DropKept` shows that the race of
  `conn_drop_overtaken` needs two writers: with at most one under way a snapshot
  contains every connection that the table shows (`Fresh`), so reading the flags
  back before the rows are written again finds every request. The code does not
  keep its writers apart, so `OneInFlight` is a hypothesis and not a fact.
* `ParentProofs`: `Spec => []EpollExact`, `Spec => []ListenersCurrent`,
  `Spec => []TypeOK`. The invariant `ListenerInv` has the first two and the parts
  of the types they rest on (`Shape`): the registrations are right because
  listeners exist only for idle entries, and opening sockets is always followed
  by a new epoll set.
* `StorageProofs`, about `KeyRecord`: `NothingLost`, `StoredNotAhead`,
  `NeverBackwards`, `Spec => []TypeOK`. The invariant `RecordInv` adds `Exclusive`: there is one transaction at a time and
  the copy it works on is still what is stored. The two action properties follow
  from what each change may do to a timestamp (`ChangedFacts`), since nothing but
  a commit changes the entry (`EntryChanges`).
* `CleanupProofs`: `QuotaHeld` and `Spec => []TypeOK`. The
  invariant `CleanupInv` has two parts that matter. `GoodBin`: the files other
  than the .bin take at most what its writer last counted plus what the .tlog
  grew since (`unseen`); that the cleanup child may only delete meanwhile makes
  this an inequality that its steps keep. `GoodPass`: the running total of a
  pass is at least the sum of what it may still unlink, so it never goes below
  zero although another pass deletes from the same directory. The lemmas say
  what a sum over a directory does when a file is added, grows or goes.
  `EvictedWhenAlone` is `Spec /\ []OnePass => EvictedForNeed`: as long as the
  cleanup child and the writer do not pass over the directory at once, every
  unlink happens while telemetry takes more than the target. Its invariant
  `LoneInv` bounds the total of a pass the other way, by what is really there.
  The code does not keep the two passes apart, so `OnePass` is a hypothesis and
  not a fact; the theorem says that their overlap is the only reason why
  `EvictedForNeed` fails (section 3). `NoneAssumption` says that the value for
  "no file" and "no pass" is neither of these.
* `StorageProofs`, about `Binlog`: `AckedOnDisk`, `GapsTracked`,
  `BinlogSpec => []BinlogTypeOK`. The invariant `BinlogInv` adds
  `NothingWithoutFile`: after a rotation nothing is left of the old log, so an ACK cannot be for a block in another file.
* `WebSocketProofs`: `WireInOrder`, `RetrySame`, `BytesInOrder`,
  `Spec => []TypeOK`. For the output, `OutputInv` says that the record kept for a
  retry is what OpenSSL left pending and the front of `tx`, that nothing is
  queued before the upgrade is done, and that a plain connection keeps no record;
  `FlushGood` is what every outcome of `flush()` preserves of a queue. For the
  input, `InputInv` says that `rx` followed by `sock` is whole frames
  (`WholeFrames`), that the request is at their
  front until it is answered, and that delivered, decoded and undecoded payload
  are the peer's stream. It holds after the connection is down as well, which
  `BytesInOrder` does not ask for.
* `VideoSlotProofs`: `OneSource`, `WholeStream`, `Spec => []TypeOK`. `SlotInv`
  says that a viewer or a segment of a connected stream exists only while that
  publisher is still carried by a connection or a backend, so no latch can come
  in between. The
  delicate case is RTP in datagrams, which counts as connected before its backend
  runs: nothing is in the ring then, so nobody can have joined. Datagrams with the
  address of a connection count as its publisher's, as in the code.
* `VideoAuthProofs`: `GraceFromLive`, `OldAddressRefused`, `EntitledAdmitted`,
  `Spec => []TypeOK`.
  `AuthInv` adds `ViewAged`: what is remembered lies in the past, and a view of
  another address than the row's was fetched before the row came, unless a read
  failed since. `DecisionInv` carries this to the decision just taken.

The assumptions are the named ones of the modules: sizes are natural numbers,
model values are different from one another (`SizeAssumption`,
`InputAssumption`, `PeerAssumption`, `TableAssumption`, `ParentAssumption` and
so on), and the files of the telemetry directory are finitely many. TLC
evaluates them in the runs. `OneInFlight`, `OnePass` and the absence of binlog are
hypotheses of the theorems that need them.

Sums over files (`MapThenSumSet` of the library) and the payload of a sequence of
frames (`DataIn`) are recursive functions, which are picked with `CHOOSE`. What they
compute is proved by a least counterexample: of the sets or lengths for
which a fact fails, one is smallest (`LeastNat`, `LeastSubset`, from the
library's well-founded minimum), and the recursion leads from it to a smaller
one. The existence of the function is proved first, since `CHOOSE` says nothing
without it.

Only model-checked: the liveness properties, since fairness and `ENABLED` are
beyond the prover. Every invariant and every action property that a run checks
is proved, `DropKept` for at most one writer in flight as in its run. No module uses a recursive operator.

## 5. What is not modelled

* Contents of packets, keys, addresses and statistics, and log output.
* The byte-level parsers and packetisers of RTSP, RTMP, MPEG-TS, Matroska and
  HTTP, and SHA-256: functions of long byte strings with no concurrency of their
  own. What they may decide is a choice in the modules that call them.
* The passes of `cleanup.cpp` over video segments, which run the same code on
  other files with a budget of their own; sizes and names of segments.
* The several channels of a session in `KeyRecord`, and fields of an entry other
  than key, timestamp and one counter, which are changed in the same way.
* Record packing and migration, name lookup and the command line of
  `keydb_lib.py`; pages, forms, logins and throttling of the web admin;
  deployment scripts.

`PROJECT.json` lists each part with its status and its reason.

## 6. Possible continuation

1. The channels of one session as a composition of `KeyRecord` with
   `SessionChild`: what a rotation on one channel does to the others.
2. `VideoAuth` composed with `ConnTable`, so that the row admission reads is the
   one the snapshots write, late ones included.
3. `Cleanup` with both budgets, telemetry and video, on one disk.
4. `WebSocket` as a refinement of two byte streams, from the invariants that are
   proved.
