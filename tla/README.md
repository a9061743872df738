# Verification of vlite-psrdada

The VLITE capture software records VLA data and dumps the last minute of it
when something interesting is observed. This directory holds TLA+ models of
its processes, TLC configurations that check them, and TLAPS proofs about them.

## The system

    multicast documents                 raw packets
           |                                 |
           v           commands              v       data block (PSRDADA)
       Messenger ----------------------> Writer  ==========================> Reader
           |                                 |                                 ^
           |                                 v  dump file --> db_unwrap        |
           +-----------------------------------------------------------------+
                                    commands

| part | state it keeps | operations | what can go wrong |
|---|---|---|---|
| control commands (`utils.c`, `def.h`) | bytes waiting on a connection | `wait_for_cmd` | a backlog of commands is collapsed to one |
| Writer (`writer.c`) | `state`, `cmd`, its side of the block, the last frame number of each thread | start, stop, event (dump), quit, a packet | commands during a dump; blocking in `ipcio_write`; a stale `cmd`; packets lost unseen |
| Reader (`reader.c`) | `state`, `cmd`, its side of the block | start, stop, quit, a packet, end of data | blocking in `ipcio_read`; its own restart against an arriving request |
| data block (PSRDADA `ipcio`, external; made by `dada_db_simple.c`) | a ring of sub-blocks, their memory, end-of-data marks | create, destroy, open, close, write, read | full, empty, closed with packets in it; destroyed while in use |
| Messenger (`messenger.c`) | place in its script, the event log | a document, the sends, the sleeps | unordered connections, dead pairs, being killed |
| event dump (`utils.c`) | none; reads the ring's memory | `event_to_file` | stale packets in the dump; what the skip log does not show |
| db_unwrap (`db_unwrap.c`) | scan of a dump | scan, copy the tail, copy the head | two threads, the end of a second, off-by-one |
| scan documents (`executor.c`, `vlite_xml.c`) | element stack, antenna and EOP index | SAX handlers | an index that is not reset, depth |
| subarrays (`executor.c`, `vlaant.c`) | antenna table | `mergeSubarray`, positions | a table changed while it is read, bounds of the loops |
| startup (`utils.c`, `messenger.c`, the beginning of each program) | listening sockets and their queues | `serve`, `conn`, running, killing | one connection per process and life, which may be a dead Messenger's |
| multicast, options, alerts | little or none | I/O and parsing | no part of the running system's control |

The processes share no memory but the data block of a pair. The Messenger talks
to each process over a TCP connection of its own and gets no answers; Writer
and Reader look at theirs once per pass of their loop, and not at all while they
are inside a call on the data block. The hard behaviours are therefore: the
order in which commands and data meet, commands that pile up while a process is
busy (a dump takes longer than the Messenger's two-second sleep allows for),
processes blocked on a full or an empty ring, and the death of a process. Two
more come from what is never cleared: the memory of the ring, which a dump
copies as it lies, and the queues of the kernel, which keep packets for a Writer
that is not reading and connections for a process that will not accept them.

## Modules

| module | models | states and actions |
|---|---|---|
| `Commands` | `wait_for_cmd`, the commands, one end of a connection | operators only; `WaitForCmd(buf)` is what the routine returns for what `read()` gave it |
| `DataBlock` | PSRDADA's ring as the code uses it | `ring[p]`: open on each side, sub-blocks filled and not cleared, packets in the current one |
| `BlockUse` | what a data block demands of its users | `Use`: every operation in the state in which PSRDADA allows it; an abstract specification |
| `Writer` | the loop of `writer.c` | one action per branch: `WriterWait` ... `WriterFails`; `pc` says where in the pass it is |
| `Reader` | the loop of `reader.c` | likewise |
| `Capture` | pairs of the two with **any** client | `TellWriter`, `TellReader`, `DropWriter`, `DropReader`, the two processes |
| `Messenger` | the loop of `messenger.c` | one action per send, sleep and kind of document |
| `System` | all of it, with the connections | delivery byte by byte, `SysWriter`, `SysReader`, `SysMessenger` |
| `Frames` | threads and frame numbers, shared by the next two | operators only; `Jump` is the test of `writer.c:251` and `db_unwrap.c:62` |
| `EventDump` | `event_to_file`, with the raw socket, the memory of the ring and the skip log | a packet arrives, is received, is written or lost; start, stop, dump, a Writer run again; reads |
| `DbUnwrap` | `db_unwrap.c` | one action per packet of each pass |
| `Startup` | `serve`, `conn`, `dada_db_simple.c` and the exits before the main loops | one action per program and step, each program run and killed at any time |
| `ScanInfo` | the document handlers of `executor.c` and `vlite_xml.c` | one action per kind of start tag, `Text`, `EndElement` |
| `Subarray` | `mergeSubarray` | a call, and a turn of each of its two loops |
| `CommandsProofs`, `CaptureProofs`, `SystemProofs`, `SubarrayProofs`, `EventDumpProofs`, `StartupProofs`, `DbUnwrapProofs`, `ScanInfoProofs` | | theorems |
| `MCCapture`, `MCSystem`, `MCScanInfo`, `MCSubarray` | | values for TLC |

There are two abstract specifications:

* `BlockUse` is the contract of a data block. `Capture` implements it
  (`UsesBlock`): whatever the client does, Writer and Reader perform no operation
  on the block in the wrong state. `EventDump` implements it too, with a
  refinement mapping: its ring has memory, two indices and a counter, as
  `ipcbuf` has, and `AsRing` makes of them the sequence of unread sub-blocks
  that `Capture` works with. Both are checked by TLC and proved.
* `Capture` is the abstract specification of the control of a pair: it promises
  its safety properties to every client. `System` implements it
  (`ImplementsCapture`, checked by TLC and proved), so these properties need no
  second check there.

`System` begins with every pair connected; how it comes to that, and what happens
when it does not, is `Startup`. `EventDump` leaves open when the Writer starts,
stops and dumps; `Capture` says which commands make it.

What is kept and what is not:

* A pass of a loop is cut wherever the outside can be observed or changed: the
  poll of the sockets, the command obeyed, the packet written or read. The two
  halves of a command's handling in `STATE_STOPPED` (taking and obeying it) are
  two steps, as `cmd` survives a pass there.
* In `Capture` a packet is a unit without contents, and the dump is the step from
  "act" to "flush", which leaves the ring alone. What the packets and the dump
  hold is the subject of `EventDump`. Messages and file names are left out.
* In `EventDump` a packet is known by its place among all that were sent; its
  thread and frame number follow from that (`FrameOf`). The raw socket's buffer
  drops what does not fit. The dump, which the code writes sub-block by sub-block
  in the order of memory, is given as the packet at each place of the file. A write
  may fail, upon which the code goes on to log
  the frame number as if it had not (`writer.c:239`). `recent` and `runs` are
  histories: what the recording has written, and how many packets ago one was
  last missed.
* In `Startup` a process is what decides whether it can be reached and by whom,
  and whether it will notice that its client is gone: which connection it has
  accepted, whether only the end of that is still unread (`over`), and whether it
  is inside a call on the block ("caught"). What the Messenger sent outlives it,
  so a process may be started, and caught, after its Messenger has died. A
  connection is the run of the Messenger that made it. The Messenger's two
  connections to a pair are made in the order of the code, Writer first. Of a
  data block only its being there is kept, which decides whether a process can
  start. `began`, the runs of the Messenger that came to its main loop and so may
  have sent something, is a history.
* In `DataBlock` a sub-block that is full becomes visible to the Reader only
  with the next write or with the close, as in PSRDADA; `ipcio_write` is
  therefore two steps at the end of a sub-block, and may block between them.
* A connection holds the bytes that have arrived. Bytes still under way are in
  `towriter` and `toreader`, so that commands can be late and arrive in bunches,
  and two connections are never ordered. A send to a process that has exited
  loses the byte or kills the Messenger (SIGPIPE).
* `IpcErrors` is the set of calls on the data block that may fail. When
  `ipcio_open` or `ipcio_close` does, the process exits with the block as it
  stands. The Writer never looks at what `ipcio_write` returns: it goes on without
  the packet, also when the sub-block before it has been handed over already;
  `status` keeps the result for `ClosedBlockEnds` and decides nothing. A failed
  `ipcio_read` is a short read, which the Reader takes for an end of data: it
  closes the block and opens it again. `MessengerCrashes` lets the Messenger die
  at any time.
* Histories: `wasked` and `rasked` hold the last request (a byte that is not an
  event) that has reached a process, `dumps` counts dumps. No action reads them.

* In `ScanInfo` the calls of the handlers are those expat makes: nested elements
  with one root, text in pieces, and an end anywhere, as a message may be cut
  off. A character is known by the element it comes from, which is what the
  properties are about; numbers stay the text that `atof` is applied to.

* In `Subarray` a turn of a loop is a step, which lets the invariants speak of
  what the loop has done so far. A document has one datasetId, which
  `startElement` copies to every antenna listed; `before` is a history variable
  with the table at the call.

Operators called "an error", such as `FlushDropsPending` or `StopFirstPairOnly`, are
not part of any specification. Each is a definition of the model as a plausible
mistake in the code would make it, and each property is known to fail under one
of them.

## Runs

Deadlock is not checked in any run: every process may exit, hang in the data
block for good, or wait for a client that owes it nothing.

| run | instance | shows |
|---|---|---|
| `capture` | one pair, 2 sub-blocks of 1 packet, 2 unread bytes | `TypeOK`, `BlockDiscipline`, `NoStaleCommand`, `StopIsFinal`, `ReaderObeys`, `FollowsRequests`, `UsesBlock`; fair: `WriterQuitsUnlessFull`, `ReaderQuitsUnlessEmpty`, `WriterUnblocks`, `RecordingDrains` |
| `capture_events` | violation | `EventsAreIgnored` |
| `system` | one pair, 1 sub-block of 2 packets, 2 documents, crashes, failing opens and closes | `SysTypeOK`, `WriterObeys`, `QuietWhenIdle`, `NoDumpUntriggered`, `ImplementsCapture`; fair: `RecordingEnds` |
| `system_pairs` | two pairs, 1 document, sleeps long enough, failing writes and reads | `ClosedBlockEnds`, `NobodyQuits`, `QuietWhenIdle`, `DumpPerTrigger` |
| `system_lost` | violation | `LostMessengerQuits` |
| `event_dump` | 2 sub-blocks of 2 packets, 8 packets, a raw socket for 2, frame numbers 0..2 | `TypeOK`, `DumpEndsInRecording`, `UnloggedDumpIsInTime`, `UsesBlock` |
| `startup` | one pair, queues of 2 connections, 3 runs of each program | `TypeOK`, `HeardOrEnding`; fair: `ReachedProcessesEnd` |
| `unwrap` | files of up to 5 packets, frame numbers 0..3 | `TypeOK`, `ScanFindsJumps`, `DumpIsCutAtWrap`, `OutputInTime` |
| `unwrap_lost` | violation | `NothingLost` |
| `scan_info` | documents of up to 6 elements, 2 antennas, 1 EOP day | `TypeOK`, `FieldsBelong`, `TextsKept` |
| `subarray` | 4 antennas, 3 subarrays, any documents | `TypeOK`, `MergedAsListed`, `RemovedIsCounted` |
| `subarray_last` | violation | `ConflictsRemoved` |

Bounds. `MaxUnread` is how many bytes may wait on a connection: two are enough
for every case of `wait_for_cmd` (none, one, a backlog with and without a
request), three for all the Messenger sends to a Writer for one document.
`MaxDocs` is the number of documents: two let the commands of one document meet
the leftovers of another. Rings of one or two sub-blocks of one or two packets
become full, empty, and closed in the middle of a sub-block (`capture` has
sub-blocks of one packet, which are never closed half full; those of two are in
`system`, and the proofs are about any size). Failing `ipcio_open` and
`ipcio_close` are in `system`, failing `ipcio_write` and `ipcio_read` in
`system_pairs`; `capture`, whose liveness needs a block that works, has none. One pair shows
everything about Writer and Reader, as pairs do not interact; the loops over the
pairs need two. Five packets of two threads are the fewest that have both threads before and after the
place where writing stopped and one to spare, and numbers modulo four let the end of a second fall
anywhere in them. In `scan_info`, six elements hold an antenna with a field and an
eopday with a field in either order, antenna numbers run from one below the
table to one above it, a second eopday is beyond the table, and a buffer for two
characters is filled by one piece or by two. Four antennas in `subarray` can be
in two subarrays of two with the document overlapping both, one, or the one with
the last antenna in it; datasetIds are interchangeable, hence the symmetry.
In `event_dump`, eight packets fill the ring of four twice, or once after a
recording that ended in the middle of a sub-block, and leave enough for the raw
socket of two to overflow in between; with three frame numbers the end of a
second falls at any place of a dump and between two recordings. In `startup`, three Messengers are one that
dies in a queue, one that is connected behind it, and one after both; three runs
of a Writer, likewise, let it exit between the Messenger's connections and come
back.

Fairness. `FairSpec` and `SysFairSpec` assume weak fairness of each process's
step: the loops poll with a zero timeout, the operating system schedules the
processes, and a call on the data block returns once it can. That the raw
socket delivers packets is **not** assumed: `WriterReceive` chooses each time
whether there is one. `SysFairSpec` also assumes that sleeps end and that TCP
delivers. `FairSpec` of `Startup` assumes that a process in `accept()` with a
connection waiting accepts it, that a started process comes to its call on the
data block and past it if it need not wait there, that commands still unread
when the Messenger ends are followed by the end of the connection, and that a
process in its main loop reads that end; nobody has to run or end a program, and
a process that waits inside a call on its data block need not come back. No fairness is given to the client of `Capture`, to documents, to
crashes or to errors.

### Findings

* `capture_events`: a Writer stops recording for good when one or more events
  arrive while it is dumping. `utils.c:147` says that a backlog of events is
  ignored and `writer.c:195` that recording is resumed if no commands are
  pending, but what the flush reads takes the place of the restart, and neither
  `CMD_EVENT` nor `CMD_NONE` starts a stopped Writer. The Messenger sends one
  event per recording, so under it this does not happen (`WriterObeys`); a
  second source of triggers, as planned in the comments of `messenger.c`, would
  meet it.
* `system_lost`: a Reader in `ipcio_read` with an empty ring never notices that
  the Messenger is gone (`reader.c:148`, against `utils.c:114`); a Writer in
  `ipcio_write` with a full ring is caught likewise. `ReaderQuitsUnlessEmpty`
  and `WriterQuitsUnlessFull` show that these are the only exceptions.
* `unwrap_lost`: `db_unwrap` drops the newest packet of every dump
  (`db_unwrap.c:109`, against the comment at line 106).
* `subarray_last`: `mergeSubarray` leaves the last antenna in a subarray it
  removes (`executor.c:96` ends one antenna early, against the comment at line 82).
  `MergedAsListed` shows, and `MergeIsRight` proves, that this is the only exception.

## Proofs

`tlapm` checks every leaf. The theorems hold for any set of pairs, any ring size
and any bound on unread bytes; the assumptions are the named ones of the modules
(`RingAssumption`, `ClientAssumption`, `MessengerAssumption`, `TableAssumption`,
`EventDumpAssumption`, `StartupAssumption`, `FrameAssumption`, `FileAssumption`,
`DocumentAssumption`) and, where a theorem says so, `OnlyCommands` (the client sends no byte but the four commands)
or `ClientIsMessenger` (the client's alphabet is the Messenger's).

* `TypeCorrect`: `TypeOK` is inductive, one lemma per process and one for the client.
* `InOrder` and its part `NoneIsStale`: `BlockDiscipline` and `NoStaleCommand` are
  inductive together with `TypeOK`. They need each other: that the Writer finds the
  block closed when it obeys a start rests on the flush having reset its state.
* `RequestsFollowed`: the argument behind the next two. `StopIsFinal` and
  `ReaderObeys` speak of states in which nothing is on its way and say nothing of
  the steps before them, so they are not inductive. `FollowsRequests` is: the
  last request to have arrived is either unread, and then it is the last
  non-event byte on the connection, or decides what the process does. A step that
  empties the connection keeps this by `WaitForCmdObeysLastRequest`, a byte that
  arrives by `AppendRequest` and `AppendEvent`. `FollowsRequests` also says of the
  Writer's flush that `cmd`, still `CMD_EVENT` there, does not count.
* `StopsAreFinal`, `ReadersObey`: consequences of `RequestsFollowed`.
* `ClosedBlocksEnd`: by strengthening to `Ends`, which also speaks of a block that
  is open and whose current sub-block is empty while the Writer is not inside
  `ipcio_write`: at every full sub-block it is only there that it may be left
  without a packet, or by a call that fails after it has marked the sub-block
  filled. The next write that works mends that; a close before it does not, hence
  the exception.
* `CaptureProofs!BlockUsed`: from `InOrder`, as each action that works on the block
  does so in the state `BlockDiscipline` puts it in (`StepsUseBlock`).
* `EventDumpProofs!TypeCorrect`: inductive together with `Indices` (the unread
  sub-blocks lie between the two indices, the one being written is none of them,
  and nothing is read behind the end of one) and `HasPacket`.
* `EventDumpProofs!BlockUsed`: marking a sub-block filled appends to the sequence
  of unread ones because, by `Indices`, it overwrites the count of none of them
  (`MarkAppends`); clearing takes from its front (`ClearTakes`); each operation
  is then the abstract one, by a lemma of its own (`OpensForWriting` ...
  `ReadsEnd`).
* `HeardOrEnds`: by strengthening to `Heard`: a process that was reached in its
  present run and still waits in `accept()` has a connection in its queue, and
  every connection, waiting or accepted, was made by this Messenger or an earlier
  one. It needs that a Messenger that runs has a number (`HasRun`).
* `ScanIsRight`, `DumpIsCut`, `OutputIsInTime`: from the invariant `Right`, for a
  file of any length. It says that the scan holds the last frame number of each
  thread and has found the jumps so far (`ScanStep`), and that the output so far is
  a beginning of the file turned so that it starts where it is cut (`Turned`). That
  a dump is cut where writing had stopped in it is `DumpJumps`: anywhere else in
  the file two packets of a thread that follow one another do so in time as well,
  so each thread jumps at most once, at its first packet behind that place.
* `WireTypeCorrect`, `Implementation`, `SystemSafe`: only the Messenger's commands
  are ever under way; so a delivery is a step of `Capture`'s client and every
  other step is one of `Capture` or leaves its variables alone; so the system has
  the properties above, and uses the data blocks as `BlockUse` says
  (`SystemUsesBlock`).
* `AlwaysScripted`: the properties of the system that an arbitrary client does not
  get rest on the invariant `Scripted`, which says for each place of the
  Messenger's script which command is the last on its way to a process, or was the
  last to reach it (`LastToWriter`, `LastToReader`), and that between two events
  there is always a start, in whatever pieces commands arrive and are read
  (`EventsFollowStarts`). The last part is what keeps a flush from finding nothing
  but events, the case of `EventsAreIgnored`; with it, a Writer that was asked
  last to start records or will (`StartsAreObeyed`), which is `WritersObey`. Together with
  `ReadersObey` that is `IdleIsQuiet`, as the last command at the end of the script
  is a stop. No command on its way is a quit, hence `ProcessesStay`, for
  blocks that can be opened and closed. A step touches one
  process (`WriterTouched`), so each case is about one Writer or Reader.
* `DumpsAreTriggered`: `dumps[p] <= eventlog[p]` is not inductive, as an event on its
  way is a dump to come. `EventsAccounted` counts those: on the connection, under
  way, or read and not yet obeyed. A dump moves one from the last place to the
  dumps, since by `NoStaleCommand` and the flush's rules it leaves `cmd` behind.
* `SysTypeCorrect`: by `OneTriggerPerDocument`, which counts the trigger still to
  come for the document at hand.
* `TriggersHaveDumps`: by strengthening to `Timely`: either every trigger of the
  Writer has had its dump and no event is around, or exactly one has not, it is the
  only thing on the Writer's connection, and the Messenger is at a place where it may be.
* `DumpsEndInRecordings`: by strengthening to `Newest`, which holds while recording
  as well: reading backwards in the memory of the ring from the place of writing, one meets
  the packets of the recording, newest first, until it or the ring ends. A packet
  written extends this (`WriteHolds`); at the end of a sub-block the place of writing is the
  same place of the file before and after it is marked filled (`FillHolds`);
  and when the block is closed, `event_to_file` and the counts of the sub-block closed
  last say that place (`StopIs`). Where a packet is in the file
  is `PlaceOf` and `DumpIs`.
* `UnloggedDumpsAreInTime`: by strengthening to `Unlogged`: among the packets written since
  the last that was logged, each has the frame number that follows its predecessor's
  in the same thread, and `framenum` is the number of the latest of a thread. A packet
  that is not logged then extends the row (`NoJumpRunsOn`). A dump is that row by `Newest`.
* `HandlersInPlace`: neither `FieldsBelong` nor `TextsKept` is inductive: where a text
  goes depends on `level`, `antId`, `eopId` and the buffer. The invariant `IInv` says
  that the handlers' stack is expat's (`Stacked`), that elements are nested as in a
  document (`Nested`, `Rooted`), that `eopId` is the number of the latest day
  (`DaysCounted`), that `antId` is that of the antenna that is open, and no antenna's
  outside one unless one has ended without text (`NumberedRight`), and that in
  an element that holds no others the buffer holds its text and nothing else
  (`TextGathered`). That the text may come in pieces rests on `CutIs`: cutting after
  each piece is cutting once. `TypeCorrect`, `TextsBelong` and `NothingIsMissed` follow.
* `LoopsInvariant`: what `mergeSubarray` has done to every place of the table after
  n turns of a loop is a formula of the document and the table at the call (`Gone`,
  `TableSoFar`), although the loop reads the table it is changing: a place found
  already empty was emptied together with its whole subarray (`OneTurn`). The
  count goes along as the cardinality of a set that each turn extends by a
  disjoint one. `MergeIsRight`, `CountIsRight` and the type invariant follow.

Every invariant, every action property and every refinement the passing runs
check has a theorem. Only model-checked is liveness (`WriterQuitsUnlessFull`,
`ReaderQuitsUnlessEmpty`, `WriterUnblocks`, `RecordingDrains`, `RecordingEnds`,
`ReachedProcessesEnd`): the prover handles neither fairness nor `ENABLED`. The
four violations are counterexamples, for which a run is enough.

## Not modelled

* Contents of documents; messages and file names; `fwrite` coming up short.
* In `wait_for_cmd`: `read()` failing, and `MAXINBUFSIZE` bytes at once.
* A process killed from outside while it is recording: to the other processes it
  looks like one that has exited, but the block stays open. In `Startup`, where
  programs are killed, the state of the block is left out.
* Which block a process is attached to. One that runs while its block is destroyed
  goes on with memory that has no name, and its counterpart, started again, uses
  another block; nothing in the code prevents or notices that, so there is
  nothing to check.
* Of the documents: attributes other than the two that decide where something
  goes, an antenna without a name (`antId` would stay that of the one before), the prefix of an intent, and nesting deeper than the element stack
  (the handlers do not check for it). The tail of an earlier message behind a
  shorter one in the Messenger's buffer is left to the parser.
* The descriptors lost at `messenger.c:252`: when none is left, documents are no
  longer written to files, and everything else goes on. The buffering of the
  event log, which is lost with a Messenger that is killed.
* `updateAntennaPositions`, a copy, and `vlaSubarraySize`, a count.
* Multicast, options and alerts have no control in them: socket calls that work
  or fail (that they may fail is in `Startup!EndMessenger` and
  `Messenger!ReceiveOther`), arguments copied to fields, and a parser whose every
  call is commented out.

## Plan

1. Done: all modules above, with the proofs above.
2. Proofs: that an unlogged dump of `EventDump` that fills the ring with both threads is a dump
   in the sense of `DbUnwrap!IsDump`, which joins the two components: `db_unwrap` then
   accepts it and puts it in the order of time.
3. Runs: a dump with a discontinuity in one thread only, which `db_unwrap.c:86`
   takes for one that has none.
