------------------------------ MODULE Capture ------------------------------
(***************************************************************************)
(* What one or more Writer/Reader pairs do for ANY client: each pair        *)
(* shares a data block, and the client sends each of the two processes any *)
(* bytes it likes, at any time, over that process's own connection, and    *)
(* may drop either connection.  The Messenger is one such client.          *)
(***************************************************************************)
EXTENDS Writer, Reader

CONSTANTS WriterBytes,   \* what the client may send to a Writer
          ReaderBytes,   \* what it may send to a Reader
          MaxUnread      \* bytes that may be waiting to be read on a connection

ASSUME ClientAssumption == /\ WriterBytes \subseteq Byte
                           /\ ReaderBytes \subseteq Byte
                           /\ MaxUnread \in Nat

\* History: the last byte other than an event that has reached each process.
VARIABLES wasked, rasked

vars == <<ring, writer, wsock, reader, rsock, wasked, rasked>>

Init ==
  /\ RingInit
  /\ WriterInit
  /\ ReaderInit
  /\ wasked = [p \in Pairs |-> CMD_STOP]
  /\ rasked = [p \in Pairs |-> CMD_STOP]

CanReceive(c) == ~c.closed /\ Len(c.bytes) < MaxUnread
Received(c, b) == [c EXCEPT !.bytes = Append(@, b)]
HungUp(c) == [c EXCEPT !.closed = TRUE]

TellWriter(p, b) ==
  /\ CanReceive(wsock[p]) /\ ~WriterExited(p)
  /\ wsock' = [wsock EXCEPT ![p] = Received(@, b)]
  /\ wasked' = [wasked EXCEPT ![p] = LastRequest(<<b>>, @)]
  /\ UNCHANGED <<ring, writer, reader, rsock, rasked>>

TellReader(p, b) ==
  /\ CanReceive(rsock[p]) /\ ~ReaderExited(p)
  /\ rsock' = [rsock EXCEPT ![p] = Received(@, b)]
  /\ rasked' = [rasked EXCEPT ![p] = LastRequest(<<b>>, @)]
  /\ UNCHANGED <<ring, writer, wsock, reader, wasked>>

DropWriter(p) ==
  /\ ~wsock[p].closed
  /\ wsock' = [wsock EXCEPT ![p] = HungUp(@)]
  /\ UNCHANGED <<ring, writer, reader, rsock, wasked, rasked>>

DropReader(p) ==
  /\ ~rsock[p].closed
  /\ rsock' = [rsock EXCEPT ![p] = HungUp(@)]
  /\ UNCHANGED <<ring, writer, wsock, reader, wasked, rasked>>

Client(p) ==
  \/ \E b \in WriterBytes : TellWriter(p, b)
  \/ \E b \in ReaderBytes : TellReader(p, b)
  \/ DropWriter(p)
  \/ DropReader(p)

WriterStep(p) == WriterNext(p) /\ UNCHANGED <<reader, rsock, wasked, rasked>>
ReaderStep(p) == ReaderNext(p) /\ UNCHANGED <<writer, wsock, wasked, rasked>>

Next == \E p \in Pairs : Client(p) \/ WriterStep(p) \/ ReaderStep(p)

Spec == Init /\ [][Next]_vars

\* Both processes are scheduled; the client owes nothing.
FairSpec == Spec /\ \A p \in Pairs : WF_vars(WriterStep(p)) /\ WF_vars(ReaderStep(p))

-----------------------------------------------------------------------------
TypeOK ==
  /\ ring \in [Pairs -> Ring]
  /\ writer \in [Pairs -> WriterProcess]
  /\ wsock \in [Pairs -> Connection]
  /\ reader \in [Pairs -> ReaderProcess]
  /\ rsock \in [Pairs -> Connection]
  /\ wasked \in [Pairs -> Byte]
  /\ rasked \in [Pairs -> Byte]

(***************************************************************************)
(* The data block is opened, closed, read and written in the order its     *)
(* library demands: it is open on a side exactly while the process there   *)
(* is started, except during the dump, for which the Writer has closed it; *)
(* so no open, close, read or write ever meets a block in the wrong state. *)
(***************************************************************************)
BlockDiscipline ==
  \A p \in Pairs :
    /\ ~WriterExited(p) =>
         (ring[p].writing <=> writer[p].state = STATE_STARTED /\ writer[p].pc # "flush")
    /\ ~ReaderExited(p) => (ring[p].reading <=> reader[p].state = STATE_STARTED)

(***************************************************************************)
(* The same, step by step: whatever the client does, what the processes do *)
(* with each data block is a legal use of it.                              *)
(***************************************************************************)
Block == INSTANCE BlockUse WITH ring <- ring

UsesBlock == Block!Spec

(***************************************************************************)
(* A process that has begun a pass of its started state has no command     *)
(* left over from an earlier pass: cmd outlives a pass, and a pass that    *)
(* reads nothing would obey the old one again (a second dump for one       *)
(* event, a stop of a recording that was just resumed).                    *)
(***************************************************************************)
NoStaleCommand ==
  \A p \in Pairs :
    /\ Recording(p) /\ writer[p].pc \in {"top", "write"} => writer[p].cmd = CMD_NONE
    /\ reader[p].state = STATE_STARTED /\ reader[p].pc \in {"top", "read"}
         => reader[p].cmd = CMD_NONE

(***************************************************************************)
(* A data block that is not open for writing ends in an end of data, so    *)
(* the Reader never waits for packets of a recording that is over: but     *)
(* when ipcio_write has failed for the last packet, which may have handed  *)
(* over the sub-block before it, and the close then has none to mark.      *)
(***************************************************************************)
ClosedBlockEnds ==
  \A p \in Pairs :
    ~ring[p].writing /\ ring[p].filled # <<>> /\ writer[p].status = "ok"
      => Last(ring[p].filled).eod

(***************************************************************************)
(* A stop is final.  Whatever stops, starts and events the client sends,   *)
(* however they pile up and whether they arrive before, during or after a  *)
(* dump: once every request has been read, the Writer has the block open   *)
(* only if the last request was to start.  The restart that follows a dump *)
(* must never undo a stop.                                                 *)
(***************************************************************************)
StopIsFinal ==
  \A p \in Pairs :
    /\ ring[p].writing /\ ~WriterExited(p)
    /\ LastNonEvent(wsock[p].bytes) = 0
    /\ writer[p].cmd \notin {CMD_STOP, CMD_QUIT}
    => wasked[p] = CMD_START

(***************************************************************************)
(* The Reader obeys: with no command on its way it is started exactly if   *)
(* it was asked last to start, also when an end of data made it close the  *)
(* block and order itself to start while a request was arriving.           *)
(***************************************************************************)
ReaderObeys ==
  \A p \in Pairs :
    ReaderAtRest(p) => (reader[p].state = STATE_STARTED <=> rasked[p] = CMD_START)

(***************************************************************************)
(* wait_for_cmd says of events that pile up: "We get here if only          *)
(* CMD_EVENTs are backlogged; ignore them", and the Writer after a dump:   *)
(* "Get pending commands, resume writing to ring buffer if there are       *)
(* none".  So events never end a recording: a Writer that was asked last   *)
(* to start, and has nothing to obey, is started.                          *)
(***************************************************************************)
EventsAreIgnored ==
  \A p \in Pairs : WriterAtRest(p) /\ wasked[p] = CMD_START => writer[p].state = STATE_STARTED

(***************************************************************************)
(* Why StopIsFinal and ReaderObeys hold: the request that has reached a    *)
(* process last is either still unread, as the last request waiting on its *)
(* connection, or decides what the process is doing or about to do.        *)
(***************************************************************************)
WillRecord(p) ==
  /\ ~WriterExited(p)
  /\ \/ /\ writer[p].state = STATE_STARTED
        /\ writer[p].pc # "flush" => writer[p].cmd \notin {CMD_STOP, CMD_QUIT}
     \/ /\ writer[p].state = STATE_STOPPED
        /\ writer[p].cmd = CMD_START

WillRead(p) ==
  \/ reader[p].state = STATE_STARTED /\ reader[p].cmd # CMD_STOP
  \/ reader[p].state = STATE_STOPPED /\ reader[p].cmd = CMD_START

FollowsRequests ==
  \A p \in Pairs :
    /\ wasked[p] = LastRequest(wsock[p].bytes, wasked[p])
    /\ WillRecord(p) /\ LastNonEvent(wsock[p].bytes) = 0 => wasked[p] = CMD_START
    /\ rasked[p] = LastRequest(rsock[p].bytes, rasked[p])
    /\ ~ReaderExited(p) /\ reader[p].cmd # CMD_QUIT /\ LastNonEvent(rsock[p].bytes) = 0
         => (WillRead(p) <=> rasked[p] = CMD_START)

(***************************************************************************)
(* A Writer whose client is gone exits, unless it is caught for good in    *)
(* ipcio_write with a full ring.                                           *)
(***************************************************************************)
WriterQuitsUnlessFull ==
  \A p \in Pairs : wsock[p].closed ~> (WriterExited(p) \/ []WriterBlocked(p))

(***************************************************************************)
(* A Reader whose client is gone exits, unless it is caught for good in    *)
(* ipcio_read with nothing to read.                                        *)
(***************************************************************************)
ReaderQuitsUnlessEmpty ==
  \A p \in Pairs : rsock[p].closed ~> (ReaderExited(p) \/ []ReaderBlocked(p))

ReaderWanted(p) == rasked[p] = CMD_START /\ ~ReaderExited(p)

(***************************************************************************)
(* A Writer that waits for room gets it while the Reader is wanted: the    *)
(* two never wait for each other, and no end of data, left in the ring by  *)
(* any number of dumps and stops, makes the Reader give up.                *)
(***************************************************************************)
WriterUnblocks ==
  \A p \in Pairs : []<>(~WriterBlocked(p) \/ ~ReaderWanted(p))

(***************************************************************************)
(* What is recorded is taken out: the Reader, while it is wanted, empties  *)
(* a block that has been closed, if recording does not begin again first.  *)
(***************************************************************************)
RecordingDrains ==
  \A p \in Pairs :
    []<>(NothingToRead(p) \/ ring[p].writing \/ ~ReaderWanted(p))
=============================================================================
