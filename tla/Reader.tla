------------------------------- MODULE Reader -------------------------------
(***************************************************************************)
(* The main loop of the Reader (reader.c): while started it empties the    *)
(* data block one packet at a time, so that the Writer finds room, and it  *)
(* reopens the block whenever it has come to an end of data.               *)
(* reader[p].pc says where in the loop it is:                              *)
(*   "top"    about to begin a pass                                        *)
(*   "act"    started; the connection has been polled, cmd is to be obeyed *)
(*   "read"   in ipcio_read                                                *)
(*   "exited" returned or called exit(1)                                   *)
(***************************************************************************)
EXTENDS Commands, DataBlock

VARIABLES reader,   \* reader[p]: state, cmd and pc
          rsock     \* rsock[p]: the Reader's end of its control connection

ReaderProcess == [state : {STATE_STOPPED, STATE_STARTED},
                  cmd   : Command \union {CMD_NONE},
                  pc    : {"top", "act", "read", "exited"}]

ReaderInit ==
  /\ reader = [p \in Pairs |-> [state |-> STATE_STOPPED, cmd |-> CMD_NONE, pc |-> "top"]]
  /\ rsock = [p \in Pairs |-> NewConnection]

ReaderAt(p, state, pc) == reader[p].state = state /\ reader[p].pc = pc

ReaderBecomes(p, state, cmd, pc) ==
  reader' = [reader EXCEPT ![p] = [state |-> state, cmd |-> cmd, pc |-> pc]]

\* wait_for_cmd(&c): all that has arrived is taken off the connection.
ReaderReads(p) == rsock' = [rsock EXCEPT ![p] = Drained(@)]
ReaderCmd(p) == WaitForCmd(rsock[p].bytes)

-----------------------------------------------------------------------------
(* STATE_STOPPED: block in wait_for_cmd, then obey. *)

ReaderWait(p) ==
  /\ ReaderAt(p, STATE_STOPPED, "top")
  /\ reader[p].cmd = CMD_NONE
  /\ Readable(rsock[p])
  /\ ReaderBecomes(p, STATE_STOPPED, ReaderCmd(p), "top")
  /\ ReaderReads(p)
  /\ UNCHANGED ring

ReaderStart(p) ==
  /\ ReaderAt(p, STATE_STOPPED, "top")
  /\ reader[p].cmd = CMD_START
  /\ ReaderBecomes(p, STATE_STARTED, CMD_NONE, "top")
  /\ OpenForReading(p)
  /\ UNCHANGED rsock

ReaderIgnore(p) ==
  /\ ReaderAt(p, STATE_STOPPED, "top")
  /\ reader[p].cmd \in {CMD_EVENT, CMD_STOP}
  /\ ReaderBecomes(p, STATE_STOPPED, CMD_NONE, "top")
  /\ UNCHANGED <<rsock, ring>>

ReaderQuitStopped(p) ==
  /\ ReaderAt(p, STATE_STOPPED, "top")
  /\ reader[p].cmd = CMD_QUIT
  /\ ReaderBecomes(p, STATE_STOPPED, CMD_QUIT, "exited")
  /\ UNCHANGED <<rsock, ring>>

-----------------------------------------------------------------------------
(* STATE_STARTED: poll the connection, obey a command, then read a packet. *)

\* An error: only bytes are looked for, not the end of the connection.
SelectMissesEnd(p) ==
  ReaderAt(p, STATE_STARTED, "top") /\ rsock[p].bytes = <<>>
    /\ ReaderBecomes(p, STATE_STARTED, reader[p].cmd, "act") /\ UNCHANGED <<rsock, ring>>

\* cmd keeps its value when nothing has arrived.
ReaderSelect(p) ==
  /\ ReaderAt(p, STATE_STARTED, "top")
  /\ IF Readable(rsock[p])
     THEN ReaderBecomes(p, STATE_STARTED, ReaderCmd(p), "act") /\ ReaderReads(p)
     ELSE ReaderBecomes(p, STATE_STARTED, reader[p].cmd, "act") /\ UNCHANGED rsock
  /\ UNCHANGED ring

ReaderStop(p) ==
  /\ ReaderAt(p, STATE_STARTED, "act")
  /\ reader[p].cmd = CMD_STOP
  /\ ReaderBecomes(p, STATE_STOPPED, CMD_NONE, "top")
  /\ CloseForReading(p)
  /\ UNCHANGED rsock

ReaderQuit(p) ==
  /\ ReaderAt(p, STATE_STARTED, "act")
  /\ reader[p].cmd = CMD_QUIT
  /\ ReaderBecomes(p, STATE_STARTED, CMD_QUIT, "exited")
  /\ CloseForReading(p)
  /\ UNCHANGED rsock

\* An event or a start is ignored.
ReaderProceed(p) ==
  /\ ReaderAt(p, STATE_STARTED, "act")
  /\ reader[p].cmd \in {CMD_NONE, CMD_EVENT, CMD_START}
  /\ ReaderBecomes(p, STATE_STARTED, CMD_NONE, "read")
  /\ UNCHANGED <<rsock, ring>>

ReaderReadPacket(p) ==
  /\ ReaderAt(p, STATE_STARTED, "read")
  /\ ReadPacket(p)
  /\ ReaderBecomes(p, STATE_STARTED, CMD_NONE, "top")
  /\ UNCHANGED rsock

\* An error: the Reader does not order itself to start again.
EndWithoutRestart(p) ==
  ReaderAt(p, STATE_STARTED, "read") /\ ReadEnd(p)
    /\ ReaderBecomes(p, STATE_STOPPED, CMD_NONE, "top") /\ UNCHANGED rsock

\* A short read: the block is closed and the Reader orders itself to start again.
ReaderEnd(p) ==
  /\ ReaderAt(p, STATE_STARTED, "read")
  /\ ReadEnd(p)
  /\ ReaderBecomes(p, STATE_STOPPED, CMD_START, "top")
  /\ UNCHANGED rsock

\* ipcio_read returns an error: that is a short read as well.
ReaderReadFails(p) ==
  /\ "read" \in IpcErrors
  /\ ReaderAt(p, STATE_STARTED, "read")
  /\ CloseForReading(p)
  /\ ReaderBecomes(p, STATE_STOPPED, CMD_START, "top")
  /\ UNCHANGED rsock

\* ipcio_open or ipcio_close returns an error: exit(1) leaves the block as it stands.
ReaderFails(p) ==
  /\ \/ /\ "open" \in IpcErrors
        /\ ReaderAt(p, STATE_STOPPED, "top")
        /\ reader[p].cmd = CMD_START
     \/ /\ "close" \in IpcErrors
        /\ ReaderAt(p, STATE_STARTED, "act")
        /\ reader[p].cmd \in {CMD_STOP, CMD_QUIT}
     \/ /\ "close" \in IpcErrors
        /\ ReaderAt(p, STATE_STARTED, "read")
        /\ AtEnd(p) \/ "read" \in IpcErrors
  /\ ReaderBecomes(p, reader[p].state, reader[p].cmd, "exited")
  /\ UNCHANGED <<rsock, ring>>

ReaderNext(p) ==
  \/ ReaderWait(p) \/ ReaderStart(p) \/ ReaderIgnore(p) \/ ReaderQuitStopped(p)
  \/ ReaderSelect(p) \/ ReaderStop(p) \/ ReaderQuit(p) \/ ReaderProceed(p)
  \/ ReaderReadPacket(p) \/ ReaderEnd(p) \/ ReaderReadFails(p)
  \/ ReaderFails(p)

-----------------------------------------------------------------------------
ReaderExited(p) == reader[p].pc = "exited"

\* The Reader is inside ipcio_read and waits for the Writer to fill a sub-block.
ReaderBlocked(p) == reader[p].pc = "read" /\ NothingToRead(p)

\* No command is on its way into or through the Reader.
ReaderAtRest(p) == /\ rsock[p].bytes = <<>>
                   /\ reader[p].cmd = CMD_NONE
                   /\ reader[p].pc = "top"
=============================================================================
