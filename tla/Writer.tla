------------------------------- MODULE Writer -------------------------------
(***************************************************************************)
(* The main loop of the Writer (writer.c): it takes commands from its      *)
(* control connection and, while started, copies VDIF packets from the     *)
(* raw data socket into the data block.                                    *)
(*                                                                         *)
(* Every step of the loop at which the outside world can be observed or    *)
(* changed is one action.  writer[p].pc says where in the loop it is:      *)
(*   "top"    about to begin a pass                                        *)
(*   "act"    started; the sockets have been polled, cmd is to be obeyed   *)
(*   "flush"  the ring has been dumped, pending commands are to be read    *)
(*   "write"  in ipcio_write with a packet                                 *)
(*   "exited" returned or called exit(1)                                   *)
(***************************************************************************)
EXTENDS Commands, DataBlock

VARIABLES writer,   \* writer[p]: state, cmd, pc, and status: ipcio_write's last, read by nothing
          wsock     \* wsock[p]: the Writer's end of its control connection

WriterProcess == [state : {STATE_STOPPED, STATE_STARTED},
                  cmd   : Command \union {CMD_NONE},
                  pc    : {"top", "act", "flush", "write", "exited"},
                  status : {"ok", "error"}]

WriterInit ==
  /\ writer = [p \in Pairs |-> [state |-> STATE_STOPPED, cmd |-> CMD_NONE, pc |-> "top",
                               status |-> "ok"]]
  /\ wsock = [p \in Pairs |-> NewConnection]

WriterAt(p, state, pc) == writer[p].state = state /\ writer[p].pc = pc

WriterBecomes(p, state, cmd, pc) ==
  writer' = [writer EXCEPT ![p].state = state, ![p].cmd = cmd, ![p].pc = pc]

\* wait_for_cmd(&c): all that has arrived is taken off the connection.
WriterReads(p) == wsock' = [wsock EXCEPT ![p] = Drained(@)]
WriterCmd(p) == WaitForCmd(wsock[p].bytes)

-----------------------------------------------------------------------------
(* STATE_STOPPED: block in wait_for_cmd, then obey. *)

WriterWait(p) ==
  /\ WriterAt(p, STATE_STOPPED, "top")
  /\ writer[p].cmd = CMD_NONE
  /\ Readable(wsock[p])
  /\ WriterBecomes(p, STATE_STOPPED, WriterCmd(p), "top")
  /\ WriterReads(p)
  /\ UNCHANGED ring

WriterStart(p) ==
  /\ WriterAt(p, STATE_STOPPED, "top")
  /\ writer[p].cmd = CMD_START
  /\ WriterBecomes(p, STATE_STARTED, CMD_NONE, "top")
  /\ OpenForWriting(p)
  /\ UNCHANGED wsock

WriterIgnore(p) ==
  /\ WriterAt(p, STATE_STOPPED, "top")
  /\ writer[p].cmd \in {CMD_EVENT, CMD_STOP}
  /\ WriterBecomes(p, STATE_STOPPED, CMD_NONE, "top")
  /\ UNCHANGED <<wsock, ring>>

WriterQuitStopped(p) ==
  /\ WriterAt(p, STATE_STOPPED, "top")
  /\ writer[p].cmd = CMD_QUIT
  /\ WriterBecomes(p, STATE_STOPPED, CMD_QUIT, "exited")
  /\ UNCHANGED <<wsock, ring>>

-----------------------------------------------------------------------------
(* STATE_STARTED: poll both sockets, obey a command, then take a packet. *)

\* cmd keeps its value when nothing has arrived.
WriterSelect(p) ==
  /\ WriterAt(p, STATE_STARTED, "top")
  /\ IF Readable(wsock[p])
     THEN WriterBecomes(p, STATE_STARTED, WriterCmd(p), "act") /\ WriterReads(p)
     ELSE WriterBecomes(p, STATE_STARTED, writer[p].cmd, "act") /\ UNCHANGED wsock
  /\ UNCHANGED ring

\* The block is closed and dumped to a file; the dump leaves the block as it is, and
\* goes on to the flush also when the file cannot be opened.
WriterEvent(p) ==
  /\ WriterAt(p, STATE_STARTED, "act")
  /\ writer[p].cmd = CMD_EVENT
  /\ WriterBecomes(p, STATE_STARTED, CMD_EVENT, "flush")
  /\ CloseForWriting(p)
  /\ UNCHANGED wsock

\* Errors in the flush: the state is not reset, the restart wins over what arrived, there
\* is no restart, cmd is not reset.
FlushStaysStarted(p) ==
  WriterAt(p, STATE_STARTED, "flush") /\ WriterBecomes(p, STATE_STARTED, CMD_NONE, "top")
    /\ UNCHANGED <<wsock, ring>>
FlushDropsPending(p) ==
  WriterAt(p, STATE_STARTED, "flush") /\ WriterBecomes(p, STATE_STOPPED, CMD_START, "top")
    /\ WriterReads(p) /\ UNCHANGED ring
FlushWithoutRestart(p) ==
  WriterAt(p, STATE_STARTED, "flush") /\ WriterBecomes(p, STATE_STOPPED, CMD_NONE, "top")
    /\ UNCHANGED <<wsock, ring>>
FlushKeepsEvent(p) ==
  WriterAt(p, STATE_STARTED, "flush") /\ WriterBecomes(p, STATE_STARTED, CMD_EVENT, "top")
    /\ OpenForWriting(p) /\ UNCHANGED wsock

\* What arrived during the dump replaces the restart that otherwise follows it.
WriterFlush(p) ==
  /\ WriterAt(p, STATE_STARTED, "flush")
  /\ IF Readable(wsock[p])
     THEN WriterBecomes(p, STATE_STOPPED, WriterCmd(p), "top") /\ WriterReads(p)
     ELSE WriterBecomes(p, STATE_STOPPED, CMD_START, "top") /\ UNCHANGED wsock
  /\ UNCHANGED ring

WriterStop(p) ==
  /\ WriterAt(p, STATE_STARTED, "act")
  /\ writer[p].cmd = CMD_STOP
  /\ WriterBecomes(p, STATE_STOPPED, CMD_NONE, "top")
  /\ CloseForWriting(p)
  /\ UNCHANGED wsock

WriterQuit(p) ==
  /\ WriterAt(p, STATE_STARTED, "act")
  /\ writer[p].cmd = CMD_QUIT
  /\ WriterBecomes(p, STATE_STARTED, CMD_QUIT, "exited")
  /\ CloseForWriting(p)
  /\ UNCHANGED wsock

\* An error: the ignored start stays in cmd.
ReceiveKeepsCmd(p) ==
  WriterAt(p, STATE_STARTED, "act") /\ writer[p].cmd \in {CMD_NONE, CMD_START}
    /\ WriterBecomes(p, STATE_STARTED, writer[p].cmd, "top") /\ UNCHANGED <<wsock, ring>>

\* A start is ignored.  The raw socket then has a packet of the expected size or not
\* (nothing waiting, another size, a failed read).
WriterReceive(p) ==
  /\ WriterAt(p, STATE_STARTED, "act")
  /\ writer[p].cmd \in {CMD_NONE, CMD_START}
  /\ \E pc \in {"top", "write"} : WriterBecomes(p, STATE_STARTED, CMD_NONE, pc)
  /\ UNCHANGED <<wsock, ring>>

\* An error: a packet that has to wait for the next sub-block is given up.
MarkFilledGivesUp(p) ==
  WriterAt(p, STATE_STARTED, "write") /\ MarkFilled(p)
    /\ WriterBecomes(p, STATE_STARTED, CMD_NONE, "top") /\ UNCHANGED wsock

WriterMarkFilled(p) ==
  /\ WriterAt(p, STATE_STARTED, "write")
  /\ MarkFilled(p)
  /\ UNCHANGED <<writer, wsock>>

\* ipcio_write is over: the loop goes on whether it wrote the packet or not.
WriterGoesOn(p, status) ==
  /\ WriterAt(p, STATE_STARTED, "write")
  /\ writer' = [writer EXCEPT ![p].pc = "top", ![p].status = status]
  /\ UNCHANGED wsock

WriterWrite(p) == WritePacket(p) /\ WriterGoesOn(p, "ok")

\* It returns an error, before or after it has marked a full sub-block filled: the packet is
\* lost, and the block stays as it stands.
WriterWriteFails(p) == "write" \in IpcErrors /\ WriterGoesOn(p, "error") /\ UNCHANGED ring

\* ipcio_open or ipcio_close returns an error: exit(1) leaves the block as it stands.
WriterFails(p) ==
  /\ \/ /\ "open" \in IpcErrors
        /\ WriterAt(p, STATE_STOPPED, "top")
        /\ writer[p].cmd = CMD_START
     \/ /\ "close" \in IpcErrors
        /\ WriterAt(p, STATE_STARTED, "act")
        /\ writer[p].cmd \in {CMD_EVENT, CMD_STOP, CMD_QUIT}
  /\ WriterBecomes(p, writer[p].state, writer[p].cmd, "exited")
  /\ UNCHANGED <<wsock, ring>>

WriterNext(p) ==
  \/ WriterWait(p) \/ WriterStart(p) \/ WriterIgnore(p) \/ WriterQuitStopped(p)
  \/ WriterSelect(p) \/ WriterEvent(p) \/ WriterFlush(p) \/ WriterStop(p) \/ WriterQuit(p)
  \/ WriterReceive(p) \/ WriterMarkFilled(p) \/ WriterWrite(p) \/ WriterWriteFails(p)
  \/ WriterFails(p)

-----------------------------------------------------------------------------
WriterExited(p) == writer[p].pc = "exited"
Recording(p) == writer[p].state = STATE_STARTED /\ ~WriterExited(p)

\* The Writer is inside ipcio_write and waits for the Reader to clear a sub-block.
WriterBlocked(p) == writer[p].pc = "write" /\ RingFull(p)

\* No command is on its way into or through the Writer.
WriterAtRest(p) == /\ wsock[p].bytes = <<>>
                   /\ writer[p].cmd = CMD_NONE
                   /\ writer[p].pc = "top"
=============================================================================
