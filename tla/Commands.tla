------------------------------ MODULE Commands ------------------------------
(***************************************************************************)
(* The one-character commands of Connection.h, the control connection they *)
(* travel on, and wait_for_cmd (utils.c), the routine with which the       *)
(* Writer and the Reader take commands off that connection.                *)
(***************************************************************************)
EXTENDS Naturals, Sequences, SequencesExt

CMD_START == "S"
CMD_STOP  == "C"
CMD_QUIT  == "Q"
CMD_EVENT == "E"
CMD_NONE  == "N"

Command == {CMD_START, CMD_STOP, CMD_QUIT, CMD_EVENT}

\* The two states of a Writer and of a Reader (def.h).
STATE_STARTED == "started"
STATE_STOPPED == "stopped"

\* Every byte that is none of the four commands, such as the line ending telnet adds.
UNRECOGNIZED == "?"
Byte == Command \union {UNRECOGNIZED}

(***************************************************************************)
(* One end of a control connection: the bytes that have arrived and have   *)
(* not been read, and whether the peer has closed.                         *)
(***************************************************************************)
Connection == [bytes : Seq(Byte), closed : BOOLEAN]
NewConnection == [bytes |-> <<>>, closed |-> FALSE]

\* select() reports the socket readable, and read() does not block.
Readable(c) == c.bytes # <<>> \/ c.closed

\* read() takes every byte that has arrived (fewer than MAXINBUFSIZE = 128 of them).
Drained(c) == [c EXCEPT !.bytes = <<>>]

-----------------------------------------------------------------------------
\* The switch over a command character: anything unknown becomes CMD_NONE.
Decode(b) == IF b \in Command THEN b ELSE CMD_NONE

\* Where the backlog loop stops: the last byte that is not CMD_EVENT, or 0.
LastNonEvent(buf) == SelectLastInSeq(buf, LAMBDA b : b # CMD_EVENT)

\* Errors the properties are tried against: the oldest of a backlog is taken, a lost
\* connection is taken for no command, a backlog of events falls off the end.
OldestCmd(buf) == IF buf = <<>> THEN CMD_QUIT ELSE Decode(buf[1])
CmdWithoutQuit(buf) == IF buf = <<>> THEN CMD_NONE ELSE Decode(buf[Len(buf)])
FallsThrough(buf) ==
  IF buf = <<>> THEN CMD_QUIT
  ELSE IF Len(buf) > 1 /\ LastNonEvent(buf) = 0 THEN UNRECOGNIZED ELSE Decode(buf[Len(buf)])

(***************************************************************************)
(* The command for what read() returned.  No byte means that the peer is   *)
(* gone; one byte is taken as it is; of a backlog, the most recent         *)
(* non-event command counts and the rest is dropped.                       *)
(***************************************************************************)
WaitForCmd(buf) ==
  CASE buf = <<>>    -> CMD_QUIT
    [] Len(buf) = 1  -> Decode(buf[1])
    [] OTHER         -> LET ii == LastNonEvent(buf)
                        IN  IF ii = 0 THEN CMD_NONE ELSE Decode(buf[ii])

\* The request a client has made last with the bytes in buf, given the one before them:
\* an event asks for a dump and leaves the request to record or not as it was.
LastRequest(buf, before) ==
  LET ii == LastNonEvent(buf) IN IF ii = 0 THEN before ELSE buf[ii]
=============================================================================
