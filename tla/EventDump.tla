----------------------------- MODULE EventDump -----------------------------
(***************************************************************************)
(* The contents of one pair's data block, and the dump the Writer makes of *)
(* them on an event (event_to_file in utils.c).  The memory of the ring is *)
(* never cleared: a recording overwrites it sub-block by sub-block, ends   *)
(* somewhere in the middle of one, and the next recording goes on with the *)
(* sub-block after it.  The dump copies the memory as it lies.             *)
(*                                                                         *)
(* Packets come from the raw data socket, whose buffer in the kernel keeps *)
(* the oldest and drops what does not fit: nobody takes packets out while  *)
(* the Writer is stopped, makes a dump or waits in ipcio_write.            *)
(*                                                                         *)
(* When the Writer starts, stops and dumps is left open here; Capture says *)
(* which commands make it.  writer is where it is:                         *)
(*   "stopped", "started"   its state                                      *)
(*   "write"   started, in ipcio_write with a packet                       *)
(*   "dumped"  the block is closed and its dump in the file                *)
(***************************************************************************)
EXTENDS Frames

CONSTANTS NBufs,       \* sub-blocks in the ring
          PktsPerBuf,  \* packets in a sub-block
          RawSize,     \* packets the raw socket's buffer holds
          MaxPackets   \* bound: packets that arrive

ASSUME EventDumpAssumption == /\ {NBufs, PktsPerBuf} \subseteq Nat \ {0}
                              /\ {RawSize, MaxPackets} \subseteq Nat

VARIABLES
  writer,
  hand,      \* the packet in ipcio_write
  framenum,  \* the last frame number of each thread, or -1
  reading,   \* does the Reader have the block open?
  sent,      \* packets that have come to the raw socket
  raw,       \* the packets in the raw socket's buffer, oldest first
  mem,       \* mem[i]: the memory of sub-block i
  info,      \* info[i]: packets in sub-block i when it was marked filled, end of data
  wbuf, cur, \* the sub-block being written, packets in it
  rbuf, pos, \* the oldest sub-block not cleared, packets read of it
  nfilled,   \* sub-blocks marked filled and not cleared
  recent,    \* history: the packets written since the block was opened, the latest of them
  runs       \* history: packets since the last one lost to the skip log or in a failed write

block == <<mem, info, wbuf, cur, rbuf, pos, nfilled>>
vars == <<writer, hand, framenum, reading, sent, raw, block, recent, runs>>

Buf == 0..(NBufs - 1)
Capacity == NBufs * PktsPerBuf

\* A packet is known by its place among all that come; the threads take turns.
Packet == 1..MaxPackets
FrameOf(k) == [thread |-> k % 2, num |-> (k \div 2) % (MAXFRAMENUM + 1)]

\* No packet, or memory that has never been written.
NoPacket == 0

\* The sub-block n places after sub-block i in the ring.
Around(i, n) == IF i + n < NBufs THEN i + n ELSE i + n - NBufs

Init ==
  /\ writer = "stopped" /\ hand = NoPacket
  /\ framenum = [t \in Thread |-> -1]
  /\ reading = FALSE
  /\ sent = 0 /\ raw = <<>>
  /\ mem = [i \in Buf |-> [j \in 1..PktsPerBuf |-> NoPacket]]
  /\ info = [i \in Buf |-> [pkts |-> 0, eod |-> FALSE]]
  /\ wbuf = 0 /\ cur = 0 /\ rbuf = 0 /\ pos = 0 /\ nfilled = 0
  /\ recent = <<>> /\ runs = 0

-----------------------------------------------------------------------------
(* A packet arrives at the raw socket. *)

Arrive ==
  /\ sent < MaxPackets
  /\ sent' = sent + 1
  /\ raw' = IF Len(raw) < RawSize THEN Append(raw, sent') ELSE raw
  /\ UNCHANGED <<writer, hand, framenum, reading, block, recent, runs>>

-----------------------------------------------------------------------------
(* The Writer. *)

\* ipcio_write and ipcio_close mark the sub-block filled and go on to the next one.
MarkFilledAs(eod) ==
  /\ info' = [info EXCEPT ![wbuf] = [pkts |-> cur, eod |-> eod]]
  /\ wbuf' = Around(wbuf, 1) /\ cur' = 0 /\ nfilled' = nfilled + 1
  /\ UNCHANGED <<mem, rbuf, pos>>

Close == IF cur = 0 THEN UNCHANGED block ELSE MarkFilledAs(TRUE)

Start ==
  /\ writer \in {"stopped", "dumped"}
  /\ writer' = "started"
  /\ recent' = <<>>
  /\ UNCHANGED <<hand, framenum, reading, sent, raw, block, runs>>

\* An error: the block is left open.
StopWithoutClose ==
  writer = "started" /\ writer' = "stopped"
    /\ UNCHANGED <<hand, framenum, reading, sent, raw, block, recent, runs>>

Stop ==
  /\ writer = "started"
  /\ writer' = "stopped"
  /\ Close
  /\ UNCHANGED <<hand, framenum, reading, sent, raw, recent, runs>>

Event ==
  /\ writer = "started"
  /\ writer' = "dumped"
  /\ Close
  /\ UNCHANGED <<hand, framenum, reading, sent, raw, recent, runs>>

\* The flush after the dump has found a command other than a start.
StayStopped ==
  /\ writer = "dumped"
  /\ writer' = "stopped"
  /\ UNCHANGED <<hand, framenum, reading, sent, raw, block, recent, runs>>

\* The Writer has quit and is run again: a new raw socket and a new skip log, the same block.
Restart ==
  /\ writer = "stopped"
  /\ framenum' = [t \in Thread |-> -1] /\ raw' = <<>>
  /\ UNCHANGED <<writer, hand, reading, sent, block, recent, runs>>

Receive ==
  /\ writer = "started" /\ raw # <<>>
  /\ writer' = "write"
  /\ hand' = Head(raw) /\ raw' = Tail(raw)
  /\ UNCHANGED <<framenum, reading, sent, block, recent, runs>>

MarkFilled ==
  /\ writer = "write" /\ cur = PktsPerBuf
  /\ MarkFilledAs(FALSE)
  /\ UNCHANGED <<writer, hand, framenum, reading, sent, raw, recent, runs>>

\* The last n elements of s.
Latest(s, n) == IF Len(s) <= n THEN s ELSE SubSeq(s, Len(s) - n + 1, Len(s))

\* After ipcio_write, whatever it returned: the frame-skip log.
Logged == LET f == FrameOf(hand) IN Jump(framenum[f.thread], f.num)
LogFrame == LET f == FrameOf(hand) IN framenum' = [framenum EXCEPT ![f.thread] = f.num]

\* An error: the packet goes into a sub-block that has not been cleared.
WriteOverUnread ==
  writer = "write" /\ cur < PktsPerBuf /\ writer' = "started" /\ hand' = NoPacket
    /\ mem' = [mem EXCEPT ![wbuf][cur + 1] = hand] /\ cur' = cur + 1 /\ LogFrame
    /\ recent' = Latest(Append(recent, hand), Capacity) /\ runs' = 0
    /\ UNCHANGED <<reading, sent, raw, info, wbuf, rbuf, pos, nfilled>>

Write ==
  /\ writer = "write" /\ cur < PktsPerBuf /\ (cur = 0 => nfilled < NBufs)
  /\ writer' = "started" /\ hand' = NoPacket
  /\ mem' = [mem EXCEPT ![wbuf][cur + 1] = hand]
  /\ cur' = cur + 1
  /\ LogFrame
  /\ recent' = Latest(Append(recent, hand), Capacity)
  /\ runs' = IF Logged THEN 1 ELSE IF runs < Capacity THEN runs + 1 ELSE runs
  /\ UNCHANGED <<reading, sent, raw, info, wbuf, rbuf, pos, nfilled>>

\* The status of ipcio_write is not looked at.
WriteFails ==
  /\ writer = "write"
  /\ writer' = "started" /\ hand' = NoPacket
  /\ LogFrame
  /\ runs' = 0
  /\ UNCHANGED <<reading, sent, raw, block, recent>>

-----------------------------------------------------------------------------
(* The Reader. *)

OpenToRead == ~reading /\ reading' = TRUE /\ UNCHANGED <<rbuf, pos, nfilled>>
CloseToRead == reading /\ reading' = FALSE /\ UNCHANGED <<rbuf, pos, nfilled>>

Clear == rbuf' = Around(rbuf, 1) /\ pos' = 0 /\ nfilled' = nfilled - 1

ReadPacket ==
  /\ reading /\ nfilled > 0 /\ pos < info[rbuf].pkts
  /\ IF pos + 1 = info[rbuf].pkts /\ ~info[rbuf].eod
     THEN Clear
     ELSE pos' = pos + 1 /\ UNCHANGED <<rbuf, nfilled>>
  /\ UNCHANGED reading

ReadEnd ==
  /\ reading /\ nfilled > 0 /\ pos = info[rbuf].pkts
  /\ Clear
  /\ reading' = FALSE

Read ==
  /\ OpenToRead \/ CloseToRead \/ ReadPacket \/ ReadEnd
  /\ UNCHANGED <<writer, hand, framenum, sent, raw, mem, info, wbuf, cur, recent, runs>>

Next ==
  \/ Arrive
  \/ Start \/ Stop \/ Event \/ StayStopped \/ Restart
  \/ Receive \/ MarkFilled \/ Write \/ WriteFails
  \/ Read

Spec == Init /\ [][Next]_vars

-----------------------------------------------------------------------------
\* An error: the copy begins with the sub-block that is to be written next.
DumpFromNext ==
  [k \in 1..Capacity |-> mem[Around(wbuf, (k - 1) \div PktsPerBuf)][1 + ((k - 1) % PktsPerBuf)]]

\* event_to_file: every sub-block, one after the other in the order of memory.
Dump == [k \in 1..Capacity |-> mem[(k - 1) \div PktsPerBuf][1 + ((k - 1) % PktsPerBuf)]]

\* The headers in it.
FrameDump == [i \in 1..Capacity |-> FrameOf(Dump[i])]

\* The sub-block that was closed last, and the packets of the dump before its end.
Closed == Around(wbuf, NBufs - 1)
StoppedAfter == Closed * PktsPerBuf + info[Closed].pkts

TypeOK ==
  /\ writer \in {"stopped", "started", "write", "dumped"}
  /\ hand \in Packet \union {NoPacket}
  /\ framenum \in [Thread -> -1..MAXFRAMENUM]
  /\ reading \in BOOLEAN
  /\ sent \in 0..MaxPackets
  /\ raw \in Seq(Packet) /\ Len(raw) <= RawSize
  /\ mem \in [Buf -> [1..PktsPerBuf -> Packet \union {NoPacket}]]
  /\ info \in [Buf -> [pkts : 0..PktsPerBuf, eod : BOOLEAN]]
  /\ {wbuf, rbuf} \subseteq Buf
  /\ {cur, pos} \subseteq 0..PktsPerBuf
  /\ nfilled \in 0..NBufs
  /\ recent \in Seq(Packet) /\ Len(recent) <= Capacity
  /\ runs \in 0..Capacity

(***************************************************************************)
(* A dump, turned to where writing stopped, ends in the newest packets of  *)
(* the recording that the event ended, in order and with none left out,    *)
(* wherever in the ring that recording began, whatever the recordings and  *)
(* dumps before it have left in the memory, and however much of it the     *)
(* Reader has read.                                                        *)
(***************************************************************************)
DumpEndsInRecording ==
  writer = "dumped" /\ recent # <<>> =>
    Latest(InTime(Dump, StoppedAfter), Len(recent)) = recent

(***************************************************************************)
(* What db_unwrap relies on: when a recording has filled the ring, and the *)
(* skip log shows nothing for the packets in it and no write has failed,   *)
(* the dump turned to where writing stopped has no discontinuity.  The     *)
(* packets lost with the raw socket's buffer full are in the log, also     *)
(* those over the end of a second and from one recording to the next.      *)
(***************************************************************************)
UnloggedDumpIsInTime ==
  writer = "dumped" /\ Len(recent) = Capacity /\ runs = Capacity =>
    Contiguous(InTime(FrameDump, StoppedAfter))

-----------------------------------------------------------------------------
\* What is left to read, sub-block by sub-block.
Unread ==
  [j \in 1..nfilled |->
    [pkts |-> info[Around(rbuf, j - 1)].pkts - (IF j = 1 THEN pos ELSE 0),
     eod  |-> info[Around(rbuf, j - 1)].eod]]

\* The block as its users see it.
AsRing == [writing |-> writer \in {"started", "write"}, reading |-> reading,
           filled |-> Unread, cur |-> cur]

Block == INSTANCE BlockUse WITH Pairs <- {1}, IpcErrors <- {}, ring <- <<AsRing>>

(***************************************************************************)
(* Indices into the ring and counters do what DataBlock says with          *)
(* sequences, and the recordings, dumps and reads use the block as it      *)
(* demands: no open, close, write or read comes in the wrong state.        *)
(***************************************************************************)
UsesBlock == Block!Spec
=============================================================================
