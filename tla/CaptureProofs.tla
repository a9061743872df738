--------------------------- MODULE CaptureProofs ---------------------------
(***************************************************************************)
(* Proofs that the safety properties of Capture hold for every number of   *)
(* pairs, every ring and every client.                                     *)
(***************************************************************************)
EXTENDS Capture, CommandsProofs, SequenceTheorems

-----------------------------------------------------------------------------
(* Type correctness, a lemma for each of the parts a step can change. *)

RingType == ring \in [Pairs -> Ring]

\* Every operation on a data block leaves it a data block.
LEMMA RingOperationsType ==
  ASSUME RingType, NEW p \in Pairs
  PROVE  /\ OpenForWriting(p)  => RingType'
         /\ CloseForWriting(p) => RingType'
         /\ MarkFilled(p)      => RingType'
         /\ WritePacket(p)     => RingType'
         /\ OpenForReading(p)  => RingType'
         /\ CloseForReading(p) => RingType'
         /\ ReadPacket(p)      => RingType'
         /\ ReadEnd(p)         => RingType'
<1> USE DEF RingType
<1> DEFINE r == ring[p]
<1>1. /\ r \in Ring /\ r.filled \in Seq(SubBlock) /\ r.cur \in 0..PktsPerBuf
      /\ r.writing \in BOOLEAN /\ r.reading \in BOOLEAN
  BY DEF Ring
<1>2. PktsPerBuf \in Nat /\ 0 \in 0..PktsPerBuf /\ PktsPerBuf \in 0..PktsPerBuf
  BY RingAssumption
<1>3. ASSUME NEW x \in Ring, ring' = [ring EXCEPT ![p] = x]
      PROVE  RingType'
  BY <1>3
<1>4. OpenForWriting(p) => RingType'
  BY <1>1 DEF OpenForWriting, Ring
<1>5. CloseForWriting(p) => RingType'
  <2> SUFFICES ASSUME CloseForWriting(p) PROVE RingType'
    OBVIOUS
  <2> DEFINE f == IF r.cur = 0 THEN r.filled
                  ELSE Append(r.filled, [pkts |-> r.cur, eod |-> TRUE])
             x == [r EXCEPT !.writing = FALSE, !.cur = 0, !.filled = f]
  <2>1. [pkts |-> r.cur, eod |-> TRUE] \in SubBlock
    BY <1>1 DEF SubBlock
  <2>2. f \in Seq(SubBlock)
    BY <1>1, <2>1
  <2>3. ring' = [ring EXCEPT ![p] = x]
    BY DEF CloseForWriting
  <2> HIDE DEF f
  <2>4. x \in Ring
    BY <1>1, <1>2, <2>2 DEF Ring
  <2> QED
    BY <1>3, <2>3, <2>4
<1>6. MarkFilled(p) => RingType'
  <2> SUFFICES ASSUME MarkFilled(p) PROVE RingType'
    OBVIOUS
  <2> DEFINE f == Append(r.filled, [pkts |-> PktsPerBuf, eod |-> FALSE])
             x == [r EXCEPT !.cur = 0, !.filled = f]
  <2>1. [pkts |-> PktsPerBuf, eod |-> FALSE] \in SubBlock
    BY <1>2 DEF SubBlock
  <2>2. f \in Seq(SubBlock)
    BY <1>1, <2>1
  <2>3. ring' = [ring EXCEPT ![p] = x]
    BY DEF MarkFilled
  <2> HIDE DEF f
  <2>4. x \in Ring
    BY <1>1, <1>2, <2>2 DEF Ring
  <2> QED
    BY <1>3, <2>3, <2>4
<1>7. WritePacket(p) => RingType'
  <2> SUFFICES ASSUME WritePacket(p) PROVE RingType'
    OBVIOUS
  <2>1. r.cur + 1 \in 0..PktsPerBuf
    BY <1>1, <1>2 DEF WritePacket, SubBlockFull
  <2>2. [r EXCEPT !.cur = r.cur + 1] \in Ring
    BY <1>1, <2>1 DEF Ring
  <2> QED
    BY <1>3, <2>2 DEF WritePacket
<1>8. OpenForReading(p) => RingType'
  BY <1>1 DEF OpenForReading, Ring
<1>9. CloseForReading(p) => RingType'
  BY <1>1 DEF CloseForReading, Ring
<1>10. ReadPacket(p) => RingType'
  <2> SUFFICES ASSUME ReadPacket(p) PROVE RingType'
    OBVIOUS
  <2> DEFINE h == Head(r.filled)
             g == [r.filled EXCEPT ![1] = [h EXCEPT !.pkts = h.pkts - 1]]
             f == IF h.pkts = 1 /\ ~h.eod THEN Tail(r.filled) ELSE g
             x == [r EXCEPT !.filled = f]
  <2>1. r.filled # <<>> /\ h \in SubBlock /\ h.pkts > 0 /\ h = r.filled[1]
    BY <1>1 DEF ReadPacket, NothingToRead
  <2>2. [h EXCEPT !.pkts = h.pkts - 1] \in SubBlock
    BY <2>1, <1>2 DEF SubBlock
  <2>3. g \in Seq(SubBlock) /\ Tail(r.filled) \in Seq(SubBlock)
    BY <1>1, <2>1, <2>2
  <2>4. f \in Seq(SubBlock)
    BY <2>3
  <2>5. ring' = [ring EXCEPT ![p] = x]
    BY <2>1 DEF ReadPacket
  <2>6. x \in Ring
    BY <1>1, <2>4 DEF Ring
  <2> QED
    BY <1>3, <2>5, <2>6
<1>11. ReadEnd(p) => RingType'
  <2> SUFFICES ASSUME ReadEnd(p) PROVE RingType'
    OBVIOUS
  <2> DEFINE x == [r EXCEPT !.filled = Tail(r.filled), !.reading = FALSE]
  <2>1. Tail(r.filled) \in Seq(SubBlock)
    BY <1>1 DEF ReadEnd, AtEnd, NothingToRead
  <2>2. ring' = [ring EXCEPT ![p] = x]
    BY DEF ReadEnd
  <2>3. x \in Ring
    BY <1>1, <2>1 DEF Ring
  <2> QED
    BY <1>3, <2>2, <2>3
<1> QED
  BY <1>4, <1>5, <1>6, <1>7, <1>8, <1>9, <1>10, <1>11
WriterType == writer \in [Pairs -> WriterProcess] /\ wsock \in [Pairs -> Connection]
ReaderType == reader \in [Pairs -> ReaderProcess] /\ rsock \in [Pairs -> Connection]
HistoryType == wasked \in [Pairs -> Byte] /\ rasked \in [Pairs -> Byte]

\* What a process can be made of its commands.
LEMMA CommandTypes ==
  /\ {CMD_START, CMD_STOP, CMD_QUIT, CMD_EVENT, CMD_NONE} = Command \union {CMD_NONE}
  /\ Command \subseteq Byte
BY DEF Command, Byte

\* Reading a connection off leaves it a connection.
LEMMA DrainedType ==
  ASSUME NEW c \in Connection
  PROVE  /\ Drained(c) \in Connection
         /\ c.bytes \in Seq(Byte) /\ c.closed \in BOOLEAN
         /\ Drained(c).bytes = <<>> /\ Drained(c).closed = c.closed
         /\ WaitForCmd(c.bytes) \in Command \union {CMD_NONE}
<1>1. <<>> \in Seq(Byte) /\ c.bytes \in Seq(Byte) /\ c.closed \in BOOLEAN
  BY DEF Connection
<1> QED
  BY <1>1, WaitForCmdType DEF Drained, Connection

\* A step of a Writer keeps the types of what it changes.
LEMMA WriterStepType ==
  ASSUME RingType, WriterType, NEW p \in Pairs, WriterNext(p)
  PROVE  RingType' /\ WriterType'
<1> USE DEF WriterType
<1>1. ASSUME NEW s \in {STATE_STOPPED, STATE_STARTED}, NEW c \in Command \union {CMD_NONE},
             NEW l \in {"top", "act", "flush", "write", "exited"}, WriterBecomes(p, s, c, l)
      PROVE  writer' \in [Pairs -> WriterProcess]
  <2> DEFINE x == [writer[p] EXCEPT !.state = s, !.cmd = c, !.pc = l]
  <2>1. x \in WriterProcess
    BY DEF WriterProcess
  <2>2. writer' = [writer EXCEPT ![p] = x]
    BY <1>1 DEF WriterBecomes
  <2> QED
    BY <2>1, <2>2
<1>2. WriterReads(p) => wsock' \in [Pairs -> Connection]
  BY DrainedType DEF WriterReads
<1>3. UNCHANGED wsock => wsock' \in [Pairs -> Connection]
  OBVIOUS
<1>4. UNCHANGED ring => RingType'
  BY DEF RingType
<1>5. /\ WriterCmd(p) \in Command \union {CMD_NONE}
      /\ writer[p].cmd \in Command \union {CMD_NONE}
      /\ writer[p].state \in {STATE_STOPPED, STATE_STARTED}
  BY DrainedType DEF WriterCmd, WriterProcess
<1>6. CASE WriterWait(p)
  BY <1>1, <1>2, <1>4, <1>5, <1>6, CommandTypes DEF WriterWait
<1>7. CASE WriterStart(p)
  BY <1>1, <1>3, <1>7, CommandTypes, RingOperationsType DEF WriterStart
<1>8. CASE WriterIgnore(p)
  BY <1>1, <1>3, <1>4, <1>8, CommandTypes DEF WriterIgnore
<1>9. CASE WriterQuitStopped(p)
  BY <1>1, <1>3, <1>4, <1>9, CommandTypes DEF WriterQuitStopped
<1>10. CASE WriterSelect(p)
  BY <1>1, <1>2, <1>3, <1>4, <1>5, <1>10 DEF WriterSelect
<1>11. CASE WriterEvent(p)
  BY <1>1, <1>3, <1>11, CommandTypes, RingOperationsType DEF WriterEvent
<1>12. CASE WriterFlush(p)
  BY <1>1, <1>2, <1>3, <1>4, <1>5, <1>12, CommandTypes DEF WriterFlush
<1>13. CASE WriterStop(p)
  BY <1>1, <1>3, <1>13, CommandTypes, RingOperationsType DEF WriterStop
<1>14. CASE WriterQuit(p)
  BY <1>1, <1>3, <1>14, CommandTypes, RingOperationsType DEF WriterQuit
<1>15. CASE WriterReceive(p)
  BY <1>1, <1>3, <1>4, <1>15, CommandTypes DEF WriterReceive
<1>16. CASE WriterMarkFilled(p)
  BY <1>3, <1>16, RingOperationsType DEF WriterMarkFilled
<1>17. ASSUME NEW st \in {"ok", "error"}, WriterGoesOn(p, st)
       PROVE  writer' \in [Pairs -> WriterProcess] /\ UNCHANGED wsock
  BY <1>17 DEF WriterGoesOn, WriterProcess
<1>18. CASE WriterWrite(p)
  BY <1>3, <1>17, <1>18, RingOperationsType DEF WriterWrite
<1>19. CASE WriterWriteFails(p)
  BY <1>3, <1>4, <1>17, <1>19 DEF WriterWriteFails
<1>20. CASE WriterFails(p)
  BY <1>1, <1>3, <1>4, <1>5, <1>20 DEF WriterFails
<1> QED
  BY <1>6, <1>7, <1>8, <1>9, <1>10, <1>11, <1>12, <1>13, <1>14, <1>15, <1>16, <1>18, <1>19, <1>20
     DEF WriterNext

\* A step of a Reader keeps the types of what it changes.
LEMMA ReaderStepType ==
  ASSUME RingType, ReaderType, NEW p \in Pairs, ReaderNext(p)
  PROVE  RingType' /\ ReaderType'
<1> USE DEF ReaderType
<1>1. ASSUME NEW s \in {STATE_STOPPED, STATE_STARTED}, NEW c \in Command \union {CMD_NONE},
             NEW l \in {"top", "act", "read", "exited"}, ReaderBecomes(p, s, c, l)
      PROVE  reader' \in [Pairs -> ReaderProcess]
  BY <1>1 DEF ReaderBecomes, ReaderProcess
<1>2. ReaderReads(p) => rsock' \in [Pairs -> Connection]
  BY DrainedType DEF ReaderReads
<1>3. UNCHANGED rsock => rsock' \in [Pairs -> Connection]
  OBVIOUS
<1>4. UNCHANGED ring => RingType'
  BY DEF RingType
<1>5. /\ ReaderCmd(p) \in Command \union {CMD_NONE}
      /\ reader[p].cmd \in Command \union {CMD_NONE}
      /\ reader[p].state \in {STATE_STOPPED, STATE_STARTED}
  BY DrainedType DEF ReaderCmd, ReaderProcess
<1>6. CASE ReaderWait(p)
  BY <1>1, <1>2, <1>4, <1>5, <1>6 DEF ReaderWait
<1>7. CASE ReaderStart(p)
  BY <1>1, <1>3, <1>7, CommandTypes, RingOperationsType DEF ReaderStart
<1>8. CASE ReaderIgnore(p)
  BY <1>1, <1>3, <1>4, <1>8, CommandTypes DEF ReaderIgnore
<1>9. CASE ReaderQuitStopped(p)
  BY <1>1, <1>3, <1>4, <1>9, CommandTypes DEF ReaderQuitStopped
<1>10. CASE ReaderSelect(p)
  BY <1>1, <1>2, <1>3, <1>4, <1>5, <1>10 DEF ReaderSelect
<1>11. CASE ReaderStop(p)
  BY <1>1, <1>3, <1>11, CommandTypes, RingOperationsType DEF ReaderStop
<1>12. CASE ReaderQuit(p)
  BY <1>1, <1>3, <1>12, CommandTypes, RingOperationsType DEF ReaderQuit
<1>13. CASE ReaderProceed(p)
  BY <1>1, <1>3, <1>4, <1>13, CommandTypes DEF ReaderProceed
<1>14. CASE ReaderReadPacket(p)
  BY <1>1, <1>3, <1>14, CommandTypes, RingOperationsType DEF ReaderReadPacket
<1>15. CASE ReaderEnd(p)
  BY <1>1, <1>3, <1>15, CommandTypes, RingOperationsType DEF ReaderEnd
<1>16. CASE ReaderReadFails(p)
  BY <1>1, <1>3, <1>16, CommandTypes, RingOperationsType DEF ReaderReadFails
<1>17. CASE ReaderFails(p)
  BY <1>1, <1>3, <1>4, <1>5, <1>17 DEF ReaderFails
<1> QED
  BY <1>6, <1>7, <1>8, <1>9, <1>10, <1>11, <1>12, <1>13, <1>14, <1>15, <1>16, <1>17 DEF ReaderNext

\* A step of the client keeps the types of what it changes.
LEMMA ClientStepType ==
  ASSUME WriterType, ReaderType, HistoryType, NEW p \in Pairs, Client(p)
  PROVE  /\ WriterType' /\ ReaderType' /\ HistoryType'
         /\ UNCHANGED <<ring, writer, reader>>
<1>1. ASSUME NEW c \in Connection, NEW b \in Byte
      PROVE  Received(c, b) \in Connection /\ HungUp(c) \in Connection
  <2>1. c.bytes \in Seq(Byte) /\ Append(c.bytes, b) \in Seq(Byte)
    BY DEF Connection
  <2> QED
    BY <2>1 DEF Received, HungUp, Connection
<1>2. ASSUME NEW b \in Byte, NEW before \in Byte
      PROVE  LastRequest(<<b>>, before) \in Byte
  <2>1. <<b>> \in Seq(Byte) /\ Len(<<b>>) = 1 /\ <<b>>[1] = b
    OBVIOUS
  <2>2. LastNonEvent(<<b>>) \in 0..1
    BY <2>1, LastNonEventRange
  <2> QED
    BY <2>1, <2>2 DEF LastRequest
<1>3. CASE \E b \in WriterBytes : TellWriter(p, b)
  <2>1. PICK b \in Byte : TellWriter(p, b)
    BY <1>3, ClientAssumption
  <2> QED
    BY <1>1, <1>2, <2>1 DEF TellWriter, WriterType, ReaderType, HistoryType
<1>4. CASE \E b \in ReaderBytes : TellReader(p, b)
  <2>1. PICK b \in Byte : TellReader(p, b)
    BY <1>4, ClientAssumption
  <2> QED
    BY <1>1, <1>2, <2>1 DEF TellReader, WriterType, ReaderType, HistoryType
<1>5. CASE DropWriter(p)
  <2>1. wsock' \in [Pairs -> Connection]
    BY <1>5, CommandTypes DEF DropWriter, HungUp, WriterType, Connection
  <2> QED
    BY <1>5, <2>1 DEF DropWriter, WriterType, ReaderType, HistoryType
<1>6. CASE DropReader(p)
  <2>1. rsock' \in [Pairs -> Connection]
    BY <1>6 DEF DropReader, HungUp, ReaderType, Connection
  <2> QED
    BY <1>6, <2>1 DEF DropReader, WriterType, ReaderType, HistoryType
<1> QED
  BY <1>3, <1>4, <1>5, <1>6 DEF Client

\* In every reachable state of a capture system, whatever its client sends, the data
\* blocks, the processes and their connections are well formed.
THEOREM TypeCorrect == Spec => []TypeOK
<1> USE DEF RingType, WriterType, ReaderType, HistoryType
<1>1. Init => TypeOK
  <2>1. NewRing \in Ring
    BY RingAssumption DEF NewRing, Ring
  <2>2. NewConnection \in Connection
    BY DEF NewConnection, Connection
  <2>3. CMD_STOP \in Byte
    BY DEF Byte, Command
  <2>4. /\ [state |-> STATE_STOPPED, cmd |-> CMD_NONE, pc |-> "top", status |-> "ok"]
             \in WriterProcess
        /\ [state |-> STATE_STOPPED, cmd |-> CMD_NONE, pc |-> "top"] \in ReaderProcess
    BY DEF WriterProcess, ReaderProcess
  <2> QED
    BY <2>1, <2>2, <2>3, <2>4 DEF Init, RingInit, WriterInit, ReaderInit, TypeOK
<1>2. TypeOK /\ [Next]_vars => TypeOK'
  <2> SUFFICES ASSUME TypeOK, [Next]_vars PROVE TypeOK'
    OBVIOUS
  <2> USE DEF TypeOK
  <2>1. CASE UNCHANGED vars
    BY <2>1 DEF vars
  <2>2. ASSUME NEW p \in Pairs, Client(p) PROVE TypeOK'
    BY <2>2, ClientStepType
  <2>3. ASSUME NEW p \in Pairs, WriterStep(p) PROVE TypeOK'
    BY <2>3, WriterStepType DEF WriterStep
  <2>4. ASSUME NEW p \in Pairs, ReaderStep(p) PROVE TypeOK'
    BY <2>4, ReaderStepType DEF ReaderStep
  <2> QED
    BY <2>1, <2>2, <2>3, <2>4 DEF Next
<1> QED
  BY <1>1, <1>2, PTL DEF Spec
-----------------------------------------------------------------------------
(* What a step leaves alone: other pairs, and the other side of the block. *)

\* A Writer's step leaves the other Writers, their blocks and connections, and the reading
\* side of its own block as they were.
LEMMA WriterFrame ==
  ASSUME TypeOK, NEW p \in Pairs, WriterNext(p), NEW q \in Pairs
  PROVE  /\ ring'[q].reading = ring[q].reading
         /\ wsock'[q].closed = wsock[q].closed
         /\ q # p => writer'[q] = writer[q] /\ wsock'[q] = wsock[q] /\ ring'[q] = ring[q]
<1> USE DEF TypeOK, WriterBecomes, WriterGoesOn, WriterReads, Drained
<1>1. /\ UNCHANGED wsock \/ WriterReads(p)
      /\ \/ UNCHANGED writer
         \/ \E s, c, l : WriterBecomes(p, s, c, l)
         \/ \E st : WriterGoesOn(p, st)
      /\ \/ UNCHANGED ring \/ OpenForWriting(p) \/ CloseForWriting(p)
         \/ MarkFilled(p) \/ WritePacket(p)
  <2> HIDE DEF TypeOK, WriterBecomes, WriterReads
  <2>1. CASE WriterWait(p)         BY <2>1 DEF WriterWait
  <2>2. CASE WriterStart(p)        BY <2>2 DEF WriterStart
  <2>3. CASE WriterIgnore(p)       BY <2>3 DEF WriterIgnore
  <2>4. CASE WriterQuitStopped(p)  BY <2>4 DEF WriterQuitStopped
  <2>5. CASE WriterSelect(p)       BY <2>5 DEF WriterSelect
  <2>6. CASE WriterEvent(p)        BY <2>6 DEF WriterEvent
  <2>7. CASE WriterFlush(p)        BY <2>7 DEF WriterFlush
  <2>8. CASE WriterStop(p)         BY <2>8 DEF WriterStop
  <2>9. CASE WriterQuit(p)         BY <2>9 DEF WriterQuit
  <2>10. CASE WriterReceive(p)     BY <2>10 DEF WriterReceive
  <2>11. CASE WriterMarkFilled(p)  BY <2>11 DEF WriterMarkFilled
  <2>12. CASE WriterWrite(p)       BY <2>12 DEF WriterWrite
  <2>13. CASE WriterWriteFails(p)  BY <2>13 DEF WriterWriteFails
  <2>14. CASE WriterFails(p)       BY <2>14 DEF WriterFails
  <2> QED
    BY <2>1, <2>2, <2>3, <2>4, <2>5, <2>6, <2>7, <2>8, <2>9, <2>10, <2>11, <2>12, <2>13, <2>14
       DEF WriterNext
<1>2. wsock'[q].closed = wsock[q].closed /\ (q # p => wsock'[q] = wsock[q])
  <2>1. UNCHANGED wsock \/ WriterReads(p)
    BY <1>1
  <2> QED
    BY <2>1 DEF Connection
<1>3. q # p => writer'[q] = writer[q]
  BY <1>1
<1>4. ring'[q].reading = ring[q].reading /\ (q # p => ring'[q] = ring[q])
  <2>1. \/ UNCHANGED ring \/ OpenForWriting(p) \/ CloseForWriting(p)
        \/ MarkFilled(p) \/ WritePacket(p)
    BY <1>1
  <2> QED
    BY <2>1 DEF OpenForWriting, CloseForWriting, MarkFilled, WritePacket, Ring
<1> QED
  BY <1>2, <1>3, <1>4

\* A Reader's step leaves the other Readers, their blocks and connections, and the writing
\* side of its own block as they were.
LEMMA ReaderFrame ==
  ASSUME TypeOK, NEW p \in Pairs, ReaderNext(p), NEW q \in Pairs
  PROVE  /\ ring'[q].writing = ring[q].writing /\ ring'[q].cur = ring[q].cur
         /\ rsock'[q].closed = rsock[q].closed
         /\ q # p => reader'[q] = reader[q] /\ rsock'[q] = rsock[q] /\ ring'[q] = ring[q]
<1> USE DEF TypeOK, ReaderBecomes, ReaderReads, Drained
<1>1. /\ UNCHANGED rsock \/ ReaderReads(p)
      /\ \E s, c, l : ReaderBecomes(p, s, c, l)
      /\ \/ UNCHANGED ring \/ OpenForReading(p) \/ CloseForReading(p)
         \/ ReadPacket(p) \/ ReadEnd(p)
  <2> HIDE DEF TypeOK, ReaderBecomes, ReaderReads
  <2>1. CASE ReaderWait(p)         BY <2>1 DEF ReaderWait
  <2>2. CASE ReaderStart(p)        BY <2>2 DEF ReaderStart
  <2>3. CASE ReaderIgnore(p)       BY <2>3 DEF ReaderIgnore
  <2>4. CASE ReaderQuitStopped(p)  BY <2>4 DEF ReaderQuitStopped
  <2>5. CASE ReaderSelect(p)       BY <2>5 DEF ReaderSelect
  <2>6. CASE ReaderStop(p)         BY <2>6 DEF ReaderStop
  <2>7. CASE ReaderQuit(p)         BY <2>7 DEF ReaderQuit
  <2>8. CASE ReaderProceed(p)      BY <2>8 DEF ReaderProceed
  <2>9. CASE ReaderReadPacket(p)   BY <2>9 DEF ReaderReadPacket
  <2>10. CASE ReaderEnd(p)         BY <2>10 DEF ReaderEnd
  <2>11. CASE ReaderReadFails(p)   BY <2>11 DEF ReaderReadFails
  <2>12. CASE ReaderFails(p)       BY <2>12 DEF ReaderFails
  <2> QED
    BY <2>1, <2>2, <2>3, <2>4, <2>5, <2>6, <2>7, <2>8, <2>9, <2>10, <2>11, <2>12 DEF ReaderNext
<1>2. rsock'[q].closed = rsock[q].closed /\ (q # p => rsock'[q] = rsock[q])
  BY <1>1 DEF Connection
<1>3. q # p => reader'[q] = reader[q]
  BY <1>1
<1>4. /\ ring'[q].writing = ring[q].writing /\ ring'[q].cur = ring[q].cur
      /\ q # p => ring'[q] = ring[q]
  BY <1>1 DEF OpenForReading, CloseForReading, ReadPacket, ReadEnd, Ring
<1> QED
  BY <1>2, <1>3, <1>4
-----------------------------------------------------------------------------
(* The data block is used in the order its library demands, and no command *)
(* outlives the pass that read it.                                         *)

WriterInOrder(p) ==
  /\ ~WriterExited(p) =>
       (ring[p].writing <=> writer[p].state = STATE_STARTED /\ writer[p].pc # "flush")
  /\ Recording(p) /\ writer[p].pc \in {"top", "write"} => writer[p].cmd = CMD_NONE

ReaderInOrder(p) ==
  /\ ~ReaderExited(p) => (ring[p].reading <=> reader[p].state = STATE_STARTED)
  /\ reader[p].state = STATE_STARTED /\ reader[p].pc \in {"top", "read"}
       => reader[p].cmd = CMD_NONE

\* BlockDiscipline and NoStaleCommand hold if they hold of every process by itself.
LEMMA OrderIs ==
  BlockDiscipline /\ NoStaleCommand <=> \A p \in Pairs : WriterInOrder(p) /\ ReaderInOrder(p)
BY DEF BlockDiscipline, NoStaleCommand, WriterInOrder, ReaderInOrder

\* A Writer's own step keeps it in order: open or closed as its state says, no old command.
LEMMA WriterKeepsOrder ==
  ASSUME TypeOK, NEW p \in Pairs, WriterInOrder(p), WriterNext(p)
  PROVE  WriterInOrder(p)'
<1> USE DEF WriterInOrder, WriterExited, Recording, WriterAt, WriterBecomes, WriterGoesOn,
            TypeOK, WriterProcess, Ring, STATE_STARTED, STATE_STOPPED
<1>1. CASE WriterWait(p)         BY <1>1 DEF WriterWait
<1>2. CASE WriterStart(p)        BY <1>2 DEF WriterStart, OpenForWriting
<1>3. CASE WriterIgnore(p)       BY <1>3 DEF WriterIgnore
<1>4. CASE WriterQuitStopped(p)  BY <1>4 DEF WriterQuitStopped
<1>5. CASE WriterSelect(p)       BY <1>5 DEF WriterSelect
<1>6. CASE WriterEvent(p)        BY <1>6 DEF WriterEvent, CloseForWriting
<1>7. CASE WriterFlush(p)        BY <1>7 DEF WriterFlush
<1>8. CASE WriterStop(p)         BY <1>8 DEF WriterStop, CloseForWriting
<1>9. CASE WriterQuit(p)         BY <1>9 DEF WriterQuit, CloseForWriting
<1>10. CASE WriterReceive(p)     BY <1>10 DEF WriterReceive
<1>11. CASE WriterMarkFilled(p)  BY <1>11 DEF WriterMarkFilled, MarkFilled
<1>12. CASE WriterWrite(p)       BY <1>12 DEF WriterWrite, WritePacket
<1>13. CASE WriterWriteFails(p)  BY <1>13 DEF WriterWriteFails
<1>14. CASE WriterFails(p)       BY <1>14 DEF WriterFails
<1> QED
  BY <1>1, <1>2, <1>3, <1>4, <1>5, <1>6, <1>7, <1>8, <1>9, <1>10, <1>11, <1>12, <1>13, <1>14
     DEF WriterNext

\* A Reader's own step keeps it in order.
LEMMA ReaderKeepsOrder ==
  ASSUME TypeOK, NEW p \in Pairs, ReaderInOrder(p), ReaderNext(p)
  PROVE  ReaderInOrder(p)'
<1> USE DEF ReaderInOrder, ReaderExited, ReaderAt, ReaderBecomes,
            TypeOK, ReaderProcess, Ring, STATE_STARTED, STATE_STOPPED
<1>1. CASE ReaderWait(p)         BY <1>1 DEF ReaderWait
<1>2. CASE ReaderStart(p)        BY <1>2 DEF ReaderStart, OpenForReading
<1>3. CASE ReaderIgnore(p)       BY <1>3 DEF ReaderIgnore
<1>4. CASE ReaderQuitStopped(p)  BY <1>4 DEF ReaderQuitStopped
<1>5. CASE ReaderSelect(p)       BY <1>5 DEF ReaderSelect
<1>6. CASE ReaderStop(p)         BY <1>6 DEF ReaderStop, CloseForReading
<1>7. CASE ReaderQuit(p)         BY <1>7 DEF ReaderQuit, CloseForReading
<1>8. CASE ReaderProceed(p)      BY <1>8 DEF ReaderProceed
<1>9. CASE ReaderReadPacket(p)   BY <1>9 DEF ReaderReadPacket, ReadPacket
<1>10. CASE ReaderEnd(p)         BY <1>10 DEF ReaderEnd, ReadEnd
<1>11. CASE ReaderReadFails(p)   BY <1>11 DEF ReaderReadFails, CloseForReading
<1>12. CASE ReaderFails(p)       BY <1>12 DEF ReaderFails
<1> QED
  BY <1>1, <1>2, <1>3, <1>4, <1>5, <1>6, <1>7, <1>8, <1>9, <1>10, <1>11, <1>12 DEF ReaderNext

\* What holds of the Writer of one pair is disturbed by nobody else.
LEMMA OthersKeepOrder ==
  ASSUME TypeOK, NEW p \in Pairs, NEW q \in Pairs
  PROVE  /\ WriterInOrder(q) /\ (ReaderStep(p) \/ (WriterStep(p) /\ q # p)) => WriterInOrder(q)'
         /\ ReaderInOrder(q) /\ (WriterStep(p) \/ (ReaderStep(p) /\ q # p)) => ReaderInOrder(q)'
         /\ WriterInOrder(q) /\ UNCHANGED <<ring, writer>> => WriterInOrder(q)'
         /\ ReaderInOrder(q) /\ UNCHANGED <<ring, reader>> => ReaderInOrder(q)'
<1>1. WriterInOrder(q) /\ ReaderStep(p) => WriterInOrder(q)'
  BY ReaderFrame DEF ReaderStep, WriterInOrder, WriterExited, Recording
<1>2. WriterInOrder(q) /\ WriterStep(p) /\ q # p => WriterInOrder(q)'
  BY WriterFrame DEF WriterStep, WriterInOrder, WriterExited, Recording
<1>3. ReaderInOrder(q) /\ WriterStep(p) => ReaderInOrder(q)'
  BY WriterFrame DEF WriterStep, ReaderInOrder, ReaderExited
<1>4. ReaderInOrder(q) /\ ReaderStep(p) /\ q # p => ReaderInOrder(q)'
  BY ReaderFrame DEF ReaderStep, ReaderInOrder, ReaderExited
<1>5. WriterInOrder(q) /\ UNCHANGED <<ring, writer>> => WriterInOrder(q)'
  BY DEF WriterInOrder, WriterExited, Recording
<1>6. ReaderInOrder(q) /\ UNCHANGED <<ring, reader>> => ReaderInOrder(q)'
  BY DEF ReaderInOrder, ReaderExited
<1> QED
  BY <1>1, <1>2, <1>3, <1>4, <1>5, <1>6

\* The processes open, close, read and write the data block only in the state in which
\* that is allowed, and no pass obeys a command an earlier pass has read.
THEOREM InOrder == Spec => [](BlockDiscipline /\ NoStaleCommand)
<1> DEFINE Inv == \A p \in Pairs : WriterInOrder(p) /\ ReaderInOrder(p)
<1>1. Init => Inv
  BY DEF Init, RingInit, NewRing, WriterInit, ReaderInit, WriterInOrder, ReaderInOrder,
         WriterExited, Recording, ReaderExited, STATE_STARTED, STATE_STOPPED
<1>2. TypeOK /\ Inv /\ [Next]_vars => Inv'
  <2> SUFFICES ASSUME TypeOK, Inv, [Next]_vars, NEW q \in Pairs
               PROVE  (WriterInOrder(q) /\ ReaderInOrder(q))'
    OBVIOUS
  <2> HIDE DEF Inv
  <2>0. WriterInOrder(q) /\ ReaderInOrder(q)
    BY DEF Inv
  <2>1. CASE UNCHANGED vars
    BY <2>0, <2>1, OthersKeepOrder DEF vars
  <2>2. ASSUME NEW p \in Pairs, Client(p) PROVE (WriterInOrder(q) /\ ReaderInOrder(q))'
    <3>1. UNCHANGED <<ring, writer, reader>>
      BY <2>2, ClientStepType DEF TypeOK, WriterType, ReaderType, HistoryType
    <3> QED
      BY <2>0, <3>1, OthersKeepOrder
  <2>3. ASSUME NEW p \in Pairs, WriterStep(p) PROVE (WriterInOrder(q) /\ ReaderInOrder(q))'
    <3>1. q = p => WriterInOrder(q)'
      BY <2>0, <2>3, WriterKeepsOrder DEF WriterStep
    <3> QED
      BY <2>0, <2>3, <3>1, OthersKeepOrder
  <2>4. ASSUME NEW p \in Pairs, ReaderStep(p) PROVE (WriterInOrder(q) /\ ReaderInOrder(q))'
    <3>1. q = p => ReaderInOrder(q)'
      BY <2>0, <2>4, ReaderKeepsOrder DEF ReaderStep
    <3> QED
      BY <2>0, <2>4, <3>1, OthersKeepOrder
  <2> QED
    BY <2>1, <2>2, <2>3, <2>4 DEF Next
<1>3. Inv => BlockDiscipline /\ NoStaleCommand
  BY OrderIs
<1> QED
  BY <1>1, <1>2, <1>3, TypeCorrect, PTL DEF Spec

\* No pass of a started state begins with the command of an earlier one, whatever the client
\* sends and whenever (the cmd variables of writer.c and reader.c outlive a pass).
THEOREM NoneIsStale == Spec => []NoStaleCommand
BY InOrder, PTL
-----------------------------------------------------------------------------
(* The last request decides. *)

WriterFollows(p) ==
  /\ wasked[p] = LastRequest(wsock[p].bytes, wasked[p])
  /\ WillRecord(p) /\ LastNonEvent(wsock[p].bytes) = 0 => wasked[p] = CMD_START

ReaderFollows(p) ==
  /\ rasked[p] = LastRequest(rsock[p].bytes, rasked[p])
  /\ ~ReaderExited(p) /\ reader[p].cmd # CMD_QUIT /\ LastNonEvent(rsock[p].bytes) = 0
       => (WillRead(p) <=> rasked[p] = CMD_START)

\* The client sends nothing but commands.
OnlyCommands == WriterBytes \subseteq Command /\ ReaderBytes \subseteq Command

\* What a process has been asked is the last request waiting, or was asked before.
LEMMA LastRequestIs ==
  ASSUME NEW s \in Seq(Byte), NEW before
  PROVE  /\ LastNonEvent(s) = 0 => LastRequest(s, before) = before
         /\ LastNonEvent(s) # 0 => /\ LastRequest(s, before) = s[LastNonEvent(s)]
                                   /\ s[LastNonEvent(s)] # CMD_EVENT
BY LastNonEventRange DEF LastRequest

\* A process that takes everything off its connection takes the last request, if there
\* is one, and otherwise no command that could start or stop it.
LEMMA TakesLastRequest ==
  ASSUME NEW s \in Seq(Byte), NEW asked \in Command, asked = LastRequest(s, asked)
  PROVE  /\ LastNonEvent(s) # 0 => WaitForCmd(s) = asked /\ asked # CMD_EVENT
         /\ LastNonEvent(s) = 0 => WaitForCmd(s) \in {CMD_EVENT, CMD_NONE, CMD_QUIT}
<1>1. LastNonEvent(s) # 0 => WaitForCmd(s) = Decode(asked) /\ asked # CMD_EVENT
  BY LastRequestIs, WaitForCmdObeysLastRequest
<1>2. Decode(asked) = asked
  BY DEF Decode
<1> QED
  BY <1>1, <1>2, WaitForCmdObeysLastRequest

\* A byte that arrives: a request becomes the last one, an event does not.
LEMMA ArrivalFollows ==
  ASSUME NEW s \in Seq(Byte), NEW b \in Command, NEW asked \in Command,
         asked = LastRequest(s, asked), NEW new, new = LastRequest(<<b>>, asked)
  PROVE  /\ new \in Command
         /\ new = LastRequest(Append(s, b), new)
         /\ LastNonEvent(Append(s, b)) = 0 => LastNonEvent(s) = 0 /\ new = asked
<1>1. <<b>> = Append(<<>>, b) /\ <<>> \in Seq(Byte) /\ b \in Byte /\ Append(s, b) \in Seq(Byte)
  BY CommandTypes
<1>2. CASE b = CMD_EVENT
  <2>1. LastNonEvent(<<b>>) = 0 /\ LastNonEvent(Append(s, b)) = LastNonEvent(s)
    BY <1>1, <1>2, AppendEvent, EmptyHasNoRequest
  <2>2. new = asked
    BY <2>1 DEF LastRequest
  <2>3. LastNonEvent(s) # 0 => Append(s, b)[LastNonEvent(s)] = s[LastNonEvent(s)]
    BY LastNonEventRange
  <2> QED
    BY <2>1, <2>2, <2>3 DEF LastRequest
<1>3. CASE b # CMD_EVENT
  <2> DEFINE e == <<>>
  <2>0. LastNonEvent(Append(e, b)) = Len(e) + 1 /\ LastNonEvent(Append(s, b)) = Len(s) + 1
    <3> HIDE DEF e
    <3>1. e \in Seq(Byte)
      BY DEF e
    <3> QED
      BY <1>1, <1>3, <3>1, AppendRequest
  <2>1. LastNonEvent(<<b>>) = 1 /\ LastNonEvent(Append(s, b)) = Len(s) + 1
    BY <1>1, <2>0
  <2>2. <<b>>[1] = b /\ Append(s, b)[Len(s) + 1] = b /\ Len(s) + 1 # 0
    OBVIOUS
  <2>3. new = b
    BY <2>1, <2>2 DEF LastRequest
  <2>4. LastRequest(Append(s, b), new) = b
    BY <2>1, <2>2, Zenon DEF LastRequest
  <2>5. LastNonEvent(Append(s, b)) # 0
    BY <2>1
  <2> QED
    BY <2>3, <2>4, <2>5
<1> QED
  BY <1>2, <1>3

\* A Writer's own step keeps it following its last request: what wait_for_cmd takes off the
\* connection is that request, and the restart after a dump replaces none.
LEMMA WriterKeepsFollowing ==
  ASSUME TypeOK, NEW p \in Pairs, WriterInOrder(p), WriterFollows(p), wasked[p] \in Command,
         WriterNext(p), wasked'[p] = wasked[p]
  PROVE  WriterFollows(p)'
<1> DEFINE s == wsock[p].bytes
           w == wasked[p]
<1>1. s \in Seq(Byte) /\ w = LastRequest(s, w)
  BY DrainedType DEF TypeOK, WriterFollows
<1>2. ASSUME UNCHANGED wsock, WillRecord(p)' => WillRecord(p) \/ w = CMD_START
      PROVE  WriterFollows(p)'
  BY <1>2 DEF WriterFollows
<1>3. ASSUME WriterReads(p), WillRecord(p)' => WillRecord(p) \/ writer'[p].cmd = CMD_START,
             writer'[p].cmd = WriterCmd(p), WillRecord(p)' => writer'[p].cmd \notin {CMD_STOP, CMD_QUIT}
      PROVE  WriterFollows(p)'
  <2>1. wsock'[p].bytes = <<>>
    BY <1>3, DrainedType DEF WriterReads, TypeOK
  <2>2. LastNonEvent(wsock'[p].bytes) = 0 /\ wasked'[p] = LastRequest(wsock'[p].bytes, wasked'[p])
    BY <2>1, EmptyHasNoRequest DEF LastRequest
  <2>3. ASSUME WillRecord(p)' PROVE w = CMD_START
    <3>1. CASE LastNonEvent(s) # 0
      <4>1. writer'[p].cmd = w /\ w # CMD_EVENT
        BY <1>1, <1>3, <3>1, TakesLastRequest DEF WriterCmd
      <4> QED
        BY <4>1, <1>3, <2>3 DEF Command
    <3>2. CASE LastNonEvent(s) = 0
      <4>1. writer'[p].cmd # CMD_START
        BY <1>1, <1>3, <3>2, TakesLastRequest, CommandsDiffer DEF WriterCmd
      <4> QED
        BY <4>1, <1>3, <2>3, <3>2 DEF WriterFollows
    <3> QED
      BY <3>1, <3>2
  <2> QED
    BY <2>2, <2>3 DEF WriterFollows
<1> USE DEF WillRecord, WriterExited, WriterAt, WriterBecomes, WriterGoesOn, TypeOK, WriterProcess,
            STATE_STARTED, STATE_STOPPED
<1>4. CASE WriterWait(p)
  BY <1>3, <1>4, CommandsDiffer DEF WriterWait
<1>5. CASE WriterStart(p)
  BY <1>2, <1>5 DEF WriterStart
<1>6. CASE WriterIgnore(p)
  BY <1>2, <1>6, CommandsDiffer DEF WriterIgnore
<1>7. CASE WriterQuitStopped(p)
  BY <1>2, <1>7 DEF WriterQuitStopped
<1>8. CASE WriterSelect(p)
  <2>1. WillRecord(p)
    BY <1>8, CommandsDiffer DEF WriterSelect, WriterInOrder, Recording, CMD_NONE, CMD_STOP, CMD_QUIT
  <2>2. CASE Readable(wsock[p])
    BY <1>3, <1>8, <2>1, <2>2 DEF WriterSelect
  <2>3. CASE ~Readable(wsock[p])
    BY <1>2, <1>8, <2>1, <2>3 DEF WriterSelect
  <2> QED
    BY <2>2, <2>3
<1>9. CASE WriterEvent(p)
  BY <1>2, <1>9 DEF WriterEvent, CMD_EVENT, CMD_STOP, CMD_QUIT
<1>10. CASE WriterFlush(p)
  <2>1. WillRecord(p)
    BY <1>10 DEF WriterFlush
  <2>2. CASE Readable(wsock[p])
    BY <1>3, <1>10, <2>1, <2>2, CommandsDiffer DEF WriterFlush
  <2>3. CASE ~Readable(wsock[p])
    BY <1>2, <1>10, <2>1, <2>3 DEF WriterFlush
  <2> QED
    BY <2>2, <2>3
<1>11. CASE WriterStop(p)
  BY <1>2, <1>11 DEF WriterStop, CMD_NONE, CMD_START
<1>12. CASE WriterQuit(p)
  BY <1>2, <1>12 DEF WriterQuit
<1>13. CASE WriterReceive(p)
  BY <1>2, <1>13 DEF WriterReceive, CMD_NONE, CMD_START, CMD_STOP, CMD_QUIT
<1>14. CASE WriterMarkFilled(p)
  BY <1>2, <1>14 DEF WriterMarkFilled
<1>15. CASE WriterWrite(p) \/ WriterWriteFails(p)
  <2>1. WillRecord(p)
    BY <1>15 DEF WriterWrite, WriterWriteFails, WriterInOrder, Recording, CMD_NONE, CMD_STOP,
                 CMD_QUIT
  <2> QED
    BY <1>2, <1>15, <2>1 DEF WriterWrite, WriterWriteFails
<1>16. CASE WriterFails(p)
  BY <1>2, <1>16 DEF WriterFails
<1> QED
  BY <1>4, <1>5, <1>6, <1>7, <1>8, <1>9, <1>10, <1>11, <1>12, <1>13, <1>14, <1>15, <1>16
     DEF WriterNext

\* A Reader's own step keeps it following its last request, its own restart included.
LEMMA ReaderKeepsFollowing ==
  ASSUME TypeOK, NEW p \in Pairs, ReaderInOrder(p), ReaderFollows(p), rasked[p] \in Command,
         ReaderNext(p), rasked'[p] = rasked[p]
  PROVE  ReaderFollows(p)'
<1> DEFINE s == rsock[p].bytes
           w == rasked[p]
           Taken == ReaderExited(p) \/ reader[p].cmd = CMD_QUIT
<1>1. s \in Seq(Byte) /\ w = LastRequest(s, w)
  BY DrainedType DEF TypeOK, ReaderFollows
<1>2. ASSUME UNCHANGED rsock, Taken' \/ (~Taken /\ (WillRead(p)' <=> WillRead(p)))
      PROVE  ReaderFollows(p)'
  BY <1>2 DEF ReaderFollows
<1>3. ASSUME ReaderReads(p), ~Taken, reader'[p].cmd = ReaderCmd(p),
             reader'[p].cmd = CMD_START => WillRead(p)',
             reader'[p].cmd = CMD_STOP => ~WillRead(p)',
             reader'[p].cmd \in {CMD_EVENT, CMD_NONE} => (WillRead(p)' <=> WillRead(p))
      PROVE  ReaderFollows(p)'
  <2>1. rsock'[p].bytes = <<>>
    BY <1>3, DrainedType DEF ReaderReads, TypeOK
  <2>2. LastNonEvent(rsock'[p].bytes) = 0 /\ rasked'[p] = LastRequest(rsock'[p].bytes, rasked'[p])
    BY <2>1, EmptyHasNoRequest DEF LastRequest
  <2>3. ASSUME ~Taken' PROVE WillRead(p)' <=> w = CMD_START
    <3>1. CASE LastNonEvent(s) # 0
      <4>1. reader'[p].cmd = w /\ w # CMD_EVENT /\ w # CMD_QUIT
        BY <1>1, <1>3, <2>3, <3>1, TakesLastRequest DEF ReaderCmd
      <4> QED
        BY <4>1, <1>3, CommandsDiffer DEF Command
    <3>2. CASE LastNonEvent(s) = 0
      <4>1. reader'[p].cmd \in {CMD_EVENT, CMD_NONE}
        BY <1>1, <1>3, <2>3, <3>2, TakesLastRequest DEF ReaderCmd
      <4> QED
        BY <4>1, <1>3, <3>2 DEF ReaderFollows
    <3> QED
      BY <3>1, <3>2
  <2> QED
    BY <2>2, <2>3 DEF ReaderFollows
<1> USE DEF WillRead, ReaderExited, ReaderAt, ReaderBecomes, TypeOK, ReaderProcess,
            STATE_STARTED, STATE_STOPPED, CMD_START, CMD_STOP, CMD_QUIT, CMD_EVENT, CMD_NONE
<1>4. CASE ReaderWait(p)
  BY <1>3, <1>4 DEF ReaderWait
<1>5. CASE ReaderStart(p)
  BY <1>2, <1>5 DEF ReaderStart
<1>6. CASE ReaderIgnore(p)
  BY <1>2, <1>6 DEF ReaderIgnore
<1>7. CASE ReaderQuitStopped(p)
  BY <1>2, <1>7 DEF ReaderQuitStopped
<1>8. CASE ReaderSelect(p)
  <2>1. ~Taken /\ WillRead(p)
    BY <1>8 DEF ReaderSelect, ReaderInOrder
  <2>2. CASE Readable(rsock[p])
    BY <1>3, <1>8, <2>1, <2>2 DEF ReaderSelect
  <2>3. CASE ~Readable(rsock[p])
    BY <1>2, <1>8, <2>1, <2>3 DEF ReaderSelect
  <2> QED
    BY <2>2, <2>3
<1>9. CASE ReaderStop(p)
  BY <1>2, <1>9 DEF ReaderStop
<1>10. CASE ReaderQuit(p)
  BY <1>2, <1>10 DEF ReaderQuit
<1>11. CASE ReaderProceed(p)
  BY <1>2, <1>11 DEF ReaderProceed
<1>12. CASE ReaderReadPacket(p)
  BY <1>2, <1>12 DEF ReaderReadPacket, ReaderInOrder
<1>13. CASE ReaderEnd(p) \/ ReaderReadFails(p)
  BY <1>2, <1>13 DEF ReaderEnd, ReaderReadFails, ReaderInOrder
<1>14. CASE ReaderFails(p)
  BY <1>2, <1>14 DEF ReaderFails
<1> QED
  BY <1>4, <1>5, <1>6, <1>7, <1>8, <1>9, <1>10, <1>11, <1>12, <1>13, <1>14 DEF ReaderNext

\* A pair's side of the bargain as a whole, with the type of the request.
Follows(p) == /\ WriterFollows(p) /\ wasked[p] \in Command
              /\ ReaderFollows(p) /\ rasked[p] \in Command

\* A command that arrives, or a connection that closes, keeps both processes following.
LEMMA ClientKeepsFollowing ==
  ASSUME TypeOK, OnlyCommands, NEW p \in Pairs, Client(p), NEW q \in Pairs, Follows(q)
  PROVE  Follows(q)'
<1> USE DEF TypeOK
<1>1. /\ wsock[q].bytes \in Seq(Byte) /\ rsock[q].bytes \in Seq(Byte)
      /\ wasked[q] = LastRequest(wsock[q].bytes, wasked[q])
      /\ rasked[q] = LastRequest(rsock[q].bytes, rasked[q])
  BY DrainedType DEF Follows, WriterFollows, ReaderFollows
<1>2. UNCHANGED <<writer, reader>> /\ (WillRecord(q)' <=> WillRecord(q)) /\ (WillRead(q)' <=> WillRead(q))
  BY DEF Client, TellWriter, TellReader, DropWriter, DropReader, WillRecord, WillRead, WriterExited
<1>3. CASE \E b \in WriterBytes : TellWriter(p, b)
  <2>1. PICK b \in Command : TellWriter(p, b)
    BY <1>3 DEF OnlyCommands
  <2>2. UNCHANGED <<rsock, rasked>>
    BY <2>1 DEF TellWriter
  <2>3. CASE q # p
    <3>1. wsock'[q] = wsock[q] /\ wasked'[q] = wasked[q]
      BY <2>1, <2>3 DEF TellWriter
    <3> QED
      BY <1>2, <2>2, <3>1 DEF Follows, WriterFollows, ReaderFollows, ReaderExited
  <2>4. CASE q = p
    <3>1. wsock'[q].bytes = Append(wsock[q].bytes, b) /\ wasked'[q] = LastRequest(<<b>>, wasked[q])
      BY <2>1, <2>4 DEF TellWriter, Received, Connection
    <3>2. WriterFollows(q)' /\ wasked'[q] \in Command
      BY <1>1, <1>2, <3>1, ArrivalFollows DEF Follows, WriterFollows
    <3> QED
      BY <1>2, <2>2, <3>2 DEF Follows, ReaderFollows, ReaderExited
  <2> QED
    BY <2>3, <2>4
<1>4. CASE \E b \in ReaderBytes : TellReader(p, b)
  <2>1. PICK b \in Command : TellReader(p, b)
    BY <1>4 DEF OnlyCommands
  <2>2. UNCHANGED <<wsock, wasked>>
    BY <2>1 DEF TellReader
  <2>3. CASE q # p
    <3>1. rsock'[q] = rsock[q] /\ rasked'[q] = rasked[q]
      BY <2>1, <2>3 DEF TellReader
    <3> QED
      BY <1>2, <2>2, <3>1 DEF Follows, WriterFollows, ReaderFollows, ReaderExited
  <2>4. CASE q = p
    <3>1. rsock'[q].bytes = Append(rsock[q].bytes, b) /\ rasked'[q] = LastRequest(<<b>>, rasked[q])
      BY <2>1, <2>4 DEF TellReader, Received, Connection
    <3>2. ReaderFollows(q)' /\ rasked'[q] \in Command
      BY <1>1, <1>2, <3>1, ArrivalFollows DEF Follows, ReaderFollows, ReaderExited
    <3> QED
      BY <1>2, <2>2, <3>2 DEF Follows, WriterFollows
  <2> QED
    BY <2>3, <2>4
<1>5. CASE DropWriter(p) \/ DropReader(p)
  <2>1. /\ wsock'[q].bytes = wsock[q].bytes /\ rsock'[q].bytes = rsock[q].bytes
        /\ UNCHANGED <<wasked, rasked>>
    <3>1. CASE DropWriter(p)
      BY <3>1 DEF DropWriter, HungUp, Connection
    <3>2. CASE DropReader(p)
      BY <3>2 DEF DropReader, HungUp, Connection
    <3> QED
      BY <1>5, <3>1, <3>2
  <2> QED
    BY <1>2, <2>1 DEF Follows, WriterFollows, ReaderFollows, ReaderExited
<1> QED
  BY <1>3, <1>4, <1>5 DEF Client

\* Another pair's steps, and the other process's, leave a process following its requests.
LEMMA OthersKeepFollowing ==
  ASSUME TypeOK, NEW p \in Pairs, NEW q \in Pairs
  PROVE  /\ WriterFollows(q) /\ (ReaderStep(p) \/ (WriterStep(p) /\ q # p)) => WriterFollows(q)'
         /\ ReaderFollows(q) /\ (WriterStep(p) \/ (ReaderStep(p) /\ q # p)) => ReaderFollows(q)'
         /\ Follows(q) /\ UNCHANGED vars => Follows(q)'
<1>1. WriterFollows(q) /\ ReaderStep(p) => WriterFollows(q)'
  BY DEF ReaderStep, WriterFollows, WillRecord, WriterExited
<1>2. WriterFollows(q) /\ WriterStep(p) /\ q # p => WriterFollows(q)'
  BY WriterFrame DEF WriterStep, WriterFollows, WillRecord, WriterExited
<1>3. ReaderFollows(q) /\ WriterStep(p) => ReaderFollows(q)'
  BY DEF WriterStep, ReaderFollows, WillRead, ReaderExited
<1>4. ReaderFollows(q) /\ ReaderStep(p) /\ q # p => ReaderFollows(q)'
  BY ReaderFrame DEF ReaderStep, ReaderFollows, WillRead, ReaderExited
<1>5. Follows(q) /\ UNCHANGED vars => Follows(q)'
  BY DEF vars, Follows, WriterFollows, ReaderFollows, WillRecord, WillRead, WriterExited, ReaderExited
<1> QED
  BY <1>1, <1>2, <1>3, <1>4, <1>5

\* With a client that sends only commands, the last request that has reached a process
\* is waiting on its connection or decides what the process does.
THEOREM RequestsFollowed == OnlyCommands => (Spec => []FollowsRequests)
<1> SUFFICES ASSUME OnlyCommands PROVE Spec => []FollowsRequests
  OBVIOUS
<1> DEFINE Ordered == \A p \in Pairs : WriterInOrder(p) /\ ReaderInOrder(p)
           Inv == \A p \in Pairs : Follows(p)
<1>1. Init => Inv
  <2> SUFFICES ASSUME Init, NEW p \in Pairs PROVE Follows(p)
    OBVIOUS
  <2>1. wsock[p].bytes = <<>> /\ rsock[p].bytes = <<>>
    BY DEF Init, WriterInit, ReaderInit, NewConnection
  <2>2. LastNonEvent(wsock[p].bytes) = 0 /\ LastNonEvent(rsock[p].bytes) = 0
    BY <2>1, EmptyHasNoRequest
  <2>3. ~WillRecord(p) /\ ~WillRead(p) /\ wasked[p] = CMD_STOP /\ rasked[p] = CMD_STOP
    BY DEF Init, WriterInit, ReaderInit, WillRecord, WillRead, CMD_NONE, CMD_START,
           STATE_STARTED, STATE_STOPPED
  <2>4. CMD_STOP # CMD_START /\ CMD_STOP \in Command
    BY DEF CMD_START, CMD_STOP, Command
  <2> QED
    BY <2>2, <2>3, <2>4 DEF Follows, WriterFollows, ReaderFollows, LastRequest
<1>2. TypeOK /\ Ordered /\ Inv /\ [Next]_vars => Inv'
  <2> SUFFICES ASSUME TypeOK, Ordered, Inv, [Next]_vars, NEW q \in Pairs PROVE Follows(q)'
    OBVIOUS
  <2>0. Follows(q) /\ WriterInOrder(q) /\ ReaderInOrder(q)
    OBVIOUS
  <2> HIDE DEF Ordered, Inv
  <2>1. CASE UNCHANGED vars
    BY <2>0, <2>1, OthersKeepFollowing
  <2>2. ASSUME NEW p \in Pairs, Client(p) PROVE Follows(q)'
    BY <2>0, <2>2, ClientKeepsFollowing
  <2>3. ASSUME NEW p \in Pairs, WriterStep(p) PROVE Follows(q)'
    <3>1. UNCHANGED <<wasked, rasked>>
      BY <2>3 DEF WriterStep
    <3>2. q = p => WriterFollows(q)'
      BY <2>0, <2>3, <3>1, WriterKeepsFollowing DEF WriterStep, Follows
    <3> QED
      BY <2>0, <2>3, <3>1, <3>2, OthersKeepFollowing DEF Follows
  <2>4. ASSUME NEW p \in Pairs, ReaderStep(p) PROVE Follows(q)'
    <3>1. UNCHANGED <<wasked, rasked>>
      BY <2>4 DEF ReaderStep
    <3>2. q = p => ReaderFollows(q)'
      BY <2>0, <2>4, <3>1, ReaderKeepsFollowing DEF ReaderStep, Follows
    <3> QED
      BY <2>0, <2>4, <3>1, <3>2, OthersKeepFollowing DEF Follows
  <2> QED
    BY <2>1, <2>2, <2>3, <2>4 DEF Next
<1>3. Inv => FollowsRequests
  BY DEF Follows, WriterFollows, ReaderFollows, FollowsRequests
<1>4. BlockDiscipline /\ NoStaleCommand => Ordered
  BY OrderIs
<1> QED
  BY <1>1, <1>2, <1>3, <1>4, TypeCorrect, InOrder, PTL DEF Spec

\* With such a client, a Writer that has read every request has the data block open only
\* if it was asked last to start: no stop is ever undone by the restart after a dump.
THEOREM StopsAreFinal == OnlyCommands => (Spec => []StopIsFinal)
<1>1. TypeOK /\ BlockDiscipline /\ FollowsRequests => StopIsFinal
  BY DEF BlockDiscipline, FollowsRequests, StopIsFinal, WillRecord
<1> QED
  BY <1>1, TypeCorrect, InOrder, RequestsFollowed, PTL

\* With such a client, a Reader with no command on its way is started exactly if it was
\* asked last to start, whatever ends of data it has met.
THEOREM ReadersObey == OnlyCommands => (Spec => []ReaderObeys)
<1>1. FollowsRequests => ReaderObeys
  BY EmptyHasNoRequest DEF FollowsRequests, ReaderObeys, ReaderAtRest, ReaderExited, WillRead,
     CMD_NONE, CMD_START, CMD_STOP, CMD_QUIT, STATE_STARTED, STATE_STOPPED
<1> QED
  BY <1>1, RequestsFollowed, PTL
-----------------------------------------------------------------------------
(* A closed data block ends in an end of data. *)

Ends(p) == ring[p].filled # <<>> => ring[p].filled[Len(ring[p].filled)].eod

\* A block that is not open for writing is so marked, and so is an open one with nothing
\* in the sub-block being written: unless the Writer is between marking one filled and
\* putting its packet into the next, or ipcio_write has failed there.
EndMarked(p) ==
  /\ writer[p].status = "ok"
  /\ ~ring[p].writing \/ (ring[p].cur = 0 /\ writer[p].pc # "write")
  => Ends(p)

\* A Writer's own step keeps the block ending as Ends says: closing it marks the end.
LEMMA WriterKeepsEnd ==
  ASSUME TypeOK, NEW p \in Pairs, WriterInOrder(p), EndMarked(p), WriterNext(p)
  PROVE  EndMarked(p)'
<1> DEFINE r == ring[p]
<1>1. /\ r \in Ring /\ r.filled \in Seq(SubBlock) /\ r.cur \in 0..PktsPerBuf
      /\ writer[p] \in WriterProcess
  BY DEF TypeOK, Ring
<1> DEFINE SameStatus == writer'[p].status = writer[p].status
<1>2. CASE CloseForWriting(p) /\ WriterAt(p, STATE_STARTED, "act") /\ SameStatus
  <2>1. CASE r.cur = 0
    <3>1. /\ writer[p].status = "ok" => Ends(p)
          /\ ring'[p].filled = r.filled
      BY <1>1, <1>2, <2>1 DEF CloseForWriting, EndMarked, WriterAt, TypeOK, Ring
    <3> QED
      BY <1>2, <3>1 DEF EndMarked, Ends
  <2>2. CASE r.cur # 0
    <3> DEFINE e == [pkts |-> r.cur, eod |-> TRUE]
    <3>1. ring'[p].filled = Append(r.filled, e) /\ e.eod
      BY <1>1, <1>2, <2>2 DEF CloseForWriting, TypeOK, Ring
    <3>2. ring'[p].filled[Len(ring'[p].filled)] = e
      BY <1>1, <3>1
    <3> QED
      BY <3>1, <3>2 DEF EndMarked, Ends
  <2> QED
    BY <2>1, <2>2
<1>3. CASE UNCHANGED ring /\ writer[p].pc # "write" /\ SameStatus
  BY <1>3 DEF EndMarked, Ends
<1>4. CASE WriterStart(p)
  <2>1. /\ ring'[p].filled = r.filled /\ SameStatus
        /\ writer[p].status = "ok" => Ends(p)
    BY <1>1, <1>4 DEF WriterStart, OpenForWriting, TypeOK, Ring, EndMarked, WriterInOrder,
                      WriterAt, WriterExited, WriterBecomes, WriterProcess, STATE_STARTED,
                      STATE_STOPPED
  <2> QED
    BY <2>1 DEF EndMarked, Ends
<1>5. CASE WriterMarkFilled(p)
  <2>1. writer'[p].pc = "write" /\ r.writing /\ ring'[p].writing = r.writing
    BY <1>1, <1>5 DEF WriterMarkFilled, MarkFilled, WriterAt, WriterInOrder, WriterExited, TypeOK, Ring
  <2> QED
    BY <2>1 DEF EndMarked
<1>6. CASE WriterWrite(p)
  <2>1. ring'[p].cur = r.cur + 1 /\ r.writing /\ ring'[p].writing = r.writing
    BY <1>1, <1>6 DEF WriterWrite, WriterGoesOn, WritePacket, WriterAt, WriterInOrder,
                      WriterExited, TypeOK, Ring
  <2>2. ring'[p].cur # 0
    BY <1>1, <2>1
  <2> QED
    BY <2>1, <2>2 DEF EndMarked
<1>7. WriterEvent(p) \/ WriterStop(p) \/ WriterQuit(p)
        => CloseForWriting(p) /\ WriterAt(p, STATE_STARTED, "act") /\ SameStatus
  BY <1>1 DEF WriterEvent, WriterStop, WriterQuit, WriterBecomes, WriterProcess, TypeOK
<1>8. WriterWait(p) \/ WriterIgnore(p) \/ WriterQuitStopped(p) \/ WriterSelect(p)
        \/ WriterFlush(p) \/ WriterReceive(p) \/ WriterFails(p)
        => UNCHANGED ring /\ writer[p].pc # "write" /\ SameStatus
  BY <1>1 DEF WriterWait, WriterIgnore, WriterQuitStopped, WriterSelect, WriterFlush,
         WriterReceive, WriterFails, WriterAt, WriterBecomes, WriterProcess, TypeOK
<1>9. CASE WriterWriteFails(p)
  <2>1. writer'[p].status = "error"
    BY <1>1, <1>9 DEF WriterWriteFails, WriterGoesOn, WriterProcess, TypeOK
  <2> QED
    BY <2>1 DEF EndMarked
<1> QED
  BY <1>2, <1>3, <1>4, <1>5, <1>6, <1>7, <1>8, <1>9 DEF WriterNext

\* A Reader's own step takes packets from the front and leaves the end of the block.
LEMMA ReaderKeepsEnd ==
  ASSUME TypeOK, NEW p \in Pairs, ReaderNext(p), writer'[p] = writer[p], EndMarked(p)
  PROVE  EndMarked(p)'
<1> DEFINE f == ring[p].filled
           g == ring'[p].filled
<1>1. ring[p] \in Ring /\ f \in Seq(SubBlock)
  BY DEF TypeOK, Ring
<1>2. ring'[p].writing = ring[p].writing /\ ring'[p].cur = ring[p].cur
  BY ReaderFrame
<1>3. Ends(p) => Ends(p)'
  <2>1. CASE g = f
    BY <2>1 DEF Ends
  <2>2. CASE f # <<>> /\ g = Tail(f)
    <3>1. g # <<>> => f # <<>> /\ g[Len(g)] = f[Len(f)]
      BY <1>1, <2>2
    <3> QED
      BY <3>1 DEF Ends
  <2>3. CASE f # <<>> /\ \E n \in Nat : g = [f EXCEPT ![1].pkts = n]
    <3>1. PICK n \in Nat : g = [f EXCEPT ![1].pkts = n]
      BY <2>3
    <3>2. Len(f) \in 1..Len(f) /\ f[Len(f)] \in SubBlock
      BY <1>1, <2>3
    <3>3. Len(g) = Len(f)
      BY <1>1, <2>3, <3>1
    <3>4. g[Len(f)].eod = f[Len(f)].eod
      BY <1>1, <3>1, <3>2 DEF SubBlock
    <3> QED
      BY <2>3, <3>3, <3>4 DEF Ends
  <2>4. \/ UNCHANGED ring \/ OpenForReading(p) \/ CloseForReading(p)
        \/ ReadPacket(p) \/ ReadEnd(p)
    BY DEF ReaderNext, ReaderWait, ReaderStart, ReaderIgnore, ReaderQuitStopped, ReaderSelect,
           ReaderStop, ReaderQuit, ReaderProceed, ReaderReadPacket, ReaderEnd,
           ReaderReadFails, ReaderFails
  <2>5. CASE UNCHANGED ring \/ OpenForReading(p) \/ CloseForReading(p)
    BY <2>1, <2>5 DEF OpenForReading, CloseForReading, TypeOK, Ring
  <2>6. CASE ReadEnd(p)
    BY <2>2, <2>6 DEF ReadEnd, AtEnd, NothingToRead, TypeOK, Ring
  <2>7. CASE ReadPacket(p)
    <3>1. f # <<>> /\ Head(f).pkts > 0 /\ Head(f) = f[1] /\ f[1] \in SubBlock
      BY <1>1, <2>7 DEF ReadPacket, NothingToRead
    <3>2. Head(f).pkts - 1 \in Nat
      BY <3>1, RingAssumption DEF SubBlock
    <3>3. g = Tail(f) \/ g = [f EXCEPT ![1].pkts = Head(f).pkts - 1]
      BY <2>7 DEF ReadPacket, TypeOK, Ring
    <3> QED
      BY <2>2, <2>3, <3>1, <3>2, <3>3
  <2> QED
    BY <2>4, <2>5, <2>6, <2>7
<1> QED
  BY <1>2, <1>3 DEF EndMarked

\* Whatever dumps, stops and errors there were, a data block that is not open for writing
\* and holds packets ends in an end of data, which the Reader will meet, unless the last call
\* of ipcio_write has failed.
THEOREM ClosedBlocksEnd == Spec => []ClosedBlockEnds
<1> DEFINE Ordered == \A p \in Pairs : WriterInOrder(p) /\ ReaderInOrder(p)
           Inv == \A p \in Pairs : EndMarked(p)
<1>1. Init => Inv
  BY DEF Init, RingInit, NewRing, EndMarked, Ends
<1>2. TypeOK /\ Ordered /\ Inv /\ [Next]_vars => Inv'
  <2> SUFFICES ASSUME TypeOK, Ordered, Inv, [Next]_vars, NEW q \in Pairs PROVE EndMarked(q)'
    OBVIOUS
  <2>0. EndMarked(q) /\ WriterInOrder(q)
    OBVIOUS
  <2> HIDE DEF Ordered, Inv
  <2>1. ASSUME UNCHANGED <<ring, writer>> PROVE EndMarked(q)'
    BY <2>0, <2>1 DEF EndMarked, Ends
  <2>2. ASSUME NEW p \in Pairs, Client(p) PROVE EndMarked(q)'
    BY <2>1, <2>2, ClientStepType DEF TypeOK, WriterType, ReaderType, HistoryType
  <2>3. ASSUME NEW p \in Pairs, WriterStep(p) PROVE EndMarked(q)'
    <3>1. CASE q = p
      BY <2>0, <2>3, <3>1, WriterKeepsEnd DEF WriterStep
    <3>2. CASE q # p
      BY <2>0, <2>3, <3>2, WriterFrame DEF WriterStep, EndMarked, Ends
    <3> QED
      BY <3>1, <3>2
  <2>4. ASSUME NEW p \in Pairs, ReaderStep(p) PROVE EndMarked(q)'
    <3>1. CASE q = p
      BY <2>0, <2>4, <3>1, ReaderKeepsEnd DEF ReaderStep
    <3>2. CASE q # p
      BY <2>0, <2>4, <3>2, ReaderFrame DEF ReaderStep, EndMarked, Ends
    <3> QED
      BY <3>1, <3>2
  <2> QED
    BY <2>1, <2>2, <2>3, <2>4 DEF Next, vars
<1>3. Inv => ClosedBlockEnds
  BY DEF EndMarked, Ends, ClosedBlockEnds, Last
<1>4. BlockDiscipline /\ NoStaleCommand => Ordered
  BY OrderIs
<1> QED
  BY <1>1, <1>2, <1>3, <1>4, TypeCorrect, InOrder, PTL DEF Spec
-----------------------------------------------------------------------------
(* Every step is a legal use of the data blocks. *)

\* A process in order does with its data block only what the library allows then.
LEMMA StepsUseBlock ==
  ASSUME NEW p \in Pairs, WriterInOrder(p), ReaderInOrder(p)
  PROVE  WriterNext(p) \/ ReaderNext(p) => [Block!Use]_ring
<1>1. /\ ~ring[p].writing /\ OpenForWriting(p) => Block!Use
      /\ ring[p].writing /\ (MarkFilled(p) \/ WritePacket(p) \/ CloseForWriting(p)) => Block!Use
      /\ ~ring[p].reading /\ OpenForReading(p) => Block!Use
      /\ ring[p].reading /\ (ReadPacket(p) \/ ReadEnd(p) \/ CloseForReading(p)) => Block!Use
  <2> USE DEF Block!Use, Block!UseForWriting, Block!UseForReading
  <2>1. /\ ~ring[p].writing /\ OpenForWriting(p) => Block!UseForWriting(p)
        /\ ring[p].writing /\ (MarkFilled(p) \/ WritePacket(p) \/ CloseForWriting(p))
             => Block!UseForWriting(p)
    BY DEF OpenForWriting, MarkFilled, WritePacket, CloseForWriting, SubBlockFull, RingFull,
           Block!OpenForWriting, Block!MarkFilled, Block!WritePacket, Block!CloseForWriting,
           Block!SubBlockFull, Block!RingFull
  <2>2. /\ ~ring[p].reading /\ OpenForReading(p) => Block!UseForReading(p)
        /\ ring[p].reading /\ (ReadPacket(p) \/ ReadEnd(p) \/ CloseForReading(p))
             => Block!UseForReading(p)
    BY DEF OpenForReading, CloseForReading, ReadPacket, ReadEnd, NothingToRead, AtEnd,
           Block!OpenForReading, Block!CloseForReading, Block!ReadPacket, Block!ReadEnd,
           Block!NothingToRead, Block!AtEnd
  <2> QED
    BY <2>1, <2>2
<1>2. WriterNext(p) => [Block!Use]_ring
  <2> USE <1>1 DEF WriterInOrder, WriterExited, WriterAt, STATE_STARTED, STATE_STOPPED
  <2>1. CASE WriterStart(p)
    BY <2>1 DEF WriterStart
  <2>2. CASE WriterEvent(p) \/ WriterStop(p) \/ WriterQuit(p)
    BY <2>2 DEF WriterEvent, WriterStop, WriterQuit
  <2>3. CASE WriterMarkFilled(p) \/ WriterWrite(p)
    BY <2>3 DEF WriterMarkFilled, WriterWrite, WriterGoesOn
  <2>4. CASE \/ WriterWait(p) \/ WriterIgnore(p) \/ WriterQuitStopped(p) \/ WriterSelect(p)
             \/ WriterFlush(p) \/ WriterReceive(p) \/ WriterWriteFails(p) \/ WriterFails(p)
    BY <2>4 DEF WriterWait, WriterIgnore, WriterQuitStopped, WriterSelect, WriterFlush,
                WriterReceive, WriterWriteFails, WriterFails
  <2> QED
    BY <2>1, <2>2, <2>3, <2>4 DEF WriterNext
<1>3. ReaderNext(p) => [Block!Use]_ring
  <2> USE <1>1 DEF ReaderInOrder, ReaderExited, ReaderAt, STATE_STARTED, STATE_STOPPED
  <2>1. CASE ReaderStart(p)
    BY <2>1 DEF ReaderStart
  <2>2. CASE \/ ReaderStop(p) \/ ReaderQuit(p) \/ ReaderReadPacket(p) \/ ReaderEnd(p)
             \/ ReaderReadFails(p)
    BY <2>2 DEF ReaderStop, ReaderQuit, ReaderReadPacket, ReaderEnd, ReaderReadFails
  <2>3. CASE \/ ReaderWait(p) \/ ReaderIgnore(p) \/ ReaderQuitStopped(p) \/ ReaderSelect(p)
             \/ ReaderProceed(p) \/ ReaderFails(p)
    BY <2>3 DEF ReaderWait, ReaderIgnore, ReaderQuitStopped, ReaderSelect, ReaderProceed,
                ReaderFails
  <2> QED
    BY <2>1, <2>2, <2>3 DEF ReaderNext
<1> QED
  BY <1>2, <1>3

\* Whatever the client sends or drops, what the Writers and Readers do implements the
\* legal use of their data blocks.
THEOREM BlockUsed == Spec => UsesBlock
<1> DEFINE Ordered == \A p \in Pairs : WriterInOrder(p) /\ ReaderInOrder(p)
<1>1. Init => Block!RingInit
  BY DEF Init, RingInit, NewRing, Block!RingInit, Block!NewRing
<1>2. TypeOK /\ Ordered /\ [Next]_vars => [Block!Use]_ring
  <2> SUFFICES ASSUME TypeOK, Ordered, [Next]_vars PROVE [Block!Use]_ring
    OBVIOUS
  <2>1. CASE UNCHANGED vars
    BY <2>1 DEF vars
  <2>2. ASSUME NEW p \in Pairs, Client(p) PROVE [Block!Use]_ring
    BY <2>2 DEF Client, TellWriter, TellReader, DropWriter, DropReader
  <2>3. ASSUME NEW p \in Pairs, WriterStep(p) \/ ReaderStep(p) PROVE [Block!Use]_ring
    BY <2>3, StepsUseBlock DEF WriterStep, ReaderStep
  <2> QED
    BY <2>1, <2>2, <2>3 DEF Next
<1>3. BlockDiscipline /\ NoStaleCommand => Ordered
  BY OrderIs
<1> QED
  BY <1>1, <1>2, <1>3, TypeCorrect, InOrder, PTL DEF Spec, UsesBlock, Block!Spec
=============================================================================
