---------------------------- MODULE SystemProofs ----------------------------
(***************************************************************************)
(* The system of a Messenger and any number of pairs implements Capture,   *)
(* so the theorems about Capture hold in it.                               *)
(***************************************************************************)
EXTENDS System, CaptureProofs, FiniteSetTheorems

\* The client that Capture allows for is given what the Messenger sends.
ClientIsMessenger == WriterBytes = SentToWriters /\ ReaderBytes = SentToReaders

\* Sending, looping and receiving a document keep the types.
LEMMA MessengerStepType ==
  ASSUME WireTypeOK, MessengerNext
  PROVE  WireTypeOK'
<1> USE DEF WireTypeOK
<1> DEFINE Pc == {"select", "finish", "start_r", "start_w", "fill", "trigger", "settle",
                  "stop_w", "stop_r", "dead"}
           MOK == messenger' \in MessengerProcess
           WOK == towriter' \in [Pairs -> Seq(SentToWriters)]
           ROK == toreader' \in [Pairs -> Seq(SentToReaders)]
<1>1. 1 \in Pairs /\ messenger.ii \in Pairs /\ messenger \in MessengerProcess
  BY MessengerAssumption DEF MessengerProcess
<1>2. ASSUME NEW pc \in Pc, NEW ii \in Pairs, GoTo(pc, ii) PROVE MOK
  BY <1>1, <1>2 DEF GoTo, MessengerProcess
<1>3. ASSUME NEW again \in Pc, NEW after \in Pc, Loop(again, after) PROVE MOK
  <2>1. messenger.ii < NRWPAIRS => messenger.ii + 1 \in Pairs
    BY <1>1, MessengerAssumption
  <2> QED
    BY <1>1, <1>2, <1>3, <2>1 DEF Loop
<1>4. UNCHANGED towriter => WOK
  OBVIOUS
<1>5. UNCHANGED toreader => ROK
  OBVIOUS
<1>6. ASSUME NEW b \in SentToWriters, towriter' = [towriter EXCEPT ![messenger.ii] = Append(@, b)]
      PROVE  WOK
  <2>1. Append(towriter[messenger.ii], b) \in Seq(SentToWriters)
    BY <1>1
  <2> QED
    BY <1>6, <2>1
<1>7. ASSUME NEW b \in SentToReaders, toreader' = [toreader EXCEPT ![messenger.ii] = Append(@, b)]
      PROVE  ROK
  <2>1. Append(toreader[messenger.ii], b) \in Seq(SentToReaders)
    BY <1>1
  <2> QED
    BY <1>7, <2>1
<1>8. ASSUME NEW pc \in {"finish", "start_r", "select"}, ReceiveDocument(pc) PROVE WireTypeOK'
  <2>1. messenger.docs + 1 \in 0..MaxDocs
    BY <1>1, <1>8, MessengerAssumption DEF ReceiveDocument, MessengerProcess
  <2>2. MOK
    BY <1>1, <1>8, <2>1 DEF ReceiveDocument, MessengerProcess
  <2> QED
    BY <1>8, <2>2 DEF ReceiveDocument
<1>9. CASE ReceiveFinish \/ ReceiveSource \/ ReceiveOther
  BY <1>8, <1>9 DEF ReceiveFinish, ReceiveSource, ReceiveOther
<1>10. /\ CMD_STOP \in SentToWriters \intersect SentToReaders
       /\ CMD_START \in SentToWriters \intersect SentToReaders
       /\ CMD_EVENT \in SentToWriters
  BY DEF SentToWriters, SentToReaders
<1>11. CASE FinishWriter
  <2>1. WOK /\ ROK
    BY <1>4, <1>5, <1>6, <1>10, <1>11 DEF FinishWriter, SendToWriter
  <2>2. MOK
    BY <1>1, <1>2, <1>3, <1>11 DEF FinishWriter, SendToWriter
  <2> QED
    BY <2>1, <2>2
<1>12. CASE StartReader
  <2>1. WOK /\ ROK
    BY <1>4, <1>5, <1>7, <1>10, <1>12 DEF StartReader, SendToReader
  <2>2. MOK
    BY <1>1, <1>2, <1>12 DEF StartReader, SendToReader
  <2> QED
    BY <2>1, <2>2
<1>13. CASE StartWriter
  <2>1. WOK /\ ROK
    BY <1>4, <1>5, <1>6, <1>10, <1>13 DEF StartWriter, SendToWriter
  <2>2. MOK
    BY <1>1, <1>2, <1>3, <1>13 DEF StartWriter, SendToWriter
  <2> QED
    BY <2>1, <2>2
<1>14. CASE TriggerWriter
  <2>1. WOK /\ ROK
    BY <1>4, <1>5, <1>6, <1>10, <1>14 DEF TriggerWriter, SendToWriter
  <2>2. MOK
    BY <1>1, <1>2, <1>3, <1>14 DEF TriggerWriter, SendToWriter
  <2> QED
    BY <2>1, <2>2
<1>15. CASE StopWriter
  <2>1. WOK /\ ROK
    BY <1>4, <1>5, <1>6, <1>10, <1>15 DEF StopWriter, SendToWriter
  <2>2. MOK
    BY <1>1, <1>2, <1>15 DEF StopWriter, SendToWriter
  <2> QED
    BY <2>1, <2>2
<1>16. CASE StopReader
  <2>1. WOK /\ ROK
    BY <1>4, <1>5, <1>7, <1>10, <1>16 DEF StopReader, SendToReader
  <2>2. MOK
    BY <1>1, <1>2, <1>3, <1>16 DEF StopReader, SendToReader
  <2> QED
    BY <2>1, <2>2
<1>17. CASE Fill \/ Settle \/ Crash
  BY <1>1, <1>2, <1>17 DEF Fill, Settle, Sleep, Crash
<1> QED
  BY <1>9, <1>11, <1>12, <1>13, <1>14, <1>15, <1>16, <1>17 DEF MessengerNext, MessengerWorks

\* Only commands to start, to stop and to dump are ever under way to a Writer, and none to
\* dump to a Reader.
THEOREM WireTypeCorrect == SysSpec => []WireTypeOK
<1>1. SysInit => WireTypeOK
  <2>1. <<>> \in Seq(SentToWriters) /\ <<>> \in Seq(SentToReaders)
    OBVIOUS
  <2> QED
    BY <2>1, MessengerAssumption
       DEF SysInit, MessengerInit, WireTypeOK, MessengerProcess
<1>2. WireTypeOK /\ [SysNext]_sysvars => WireTypeOK'
  <2> SUFFICES ASSUME WireTypeOK, [SysNext]_sysvars PROVE WireTypeOK'
    OBVIOUS
  <2>1. ASSUME UNCHANGED mvars PROVE WireTypeOK'
    BY <2>1 DEF mvars, WireTypeOK
  <2>2. CASE SysMessenger
    BY <2>2, MessengerStepType DEF SysMessenger
  <2>3. ASSUME NEW p \in Pairs, DeliverToWriter(p) PROVE WireTypeOK'
    BY <2>3 DEF DeliverToWriter, WireTypeOK
  <2>4. ASSUME NEW p \in Pairs, DeliverToReader(p) PROVE WireTypeOK'
    BY <2>4 DEF DeliverToReader, WireTypeOK
  <2>5. ASSUME NEW p \in Pairs, DeliverEnd(p) \/ SysWriter(p) \/ SysReader(p)
        PROVE  UNCHANGED mvars
    BY <2>5 DEF DeliverEnd, SysWriter, SysReader
  <2> QED
    BY <2>1, <2>2, <2>3, <2>4, <2>5 DEF SysNext, sysvars
<1> QED
  BY <1>1, <1>2, PTL DEF SysSpec

\* Every step of the system is a step of Capture or leaves Capture's variables alone: the
\* Messenger with its connections is a client that Capture allows for.
THEOREM Implementation == ClientIsMessenger => (SysSpec => ImplementsCapture)
<1> SUFFICES ASSUME ClientIsMessenger PROVE SysSpec => ImplementsCapture
  OBVIOUS
<1>1. SysInit => Init
  BY DEF SysInit
<1>2. WireTypeOK /\ [SysNext]_sysvars => [Next]_vars
  <2> SUFFICES ASSUME WireTypeOK, [SysNext]_sysvars PROVE [Next]_vars
    OBVIOUS
  <2>1. CASE UNCHANGED sysvars
    BY <2>1 DEF sysvars
  <2>2. CASE SysMessenger
    BY <2>2 DEF SysMessenger
  <2>3. ASSUME NEW p \in Pairs, DeliverToWriter(p) PROVE [Next]_vars
    <3>1. Head(towriter[p]) \in WriterBytes
      BY <2>3 DEF DeliverToWriter, WireTypeOK, ClientIsMessenger
    <3> QED
      BY <2>3, <3>1 DEF DeliverToWriter, Next, Client
  <2>4. ASSUME NEW p \in Pairs, DeliverToReader(p) PROVE [Next]_vars
    <3>1. Head(toreader[p]) \in ReaderBytes
      BY <2>4 DEF DeliverToReader, WireTypeOK, ClientIsMessenger
    <3> QED
      BY <2>4, <3>1 DEF DeliverToReader, Next, Client
  <2>5. ASSUME NEW p \in Pairs, DeliverEnd(p) \/ SysWriter(p) \/ SysReader(p)
        PROVE  Next
    BY <2>5 DEF DeliverEnd, SysWriter, SysReader, Next, Client
  <2> QED
    BY <2>1, <2>2, <2>3, <2>4, <2>5 DEF SysNext
<1> QED
  BY <1>1, <1>2, WireTypeCorrect, PTL DEF SysSpec, Spec, ImplementsCapture

\* So in the system, with any number of pairs, stops are final, the Readers obey, the data
\* blocks are used in order and a closed one ends in an end of data.
THEOREM SystemSafe ==
  ClientIsMessenger =>
    (SysSpec => [](TypeOK /\ BlockDiscipline /\ NoStaleCommand /\ ClosedBlockEnds
                   /\ StopIsFinal /\ ReaderObeys))
<1> SUFFICES ASSUME ClientIsMessenger
             PROVE  SysSpec => [](TypeOK /\ BlockDiscipline /\ NoStaleCommand
                                  /\ ClosedBlockEnds /\ StopIsFinal /\ ReaderObeys)
  OBVIOUS
<1>1. OnlyCommands
  BY DEF OnlyCommands, ClientIsMessenger, SentToWriters, SentToReaders, Command
<1>2. SysSpec => Spec
  BY Implementation DEF ImplementsCapture
<1> QED
  BY <1>1, <1>2, TypeCorrect, InOrder, ClosedBlocksEnd, StopsAreFinal, ReadersObey, PTL

-----------------------------------------------------------------------------
(* The script.  What the Messenger has sent a process last is known from   *)
(* where it is.                                                            *)

LastToWriter(p) ==
  LET pc == messenger.pc
      ii == messenger.ii
  IN  IF \/ pc \in {"start_r", "start_w"} /\ p < ii
         \/ pc = "fill"
         \/ pc = "trigger" /\ ii <= p
      THEN CMD_START
      ELSE IF \/ pc \in {"trigger", "settle"}
              \/ pc = "stop_w" /\ ii <= p
              \/ pc = "stop_r" /\ ii < p
           THEN CMD_EVENT
           ELSE CMD_STOP

LastToReader(p) ==
  LET pc == messenger.pc
      ii == messenger.ii
  IN  IF \/ pc = "start_r" /\ p < ii
         \/ pc = "start_w" /\ p <= ii
         \/ pc \in {"fill", "trigger", "settle"}
         \/ pc \in {"stop_w", "stop_r"} /\ ii <= p
      THEN CMD_START
      ELSE CMD_STOP

\* Only what the Messenger sends arrives; while it lives no connection ends, so no process
\* is told to quit, and none exits but by an error of its data block.
WriterServed(p) ==
  /\ wsock[p].bytes \in Seq(SentToWriters) /\ wasked[p] \in SentToWriters
  /\ writer[p].pc = "flush" => writer[p].cmd = CMD_EVENT
  /\ ~MessengerAt("dead") =>
       /\ ~wsock[p].closed /\ writer[p].cmd # CMD_QUIT
       /\ OpensAndCloses => ~WriterExited(p)

ReaderServed(p) ==
  /\ rsock[p].bytes \in Seq(SentToReaders) /\ rasked[p] \in SentToReaders
  /\ ~MessengerAt("dead") =>
       /\ ~rsock[p].closed /\ reader[p].cmd # CMD_QUIT
       /\ OpensAndCloses => ~ReaderExited(p)

\* In a sequence of commands an event comes only after a start.
EventsFollowStarts(s) == \A i \in 2..Len(s) : s[i] = CMD_EVENT => s[i - 1] = CMD_START

\* An event that arrives now is the first since the last start.
AwaitsEvent(p) ==
  /\ wasked[p] = CMD_START
  /\ IF wsock[p].bytes = <<>> THEN writer[p].cmd # CMD_EVENT
                              ELSE Last(wsock[p].bytes) = CMD_START

\* Between two events a Writer is always sent a stop and a start, in whatever pieces it
\* reads them; and what has not arrived of the script ends as LastToWriter says.
WriterScript(p) ==
  /\ EventsFollowStarts(wsock[p].bytes) /\ EventsFollowStarts(towriter[p])
  /\ wsock[p].bytes # <<>> /\ Head(wsock[p].bytes) = CMD_EVENT => writer[p].cmd # CMD_EVENT
  /\ towriter[p] # <<>> /\ Head(towriter[p]) = CMD_EVENT => AwaitsEvent(p)
  /\ ~MessengerAt("dead") =>
       IF towriter[p] = <<>>
       THEN /\ wasked[p] = CMD_START <=> LastToWriter(p) # CMD_STOP
            /\ LastToWriter(p) = CMD_START => AwaitsEvent(p)
       ELSE Last(towriter[p]) = LastToWriter(p)

ReaderScript(p) ==
  ~MessengerAt("dead") =>
    IF toreader[p] = <<>> THEN rasked[p] = LastToReader(p)
                          ELSE Last(toreader[p]) = LastToReader(p)

\* The half of obedience that an arbitrary client does not get.
StartsAreObeyed(p) ==
  /\ writer[p].cmd # CMD_QUIT
  /\ LastNonEvent(wsock[p].bytes) = 0
  /\ wasked[p] = CMD_START
  => WillRecord(p)

WriterScripted(p) ==
  WriterServed(p) /\ (~WriterExited(p) => WriterScript(p) /\ StartsAreObeyed(p))

ReaderScripted(p) ==
  ReaderServed(p) /\ (~ReaderExited(p) => ReaderScript(p))

\* The places of the events in a sequence of commands.
Events(s) == {i \in 1..Len(s) : s[i] = CMD_EVENT}

\* An event read and not yet obeyed.
EventHeld(p) == writer[p].cmd = CMD_EVENT /\ writer[p].pc # "flush"

EventsAccounted(p) ==
  dumps[p] + Cardinality(Events(wsock[p].bytes)) + Cardinality(Events(towriter[p]))
    + (IF EventHeld(p) THEN 1 ELSE 0) <= eventlog[p]

\* The trigger for p that belongs to the document at hand is still to come.
ToBeTriggered(p) ==
  \/ messenger.pc \in {"start_r", "start_w", "fill"}
  \/ messenger.pc = "trigger" /\ messenger.ii <= p

OneTriggerPerDocument(p) ==
  eventlog[p] + (IF ToBeTriggered(p) THEN 1 ELSE 0) <= messenger.docs

\* With long sleeps: where the event for p is, and what has been dumped.
NoEventAround(p) == Events(towriter[p]) = {} /\ Events(wsock[p].bytes) = {} /\ ~EventHeld(p)

EventOnItsWay(p) ==
  /\ writer[p].state = STATE_STARTED
  /\ \/ towriter[p] = <<CMD_EVENT>> /\ wsock[p].bytes = <<>> /\ writer[p].cmd = CMD_NONE
     \/ towriter[p] = <<>> /\ wsock[p].bytes = <<CMD_EVENT>> /\ writer[p].cmd = CMD_NONE
     \/ towriter[p] = <<>> /\ wsock[p].bytes = <<>> /\ EventHeld(p)

Timely(p) ==
  LongSleeps /\ ~MessengerAt("dead") /\ ~WriterExited(p) =>
    \/ dumps[p] = eventlog[p] /\ NoEventAround(p)
         /\ (MessengerAt("trigger") /\ messenger.ii <= p =>
               TakenUp(p) /\ writer[p].state = STATE_STARTED)
    \/ dumps[p] + 1 = eventlog[p] /\ EventOnItsWay(p)
         /\ (MessengerAt("settle") \/ (MessengerAt("trigger") /\ p < messenger.ii))

-----------------------------------------------------------------------------
(* What a step does to one process.                                        *)

WriterUntouched(p) ==
  /\ UNCHANGED <<messenger, eventlog>>
  /\ writer'[p] = writer[p] /\ wsock'[p] = wsock[p] /\ wasked'[p] = wasked[p]
  /\ towriter'[p] = towriter[p] /\ dumps'[p] = dumps[p]

ReaderUntouched(p) ==
  /\ UNCHANGED messenger
  /\ reader'[p] = reader[p] /\ rsock'[p] = rsock[p] /\ rasked'[p] = rasked[p]
  /\ toreader'[p] = toreader[p]

SysTyped == TypeOK /\ WireTypeOK /\ dumps \in [Pairs -> Nat] /\ eventlog \in [Pairs -> Nat]

\* A Writer is touched by the Messenger, by its connection and by its own steps.
LEMMA WriterTouched ==
  ASSUME SysTyped, [SysNext]_sysvars, NEW q \in Pairs
  PROVE  \/ SysMessenger \/ DeliverToWriter(q) \/ DeliverEnd(q) \/ SysWriter(q)
         \/ WriterUntouched(q)
<1> USE DEF SysTyped, WriterUntouched
<1>1. CASE UNCHANGED sysvars
  BY <1>1 DEF sysvars, vars, mvars
<1>2. ASSUME NEW p \in Pairs, p # q, DeliverToWriter(p) PROVE WriterUntouched(q)
  BY <1>2 DEF DeliverToWriter, TellWriter, vars, TypeOK, WireTypeOK
<1>3. ASSUME NEW p \in Pairs, DeliverToReader(p) PROVE WriterUntouched(q)
  BY <1>3 DEF DeliverToReader, TellReader, vars
<1>4. ASSUME NEW p \in Pairs, p # q, DeliverEnd(p) PROVE WriterUntouched(q)
  BY <1>4 DEF DeliverEnd, DropWriter, DropReader, mvars, TypeOK
<1>5. ASSUME NEW p \in Pairs, p # q, SysWriter(p) PROVE WriterUntouched(q)
  <2>1. writer'[q] = writer[q] /\ wsock'[q] = wsock[q] /\ wasked'[q] = wasked[q]
    BY <1>5, WriterFrame DEF SysWriter, WriterStep
  <2> QED
    BY <1>5, <2>1 DEF SysWriter, mvars
<1>6. ASSUME NEW p \in Pairs, SysReader(p) PROVE WriterUntouched(q)
  BY <1>6 DEF SysReader, ReaderStep, mvars
<1> QED
  BY <1>1, <1>2, <1>3, <1>4, <1>5, <1>6 DEF SysNext

\* So is a Reader.
LEMMA ReaderTouched ==
  ASSUME SysTyped, [SysNext]_sysvars, NEW q \in Pairs
  PROVE  \/ SysMessenger \/ DeliverToReader(q) \/ DeliverEnd(q) \/ SysReader(q)
         \/ ReaderUntouched(q)
<1> USE DEF SysTyped, ReaderUntouched
<1>1. CASE UNCHANGED sysvars
  BY <1>1 DEF sysvars, vars, mvars
<1>2. ASSUME NEW p \in Pairs, p # q, DeliverToReader(p) PROVE ReaderUntouched(q)
  BY <1>2 DEF DeliverToReader, TellReader, vars, TypeOK, WireTypeOK
<1>3. ASSUME NEW p \in Pairs, DeliverToWriter(p) PROVE ReaderUntouched(q)
  BY <1>3 DEF DeliverToWriter, TellWriter, vars
<1>4. ASSUME NEW p \in Pairs, p # q, DeliverEnd(p) PROVE ReaderUntouched(q)
  BY <1>4 DEF DeliverEnd, DropWriter, DropReader, mvars, TypeOK
<1>5. ASSUME NEW p \in Pairs, p # q, SysReader(p) PROVE ReaderUntouched(q)
  <2>1. reader'[q] = reader[q] /\ rsock'[q] = rsock[q] /\ rasked'[q] = rasked[q]
    BY <1>5, ReaderFrame DEF SysReader, ReaderStep
  <2> QED
    BY <1>5, <2>1 DEF SysReader, mvars
<1>6. ASSUME NEW p \in Pairs, SysWriter(p) PROVE ReaderUntouched(q)
  BY <1>6 DEF SysWriter, WriterStep, mvars
<1> QED
  BY <1>1, <1>2, <1>3, <1>4, <1>5, <1>6 DEF SysNext

\* Where the Messenger goes.
LEMMA GoToIs ==
  ASSUME WireTypeOK, NEW pc, NEW ii, GoTo(pc, ii)
  PROVE  messenger'.pc = pc /\ messenger'.ii = ii /\ messenger'.docs = messenger.docs
BY DEF GoTo, WireTypeOK, MessengerProcess

\* What a loop over the pairs does next.
LEMMA LoopIs ==
  ASSUME WireTypeOK, NEW again, NEW after, Loop(again, after)
  PROVE  /\ messenger.ii \in 1..NRWPAIRS /\ NRWPAIRS \in Nat
         /\ \/ /\ messenger'.pc = again /\ messenger'.ii = messenger.ii + 1
               /\ messenger'.ii \in Pairs
            \/ messenger'.pc = after /\ messenger'.ii = 1 /\ messenger.ii = NRWPAIRS
         /\ messenger'.docs = messenger.docs
<1>1. /\ messenger.ii \in 1..NRWPAIRS /\ NRWPAIRS \in Nat /\ Pairs = 1..NRWPAIRS
      /\ messenger \in MessengerProcess
  BY MessengerAssumption DEF WireTypeOK, MessengerProcess
<1>3. CASE messenger.ii < NRWPAIRS
  <2>1. GoTo(again, messenger.ii + 1) /\ messenger.ii + 1 \in Pairs
    BY <1>1, <1>3 DEF Loop
  <2> QED
    BY <1>1, GoToIs, <2>1
<1>4. CASE ~(messenger.ii < NRWPAIRS)
  <2>1. GoTo(after, 1) /\ messenger.ii = NRWPAIRS
    BY <1>1, <1>4 DEF Loop
  <2> QED
    BY <1>1, GoToIs, <2>1
<1> QED
  BY <1>3, <1>4

\* The Messenger sends a Writer the next command of the script or none.
LEMMA WriterIsSent ==
  ASSUME WireTypeOK, MessengerNext, NEW p \in Pairs, ~WriterExited(p)
  PROVE  /\ ~MessengerAt("dead")
         /\ \/ /\ towriter'[p] = towriter[p]
               /\ ~MessengerAt("dead")' => LastToWriter(p)' = LastToWriter(p)
            \/ \E b \in SentToWriters :
                 /\ towriter'[p] = Append(towriter[p], b) /\ LastToWriter(p)' = b
                 /\ b = CMD_EVENT => LastToWriter(p) = CMD_START
<1> USE DEF MessengerAt, LastToWriter
<1>1. /\ p \in 1..NRWPAIRS /\ NRWPAIRS \in Nat /\ messenger.ii \in 1..NRWPAIRS
      /\ messenger \in MessengerProcess /\ towriter \in [Pairs -> Seq(SentToWriters)]
  BY MessengerAssumption DEF WireTypeOK, MessengerProcess
<1>2. ASSUME GoTo("dead", 1) PROVE messenger'.pc = "dead"
  BY <1>2, GoToIs
<1>3. CASE ReceiveFinish \/ ReceiveSource \/ ReceiveOther
  <2>1. /\ messenger.pc = "select" /\ messenger'.ii = 1 /\ towriter' = towriter
        /\ messenger'.pc \in {"finish", "start_r", "select"}
    BY <1>3 DEF ReceiveFinish, ReceiveSource, ReceiveOther, ReceiveDocument
  <2> QED
    BY <1>1, <2>1
<1>4. CASE FinishWriter
  BY <1>1, <1>2, <1>4, LoopIs DEF FinishWriter, SendToWriter, SentToWriters, CMD_STOP, CMD_EVENT
<1>5. CASE StartReader
  BY <1>1, <1>2, <1>5, GoToIs DEF StartReader, SendToReader
<1>6. CASE StartWriter
  BY <1>1, <1>2, <1>6, LoopIs DEF StartWriter, SendToWriter, SentToWriters, CMD_START, CMD_EVENT
<1>7. CASE Fill \/ Settle
  BY <1>1, <1>7, GoToIs DEF Fill, Settle, Sleep
<1>8. CASE TriggerWriter
  BY <1>1, <1>2, <1>8, LoopIs DEF TriggerWriter, SendToWriter, SentToWriters
<1>9. CASE StopWriter
  BY <1>1, <1>2, <1>9, GoToIs DEF StopWriter, SendToWriter, SentToWriters,
                          CMD_STOP, CMD_EVENT
<1>10. CASE StopReader
  BY <1>1, <1>2, <1>10, LoopIs DEF StopReader, SendToReader
<1>11. CASE Crash
  BY <1>1, <1>2, <1>11 DEF Crash
<1> QED
  BY <1>3, <1>4, <1>5, <1>6, <1>7, <1>8, <1>9, <1>10, <1>11 DEF MessengerNext, MessengerWorks

\* And so with a Reader.
LEMMA ReaderIsSent ==
  ASSUME WireTypeOK, MessengerNext, NEW p \in Pairs, ~ReaderExited(p)
  PROVE  /\ ~MessengerAt("dead")
         /\ \/ /\ toreader'[p] = toreader[p]
               /\ ~MessengerAt("dead")' => LastToReader(p)' = LastToReader(p)
            \/ \E b \in SentToReaders :
                 toreader'[p] = Append(toreader[p], b) /\ LastToReader(p)' = b
<1> USE DEF MessengerAt, LastToReader
<1>1. /\ p \in 1..NRWPAIRS /\ NRWPAIRS \in Nat /\ messenger.ii \in 1..NRWPAIRS
      /\ messenger \in MessengerProcess /\ toreader \in [Pairs -> Seq(SentToReaders)]
  BY MessengerAssumption DEF WireTypeOK, MessengerProcess
<1>2. ASSUME GoTo("dead", 1) PROVE messenger'.pc = "dead"
  BY <1>2, GoToIs
<1>3. CASE ReceiveFinish \/ ReceiveSource \/ ReceiveOther
  <2>1. /\ messenger.pc = "select" /\ messenger'.ii = 1 /\ toreader' = toreader
        /\ messenger'.pc \in {"finish", "start_r", "select"}
    BY <1>3 DEF ReceiveFinish, ReceiveSource, ReceiveOther, ReceiveDocument
  <2> QED
    BY <1>1, <2>1
<1>4. CASE FinishWriter
  BY <1>1, <1>2, <1>4, LoopIs DEF FinishWriter, SendToWriter
<1>5. CASE StartReader
  BY <1>1, <1>2, <1>5, GoToIs DEF StartReader, SendToReader, SentToReaders
<1>6. CASE StartWriter
  BY <1>1, <1>2, <1>6, LoopIs DEF StartWriter, SendToWriter
<1>7. CASE Fill \/ Settle
  BY <1>1, <1>7, GoToIs DEF Fill, Settle, Sleep
<1>8. CASE TriggerWriter
  BY <1>1, <1>2, <1>8, LoopIs DEF TriggerWriter, SendToWriter
<1>9. CASE StopWriter
  BY <1>1, <1>2, <1>9, GoToIs DEF StopWriter, SendToWriter
<1>10. CASE StopReader
  BY <1>1, <1>2, <1>10, LoopIs DEF StopReader, SendToReader, SentToReaders
<1>11. CASE Crash
  BY <1>1, <1>2, <1>11 DEF Crash
<1> QED
  BY <1>3, <1>4, <1>5, <1>6, <1>7, <1>8, <1>9, <1>10, <1>11 DEF MessengerNext, MessengerWorks

\* What is sent are commands, and bytes.
LEMMA SentAreBytes ==
  /\ SentToWriters \subseteq Command /\ SentToReaders \subseteq Command
  /\ Seq(SentToWriters) \subseteq Seq(Byte) /\ Seq(SentToReaders) \subseteq Seq(Byte)
<1>1. SentToWriters \subseteq Command /\ SentToReaders \subseteq Command
  BY DEF SentToWriters, SentToReaders, Command
<1>2. ASSUME NEW S, NEW T, S \subseteq T PROVE Seq(S) \subseteq Seq(T)
  BY <1>2, SeqDef
<1> QED
  BY <1>1, <1>2 DEF Byte

\* What a Writer takes of the Messenger's commands: never to quit, an event only if there is
\* nothing else, and a start if that is the last.
LEMMA WriterTakes ==
  ASSUME NEW s \in Seq(SentToWriters), s # <<>>
  PROVE  /\ WaitForCmd(s) \in SentToWriters \union {CMD_NONE}
         /\ WaitForCmd(s) = CMD_EVENT => Len(s) = 1 /\ s[1] = CMD_EVENT
         /\ Last(s) = CMD_START => WaitForCmd(s) = CMD_START
         /\ LastNonEvent(s) = 0 => Head(s) = CMD_EVENT
<1> DEFINE k == LastNonEvent(s)
<1>1. s \in Seq(Byte) /\ Len(s) \in Nat \ {0}
  BY SentAreBytes
<1>2. k # 0 => k \in 1..Len(s) /\ s[k] \in SentToWriters /\ s[k] # CMD_EVENT
  BY <1>1, LastNonEventRange
<1>3. k # 0 => Decode(s[k]) = s[k]
  BY <1>2, SentAreBytes DEF Decode
<1>4. k # 0 => WaitForCmd(s) = s[k]
  BY <1>1, <1>3, WaitForCmdObeysLastRequest
<1>5. k = 0 => WaitForCmd(s) \in {CMD_EVENT, CMD_NONE} /\ s[1] = CMD_EVENT
  BY <1>1, LastNonEventRange, WaitForCmdObeysLastRequest
<1>6. WaitForCmd(s) \in SentToWriters \union {CMD_NONE}
  BY <1>2, <1>4, <1>5 DEF SentToWriters
<1>7. ASSUME WaitForCmd(s) = CMD_EVENT PROVE Len(s) = 1 /\ s[1] = CMD_EVENT
  <2>1. k = 0
    BY <1>2, <1>4, <1>7
  <2>2. Len(s) = 1
    BY <1>1, <1>7, <2>1, CommandsDiffer DEF WaitForCmd
  <2> QED
    BY <1>5, <2>1, <2>2
<1>8. ASSUME Last(s) = CMD_START PROVE WaitForCmd(s) = CMD_START
  <2>1. s[Len(s)] = CMD_START
    BY <1>8 DEF Last
  <2>2. k # 0 /\ ~(k < Len(s))
    BY <1>1, <2>1, LastNonEventRange, CommandsDiffer
  <2> QED
    BY <1>1, <1>2, <1>4, <2>1, <2>2
<1> QED
  BY <1>1, <1>5, <1>6, <1>7, <1>8

\* What a Reader takes of them is never to quit.
LEMMA ReaderTakes ==
  ASSUME NEW s \in Seq(SentToReaders), s # <<>>
  PROVE  WaitForCmd(s) # CMD_QUIT
<1>1. s \in Seq(SentToWriters)
  BY SeqDef DEF SentToWriters, SentToReaders
<1> QED
  BY <1>1, WriterTakes DEF SentToWriters, CMD_START, CMD_STOP, CMD_EVENT, CMD_NONE, CMD_QUIT

\* What has arrived, one command more, and nothing.
LEMMA ArrivedIs ==
  ASSUME TypeOK, NEW p \in Pairs
  PROVE  /\ wsock[p].bytes \in Seq(Byte) /\ rsock[p].bytes \in Seq(Byte)
         /\ \A b : TellWriter(p, b) => /\ wsock'[p].bytes = Append(wsock[p].bytes, b)
                                       /\ wsock'[p].closed = wsock[p].closed
         /\ \A b : TellReader(p, b) => /\ rsock'[p].bytes = Append(rsock[p].bytes, b)
                                       /\ rsock'[p].closed = rsock[p].closed
         /\ DropWriter(p) => wsock'[p].bytes = wsock[p].bytes
         /\ DropReader(p) => rsock'[p].bytes = rsock[p].bytes
         /\ WriterReads(p) => wsock'[p].bytes = <<>> /\ wsock'[p].closed = wsock[p].closed
         /\ ReaderReads(p) => rsock'[p].bytes = <<>> /\ rsock'[p].closed = rsock[p].closed
BY DEF TypeOK, Connection, TellWriter, TellReader, DropWriter, DropReader, WriterReads,
       ReaderReads, Received, HungUp, Drained

\* A Writer's own step keeps it served.
LEMMA WriterStaysServed ==
  ASSUME TypeOK, NEW p \in Pairs, WriterServed(p), WriterNext(p),
         UNCHANGED <<messenger, wasked>>
  PROVE  WriterServed(p)'
<1> DEFINE s == wsock[p].bytes
<1>0. /\ s \in Seq(SentToWriters) /\ wsock[p] \in Connection /\ writer[p] \in WriterProcess
      /\ <<>> \in Seq(SentToWriters) /\ ~MessengerAt("dead")' <=> ~MessengerAt("dead")
  BY DEF TypeOK, WriterServed, MessengerAt
<1>1. ASSUME UNCHANGED wsock, writer'[p].pc = "flush" => writer'[p].cmd = CMD_EVENT,
             writer[p].cmd # CMD_QUIT => writer'[p].cmd # CMD_QUIT,
             writer'[p].pc = "exited" =>
               ~OpensAndCloses \/ writer[p].pc = "exited" \/ writer[p].cmd = CMD_QUIT
      PROVE  WriterServed(p)'
  BY <1>0, <1>1 DEF WriterServed, WriterExited
<1>2. ASSUME WriterReads(p), Readable(wsock[p]), writer'[p].cmd = WriterCmd(p),
             writer'[p].pc \in {"top", "act"}
      PROVE  WriterServed(p)'
  <2>1. ~wsock[p].closed => WriterCmd(p) # CMD_QUIT
    BY <1>0, <1>2, WriterTakes
       DEF WriterCmd, Readable, SentToWriters, CMD_START, CMD_STOP, CMD_EVENT, CMD_NONE, CMD_QUIT
  <2>2. wsock'[p].bytes = <<>> /\ wsock'[p].closed = wsock[p].closed
    BY <1>2, ArrivedIs
  <2> QED
    BY <1>0, <1>2, <2>1, <2>2 DEF WriterServed, WriterExited
<1> USE DEF WriterExited, WriterAt, WriterBecomes, WriterGoesOn, TypeOK, WriterProcess,
            STATE_STARTED, STATE_STOPPED, CMD_START, CMD_STOP, CMD_QUIT, CMD_EVENT, CMD_NONE
<1>3. CASE WriterWait(p)          BY <1>2, <1>3 DEF WriterWait
<1>4. CASE WriterStart(p)         BY <1>1, <1>4 DEF WriterStart
<1>5. CASE WriterIgnore(p)        BY <1>1, <1>5 DEF WriterIgnore
<1>6. CASE WriterQuitStopped(p)   BY <1>1, <1>6 DEF WriterQuitStopped
<1>7. CASE WriterSelect(p)        BY <1>1, <1>2, <1>7 DEF WriterSelect
<1>8. CASE WriterEvent(p)         BY <1>1, <1>8 DEF WriterEvent
<1>9. CASE WriterFlush(p)         BY <1>1, <1>2, <1>9 DEF WriterFlush
<1>10. CASE WriterStop(p)         BY <1>1, <1>10 DEF WriterStop
<1>11. CASE WriterQuit(p)         BY <1>1, <1>11 DEF WriterQuit
<1>12. CASE WriterReceive(p)      BY <1>1, <1>12 DEF WriterReceive
<1>13. CASE WriterMarkFilled(p)   BY <1>1, <1>13 DEF WriterMarkFilled, WriterServed
<1>14. CASE WriterWrite(p) \/ WriterWriteFails(p)
  BY <1>1, <1>14 DEF WriterWrite, WriterWriteFails
<1>15. CASE WriterFails(p)        BY <1>1, <1>15 DEF WriterFails, OpensAndCloses
<1> QED
  BY <1>3, <1>4, <1>5, <1>6, <1>7, <1>8, <1>9, <1>10, <1>11, <1>12, <1>13, <1>14, <1>15
     DEF WriterNext

\* A Reader's own step keeps it served.
LEMMA ReaderStaysServed ==
  ASSUME TypeOK, NEW p \in Pairs, ReaderServed(p), ReaderNext(p),
         UNCHANGED <<messenger, rasked>>
  PROVE  ReaderServed(p)'
<1> DEFINE s == rsock[p].bytes
<1>0. /\ s \in Seq(SentToReaders) /\ rsock[p] \in Connection /\ reader[p] \in ReaderProcess
      /\ <<>> \in Seq(SentToReaders) /\ ~MessengerAt("dead")' <=> ~MessengerAt("dead")
  BY DEF TypeOK, ReaderServed, MessengerAt
<1>1. ASSUME UNCHANGED rsock, reader[p].cmd # CMD_QUIT => reader'[p].cmd # CMD_QUIT,
             reader'[p].pc = "exited" =>
               ~OpensAndCloses \/ reader[p].pc = "exited" \/ reader[p].cmd = CMD_QUIT
      PROVE  ReaderServed(p)'
  BY <1>0, <1>1 DEF ReaderServed, ReaderExited
<1>2. ASSUME ReaderReads(p), Readable(rsock[p]), reader'[p].cmd = ReaderCmd(p),
             reader'[p].pc \in {"top", "act"}
      PROVE  ReaderServed(p)'
  <2>1. ~rsock[p].closed => ReaderCmd(p) # CMD_QUIT
    BY <1>0, <1>2, ReaderTakes DEF ReaderCmd, Readable
  <2>2. rsock'[p].bytes = <<>> /\ rsock'[p].closed = rsock[p].closed
    BY <1>2, ArrivedIs
  <2> QED
    BY <1>0, <1>2, <2>1, <2>2 DEF ReaderServed, ReaderExited
<1> USE DEF ReaderExited, ReaderAt, ReaderBecomes, TypeOK, ReaderProcess,
            STATE_STARTED, STATE_STOPPED, CMD_START, CMD_STOP, CMD_QUIT, CMD_EVENT, CMD_NONE
<1>3. CASE ReaderWait(p)          BY <1>2, <1>3 DEF ReaderWait
<1>4. CASE ReaderStart(p)         BY <1>1, <1>4 DEF ReaderStart
<1>5. CASE ReaderIgnore(p)        BY <1>1, <1>5 DEF ReaderIgnore
<1>6. CASE ReaderQuitStopped(p)   BY <1>1, <1>6 DEF ReaderQuitStopped
<1>7. CASE ReaderSelect(p)        BY <1>1, <1>2, <1>7 DEF ReaderSelect
<1>8. CASE ReaderStop(p)          BY <1>1, <1>8 DEF ReaderStop
<1>9. CASE ReaderQuit(p)          BY <1>1, <1>9 DEF ReaderQuit
<1>10. CASE ReaderProceed(p)      BY <1>1, <1>10 DEF ReaderProceed
<1>11. CASE ReaderReadPacket(p)   BY <1>1, <1>11 DEF ReaderReadPacket
<1>12. CASE ReaderEnd(p) \/ ReaderReadFails(p)
  BY <1>1, <1>12 DEF ReaderEnd, ReaderReadFails
<1>13. CASE ReaderFails(p)        BY <1>1, <1>13 DEF ReaderFails, OpensAndCloses
<1> QED
  BY <1>3, <1>4, <1>5, <1>6, <1>7, <1>8, <1>9, <1>10, <1>11, <1>12, <1>13 DEF ReaderNext
-----------------------------------------------------------------------------
(* The script is kept. *)

\* The last of a sequence stays the last when the first is taken off.
LEMMA LastOfTail ==
  ASSUME NEW S, NEW t \in Seq(S), t # <<>>
  PROVE  /\ Tail(t) = <<>> => Last(t) = Head(t)
         /\ Tail(t) # <<>> => Last(Tail(t)) = Last(t)
<1> DEFINE u == Tail(t)
<1>1. Len(t) \in Nat \ {0} /\ u \in Seq(S) /\ Len(u) = Len(t) - 1
  OBVIOUS
<1>2. u # <<>> => u[Len(t) - 1] = t[Len(t)]
  BY <1>1
<1> HIDE DEF u
<1>3. u = <<>> <=> Len(u) = 0
  BY <1>1, EmptySeq
<1> QED
  BY <1>1, <1>2, <1>3 DEF u, Last

\* What is asked last with one command more.
LEMMA AskedIs ==
  ASSUME NEW b \in Command, NEW before
  PROVE  LastRequest(<<b>>, before) = IF b = CMD_EVENT THEN before ELSE b
<1> DEFINE s == <<b>>
<1>1. s \in Seq(Byte) /\ Len(s) = 1 /\ s[1] = b
  BY DEF Byte
<1>2. CASE b = CMD_EVENT
  <2>1. LastNonEvent(s) = 0
    BY <1>1, <1>2, LastNonEventIs
  <2> QED
    BY <1>2, <2>1 DEF LastRequest
<1>3. CASE b # CMD_EVENT
  <2> HIDE DEF s
  <2>1. 1 \in 0..Len(s) /\ s[1] # CMD_EVENT /\ \A i \in 1+1..Len(s) : s[i] = CMD_EVENT
    BY <1>1, <1>3
  <2>2. LastNonEvent(s) = 1
    BY <1>1, <2>1, LastNonEventIs
  <2> QED
    BY <1>1, <1>3, <2>2 DEF LastRequest, s
<1> QED
  BY <1>2, <1>3

\* One command more, and one less, of a sequence in which events follow starts.
LEMMA EventsStillFollow ==
  ASSUME NEW s \in Seq(SentToWriters), EventsFollowStarts(s)
  PROVE  /\ EventsFollowStarts(<<>>)
         /\ \A b \in SentToWriters :
              (b = CMD_EVENT /\ s # <<>> => Last(s) = CMD_START) => EventsFollowStarts(Append(s, b))
         /\ s # <<>> => /\ EventsFollowStarts(Tail(s))
                        /\ Tail(s) # <<>> /\ Head(Tail(s)) = CMD_EVENT => Head(s) = CMD_START
<1>1. EventsFollowStarts(<<>>)
  BY DEF EventsFollowStarts
<1>2. ASSUME NEW b \in SentToWriters, b = CMD_EVENT /\ s # <<>> => Last(s) = CMD_START
      PROVE  EventsFollowStarts(Append(s, b))
  BY <1>2 DEF EventsFollowStarts, Last
<1>3. ASSUME s # <<>>
      PROVE  /\ EventsFollowStarts(Tail(s))
             /\ Tail(s) # <<>> /\ Head(Tail(s)) = CMD_EVENT => Head(s) = CMD_START
  BY <1>3 DEF EventsFollowStarts
<1> QED
  BY <1>1, <1>2, <1>3

\* The Messenger sends only as long as it lives.
LEMMA SendsAlive == MessengerNext => ~MessengerAt("dead")
BY DEF MessengerNext, MessengerWorks, ReceiveFinish, ReceiveSource, ReceiveOther, ReceiveDocument,
       FinishWriter, StartReader, StartWriter, Fill, TriggerWriter, Settle, Sleep, StopWriter,
       StopReader, Crash, MessengerAt

\* A step of the Messenger keeps a Writer in the script.
LEMMA SendingKeepsWriter ==
  ASSUME SysTyped, NEW p \in Pairs, WriterScripted(p), SysMessenger
  PROVE  WriterScripted(p)'
<1> DEFINE t == towriter[p]
<1>1. /\ UNCHANGED <<writer, wsock, wasked>> /\ ~MessengerAt("dead")
      /\ t \in Seq(SentToWriters)
  BY SendsAlive DEF SysMessenger, vars, SysTyped, WireTypeOK
<1>2. /\ WriterServed(p)'
      /\ StartsAreObeyed(p) => StartsAreObeyed(p)'
      /\ AwaitsEvent(p) <=> AwaitsEvent(p)'
  BY <1>1 DEF WriterScripted, WriterServed, WriterExited, StartsAreObeyed, WillRecord, AwaitsEvent
<1>3. SUFFICES ASSUME WriterScript(p), ~WriterExited(p) PROVE WriterScript(p)'
  BY <1>1, <1>2 DEF WriterScripted, WriterExited
<1>4. CASE /\ towriter'[p] = t
           /\ ~MessengerAt("dead")' => LastToWriter(p)' = LastToWriter(p)
  BY <1>1, <1>2, <1>3, <1>4 DEF WriterScript
<1>5. ASSUME NEW b \in SentToWriters, towriter'[p] = Append(t, b), LastToWriter(p)' = b,
             b = CMD_EVENT => LastToWriter(p) = CMD_START
      PROVE  WriterScript(p)'
  <2> DEFINE u == towriter'[p]
  <2>1. u # <<>> /\ Last(u) = b /\ Head(u) = IF t = <<>> THEN b ELSE Head(t)
    BY <1>1, <1>5 DEF Last
  <2>2. t # <<>> => Last(t) = LastToWriter(p)
    BY <1>1, <1>3 DEF WriterScript
  <2>3. EventsFollowStarts(u)
    BY <1>1, <1>3, <1>5, <2>2, EventsStillFollow DEF WriterScript
  <2>4. Head(u) = CMD_EVENT => AwaitsEvent(p)'
    BY <1>1, <1>2, <1>3, <1>5, <2>1 DEF WriterScript
  <2>5. EventsFollowStarts(wsock[p].bytes)'
    BY <1>1, <1>3 DEF WriterScript
  <2> QED
    BY <1>1, <1>3, <1>5, <2>1, <2>3, <2>4, <2>5 DEF WriterScript
<1> QED
  BY <1>3, <1>4, <1>5, WriterIsSent DEF SysMessenger, SysTyped

\* A command that arrives keeps it there.
LEMMA DeliveryKeepsWriter ==
  ASSUME SysTyped, NEW p \in Pairs, WriterScripted(p), WriterFollows(p), DeliverToWriter(p)
  PROVE  WriterScripted(p)'
<1> DEFINE t == towriter[p]
           s == wsock[p].bytes
           h == Head(t)
<1>1. /\ t \in Seq(SentToWriters) /\ t # <<>> /\ h \in SentToWriters /\ h \in Command
      /\ towriter'[p] = Tail(t) /\ UNCHANGED messenger
      /\ s \in Seq(SentToWriters) /\ s \in Seq(Byte)
      /\ wasked[p] \in SentToWriters /\ wasked[p] \in Command
  BY SentAreBytes DEF DeliverToWriter, SysTyped, WireTypeOK, WriterScripted, WriterServed
<1>2. CASE WriterExited(p)
  <2>1. UNCHANGED vars
    BY <1>2 DEF DeliverToWriter
  <2> QED
    BY <1>1, <1>2, <2>1 DEF vars, WriterScripted, WriterServed, WriterExited, MessengerAt
<1>3. CASE ~WriterExited(p)
  <2>1. TellWriter(p, h)
    BY <1>3 DEF DeliverToWriter
  <2>2. /\ wsock'[p].bytes = Append(s, h) /\ wsock'[p].closed = wsock[p].closed
        /\ wasked'[p] = IF h = CMD_EVENT THEN wasked[p] ELSE h
        /\ wasked'[p] = LastRequest(<<h>>, wasked[p])
        /\ writer'[p] = writer[p]
    <3>1. wsock'[p].bytes = Append(s, h) /\ wsock'[p].closed = wsock[p].closed
      BY <2>1, ArrivedIs DEF SysTyped
    <3>2. wasked'[p] = LastRequest(<<h>>, wasked[p]) /\ writer'[p] = writer[p]
      BY <2>1 DEF TellWriter, SysTyped, TypeOK
    <3> QED
      BY <1>1, <3>1, <3>2, AskedIs
  <2>3. WriterServed(p)'
    BY <1>1, <2>2 DEF WriterScripted, WriterServed, WriterExited, MessengerAt
  <2>4. StartsAreObeyed(p)'
    <3>1. LastNonEvent(Append(s, h)) = 0 => LastNonEvent(s) = 0 /\ wasked'[p] = wasked[p]
      BY <1>1, <2>2, ArrivalFollows DEF WriterFollows
    <3>2. StartsAreObeyed(p)
      BY <1>3 DEF WriterScripted
    <3> QED
      BY <2>2, <3>1, <3>2 DEF StartsAreObeyed, WillRecord, WriterExited
  <2>5. WriterScript(p)'
    <3>1. /\ WriterScript(p) /\ EventsFollowStarts(s) /\ EventsFollowStarts(t)
          /\ h = CMD_EVENT => AwaitsEvent(p)
      BY <1>1, <1>3 DEF WriterScripted, WriterScript
    <3>2. /\ Append(s, h) # <<>> /\ Last(Append(s, h)) = h
          /\ Head(Append(s, h)) = IF s = <<>> THEN h ELSE Head(s)
      BY <1>1 DEF Last
    <3>3. EventsFollowStarts(Append(s, h))
      BY <1>1, <3>1, EventsStillFollow DEF AwaitsEvent
    <3>4. /\ EventsFollowStarts(Tail(t))
          /\ Tail(t) # <<>> /\ Head(Tail(t)) = CMD_EVENT => h = CMD_START
      BY <1>1, <3>1, EventsStillFollow
    <3>5. h = CMD_START => AwaitsEvent(p)'
      BY <2>2, <3>2, CommandsDiffer DEF AwaitsEvent
    <3>6. Head(Append(s, h)) = CMD_EVENT => writer'[p].cmd # CMD_EVENT
      BY <2>2, <3>1, <3>2 DEF WriterScript, AwaitsEvent
    <3>7. /\ Tail(t) = <<>> => Last(t) = h
          /\ Tail(t) # <<>> => Last(Tail(t)) = Last(t)
      BY <1>1, LastOfTail
    <3>8. LastToWriter(p)' = LastToWriter(p) /\ (MessengerAt("dead")' <=> MessengerAt("dead"))
      BY <1>1 DEF LastToWriter, MessengerAt
    <3>9. ~MessengerAt("dead") => Last(t) = LastToWriter(p)
      BY <1>1, <3>1 DEF WriterScript
    <3>10. ASSUME ~MessengerAt("dead"), Tail(t) = <<>>
           PROVE  /\ wasked'[p] = CMD_START <=> LastToWriter(p) # CMD_STOP
                  /\ LastToWriter(p) = CMD_START => AwaitsEvent(p)'
      <4>1. h = LastToWriter(p)
        BY <3>7, <3>9, <3>10
      <4>2. h = CMD_EVENT => wasked[p] = CMD_START
        BY <3>1 DEF AwaitsEvent
      <4> QED
        BY <1>1, <2>2, <3>5, <4>1, <4>2, CommandsDiffer DEF SentToWriters
    <3> QED
      BY <1>1, <2>2, <3>2, <3>3, <3>4, <3>5, <3>6, <3>7, <3>8, <3>9, <3>10 DEF WriterScript
  <2> QED
    BY <2>3, <2>4, <2>5 DEF WriterScripted
<1> QED
  BY <1>2, <1>3

\* A Writer's own step obeys a start it has taken, and loses none to an event.
LEMMA WriterObeysStarts ==
  ASSUME TypeOK, NEW p \in Pairs, WriterScripted(p), WriterInOrder(p), WriterFollows(p),
         WriterNext(p), wasked'[p] = wasked[p], ~WriterExited(p)'
  PROVE  StartsAreObeyed(p)'
<1> DEFINE s == wsock[p].bytes
           w == wasked[p]
<1>0. /\ s \in Seq(SentToWriters) /\ s \in Seq(Byte) /\ w \in Command /\ w = LastRequest(s, w)
      /\ writer[p] \in WriterProcess /\ wsock[p] \in Connection
  BY SentAreBytes DEF WriterScripted, WriterServed, WriterFollows, TypeOK
<1>1. ASSUME UNCHANGED wsock, ~WriterExited(p), writer[p].cmd # CMD_QUIT,
             WillRecord(p) => WillRecord(p)'
      PROVE  StartsAreObeyed(p)'
  BY <1>1 DEF StartsAreObeyed, WriterScripted
<1>2. ASSUME ~WriterExited(p), writer[p].cmd # CMD_QUIT, Readable(wsock[p]),
             writer'[p].cmd = WriterCmd(p), writer'[p].cmd = CMD_START => WillRecord(p)',
             writer'[p].cmd \in {CMD_EVENT, CMD_NONE} /\ WillRecord(p) /\ s # <<>>
               /\ Head(s) = CMD_EVENT => WillRecord(p)'
      PROVE  StartsAreObeyed(p)'
  <2> SUFFICES ASSUME writer'[p].cmd # CMD_QUIT, w = CMD_START PROVE WillRecord(p)'
    BY DEF StartsAreObeyed
  <2>1. s # <<>>
    BY <1>0, <1>2, WaitForCmdObeysLastRequest DEF WriterCmd
  <2>2. CASE LastNonEvent(s) # 0
    <3>1. WaitForCmd(s) = w
      BY <1>0, <2>2, TakesLastRequest
    <3> QED
      BY <1>2, <3>1 DEF WriterCmd
  <2>3. CASE LastNonEvent(s) = 0
    <3>1. WillRecord(p)
      BY <1>2, <2>3 DEF WriterScripted, StartsAreObeyed
    <3>2. WaitForCmd(s) \in {CMD_EVENT, CMD_NONE} /\ Head(s) = CMD_EVENT
      BY <1>0, <2>1, <2>3, WriterTakes, WaitForCmdObeysLastRequest
    <3> QED
      BY <1>2, <2>1, <3>1, <3>2 DEF WriterCmd
  <2> QED
    BY <2>2, <2>3
<1> USE DEF WillRecord, WriterExited, WriterAt, WriterBecomes, WriterGoesOn, TypeOK, WriterProcess,
            STATE_STARTED, STATE_STOPPED, CMD_START, CMD_STOP, CMD_QUIT, CMD_EVENT, CMD_NONE
<1>3. CASE WriterWait(p)          BY <1>2, <1>3 DEF WriterWait
<1>4. CASE WriterStart(p)         BY <1>1, <1>4 DEF WriterStart
<1>5. CASE WriterIgnore(p)        BY <1>1, <1>5 DEF WriterIgnore
<1>6. CASE WriterQuitStopped(p)   BY <1>6 DEF WriterQuitStopped
<1>7. CASE WriterSelect(p)
  <2>1. writer[p].cmd = CMD_NONE
    BY <1>7 DEF WriterSelect, WriterInOrder, Recording
  <2>2. CASE Readable(wsock[p])
    BY <1>2, <1>7, <2>1, <2>2 DEF WriterSelect
  <2>3. CASE ~Readable(wsock[p])
    BY <1>1, <1>7, <2>1, <2>3 DEF WriterSelect
  <2> QED
    BY <2>2, <2>3
<1>8. CASE WriterEvent(p)         BY <1>1, <1>8 DEF WriterEvent
<1>9. CASE WriterFlush(p)
  <2>1. writer[p].cmd = CMD_EVENT
    BY <1>9 DEF WriterFlush, WriterScripted, WriterServed
  <2>2. ~(s # <<>> /\ Head(s) = CMD_EVENT)
    BY <1>9, <2>1 DEF WriterFlush, WriterScripted, WriterScript
  <2>3. CASE Readable(wsock[p])
    BY <1>2, <1>9, <2>1, <2>2, <2>3 DEF WriterFlush
  <2>4. CASE ~Readable(wsock[p])
    BY <1>1, <1>9, <2>1, <2>4 DEF WriterFlush
  <2> QED
    BY <2>3, <2>4
<1>10. CASE WriterStop(p)         BY <1>1, <1>10 DEF WriterStop
<1>11. CASE WriterQuit(p)         BY <1>11 DEF WriterQuit
<1>12. CASE WriterReceive(p)      BY <1>1, <1>12 DEF WriterReceive
<1>13. CASE WriterMarkFilled(p)
  <2>1. writer[p].cmd = CMD_NONE
    BY <1>13 DEF WriterMarkFilled, WriterInOrder, Recording
  <2> QED
    BY <1>1, <1>13, <2>1 DEF WriterMarkFilled
<1>14. CASE WriterWrite(p) \/ WriterWriteFails(p)
  <2>1. writer[p].cmd = CMD_NONE
    BY <1>14 DEF WriterWrite, WriterWriteFails, WriterInOrder, Recording
  <2> QED
    BY <1>1, <1>14, <2>1 DEF WriterWrite, WriterWriteFails
<1>15. CASE WriterFails(p)        BY <1>15 DEF WriterFails
<1> QED
  BY <1>3, <1>4, <1>5, <1>6, <1>7, <1>8, <1>9, <1>10, <1>11, <1>12, <1>13, <1>14, <1>15
     DEF WriterNext

\* A Writer comes to hold an event only by taking one that is alone on its connection.
LEMMA WriterHolds ==
  ASSUME TypeOK, NEW p \in Pairs, WriterNext(p)
  PROVE  /\ writer'[p].pc # "exited" => writer[p].pc # "exited"
         /\ \/ UNCHANGED wsock /\ (writer'[p].cmd = CMD_EVENT => writer[p].cmd = CMD_EVENT)
            \/ /\ Readable(wsock[p]) /\ WriterReads(p) /\ writer'[p].cmd = WriterCmd(p)
               /\ writer'[p].pc \in {"top", "act"}
<1> USE DEF WriterExited, WriterAt, WriterBecomes, WriterGoesOn, TypeOK, WriterProcess,
            STATE_STARTED, STATE_STOPPED, CMD_START, CMD_STOP, CMD_QUIT, CMD_EVENT, CMD_NONE
<1>1. CASE WriterWait(p)          BY <1>1 DEF WriterWait
<1>2. CASE WriterStart(p)         BY <1>2 DEF WriterStart
<1>3. CASE WriterIgnore(p)        BY <1>3 DEF WriterIgnore
<1>4. CASE WriterQuitStopped(p)   BY <1>4 DEF WriterQuitStopped
<1>5. CASE WriterSelect(p)        BY <1>5 DEF WriterSelect
<1>6. CASE WriterEvent(p)         BY <1>6 DEF WriterEvent
<1>7. CASE WriterFlush(p)         BY <1>7 DEF WriterFlush
<1>8. CASE WriterStop(p)          BY <1>8 DEF WriterStop
<1>9. CASE WriterQuit(p)          BY <1>9 DEF WriterQuit
<1>10. CASE WriterReceive(p)      BY <1>10 DEF WriterReceive
<1>11. CASE WriterMarkFilled(p)   BY <1>11 DEF WriterMarkFilled
<1>12. CASE WriterWrite(p) \/ WriterWriteFails(p)
  BY <1>12 DEF WriterWrite, WriterWriteFails
<1>13. CASE WriterFails(p)        BY <1>13 DEF WriterFails
<1> QED
  BY <1>1, <1>2, <1>3, <1>4, <1>5, <1>6, <1>7, <1>8, <1>9, <1>10, <1>11, <1>12, <1>13
     DEF WriterNext

\* A Writer's own step keeps it in the script.
LEMMA WriterKeepsScript ==
  ASSUME SysTyped, NEW p \in Pairs, WriterScripted(p), WriterInOrder(p), WriterFollows(p),
         SysWriter(p)
  PROVE  WriterScripted(p)'
<1> DEFINE s == wsock[p].bytes
<1>1. /\ WriterNext(p) /\ UNCHANGED <<wasked, mvars>> /\ UNCHANGED <<messenger, wasked>>
      /\ TypeOK /\ UNCHANGED towriter
  BY DEF SysWriter, WriterStep, SysTyped, mvars
<1>2. WriterServed(p)'
  BY <1>1, WriterStaysServed DEF WriterScripted
<1>3. SUFFICES ASSUME ~WriterExited(p)' PROVE WriterScript(p)' /\ StartsAreObeyed(p)'
  BY <1>2 DEF WriterScripted
<1>4. StartsAreObeyed(p)'
  BY <1>1, <1>3, WriterObeysStarts
<1>5. ~WriterExited(p) /\ WriterScript(p) /\ s \in Seq(SentToWriters)
  BY <1>1, <1>3, WriterHolds DEF WriterScripted, WriterExited, WriterServed
<1>6. LastToWriter(p)' = LastToWriter(p) /\ (MessengerAt("dead")' <=> MessengerAt("dead"))
  BY <1>1 DEF LastToWriter, MessengerAt
<1>7. CASE UNCHANGED wsock /\ (writer'[p].cmd = CMD_EVENT => writer[p].cmd = CMD_EVENT)
  <2>1. AwaitsEvent(p) => AwaitsEvent(p)'
    BY <1>1, <1>7 DEF AwaitsEvent
  <2> QED
    BY <1>1, <1>4, <1>5, <1>6, <1>7, <2>1 DEF WriterScript
<1>8. CASE /\ Readable(wsock[p]) /\ WriterReads(p) /\ writer'[p].cmd = WriterCmd(p)
  <2>1. wsock'[p].bytes = <<>>
    BY <1>1, <1>8, ArrivedIs
  <2>2. AwaitsEvent(p) => writer'[p].cmd # CMD_EVENT
    <3>1. CASE s = <<>>
      BY <1>8, <3>1, CommandsDiffer DEF WriterCmd, WaitForCmd
    <3>2. CASE s # <<>>
      BY <1>5, <1>8, <3>2, WriterTakes, CommandsDiffer DEF WriterCmd, AwaitsEvent
    <3> QED
      BY <3>1, <3>2
  <2>3. AwaitsEvent(p) => AwaitsEvent(p)'
    BY <1>1, <2>1, <2>2 DEF AwaitsEvent
  <2>4. EventsFollowStarts(wsock'[p].bytes)
    BY <1>5, <2>1, EventsStillFollow DEF WriterScript
  <2> QED
    BY <1>1, <1>4, <1>5, <1>6, <2>1, <2>3, <2>4 DEF WriterScript
<1> QED
  BY <1>1, <1>7, <1>8, WriterHolds

\* The end of a connection comes after all that was sent, and only a dead Messenger ends one.
LEMMA EndKeepsScripts ==
  ASSUME SysTyped, NEW p \in Pairs, DeliverEnd(p)
  PROVE  /\ WriterScripted(p) => WriterScripted(p)'
         /\ ReaderScripted(p) => ReaderScripted(p)'
<1>1. /\ UNCHANGED <<writer, reader, wasked, rasked, messenger, towriter, toreader>>
      /\ MessengerAt("dead") /\ MessengerAt("dead")' /\ TypeOK
      /\ wsock'[p].bytes = wsock[p].bytes /\ rsock'[p].bytes = rsock[p].bytes
  BY ArrivedIs DEF DeliverEnd, DropWriter, DropReader, mvars, MessengerAt, SysTyped
<1>2. WriterScripted(p) => WriterScripted(p)'
  <2>1. WriterServed(p) => WriterServed(p)'
    BY <1>1 DEF WriterServed
  <2>2. (WriterExited(p)' <=> WriterExited(p)) /\ (AwaitsEvent(p)' <=> AwaitsEvent(p))
    BY <1>1 DEF WriterExited, AwaitsEvent
  <2>3. WriterScript(p) => WriterScript(p)'
    BY <1>1, <2>2 DEF WriterScript
  <2>4. StartsAreObeyed(p) => StartsAreObeyed(p)'
    BY <1>1 DEF StartsAreObeyed, WillRecord, WriterExited
  <2> QED
    BY <2>1, <2>2, <2>3, <2>4 DEF WriterScripted
<1>3. ReaderScripted(p) => ReaderScripted(p)'
  BY <1>1 DEF ReaderScripted, ReaderServed, ReaderScript, ReaderExited
<1> QED
  BY <1>2, <1>3

\* What does not touch a Writer keeps it in the script.
LEMMA UntouchedKeepsWriter ==
  ASSUME NEW p \in Pairs, WriterUntouched(p), WriterScripted(p)
  PROVE  WriterScripted(p)'
<1>1. /\ UNCHANGED messenger
      /\ writer'[p] = writer[p] /\ wsock'[p] = wsock[p] /\ wasked'[p] = wasked[p]
      /\ towriter'[p] = towriter[p]
  BY DEF WriterUntouched
<1>2. /\ (MessengerAt("dead")' <=> MessengerAt("dead")) /\ LastToWriter(p)' = LastToWriter(p)
      /\ (WriterExited(p)' <=> WriterExited(p)) /\ (AwaitsEvent(p)' <=> AwaitsEvent(p))
  BY <1>1 DEF MessengerAt, LastToWriter, WriterExited, AwaitsEvent
<1>3. (WriterServed(p) => WriterServed(p)') /\ (StartsAreObeyed(p) => StartsAreObeyed(p)')
  BY <1>1, <1>2 DEF WriterServed, StartsAreObeyed, WillRecord, MessengerAt, WriterExited
<1>4. WriterScript(p) => WriterScript(p)'
  BY <1>1, <1>2 DEF WriterScript
<1> QED
  BY <1>2, <1>3, <1>4 DEF WriterScripted

\* Every step keeps a Reader in the script: it is sent a start and a stop in turn.
LEMMA StepKeepsReader ==
  ASSUME SysTyped, [SysNext]_sysvars, NEW p \in Pairs, ReaderScripted(p)
  PROVE  ReaderScripted(p)'
<1> DEFINE t == toreader[p]
<1>0. TypeOK /\ t \in Seq(SentToReaders) /\ ReaderServed(p)
  BY DEF SysTyped, WireTypeOK, ReaderScripted
<1>1. CASE SysMessenger
  <2>1. UNCHANGED <<reader, rsock, rasked>> /\ MessengerNext /\ ~MessengerAt("dead")
    BY <1>1, SendsAlive DEF SysMessenger, vars
  <2>2. ReaderServed(p)'
    BY <1>0, <2>1 DEF ReaderServed, ReaderExited
  <2>3. SUFFICES ASSUME ~ReaderExited(p), ReaderScript(p) PROVE ReaderScript(p)'
    BY <2>1, <2>2 DEF ReaderScripted, ReaderExited
  <2>4. CASE t = toreader'[p] /\ (~MessengerAt("dead")' => LastToReader(p)' = LastToReader(p))
    BY <2>1, <2>3, <2>4 DEF ReaderScript
  <2>5. ASSUME NEW b \in SentToReaders, toreader'[p] = Append(t, b), LastToReader(p)' = b
        PROVE  ReaderScript(p)'
    <3>1. Append(t, b) # <<>> /\ Last(Append(t, b)) = b
      BY <1>0 DEF Last
    <3> QED
      BY <2>5, <3>1 DEF ReaderScript
  <2> QED
    BY <2>1, <2>3, <2>4, <2>5, ReaderIsSent DEF SysTyped
<1>2. CASE DeliverToReader(p)
  <2> DEFINE h == Head(t)
  <2>1. t # <<>> /\ toreader'[p] = Tail(t) /\ UNCHANGED messenger /\ h \in SentToReaders
    BY <1>0, <1>2 DEF DeliverToReader, SysTyped, WireTypeOK
  <2>2. LastToReader(p)' = LastToReader(p) /\ (MessengerAt("dead")' <=> MessengerAt("dead"))
    BY <2>1 DEF LastToReader, MessengerAt
  <2>3. CASE ReaderExited(p)
    <3>1. UNCHANGED vars
      BY <1>2, <2>3 DEF DeliverToReader
    <3> QED
      BY <1>0, <2>2, <2>3, <3>1 DEF vars, ReaderScripted, ReaderServed, ReaderExited
  <2>4. CASE ~ReaderExited(p)
    <3>1. TellReader(p, h)
      BY <1>2, <2>4 DEF DeliverToReader
    <3>2. h \in Command /\ h # CMD_EVENT
      BY <2>1 DEF SentToReaders, Command, CMD_START, CMD_STOP, CMD_EVENT
    <3>3. rasked'[p] = h
      <4>1. rasked'[p] = LastRequest(<<h>>, rasked[p])
        BY <1>0, <3>1 DEF TellReader, TypeOK
      <4> QED
        BY <3>2, <4>1, AskedIs
    <3>4. /\ rsock'[p].bytes = Append(rsock[p].bytes, h) /\ rsock'[p].closed = rsock[p].closed
          /\ UNCHANGED reader
      BY <1>0, <3>1, ArrivedIs DEF TellReader
    <3>5. ReaderServed(p)'
      BY <1>0, <2>1, <2>2, <3>3, <3>4 DEF ReaderServed, ReaderExited
    <3>6. /\ Tail(t) = <<>> => Last(t) = h
          /\ Tail(t) # <<>> => Last(Tail(t)) = Last(t)
      BY <1>0, <2>1, LastOfTail
    <3>7. ReaderScript(p)
      BY <2>4 DEF ReaderScripted
    <3> QED
      BY <2>1, <2>2, <3>3, <3>5, <3>6, <3>7 DEF ReaderScripted, ReaderScript
  <2> QED
    BY <2>3, <2>4
<1>3. CASE DeliverEnd(p)
  BY <1>3, EndKeepsScripts
<1>4. CASE SysReader(p)
  <2>1. ReaderNext(p) /\ UNCHANGED <<messenger, rasked, toreader>>
    BY <1>4 DEF SysReader, ReaderStep, mvars
  <2>2. ReaderServed(p)'
    BY <1>0, <2>1, ReaderStaysServed
  <2>3. ReaderScript(p) => ReaderScript(p)'
    BY <2>1 DEF ReaderScript, LastToReader, MessengerAt
  <2>4. ReaderExited(p) => ReaderExited(p)'
    BY <2>1 DEF ReaderExited, ReaderNext, ReaderWait, ReaderStart, ReaderIgnore,
                ReaderQuitStopped, ReaderSelect, ReaderStop, ReaderQuit, ReaderProceed,
                ReaderReadPacket, ReaderEnd, ReaderReadFails, ReaderFails, ReaderAt
  <2> QED
    BY <2>2, <2>3, <2>4 DEF ReaderScripted
<1>5. CASE ReaderUntouched(p)
  BY <1>5 DEF ReaderUntouched, ReaderScripted, ReaderServed, ReaderScript, ReaderExited,
              LastToReader, MessengerAt
<1> QED
  BY <1>1, <1>2, <1>3, <1>4, <1>5, ReaderTouched

\* Triggers and dumps are counted.
LEMMA Counted == SysSpec => [](dumps \in [Pairs -> Nat] /\ eventlog \in [Pairs -> Nat])
<1> DEFINE Inv == dumps \in [Pairs -> Nat] /\ eventlog \in [Pairs -> Nat]
<1>1. SysInit => Inv
  BY DEF SysInit, MessengerInit
<1>2. WireTypeOK /\ Inv /\ [SysNext]_sysvars => Inv'
  <2> SUFFICES ASSUME WireTypeOK, Inv, [SysNext]_sysvars PROVE Inv'
    OBVIOUS
  <2>1. CASE SysMessenger
    <3>1. messenger.ii \in Pairs
      BY DEF WireTypeOK, MessengerProcess
    <3>2. CASE TriggerWriter
      BY <2>1, <3>1, <3>2 DEF SysMessenger, TriggerWriter
    <3>3. CASE UNCHANGED eventlog
      BY <2>1, <3>3 DEF SysMessenger
    <3> QED
      BY <2>1, <3>2, <3>3
         DEF SysMessenger, MessengerNext, MessengerWorks, ReceiveFinish, ReceiveSource,
             ReceiveOther, ReceiveDocument, FinishWriter, StartReader, StartWriter, Fill,
             Settle, Sleep, StopWriter, StopReader, Crash
  <2>2. ASSUME NEW p \in Pairs, SysWriter(p) PROVE Inv'
    BY <2>2 DEF SysWriter, mvars
  <2>3. ASSUME UNCHANGED <<dumps, eventlog>> PROVE Inv'
    BY <2>3
  <2> QED
    BY <2>1, <2>2, <2>3
       DEF SysNext, sysvars, mvars, DeliverToWriter, DeliverToReader, DeliverEnd, SysReader
<1> QED
  BY <1>1, <1>2, WireTypeCorrect, PTL DEF SysSpec

Scripted == \A p \in Pairs : WriterScripted(p) /\ ReaderScripted(p)

\* What holds of the system because its Messenger is a client of Capture.
Orderly == /\ SysTyped
           /\ \A p \in Pairs : /\ WriterInOrder(p) /\ ReaderInOrder(p)
                               /\ WriterFollows(p) /\ ReaderFollows(p)

LEMMA SystemOrderly == ClientIsMessenger => (SysSpec => []Orderly)
<1> SUFFICES ASSUME ClientIsMessenger PROVE SysSpec => []Orderly
  OBVIOUS
<1>1. OnlyCommands
  BY DEF OnlyCommands, ClientIsMessenger, SentToWriters, SentToReaders, Command
<1>2. SysSpec => Spec
  BY Implementation DEF ImplementsCapture
<1>3. SysSpec => []FollowsRequests
  BY <1>1, <1>2, RequestsFollowed, PTL
<1>4. /\ TypeOK /\ WireTypeOK /\ dumps \in [Pairs -> Nat] /\ eventlog \in [Pairs -> Nat]
      /\ BlockDiscipline /\ NoStaleCommand /\ FollowsRequests
      => Orderly
  BY OrderIs DEF Orderly, SysTyped, FollowsRequests, WriterFollows, ReaderFollows
<1> QED
  BY <1>2, <1>3, <1>4, TypeCorrect, InOrder, WireTypeCorrect, Counted, PTL

\* Every process of the system is in the script, at any moment: what it has been asked, has
\* on its connection and has under way ends as the Messenger's place in the script says.
THEOREM AlwaysScripted == ClientIsMessenger => (SysSpec => []Scripted)
<1> SUFFICES ASSUME ClientIsMessenger PROVE SysSpec => []Scripted
  OBVIOUS
<1>1. SysInit => Scripted
  <2> SUFFICES ASSUME SysInit, NEW p \in Pairs PROVE WriterScripted(p) /\ ReaderScripted(p)
    BY DEF Scripted
  <2> USE DEF SysInit, Init, WriterInit, ReaderInit, MessengerInit, NewConnection, MessengerAt,
              CMD_START, CMD_STOP, CMD_QUIT, CMD_EVENT, CMD_NONE
  <2>1. WriterServed(p) /\ ReaderServed(p)
    <3>1. <<>> \in Seq(SentToWriters) /\ <<>> \in Seq(SentToReaders)
      OBVIOUS
    <3>2. CMD_STOP \in SentToWriters /\ CMD_STOP \in SentToReaders
      BY DEF SentToWriters, SentToReaders
    <3>3. /\ wsock[p].bytes = <<>> /\ ~wsock[p].closed /\ wasked[p] = CMD_STOP
          /\ rsock[p].bytes = <<>> /\ ~rsock[p].closed /\ rasked[p] = CMD_STOP
          /\ writer[p].pc = "top" /\ writer[p].cmd = CMD_NONE
          /\ reader[p].pc = "top" /\ reader[p].cmd = CMD_NONE
      OBVIOUS
    <3> QED
      BY <3>1, <3>2, <3>3 DEF WriterServed, ReaderServed, WriterExited, ReaderExited
  <2>2. WriterScript(p)
    BY DEF WriterScript, EventsFollowStarts, LastToWriter
  <2>3. StartsAreObeyed(p) /\ ReaderScript(p)
    BY DEF StartsAreObeyed, ReaderScript, LastToReader
  <2> QED
    BY <2>1, <2>2, <2>3 DEF WriterScripted, ReaderScripted
<1>2. Orderly /\ Scripted /\ [SysNext]_sysvars => Scripted'
  <2> SUFFICES ASSUME Orderly, Scripted, [SysNext]_sysvars, NEW p \in Pairs
               PROVE  WriterScripted(p)' /\ ReaderScripted(p)'
    BY DEF Scripted
  <2>1. SysTyped /\ WriterScripted(p) /\ ReaderScripted(p) /\ WriterInOrder(p) /\ WriterFollows(p)
    BY DEF Orderly, Scripted
  <2>2. ReaderScripted(p)'
    BY <2>1, StepKeepsReader
  <2>3. CASE SysMessenger
    BY <2>1, <2>2, <2>3, SendingKeepsWriter
  <2>4. CASE DeliverToWriter(p)
    BY <2>1, <2>2, <2>4, DeliveryKeepsWriter
  <2>5. CASE DeliverEnd(p)
    BY <2>1, <2>2, <2>5, EndKeepsScripts
  <2>6. CASE SysWriter(p)
    BY <2>1, <2>2, <2>6, WriterKeepsScript
  <2>7. CASE WriterUntouched(p)
    BY <2>1, <2>2, <2>7, UntouchedKeepsWriter
  <2> QED
    BY <2>1, <2>3, <2>4, <2>5, <2>6, <2>7, WriterTouched
<1> QED
  BY <1>1, <1>2, SystemOrderly, PTL DEF SysSpec

\* A Writer of the system with no command on its way is started exactly if it was asked last
\* to start: the events between, the dumps and the restarts after them change nothing.
THEOREM WritersObey == ClientIsMessenger => (SysSpec => []WriterObeys)
<1> SUFFICES ASSUME ClientIsMessenger PROVE SysSpec => []WriterObeys
  OBVIOUS
<1>1. Orderly /\ Scripted => WriterObeys
  <2> SUFFICES ASSUME Orderly, Scripted, NEW p \in Pairs, WriterAtRest(p)
               PROVE  writer[p].state = STATE_STARTED <=> wasked[p] = CMD_START
    BY DEF WriterObeys
  <2>1. /\ WriterFollows(p) /\ StartsAreObeyed(p) /\ LastNonEvent(wsock[p].bytes) = 0
        /\ ~WriterExited(p) /\ writer[p].cmd = CMD_NONE /\ writer[p].pc = "top"
    BY EmptyHasNoRequest DEF Orderly, Scripted, WriterScripted, WriterAtRest, WriterExited
  <2> QED
    BY <2>1 DEF WriterFollows, StartsAreObeyed, WillRecord, CMD_NONE, CMD_START, CMD_STOP,
                CMD_QUIT, STATE_STARTED, STATE_STOPPED
<1> QED
  BY <1>1, SystemOrderly, AlwaysScripted, PTL

\* When the Messenger waits for a document and all it has sent has been taken up, all data
\* blocks are closed on both sides, with any number of pairs.
THEOREM IdleIsQuiet == ClientIsMessenger => (SysSpec => []QuietWhenIdle)
<1> SUFFICES ASSUME ClientIsMessenger PROVE SysSpec => []QuietWhenIdle
  OBVIOUS
<1>1. Orderly /\ Scripted /\ WriterObeys /\ ReaderObeys => QuietWhenIdle
  <2> SUFFICES ASSUME Orderly, Scripted, WriterObeys, ReaderObeys, NEW p \in Pairs,
                      MessengerAt("select"), towriter[p] = <<>>, WriterAtRest(p),
                      toreader[p] = <<>>, ReaderAtRest(p)
               PROVE  ~ring[p].writing /\ ~ring[p].reading
    BY DEF QuietWhenIdle
  <2>1. ~WriterExited(p) /\ ~ReaderExited(p) /\ ~MessengerAt("dead")
    BY DEF WriterAtRest, WriterExited, ReaderAtRest, ReaderExited, MessengerAt
  <2>2. wasked[p] # CMD_START /\ rasked[p] # CMD_START
    BY <2>1 DEF Scripted, WriterScripted, ReaderScripted, WriterScript, ReaderScript,
                LastToWriter, LastToReader, MessengerAt, CMD_START, CMD_STOP
  <2> QED
    BY <2>1, <2>2 DEF Orderly, WriterInOrder, ReaderInOrder, WriterObeys, ReaderObeys
<1> QED
  BY <1>1, SystemOrderly, AlwaysScripted, WritersObey, SystemSafe, PTL

\* While the Messenger lives and the data blocks work, no process exits.
THEOREM ProcessesStay == ClientIsMessenger => (SysSpec => []NobodyQuits)
<1> SUFFICES ASSUME ClientIsMessenger PROVE SysSpec => []NobodyQuits
  OBVIOUS
<1>1. Scripted => NobodyQuits
  BY DEF Scripted, WriterScripted, ReaderScripted, WriterServed, ReaderServed, NobodyQuits
<1> QED
  BY <1>1, AlwaysScripted, PTL
-----------------------------------------------------------------------------
(* Events are obeyed at most once. *)

\* The events in a sequence with one command more and with one less.
LEMMA EventCount ==
  ASSUME NEW s \in Seq(SentToWriters)
  PROVE  /\ Cardinality(Events(s)) \in Nat
         /\ s = <<>> => Cardinality(Events(s)) = 0
         /\ s = <<CMD_EVENT>> => Cardinality(Events(s)) = 1
         /\ \A b \in SentToWriters :
              Cardinality(Events(Append(s, b))) =
                Cardinality(Events(s)) + (IF b = CMD_EVENT THEN 1 ELSE 0)
         /\ s # <<>> => Cardinality(Events(Tail(s))) + (IF Head(s) = CMD_EVENT THEN 1 ELSE 0)
                          <= Cardinality(Events(s))
<1>1. \A t \in Seq(SentToWriters) : IsFiniteSet(Events(t)) /\ Cardinality(Events(t)) \in Nat
  <2> TAKE t \in Seq(SentToWriters)
  <2>1. IsFiniteSet(1..Len(t)) /\ Events(t) \in SUBSET (1..Len(t))
    BY FS_Interval DEF Events
  <2> QED
    BY <2>1, FS_Subset, FS_CardinalityType
<1>2. s = <<>> => Cardinality(Events(s)) = 0
  <2>1. s = <<>> => Events(s) = {}
    BY DEF Events
  <2> QED
    BY <2>1, FS_EmptySet
<1>3. s = <<CMD_EVENT>> => Cardinality(Events(s)) = 1
  <2>1. s = <<CMD_EVENT>> => Events(s) = {1}
    BY DEF Events
  <2> QED
    BY <2>1, FS_Singleton
<1>4. ASSUME NEW b \in SentToWriters
      PROVE  Cardinality(Events(Append(s, b))) =
                Cardinality(Events(s)) + (IF b = CMD_EVENT THEN 1 ELSE 0)
  <2>1. Len(s) + 1 \notin Events(s)
    BY DEF Events
  <2>2. b = CMD_EVENT => Events(Append(s, b)) = Events(s) \union {Len(s) + 1}
    BY DEF Events
  <2>3. b # CMD_EVENT => Events(Append(s, b)) = Events(s)
    BY DEF Events
  <2> QED
    BY <1>1, <2>1, <2>2, <2>3, FS_AddElement
<1>5. ASSUME s # <<>>
      PROVE  Cardinality(Events(Tail(s))) + (IF Head(s) = CMD_EVENT THEN 1 ELSE 0)
               <= Cardinality(Events(s))
  <2> DEFINE A == Events(Tail(s))
             B == Events(s) \ {1}
             f == [i \in A |-> i + 1]
  <2>1. \A i \in A : i \in Nat /\ i + 1 \in B
    BY <1>5 DEF Events
  <2>2. f \in Injection(A, B)
    BY <2>1 DEF Injection, IsInjective
  <2>3. IsFiniteSet(B) /\ Cardinality(B) = IF 1 \in Events(s) THEN Cardinality(Events(s)) - 1
                                                               ELSE Cardinality(Events(s))
    BY <1>1, FS_RemoveElement
  <2>4. Cardinality(A) <= Cardinality(B)
    BY <2>2, <2>3, FS_Injection
  <2>5. 1 \in Events(s) <=> Head(s) = CMD_EVENT
    BY <1>5 DEF Events
  <2>6. Cardinality(A) \in Nat /\ Cardinality(Events(s)) \in Nat
    <3>1. Tail(s) \in Seq(SentToWriters)
      BY <1>5
    <3> QED
      BY <1>1, <3>1
  <2> HIDE DEF A, B
  <2> QED
    BY <2>3, <2>4, <2>5, <2>6 DEF A
<1> QED
  BY <1>1, <1>2, <1>3, <1>4, <1>5

\* What a Writer's own step does to the event it holds: it takes one off its connection, dumps,
\* or neither.
LEMMA WriterDumpsHeld ==
  ASSUME TypeOK, NEW p \in Pairs, WriterServed(p), WriterNext(p)
  PROVE  \/ UNCHANGED wsock /\ (EventHeld(p)' => EventHeld(p)) /\ ~Dumps(p)
         \/ UNCHANGED wsock /\ EventHeld(p) /\ ~EventHeld(p)' /\ Dumps(p)
         \/ /\ Readable(wsock[p]) /\ WriterReads(p) /\ writer'[p].cmd = WriterCmd(p)
            /\ ~Dumps(p)
<1> USE DEF WriterExited, WriterAt, WriterBecomes, WriterGoesOn, TypeOK,
            WriterProcess, EventHeld, Dumps,
            STATE_STARTED, STATE_STOPPED, CMD_START, CMD_STOP, CMD_QUIT, CMD_EVENT, CMD_NONE
<1>1. CASE WriterWait(p)          BY <1>1 DEF WriterWait
<1>2. CASE WriterStart(p)         BY <1>2 DEF WriterStart
<1>3. CASE WriterIgnore(p)        BY <1>3 DEF WriterIgnore
<1>4. CASE WriterQuitStopped(p)   BY <1>4 DEF WriterQuitStopped
<1>5. CASE WriterSelect(p)        BY <1>5 DEF WriterSelect
<1>6. CASE WriterEvent(p)         BY <1>6 DEF WriterEvent
<1>7. CASE WriterFlush(p)         BY <1>7 DEF WriterFlush
<1>8. CASE WriterStop(p)          BY <1>8 DEF WriterStop
<1>9. CASE WriterQuit(p)          BY <1>9 DEF WriterQuit
<1>10. CASE WriterReceive(p)      BY <1>10 DEF WriterReceive
<1>11. CASE WriterMarkFilled(p)   BY <1>11 DEF WriterMarkFilled
<1>12. CASE WriterWrite(p) \/ WriterWriteFails(p)
  BY <1>12 DEF WriterWrite, WriterWriteFails
<1>13. CASE WriterFails(p)        BY <1>13 DEF WriterFails
<1> QED
  BY <1>1, <1>2, <1>3, <1>4, <1>5, <1>6, <1>7, <1>8, <1>9, <1>10, <1>11, <1>12, <1>13
     DEF WriterNext

\* A step of the Messenger logs every event that it sends.
LEMMA TriggersAreLogged ==
  ASSUME WireTypeOK, eventlog \in [Pairs -> Nat], MessengerNext, NEW p \in Pairs
  PROVE  \/ towriter'[p] = towriter[p] /\ eventlog'[p] \in {eventlog[p], eventlog[p] + 1}
         \/ \E b \in SentToWriters :
              /\ towriter'[p] = Append(towriter[p], b)
              /\ eventlog'[p] = eventlog[p] + (IF b = CMD_EVENT THEN 1 ELSE 0)
<1> DEFINE Logged == \E b \in SentToWriters :
                        /\ towriter'[p] = Append(towriter[p], b)
                        /\ eventlog'[p] = eventlog[p] + (IF b = CMD_EVENT THEN 1 ELSE 0)
           Sends(b) == \/ UNCHANGED towriter
                       \/ towriter' = [towriter EXCEPT ![messenger.ii] = Append(@, b)]
<1>1. messenger.ii \in Pairs /\ eventlog[p] \in Nat /\ towriter \in [Pairs -> Seq(SentToWriters)]
  BY DEF WireTypeOK, MessengerProcess
<1>2. ASSUME NEW b \in SentToWriters \ {CMD_EVENT}, UNCHANGED eventlog, Sends(b)
      PROVE  (towriter'[p] = towriter[p] /\ eventlog'[p] = eventlog[p]) \/ Logged
  <2>1. towriter'[p] = towriter[p] \/ towriter'[p] = Append(towriter[p], b)
    BY <1>1, <1>2
  <2>2. eventlog'[p] = eventlog[p] /\ eventlog'[p] = eventlog[p] + (IF b = CMD_EVENT THEN 1 ELSE 0)
    BY <1>1, <1>2
  <2> QED
    BY <2>1, <2>2
<1>3. CASE UNCHANGED <<towriter, eventlog>>
  BY <1>3
<1>4. CMD_STOP \in SentToWriters \ {CMD_EVENT} /\ CMD_START \in SentToWriters \ {CMD_EVENT}
  BY DEF SentToWriters, CMD_STOP, CMD_START, CMD_EVENT
<1>5. CASE FinishWriter
  <2>1. UNCHANGED eventlog /\ Sends(CMD_STOP)
    BY <1>5 DEF FinishWriter, SendToWriter
  <2> QED
    BY <1>2, <1>4, <2>1
<1>6. CASE StartWriter
  <2>1. UNCHANGED eventlog /\ Sends(CMD_START)
    BY <1>6 DEF StartWriter, SendToWriter
  <2> QED
    BY <1>2, <1>4, <2>1
<1>7. CASE StopWriter
  <2>1. UNCHANGED eventlog /\ Sends(CMD_STOP)
    BY <1>7 DEF StopWriter, SendToWriter
  <2> QED
    BY <1>2, <1>4, <2>1
<1>8. CASE TriggerWriter
  <2>1. eventlog' = eventlog \/ eventlog' = [eventlog EXCEPT ![messenger.ii] = @ + 1]
    BY <1>8 DEF TriggerWriter
  <2>2. CASE p # messenger.ii
    BY <1>1, <1>8, <2>1, <2>2 DEF TriggerWriter, SendToWriter
  <2>3. CASE p = messenger.ii /\ WriterExited(p)
    BY <1>1, <1>8, <2>1, <2>3 DEF TriggerWriter, SendToWriter
  <2>4. CASE p = messenger.ii /\ ~WriterExited(p)
    <3>1. towriter'[p] = Append(towriter[p], CMD_EVENT) /\ eventlog'[p] = eventlog[p] + 1
      BY <1>1, <1>8, <2>4 DEF TriggerWriter, SendToWriter
    <3> QED
      BY <3>1 DEF SentToWriters
  <2> QED
    BY <2>2, <2>3, <2>4
<1> QED
  BY <1>1, <1>3, <1>5, <1>6, <1>7, <1>8
     DEF MessengerNext, MessengerWorks, ReceiveFinish, ReceiveSource, ReceiveOther,
         ReceiveDocument, StartReader, SendToReader, Fill, Settle, Sleep, StopReader, Crash

\* It triggers a Writer once for a document and then not before the next one.
LEMMA TriggersArePaced ==
  ASSUME WireTypeOK, eventlog \in [Pairs -> Nat], MessengerNext, NEW p \in Pairs,
         OneTriggerPerDocument(p)
  PROVE  OneTriggerPerDocument(p)'
<1> USE DEF OneTriggerPerDocument, ToBeTriggered
<1>1. /\ messenger.ii \in 1..NRWPAIRS /\ eventlog[p] \in Nat /\ messenger.docs \in Nat
      /\ p \in 1..NRWPAIRS /\ NRWPAIRS \in Nat /\ messenger.ii \in Pairs
  BY MessengerAssumption DEF WireTypeOK, MessengerProcess
<1>2. CASE ReceiveFinish \/ ReceiveSource \/ ReceiveOther
  <2>1. /\ messenger.pc = "select" /\ messenger'.docs = messenger.docs + 1
        /\ eventlog' = eventlog
    BY <1>2 DEF ReceiveFinish, ReceiveSource, ReceiveOther, ReceiveDocument, MessengerAt
  <2> QED
    BY <1>1, <2>1
<1>3. ASSUME UNCHANGED eventlog, messenger'.docs = messenger.docs,
             messenger'.pc \in {"start_r", "start_w", "fill", "trigger"} =>
               messenger.pc \in {"start_r", "start_w", "fill"}
      PROVE  OneTriggerPerDocument(p)'
  BY <1>1, <1>3, MessengerAssumption
<1>4. ASSUME GoTo("dead", 1) PROVE messenger'.pc = "dead" /\ messenger'.docs = messenger.docs
  BY <1>4, GoToIs
<1>5. CASE FinishWriter
  BY <1>3, <1>4, <1>5, LoopIs DEF FinishWriter, SendToWriter, MessengerAt
<1>6. CASE StartReader
  BY <1>3, <1>4, <1>6, GoToIs DEF StartReader, SendToReader, MessengerAt
<1>7. CASE StartWriter
  BY <1>3, <1>4, <1>7, LoopIs DEF StartWriter, SendToWriter, MessengerAt
<1>8. CASE Fill \/ Settle
  BY <1>3, <1>8, GoToIs DEF Fill, Settle, Sleep, MessengerAt
<1>9. CASE StopWriter
  BY <1>3, <1>4, <1>9, GoToIs DEF StopWriter, SendToWriter, MessengerAt
<1>10. CASE StopReader
  BY <1>3, <1>4, <1>10, LoopIs DEF StopReader, SendToReader, MessengerAt
<1>11. CASE Crash
  BY <1>3, <1>4, <1>11 DEF Crash
<1>12. CASE TriggerWriter
  <2>1. messenger.pc = "trigger" /\ (Loop("trigger", "settle") \/ GoTo("dead", 1))
    BY <1>12 DEF TriggerWriter, SendToWriter, MessengerAt
  <2>2. eventlog'[p] = eventlog[p] \/ (eventlog'[p] = eventlog[p] + 1 /\ messenger.ii = p
                                        /\ messenger'.pc # "dead")
    BY <1>1, <1>12 DEF TriggerWriter
  <2>3. CASE GoTo("dead", 1)
    BY <1>1, <1>4, <2>1, <2>2, <2>3
  <2>4. CASE Loop("trigger", "settle")
    BY <1>1, <2>1, <2>2, <2>4, LoopIs
  <2> QED
    BY <2>1, <2>3, <2>4
<1> QED
  BY <1>2, <1>5, <1>6, <1>7, <1>8, <1>9, <1>10, <1>11, <1>12 DEF MessengerNext, MessengerWorks

\* No step makes an event of nothing: it is logged when it is sent, then it is under way,
\* then on the Writer's connection, then held, then dumped.
LEMMA EventsStayAccounted ==
  ASSUME SysTyped, [SysNext]_sysvars, NEW p \in Pairs, WriterServed(p), EventsAccounted(p)
  PROVE  EventsAccounted(p)'
<1> DEFINE s == wsock[p].bytes
           t == towriter[p]
           N(u) == Cardinality(Events(u))
           held == IF EventHeld(p) THEN 1 ELSE 0
<1>1. /\ s \in Seq(SentToWriters) /\ t \in Seq(SentToWriters) /\ TypeOK /\ WireTypeOK
      /\ dumps[p] \in Nat /\ eventlog[p] \in Nat /\ held \in {0, 1}
      /\ eventlog \in [Pairs -> Nat] /\ dumps \in [Pairs -> Nat]
  BY DEF SysTyped, WireTypeOK, WriterServed
<1>2. \A u \in Seq(SentToWriters) : N(u) \in Nat
  BY EventCount
<1>3. N(s) \in Nat /\ N(t) \in Nat /\ N(<<>>) = 0
  <2>1. <<>> \in Seq(SentToWriters)
    OBVIOUS
  <2> QED
    BY <1>1, <1>2, <2>1, EventCount
<1>4. dumps[p] + N(s) + N(t) + held <= eventlog[p]
  BY DEF EventsAccounted
<1>5. SUFFICES dumps'[p] + N(wsock'[p].bytes) + N(towriter'[p]) + held' <= eventlog'[p]
  BY DEF EventsAccounted
<1> DEFINE Goal == dumps'[p] + N(wsock'[p].bytes) + N(towriter'[p]) + held' <= eventlog'[p]
<1>6. CASE SysMessenger
  <2>1. wsock' = wsock /\ dumps' = dumps /\ held' = held /\ MessengerNext
    BY <1>6 DEF SysMessenger, vars, EventHeld
  <2>2. CASE towriter'[p] = t /\ eventlog'[p] \in {eventlog[p], eventlog[p] + 1}
    BY <1>1, <1>3, <1>4, <2>1, <2>2
  <2>3. ASSUME NEW b \in SentToWriters, towriter'[p] = Append(t, b),
               eventlog'[p] = eventlog[p] + (IF b = CMD_EVENT THEN 1 ELSE 0)
        PROVE  Goal
    <3>1. N(towriter'[p]) = N(t) + (IF b = CMD_EVENT THEN 1 ELSE 0)
      BY <1>1, <2>3, EventCount
    <3> QED
      BY <1>1, <1>3, <1>4, <2>1, <2>3, <3>1
  <2> QED
    BY <1>1, <2>1, <2>2, <2>3, TriggersAreLogged
<1>7. CASE DeliverToWriter(p)
  <2> DEFINE h == Head(t)
             e == IF h = CMD_EVENT THEN 1 ELSE 0
  <2>1. /\ t # <<>> /\ h \in SentToWriters /\ towriter'[p] = Tail(t)
        /\ dumps' = dumps /\ eventlog' = eventlog
    BY <1>1, <1>7 DEF DeliverToWriter, WireTypeOK
  <2>2. N(Tail(t)) + e <= N(t) /\ N(Tail(t)) \in Nat
    <3>1. Tail(t) \in Seq(SentToWriters)
      BY <1>1, <2>1
    <3> QED
      BY <1>1, <1>2, <2>1, <3>1, EventCount
  <2>3. CASE WriterExited(p)
    <3>1. wsock' = wsock /\ held' = held
      BY <1>7, <2>3 DEF DeliverToWriter, vars, EventHeld
    <3> QED
      BY <1>1, <1>3, <1>4, <2>1, <2>2, <3>1
  <2>4. CASE ~WriterExited(p)
    <3>1. TellWriter(p, h)
      BY <1>7, <2>4 DEF DeliverToWriter
    <3>2. wsock'[p].bytes = Append(s, h) /\ held' = held
      BY <1>1, <3>1, ArrivedIs DEF TellWriter, EventHeld
    <3>3. N(Append(s, h)) = N(s) + e
      BY <1>1, <2>1, EventCount
    <3> QED
      BY <1>1, <1>3, <1>4, <2>1, <2>2, <3>2, <3>3
  <2> QED
    BY <2>3, <2>4
<1>8. CASE DeliverEnd(p)
  <2>1. /\ wsock'[p].bytes = s /\ held' = held /\ towriter' = towriter
        /\ eventlog' = eventlog /\ dumps' = dumps
    BY <1>1, <1>8, ArrivedIs DEF DeliverEnd, DropWriter, DropReader, mvars, EventHeld
  <2> QED
    BY <1>4, <2>1
<1>9. CASE SysWriter(p)
  <2>1. /\ WriterNext(p) /\ eventlog' = eventlog /\ towriter' = towriter
        /\ dumps'[p] = IF Dumps(p) THEN dumps[p] + 1 ELSE dumps[p]
    BY <1>1, <1>9 DEF SysWriter, WriterStep, mvars
  <2>2. CASE UNCHANGED wsock /\ (EventHeld(p)' => EventHeld(p)) /\ ~Dumps(p)
    BY <1>1, <1>3, <1>4, <2>1, <2>2
  <2>3. CASE UNCHANGED wsock /\ EventHeld(p) /\ ~EventHeld(p)' /\ Dumps(p)
    BY <1>1, <1>3, <1>4, <2>1, <2>3
  <2>4. CASE /\ Readable(wsock[p]) /\ WriterReads(p) /\ writer'[p].cmd = WriterCmd(p)
             /\ ~Dumps(p)
    <3>1. wsock'[p].bytes = <<>>
      BY <1>1, <2>4, ArrivedIs
    <3>2. EventHeld(p)' => N(s) = 1
      <4>1. EventHeld(p)' => WaitForCmd(s) = CMD_EVENT
        BY <2>4 DEF EventHeld, WriterCmd
      <4>2. WaitForCmd(<<>>) # CMD_EVENT
        BY CommandsDiffer DEF WaitForCmd
      <4>3. EventHeld(p)' => s = <<CMD_EVENT>>
        BY <1>1, <4>1, <4>2, WriterTakes
      <4> QED
        BY <1>1, <4>3, EventCount
    <3> QED
      BY <1>1, <1>3, <1>4, <2>1, <2>4, <3>1, <3>2
  <2> QED
    BY <1>1, <2>1, <2>2, <2>3, <2>4, WriterDumpsHeld
<1>10. CASE WriterUntouched(p)
  BY <1>4, <1>10 DEF WriterUntouched, EventHeld
<1> QED
  BY <1>6, <1>7, <1>8, <1>9, <1>10, WriterTouched

\* No Writer dumps more often than it was triggered.
THEOREM DumpsAreTriggered == ClientIsMessenger => (SysSpec => []NoDumpUntriggered)
<1> SUFFICES ASSUME ClientIsMessenger PROVE SysSpec => []NoDumpUntriggered
  OBVIOUS
<1> DEFINE Inv == \A p \in Pairs : EventsAccounted(p)
<1>1. SysInit => Inv
  <2> SUFFICES ASSUME SysInit, NEW p \in Pairs PROVE EventsAccounted(p)
    OBVIOUS
  <2>1. <<>> \in Seq(SentToWriters)
    OBVIOUS
  <2>2. Cardinality(Events(<<>>)) = 0
    BY <2>1, EventCount
  <2>3. /\ dumps[p] = 0 /\ eventlog[p] = 0 /\ wsock[p].bytes = <<>> /\ towriter[p] = <<>>
        /\ writer[p].cmd # CMD_EVENT
    BY DEF SysInit, Init, WriterInit, MessengerInit, NewConnection, CMD_NONE, CMD_EVENT
  <2> QED
    BY <2>2, <2>3 DEF EventsAccounted, EventHeld
<1>2. Orderly /\ Scripted /\ Inv /\ [SysNext]_sysvars => Inv'
  BY EventsStayAccounted DEF Orderly, Scripted, WriterScripted
<1>3. Orderly /\ Scripted /\ Inv => NoDumpUntriggered
  <2> SUFFICES ASSUME Orderly, Scripted, NEW p \in Pairs, EventsAccounted(p)
               PROVE  dumps[p] <= eventlog[p]
    BY DEF NoDumpUntriggered
  <2>1. /\ wsock[p].bytes \in Seq(SentToWriters) /\ towriter[p] \in Seq(SentToWriters)
        /\ dumps[p] \in Nat /\ eventlog[p] \in Nat
    BY DEF Orderly, SysTyped, WireTypeOK, Scripted, WriterScripted, WriterServed
  <2>2. /\ Cardinality(Events(wsock[p].bytes)) \in Nat
        /\ Cardinality(Events(towriter[p])) \in Nat
    BY <2>1, EventCount
  <2> QED
    BY <2>1, <2>2 DEF EventsAccounted
<1> QED
  BY <1>1, <1>2, <1>3, SystemOrderly, AlwaysScripted, PTL DEF SysSpec

\* The log and the dumps are bounded by the documents: a Writer is triggered at most once for
\* each, and dumps at most once for each trigger.
THEOREM SysTypeCorrect == ClientIsMessenger => (SysSpec => []SysTypeOK)
<1> SUFFICES ASSUME ClientIsMessenger PROVE SysSpec => []SysTypeOK
  OBVIOUS
<1> DEFINE Inv == \A p \in Pairs : OneTriggerPerDocument(p)
<1>1. SysInit => Inv
  BY DEF SysInit, MessengerInit, OneTriggerPerDocument, ToBeTriggered
<1>2. Orderly /\ Inv /\ [SysNext]_sysvars => Inv'
  <2> SUFFICES ASSUME SysTyped, Inv, [SysNext]_sysvars, NEW p \in Pairs
               PROVE  OneTriggerPerDocument(p)'
    BY DEF Orderly
  <2>1. CASE MessengerNext
    BY <2>1, TriggersArePaced DEF SysTyped
  <2>2. CASE UNCHANGED <<messenger, eventlog>>
    BY <2>2 DEF OneTriggerPerDocument, ToBeTriggered
  <2> QED
    BY <2>1, <2>2 DEF SysNext, sysvars, SysMessenger, DeliverToWriter, DeliverToReader,
                      DeliverEnd, SysWriter, SysReader, mvars
<1>3. Orderly /\ Inv /\ NoDumpUntriggered => SysTypeOK
  <2> SUFFICES ASSUME Orderly, Inv, NoDumpUntriggered PROVE SysTypeOK
    OBVIOUS
  <2>1. ASSUME NEW p \in Pairs PROVE eventlog[p] \in 0..MaxDocs /\ dumps[p] \in 0..MaxDocs
    <3>1. messenger.docs \in 0..MaxDocs /\ eventlog[p] \in Nat /\ dumps[p] \in Nat
      BY DEF Orderly, SysTyped, WireTypeOK, MessengerProcess
    <3>2. eventlog[p] + (IF ToBeTriggered(p) THEN 1 ELSE 0) <= messenger.docs
      BY DEF OneTriggerPerDocument
    <3>3. dumps[p] <= eventlog[p]
      BY DEF NoDumpUntriggered
    <3> QED
      BY <3>1, <3>2, <3>3, MessengerAssumption
  <2> QED
    BY <2>1 DEF SysTypeOK, Orderly, SysTyped
<1> QED
  BY <1>1, <1>2, <1>3, SystemOrderly, DumpsAreTriggered, PTL DEF SysSpec
-----------------------------------------------------------------------------
(* With long sleeps, every trigger has its dump. *)

\* A Writer that is recording and has nothing to obey goes on; if an event is alone on its
\* connection it takes it, and dumps next.
LEMMA WriterTakesEvent ==
  ASSUME TypeOK, NEW p \in Pairs, WriterServed(p), WriterInOrder(p), WriterNext(p),
         writer[p].state = STATE_STARTED, ~WriterExited(p)', ~wsock[p].closed
  PROVE  /\ writer[p].cmd = CMD_NONE /\ wsock[p].bytes = <<>>
              => /\ writer'[p].state = STATE_STARTED /\ writer'[p].cmd = CMD_NONE
                 /\ UNCHANGED wsock /\ ~Dumps(p)
         /\ writer[p].cmd = CMD_NONE /\ wsock[p].bytes = <<CMD_EVENT>>
              => /\ writer'[p].state = STATE_STARTED /\ ~Dumps(p)
                 /\ \/ UNCHANGED wsock /\ writer'[p].cmd = CMD_NONE
                    \/ wsock'[p].bytes = <<>> /\ EventHeld(p)'
         /\ EventHeld(p) => UNCHANGED wsock /\ Dumps(p) /\ ~EventHeld(p)'
<1>1. writer[p].pc = "flush" => writer[p].cmd = CMD_EVENT
  BY DEF WriterServed
<1>2. Recording(p) /\ writer[p].pc \in {"top", "write"} => writer[p].cmd = CMD_NONE
  BY DEF WriterInOrder
<1>3. wsock[p].bytes = <<CMD_EVENT>> => WriterCmd(p) = CMD_EVENT
  BY DEF WriterCmd, WaitForCmd, Decode, Command
<1> USE DEF WriterExited, WriterAt, WriterBecomes, WriterGoesOn, TypeOK,
            WriterProcess, EventHeld, Dumps,
            STATE_STARTED, STATE_STOPPED, CMD_START, CMD_STOP, CMD_QUIT, CMD_EVENT, CMD_NONE
<1>4. CASE WriterWait(p)          BY <1>4 DEF WriterWait
<1>5. CASE WriterStart(p)         BY <1>5 DEF WriterStart
<1>6. CASE WriterIgnore(p)        BY <1>6 DEF WriterIgnore
<1>7. CASE WriterQuitStopped(p)   BY <1>7 DEF WriterQuitStopped
<1>8. CASE WriterSelect(p)
  <2>1. writer[p].cmd = CMD_NONE
    BY <1>2, <1>8 DEF WriterSelect, Recording
  <2>2. CASE Readable(wsock[p])
    <3>1. wsock[p].bytes # <<>> /\ wsock'[p].bytes = <<>>
      BY <1>8, <2>2, ArrivedIs DEF WriterSelect, Readable
    <3>2. writer'[p].state = STATE_STARTED /\ writer'[p].cmd = WriterCmd(p) /\ writer'[p].pc = "act"
      BY <1>8, <2>2 DEF WriterSelect
    <3> QED
      BY <1>3, <2>1, <3>1, <3>2
  <2>3. CASE ~Readable(wsock[p])
    BY <1>8, <2>1, <2>3 DEF WriterSelect, Readable
  <2> QED
    BY <2>2, <2>3
<1>9. CASE WriterEvent(p)         BY <1>9 DEF WriterEvent
<1>10. CASE WriterFlush(p)        BY <1>1, <1>10 DEF WriterFlush
<1>11. CASE WriterStop(p)         BY <1>11 DEF WriterStop
<1>12. CASE WriterQuit(p)         BY <1>12 DEF WriterQuit
<1>13. CASE WriterReceive(p)      BY <1>13 DEF WriterReceive
<1>14. CASE WriterMarkFilled(p)   BY <1>2, <1>14 DEF WriterMarkFilled, Recording
<1>15. CASE WriterWrite(p) \/ WriterWriteFails(p)
  BY <1>2, <1>15 DEF WriterWrite, WriterWriteFails, Recording
<1>16. CASE WriterFails(p)        BY <1>16 DEF WriterFails
<1> QED
  BY <1>4, <1>5, <1>6, <1>7, <1>8, <1>9, <1>10, <1>11, <1>12, <1>13, <1>14, <1>15, <1>16
     DEF WriterNext

\* Where there is no event: after another command is sent, and after one has been taken off.
LEMMA NoEventsLeft ==
  ASSUME NEW s \in Seq(SentToWriters), Events(s) = {}
  PROVE  /\ \A b \in SentToWriters \ {CMD_EVENT} : Events(Append(s, b)) = {}
         /\ s # <<>> => Head(s) # CMD_EVENT /\ Events(Tail(s)) = {}
         /\ s # <<CMD_EVENT>>
<1>1. \A b \in SentToWriters \ {CMD_EVENT} : Events(Append(s, b)) = {}
  BY DEF Events
<1>2. s # <<>> => Head(s) # CMD_EVENT /\ Events(Tail(s)) = {}
  <2> SUFFICES ASSUME s # <<>> PROVE Head(s) # CMD_EVENT /\ Events(Tail(s)) = {}
    OBVIOUS
  <2>1. \A i \in 1..Len(s) : s[i] # CMD_EVENT
    BY DEF Events
  <2>2. \A i \in 1..Len(Tail(s)) : i + 1 \in 1..Len(s) /\ Tail(s)[i] = s[i + 1]
    OBVIOUS
  <2> QED
    BY <2>1, <2>2 DEF Events
<1>3. s # <<CMD_EVENT>>
  <2>1. 1 \in Events(<<CMD_EVENT>>)
    BY DEF Events
  <2> QED
    BY <2>1
<1> QED
  BY <1>1, <1>2, <1>3

\* The Messenger sends the next command only when its sleep is over.
LEMMA SendingKeepsTimely ==
  ASSUME SysTyped, NEW p \in Pairs, WriterScripted(p), Timely(p), SysMessenger
  PROVE  Timely(p)'
<1> SUFFICES ASSUME LongSleeps, ~MessengerAt("dead")', ~WriterExited(p) PROVE Timely(p)'
  BY DEF SysMessenger, vars, Timely, WriterExited
<1> DEFINE t == towriter[p]
           Calm == dumps[p] = eventlog[p] /\ NoEventAround(p)
           Ready == TakenUp(p) /\ writer[p].state = STATE_STARTED
           Coming == dumps[p] + 1 = eventlog[p] /\ EventOnItsWay(p)
           Wanted == MessengerAt("trigger") /\ messenger.ii <= p
           Sent == MessengerAt("settle") \/ (MessengerAt("trigger") /\ p < messenger.ii)
<1>1. /\ UNCHANGED <<writer, wsock, dumps>> /\ MessengerNext /\ WireTypeOK
      /\ t \in Seq(SentToWriters) /\ messenger.ii \in 1..NRWPAIRS /\ NRWPAIRS \in Nat
      /\ p \in 1..NRWPAIRS /\ messenger.ii \in Pairs /\ eventlog[p] \in Nat /\ dumps[p] \in Nat
      /\ towriter \in [Pairs -> Seq(SentToWriters)] /\ eventlog \in [Pairs -> Nat]
  BY MessengerAssumption DEF SysMessenger, vars, SysTyped, WireTypeOK, MessengerProcess
<1>2. ~MessengerAt("dead")
  BY <1>1, SendsAlive
<1>3. (Calm /\ (Wanted => Ready)) \/ (Coming /\ Sent)
  BY <1>2 DEF Timely
<1>4. SUFFICES (Calm' /\ (Wanted' => Ready')) \/ (Coming' /\ Sent')
  BY DEF Timely
<1>5. ASSUME UNCHANGED eventlog, ~MessengerAt("trigger"), ~MessengerAt("settle"),
             ~MessengerAt("trigger")',
             \/ towriter'[p] = t
             \/ \E b \in SentToWriters \ {CMD_EVENT} : towriter'[p] = Append(t, b)
      PROVE  Calm'
  BY <1>1, <1>3, <1>5, NoEventsLeft DEF NoEventAround, EventHeld
<1>6. ASSUME GoTo("dead", 1) PROVE FALSE
  BY <1>1, <1>6, GoToIs DEF MessengerAt
<1>7. CMD_STOP \in SentToWriters \ {CMD_EVENT} /\ CMD_START \in SentToWriters \ {CMD_EVENT}
  BY DEF SentToWriters, CMD_STOP, CMD_START, CMD_EVENT
<1>8. CASE ReceiveFinish \/ ReceiveSource \/ ReceiveOther
  BY <1>5, <1>8 DEF ReceiveFinish, ReceiveSource, ReceiveOther, ReceiveDocument, MessengerAt
<1>9. CASE FinishWriter
  <2>1. ~MessengerAt("trigger") /\ ~MessengerAt("settle") /\ ~MessengerAt("trigger")'
    BY <1>1, <1>6, <1>9, LoopIs DEF FinishWriter, SendToWriter, MessengerAt
  <2> QED
    BY <1>1, <1>5, <1>7, <1>9, <2>1 DEF FinishWriter, SendToWriter
<1>10. CASE StartReader
  <2>1. ~MessengerAt("trigger") /\ ~MessengerAt("settle") /\ ~MessengerAt("trigger")'
    BY <1>1, <1>6, <1>10, GoToIs DEF StartReader, SendToReader, MessengerAt
  <2> QED
    BY <1>5, <1>10, <2>1 DEF StartReader, SendToReader
<1>11. CASE StartWriter
  <2>1. ~MessengerAt("trigger") /\ ~MessengerAt("settle") /\ ~MessengerAt("trigger")'
    BY <1>1, <1>6, <1>11, LoopIs DEF StartWriter, SendToWriter, MessengerAt
  <2> QED
    BY <1>1, <1>5, <1>7, <1>11, <2>1 DEF StartWriter, SendToWriter
<1>12. CASE StopWriter
  <2>1. ~MessengerAt("trigger") /\ ~MessengerAt("settle") /\ ~MessengerAt("trigger")'
    BY <1>1, <1>6, <1>12, GoToIs DEF StopWriter, SendToWriter, MessengerAt
  <2> QED
    BY <1>1, <1>5, <1>7, <1>12, <2>1 DEF StopWriter, SendToWriter
<1>13. CASE StopReader
  <2>1. ~MessengerAt("trigger") /\ ~MessengerAt("settle") /\ ~MessengerAt("trigger")'
    BY <1>1, <1>6, <1>13, LoopIs DEF StopReader, SendToReader, MessengerAt
  <2> QED
    BY <1>5, <1>13, <2>1 DEF StopReader, SendToReader
<1>14. CASE Fill
  <2>1. /\ MessengerAt("fill") /\ TakenUp(p) /\ UNCHANGED <<towriter, eventlog>>
    BY <1>14 DEF Fill, Sleep
  <2>2. Calm /\ ~WriterExited(p) /\ t = <<>> /\ wsock[p].bytes = <<>> /\ writer[p].cmd = CMD_NONE
    BY <1>3, <2>1 DEF MessengerAt, TakenUp
  <2>3. wasked[p] = CMD_START
    BY <1>2, <2>1, <2>2
       DEF WriterScripted, WriterScript, LastToWriter, MessengerAt, CMD_START, CMD_STOP
  <2>4. WillRecord(p)
    BY <2>2, <2>3, EmptyHasNoRequest
       DEF WriterScripted, StartsAreObeyed, CMD_NONE, CMD_QUIT
  <2>5. Ready
    BY <2>1, <2>2, <2>4 DEF WillRecord, CMD_NONE, CMD_START
  <2>6. Calm' /\ Ready'
    BY <1>1, <2>1, <2>2, <2>5 DEF NoEventAround, EventHeld, TakenUp, WriterExited
  <2> QED
    BY <2>6
<1>15. CASE Settle
  <2>1. /\ MessengerAt("settle") /\ TakenUp(p) /\ UNCHANGED <<towriter, eventlog>>
        /\ ~MessengerAt("trigger")'
    BY <1>1, <1>15, GoToIs DEF Settle, Sleep, MessengerAt
  <2>2. ~EventOnItsWay(p)
    BY <2>1, CommandsDiffer DEF TakenUp, EventOnItsWay, EventHeld
  <2> QED
    BY <1>1, <1>3, <2>1, <2>2 DEF NoEventAround, EventHeld
<1>16. CASE TriggerWriter
  <2>1. MessengerAt("trigger") /\ Loop("trigger", "settle")
    BY <1>6, <1>16 DEF TriggerWriter, SendToWriter
  <2>2. \/ messenger'.pc = "trigger" /\ messenger'.ii = messenger.ii + 1
        \/ messenger'.pc = "settle" /\ messenger.ii = NRWPAIRS
    BY <1>1, <2>1, LoopIs
  <2>3. CASE p = messenger.ii
    <3>1. towriter'[p] = Append(t, CMD_EVENT) /\ eventlog'[p] = eventlog[p] + 1
      BY <1>1, <1>16, <2>3 DEF TriggerWriter, SendToWriter
    <3>2. Calm /\ Ready
      BY <1>1, <1>3, <2>1, <2>3 DEF MessengerAt
    <3>3. /\ t = <<>> /\ wsock[p].bytes = <<>> /\ writer[p].cmd = CMD_NONE
          /\ writer[p].state = STATE_STARTED
      BY <3>2 DEF TakenUp
    <3>4. Coming'
      BY <1>1, <3>1, <3>2, <3>3 DEF EventOnItsWay
    <3>5. Sent'
      BY <1>1, <2>2, <2>3 DEF MessengerAt
    <3> QED
      BY <3>4, <3>5
  <2>4. CASE p # messenger.ii
    <3>1. towriter'[p] = t /\ eventlog'[p] = eventlog[p]
      BY <1>1, <1>16, <2>4 DEF TriggerWriter, SendToWriter
    <3>2. (Calm => Calm') /\ (Coming => Coming') /\ (Ready => Ready')
      BY <1>1, <3>1 DEF NoEventAround, EventHeld, EventOnItsWay, TakenUp, WriterExited
    <3>3. (Wanted' => Wanted) /\ (Sent => Sent')
      BY <1>1, <2>1, <2>2, <2>4 DEF MessengerAt
    <3> QED
      BY <1>3, <3>2, <3>3
  <2> QED
    BY <2>3, <2>4
<1>17. CASE Crash
  BY <1>6, <1>17 DEF Crash
<1> QED
  BY <1>1, <1>8, <1>9, <1>10, <1>11, <1>12, <1>13, <1>14, <1>15, <1>16, <1>17
     DEF MessengerNext, MessengerWorks

\* The connection and the Writer bring an event on its way to its dump.
LEMMA WriterKeepsTimely ==
  ASSUME SysTyped, NEW p \in Pairs, WriterScripted(p), WriterInOrder(p), Timely(p),
         DeliverToWriter(p) \/ SysWriter(p)
  PROVE  Timely(p)'
<1> DEFINE s == wsock[p].bytes
           t == towriter[p]
           Calm == dumps[p] = eventlog[p] /\ NoEventAround(p)
           Ready == TakenUp(p) /\ writer[p].state = STATE_STARTED
           Coming == dumps[p] + 1 = eventlog[p] /\ EventOnItsWay(p)
           Wanted == MessengerAt("trigger") /\ messenger.ii <= p
           Sent == MessengerAt("settle") \/ (MessengerAt("trigger") /\ p < messenger.ii)
<1>1. /\ UNCHANGED <<messenger, eventlog>> /\ TypeOK /\ WriterServed(p)
      /\ s \in Seq(SentToWriters) /\ t \in Seq(SentToWriters)
      /\ eventlog[p] \in Nat /\ dumps[p] \in Nat /\ dumps \in [Pairs -> Nat]
  BY DEF DeliverToWriter, SysWriter, mvars, SysTyped, WireTypeOK, WriterScripted, WriterServed
<1>2. WriterExited(p) => WriterExited(p)'
  BY <1>1, WriterHolds DEF DeliverToWriter, SysWriter, WriterStep, vars, TellWriter, WriterExited
<1>3. SUFFICES ASSUME LongSleeps, ~MessengerAt("dead"), ~WriterExited(p)' PROVE Timely(p)'
  BY <1>1 DEF Timely, MessengerAt
<1>4. (Calm /\ (Wanted => Ready)) \/ (Coming /\ Sent)
  BY <1>2, <1>3 DEF Timely
<1>5. (Wanted' <=> Wanted) /\ (Sent' <=> Sent)
  BY <1>1 DEF MessengerAt
<1>6. SUFFICES (Calm' /\ (Ready => Ready')) \/ (Coming' /\ Sent) \/ (Calm' /\ Sent)
  <2>1. Sent => ~Wanted
    <3>1. p \in 1..NRWPAIRS /\ messenger.ii \in 1..NRWPAIRS /\ NRWPAIRS \in Nat
      BY MessengerAssumption DEF SysTyped, WireTypeOK, MessengerProcess
    <3> QED
      BY <3>1 DEF MessengerAt
  <2> QED
    BY <1>4, <1>5, <2>1 DEF Timely
<1>7. CASE DeliverToWriter(p)
  <2> DEFINE h == Head(t)
  <2>1. /\ t # <<>> /\ towriter'[p] = Tail(t) /\ TellWriter(p, h) /\ UNCHANGED dumps
        /\ h \in SentToWriters
    BY <1>1, <1>2, <1>3, <1>7 DEF DeliverToWriter, SysTyped, WireTypeOK
  <2>2. wsock'[p].bytes = Append(s, h) /\ UNCHANGED writer
    BY <1>1, <2>1, ArrivedIs DEF TellWriter
  <2>3. CASE Calm
    <3>1. ~Ready
      BY <2>1 DEF TakenUp
    <3>2. Events(Append(s, h)) = {} /\ Events(Tail(t)) = {}
      BY <1>1, <2>1, <2>3, NoEventsLeft DEF NoEventAround
    <3>3. Calm'
      BY <1>1, <2>1, <2>2, <2>3, <3>2 DEF NoEventAround, EventHeld
    <3> QED
      BY <3>1, <3>3
  <2>4. CASE Coming /\ Sent
    <3>1. /\ t = <<CMD_EVENT>> /\ s = <<>>
          /\ writer[p].cmd = CMD_NONE /\ writer[p].state = STATE_STARTED
      BY <2>1, <2>4 DEF EventOnItsWay
    <3>2. towriter'[p] = <<>> /\ wsock'[p].bytes = <<CMD_EVENT>>
      BY <2>1, <2>2, <3>1
    <3>3. Coming'
      BY <1>1, <2>1, <2>2, <2>4, <3>1, <3>2 DEF EventOnItsWay
    <3> QED
      BY <2>4, <3>3
  <2> QED
    BY <1>4, <2>3, <2>4
<1>8. CASE SysWriter(p)
  <2>1. /\ WriterNext(p) /\ UNCHANGED towriter /\ ~WriterExited(p)
        /\ dumps'[p] = IF Dumps(p) THEN dumps[p] + 1 ELSE dumps[p]
    BY <1>1, <1>2, <1>3, <1>8 DEF SysWriter, WriterStep, mvars
  <2>2. ~wsock[p].closed
    BY <1>1, <1>3 DEF WriterServed
  <2>3. CASE Calm
    <3>1. Ready => Ready'
      <4>1. SUFFICES ASSUME Ready PROVE Ready'
        OBVIOUS
      <4>2. t = <<>> /\ s = <<>> /\ writer[p].cmd = CMD_NONE /\ writer[p].state = STATE_STARTED
        BY <2>1, <4>1 DEF TakenUp
      <4>3. writer'[p].state = STATE_STARTED /\ writer'[p].cmd = CMD_NONE /\ UNCHANGED wsock
        BY <1>1, <1>3, <2>1, <2>2, <4>2, WriterTakesEvent
      <4> QED
        BY <2>1, <4>2, <4>3 DEF TakenUp
    <3>2. CASE UNCHANGED wsock /\ (EventHeld(p)' => EventHeld(p)) /\ ~Dumps(p)
      BY <1>1, <2>1, <2>3, <3>1, <3>2 DEF NoEventAround
    <3>3. CASE EventHeld(p)
      BY <2>3, <3>3 DEF NoEventAround
    <3>4. CASE /\ Readable(wsock[p]) /\ WriterReads(p) /\ writer'[p].cmd = WriterCmd(p)
               /\ ~Dumps(p)
      <4>1. wsock'[p].bytes = <<>> /\ Events(wsock'[p].bytes) = {}
        <5>1. wsock'[p].bytes = <<>>
          BY <1>1, <3>4, ArrivedIs
        <5> QED
          BY <5>1 DEF Events
      <4>2. writer'[p].cmd # CMD_EVENT
        <5>1. s # <<>>
          BY <2>2, <3>4 DEF Readable
        <5>2. s # <<CMD_EVENT>>
          BY <1>1, <2>3, NoEventsLeft DEF NoEventAround
        <5> QED
          BY <1>1, <3>4, <5>1, <5>2, WriterTakes DEF WriterCmd
      <4> QED
        BY <1>1, <2>1, <2>3, <3>1, <3>4, <4>1, <4>2 DEF NoEventAround, EventHeld
    <3> QED
      BY <1>1, <2>1, <3>2, <3>3, <3>4, WriterDumpsHeld
  <2>4. CASE Coming /\ Sent
    <3>1. writer[p].state = STATE_STARTED /\ dumps[p] + 1 = eventlog[p]
      BY <2>4 DEF EventOnItsWay
    <3>2. CASE t = <<CMD_EVENT>> /\ s = <<>> /\ writer[p].cmd = CMD_NONE
      <4>1. /\ writer'[p].state = STATE_STARTED /\ writer'[p].cmd = CMD_NONE
            /\ UNCHANGED wsock /\ ~Dumps(p)
        BY <1>1, <1>3, <2>1, <2>2, <3>1, <3>2, WriterTakesEvent
      <4>2. Coming'
        BY <1>1, <2>1, <3>1, <3>2, <4>1 DEF EventOnItsWay
      <4> QED
        BY <2>4, <4>2
    <3>3. CASE t = <<>> /\ s = <<CMD_EVENT>> /\ writer[p].cmd = CMD_NONE
      <4>1. /\ writer'[p].state = STATE_STARTED /\ ~Dumps(p)
            /\ \/ UNCHANGED wsock /\ writer'[p].cmd = CMD_NONE
               \/ wsock'[p].bytes = <<>> /\ EventHeld(p)'
        BY <1>1, <1>3, <2>1, <2>2, <3>1, <3>3, WriterTakesEvent
      <4>2. Coming'
        BY <1>1, <2>1, <3>1, <3>3, <4>1 DEF EventOnItsWay
      <4> QED
        BY <2>4, <4>2
    <3>4. CASE t = <<>> /\ s = <<>> /\ EventHeld(p)
      <4>1. UNCHANGED wsock /\ Dumps(p) /\ ~EventHeld(p)'
        BY <1>1, <1>3, <2>1, <2>2, <3>1, <3>4, WriterTakesEvent
      <4>2. Events(<<>>) = {}
        BY DEF Events
      <4>3. Calm'
        BY <1>1, <2>1, <3>1, <3>4, <4>1, <4>2 DEF NoEventAround
      <4> QED
        BY <2>4, <4>3
    <3> QED
      BY <2>4, <3>2, <3>3, <3>4 DEF EventOnItsWay
  <2> QED
    BY <1>4, <2>3, <2>4
<1> QED
  BY <1>7, <1>8

\* With long sleeps, every trigger in the event log has its dump by the time the Messenger
\* waits for the next document and the Writer has taken up all it was sent.
THEOREM TriggersHaveDumps == ClientIsMessenger => (SysSpec => []DumpPerTrigger)
<1> SUFFICES ASSUME ClientIsMessenger PROVE SysSpec => []DumpPerTrigger
  OBVIOUS
<1> DEFINE Inv == \A p \in Pairs : Timely(p)
<1>1. SysInit => Inv
  BY DEF SysInit, Init, WriterInit, MessengerInit, NewConnection, Timely, NoEventAround, Events,
         EventHeld, MessengerAt, CMD_NONE, CMD_EVENT
<1>2. Orderly /\ Scripted /\ Inv /\ [SysNext]_sysvars => Inv'
  <2> SUFFICES ASSUME Orderly, Scripted, Inv, [SysNext]_sysvars, NEW p \in Pairs
               PROVE  Timely(p)'
    OBVIOUS
  <2>1. SysTyped /\ WriterScripted(p) /\ WriterInOrder(p) /\ Timely(p)
    BY DEF Orderly, Scripted
  <2>2. CASE SysMessenger
    BY <2>1, <2>2, SendingKeepsTimely
  <2>3. CASE DeliverToWriter(p) \/ SysWriter(p)
    BY <2>1, <2>3, WriterKeepsTimely
  <2>4. CASE DeliverEnd(p)
    BY <2>4 DEF DeliverEnd, mvars, MessengerAt, Timely
  <2>5. CASE WriterUntouched(p)
    BY <2>1, <2>5 DEF WriterUntouched, Timely, WriterExited, NoEventAround, EventHeld,
                      EventOnItsWay, TakenUp, MessengerAt
  <2> QED
    BY <2>1, <2>2, <2>3, <2>4, <2>5, WriterTouched
<1>3. Inv => DumpPerTrigger
  BY DEF Timely, DumpPerTrigger, MessengerAt
<1> QED
  BY <1>1, <1>2, <1>3, SystemOrderly, AlwaysScripted, PTL DEF SysSpec

\* In the system too, the processes use each data block only in the order its library demands.
THEOREM SystemUsesBlock == ClientIsMessenger => (SysSpec => UsesBlock)
BY Implementation, BlockUsed DEF ImplementsCapture
=============================================================================
