----------------------------- MODULE Messenger -----------------------------
(***************************************************************************)
(* The Messenger (messenger.c), the client of all the pairs: it waits for  *)
(* a multicast document and, for an observation of a source of interest,   *)
(* starts every Reader and Writer, lets the rings fill, triggers a dump in *)
(* every Writer and stops them all.  Every send is a step of its own.      *)
(*   pc          what it does next, for pair ii where it is in a loop      *)
(*   "select"    blocked in select() on the multicast sockets              *)
(*   "finish"    sends CMD_STOP to Writer ii, for a FINISH document        *)
(*   "start_r", "start_w"  sends CMD_START to Reader, to Writer ii         *)
(*   "fill"      in sleep(60)                                              *)
(*   "trigger"   sends CMD_EVENT to Writer ii and logs it                  *)
(*   "settle"    in sleep(2)                                               *)
(*   "stop_w", "stop_r"    sends CMD_STOP to Writer, to Reader ii          *)
(*   "dead"      killed                                                    *)
(***************************************************************************)
EXTENDS Capture

CONSTANTS NRWPAIRS,          \* number of Reader/Writer pairs (messenger.c)
          MaxDocs,           \* bound: documents received
          MessengerCrashes,  \* may the Messenger be killed at any time?
          LongSleeps         \* do its sleeps last until what it sent has been read?

ASSUME MessengerAssumption == /\ NRWPAIRS \in Nat \ {0}
                              /\ Pairs = 1..NRWPAIRS
                              /\ MaxDocs \in Nat
                              /\ {MessengerCrashes, LongSleeps} \subseteq BOOLEAN

VARIABLES messenger,   \* pc, ii, and the number of documents received
          towriter,    \* towriter[p]: bytes under way to Writer p, oldest first
          toreader,    \* toreader[p]: bytes under way to Reader p
          eventlog     \* eventlog[p]: triggers for pair p recorded in eventlog.txt

mvars == <<messenger, towriter, toreader, eventlog>>

MessengerProcess ==
  [pc : {"select", "finish", "start_r", "start_w", "fill", "trigger", "settle",
         "stop_w", "stop_r", "dead"},
   ii : Pairs,
   docs : 0..MaxDocs]

MessengerInit ==
  /\ messenger = [pc |-> "select", ii |-> 1, docs |-> 0]
  /\ towriter = [p \in Pairs |-> <<>>]
  /\ toreader = [p \in Pairs |-> <<>>]
  /\ eventlog = [p \in Pairs |-> 0]

MessengerAt(pc) == messenger.pc = pc
GoTo(pc, ii) == messenger' = [messenger EXCEPT !.pc = pc, !.ii = ii]

\* An error in a loop over the pairs: one round too many.
LoopOnceMore(again, after) ==
  IF messenger.ii <= NRWPAIRS THEN GoTo(again, messenger.ii + 1) ELSE GoTo(after, 1)

\* The end of the body of a loop over the pairs.
Loop(again, after) ==
  IF messenger.ii < NRWPAIRS THEN GoTo(again, messenger.ii + 1) ELSE GoTo(after, 1)

(***************************************************************************)
(* send() to a process that has gone: the byte is lost, or the connection  *)
(* is already known to be broken and SIGPIPE, which nothing handles, kills *)
(* the Messenger.  After a send that is only lost it carries on.           *)
(***************************************************************************)
SendToWriter(b, next) ==
  LET p == messenger.ii IN
    /\ IF WriterExited(p)
       THEN UNCHANGED towriter /\ (next \/ GoTo("dead", 1))
       ELSE towriter' = [towriter EXCEPT ![p] = Append(@, b)] /\ next
    /\ UNCHANGED toreader

SendToReader(b, next) ==
  LET p == messenger.ii IN
    /\ IF ReaderExited(p)
       THEN UNCHANGED toreader /\ (next \/ GoTo("dead", 1))
       ELSE toreader' = [toreader EXCEPT ![p] = Append(@, b)] /\ next
    /\ UNCHANGED towriter

-----------------------------------------------------------------------------
(* A document. *)

ReceiveDocument(pc) ==
  /\ MessengerAt("select")
  /\ messenger.docs < MaxDocs
  /\ messenger' = [pc |-> pc, ii |-> 1, docs |-> messenger.docs + 1]
  /\ UNCHANGED <<towriter, toreader, eventlog>>

ReceiveFinish == ReceiveDocument("finish")
ReceiveSource == ReceiveDocument("start_r")

\* Another source, an antenna properties document, a datagram in error.
ReceiveOther == ReceiveDocument("select")

-----------------------------------------------------------------------------
(* What it sends. *)

\* An error: a FINISH makes the Writers quit.
FinishQuits ==
  MessengerAt("finish") /\ SendToWriter(CMD_QUIT, Loop("finish", "select")) /\ UNCHANGED eventlog

FinishWriter ==
  /\ MessengerAt("finish")
  /\ SendToWriter(CMD_STOP, Loop("finish", "select"))
  /\ UNCHANGED eventlog

StartReader ==
  /\ MessengerAt("start_r")
  /\ SendToReader(CMD_START, GoTo("start_w", messenger.ii))
  /\ UNCHANGED eventlog

StartWriter ==
  /\ MessengerAt("start_w")
  /\ SendToWriter(CMD_START, Loop("start_r", "fill"))
  /\ UNCHANGED eventlog

\* What was sent to p has arrived and has been taken up.
TakenUp(p) ==
  /\ towriter[p] = <<>> /\ wsock[p].bytes = <<>>
  /\ writer[p].cmd = CMD_NONE \/ WriterExited(p)

Sleep(pc, next) ==
  /\ MessengerAt(pc)
  /\ LongSleeps => \A p \in Pairs : TakenUp(p)
  /\ GoTo(next, 1)
  /\ UNCHANGED <<towriter, toreader, eventlog>>

Fill == Sleep("fill", "trigger")
Settle == Sleep("settle", "stop_w")

\* An error: the triggers are not followed by a sleep.
TriggerWithoutSleep ==
  MessengerAt("trigger") /\ SendToWriter(CMD_EVENT, Loop("trigger", "stop_w"))
    /\ eventlog' = [eventlog EXCEPT ![messenger.ii] = @ + 1]

\* The trigger is recorded if send() did not fail; a byte that is lost may be recorded.
TriggerWriter ==
  /\ MessengerAt("trigger")
  /\ SendToWriter(CMD_EVENT, Loop("trigger", "settle"))
  /\ \/ eventlog' = [eventlog EXCEPT ![messenger.ii] = @ + 1]
     \/ WriterExited(messenger.ii) /\ UNCHANGED eventlog
  /\ messenger'.pc = "dead" => UNCHANGED eventlog

\* An error: only the Writers are stopped, as for a FINISH.
StopWritersOnly ==
  MessengerAt("stop_w") /\ SendToWriter(CMD_STOP, Loop("stop_w", "select")) /\ UNCHANGED eventlog

StopWriter ==
  /\ MessengerAt("stop_w")
  /\ SendToWriter(CMD_STOP, GoTo("stop_r", messenger.ii))
  /\ UNCHANGED eventlog

\* An error: only the first pair is stopped.
StopFirstPairOnly ==
  MessengerAt("stop_r") /\ SendToReader(CMD_STOP, GoTo("select", 1)) /\ UNCHANGED eventlog

StopReader ==
  /\ MessengerAt("stop_r")
  /\ SendToReader(CMD_STOP, Loop("stop_w", "select"))
  /\ UNCHANGED eventlog

Crash ==
  /\ MessengerCrashes /\ ~MessengerAt("dead")
  /\ GoTo("dead", 1)
  /\ UNCHANGED <<towriter, toreader, eventlog>>

\* The steps it takes on its own, once a document has been received.
MessengerWorks ==
  \/ FinishWriter \/ StartReader \/ StartWriter \/ Fill \/ TriggerWriter \/ Settle
  \/ StopWriter \/ StopReader

MessengerNext ==
  \/ ReceiveFinish \/ ReceiveSource \/ ReceiveOther
  \/ MessengerWorks
  \/ Crash
=============================================================================
