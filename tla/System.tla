------------------------------- MODULE System -------------------------------
(***************************************************************************)
(* The whole system: the Messenger, its pairs, and the connections between *)
(* them.  A connection delivers every byte once and in order, but each at  *)
(* its own pace, so that two connections are not ordered; when the         *)
(* Messenger dies, the end of file follows the last byte.                  *)
(***************************************************************************)
EXTENDS Messenger

VARIABLE dumps   \* history: dumps[p] is the number of dumps Writer p has made

sysvars == <<vars, mvars, dumps>>

SysInit ==
  /\ Init
  /\ MessengerInit
  /\ dumps = [p \in Pairs |-> 0]

SysMessenger == MessengerNext /\ UNCHANGED <<vars, dumps>>

DeliverToWriter(p) ==
  /\ towriter[p] # <<>>
  /\ towriter' = [towriter EXCEPT ![p] = Tail(@)]
  /\ IF WriterExited(p) THEN UNCHANGED vars ELSE TellWriter(p, Head(towriter[p]))
  /\ UNCHANGED <<messenger, toreader, eventlog, dumps>>

DeliverToReader(p) ==
  /\ toreader[p] # <<>>
  /\ toreader' = [toreader EXCEPT ![p] = Tail(@)]
  /\ IF ReaderExited(p) THEN UNCHANGED vars ELSE TellReader(p, Head(toreader[p]))
  /\ UNCHANGED <<messenger, towriter, eventlog, dumps>>

DeliverEnd(p) ==
  /\ MessengerAt("dead")
  /\ \/ towriter[p] = <<>> /\ DropWriter(p)
     \/ toreader[p] = <<>> /\ DropReader(p)
  /\ UNCHANGED <<mvars, dumps>>

Dumps(p) == writer[p].pc = "act" /\ writer'[p].pc = "flush"

SysWriter(p) ==
  /\ WriterStep(p)
  /\ dumps' = IF Dumps(p) THEN [dumps EXCEPT ![p] = @ + 1] ELSE dumps
  /\ UNCHANGED mvars

SysReader(p) == ReaderStep(p) /\ UNCHANGED <<mvars, dumps>>

SysNext ==
  \/ SysMessenger
  \/ \E p \in Pairs : \/ DeliverToWriter(p) \/ DeliverToReader(p) \/ DeliverEnd(p)
                      \/ SysWriter(p) \/ SysReader(p)

SysSpec == SysInit /\ [][SysNext]_sysvars

\* Processes are scheduled, sleeps end and connections deliver; nobody owes a document.
SysFairness ==
  /\ WF_sysvars(MessengerWorks /\ UNCHANGED <<vars, dumps>>)
  /\ \A p \in Pairs : /\ WF_sysvars(DeliverToWriter(p))
                      /\ WF_sysvars(DeliverToReader(p))
                      /\ WF_sysvars(DeliverEnd(p))
                      /\ WF_sysvars(SysWriter(p))
                      /\ WF_sysvars(SysReader(p))

SysFairSpec == SysSpec /\ SysFairness

-----------------------------------------------------------------------------
SentToWriters == {CMD_START, CMD_STOP, CMD_EVENT}
SentToReaders == {CMD_START, CMD_STOP}

\* The Messenger and the connections: only these commands are ever under way.
WireTypeOK ==
  /\ messenger \in MessengerProcess
  /\ towriter \in [Pairs -> Seq(SentToWriters)]
  /\ toreader \in [Pairs -> Seq(SentToReaders)]

SysTypeOK ==
  /\ TypeOK
  /\ WireTypeOK
  /\ eventlog \in [Pairs -> 0..MaxDocs]
  /\ dumps \in [Pairs -> 0..MaxDocs]

(***************************************************************************)
(* The Messenger is one of the clients Capture allows for, so what Capture *)
(* guarantees for any client holds in the system.                          *)
(***************************************************************************)
ImplementsCapture == Spec

(***************************************************************************)
(* Under the Messenger the Writer obeys in both directions: with nothing   *)
(* on its way to it, it is started exactly if it was asked last to start.  *)
(* An arbitrary client gets only half of it, see EventsAreIgnored.         *)
(***************************************************************************)
WriterObeys ==
  \A p \in Pairs :
    WriterAtRest(p) => (writer[p].state = STATE_STARTED <=> wasked[p] = CMD_START)

(***************************************************************************)
(* When the Messenger waits for a document and all it has sent has been    *)
(* taken up, every process is stopped and every data block is closed on    *)
(* both sides, whatever documents there were and however its commands were *)
(* delayed or taken together.                                              *)
(***************************************************************************)
QuietWhenIdle ==
  \A p \in Pairs :
    /\ MessengerAt("select")
    /\ towriter[p] = <<>> /\ WriterAtRest(p)
    /\ toreader[p] = <<>> /\ ReaderAtRest(p)
    => ~ring[p].writing /\ ~ring[p].reading

(***************************************************************************)
(* No Writer dumps more often than it was triggered: an event is obeyed at *)
(* most once, although it stays in cmd during the dump.                    *)
(***************************************************************************)
NoDumpUntriggered == \A p \in Pairs : dumps[p] <= eventlog[p]

(***************************************************************************)
(* If a start and a trigger are each taken up before the Messenger sends   *)
(* the next command, which is what its sleeps are for, every trigger in    *)
(* the event log has its dump.                                             *)
(***************************************************************************)
DumpPerTrigger ==
  \A p \in Pairs :
    LongSleeps /\ MessengerAt("select") /\ TakenUp(p) /\ ~WriterExited(p)
      => dumps[p] = eventlog[p]

\* No data block ever refuses to be opened or closed.
OpensAndCloses == IpcErrors \subseteq {"write", "read"}

(***************************************************************************)
(* While the Messenger lives and the data blocks can be opened and closed, *)
(* no process exits: nothing the Messenger sends makes one quit, nor does  *)
(* an error of ipcio_write or ipcio_read.                                  *)
(***************************************************************************)
NobodyQuits ==
  OpensAndCloses /\ ~MessengerAt("dead") => \A p \in Pairs : ~WriterExited(p) /\ ~ReaderExited(p)

-----------------------------------------------------------------------------
Finished == MessengerAt("select") /\ messenger.docs = MaxDocs

(***************************************************************************)
(* Once the Messenger has done its work, recording ends everywhere, unless *)
(* a Writer is caught for good in ipcio_write with a full ring because its *)
(* Reader has stopped first.                                               *)
(***************************************************************************)
RecordingEnds ==
  \A p \in Pairs :
    Finished ~> (~ring[p].writing \/ WriterExited(p) \/ []WriterBlocked(p))

(***************************************************************************)
(* wait_for_cmd says of a lost Messenger: "Lost connection with Messenger. *)
(* Defaulting to CMD_QUIT."  So when the Messenger is gone, every process  *)
(* should exit.                                                            *)
(***************************************************************************)
LostMessengerQuits ==
  \A p \in Pairs : MessengerAt("dead") ~> (WriterExited(p) /\ ReaderExited(p))
=============================================================================
