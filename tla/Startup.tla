------------------------------ MODULE Startup ------------------------------
(***************************************************************************)
(* How the programs find each other.  dada_db_simple makes the data block  *)
(* of a pair; a Writer and a Reader attach to it, listen on their ports    *)
(* and accept one connection in their life (serve); the Messenger connects *)
(* to the Writer and the Reader of every pair in turn (conn) and gives up  *)
(* at the first that fails.  Any program may end at any time, is run again *)
(* by hand, in any order, and knows nothing of its earlier runs.           *)
(*                                                                         *)
(* A listening port takes connections whether its process is going to      *)
(* accept them or not: they wait in the queue of the kernel, and outlive   *)
(* there the Messenger that made them.                                     *)
(***************************************************************************)
EXTENDS Naturals, Sequences

CONSTANTS NRWPAIRS,   \* number of Reader/Writer pairs (messenger.c)
          Backlog,    \* length of a queue of connections, 5 in listen()
          MaxLives,   \* bound: runs of the Messenger
          MaxRuns     \* bound: runs of each Writer and Reader

ASSUME StartupAssumption == /\ NRWPAIRS \in Nat \ {0}
                            /\ {Backlog, MaxLives, MaxRuns} \subseteq Nat

VARIABLES key,        \* key[p]: does the key of pair p name a data block?
          process,    \* process[i]: Writer or Reader i
          queue,      \* queue[i]: connections to i that wait to be accepted, oldest first
          messenger,  \* the Messenger
          reached,    \* reached[i]: the run of i that this Messenger has connected to
          began       \* history: the runs of the Messenger that came to its main loop

vars == <<key, process, queue, messenger, reached, began>>

\* In the order in which they are connected to: Writer and Reader of pair 1, of pair 2, ...
Pair == 1..NRWPAIRS
Process == 1..(2 * NRWPAIRS)
Writers == {i \in Process : i % 2 = 1}
PairOf(i) == (i + 1) \div 2

(***************************************************************************)
(*   pc "down"    not running                                              *)
(*      "accept"  waiting in accept()                                      *)
(*      "serve"   in the main loop, about to look at its connection        *)
(*      "pass"    in the rest of a pass of its started state               *)
(*      "caught"  there, waiting in ipcio_read or ipcio_write              *)
(***************************************************************************)
ProcessState == [pc     : {"down", "accept", "serve", "pass", "caught"},
                 run    : 0..MaxRuns,    \* how often it has been run
                 client : 0..MaxLives,   \* the run of the Messenger it serves, or 0
                 over   : BOOLEAN]       \* of its connection, only the end is still unread

MessengerState == [pc   : {"down", "connect", "open", "run"},
                   life : 0..MaxLives,    \* how often it has been run
                   next : Process]        \* the process it connects to next

Init ==
  /\ key = [p \in Pair |-> FALSE]
  /\ process = [i \in Process |-> [pc |-> "down", run |-> 0, client |-> 0, over |-> FALSE]]
  /\ queue = [i \in Process |-> <<>>]
  /\ messenger = [pc |-> "down", life |-> 0, next |-> 1]
  /\ reached = [i \in Process |-> 0]
  /\ began = {}

Up(i) == process[i].pc # "down"

-----------------------------------------------------------------------------
(* dada_db_simple. *)

\* The block is there also when locking or paging it fails and dada_db_simple returns -1.
Create(p) ==
  /\ ~key[p]
  /\ key' = [key EXCEPT ![p] = TRUE]
  /\ UNCHANGED <<process, queue, messenger, reached, began>>

\* Processes that are attached go on with the block they have.
Destroy(p) ==
  /\ key[p]
  /\ key' = [key EXCEPT ![p] = FALSE]
  /\ UNCHANGED <<process, queue, messenger, reached, began>>

-----------------------------------------------------------------------------
(* A Writer or a Reader. *)

Becomes(i, pc) == process' = [process EXCEPT ![i].pc = pc]

\* ipcio_connect, then socket, bind and listen in serve.  With no block, or when one of them
\* or the opening of the skip log fails, the process exits before it can be reached.
Run(i) ==
  /\ ~Up(i) /\ process[i].run < MaxRuns
  /\ key[PairOf(i)]
  /\ process' = [process EXCEPT ![i] = [pc |-> "accept", run |-> @.run + 1,
                                        client |-> 0, over |-> FALSE]]
  /\ queue' = [queue EXCEPT ![i] = <<>>]
  /\ UNCHANGED <<key, messenger, reached, began>>

Served(i) == process' = [process EXCEPT ![i].pc = "serve", ![i].client = Head(queue[i])]

\* An error: a Writer that cannot open its raw socket waits for another connection.
AcceptAgain(i) ==
  process[i].pc = "accept" /\ queue[i] # <<>> /\ queue' = [queue EXCEPT ![i] = Tail(@)]
    /\ \/ Served(i)
       \/ i \in Writers /\ UNCHANGED process
    /\ UNCHANGED <<key, messenger, reached, began>>

\* A Writer opens its raw socket only now; if it cannot, it exits.
Accept(i) ==
  /\ process[i].pc = "accept" /\ queue[i] # <<>>
  /\ queue' = [queue EXCEPT ![i] = Tail(@)]
  /\ \/ Served(i)
     \/ i \in Writers /\ Becomes(i, "down")
  /\ UNCHANGED <<key, messenger, reached, began>>

Alive(life) == messenger.pc # "down" /\ messenger.life = life

\* What is unread on a connection outlives its Messenger: commands first, then the end.
HangUp(i) ==
  /\ process[i].pc \in {"serve", "pass", "caught"}
  /\ ~Alive(process[i].client) /\ ~process[i].over
  /\ process' = [process EXCEPT ![i].over = TRUE]
  /\ UNCHANGED <<key, queue, messenger, reached, began>>

\* It has been started by a command, or is by the one it reads; the end is not next to be read.
Pass(i) ==
  /\ process[i].pc = "serve" /\ process[i].client \in began /\ ~process[i].over
  /\ Becomes(i, "pass")
  /\ UNCHANGED <<key, queue, messenger, reached, began>>

\* Its call on the data block has to wait for the other side, or has not.
Work(i) ==
  /\ process[i].pc = "pass"
  /\ \/ Becomes(i, "caught") \/ Becomes(i, "serve")
  /\ UNCHANGED <<key, queue, messenger, reached, began>>

Release(i) ==
  /\ process[i].pc = "caught"
  /\ Becomes(i, "serve")
  /\ UNCHANGED <<key, queue, messenger, reached, began>>

\* An error: the end of the connection is not taken for CMD_QUIT.
QuitNever(i) == FALSE /\ UNCHANGED vars

\* wait_for_cmd reads the end of the connection: CMD_QUIT.
Quit(i) ==
  /\ process[i].pc = "serve" /\ process[i].over
  /\ Becomes(i, "down")
  /\ UNCHANGED <<key, queue, messenger, reached, began>>

\* It is killed, or a call of it fails.
Die(i) ==
  /\ Up(i)
  /\ Becomes(i, "down")
  /\ UNCHANGED <<key, queue, messenger, reached, began>>

-----------------------------------------------------------------------------
(* The Messenger. *)

RunMessenger ==
  /\ messenger.pc = "down" /\ messenger.life < MaxLives
  /\ messenger' = [pc |-> "connect", life |-> messenger.life + 1, next |-> 1]
  /\ reached' = [i \in Process |-> 0]
  /\ UNCHANGED <<key, process, queue, began>>

\* An error: the loop over the processes goes one round too far.
ConnectOnceMore ==
  messenger.pc = "connect" /\ Up(messenger.next) /\ Len(queue[messenger.next]) < Backlog
    /\ queue' = [queue EXCEPT ![messenger.next] = Append(@, messenger.life)]
    /\ reached' = [reached EXCEPT ![messenger.next] = process[messenger.next].run]
    /\ messenger' = [messenger EXCEPT !.next = @ + 1]
    /\ UNCHANGED <<key, process, began>>

\* connect() returns as soon as the connection is in the queue.
Connect ==
  LET i == messenger.next IN
    /\ messenger.pc = "connect"
    /\ Up(i) /\ Len(queue[i]) < Backlog
    /\ queue' = [queue EXCEPT ![i] = Append(@, messenger.life)]
    /\ reached' = [reached EXCEPT ![i] = process[i].run]
    /\ messenger' = IF i = 2 * NRWPAIRS THEN [messenger EXCEPT !.pc = "open"]
                    ELSE [messenger EXCEPT !.next = i + 1]
    /\ UNCHANGED <<key, process, began>>

\* The multicast sockets and the event log.
Open ==
  /\ messenger.pc = "open"
  /\ messenger' = [messenger EXCEPT !.pc = "run"]
  /\ began' = began \union {messenger.life}
  /\ UNCHANGED <<key, process, queue, reached>>

\* A connection that is refused or not answered, a socket or a file that cannot be opened; or
\* it is killed.  Its connections are closed.
EndMessenger ==
  /\ messenger.pc # "down"
  /\ messenger' = [messenger EXCEPT !.pc = "down"]
  /\ UNCHANGED <<key, process, queue, reached, began>>

-----------------------------------------------------------------------------
Next ==
  \/ \E p \in Pair : Create(p) \/ Destroy(p)
  \/ \E i \in Process : \/ Run(i) \/ Accept(i) \/ HangUp(i) \/ Pass(i) \/ Work(i)
                         \/ Release(i) \/ Quit(i) \/ Die(i)
  \/ RunMessenger \/ Connect \/ Open \/ EndMessenger

Spec == Init /\ [][Next]_vars

\* A process that can go on does, and the end of a connection is not held up for ever; nobody
\* has to run or end a program, or to clear or fill a data block.
FairSpec ==
  Spec /\ \A i \in Process : /\ WF_vars(Accept(i)) /\ WF_vars(HangUp(i))
                             /\ WF_vars(Work(i)) /\ WF_vars(Quit(i))

-----------------------------------------------------------------------------
TypeOK ==
  /\ key \in [Pair -> BOOLEAN]
  /\ process \in [Process -> ProcessState]
  /\ queue \in [Process -> Seq(1..MaxLives)] /\ \A i \in Process : Len(queue[i]) <= Backlog
  /\ messenger \in MessengerState
  /\ reached \in [Process -> 0..MaxRuns]
  /\ began \subseteq 1..MaxLives

\* The one Messenger whose commands process i reads in this run, 0 if it has none yet.
Serves(i) ==
  IF process[i].pc # "accept" THEN process[i].client
  ELSE IF queue[i] = <<>> THEN 0 ELSE Head(queue[i])

Hears(i) == Up(i) /\ Serves(i) = messenger.life

(***************************************************************************)
(* A Messenger that has connected to a process is heard by it, or the      *)
(* process is going to exit: it has gone already, or it was reached by an  *)
(* earlier Messenger, whose connection, long closed, is the only one it    *)
(* will ever read.                                                         *)
(***************************************************************************)
HeardOrEnding ==
  \A i \in Process :
    /\ messenger.pc # "down" /\ reached[i] # 0
    => \/ Hears(i)
       \/ ~Up(i) \/ process[i].run # reached[i]
       \/ Serves(i) \in 1..(messenger.life - 1)

(***************************************************************************)
(* A startup that fails half way, or a Messenger that ends later, takes    *)
(* down every process it has reached, also one that had not yet accepted   *)
(* its connection, unless a process is caught for good in a call on its    *)
(* data block, which it may come to after the Messenger is gone, obeying   *)
(* what it had been sent: nothing else waits for a Messenger that is gone. *)
(***************************************************************************)
ReachedProcessesEnd ==
  \A i \in Process :
    Up(i) /\ Serves(i) # 0 /\ ~Alive(Serves(i)) ~> (~Up(i) \/ [](process[i].pc = "caught"))
=============================================================================
