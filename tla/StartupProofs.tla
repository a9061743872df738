--------------------------- MODULE StartupProofs ---------------------------
(***************************************************************************)
(* Proofs that the safety properties of Startup hold for any number of     *)
(* pairs, any queue of connections and any number of runs.                 *)
(***************************************************************************)
EXTENDS Startup, SequenceTheorems, TLAPS

-----------------------------------------------------------------------------
(* Type correctness. *)

\* The constants are numbers.
LEMMA Numbers ==
  /\ Backlog \in Nat /\ MaxLives \in Nat /\ MaxRuns \in Nat
  /\ NRWPAIRS \in Nat \ {0}
BY StartupAssumption

\* Each process belongs to a pair, and the Messenger's loop goes from one to the next.
LEMMA Processes ==
  /\ 1 \in Process
  /\ \A i \in Process : PairOf(i) \in Pair /\ (i # 2 * NRWPAIRS => i + 1 \in Process)
BY Numbers DEF Process, PairOf, Pair

\* What is left of a queue, or comes to it, is a queue of connections.
LEMMA Queues ==
  ASSUME NEW n \in Nat, NEW q \in Seq(1..n)
  PROVE  /\ Len(q) \in Nat
         /\ q # <<>> => /\ Head(q) \in 1..n /\ Head(q) \in 0..n /\ Tail(q) \in Seq(1..n)
                        /\ Len(Tail(q)) = Len(q) - 1
         /\ \A k \in 1..n : Append(q, k) \in Seq(1..n) /\ Len(Append(q, k)) = Len(q) + 1
<1>1. Len(q) \in Nat
  BY LenProperties
<1>2. ASSUME q # <<>>
      PROVE  Head(q) \in 1..n /\ Tail(q) \in Seq(1..n) /\ Len(Tail(q)) = Len(q) - 1
  BY <1>2, HeadTailProperties
<1>3. ASSUME NEW k \in 1..n PROVE Append(q, k) \in Seq(1..n) /\ Len(Append(q, k)) = Len(q) + 1
  BY AppendProperties
<1> QED
  BY <1>1, <1>2, <1>3

\* One process changes, and the others do not.
LEMMA ProcessType ==
  ASSUME TypeOK, NEW i \in Process, NEW x \in ProcessState,
         process' = [process EXCEPT ![i] = x]
  PROVE  process' \in [Process -> ProcessState]
BY DEF TypeOK

LEMMA BecomesType ==
  ASSUME TypeOK, NEW i \in Process, NEW pc \in {"down", "accept", "serve", "pass", "caught"},
         Becomes(i, pc)
  PROVE  process' \in [Process -> ProcessState]
BY DEF TypeOK, Becomes, ProcessState

\* The steps of a process that is past accept(), and its death.
Serving(i) == HangUp(i) \/ Pass(i) \/ Work(i) \/ Release(i) \/ Quit(i) \/ Die(i)

\* A Messenger that runs has been run: the connections it makes are told from none.
HasRun == messenger.pc # "down" => messenger.life # 0

\* The programs' states and the queues stay well formed.
THEOREM TypeCorrect == Spec => [](TypeOK /\ HasRun)
<1> USE Numbers, Processes
<1>1. Init => TypeOK /\ HasRun
  BY DEF Init, TypeOK, ProcessState, MessengerState, HasRun
<1>2. TypeOK /\ HasRun /\ [Next]_vars => HasRun'
  <2> SUFFICES ASSUME TypeOK, HasRun, [Next]_vars PROVE HasRun'
    OBVIOUS
  <2>1. CASE RunMessenger
    BY <2>1 DEF RunMessenger, TypeOK, MessengerState, HasRun
  <2>2. CASE Connect \/ Open \/ EndMessenger
    BY <2>2 DEF Connect, Open, EndMessenger, TypeOK, MessengerState, HasRun
  <2>3. ASSUME messenger' = messenger PROVE HasRun'
    BY <2>3 DEF HasRun
  <2> QED
    BY <2>1, <2>2, <2>3 DEF Next, vars, Create, Destroy, Run, Accept, HangUp, Pass,
                            Work, Release, Quit, Die
<1>3. TypeOK /\ HasRun /\ [Next]_vars => TypeOK'
  <2> SUFFICES ASSUME TypeOK, HasRun, [Next]_vars PROVE TypeOK'
    OBVIOUS
  <2>1. ASSUME NEW p \in Pair, Create(p) \/ Destroy(p) PROVE TypeOK'
    BY <2>1 DEF Create, Destroy, TypeOK
  <2>3. ASSUME NEW i \in Process, Run(i) PROVE TypeOK'
    <3> DEFINE x == [pc |-> "accept", run |-> process[i].run + 1, client |-> 0, over |-> FALSE]
    <3>1. x \in ProcessState
      <4>1. process[i].run \in 0..MaxRuns /\ process[i].run < MaxRuns
        BY <2>3 DEF Run, TypeOK, ProcessState
      <4>2. process[i].run + 1 \in 0..MaxRuns
        BY <4>1
      <4> QED
        BY <4>2 DEF ProcessState
    <3>2. process' = [process EXCEPT ![i] = x]
      BY <2>3 DEF Run
    <3>3. process' \in [Process -> ProcessState]
      BY <3>1, <3>2, ProcessType
    <3>4. queue' \in [Process -> Seq(1..MaxLives)] /\ \A j \in Process : Len(queue'[j]) <= Backlog
      BY <2>3 DEF Run, TypeOK
    <3> QED
      BY <2>3, <3>3, <3>4 DEF Run, TypeOK
  <2>4. ASSUME NEW i \in Process, Accept(i) PROVE TypeOK'
    <3>1. /\ queue[i] \in Seq(1..MaxLives) /\ queue[i] # <<>>
          /\ Len(queue[i]) <= Backlog
      BY <2>4 DEF Accept, TypeOK
    <3>2. /\ Tail(queue[i]) \in Seq(1..MaxLives) /\ Head(queue[i]) \in 0..MaxLives
          /\ Len(Tail(queue[i])) <= Backlog
      <4>1. /\ Tail(queue[i]) \in Seq(1..MaxLives) /\ Head(queue[i]) \in 0..MaxLives
            /\ Len(queue[i]) \in Nat /\ Len(Tail(queue[i])) = Len(queue[i]) - 1
        BY <3>1, Queues
      <4> QED
        BY <3>1, <4>1
    <3>3. queue' \in [Process -> Seq(1..MaxLives)] /\ \A j \in Process : Len(queue'[j]) <= Backlog
      BY <2>4, <3>2 DEF Accept, TypeOK
    <3>4. process' \in [Process -> ProcessState]
      <4>1. CASE Served(i)
        BY <4>1, <3>2 DEF Served, TypeOK, ProcessState
      <4> QED
        BY <2>4, <4>1, BecomesType DEF Accept
    <3> QED
      BY <2>4, <3>3, <3>4 DEF Accept, TypeOK
  <2>5. ASSUME NEW i \in Process, Serving(i) PROVE TypeOK'
    <3>1. UNCHANGED <<key, queue, messenger, reached, began>>
      BY <2>5 DEF Serving, HangUp, Pass, Work, Release, Quit, Die
    <3>2. process' \in [Process -> ProcessState]
      <4>1. CASE HangUp(i)
        <5>1. [process[i] EXCEPT !.over = TRUE] \in ProcessState
          BY DEF TypeOK, ProcessState
        <5>2. process' = [process EXCEPT ![i] = [process[i] EXCEPT !.over = TRUE]]
          BY <4>1 DEF HangUp
        <5> QED
          BY <5>1, <5>2, ProcessType
      <4>2. CASE \E pc \in {"down", "serve", "pass", "caught"} : Becomes(i, pc)
        BY <4>2, BecomesType
      <4> QED
        BY <2>5, <4>1, <4>2 DEF Serving, Pass, Work, Release, Quit, Die
    <3> QED
      BY <3>1, <3>2 DEF TypeOK
  <2>6. CASE RunMessenger
    <3>1. messenger.life + 1 \in 0..MaxLives
      <4>1. messenger.life \in 0..MaxLives /\ messenger.life < MaxLives
        BY <2>6 DEF RunMessenger, TypeOK, MessengerState
      <4> QED
        BY <4>1
    <3>2. messenger' \in MessengerState /\ reached' \in [Process -> 0..MaxRuns]
      BY <2>6, <3>1 DEF RunMessenger, MessengerState
    <3> QED
      BY <2>6, <3>2 DEF RunMessenger, TypeOK
  <2>7. CASE Connect
    <3> DEFINE i == messenger.next
    <3>1. /\ messenger \in MessengerState /\ i \in Process /\ messenger.life \in 0..MaxLives
      BY DEF TypeOK, MessengerState
    <3>2. messenger' \in MessengerState
      BY <2>7, <3>1 DEF Connect, MessengerState
    <3>3. reached' \in [Process -> 0..MaxRuns]
      BY <2>7, <3>1 DEF Connect, TypeOK, ProcessState
    <3>4. messenger.life \in 1..MaxLives
      BY <2>7, <3>1 DEF Connect, HasRun
    <3>5. /\ Append(queue[i], messenger.life) \in Seq(1..MaxLives)
          /\ Len(Append(queue[i], messenger.life)) <= Backlog
      <4>1. queue[i] \in Seq(1..MaxLives) /\ Len(queue[i]) < Backlog /\ Len(queue[i]) \in Nat
        BY <2>7, <3>1, Queues DEF Connect, TypeOK
      <4> QED
        BY <3>4, <4>1, Queues
    <3>6. queue' \in [Process -> Seq(1..MaxLives)] /\ \A j \in Process : Len(queue'[j]) <= Backlog
      BY <2>7, <3>1, <3>5 DEF Connect, TypeOK
    <3> QED
      BY <2>7, <3>2, <3>3, <3>6 DEF Connect, TypeOK
  <2>8. CASE Open
    <3>1. messenger.life \in 1..MaxLives
      BY <2>8 DEF Open, HasRun, TypeOK, MessengerState
    <3> QED
      BY <2>8, <3>1 DEF Open, TypeOK, MessengerState
  <2>10. CASE EndMessenger
    BY <2>10 DEF EndMessenger, TypeOK, MessengerState
  <2>9. CASE UNCHANGED vars
    BY <2>9 DEF vars, TypeOK
  <2> QED
    BY <2>1, <2>3, <2>4, <2>5, <2>6, <2>7, <2>8, <2>9, <2>10 DEF Next, Serving
<1> QED
  BY <1>1, <1>2, <1>3, PTL DEF Spec
-----------------------------------------------------------------------------
(* Who hears whom. *)

\* A process reads the commands of a Messenger that has been run, and so will those who
\* wait in its queue; a Messenger that has reached the present run of a process is served
\* by it or waits there, if it is not an earlier one that does.
Heard(i) ==
  /\ reached[i] <= process[i].run
  /\ \A k \in 1..Len(queue[i]) : queue[i][k] \in 1..messenger.life
  /\ process[i].pc \in {"serve", "pass", "caught"} => process[i].client \in 1..messenger.life
  /\ process[i].pc = "accept" /\ messenger.pc # "down" /\ reached[i] # 0 /\ process[i].run = reached[i]
       => queue[i] # <<>>

\* What a process does itself keeps it heard; only running it anew ends that.
LEMMA ProcessKeepsHeard ==
  ASSUME TypeOK, NEW i \in Process, Heard(i),
         Run(i) \/ Accept(i) \/ Serving(i)
  PROVE  Heard(i)'
<1>1. /\ process \in [Process -> ProcessState] /\ queue \in [Process -> Seq(1..MaxLives)]
      /\ process[i].run \in Nat /\ reached[i] \in Nat
  BY Numbers DEF TypeOK, ProcessState
<1>2. CASE Run(i)
  <2>1. /\ process'[i].pc = "accept" /\ process'[i].run = process[i].run + 1 /\ queue'[i] = <<>>
        /\ UNCHANGED <<messenger, reached>>
    BY <1>1, <1>2 DEF Run
  <2>2. reached[i] <= process'[i].run /\ reached[i] # process'[i].run
    BY <1>1, <2>1 DEF Heard
  <2> QED
    BY <2>1, <2>2 DEF Heard
<1>3. CASE Accept(i)
  <2> DEFINE q == queue[i]
  <2>1. /\ q \in Seq(1..MaxLives) /\ q # <<>> /\ queue'[i] = Tail(q)
        /\ UNCHANGED <<messenger, reached>>
        /\ process'[i].run = process[i].run /\ process'[i].pc \in {"serve", "down"}
        /\ process'[i].pc = "serve" => process'[i].client = Head(q)
    BY <1>1, <1>3 DEF Accept, Served, Becomes, ProcessState
  <2>2. /\ Len(q) \in Nat \ {0} /\ Head(q) = q[1]
        /\ Len(Tail(q)) = Len(q) - 1 /\ \A k \in 1..Len(Tail(q)) : Tail(q)[k] = q[k + 1]
    BY <2>1, HeadTailProperties, EmptySeq
  <2>3. Head(q) \in 1..messenger.life
    BY <2>2 DEF Heard
  <2>4. ASSUME NEW k \in 1..Len(Tail(q)) PROVE Tail(q)[k] \in 1..messenger.life
    <3>1. k + 1 \in 1..Len(q)
      BY <2>2
    <3> QED
      BY <2>2, <3>1 DEF Heard
  <2> HIDE DEF q
  <2> QED
    BY <2>1, <2>3, <2>4 DEF Heard
<1>4. CASE Serving(i)
  <2>1. /\ UNCHANGED <<queue, messenger, reached>> /\ process'[i].run = process[i].run
        /\ process'[i].client = process[i].client
        /\ process'[i].pc \in {"serve", "pass", "caught"} =>
             process[i].pc \in {"serve", "pass", "caught"}
        /\ process'[i].pc # "accept"
    BY <1>1, <1>4 DEF Serving, HangUp, Pass, Work, Release, Quit, Die, Becomes,
                            ProcessState
  <2> QED
    BY <2>1 DEF Heard
<1> QED
  BY <1>2, <1>3, <1>4

\* The Messenger's steps do too, whichever process it connects to.
LEMMA MessengerKeepsHeard ==
  ASSUME TypeOK, HasRun, NEW j \in Process, Heard(j),
         RunMessenger \/ Connect \/ Open \/ EndMessenger
  PROVE  Heard(j)'
<1>1. /\ queue[j] \in Seq(1..MaxLives) /\ messenger.life \in Nat /\ messenger.next \in Process
      /\ process[j].run \in Nat /\ process' = process /\ messenger \in MessengerState
  BY Numbers DEF TypeOK, ProcessState, MessengerState, RunMessenger, Connect, Open, EndMessenger
<1>2. CASE RunMessenger
  <2>1. messenger'.life = messenger.life + 1 /\ queue' = queue /\ reached'[j] = 0
    BY <1>2 DEF RunMessenger
  <2>2. \A n \in 1..messenger.life : n \in 1..messenger'.life
    BY <1>1, <2>1
  <2> QED
    BY <1>1, <2>1, <2>2 DEF Heard
<1>3. CASE Connect
  <2>1. messenger'.life = messenger.life /\ messenger.life \in 1..messenger.life
    BY <1>1, <1>3 DEF Connect, HasRun, MessengerState
  <2>2. CASE j = messenger.next
    <3> DEFINE q == queue[j]
    <3>1. queue'[j] = Append(q, messenger.life) /\ reached'[j] = process[j].run
      BY <1>3, <2>2 DEF Connect, TypeOK
    <3>2. messenger.life \in 1..MaxLives
      BY <2>1 DEF TypeOK, MessengerState
    <3>3. /\ Append(q, messenger.life) # <<>> /\ Len(Append(q, messenger.life)) = Len(q) + 1
          /\ \A k \in 1..Len(q) : Append(q, messenger.life)[k] = q[k]
          /\ Append(q, messenger.life)[Len(q) + 1] = messenger.life
          /\ Len(q) \in Nat
      <4>1. q \in Seq(1..MaxLives)
        BY <1>1
      <4>2. Len(q) \in Nat
        BY <4>1, LenProperties
      <4> HIDE DEF q
      <4> QED
        BY <3>2, <4>1, <4>2, AppendProperties
    <3>4. ASSUME NEW k \in 1..(Len(q) + 1)
          PROVE  Append(q, messenger.life)[k] \in 1..messenger.life
      <4>1. CASE k \in 1..Len(q)
        BY <3>3, <4>1 DEF Heard
      <4>2. CASE k = Len(q) + 1
        BY <2>1, <3>3, <4>2
      <4> QED
        BY <3>3, <4>1, <4>2
    <3> HIDE DEF q
    <3> QED
      BY <1>1, <2>1, <3>1, <3>3, <3>4 DEF Heard
  <2>3. CASE j # messenger.next
    <3>1. queue'[j] = queue[j] /\ reached'[j] = reached[j] /\ messenger.pc # "down"
      BY <1>3, <2>3 DEF Connect, TypeOK
    <3> QED
      BY <1>1, <2>1, <3>1 DEF Heard
  <2> QED
    BY <2>2, <2>3
<1>4. CASE Open \/ EndMessenger
  <2>1. /\ messenger'.life = messenger.life /\ UNCHANGED <<queue, reached>>
        /\ messenger'.pc # "down" => messenger.pc # "down"
    BY <1>1, <1>4 DEF Open, EndMessenger, MessengerState
  <2> QED
    BY <1>1, <2>1 DEF Heard
<1> QED
  BY <1>2, <1>3, <1>4

\* A Messenger that has connected to a process is heard by it, unless the process has
\* ended or is going to, serving an earlier Messenger that is gone.
THEOREM HeardOrEnds == Spec => []HeardOrEnding
<1> DEFINE Inv == \A i \in Process : Heard(i)
<1>1. Init => Inv
  BY DEF Init, Heard
<1>2. TypeOK /\ HasRun /\ Inv /\ [Next]_vars => Inv'
  <2> SUFFICES ASSUME TypeOK, HasRun, Inv, [Next]_vars, NEW j \in Process PROVE Heard(j)'
    OBVIOUS
  <2>0. Heard(j)
    OBVIOUS
  <2> HIDE DEF Inv
  <2>1. ASSUME NEW i \in Process, Run(i) \/ Accept(i) \/ Serving(i)
        PROVE  Heard(j)'
    <3>1. CASE i = j
      BY <2>0, <2>1, <3>1, ProcessKeepsHeard
    <3>2. CASE i # j
      <4>1. /\ process'[j] = process[j] /\ queue'[j] = queue[j]
            /\ UNCHANGED <<messenger, reached>>
        BY <2>1, <3>2 DEF Run, Accept, Served, Serving, HangUp, Pass, Work, Release, Quit,
                               Die, Becomes, TypeOK
      <4> QED
        BY <2>0, <4>1 DEF Heard
    <3> QED
      BY <3>1, <3>2
  <2>2. CASE RunMessenger \/ Connect \/ Open \/ EndMessenger
    BY <2>0, <2>2, MessengerKeepsHeard
  <2>3. ASSUME UNCHANGED <<process, queue, messenger, reached>> PROVE Heard(j)'
    BY <2>0, <2>3 DEF Heard
  <2>4. ASSUME NEW p \in Pair, Create(p) \/ Destroy(p) PROVE Heard(j)'
    BY <2>3, <2>4 DEF Create, Destroy
  <2> QED
    BY <2>1, <2>2, <2>3, <2>4 DEF Next, Serving, vars
<1>3. TypeOK /\ Inv => HeardOrEnding
  <2> SUFFICES ASSUME TypeOK, Inv, NEW i \in Process, messenger.pc # "down", reached[i] # 0,
                      Up(i), process[i].run = reached[i]
               PROVE  Serves(i) = messenger.life \/ Serves(i) \in 1..(messenger.life - 1)
    BY DEF HeardOrEnding, Hears
  <2>1. /\ Heard(i) /\ messenger.life \in Nat /\ queue[i] \in Seq(1..MaxLives)
        /\ process[i].pc \in {"accept", "serve", "pass", "caught"}
    BY Numbers DEF TypeOK, MessengerState, ProcessState, Up
  <2>2. CASE process[i].pc = "accept"
    <3>1. queue[i] # <<>>
      BY <2>1, <2>2 DEF Heard
    <3>2. Head(queue[i]) = queue[i][1] /\ 1 \in 1..Len(queue[i])
      BY <2>1, <3>1, EmptySeq
    <3>3. Serves(i) \in 1..messenger.life
      BY <2>1, <2>2, <3>1, <3>2 DEF Heard, Serves
    <3> QED
      BY <2>1, <3>3
  <2>3. CASE process[i].pc # "accept"
    <3>1. Serves(i) \in 1..messenger.life
      BY <2>1, <2>3 DEF Heard, Serves
    <3> QED
      BY <2>1, <3>1
  <2> QED
    BY <2>2, <2>3
<1> QED
  BY <1>1, <1>2, <1>3, TypeCorrect, PTL DEF Spec
=============================================================================
