--------------------------- MODULE CommandsProofs ---------------------------
(***************************************************************************)
(* What wait_for_cmd's search through a backlog finds, for every backlog:  *)
(* the lemmas on LastNonEvent that the proofs about Capture rest on.       *)
(***************************************************************************)
EXTENDS Commands, WellFoundedInduction, TLAPS

LOCAL Index(s) == {i \in 1..Len(s) : s[i] # CMD_EVENT}

\* The command characters, CMD_NONE and an unrecognised byte are all different.
LEMMA CommandsDiffer ==
  /\ CMD_EVENT \notin {CMD_START, CMD_STOP, CMD_QUIT, CMD_NONE, UNRECOGNIZED}
  /\ CMD_START \notin {CMD_STOP, CMD_QUIT, CMD_EVENT, CMD_NONE, UNRECOGNIZED}
  /\ CMD_NONE \notin Byte
BY DEF CMD_EVENT, CMD_START, CMD_STOP, CMD_QUIT, CMD_NONE, UNRECOGNIZED, Byte, Command

\* A nonempty set of numbers up to n has a greatest element.
LEMMA MaxIsGreatest ==
  ASSUME NEW n \in Nat, NEW I \in SUBSET (1..n), I # {}
  PROVE  Max(I) \in I /\ \A i \in I : i <= Max(I)
<1> DEFINE T == {n - i : i \in I}
<1>1. T \subseteq Nat /\ T # {}
  <2>1. \A i \in I : i \in 1..n /\ n - i \in Nat
    OBVIOUS
  <2>2. PICK i \in I : TRUE
    OBVIOUS
  <2>3. n - i \in T
    OBVIOUS
  <2> QED
    BY <2>1, <2>3
<1>2. PICK t \in T : \A u \in T : <<u, t>> \notin OpToRel(<, Nat)
  BY <1>1, WFMin, NatLessThanWellFounded
<1>3. PICK m \in I : t = n - m
  OBVIOUS
<1>4. \A i \in I : m >= i
  <2> TAKE i \in I
  <2>1. n - i \in Nat /\ t \in Nat /\ <<n - i, t>> \notin OpToRel(<, Nat)
    BY <1>1, <1>2
  <2>2. ~ (n - i < t)
    BY <2>1 DEF OpToRel
  <2> QED
    BY <2>2, <1>3
<1> QED
  BY <1>4 DEF Max

\* LastNonEvent is the greatest position that holds no event, and 0 without one.
LEMMA LastNonEventRange ==
  ASSUME NEW s \in Seq(Byte)
  PROVE  /\ LastNonEvent(s) \in 0..Len(s)
         /\ LastNonEvent(s) = 0 => \A i \in 1..Len(s) : s[i] = CMD_EVENT
         /\ LastNonEvent(s) # 0 => /\ s[LastNonEvent(s)] \in Byte \ {CMD_EVENT}
                                   /\ \A i \in LastNonEvent(s)+1..Len(s) : s[i] = CMD_EVENT
<1>1. LastNonEvent(s) = IF Index(s) # {} THEN Max(Index(s)) ELSE 0
  BY DEF LastNonEvent, SelectLastInSeq, Index
<1>2. CASE Index(s) = {}
  BY <1>1, <1>2 DEF Index
<1>3. CASE Index(s) # {}
  <2>1. Max(Index(s)) \in Index(s) /\ \A i \in Index(s) : i <= Max(Index(s))
    <3>1. Len(s) \in Nat /\ Index(s) \in SUBSET (1..Len(s))
      BY DEF Index
    <3> QED
      BY <1>3, <3>1, MaxIsGreatest
  <2> DEFINE k == LastNonEvent(s)
  <2>2. k = Max(Index(s))
    BY <1>1, <1>3
  <2>3. k \in 1..Len(s) /\ s[k] # CMD_EVENT /\ \A i \in 1..Len(s) : s[i] # CMD_EVENT => i <= k
    BY <2>1, <2>2 DEF Index
  <2> HIDE DEF k
  <2>4. \A i \in k+1..Len(s) : s[i] = CMD_EVENT
    BY <2>3
  <2>5. s[k] \in Byte
    BY <2>3
  <2> QED
    BY <2>3, <2>4, <2>5 DEF k
<1> QED
  BY <1>2, <1>3

\* Such a position is unique.
LEMMA LastNonEventIs ==
  ASSUME NEW s \in Seq(Byte), NEW k \in 0..Len(s),
         k # 0 => s[k] # CMD_EVENT,
         \A i \in k+1..Len(s) : s[i] = CMD_EVENT
  PROVE  LastNonEvent(s) = k
<1> DEFINE l == LastNonEvent(s)
<1>1. l \in 0..Len(s) /\ (l # 0 => s[l] # CMD_EVENT) /\ \A i \in l+1..Len(s) : s[i] = CMD_EVENT
  BY LastNonEventRange
<1> HIDE DEF l
<1>2. ~ (l < k)
  BY <1>1
<1>3. ~ (k < l)
  BY <1>1
<1> QED
  BY <1>1, <1>2, <1>3 DEF l

\* A request that arrives is the last one, whatever was waiting before it.
LEMMA AppendRequest ==
  ASSUME NEW s \in Seq(Byte), NEW b \in Byte \ {CMD_EVENT}
  PROVE  LastNonEvent(Append(s, b)) = Len(s) + 1
<1>1. Append(s, b) \in Seq(Byte) /\ Len(Append(s, b)) = Len(s) + 1 /\ Len(s) \in Nat
  OBVIOUS
<1>2. Append(s, b)[Len(s) + 1] # CMD_EVENT
  OBVIOUS
<1> DEFINE t == Append(s, b)
           k == Len(s) + 1
<1>3. t \in Seq(Byte) /\ k \in 0..Len(t) /\ t[k] # CMD_EVENT /\ \A i \in k+1..Len(t) : t[i] = CMD_EVENT
  BY <1>1, <1>2
<1> HIDE DEF t, k
<1>4. LastNonEvent(t) = k
  BY <1>3, LastNonEventIs
<1> QED
  BY <1>4 DEF t, k

\* An event that arrives leaves the last request as it was.
LEMMA AppendEvent ==
  ASSUME NEW s \in Seq(Byte)
  PROVE  LastNonEvent(Append(s, CMD_EVENT)) = LastNonEvent(s)
<1> DEFINE k == LastNonEvent(s)
           t == Append(s, CMD_EVENT)
<1>1. k \in 0..Len(s) /\ (k # 0 => s[k] # CMD_EVENT) /\ \A i \in k+1..Len(s) : s[i] = CMD_EVENT
  BY LastNonEventRange
<1>2. t \in Seq(Byte) /\ Len(t) = Len(s) + 1 /\ Len(s) \in Nat
  BY DEF Byte, Command
<1> HIDE DEF k
<1>3. k # 0 => t[k] # CMD_EVENT
  BY <1>1
<1>4. \A i \in k+1..Len(t) : t[i] = CMD_EVENT
  BY <1>1, <1>2
<1>5. k \in 0..Len(t)
  BY <1>1, <1>2
<1> HIDE DEF t
<1>6. LastNonEvent(t) = k
  BY <1>2, <1>3, <1>4, <1>5, LastNonEventIs
<1> QED
  BY <1>6 DEF k, t

\* With nothing waiting there is no request.
LEMMA EmptyHasNoRequest ==
  LastNonEvent(<<>>) = 0
<1> DEFINE s == <<>>
<1>1. s \in Seq(Byte) /\ Len(s) = 0
  OBVIOUS
<1> HIDE DEF s
<1>2. LastNonEvent(s) \in 0..Len(s)
  BY <1>1, LastNonEventRange
<1> QED
  BY <1>1, <1>2 DEF s

\* wait_for_cmd returns one of the four commands or CMD_NONE.
LEMMA WaitForCmdType ==
  ASSUME NEW s \in Seq(Byte)
  PROVE  WaitForCmd(s) \in Command \union {CMD_NONE}
<1>1. \A b : Decode(b) \in Command \union {CMD_NONE}
  BY DEF Decode
<1>2. CMD_QUIT \in Command
  BY DEF Command
<1> QED
  BY <1>1, <1>2, Zenon DEF WaitForCmd

\* What wait_for_cmd returns is the last request waiting, if there is one; without one
\* it returns no command to start, to stop or, unless the peer is gone, to quit.
LEMMA WaitForCmdObeysLastRequest ==
  ASSUME NEW s \in Seq(Byte)
  PROVE  /\ LastNonEvent(s) # 0 => WaitForCmd(s) = Decode(s[LastNonEvent(s)])
         /\ LastNonEvent(s) = 0 /\ s # <<>> => WaitForCmd(s) \in {CMD_EVENT, CMD_NONE}
         /\ s = <<>> => WaitForCmd(s) = CMD_QUIT
<1> DEFINE k == LastNonEvent(s)
<1>1. /\ k \in 0..Len(s)
      /\ k = 0 => \A i \in 1..Len(s) : s[i] = CMD_EVENT
  BY LastNonEventRange
<1>2. CASE s = <<>>
  <2>1. k = 0
    BY EmptyHasNoRequest, <1>2
  <2>2. Len(s) # 1
    BY <1>2
  <2>3. WaitForCmd(s) = CMD_QUIT
    BY <1>2, <2>2, Zenon DEF WaitForCmd
  <2> QED
    BY <1>2, <2>1, <2>3
<1>3. CASE s # <<>> /\ Len(s) = 1
  <2>1. WaitForCmd(s) = Decode(s[1])
    BY <1>3, Zenon DEF WaitForCmd
  <2>2. k # 0 => k = 1
    BY <1>1, <1>3
  <2>3. k = 0 => Decode(s[1]) = CMD_EVENT
    BY <1>1, <1>3 DEF Decode, Command
  <2> QED
    BY <1>3, <2>1, <2>2, <2>3
<1>4. CASE s # <<>> /\ Len(s) # 1
  <2>1. WaitForCmd(s) = IF k = 0 THEN CMD_NONE ELSE Decode(s[k])
    BY <1>4, Zenon DEF WaitForCmd
  <2> QED
    BY <1>4, <2>1
<1> QED
  BY <1>2, <1>3, <1>4
=============================================================================
