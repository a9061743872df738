-------------------------- MODULE DbUnwrapProofs --------------------------
(***************************************************************************)
(* Proofs that db_unwrap does what it is for with every file, of any       *)
(* length and with frame numbers of any range.                             *)
(***************************************************************************)
EXTENDS DbUnwrap, FiniteSetTheorems, SequenceTheorems, TLAPS

-----------------------------------------------------------------------------
(* Frame numbers. *)

\* Below its end a count is its own remainder, and at its end the remainder is 0.
LEMMA Remainder ==
  ASSUME NEW n \in Nat, NEW m \in 0..n
  PROVE  (m + 1) % (n + 1) = IF m = n THEN 0 ELSE m + 1
OBVIOUS

\* A jump is where numbers do not run on.
LEMMA JumpIs ==
  ASSUME NEW m \in 0..MAXFRAMENUM, NEW n \in 0..MAXFRAMENUM
  PROVE  Jump(m, n) <=> ~RunsOn(m, n)
<1>1. MAXFRAMENUM \in Nat
  BY FrameAssumption
<1>2. (m + 1) % (MAXFRAMENUM + 1) = IF m = MAXFRAMENUM THEN 0 ELSE m + 1
  BY <1>1, Remainder
<1> QED
  BY <1>1, <1>2 DEF Jump, RunsOn

-----------------------------------------------------------------------------
(* The scan. *)

\* The scan keeps the number of the last packet of each thread.
LastFrames ==
  \A t \in Thread :
    \/ framenum[t] = -1 /\ \A j \in 1..pos : file[j].thread # t
    \/ \E j \in 1..pos : /\ file[j].thread = t /\ framenum[t] = file[j].num
                         /\ \A k \in (j + 1)..pos : file[k].thread # t

\* The test of the scan sees whether the packet at hand is discontinuous.
LEMMA ScanSees ==
  ASSUME file \in Seq(Frame), pos \in 0..(Len(file) - 1), LastFrames
  PROVE  Jump(framenum[file[pos + 1].thread], file[pos + 1].num)
           <=> DiscontinuousAt(file, pos + 1)
<1> DEFINE i == pos + 1
           t == file[i].thread
<1>1. i \in 1..Len(file) /\ i - 1 = pos /\ pos \in Nat
  OBVIOUS
<1>2. t \in Thread /\ file[i].num \in 0..MAXFRAMENUM
  <2>1. file[i] \in Frame
    BY <1>1
  <2> QED
    BY <2>1 DEF Frame
<1>3. CASE framenum[t] = -1 /\ \A j \in 1..pos : file[j].thread # t
  BY <1>1, <1>3 DEF Jump, DiscontinuousAt, Precedes
<1>4. ASSUME NEW j \in 1..pos, file[j].thread = t, framenum[t] = file[j].num,
             \A k \in (j + 1)..pos : file[k].thread # t
      PROVE  Jump(framenum[t], file[i].num) <=> DiscontinuousAt(file, i)
  <2>1. file[j].num \in 0..MAXFRAMENUM
    <3>1. file[j] \in Frame
      BY <1>1
    <3> QED
      BY <3>1 DEF Frame
  <2>2. Jump(framenum[t], file[i].num) <=> ~RunsOn(file[j].num, file[i].num)
    BY <1>2, <1>4, <2>1, JumpIs
  <2>3. Precedes(file, j, i)
    BY <1>1, <1>4 DEF Precedes
  <2>4. ASSUME NEW l \in 1..(i - 1), Precedes(file, l, i) PROVE l = j
    <3>1. ~(l < j) /\ ~(j < l)
      BY <1>1, <1>4, <2>4 DEF Precedes
    <3> QED
      BY <1>1, <3>1
  <2> QED
    BY <1>1, <2>2, <2>3, <2>4 DEF DiscontinuousAt
<1> QED
  BY <1>2, <1>3, <1>4 DEF LastFrames

\* The packets up to the n-th at which numbers do not run on, all and of one thread.
JumpsTo(n) == {i \in 1..n : DiscontinuousAt(file, i)}
JumpsOf(t, n) == {i \in JumpsTo(n) : file[i].thread = t}

\* What the scan has found in the first n packets.
Found(n) ==
  /\ \A t \in Thread : numdisc[t] = Cardinality(JumpsOf(t, n))
  /\ IF JumpsTo(n) = {} THEN framedisc = -1
     ELSE framedisc + 1 \in JumpsTo(n) /\ \A i \in JumpsTo(n) : framedisc + 1 <= i

ScanType ==
  /\ file \in Seq(Frame)
  /\ framenum \in [Thread -> -1..MAXFRAMENUM]
  /\ numdisc \in [Thread -> Nat]
  /\ framecount \in 0..Len(file) /\ pos \in 0..Len(file)
  /\ framedisc \in -1..(Len(file) - 1)

\* There are finitely many of them, and one more packet adds itself if its number does not
\* run on.
LEMMA JumpsAre ==
  ASSUME NEW n \in Nat, NEW t
  PROVE  /\ IsFiniteSet(JumpsOf(t, n)) /\ Cardinality(JumpsOf(t, n)) \in Nat
         /\ JumpsTo(0) = {} /\ JumpsOf(t, 0) = {}
         /\ JumpsTo(n + 1) = IF DiscontinuousAt(file, n + 1) THEN JumpsTo(n) \union {n + 1}
                             ELSE JumpsTo(n)
         /\ JumpsOf(t, n + 1) = IF DiscontinuousAt(file, n + 1) /\ file[n + 1].thread = t
                                THEN JumpsOf(t, n) \union {n + 1} ELSE JumpsOf(t, n)
         /\ n + 1 \notin JumpsOf(t, n)
<1>1. IsFiniteSet(1..n)
  BY FS_Interval
<1>2. JumpsOf(t, n) \subseteq 1..n
  BY DEF JumpsOf, JumpsTo
<1>3. IsFiniteSet(JumpsOf(t, n)) /\ Cardinality(JumpsOf(t, n)) \in Nat
  BY <1>1, <1>2, FS_Subset, FS_CardinalityType
<1>4. JumpsTo(n + 1) = IF DiscontinuousAt(file, n + 1) THEN JumpsTo(n) \union {n + 1}
                       ELSE JumpsTo(n)
  <2>1. 1..(n + 1) = 1..n \union {n + 1}
    OBVIOUS
  <2> QED
    BY <2>1 DEF JumpsTo
<1>5. JumpsOf(t, n + 1) = IF DiscontinuousAt(file, n + 1) /\ file[n + 1].thread = t
                          THEN JumpsOf(t, n) \union {n + 1} ELSE JumpsOf(t, n)
  BY <1>4 DEF JumpsOf
<1>6. JumpsTo(0) = {} /\ JumpsOf(t, 0) = {}
  BY DEF JumpsTo, JumpsOf
<1>7. n + 1 \notin JumpsOf(t, n)
  BY <1>2
<1> QED
  BY <1>3, <1>4, <1>5, <1>6, <1>7

\* A packet of the scan.
LEMMA ScanStep ==
  ASSUME ScanType, framecount = pos, LastFrames, Found(pos), Scan
  PROVE  /\ ScanType' /\ framecount' = pos' /\ pos' = pos + 1 /\ pos < Len(file)
         /\ LastFrames' /\ Found(pos)'
<1> DEFINE i == pos + 1
           f == file[i]
           jumps == DiscontinuousAt(file, i)
<1>1. /\ pos \in Nat /\ Len(file) \in Nat /\ pos < Len(file) /\ i \in 1..Len(file)
      /\ pos' = i /\ framecount' = i /\ file' = file
  BY DEF Scan, ScanType, AtEndOfFile
<1>2. f.thread \in Thread /\ f.num \in 0..MAXFRAMENUM
  <2>1. f \in Frame
    BY <1>1 DEF ScanType
  <2> QED
    BY <2>1 DEF Frame
<1>3. Jump(framenum[f.thread], f.num) <=> jumps
  BY <1>1, ScanSees DEF ScanType
<1>4. /\ framenum' = [framenum EXCEPT ![f.thread] = f.num]
      /\ numdisc' = [numdisc EXCEPT ![f.thread] = IF jumps THEN @ + 1 ELSE @]
      /\ framedisc' = IF jumps /\ framedisc = -1 THEN pos ELSE framedisc
  BY <1>3 DEF Scan
<1>5. ScanType'
  BY <1>1, <1>2, <1>4 DEF ScanType
<1>6. LastFrames'
  <2> SUFFICES ASSUME NEW t \in Thread
               PROVE  \/ framenum'[t] = -1 /\ \A j \in 1..i : file[j].thread # t
                      \/ \E j \in 1..i : /\ file[j].thread = t /\ framenum'[t] = file[j].num
                                         /\ \A k \in (j + 1)..i : file[k].thread # t
    BY <1>1 DEF LastFrames
  <2>1. CASE t = f.thread
    <3>1. framenum'[t] = f.num
      BY <1>4, <2>1 DEF ScanType
    <3>2. i \in 1..i /\ \A k \in (i + 1)..i : file[k].thread # t
      BY <1>1
    <3> QED
      BY <2>1, <3>1, <3>2
  <2>2. CASE t # f.thread
    <3>1. framenum'[t] = framenum[t]
      BY <1>4, <2>2 DEF ScanType
    <3>2. CASE framenum[t] = -1 /\ \A j \in 1..pos : file[j].thread # t
      BY <1>1, <2>2, <3>1, <3>2
    <3>3. ASSUME NEW j \in 1..pos, file[j].thread = t, framenum[t] = file[j].num,
                 \A k \in (j + 1)..pos : file[k].thread # t
          PROVE  /\ j \in 1..i /\ file[j].thread = t /\ framenum'[t] = file[j].num
                 /\ \A k \in (j + 1)..i : file[k].thread # t
      BY <1>1, <2>2, <3>1, <3>3
    <3> QED
      BY <3>2, <3>3 DEF LastFrames
  <2> QED
    BY <2>1, <2>2
<1>7. Found(pos)'
  <2>1. JumpsTo(pos)' = JumpsTo(i) /\ \A t \in Thread : JumpsOf(t, pos)' = JumpsOf(t, i)
    BY <1>1 DEF JumpsTo, JumpsOf, DiscontinuousAt, Precedes
  <2>2. JumpsTo(i) = IF jumps THEN JumpsTo(pos) \union {i} ELSE JumpsTo(pos)
    BY <1>1, JumpsAre
  <2>3. ASSUME NEW t \in Thread PROVE numdisc'[t] = Cardinality(JumpsOf(t, i))
    <3>1. numdisc[t] = Cardinality(JumpsOf(t, pos)) /\ IsFiniteSet(JumpsOf(t, pos))
      BY <1>1, JumpsAre DEF Found
    <3>2. CASE jumps /\ f.thread = t
      <4>1. JumpsOf(t, i) = JumpsOf(t, pos) \union {i} /\ i \notin JumpsOf(t, pos)
        BY <1>1, <3>2, JumpsAre
      <4>2. Cardinality(JumpsOf(t, i)) = Cardinality(JumpsOf(t, pos)) + 1
        BY <3>1, <4>1, FS_AddElement
      <4> QED
        BY <1>4, <3>1, <3>2, <4>2 DEF ScanType
    <3>3. CASE ~(jumps /\ f.thread = t)
      <4>1. JumpsOf(t, i) = JumpsOf(t, pos)
        BY <1>1, <3>3, JumpsAre
      <4>2. numdisc'[t] = numdisc[t]
        BY <1>4, <3>3 DEF ScanType
      <4> QED
        BY <3>1, <4>1, <4>2
    <3> QED
      BY <3>2, <3>3
  <2>4. IF JumpsTo(i) = {} THEN framedisc' = -1
        ELSE framedisc' + 1 \in JumpsTo(i) /\ \A k \in JumpsTo(i) : framedisc' + 1 <= k
    <3>1. JumpsTo(pos) \subseteq 1..pos
      BY DEF JumpsTo
    <3>2. IF JumpsTo(pos) = {} THEN framedisc = -1
          ELSE framedisc + 1 \in JumpsTo(pos) /\ \A k \in JumpsTo(pos) : framedisc + 1 <= k
      BY DEF Found
    <3>3. framedisc \in -1..(Len(file) - 1)
      BY DEF ScanType
    <3>4. CASE jumps /\ JumpsTo(pos) = {}
      <4>1. JumpsTo(i) = {i} /\ framedisc' = pos
        BY <1>4, <2>2, <3>2, <3>4
      <4> QED
        BY <1>1, <4>1
    <3>5. CASE JumpsTo(pos) # {}
      <4>1. framedisc + 1 \in 1..pos /\ framedisc' = framedisc
        BY <1>1, <1>4, <3>1, <3>2, <3>3, <3>5
      <4> QED
        BY <1>1, <2>2, <3>1, <3>2, <3>5, <4>1
    <3>6. CASE ~jumps /\ JumpsTo(pos) = {}
      BY <1>4, <2>2, <3>2, <3>6
    <3> QED
      BY <3>4, <3>5, <3>6
  <2> QED
    BY <2>1, <2>3, <2>4 DEF Found
<1> QED
  BY <1>1, <1>5, <1>6, <1>7
-----------------------------------------------------------------------------
(* The output. *)

\* The first n packets of the file, turned to where it was cut after w packets.
Turned(w, n) ==
  [i \in 1..n |-> IF i <= Len(file) - w THEN file[w + i] ELSE file[i - (Len(file) - w)]]

\* They are packets.
LEMMA TurnedType ==
  ASSUME file \in Seq(Frame), NEW w \in 0..Len(file), NEW n \in 0..Len(file)
  PROVE  Turned(w, n) \in Seq(Frame) /\ Len(Turned(w, n)) = n
<1> DEFINE S == Frame
           s == Turned(w, n)
<1>1. \A i \in 1..n :
        (IF i <= Len(file) - w THEN file[w + i] ELSE file[i - (Len(file) - w)]) \in S
  <2> SUFFICES ASSUME NEW i \in 1..n
               PROVE  (IF i <= Len(file) - w THEN file[w + i]
                       ELSE file[i - (Len(file) - w)]) \in S
    OBVIOUS
  <2>1. CASE i <= Len(file) - w
    <3>1. w + i \in 1..Len(file)
      BY <2>1
    <3> QED
      BY <2>1, <3>1
  <2>2. CASE ~(i <= Len(file) - w)
    <3>1. i - (Len(file) - w) \in 1..Len(file)
      BY <2>2
    <3> QED
      BY <2>2, <3>1
  <2> QED
    BY <2>1, <2>2
<1> HIDE DEF S
<1>2. s \in [1..n -> S]
  BY <1>1 DEF Turned
<1> HIDE DEF s
<1>3. s \in Seq(S) /\ Len(s) = n
  BY <1>2
<1> QED
  BY <1>3 DEF S, s

\* The next packet of either copying pass continues them.
LEMMA TurnedNext ==
  ASSUME file \in Seq(Frame), NEW w \in 0..Len(file), NEW n \in 0..(Len(file) - 1)
  PROVE  /\ n < Len(file) - w => Append(Turned(w, n), file[w + n + 1]) = Turned(w, n + 1)
         /\ n >= Len(file) - w =>
              Append(Turned(w, n), file[n - (Len(file) - w) + 1]) = Turned(w, n + 1)
<1> DEFINE s == Turned(w, n)
           t == Turned(w, n + 1)
<1>1. /\ s \in Seq(Frame) /\ Len(s) = n /\ n \in Nat
      /\ t \in Seq(Frame) /\ Len(t) = n + 1
  BY TurnedType
<1>2. \A i \in 1..n : s[i] = t[i]
  BY DEF Turned
<1>3. t[n + 1] \in Frame
  BY <1>1
<1>4. /\ n < Len(file) - w => t[n + 1] = file[w + n + 1]
      /\ n >= Len(file) - w => t[n + 1] = file[n - (Len(file) - w) + 1]
  BY DEF Turned
<1> HIDE DEF s, t
<1>5. Append(s, t[n + 1]) = t
  <2>1. /\ Append(s, t[n + 1]) \in Seq(Frame) /\ Len(Append(s, t[n + 1])) = n + 1
        /\ \A i \in 1..n : Append(s, t[n + 1])[i] = s[i]
        /\ Append(s, t[n + 1])[n + 1] = t[n + 1]
    BY <1>1, <1>3, AppendProperties
  <2>2. \A i \in 1..(n + 1) : Append(s, t[n + 1])[i] = t[i]
    BY <1>1, <1>2, <2>1
  <2> QED
    BY <1>1, <2>1, <2>2, SeqEqual
<1>6. /\ n < Len(file) - w => Append(s, file[w + n + 1]) = t
      /\ n >= Len(file) - w => Append(s, file[n - (Len(file) - w) + 1]) = t
  BY <1>4, <1>5
<1> QED
  BY <1>6 DEF s, t

\* All of them are the order of time.
LEMMA TurnedInTime ==
  ASSUME file \in Seq(Frame), NEW w \in 0..Len(file)
  PROVE  InTime(file, w) = Turned(w, Len(file))
<1> DEFINE a == SubSeq(file, w + 1, Len(file))
           b == SubSeq(file, 1, w)
           t == Turned(w, Len(file))
<1>1. Len(file) \in Nat /\ w \in Nat /\ w <= Len(file)
  OBVIOUS
<1>2. /\ a \in Seq(Frame) /\ Len(a) = Len(file) - w
      /\ \A i \in 1..(Len(file) - w) : a[i] = file[w + i]
      /\ b \in Seq(Frame) /\ Len(b) = w /\ \A i \in 1..w : b[i] = file[i]
  BY <1>1
<1>3. t \in Seq(Frame) /\ Len(t) = Len(file)
  BY <1>1, TurnedType
<1>4. \A i \in 1..Len(file) :
        t[i] = IF i <= Len(file) - w THEN file[w + i] ELSE file[i - (Len(file) - w)]
  BY DEF Turned
<1> HIDE DEF a, b, t
<1>5. /\ a \o b \in Seq(Frame) /\ Len(a \o b) = Len(file)
      /\ \A i \in 1..Len(file) : (a \o b)[i] = IF i <= Len(a) THEN a[i] ELSE b[i - Len(a)]
  BY <1>1, <1>2, ConcatProperties
<1>6. \A i \in 1..Len(file) : (a \o b)[i] = t[i]
  BY <1>1, <1>2, <1>4, <1>5
<1>7. a \o b = t
  BY <1>3, <1>5, <1>6, SeqEqual
<1> QED
  BY <1>7 DEF InTime, a, b, t

\* If all of it is in order, so is the beginning.
LEMMA BeginningContiguous ==
  ASSUME file \in Seq(Frame), NEW w \in 0..Len(file), NEW n \in 0..Len(file),
         Contiguous(InTime(file, w))
  PROVE  Contiguous(Turned(w, n))
<1>1. InTime(file, w) = Turned(w, Len(file)) /\ Len(Turned(w, Len(file))) = Len(file)
  <2>1. Len(file) \in 0..Len(file)
    OBVIOUS
  <2> QED
    BY <2>1, TurnedType, TurnedInTime
<1>2. Len(Turned(w, n)) = n /\ n \in Nat /\ n <= Len(file) /\ Len(file) \in Nat
  BY TurnedType
<1>3. \A i \in 1..n : Turned(w, n)[i] = Turned(w, Len(file))[i]
  BY <1>2 DEF Turned
<1>4. ASSUME NEW i \in 1..n, DiscontinuousAt(Turned(w, n), i)
      PROVE  DiscontinuousAt(Turned(w, Len(file)), i)
  BY <1>2, <1>3, <1>4 DEF DiscontinuousAt, Precedes
<1> QED
  BY <1>1, <1>2, <1>4 DEF Contiguous
\* In a dump the numbers of a thread run on everywhere but at its first packet after the
\* place where writing stopped.
LEMMA DumpJumps ==
  ASSUME file \in Seq(Frame), NEW w \in 1..(Len(file) - 1), Contiguous(InTime(file, w)),
         NEW i \in 1..Len(file), DiscontinuousAt(file, i)
  PROVE  i > w /\ \A k \in (w + 1)..(i - 1) : file[k].thread # file[i].thread
<1> DEFINE L == Len(file)
           t == Turned(w, L)
<1>1. Contiguous(t) /\ Len(t) = L /\ L \in Nat /\ w \in 1..(L - 1)
  <2>1. L \in Nat /\ L \in 0..L /\ w \in 0..L
    OBVIOUS
  <2>2. Contiguous(t)
    BY <2>1, BeginningContiguous
  <2>3. Len(t) = L
    BY <2>1, TurnedType
  <2> QED
    BY <2>1, <2>2, <2>3
<1>2. /\ \A k \in 1..(L - w) : t[k] = file[w + k]
      /\ \A k \in 1..w : t[k + (L - w)] = file[k]
  BY <1>1 DEF Turned
<1> HIDE DEF t
<1>3. PICK j \in 1..(i - 1) : Precedes(file, j, i) /\ ~RunsOn(file[j].num, file[i].num)
  BY DEF DiscontinuousAt
<1>4. /\ j < i /\ file[j].thread = file[i].thread
      /\ \A k \in (j + 1)..(i - 1) : file[k].thread # file[i].thread
  BY <1>3 DEF Precedes
<1>5. ASSUME i <= w PROVE FALSE
  <2> DEFINE a == i + (L - w)
             b == j + (L - w)
  <2>1. /\ a \in 1..L /\ b \in 1..(a - 1) /\ b < a
        /\ t[a] = file[i] /\ t[b] = file[j]
    BY <1>1, <1>2, <1>4, <1>5
  <2>2. ASSUME NEW k \in (b + 1)..(a - 1) PROVE t[k].thread # t[a].thread
    <3>1. k - (L - w) \in (j + 1)..(i - 1) /\ k - (L - w) \in 1..w
          /\ k = (k - (L - w)) + (L - w)
      BY <1>1, <1>5, <2>2
    <3>2. t[k] = file[k - (L - w)]
      BY <1>2, <3>1
    <3> QED
      BY <1>4, <2>1, <3>1, <3>2
  <2>3. Precedes(t, b, a) /\ ~RunsOn(t[b].num, t[a].num)
    BY <1>3, <1>4, <2>1, <2>2 DEF Precedes
  <2> QED
    BY <1>1, <2>1, <2>3 DEF Contiguous, DiscontinuousAt
<1>6. ASSUME j > w PROVE FALSE
  <2> DEFINE a == i - w
             b == j - w
  <2>1. /\ a \in 1..(L - w) /\ b \in 1..(a - 1) /\ b < a /\ a \in 1..L
        /\ t[a] = file[i] /\ t[b] = file[j]
    BY <1>1, <1>2, <1>4, <1>6
  <2>2. ASSUME NEW k \in (b + 1)..(a - 1) PROVE t[k].thread # t[a].thread
    <3>1. w + k \in (j + 1)..(i - 1) /\ k \in 1..(L - w)
      BY <1>1, <1>6, <2>2
    <3>2. t[k] = file[w + k]
      BY <1>2, <3>1
    <3> QED
      BY <1>4, <2>1, <3>1, <3>2
  <2>3. Precedes(t, b, a) /\ ~RunsOn(t[b].num, t[a].num)
    BY <1>3, <1>4, <2>1, <2>2 DEF Precedes
  <2> QED
    BY <1>1, <2>1, <2>3 DEF Contiguous, DiscontinuousAt
<1> QED
  BY <1>1, <1>4, <1>5, <1>6

\* So a dump has one jump per thread, and the first of them is where writing stopped.
LEMMA DumpFound ==
  ASSUME ScanType, NEW w, IsDump(file, w), Found(Len(file))
  PROVE  framedisc = w /\ \A t \in Thread : numdisc[t] = 1
<1>1. /\ file \in Seq(Frame) /\ Len(file) \in Nat /\ w \in 1..(Len(file) - 1)
      /\ Contiguous(InTime(file, w)) /\ framedisc \in -1..(Len(file) - 1)
  BY DEF ScanType, IsDump
<1>2. ASSUME NEW t \in Thread
      PROVE  \E i \in (w + 1)..Len(file) : file[i].thread = t /\ DiscontinuousAt(file, i)
  BY DEF IsDump
<1>3. ASSUME NEW t \in Thread PROVE numdisc[t] = 1
  <2>1. PICK i \in (w + 1)..Len(file) : file[i].thread = t /\ DiscontinuousAt(file, i)
    BY <1>2
  <2>2. i \in JumpsOf(t, Len(file))
    BY <1>1, <2>1 DEF JumpsOf, JumpsTo
  <2>3. ASSUME NEW k \in JumpsOf(t, Len(file)) PROVE k = i
    <3>1. k \in 1..Len(file) /\ DiscontinuousAt(file, k) /\ file[k].thread = t
      BY DEF JumpsOf, JumpsTo
    <3>2. k > w /\ \A l \in (w + 1)..(k - 1) : file[l].thread # t
      BY <1>1, <3>1, DumpJumps
    <3>3. i \in 1..Len(file) /\ i > w
      BY <1>1
    <3>4. \A l \in (w + 1)..(i - 1) : file[l].thread # t
      BY <1>1, <2>1, <3>3, DumpJumps
    <3>5. ~(k < i) /\ ~(i < k)
      BY <1>1, <2>1, <3>1, <3>2, <3>3, <3>4
    <3> QED
      BY <3>1, <3>3, <3>5
  <2>4. JumpsOf(t, Len(file)) = {i}
    BY <2>2, <2>3
  <2> QED
    BY <2>4, FS_Singleton DEF Found
<1>4. w + 1 \in JumpsTo(Len(file))
  <2>1. w + 1 \in 1..Len(file) /\ file[w + 1] \in Frame
    BY <1>1
  <2>2. file[w + 1].thread \in Thread
    BY <2>1 DEF Frame
  <2>3. PICK i \in (w + 1)..Len(file) : /\ file[i].thread = file[w + 1].thread
                                       /\ DiscontinuousAt(file, i)
    BY <1>2, <2>2
  <2>4. i \in 1..Len(file)
    BY <1>1
  <2>5. \A k \in (w + 1)..(i - 1) : file[k].thread # file[i].thread
    BY <1>1, <2>3, <2>4, DumpJumps
  <2>6. i = w + 1
    BY <1>1, <2>3, <2>5
  <2> QED
    BY <2>1, <2>3, <2>6 DEF JumpsTo
<1>5. framedisc + 1 \in JumpsTo(Len(file)) /\ framedisc + 1 <= w + 1
  BY <1>4 DEF Found
<1>6. framedisc + 1 \in 1..Len(file) /\ DiscontinuousAt(file, framedisc + 1)
  BY <1>5 DEF JumpsTo
<1>7. framedisc + 1 > w
  BY <1>1, <1>6, DumpJumps
<1> QED
  BY <1>1, <1>3, <1>5, <1>7

-----------------------------------------------------------------------------
(* The program. *)

\* Where the passes are.
Passes ==
  /\ pc \in {"scan", "tail", "head", "done", "nothing", "corrupted", "failed"}
  /\ pc = "scan" => framecount = pos /\ LastFrames /\ Found(pos)
  /\ pc # "scan" => Found(Len(file))
  /\ pc = "nothing" => NoJumps /\ ~TooManyJumps
  /\ pc = "corrupted" => TooManyJumps

\* What they have written.
Written ==
  /\ pc \in {"scan", "nothing", "corrupted", "failed"} => out = <<>>
  /\ pc \in {"tail", "head", "done"} => framedisc >= 1
  /\ pc = "tail" => pos >= framedisc /\ out = Turned(framedisc, pos - framedisc)
  /\ pc = "head" => /\ framecount = pos /\ pos < framedisc
                   /\ out = Turned(framedisc, Len(file) - framedisc + pos)
  /\ pc = "done" => \E n \in 0..Len(file) : out = Turned(framedisc, n)

Right == ScanType /\ Passes /\ Written

\* Before anything is read the invariant holds.
LEMMA RightAtFirst == Init => Right
<1> SUFFICES ASSUME Init PROVE Right
  OBVIOUS
<1>1. file \in Seq(Frame) /\ Len(file) \in Nat
  <2> DEFINE S == Frame
  <2>1. PICK m \in 0..MaxFrames : file \in [1..m -> S]
    BY DEF Init, BoundedSeq, SeqOf
  <2> HIDE DEF S
  <2>2. m \in Nat
    BY FileAssumption
  <2>3. file \in Seq(S) /\ Len(file) \in Nat
    BY <2>1, <2>2
  <2> QED
    BY <2>3 DEF S
<1>2. ScanType
  <2>1. framenum \in [Thread -> -1..MAXFRAMENUM]
    BY FrameAssumption DEF Init
  <2> QED
    BY <1>1, <2>1 DEF Init, ScanType
<1>3. LastFrames
  BY DEF Init, LastFrames
<1>4. Found(0)
  BY JumpsAre, FS_EmptySet DEF Init, Found
<1> QED
  BY <1>2, <1>3, <1>4 DEF Init, Right, Passes, Written

\* What was found stays found.
LEMMA FoundKept ==
  ASSUME NEW n, Found(n), UNCHANGED <<file, numdisc, framedisc>>, n' = n
  PROVE  Found(n)'
BY DEF Found, JumpsTo, JumpsOf, DiscontinuousAt, Precedes

\* A file that is accepted has a first jump, which is not at its first packet.
LEMMA CutInside ==
  ASSUME ScanType, Found(Len(file)), ~NoJumps
  PROVE  framedisc \in 1..(Len(file) - 1)
<1>1. JumpsTo(Len(file)) # {}
  <2> SUFFICES ASSUME JumpsTo(Len(file)) = {} PROVE FALSE
    OBVIOUS
  <2>1. JumpsOf(1, Len(file)) = {}
    BY DEF JumpsOf
  <2>2. numdisc[1] = 0
    BY <2>1, FS_EmptySet DEF Found, Thread
  <2> QED
    BY <2>2 DEF NoJumps
<1>2. framedisc + 1 \in 1..Len(file) /\ DiscontinuousAt(file, framedisc + 1)
  BY <1>1 DEF Found, JumpsTo
<1>3. framedisc + 1 # 1
  BY <1>2 DEF DiscontinuousAt
<1> QED
  BY <1>2, <1>3 DEF ScanType

\* Every packet of every pass keeps the invariant.
LEMMA StepRight ==
  ASSUME Right, [Next]_vars
  PROVE  Right'
<1>1. /\ file \in Seq(Frame) /\ Len(file) \in Nat /\ pos \in 0..Len(file)
      /\ framecount \in 0..Len(file) /\ framedisc \in -1..(Len(file) - 1)
  BY DEF Right, ScanType
<1>2. CASE Scan
  <2>1. framecount = pos /\ LastFrames /\ Found(pos) /\ pc = "scan" /\ out = <<>>
    BY <1>2 DEF Right, Passes, Written, Scan
  <2>2. ScanType' /\ framecount' = pos' /\ LastFrames' /\ Found(pos)'
    BY <1>2, <2>1, ScanStep DEF Right
  <2>3. pc' = "scan" /\ out' = <<>>
    BY <1>2, <2>1 DEF Scan
  <2> QED
    BY <2>2, <2>3 DEF Right, Passes, Written
<1>3. CASE Reject
  <2>1. /\ pc = "scan" /\ pos = Len(file) /\ Found(Len(file)) /\ out = <<>>
        /\ UNCHANGED <<file, framecount, framenum, numdisc, framedisc, pos, out>>
    BY <1>3 DEF Reject, AtEndOfFile, Right, Passes, Written
  <2>2. /\ pc' \in {"corrupted", "nothing"}
        /\ pc' = "corrupted" => TooManyJumps
        /\ pc' = "nothing" => NoJumps /\ ~TooManyJumps
    BY <1>3 DEF Reject
  <2>3. Found(Len(file))'
    BY <2>1, FoundKept
  <2>4. ScanType' /\ (NoJumps' <=> NoJumps) /\ (TooManyJumps' <=> TooManyJumps)
    BY <2>1 DEF Right, ScanType, NoJumps, TooManyJumps
  <2> QED
    BY <2>1, <2>2, <2>3, <2>4 DEF Right, Passes, Written
<1>4. CASE Accept
  <2>1. /\ pc = "scan" /\ pos = Len(file) /\ Found(Len(file)) /\ out = <<>> /\ ~NoJumps
        /\ UNCHANGED <<file, framecount, framenum, numdisc, framedisc, out>>
    BY <1>4 DEF Accept, AtEndOfFile, Right, Passes, Written
  <2>2. framedisc \in 1..(Len(file) - 1)
    BY <2>1, CutInside DEF Right
  <2>3. \/ pc' = "failed" /\ pos' = pos
        \/ pc' = "tail" /\ pos' = framedisc
    BY <1>4 DEF Accept
  <2>4. Found(Len(file))'
    BY <2>1, FoundKept
  <2>5. ScanType'
    BY <1>1, <2>1, <2>2, <2>3 DEF Right, ScanType
  <2>6. pos' = framedisc => out' = Turned(framedisc, pos - framedisc)'
    BY <1>1, <2>1, <2>2 DEF Turned
  <2> QED
    BY <1>1, <2>1, <2>2, <2>3, <2>4, <2>5, <2>6 DEF Right, Passes, Written
<1>5. CASE CopyTail
  <2>1. /\ pc = "tail" /\ Found(Len(file)) /\ framedisc \in 1..Len(file) /\ pos >= framedisc
        /\ out = Turned(framedisc, pos - framedisc)
        /\ UNCHANGED <<file, framenum, numdisc, framedisc>>
    BY <1>1, <1>5 DEF CopyTail, Right, Passes, Written
  <2>2. Found(Len(file))'
    BY <2>1, FoundKept
  <2>3. CASE AtEndOfFile
    <3>1. pos = Len(file) /\ pc' = "head" /\ pos' = 0 /\ framecount' = 0 /\ out' = out
      BY <1>5, <2>3 DEF CopyTail, AtEndOfFile
    <3>2. ScanType'
      BY <1>1, <2>1, <3>1 DEF Right, ScanType
    <3>3. Len(file) - framedisc + 0 = pos - framedisc
      BY <1>1, <2>1, <3>1
    <3>4. out' = Turned(framedisc, Len(file) - framedisc + 0)
      BY <2>1, <3>1, <3>3
    <3>5. out' = Turned(framedisc, Len(file) - framedisc + pos)'
      BY <2>1, <3>1, <3>4 DEF Turned
    <3> QED
      BY <2>1, <2>2, <3>1, <3>2, <3>5 DEF Right, Passes, Written
  <2>4. CASE ~AtEndOfFile
    <3>1. /\ pos < Len(file) /\ pc' = "tail" /\ pos' = pos + 1 /\ framecount' = framecount
          /\ out' = Append(out, file[pos + 1])
      BY <1>1, <1>5, <2>1, <2>4 DEF CopyTail, AtEndOfFile, CopyPacket
    <3>2. ScanType'
      BY <1>1, <2>1, <3>1 DEF Right, ScanType
    <3>3. out' = Turned(framedisc, pos - framedisc + 1)
      <4> DEFINE n == pos - framedisc
      <4>1. /\ n \in 0..(Len(file) - 1) /\ n < Len(file) - framedisc
            /\ framedisc + n + 1 = pos + 1 /\ framedisc \in 0..Len(file)
        BY <1>1, <2>1, <3>1
      <4>2. Append(Turned(framedisc, n), file[framedisc + n + 1]) = Turned(framedisc, n + 1)
        BY <1>1, <4>1, TurnedNext
      <4> QED
        BY <2>1, <3>1, <4>1, <4>2
    <3>4. pos' - framedisc = pos - framedisc + 1 /\ pos' >= framedisc
      BY <1>1, <2>1, <3>1
    <3>5. out' = Turned(framedisc, pos - framedisc)'
      BY <2>1, <3>3, <3>4 DEF Turned
    <3> QED
      BY <2>1, <2>2, <3>1, <3>2, <3>4, <3>5 DEF Right, Passes, Written
  <2> QED
    BY <2>3, <2>4
<1>6. CASE CopyHead
  <2>1. /\ pc = "head" /\ Found(Len(file)) /\ framedisc \in 1..Len(file)
        /\ framecount = pos /\ pos < framedisc
        /\ out = Turned(framedisc, Len(file) - framedisc + pos)
        /\ UNCHANGED <<file, framenum, numdisc, framedisc>>
    BY <1>1, <1>6 DEF CopyHead, Right, Passes, Written
  <2>2. Found(Len(file))'
    BY <2>1, FoundKept
  <2> DEFINE n == Len(file) - framedisc + pos
  <2>3. n \in 0..(Len(file) - 1)
    BY <1>1, <2>1
  <2>4. CASE framecount < framedisc - 1 /\ ~AtEndOfFile
    <3>1. /\ pc' = "head" /\ pos' = pos + 1 /\ framecount' = framecount + 1
          /\ out' = Append(out, file[pos + 1])
      BY <1>6, <2>1, <2>4 DEF CopyHead, CopyPacket
    <3>2. pos' < framedisc /\ framecount' = pos' /\ pos' \in 0..Len(file)
      BY <1>1, <2>1, <2>4, <3>1
    <3>3. ScanType'
      BY <1>1, <2>1, <3>2 DEF Right, ScanType
    <3>4. out' = Turned(framedisc, n + 1)
      <4>1. /\ n >= Len(file) - framedisc /\ n - (Len(file) - framedisc) + 1 = pos + 1
            /\ framedisc \in 0..Len(file)
        BY <1>1, <2>1
      <4>2. Append(Turned(framedisc, n), file[n - (Len(file) - framedisc) + 1])
              = Turned(framedisc, n + 1)
        BY <1>1, <2>3, <4>1, TurnedNext
      <4> QED
        BY <2>1, <3>1, <4>1, <4>2
    <3>5. Len(file) - framedisc + pos' = n + 1
      BY <1>1, <2>1, <3>1
    <3>6. out' = Turned(framedisc, Len(file) - framedisc + pos)'
      BY <2>1, <3>4, <3>5 DEF Turned
    <3> QED
      BY <2>1, <2>2, <3>1, <3>2, <3>3, <3>6 DEF Right, Passes, Written
  <2>5. CASE ~(framecount < framedisc - 1 /\ ~AtEndOfFile)
    <3>1. pc' = "done" /\ UNCHANGED <<out, pos, framecount>>
      BY <1>6, <2>5 DEF CopyHead
    <3>2. ScanType'
      BY <1>1, <2>1, <3>1 DEF Right, ScanType
    <3>3. out' = Turned(framedisc, n)'
      BY <2>1, <3>1 DEF Turned
    <3>4. n' \in 0..Len(file')
      BY <1>1, <2>1, <2>3, <3>1
    <3> HIDE DEF n
    <3> QED
      BY <2>1, <2>2, <3>1, <3>2, <3>3, <3>4 DEF Right, Passes, Written
  <2> QED
    BY <2>4, <2>5
<1>7. CASE UNCHANGED vars
  <2>1. UNCHANGED <<pc, file, framecount, framenum, numdisc, framedisc, pos, out>>
    BY <1>7 DEF vars
  <2>2. (Found(pos) => Found(pos)') /\ (Found(Len(file)) => Found(Len(file))')
    BY <2>1, FoundKept
  <2>3. /\ LastFrames' <=> LastFrames
        /\ NoJumps' <=> NoJumps
        /\ TooManyJumps' <=> TooManyJumps
        /\ ScanType' <=> ScanType
        /\ Written' <=> Written
    BY <2>1 DEF LastFrames, NoJumps, TooManyJumps, ScanType, Written, Turned
  <2> QED
    BY <2>1, <2>2, <2>3 DEF Right, Passes
<1> QED
  BY <1>2, <1>3, <1>4, <1>5, <1>6, <1>7 DEF Next

\* What has been written is packets.
LEMMA OutIs ==
  ASSUME Right
  PROVE  out \in Seq(Frame)
<1>1. /\ file \in Seq(Frame) /\ Len(file) \in Nat /\ pos \in 0..Len(file)
      /\ framedisc \in -1..(Len(file) - 1)
  BY DEF Right, ScanType
<1>2. CASE pc \in {"scan", "nothing", "corrupted", "failed"}
  <2>1. out = <<>>
    BY <1>2 DEF Right, Written
  <2> QED
    BY <2>1
<1>3. CASE pc \in {"tail", "head", "done"}
  <2>1. PICK n \in 0..Len(file) : out = Turned(framedisc, n)
    <3>1. framedisc \in 1..Len(file)
      BY <1>1, <1>3 DEF Right, Written
    <3>2. CASE pc = "tail"
      <4>1. pos - framedisc \in 0..Len(file) /\ out = Turned(framedisc, pos - framedisc)
        BY <1>1, <3>1, <3>2 DEF Right, Written
      <4> QED
        BY <4>1
    <3>3. CASE pc = "head"
      <4>1. /\ Len(file) - framedisc + pos \in 0..Len(file)
            /\ out = Turned(framedisc, Len(file) - framedisc + pos)
        BY <1>1, <3>1, <3>3 DEF Right, Written
      <4> QED
        BY <4>1
    <3>4. CASE pc = "done"
      BY <3>4 DEF Right, Written
    <3> QED
      BY <1>3, <3>2, <3>3, <3>4
  <2>2. framedisc \in 0..Len(file)
    BY <1>1, <1>3 DEF Right, Written
  <2> QED
    BY <1>1, <2>1, <2>2, TurnedType
<1> QED
  BY <1>2, <1>3 DEF Right, Passes

\* For every file the scan finds all jumps and the first of them, and the passes keep to
\* the file and the output to whole packets.
THEOREM ScanIsRight == Spec => [](TypeOK /\ ScanFindsJumps)
<1>1. Right => TypeOK /\ ScanFindsJumps
  <2> SUFFICES ASSUME Right PROVE TypeOK /\ ScanFindsJumps
    OBVIOUS
  <2>1. Found(IF pc = "scan" THEN pos ELSE Len(file))
    BY DEF Right, Passes
  <2>2. ScanFindsJumps
    BY <2>1 DEF ScanFindsJumps, Found, JumpsTo, JumpsOf
  <2>3. out \in Seq(Frame)
    BY OutIs
  <2> QED
    BY <2>2, <2>3 DEF Right, ScanType, Passes, TypeOK
<1> QED
  BY <1>1, RightAtFirst, StepRight, PTL DEF Spec

\* Counters and read position stay inside the file, and the cut does (db_unwrap.c, main).
THEOREM TypeCorrect == Spec => []TypeOK
BY ScanIsRight, PTL

\* Every dump of a recording without lost packets is accepted and cut where writing stopped.
THEOREM DumpIsCut == Spec => []DumpIsCutAtWrap
<1>1. Right => DumpIsCutAtWrap
  <2> SUFFICES ASSUME Right, NEW w \in 1..Len(file), IsDump(file, w)
               PROVE  /\ pc \notin {"nothing", "corrupted"}
                      /\ pc \in {"tail", "head", "done"} => framedisc = w
    BY DEF DumpIsCutAtWrap
  <2>1. pc # "scan" => framedisc = w /\ \A t \in Thread : numdisc[t] = 1
    BY DumpFound DEF Right, Passes
  <2>2. pc # "scan" => ~NoJumps /\ ~TooManyJumps
    BY <2>1 DEF NoJumps, TooManyJumps, Thread
  <2> QED
    BY <2>1, <2>2 DEF Right, Passes
<1> QED
  BY <1>1, RightAtFirst, StepRight, PTL DEF Spec

\* And what is written of it is in order of time.
THEOREM OutputIsInTime == Spec => []OutputInTime
<1>1. Right => OutputInTime
  <2> SUFFICES ASSUME Right, NEW w \in 1..Len(file), IsDump(file, w), pc = "done"
               PROVE  Contiguous(out)
    BY DEF OutputInTime
  <2>1. framedisc = w
    BY DumpFound DEF Right, Passes
  <2>2. PICK n \in 0..Len(file) : out = Turned(w, n)
    BY <2>1 DEF Right, Written
  <2>3. Contiguous(InTime(file, w)) /\ file \in Seq(Frame) /\ w \in 0..Len(file)
    BY DEF IsDump, Right, ScanType
  <2> QED
    BY <2>2, <2>3, BeginningContiguous
<1> QED
  BY <1>1, RightAtFirst, StepRight, PTL DEF Spec
=============================================================================
