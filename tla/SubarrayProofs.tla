---------------------------- MODULE SubarrayProofs ----------------------------
(***************************************************************************)
(* mergeSubarray leaves the table as it should and counts what it removes, *)
(* for any number of antennas and any sequence of documents.               *)
(***************************************************************************)
EXTENDS Subarray, FiniteSetTheorems, TLAPS

\* The first n turns of the first loop take place a out of its subarray.
Gone(a, n) ==
  /\ before[a] # NoId
  /\ \E b \in 1..n : /\ ap[b] # NoId
                     /\ before[b] = before[a]
                     /\ a = VLA_ANTENNA_COUNT => b = a

\* The turns of each loop that are over.
Removals == IF pc = "remove" THEN i - 1 ELSE VLA_ANTENNA_COUNT
Assignments == IF pc = "remove" THEN 0 ELSE IF pc = "assign" THEN i - 1 ELSE VLA_ANTENNA_COUNT

WellTyped ==
  /\ vlaAntennas \in Table /\ ap \in Table /\ before \in Table
  /\ pc \in {"remove", "assign", "returned"}
  /\ i \in Antennas
  /\ removed \in Nat
  /\ before[0] = NoId /\ ap[0] = NoId

\* What each place holds, at every turn.
TableSoFar ==
  \A a \in Places :
    vlaAntennas[a] = IF a \in 1..Assignments /\ ap[a] # NoId THEN ap[a]
                     ELSE IF Gone(a, Removals) THEN NoId ELSE before[a]

GoneBy(n) == {a \in Antennas : Gone(a, n)}

CountSoFar == removed = Cardinality(GoneBy(Removals))

IInv == WellTyped /\ TableSoFar /\ CountSoFar
-----------------------------------------------------------------------------
\* Antennas removed are finite in number.
LEMMA GoneIsFinite ==
  ASSUME NEW n PROVE IsFiniteSet(GoneBy(n)) /\ Cardinality(GoneBy(n)) \in 0..VLA_ANTENNA_COUNT
<1>1. IsFiniteSet(Antennas) /\ Cardinality(Antennas) = VLA_ANTENNA_COUNT
  BY FS_Interval, TableAssumption DEF Antennas
<1>2. GoneBy(n) \in SUBSET Antennas
  BY DEF GoneBy
<1>3. IsFiniteSet(GoneBy(n)) /\ Cardinality(GoneBy(n)) <= Cardinality(Antennas)
  BY <1>1, <1>2, FS_Subset
<1> QED
  BY <1>1, <1>3, FS_CardinalityType, TableAssumption

\* The places the first loop has not taken out of a subarray are the ones it finds in it.
LEMMA OneTurn ==
  ASSUME WellTyped, TableSoFar, pc = "remove", NEW a \in Places
  PROVE  Gone(a, i) <=> \/ Gone(a, i - 1)
                        \/ /\ vlaAntennas[i] # NoId /\ ap[i] # NoId
                           /\ a \in OthersOf(i) \union {i}
<1>1. i \in Nat /\ i >= 1 /\ i <= VLA_ANTENNA_COUNT /\ VLA_ANTENNA_COUNT \in Nat /\ i \in Places
  BY TableAssumption DEF WellTyped, Antennas, Places
<1>2. 1..i = 1..(i - 1) \union {i} /\ 1..(i - 1) \subseteq 1..i
  BY <1>1
<1>3. \A b \in Places : vlaAntennas[b] = IF Gone(b, i - 1) THEN NoId ELSE before[b]
  BY DEF TableSoFar, Removals, Assignments
<1>4. a # VLA_ANTENNA_COUNT => a \in 0..(VLA_ANTENNA_COUNT - 1)
  BY <1>1 DEF Places
<1>5. a \in OthersOf(i) <=> /\ a # VLA_ANTENNA_COUNT /\ a # i
                            /\ vlaAntennas[a] = vlaAntennas[i]
  BY <1>1, <1>4 DEF OthersOf, Places
<1>6. ASSUME Gone(a, i - 1) PROVE Gone(a, i)
  BY <1>2, <1>6 DEF Gone
<1>7. ASSUME vlaAntennas[i] # NoId, ap[i] # NoId, a \in OthersOf(i) \union {i} PROVE Gone(a, i)
  <2>1. before[i] = vlaAntennas[i]
    BY <1>1, <1>3, <1>7
  <2>2. before[a] = before[i] /\ (a = VLA_ANTENNA_COUNT => i = a)
    BY <1>1, <1>3, <1>5, <1>7, <2>1
  <2> QED
    BY <1>1, <1>2, <1>7, <2>1, <2>2 DEF Gone
<1>8. ASSUME Gone(a, i), ~Gone(a, i - 1)
      PROVE  vlaAntennas[i] # NoId /\ ap[i] # NoId /\ a \in OthersOf(i) \union {i}
  <2>1. /\ ap[i] # NoId /\ before[i] = before[a] /\ before[a] # NoId
        /\ a = VLA_ANTENNA_COUNT => i = a
    BY <1>2, <1>8 DEF Gone
  <2>2. vlaAntennas[a] = before[a]
    BY <1>3, <1>8
  <2>3. ~Gone(i, i - 1)
    <3>1. CASE a = i
      BY <1>8, <3>1
    <3>2. CASE a # i
      <4> SUFFICES ASSUME NEW b \in 1..(i - 1), ap[b] # NoId, before[b] = before[i],
                          i = VLA_ANTENNA_COUNT => b = i
                   PROVE  FALSE
        BY DEF Gone
      <4>1. Gone(a, i - 1)
        BY <2>1, <3>2 DEF Gone
      <4> QED
        BY <1>8, <4>1
    <3> QED
      BY <3>1, <3>2
  <2>4. vlaAntennas[i] = before[i]
    BY <1>1, <1>3, <2>3
  <2> QED
    BY <1>5, <2>1, <2>2, <2>4
<1> QED
  BY <1>6, <1>7, <1>8

-----------------------------------------------------------------------------
\* A turn of the first loop.
LEMMA RemoveKeeps == IInv /\ Remove => IInv'
<1> SUFFICES ASSUME IInv, Remove PROVE IInv'
  OBVIOUS
<1> DEFINE gone == IF vlaAntennas[i] # NoId /\ ap[i] # NoId THEN OthersOf(i) \union {i} ELSE {}
<1>0. pc = "remove" /\ WellTyped /\ TableSoFar /\ CountSoFar
  BY DEF Remove, IInv
<1>1. /\ vlaAntennas' = [a \in Places |-> IF a \in gone THEN NoId ELSE vlaAntennas[a]]
      /\ removed' = removed + Cardinality(gone)
      /\ ap' = ap /\ before' = before
  BY DEF Remove
<1>2. i \in Nat /\ i >= 1 /\ i <= VLA_ANTENNA_COUNT /\ VLA_ANTENNA_COUNT \in Nat /\ i \in Places
  BY <1>0, TableAssumption DEF WellTyped, Antennas, Places
<1>3. \/ i < VLA_ANTENNA_COUNT /\ i' = i + 1 /\ pc' = "remove"
      \/ i = VLA_ANTENNA_COUNT /\ i' = 1 /\ pc' = "assign"
  BY <1>2 DEF Remove, NextTurn
<1>4. Removals = i - 1 /\ Removals' = i /\ Assignments = 0 /\ Assignments' = 0
  BY <1>0, <1>2, <1>3 DEF Removals, Assignments
<1>5. \A a, n : Gone(a, n)' <=> Gone(a, n)
  BY <1>1 DEF Gone
<1>6. \A a \in Places : Gone(a, i) <=> Gone(a, i - 1) \/ a \in gone
  BY <1>0, OneTurn
<1>7. gone \subseteq Antennas /\ \A a \in gone : vlaAntennas[a] # NoId
  <2>1. vlaAntennas[0] = NoId
    BY <1>0, <1>4, <1>2 DEF TableSoFar, WellTyped, Places, Gone
  <2> QED
    BY <1>2, <2>1 DEF OthersOf, Antennas
<1>8. IsFiniteSet(gone)
  <2>1. IsFiniteSet(Antennas)
    BY <1>2, FS_Interval DEF Antennas
  <2> HIDE DEF gone
  <2> QED
    BY <1>7, <2>1, FS_Subset
<1>9. Cardinality(GoneBy(i)) = Cardinality(GoneBy(i - 1)) + Cardinality(gone)
  <2>1. Antennas \subseteq Places
    BY <1>2 DEF Antennas, Places
  <2>2. GoneBy(i) = GoneBy(i - 1) \union gone
    BY <1>6, <1>7, <2>1 DEF GoneBy
  <2>3. GoneBy(i - 1) \intersect gone = {}
    BY <1>0, <1>4, <1>7, <2>1 DEF TableSoFar, GoneBy
  <2> HIDE DEF gone
  <2>4. Cardinality(GoneBy(i - 1) \union gone)
          = Cardinality(GoneBy(i - 1)) + Cardinality(gone) - Cardinality({})
    BY <1>8, <2>3, GoneIsFinite, FS_Union
  <2> QED
    BY <1>8, <2>2, <2>4, GoneIsFinite, FS_EmptySet, FS_CardinalityType
<1>10. CountSoFar'
  <2>1. GoneBy(i) = GoneBy(Removals)'
    BY <1>1, <1>4 DEF GoneBy, Gone
  <2> QED
    BY <1>0, <1>1, <1>4, <1>9, <2>1 DEF CountSoFar
<1>11. TableSoFar'
  <2> SUFFICES ASSUME NEW a \in Places
               PROVE  vlaAntennas'[a] = IF Gone(a, i) THEN NoId ELSE before[a]
    BY <1>1, <1>2, <1>4, <1>5 DEF TableSoFar
  <2>1. vlaAntennas[a] = IF Gone(a, i - 1) THEN NoId ELSE before[a]
    BY <1>0, <1>2, <1>4 DEF TableSoFar
  <2> HIDE DEF gone
  <2> QED
    BY <1>1, <1>6, <2>1
<1>12. WellTyped'
  <2>1. removed' \in Nat
    BY <1>0, <1>1, <1>8, FS_CardinalityType DEF WellTyped
  <2> HIDE DEF gone
  <2>2. vlaAntennas' \in Table
    BY <1>0, <1>1 DEF WellTyped, Table
  <2> QED
    BY <1>0, <1>1, <1>2, <1>3, <2>1, <2>2, TableAssumption DEF WellTyped, Antennas
<1> QED
  BY <1>10, <1>11, <1>12 DEF IInv

\* A turn of the second loop.
LEMMA AssignKeeps == IInv /\ Assign => IInv'
<1> SUFFICES ASSUME IInv, Assign PROVE IInv'
  OBVIOUS
<1>0. pc = "assign" /\ WellTyped /\ TableSoFar /\ CountSoFar
  BY DEF Assign, IInv
<1>1. /\ vlaAntennas' = IF ap[i] # NoId THEN [vlaAntennas EXCEPT ![i] = ap[i]] ELSE vlaAntennas
      /\ ap' = ap /\ before' = before /\ removed' = removed
  BY DEF Assign
<1>2. i \in Nat /\ i >= 1 /\ i <= VLA_ANTENNA_COUNT /\ VLA_ANTENNA_COUNT \in Nat /\ i \in Places
  BY <1>0, TableAssumption DEF WellTyped, Antennas, Places
<1>3. \/ i < VLA_ANTENNA_COUNT /\ i' = i + 1 /\ pc' = "assign"
      \/ i = VLA_ANTENNA_COUNT /\ i' = 1 /\ pc' = "returned"
  BY <1>2 DEF Assign, NextTurn
<1>4. /\ Removals = VLA_ANTENNA_COUNT /\ Removals' = VLA_ANTENNA_COUNT
      /\ Assignments = i - 1 /\ Assignments' = i
  BY <1>0, <1>2, <1>3 DEF Removals, Assignments
<1>5. \A a, n : Gone(a, n)' <=> Gone(a, n)
  BY <1>1 DEF Gone
<1>6. CountSoFar'
  BY <1>0, <1>1, <1>4 DEF CountSoFar, GoneBy, Gone
<1>7. TableSoFar'
  <2> SUFFICES ASSUME NEW a \in Places
               PROVE  vlaAntennas'[a] = IF a \in 1..i /\ ap[a] # NoId THEN ap[a]
                                        ELSE IF Gone(a, VLA_ANTENNA_COUNT) THEN NoId ELSE before[a]
    BY <1>1, <1>4, <1>5 DEF TableSoFar
  <2>1. vlaAntennas[a] = IF a \in 1..(i - 1) /\ ap[a] # NoId THEN ap[a]
                         ELSE IF Gone(a, VLA_ANTENNA_COUNT) THEN NoId ELSE before[a]
    BY <1>0, <1>4 DEF TableSoFar
  <2>2. a \in 1..i <=> a \in 1..(i - 1) \/ a = i
    BY <1>2 DEF Places
  <2>3. vlaAntennas'[a] = IF a = i /\ ap[i] # NoId THEN ap[i] ELSE vlaAntennas[a]
    BY <1>0, <1>1 DEF WellTyped, Table
  <2> QED
    BY <2>1, <2>2, <2>3
<1>8. WellTyped'
  <2>1. vlaAntennas' \in Table
    BY <1>0, <1>1, <1>2 DEF WellTyped, Table
  <2> QED
    BY <1>0, <1>1, <1>2, <1>3, <2>1, TableAssumption DEF WellTyped, Antennas
<1> QED
  BY <1>6, <1>7, <1>8 DEF IInv

\* A call begins with no turn over.
LEMMA CallKeeps == IInv /\ MergeSubarray => IInv'
<1> SUFFICES ASSUME IInv, MergeSubarray PROVE IInv'
  OBVIOUS
<1>1. WellTyped /\ TableSoFar /\ pc = "returned"
  BY DEF IInv, MergeSubarray
<1>2. /\ vlaAntennas' = vlaAntennas /\ before' = vlaAntennas /\ removed' = 0
      /\ pc' = "remove" /\ i' = 1
  BY DEF MergeSubarray
<1>3. Removals' = 0 /\ Assignments' = 0
  BY <1>2 DEF Removals, Assignments
<1>4. \A a : ~Gone(a, 0)'
  BY DEF Gone
<1>5. GoneBy(0)' = {}
  BY <1>4 DEF GoneBy
<1>6. CountSoFar'
  BY <1>2, <1>3, <1>5, FS_EmptySet DEF CountSoFar
<1>7. TableSoFar'
  BY <1>2, <1>3, <1>4 DEF TableSoFar
<1>8. ap' \in Table /\ ap'[0] = NoId
  BY TableAssumption DEF MergeSubarray, DocumentOf, Table, Antennas, Places
<1>9. vlaAntennas[0] = NoId
  BY <1>1, TableAssumption DEF TableSoFar, WellTyped, Places, Gone, Assignments
<1> QED
  BY <1>1, <1>2, <1>6, <1>7, <1>8, <1>9, TableAssumption DEF IInv, WellTyped, Antennas

\* The inductive invariant: what both loops have done at any turn.
THEOREM LoopsInvariant == Spec => []IInv
<1>1. Init => IInv
  <2> SUFFICES ASSUME Init PROVE IInv
    OBVIOUS
  <2>1. \A a \in Places : \A n : ~Gone(a, n)
    BY DEF Init, Gone
  <2>2. CountSoFar
    <3>1. GoneBy(Removals) = {}
      BY <2>1, TableAssumption DEF GoneBy, Antennas, Places
    <3> QED
      BY <3>1, FS_EmptySet DEF CountSoFar, Init
  <2>3. TableSoFar
    BY <2>1 DEF TableSoFar, Init
  <2> QED
    BY <2>2, <2>3, TableAssumption DEF IInv, WellTyped, Init, Table, Antennas, Places
<1>2. IInv /\ [Next]_vars => IInv'
  <2> SUFFICES ASSUME IInv, [Next]_vars PROVE IInv'
    OBVIOUS
  <2>1. ASSUME UNCHANGED vars PROVE IInv'
    BY <2>1 DEF vars, IInv, WellTyped, TableSoFar, CountSoFar, GoneBy, Gone, Removals, Assignments
  <2> QED
    BY <2>1, RemoveKeeps, AssignKeeps, CallKeeps DEF Next
<1> QED
  BY <1>1, <1>2, PTL DEF Spec

\* What the whole first loop removes is what the properties speak of.
LEMMA GoneInTheEnd ==
  ASSUME NEW a \in Antennas
  PROVE  Gone(a, VLA_ANTENNA_COUNT)
           <=> Conflicts(before[a]) /\ (a = VLA_ANTENNA_COUNT => ap[a] # NoId)
  BY DEF Gone, Conflicts, Antennas

\* However the subarrays overlap and in whatever order they are met, the table at the return
\* of mergeSubarray is the one MergedAsListed describes.
THEOREM MergeIsRight == Spec => []MergedAsListed
<1>1. IInv => MergedAsListed
  <2> SUFFICES ASSUME IInv, pc = "returned", NEW a \in Antennas
               PROVE  vlaAntennas[a] = IF ap[a] # NoId THEN ap[a]
                                       ELSE IF a # VLA_ANTENNA_COUNT /\ Conflicts(before[a])
                                            THEN NoId ELSE before[a]
    BY DEF MergedAsListed
  <2>1. a \in Places /\ a \in 1..VLA_ANTENNA_COUNT
    BY TableAssumption DEF Antennas, Places
  <2>2. vlaAntennas[a] = IF ap[a] # NoId THEN ap[a]
                         ELSE IF Gone(a, VLA_ANTENNA_COUNT) THEN NoId ELSE before[a]
    BY <2>1 DEF IInv, TableSoFar, Removals, Assignments
  <2> QED
    BY <2>2, GoneInTheEnd
<1> QED
  BY <1>1, LoopsInvariant, PTL

\* The count mergeSubarray returns is the number of antennas it has taken out of a subarray.
THEOREM CountIsRight == Spec => []RemovedIsCounted
<1>1. IInv => RemovedIsCounted
  <2> SUFFICES ASSUME IInv, pc # "remove" PROVE removed = Cardinality(RemovedFromSubarray)
    BY DEF RemovedIsCounted
  <2>1. RemovedFromSubarray = GoneBy(VLA_ANTENNA_COUNT)
    BY GoneInTheEnd DEF RemovedFromSubarray, GoneBy
  <2> QED
    BY <2>1 DEF IInv, CountSoFar, Removals
<1> QED
  BY <1>1, LoopsInvariant, PTL

\* No entry of the table is anything but a datasetId, and no more antennas are counted than
\* there are.
THEOREM TypeCorrect == Spec => []TypeOK
<1>1. IInv => TypeOK
  BY GoneIsFinite DEF IInv, WellTyped, CountSoFar, TypeOK
<1> QED
  BY <1>1, LoopsInvariant, PTL
===============================================================================
