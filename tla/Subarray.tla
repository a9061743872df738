------------------------------- MODULE Subarray -------------------------------
(***************************************************************************)
(* The table of the VLA's antennas and the subarrays they are in:          *)
(* mergeSubarray (executor.c).  A subarray is the antennas with the same   *)
(* datasetId.  An antenna property document puts the antennas it lists     *)
(* into its subarray, and the other subarrays they were in are to be       *)
(* removed.                                                                *)
(* One step is one turn of one of the routine's two loops, so that what    *)
(* they have achieved at any turn can be stated; between calls pc is       *)
(* "returned".                                                             *)
(***************************************************************************)
EXTENDS Integers, FiniteSets

CONSTANTS VLA_ANTENNA_COUNT,
          DatasetId,          \* the identifiers of subarrays
          NoId                \* the empty string: in no subarray

ASSUME TableAssumption == VLA_ANTENNA_COUNT \in Nat \ {0} /\ NoId \notin DatasetId

\* Antennas are numbered from 1; the arrays are indexed by that number and have a place 0.
Antennas == 1..VLA_ANTENNA_COUNT
Places == 0..VLA_ANTENNA_COUNT

VARIABLES vlaAntennas,  \* the datasetId at every place of the table
          ap,           \* the datasetIds of the document
          pc,           \* "remove" and "assign", the two loops, or "returned"
          i,            \* their index
          removed,
          before        \* history: the table at the call

vars == <<vlaAntennas, ap, pc, i, removed, before>>

Table == [Places -> DatasetId \union {NoId}]

\* What startElement makes of a document: each antenna listed has the datasetId of the document,
\* which is empty if the document has none.
DocumentOf(id, listed) == [a \in Places |-> IF a \in listed THEN id ELSE NoId]

Init ==
  /\ vlaAntennas = [a \in Places |-> NoId]
  /\ ap = [a \in Places |-> NoId]
  /\ pc = "returned"
  /\ i = 1
  /\ removed = 0
  /\ before = vlaAntennas

MergeSubarray ==
  /\ pc = "returned"
  /\ \E id \in DatasetId \union {NoId}, listed \in SUBSET Antennas : ap' = DocumentOf(id, listed)
  /\ pc' = "remove"
  /\ i' = 1
  /\ removed' = 0
  /\ before' = vlaAntennas
  /\ UNCHANGED vlaAntennas

\* Errors: the search begins behind the antenna itself; its subarray is looked up in the document.
LaterOthersOf(a) == {b \in (a + 1)..(VLA_ANTENNA_COUNT - 1) : vlaAntennas[b] = vlaAntennas[a]}
OthersInDocument(a) == {b \in 0..(VLA_ANTENNA_COUNT - 1) : b # a /\ ap[b] = ap[a]}

\* The places at which the inner loop finds the subarray of antenna a: it looks at 0 and the
\* antennas but the last.
OthersOf(a) ==
  {b \in 0..(VLA_ANTENNA_COUNT - 1) : b # a /\ vlaAntennas[b] = vlaAntennas[a]}

NextTurn(loop, after) ==
  IF i < VLA_ANTENNA_COUNT THEN i' = i + 1 /\ pc' = loop ELSE i' = 1 /\ pc' = after

Remove ==
  /\ pc = "remove"
  /\ LET gone == IF vlaAntennas[i] # NoId /\ ap[i] # NoId THEN OthersOf(i) \union {i} ELSE {}
     IN  /\ vlaAntennas' = [a \in Places |-> IF a \in gone THEN NoId ELSE vlaAntennas[a]]
         /\ removed' = removed + Cardinality(gone)
  /\ NextTurn("remove", "assign")
  /\ UNCHANGED <<ap, before>>

Assign ==
  /\ pc = "assign"
  /\ vlaAntennas' = IF ap[i] # NoId THEN [vlaAntennas EXCEPT ![i] = ap[i]] ELSE vlaAntennas
  /\ NextTurn("assign", "returned")
  /\ UNCHANGED <<ap, removed, before>>

Next == MergeSubarray \/ Remove \/ Assign

Spec == Init /\ [][Next]_vars

-----------------------------------------------------------------------------
TypeOK ==
  /\ {vlaAntennas, ap, before} \subseteq Table
  /\ pc \in {"remove", "assign", "returned"}
  /\ i \in Antennas
  /\ removed \in 0..VLA_ANTENNA_COUNT

\* The document takes an antenna out of the subarray id of the table at the call.
Conflicts(id) == id # NoId /\ \E a \in Antennas : ap[a] # NoId /\ before[a] = id

(***************************************************************************)
(* When mergeSubarray returns, the antennas of the document are in its     *)
(* subarray; any other that shared one with any of them is in none; and    *)
(* all the rest are where they were, whatever the order in which the loop  *)
(* meets the subarrays while it takes them apart.  The last antenna is the *)
(* exception: it stays in a removed subarray it is not taken out of by     *)
(* name.                                                                   *)
(***************************************************************************)
MergedAsListed ==
  pc = "returned" =>
    \A a \in Antennas :
      vlaAntennas[a] = IF ap[a] # NoId THEN ap[a]
                       ELSE IF a # VLA_ANTENNA_COUNT /\ Conflicts(before[a]) THEN NoId
                       ELSE before[a]

(***************************************************************************)
(* mergeSubarray returns what its comment says, "number of antennas in     *)
(* vlaAntennas[] array that were removed from an existing subarray", each  *)
(* counted once although its subarray may be met once per antenna of the   *)
(* document.                                                               *)
(***************************************************************************)
RemovedFromSubarray ==
  {a \in Antennas : /\ Conflicts(before[a])
                    /\ a = VLA_ANTENNA_COUNT => ap[a] # NoId}

RemovedIsCounted == pc # "remove" => removed = Cardinality(RemovedFromSubarray)

(***************************************************************************)
(* The comment of mergeSubarray says that it "identifies and removes any   *)
(* subarrays with conflict": no antenna is left behind in a subarray that  *)
(* has lost another one to the document.                                   *)
(***************************************************************************)
ConflictsRemoved ==
  pc = "returned" =>
    \A a \in Antennas : ap[a] = NoId => ~Conflicts(vlaAntennas[a])
===============================================================================
