------------------------------ MODULE BlockUse ------------------------------
(***************************************************************************)
(* What a data block demands of its users, and what it is to them: it is   *)
(* opened and closed on each side in turn, written and read only while it  *)
(* is open on that side.  An operation on a block in the wrong state is an *)
(* error in PSRDADA, and is no step of this specification.                 *)
(***************************************************************************)
EXTENDS DataBlock

UseForWriting(p) ==
  \/ ~ring[p].writing /\ OpenForWriting(p)
  \/ /\ ring[p].writing
     /\ MarkFilled(p) \/ WritePacket(p) \/ CloseForWriting(p)

UseForReading(p) ==
  \/ ~ring[p].reading /\ OpenForReading(p)
  \/ /\ ring[p].reading
     /\ ReadPacket(p) \/ ReadEnd(p) \/ CloseForReading(p)

Use == \E p \in Pairs : UseForWriting(p) \/ UseForReading(p)

Spec == RingInit /\ [][Use]_ring
=============================================================================
