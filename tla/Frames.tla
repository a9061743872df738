------------------------------- MODULE Frames -------------------------------
(***************************************************************************)
(* VDIF packets as the Writer and db_unwrap look at them: by the thread id *)
(* and the frame number in their headers.  A frame number says when in a   *)
(* second a packet was sampled; each thread has its own sequence of them.  *)
(***************************************************************************)
EXTENDS Integers, Sequences

CONSTANT MAXFRAMENUM   \* the last frame number of a second (def.h); the next one is 0

ASSUME FrameAssumption == MAXFRAMENUM \in Nat

\* The two polarizations, and what is looked at of a VDIF packet: the header's two fields.
Thread == {0, 1}
Frame == [thread : Thread, num : 0..MAXFRAMENUM]

\* An error: the wrap of the frame numbers counts as a jump.
JumpAtWrap(m, n) == m # -1 /\ n - m # 1

\* An error: any smaller frame number is taken for the beginning of a second.
JumpForwardOnly(m, n) == m # -1 /\ n - m \notin (-MAXFRAMENUM)..1

\* Frame number n after frame number m of the same thread is a jump.
Jump(m, n) == m # -1 /\ n - m \notin {1, -MAXFRAMENUM}

-----------------------------------------------------------------------------
(* What the frame numbers of a sequence of packets say, without the scan. *)

\* Packet j is the one of the same thread that comes last before packet i.
Precedes(s, j, i) ==
  /\ j < i /\ s[j].thread = s[i].thread
  /\ \A k \in (j + 1)..(i - 1) : s[k].thread # s[i].thread

\* The numbers of a thread run on, modulo the length of a second, from packet j to i.
RunsOn(m, n) == n = (m + 1) % (MAXFRAMENUM + 1)

DiscontinuousAt(s, i) == \E j \in 1..(i - 1) : Precedes(s, j, i) /\ ~RunsOn(s[j].num, s[i].num)

Contiguous(s) == \A i \in 1..Len(s) : ~DiscontinuousAt(s, i)

\* The order of time of a dump in which writing stopped after w packets.
InTime(s, w) == SubSeq(s, w + 1, Len(s)) \o SubSeq(s, 1, w)

(***************************************************************************)
(* A dump as a recording without lost packets leaves it: writing stopped   *)
(* after w packets, both threads were recorded before and after that       *)
(* place, and the ring does not hold a whole number of seconds of either,  *)
(* which would make the numbers run on there by chance.                    *)
(***************************************************************************)
IsDump(s, w) ==
  /\ w \in 1..(Len(s) - 1)
  /\ Contiguous(InTime(s, w))
  /\ \A t \in Thread :
       /\ \E j \in 1..w : s[j].thread = t
       /\ \E i \in (w + 1)..Len(s) : s[i].thread = t /\ DiscontinuousAt(s, i)
=============================================================================
