------------------------------ MODULE DbUnwrap ------------------------------
(***************************************************************************)
(* db_unwrap (db_unwrap.c), the offline tool that puts a dump of a data    *)
(* block in order of time.  A dump is a copy of the ring as it lies in     *)
(* memory: the newest frames, then, from the place where writing stopped,  *)
(* the oldest.  A first pass over the file looks for the places where the  *)
(* frame numbers of a thread jump; a second one copies what lies after the *)
(* first of them, a third one what lies before.                            *)
(*   pc          "scan", "tail", "head" for the three passes; then         *)
(*   "done"      the output is written                                     *)
(*   "nothing"   returned 0 without an output, "nothing to be done"        *)
(*   "corrupted", "failed"   exit(1) for the input, for the output         *)
(***************************************************************************)
EXTENDS Frames, FiniteSets, SequencesExt

CONSTANT MaxFrames   \* bound: frames in a file

ASSUME FileAssumption == MaxFrames \in Nat

VARIABLES pc,
          file,        \* the dump, as whole packets; it does not change
          framecount,  \* packets counted in this pass
          framenum,    \* the last frame number of each thread, or -1
          numdisc,     \* discontinuities of each thread
          framedisc,   \* packets before the first discontinuity, or -1
          pos,         \* packets before the read position
          out          \* the packets written to the output

vars == <<pc, file, framecount, framenum, numdisc, framedisc, pos, out>>

Init ==
  /\ pc = "scan"
  /\ file \in BoundedSeq(Frame, MaxFrames)
  /\ framecount = 0
  /\ framenum = [t \in Thread |-> -1]
  /\ numdisc = [t \in Thread |-> 0]
  /\ framedisc = -1
  /\ pos = 0
  /\ out = <<>>

AtEndOfFile == pos = Len(file)

\* Errors: the last jump is kept instead of the first, its frame is counted before it.
ScanKeepsLast ==
  pc = "scan" /\ ~AtEndOfFile
    /\ LET f == file[pos + 1]
           jumps == Jump(framenum[f.thread], f.num)
       IN  /\ framenum' = [framenum EXCEPT ![f.thread] = f.num]
           /\ numdisc' = [numdisc EXCEPT ![f.thread] = IF jumps THEN @ + 1 ELSE @]
           /\ framedisc' = IF jumps THEN framecount ELSE framedisc
    /\ framecount' = framecount + 1 /\ pos' = pos + 1 /\ UNCHANGED <<pc, file, out>>
ScanCountsFirst ==
  pc = "scan" /\ ~AtEndOfFile
    /\ LET f == file[pos + 1]
           jumps == Jump(framenum[f.thread], f.num)
       IN  /\ framenum' = [framenum EXCEPT ![f.thread] = f.num]
           /\ numdisc' = [numdisc EXCEPT ![f.thread] = IF jumps THEN @ + 1 ELSE @]
           /\ framedisc' = IF jumps /\ framedisc = -1 THEN framecount + 1 ELSE framedisc
    /\ framecount' = framecount + 1 /\ pos' = pos + 1 /\ UNCHANGED <<pc, file, out>>

Scan ==
  /\ pc = "scan"
  /\ ~AtEndOfFile
  /\ LET f == file[pos + 1]
         jumps == Jump(framenum[f.thread], f.num)
     IN  /\ framenum' = [framenum EXCEPT ![f.thread] = f.num]
         /\ numdisc' = [numdisc EXCEPT ![f.thread] = IF jumps THEN @ + 1 ELSE @]
         /\ framedisc' = IF jumps /\ framedisc = -1 THEN framecount ELSE framedisc
  /\ framecount' = framecount + 1
  /\ pos' = pos + 1
  /\ UNCHANGED <<pc, file, out>>

TooManyJumps == \E t \in Thread : numdisc[t] > 1

\* Both halves of the test that looks for no discontinuity ask thread 1.
NoJumps == numdisc[1] = 0

Reject ==
  /\ pc = "scan" /\ AtEndOfFile
  /\ pc' = IF TooManyJumps THEN "corrupted" ELSE "nothing"
  /\ TooManyJumps \/ NoJumps
  /\ UNCHANGED <<file, framecount, framenum, numdisc, framedisc, pos, out>>

Accept ==
  /\ pc = "scan" /\ AtEndOfFile
  /\ ~TooManyJumps /\ ~NoJumps
  /\ \/ pc' = "failed" /\ UNCHANGED pos
     \/ pc' = "tail" /\ pos' = framedisc
  /\ UNCHANGED <<file, framecount, framenum, numdisc, framedisc, out>>

\* fread, fwrite of one packet.
CopyPacket == out' = Append(out, file[pos + 1]) /\ pos' = pos + 1

CopyTail ==
  /\ pc = "tail"
  /\ IF AtEndOfFile
     THEN pc' = "head" /\ pos' = 0 /\ framecount' = 0 /\ UNCHANGED out
     ELSE CopyPacket /\ UNCHANGED <<pc, framecount>>
  /\ UNCHANGED <<file, framenum, numdisc, framedisc>>

\* An error: the pass copies the frames up to and with the first jump.
CopyHeadAndJump ==
  /\ pc = "head"
  /\ IF framecount <= framedisc /\ ~AtEndOfFile
     THEN CopyPacket /\ framecount' = framecount + 1 /\ UNCHANGED pc
     ELSE pc' = "done" /\ UNCHANGED <<out, pos, framecount>>
  /\ UNCHANGED <<file, framenum, numdisc, framedisc>>

CopyHead ==
  /\ pc = "head"
  /\ IF framecount < framedisc - 1 /\ ~AtEndOfFile
     THEN CopyPacket /\ framecount' = framecount + 1 /\ UNCHANGED pc
     ELSE pc' = "done" /\ UNCHANGED <<out, pos, framecount>>
  /\ UNCHANGED <<file, framenum, numdisc, framedisc>>

Next == Scan \/ Reject \/ Accept \/ CopyTail \/ CopyHead

Spec == Init /\ [][Next]_vars
-----------------------------------------------------------------------------
TypeOK ==
  /\ pc \in {"scan", "tail", "head", "done", "nothing", "corrupted", "failed"}
  /\ file \in Seq(Frame)
  /\ {framecount, pos} \subseteq 0..Len(file)
  /\ framenum \in [Thread -> -1..MAXFRAMENUM]
  /\ numdisc \in [Thread -> Nat]
  /\ framedisc \in -1..(Len(file) - 1)
  /\ out \in Seq(Frame)

(***************************************************************************)
(* The scan, which keeps one number per thread, finds the first place      *)
(* where a thread's frame numbers do not run on, and counts all of them;   *)
(* the end of a second, where they start again at 0, is not one.           *)
(***************************************************************************)
ScanFindsJumps ==
  LET jumps == {i \in 1..(IF pc = "scan" THEN pos ELSE Len(file)) : DiscontinuousAt(file, i)}
  IN  /\ \A t \in Thread : numdisc[t] = Cardinality({i \in jumps : file[i].thread = t})
      /\ IF jumps = {} THEN framedisc = -1
         ELSE framedisc + 1 \in jumps /\ \A i \in jumps : framedisc + 1 <= i

(***************************************************************************)
(* A dump is recognised for what it is, however its two threads are        *)
(* interleaved and wherever in it a second ends: it is not rejected, and   *)
(* it is cut where writing stopped.                                        *)
(***************************************************************************)
DumpIsCutAtWrap ==
  \A w \in 1..Len(file) :
    IsDump(file, w) =>
      pc \notin {"nothing", "corrupted"} /\ (pc \in {"tail", "head", "done"} => framedisc = w)

(***************************************************************************)
(* What db_unwrap makes of a dump is in order of time: it has no           *)
(* discontinuity left.                                                     *)
(***************************************************************************)
OutputInTime ==
  \A w \in 1..Len(file) : IsDump(file, w) /\ pc = "done" => Contiguous(out)

(***************************************************************************)
(* The comments of the two copying passes, "Copy data from framedisc       *)
(* onwards into output file" and "Copy data from start of input file up to *)
(* framedisc", promise that every packet of the input is in the output.    *)
(***************************************************************************)
NothingLost == pc = "done" => Len(out) = Len(file)
=============================================================================
