-------------------------- MODULE EventDumpProofs --------------------------
(***************************************************************************)
(* Proofs about EventDump for any ring, any raw socket and any number of   *)
(* packets: the indices stay in range, and they implement the data block   *)
(* that Capture and the abstract BlockUse speak of.                        *)
(***************************************************************************)
EXTENDS EventDump, SequenceTheorems, TLAPS

-----------------------------------------------------------------------------
(* Constants, frames and places in the ring. *)

LEMMA Sizes ==
  /\ NBufs \in Nat \ {0} /\ PktsPerBuf \in Nat \ {0}
  /\ RawSize \in Nat /\ MaxPackets \in Nat /\ MAXFRAMENUM \in Nat
BY EventDumpAssumption, FrameAssumption

LEMMA CapacityIs == Capacity \in Nat \ {0}
<1>1. \A m, n \in Nat \ {0} : m * n \in Nat \ {0}
  OBVIOUS
<1> QED
  BY <1>1, Sizes DEF Capacity

\* The header of a packet is a frame.
LEMMA FrameType == \A k \in Packet : FrameOf(k) \in Frame
<1>1. ASSUME NEW k \in Packet PROVE FrameOf(k) \in Frame
  <2>1. k \in Nat /\ k % 2 \in {0, 1} /\ k \div 2 \in Nat
    BY Sizes DEF Packet
  <2>2. \A n \in Nat : n % (MAXFRAMENUM + 1) \in 0..MAXFRAMENUM
    BY Sizes
  <2> QED
    BY <2>1, <2>2 DEF FrameOf, Frame, Thread
<1> QED
  BY <1>1

\* Going around the ring stays in it, comes to another place before a full turn, and
\* can be done in two steps.
LEMMA AroundIs ==
  ASSUME NEW i \in Buf
  PROVE  /\ \A n \in 0..NBufs : Around(i, n) \in Buf
         /\ \A m, n \in 0..(NBufs - 1) : m # n => Around(i, m) # Around(i, n)
         /\ \A n \in 0..(NBufs - 1) : Around(Around(i, 1), n) = Around(i, n + 1)
         /\ \A n \in 0..(NBufs - 1) : Around(Around(i, n), 1) = Around(i, n + 1)
         /\ Around(i, 0) = i /\ Around(i, NBufs) = i
BY Sizes DEF Around, Buf

\* The end of a sequence is a sequence, no longer than it was asked for.
LEMMA LatestIs ==
  ASSUME NEW S, NEW s \in Seq(S), NEW n \in Nat
  PROVE  Latest(s, n) \in Seq(S) /\ Len(Latest(s, n)) <= n
<1>1. Len(s) \in Nat /\ (Len(s) > n => Len(s) - n + 1 \in 1..(Len(s) + 1))
  BY LenProperties
<1>2. CASE Len(s) > n
  <2>1. SubSeq(s, Len(s) - n + 1, Len(s)) \in Seq(S)
    BY <1>1, <1>2, SubSeqProperties
  <2>2. Len(SubSeq(s, Len(s) - n + 1, Len(s))) = n
    BY <1>1, <1>2, SubSeqProperties
  <2> QED
    BY <1>2, <2>1, <2>2 DEF Latest
<1> QED
  BY <1>1, <1>2 DEF Latest
-----------------------------------------------------------------------------
(* Type correctness. *)

BlockType ==
  /\ mem \in [Buf -> [1..PktsPerBuf -> Packet \union {NoPacket}]]
  /\ info \in [Buf -> [pkts : 0..PktsPerBuf, eod : BOOLEAN]]
  /\ wbuf \in Buf /\ rbuf \in Buf
  /\ cur \in 0..PktsPerBuf /\ pos \in 0..PktsPerBuf
  /\ nfilled \in 0..NBufs

\* The sub-blocks marked filled lie between the two indices, the one being written is
\* none of them, and nothing is read behind the end of one.
Indices ==
  /\ wbuf = Around(rbuf, nfilled)
  /\ cur # 0 => nfilled < NBufs
  /\ IF nfilled = 0 THEN pos = 0 ELSE pos <= info[rbuf].pkts

\* Marking a sub-block filled keeps the indices right.
LEMMA MarkKeepsIndices ==
  ASSUME BlockType, Indices, cur # 0, NEW eod \in BOOLEAN, MarkFilledAs(eod)
  PROVE  BlockType' /\ Indices'
<1> DEFINE x == [pkts |-> cur, eod |-> eod]
<1>1. /\ NBufs \in Nat \ {0} /\ PktsPerBuf \in Nat \ {0} /\ nfilled \in 0..(NBufs - 1)
      /\ wbuf = Around(rbuf, nfilled) /\ rbuf = Around(rbuf, 0) /\ rbuf \in Buf /\ wbuf \in Buf
  BY Sizes, AroundIs DEF BlockType, Indices
<1>2. /\ info' = [info EXCEPT ![wbuf] = x] /\ x \in [pkts : 0..PktsPerBuf, eod : BOOLEAN]
      /\ wbuf' = Around(wbuf, 1) /\ cur' = 0 /\ nfilled' = nfilled + 1
      /\ UNCHANGED <<mem, rbuf, pos>>
  BY DEF MarkFilledAs, BlockType
<1>3. wbuf' = Around(rbuf, nfilled + 1) /\ wbuf' \in Buf
  BY <1>1, <1>2, AroundIs
<1>4. BlockType'
  <2>1. info' \in [Buf -> [pkts : 0..PktsPerBuf, eod : BOOLEAN]]
    BY <1>2 DEF BlockType
  <2>2. cur' \in 0..PktsPerBuf /\ nfilled' \in 0..NBufs
    BY <1>1, <1>2
  <2> QED
    BY <1>2, <1>3, <2>1, <2>2 DEF BlockType
<1>5. nfilled = 0 => wbuf = rbuf /\ pos = 0 /\ info'[rbuf].pkts = cur
  BY <1>1, <1>2 DEF Indices, BlockType
<1>6. nfilled # 0 => wbuf # rbuf /\ pos <= info[rbuf].pkts /\ info'[rbuf] = info[rbuf]
  <2>1. nfilled # 0 => wbuf # rbuf
    BY <1>1, AroundIs
  <2> QED
    BY <1>1, <1>2, <2>1 DEF Indices, BlockType
<1>7. pos' <= info'[rbuf'].pkts /\ nfilled' # 0
  BY <1>1, <1>2, <1>5, <1>6 DEF BlockType
<1> QED
  BY <1>2, <1>3, <1>4, <1>7 DEF Indices

\* Closing the block does too, with or without a packet in the sub-block being written.
LEMMA CloseKeepsIndices ==
  ASSUME BlockType, Indices, Close
  PROVE  BlockType' /\ Indices'
<1>1. CASE cur = 0
  BY <1>1 DEF Close, block, BlockType, Indices
<1>2. CASE cur # 0
  BY <1>2, MarkKeepsIndices DEF Close
<1> QED
  BY <1>1, <1>2

\* So does writing a packet into it.
LEMMA WriteKeepsIndices ==
  ASSUME BlockType, Indices, hand \in Packet, Write
  PROVE  BlockType' /\ Indices'
<1>1. /\ cur + 1 \in 1..PktsPerBuf /\ cur' = cur + 1 /\ nfilled < NBufs
      /\ UNCHANGED <<info, wbuf, rbuf, pos, nfilled>>
  BY Sizes DEF Write, BlockType, Indices
<1>2. mem' = [mem EXCEPT ![wbuf] = [mem[wbuf] EXCEPT ![cur + 1] = hand]]
  BY DEF Write
<1>3. mem' \in [Buf -> [1..PktsPerBuf -> Packet \union {NoPacket}]]
  BY <1>1, <1>2 DEF BlockType
<1> QED
  BY <1>1, <1>3 DEF BlockType, Indices

\* So does reading, also across the end of a sub-block.
LEMMA ReadKeepsIndices ==
  ASSUME BlockType, Indices, Read
  PROVE  BlockType' /\ Indices'
<1>1. NBufs \in Nat \ {0} /\ PktsPerBuf \in Nat \ {0} /\ UNCHANGED <<mem, info, wbuf, cur>>
  BY Sizes DEF Read
<1>2. CASE UNCHANGED <<rbuf, pos, nfilled>>
  BY <1>1, <1>2 DEF BlockType, Indices
<1>3. CASE nfilled > 0 /\ Clear
  <2>1. /\ nfilled - 1 \in 0..(NBufs - 1) /\ rbuf' = Around(rbuf, 1) /\ pos' = 0
        /\ nfilled' = nfilled - 1
    BY <1>1, <1>3 DEF Clear, BlockType
  <2>2. rbuf' \in Buf /\ Around(rbuf', nfilled - 1) = Around(rbuf, nfilled - 1 + 1)
    BY <1>1, <2>1, AroundIs DEF BlockType
  <2>3. nfilled - 1 + 1 = nfilled
    BY DEF BlockType
  <2>4. 0 <= info[rbuf'].pkts
    BY <2>2 DEF BlockType
  <2>5. cur # 0 => nfilled' < NBufs
    BY <1>1, <2>1 DEF Indices, BlockType
  <2> QED
    BY <1>1, <2>1, <2>2, <2>3, <2>4, <2>5 DEF BlockType, Indices
<1>4. CASE nfilled > 0 /\ pos < info[rbuf].pkts /\ pos' = pos + 1 /\ UNCHANGED <<rbuf, nfilled>>
  <2>1. info[rbuf].pkts \in 0..PktsPerBuf
    BY DEF BlockType
  <2>2. pos + 1 \in 0..PktsPerBuf /\ pos + 1 <= info[rbuf].pkts
    BY <1>1, <1>4, <2>1 DEF BlockType
  <2> QED
    BY <1>1, <1>4, <2>2 DEF BlockType, Indices
<1> QED
  BY <1>2, <1>3, <1>4 DEF Read, OpenToRead, CloseToRead, ReadPacket, ReadEnd

\* What the Writer and the raw socket keep.
WriterState ==
  /\ writer \in {"stopped", "started", "write", "dumped"}
  /\ hand \in Packet \union {NoPacket}
  /\ framenum \in [Thread -> -1..MAXFRAMENUM]
  /\ reading \in BOOLEAN
  /\ sent \in 0..MaxPackets
  /\ raw \in Seq(Packet) /\ Len(raw) <= RawSize
  /\ recent \in Seq(Packet) /\ Len(recent) <= Capacity
  /\ runs \in 0..Capacity

\* Inside ipcio_write there is a packet in its hand.
HasPacket == writer = "write" => hand \in Packet

LEMMA TypeIs == TypeOK <=> WriterState /\ BlockType
  BY DEF TypeOK, WriterState, BlockType

LEMMA WriterStateKept ==
  ASSUME WriterState, HasPacket, Next
  PROVE  WriterState' /\ HasPacket'
<1> USE DEF WriterState, HasPacket
<1>1. /\ PktsPerBuf \in Nat \ {0} /\ RawSize \in Nat /\ MaxPackets \in Nat /\ MAXFRAMENUM \in Nat
      /\ Capacity \in Nat \ {0}
  BY Sizes, CapacityIs
<1>2. CASE Arrive
  <2>1. sent + 1 \in Packet /\ sent' = sent + 1 /\ sent' \in 0..MaxPackets
    BY <1>1, <1>2 DEF Arrive, Packet
  <2>2. raw' \in Seq(Packet) /\ Len(raw') <= RawSize
    <3>1. CASE Len(raw) < RawSize
      <4>1. raw' = Append(raw, sent + 1)
        BY <1>2, <2>1, <3>1 DEF Arrive
      <4>2. Len(raw) \in Nat
        BY LenProperties
      <4> QED
        BY <1>1, <2>1, <3>1, <4>1, <4>2, AppendProperties
    <3>2. CASE ~(Len(raw) < RawSize)
      BY <1>2, <3>2 DEF Arrive
    <3> QED
      BY <3>1, <3>2
  <2> QED
    BY <1>2, <2>1, <2>2 DEF Arrive
<1>3. CASE Start
  BY <1>1, <1>3 DEF Start
<1>4. CASE Stop \/ Event \/ StayStopped
  BY <1>4 DEF Stop, Event, StayStopped
<1>5. CASE Restart
  BY <1>1, <1>5 DEF Restart, Thread
<1>6. CASE Receive
  <2>1. /\ Head(raw) \in Packet /\ Tail(raw) \in Seq(Packet) /\ Len(Tail(raw)) = Len(raw) - 1
        /\ Len(raw) \in Nat
    BY <1>6, HeadTailProperties, LenProperties DEF Receive
  <2> QED
    BY <1>1, <1>6, <2>1 DEF Receive
<1>7. CASE MarkFilled
  BY <1>7 DEF MarkFilled
<1>8. CASE Write \/ WriteFails
  <2>1. hand \in Packet /\ UNCHANGED <<reading, sent, raw>>
    BY <1>8 DEF Write, WriteFails
  <2>2. framenum' \in [Thread -> -1..MAXFRAMENUM]
    <3> DEFINE f == FrameOf(hand)
    <3>1. f.thread \in Thread /\ f.num \in -1..MAXFRAMENUM
      BY <1>1, <2>1, FrameType DEF Frame
    <3>2. framenum' = [framenum EXCEPT ![f.thread] = f.num]
      BY <1>8 DEF Write, WriteFails, LogFrame
    <3> HIDE DEF f
    <3> QED
      BY <3>1, <3>2
  <2>3. recent' \in Seq(Packet) /\ Len(recent') <= Capacity
    <3>1. CASE Write
      <4>1. recent' = Latest(Append(recent, hand), Capacity) /\ Append(recent, hand) \in Seq(Packet)
        BY <2>1, <3>1, AppendProperties DEF Write
      <4> QED
        BY <1>1, <4>1, LatestIs
    <3>2. CASE WriteFails
      BY <3>2 DEF WriteFails
    <3> QED
      BY <1>8, <3>1, <3>2
  <2>4. runs' \in 0..Capacity
    BY <1>1, <1>8 DEF Write, WriteFails
  <2>5. writer' = "started" /\ hand' = NoPacket
    BY <1>8 DEF Write, WriteFails
  <2> QED
    BY <2>1, <2>2, <2>3, <2>4, <2>5
<1>9. CASE Read
  BY <1>9 DEF Read, OpenToRead, CloseToRead, ReadPacket, ReadEnd
<1> QED
  BY <1>2, <1>3, <1>4, <1>5, <1>6, <1>7, <1>8, <1>9 DEF Next

\* For any ring, raw socket and stream of packets, indices and counters stay in range.
THEOREM TypeCorrect == Spec => [](TypeOK /\ Indices /\ HasPacket)
<1> DEFINE Inv == WriterState /\ HasPacket /\ BlockType /\ Indices
<1>1. Init => Inv
  <2> SUFFICES ASSUME Init PROVE Inv
    OBVIOUS
  <2>1. WriterState /\ HasPacket
    <3>1. raw \in Seq(Packet) /\ recent \in Seq(Packet) /\ Len(raw) = 0 /\ Len(recent) = 0
      BY EmptySeq DEF Init
    <3>2. framenum \in [Thread -> -1..MAXFRAMENUM]
      BY Sizes DEF Init, Thread
    <3>3. /\ sent \in 0..MaxPackets /\ runs \in 0..Capacity
          /\ Len(raw) <= RawSize /\ Len(recent) <= Capacity
      BY <3>1, Sizes, CapacityIs DEF Init
    <3>4. reading \in BOOLEAN
      BY DEF Init
    <3>5. writer = "stopped" /\ hand = NoPacket
      BY DEF Init
    <3> QED
      BY <3>1, <3>2, <3>3, <3>4, <3>5 DEF WriterState, HasPacket
  <2>2. BlockType
    BY Sizes DEF Init, BlockType, Buf
  <2>3. Indices
    BY <2>2, AroundIs DEF Init, Indices, BlockType
  <2> QED
    BY <2>1, <2>2, <2>3
<1>2. Inv /\ [Next]_vars => Inv'
  <2> SUFFICES ASSUME Inv, [Next]_vars PROVE Inv'
    OBVIOUS
  <2>1. CASE UNCHANGED vars
    BY <2>1 DEF vars, block, WriterState, HasPacket, BlockType, Indices
  <2>2. CASE Next
    <3>1. WriterState' /\ HasPacket'
      BY <2>2, WriterStateKept
    <3>2. ASSUME UNCHANGED block PROVE BlockType' /\ Indices'
      BY <3>2 DEF block, BlockType, Indices
    <3>3. CASE Stop \/ Event
      BY <3>1, <3>3, CloseKeepsIndices DEF Stop, Event
    <3>4. CASE MarkFilled
      <4>1. cur # 0 /\ MarkFilledAs(FALSE)
        BY <3>4, Sizes DEF MarkFilled
      <4> QED
        BY <3>1, <4>1, MarkKeepsIndices
    <3>5. CASE Write
      <4>1. hand \in Packet
        BY <3>5 DEF Write, HasPacket
      <4> QED
        BY <3>1, <3>5, <4>1, WriteKeepsIndices
    <3>6. CASE Read
      BY <3>1, <3>6, ReadKeepsIndices
    <3>7. CASE Arrive \/ Start \/ StayStopped \/ Restart \/ Receive \/ WriteFails
      BY <3>1, <3>2, <3>7 DEF Arrive, Start, StayStopped, Restart, Receive, WriteFails
    <3> QED
      BY <2>2, <3>1, <3>3, <3>4, <3>5, <3>6, <3>7 DEF Next
  <2> QED
    BY <2>1, <2>2
<1>3. Inv => TypeOK /\ Indices /\ HasPacket
  BY TypeIs
<1> QED
  BY <1>1, <1>2, <1>3, PTL DEF Spec
-----------------------------------------------------------------------------
(* The indices implement the data block. *)

\* Marking a sub-block filled appends it to those that wait to be read.
LEMMA MarkAppends ==
  ASSUME BlockType, Indices, cur # 0, NEW eod \in BOOLEAN, MarkFilledAs(eod)
  PROVE  Unread' = Append(Unread, [pkts |-> cur, eod |-> eod])
<1> DEFINE x == [pkts |-> cur, eod |-> eod]
<1>1. /\ NBufs \in Nat \ {0} /\ nfilled \in 0..(NBufs - 1) /\ wbuf \in Buf /\ rbuf \in Buf
      /\ wbuf = Around(rbuf, nfilled)
  BY Sizes DEF BlockType, Indices
<1>2. /\ info' = [info EXCEPT ![wbuf] = x]
      /\ nfilled' = nfilled + 1 /\ UNCHANGED <<rbuf, pos>>
  BY DEF MarkFilledAs
<1>3. ASSUME NEW j \in 1..nfilled PROVE Unread'[j] = Unread[j]
  <2>1. Around(rbuf, j - 1) # wbuf /\ Around(rbuf, j - 1) \in Buf
    BY <1>1, AroundIs
  <2>2. info'[Around(rbuf, j - 1)] = info[Around(rbuf, j - 1)]
    BY <1>2, <2>1 DEF BlockType
  <2> QED
    BY <1>1, <1>2, <2>2 DEF Unread
<1>4. Unread'[nfilled + 1] = x
  <2>1. Around(rbuf', nfilled + 1 - 1) = wbuf /\ info'[wbuf] = x
    BY <1>1, <1>2 DEF BlockType
  <2>2. cur - (IF nfilled + 1 = 1 THEN pos ELSE 0) = cur
    BY <1>1 DEF Indices, BlockType
  <2> QED
    BY <1>1, <1>2, <2>1, <2>2 DEF Unread
<1>5. /\ Unread' = [j \in 1..(nfilled + 1) |-> Unread'[j]]
      /\ Append(Unread, x) = [j \in 1..(nfilled + 1) |-> IF j \in 1..nfilled THEN Unread[j] ELSE x]
  BY <1>1, <1>2 DEF Unread
<1> QED
  BY <1>1, <1>3, <1>4, <1>5

\* Clearing a sub-block takes it from the front of them.
LEMMA ClearTakes ==
  ASSUME BlockType, nfilled > 0, Clear, UNCHANGED info
  PROVE  Unread' = Tail(Unread)
<1>1. /\ NBufs \in Nat \ {0} /\ nfilled \in 1..NBufs /\ rbuf \in Buf
      /\ rbuf' = Around(rbuf, 1) /\ pos' = 0 /\ nfilled' = nfilled - 1
  BY Sizes DEF BlockType, Clear
<1>2. ASSUME NEW j \in 1..(nfilled - 1) PROVE Unread'[j] = Unread[j + 1]
  <2>1. Around(rbuf', j - 1) = Around(rbuf, j)
    <3>1. j - 1 \in 0..(NBufs - 1) /\ j - 1 + 1 = j
      BY <1>1
    <3> QED
      BY <1>1, <3>1, AroundIs
  <2>2. j + 1 \in 1..nfilled /\ j + 1 # 1 /\ j + 1 - 1 = j
    BY <1>1
  <2> QED
    BY <1>1, <2>1, <2>2 DEF Unread
<1>3. /\ Unread' = [j \in 1..(nfilled - 1) |-> Unread'[j]]
      /\ Tail(Unread) = [j \in 1..(nfilled - 1) |-> Unread[j + 1]]
  BY <1>1 DEF Unread
<1> QED
  BY <1>2, <1>3

\* Reading a packet of it takes the packet from the first of them.
LEMMA ReadTakes ==
  ASSUME BlockType, nfilled > 0, pos' = pos + 1, UNCHANGED <<info, rbuf, nfilled>>
  PROVE  Unread' = [Unread EXCEPT ![1].pkts = Unread[1].pkts - 1]
<1>1. nfilled \in Nat /\ pos \in Nat /\ rbuf \in Buf /\ Around(rbuf, 1 - 1) = rbuf
      /\ info[rbuf].pkts \in Nat
  BY Sizes, AroundIs DEF BlockType
<1>2. /\ Unread[1] = [pkts |-> info[rbuf].pkts - pos, eod |-> info[rbuf].eod]
      /\ Unread'[1] = [pkts |-> info[rbuf].pkts - (pos + 1), eod |-> info[rbuf].eod]
  BY <1>1 DEF Unread
<1>3. Unread'[1] = [Unread[1] EXCEPT !.pkts = Unread[1].pkts - 1]
  BY <1>1, <1>2
<1>4. ASSUME NEW j \in 1..nfilled, j # 1 PROVE Unread'[j] = Unread[j]
  BY <1>4 DEF Unread
<1>5. /\ Unread' = [j \in 1..nfilled |-> Unread'[j]] /\ Unread = [j \in 1..nfilled |-> Unread[j]]
  BY DEF Unread
<1> QED
  BY <1>1, <1>3, <1>4, <1>5

\* The block as its users see it, by its parts.
RingOf(w, r, f, c) == [writing |-> w, reading |-> r, filled |-> f, cur |-> c]
Open == writer \in {"started", "write"}

LEMMA AsRingIs == AsRing = RingOf(Open, reading, Unread, cur)
BY Zenon DEF AsRing, RingOf, Open

\* A pair of its own is a sequence of one data block: its parts, and what is left of them
\* when one, two or three are replaced.
LEMMA Parts ==
  /\ <<AsRing>>[1].writing = Open /\ <<AsRing>>[1].reading = reading
  /\ <<AsRing>>[1].filled = Unread /\ <<AsRing>>[1].cur = cur
BY AsRingIs DEF RingOf

LEMMA OneEdit ==
  ASSUME NEW b, NEW n, NEW g
  PROVE  /\ [<<AsRing>> EXCEPT ![1].writing = b] = <<RingOf(b, reading, Unread, cur)>>
         /\ [<<AsRing>> EXCEPT ![1].reading = b] = <<RingOf(Open, b, Unread, cur)>>
         /\ [<<AsRing>> EXCEPT ![1].filled = g] = <<RingOf(Open, reading, g, cur)>>
         /\ [<<AsRing>> EXCEPT ![1].cur = n] = <<RingOf(Open, reading, Unread, n)>>
BY AsRingIs DEF RingOf

LEMMA TwoEdits ==
  ASSUME NEW b, NEW n, NEW g
  PROVE  /\ [<<AsRing>> EXCEPT ![1].cur = n, ![1].filled = g] = <<RingOf(Open, reading, g, n)>>
         /\ [<<AsRing>> EXCEPT ![1].filled = g, ![1].reading = b] = <<RingOf(Open, b, g, cur)>>
<1>1. [<<AsRing>> EXCEPT ![1].cur = n, ![1].filled = g] = <<RingOf(Open, reading, g, n)>>
  <2> DEFINE once == [<<AsRing>> EXCEPT ![1].cur = n]
  <2>1. once = <<RingOf(Open, reading, Unread, n)>>
    BY OneEdit
  <2> HIDE DEF once
  <2>2. [once EXCEPT ![1].filled = g] = <<RingOf(Open, reading, g, n)>>
    BY <2>1 DEF RingOf
  <2> QED
    BY <2>2 DEF once
<1>2. [<<AsRing>> EXCEPT ![1].filled = g, ![1].reading = b] = <<RingOf(Open, b, g, cur)>>
  <2> DEFINE once == [<<AsRing>> EXCEPT ![1].filled = g]
  <2>1. once = <<RingOf(Open, reading, g, cur)>>
    BY OneEdit
  <2> HIDE DEF once
  <2>2. [once EXCEPT ![1].reading = b] = <<RingOf(Open, b, g, cur)>>
    BY <2>1 DEF RingOf
  <2> QED
    BY <2>2 DEF once
<1> QED
  BY <1>1, <1>2

LEMMA ThreeEdits ==
  ASSUME NEW b, NEW n, NEW g
  PROVE  [<<AsRing>> EXCEPT ![1].writing = b, ![1].cur = n, ![1].filled = g]
           = <<RingOf(b, reading, g, n)>>
<1> DEFINE once == [<<AsRing>> EXCEPT ![1].writing = b]
           twice == [once EXCEPT ![1].cur = n]
<1>1. once = <<RingOf(b, reading, Unread, cur)>>
  BY OneEdit
<1> HIDE DEF once
<1>2. twice = <<RingOf(b, reading, Unread, n)>>
  BY <1>1 DEF RingOf
<1> HIDE DEF twice
<1>3. [twice EXCEPT ![1].filled = g] = <<RingOf(b, reading, g, n)>>
  BY <1>2 DEF RingOf
<1> QED
  BY <1>3 DEF once, twice

LEMMA PartsAfter == <<AsRing>>' = <<RingOf(Open', reading', Unread', cur')>>
BY Zenon DEF AsRing, RingOf, Open

\* So each operation on the data block is a condition on what its users see of it before
\* and afterwards.
LEMMA OpensForWriting ==
  ASSUME Open' = TRUE, UNCHANGED <<reading, Unread, cur>>
  PROVE  Block!OpenForWriting(1)
<1>1. <<AsRing>>' = <<RingOf(TRUE, reading, Unread, cur)>>
  BY PartsAfter
<1> QED
  BY <1>1, OneEdit, Zenon DEF Block!OpenForWriting

LEMMA ClosesForWriting ==
  ASSUME Open' = FALSE, cur' = 0, UNCHANGED reading,
         cur = 0 => Unread' = Unread,
         cur # 0 => Unread' = Append(Unread, [pkts |-> cur, eod |-> TRUE])
  PROVE  Block!CloseForWriting(1)
<1> DEFINE g == IF <<AsRing>>[1].cur = 0 THEN <<AsRing>>[1].filled
                ELSE Append(<<AsRing>>[1].filled, [pkts |-> <<AsRing>>[1].cur, eod |-> TRUE])
<1>1. g = Unread'
  <2>1. CASE cur = 0
    BY <2>1, Parts
  <2>2. CASE cur # 0
    BY <2>2, Parts
  <2> QED
    BY <2>1, <2>2
<1> HIDE DEF g
<1>2. [<<AsRing>> EXCEPT ![1].writing = FALSE, ![1].cur = 0, ![1].filled = g]
        = <<RingOf(FALSE, reading, g, 0)>>
  BY ThreeEdits, Zenon
<1>3. <<AsRing>>' = <<RingOf(FALSE, reading, g, 0)>>
  BY <1>1, PartsAfter
<1> QED
  BY <1>2, <1>3, Zenon DEF Block!CloseForWriting, g

LEMMA MarksFilled ==
  ASSUME cur = PktsPerBuf, cur' = 0, UNCHANGED <<Open, reading>>,
         Unread' = Append(Unread, [pkts |-> PktsPerBuf, eod |-> FALSE])
  PROVE  Block!MarkFilled(1)
<1> DEFINE g == Append(<<AsRing>>[1].filled, [pkts |-> PktsPerBuf, eod |-> FALSE])
<1>1. g = Unread' /\ <<AsRing>>[1].cur = cur
  BY Parts
<1> HIDE DEF g
<1>2. [<<AsRing>> EXCEPT ![1].cur = 0, ![1].filled = g] = <<RingOf(Open, reading, g, 0)>>
  BY TwoEdits, Zenon
<1>3. <<AsRing>>' = <<RingOf(Open, reading, g, 0)>>
  BY <1>1, PartsAfter
<1> QED
  BY <1>1, <1>2, <1>3, Zenon DEF Block!MarkFilled, Block!SubBlockFull, g

LEMMA WritesPacket ==
  ASSUME cur # PktsPerBuf, ~(cur = 0 /\ Len(Unread) >= NBufs), cur' = cur + 1,
         UNCHANGED <<Open, reading, Unread>>
  PROVE  Block!WritePacket(1)
<1> DEFINE n == <<AsRing>>[1].cur + 1
<1>1. n = cur'
  BY Parts
<1> HIDE DEF n
<1>2. [<<AsRing>> EXCEPT ![1].cur = n] = <<RingOf(Open, reading, Unread, n)>>
  BY OneEdit, Zenon
<1>3. <<AsRing>>' = <<RingOf(Open, reading, Unread, n)>>
  BY <1>1, PartsAfter
<1>4. ~Block!SubBlockFull(1) /\ ~Block!RingFull(1)
  BY Parts, Zenon DEF Block!SubBlockFull, Block!RingFull
<1> QED
  BY <1>2, <1>3, <1>4 DEF Block!WritePacket, n

LEMMA OpensForReading ==
  ASSUME reading' = TRUE, UNCHANGED <<Open, Unread, cur>>
  PROVE  Block!OpenForReading(1)
<1>1. <<AsRing>>' = <<RingOf(Open, TRUE, Unread, cur)>>
  BY PartsAfter
<1> QED
  BY <1>1, OneEdit, Zenon DEF Block!OpenForReading

LEMMA ClosesForReading ==
  ASSUME reading' = FALSE, UNCHANGED <<Open, Unread, cur>>
  PROVE  Block!CloseForReading(1)
<1>1. <<AsRing>>' = <<RingOf(Open, FALSE, Unread, cur)>>
  BY PartsAfter
<1> QED
  BY <1>1, OneEdit, Zenon DEF Block!CloseForReading

LEMMA ReadsPacket ==
  ASSUME Unread # <<>>, Head(Unread).pkts > 0, UNCHANGED <<Open, reading, cur>>,
         Unread' = IF Head(Unread).pkts = 1 /\ ~Head(Unread).eod THEN Tail(Unread)
                   ELSE [Unread EXCEPT ![1].pkts = Head(Unread).pkts - 1]
  PROVE  Block!ReadPacket(1)
<1> DEFINE f == <<AsRing>>[1].filled
           h == Head(f)
           g == IF h.pkts = 1 /\ ~h.eod THEN Tail(f) ELSE [f EXCEPT ![1].pkts = h.pkts - 1]
<1>1. f = Unread
  BY Parts
<1>2. f # <<>> /\ h.pkts > 0
  BY <1>1
<1>3. g = Unread'
  BY <1>1
<1> HIDE DEF g
<1>4. [<<AsRing>> EXCEPT ![1].filled = g] = <<RingOf(Open, reading, g, cur)>>
  BY OneEdit, Zenon
<1>5. <<AsRing>>' = <<RingOf(Open, reading, g, cur)>>
  BY <1>3, PartsAfter
<1>6. <<AsRing>>' = [<<AsRing>> EXCEPT ![1].filled = g]
  BY <1>4, <1>5
<1> QED
  BY <1>2, <1>6, Zenon DEF Block!ReadPacket, Block!NothingToRead, g

LEMMA ReadsEnd ==
  ASSUME Unread # <<>>, Head(Unread).pkts = 0, reading' = FALSE, Unread' = Tail(Unread),
         UNCHANGED <<Open, cur>>
  PROVE  Block!ReadEnd(1)
<1> DEFINE g == Tail(<<AsRing>>[1].filled)
<1>1. g = Unread' /\ <<AsRing>>[1].filled = Unread
  BY Parts
<1> HIDE DEF g
<1>2. [<<AsRing>> EXCEPT ![1].filled = g, ![1].reading = FALSE] = <<RingOf(Open, FALSE, g, cur)>>
  BY TwoEdits, Zenon
<1>3. <<AsRing>>' = <<RingOf(Open, FALSE, g, cur)>>
  BY <1>1, PartsAfter
<1>4. Block!AtEnd(1)
  BY <1>1, Zenon DEF Block!AtEnd, Block!NothingToRead
<1> QED
  BY <1>2, <1>3, <1>4, Zenon DEF Block!ReadEnd, g

\* What is first to be read, and whether there is anything.
LEMMA FirstUnread ==
  ASSUME BlockType
  PROVE  /\ Unread \in Seq([pkts : Int, eod : BOOLEAN]) /\ Len(Unread) = nfilled
         /\ nfilled > 0 =>
              /\ Unread # <<>>
              /\ Unread[1] = [pkts |-> info[rbuf].pkts - pos, eod |-> info[rbuf].eod]
              /\ Head(Unread) = Unread[1]
<1>1. NBufs \in Nat \ {0} /\ nfilled \in Nat /\ nfilled <= NBufs /\ rbuf \in Buf /\ pos \in Nat
  BY Sizes DEF BlockType
<1>2. ASSUME NEW j \in 1..nfilled PROVE Unread[j] \in [pkts : Int, eod : BOOLEAN]
  <2>1. Around(rbuf, j - 1) \in Buf
    BY <1>1, AroundIs
  <2>2. info[Around(rbuf, j - 1)] \in [pkts : Nat, eod : BOOLEAN]
    BY <2>1 DEF BlockType
  <2> QED
    BY <1>1, <2>2 DEF Unread
<1>3. Unread = [j \in 1..nfilled |-> Unread[j]]
  BY DEF Unread
<1>4. Unread \in Seq([pkts : Int, eod : BOOLEAN]) /\ Len(Unread) = nfilled
  <2> DEFINE S == [pkts : Int, eod : BOOLEAN]
  <2>1. \A j \in 1..nfilled : Unread[j] \in S
    BY <1>2
  <2> HIDE DEF S
  <2>2. Unread \in [1..nfilled -> S]
    BY <1>3, <2>1
  <2>3. Unread \in Seq(S) /\ Len(Unread) = nfilled
    BY <1>1, <2>2
  <2> QED
    BY <2>3 DEF S
<1>5. ASSUME nfilled > 0
      PROVE  Unread[1] = [pkts |-> info[rbuf].pkts - pos, eod |-> info[rbuf].eod]
  <2>1. Around(rbuf, 1 - 1) = rbuf
    BY <1>1, AroundIs
  <2> QED
    BY <1>1, <1>5, <2>1 DEF Unread
<1> QED
  BY <1>1, <1>4, <1>5

LEMMA UnreadKept == UNCHANGED <<info, rbuf, pos, nfilled>> => UNCHANGED Unread
BY DEF Unread

\* What the Writer does is a legal use of the block.
LEMMA WriterUses ==
  ASSUME BlockType, Indices, Start \/ Stop \/ Event \/ MarkFilled \/ Write
  PROVE  Block!UseForWriting(1)
<1>1. <<AsRing>>[1].writing = Open
  BY Parts
<1>2. Open = TRUE \/ Open = FALSE
  BY DEF Open
<1>3. CASE Start
  <2>1. Open = FALSE /\ Open' = TRUE
    BY <1>3 DEF Start, Open
  <2>2. UNCHANGED <<info, rbuf, pos, nfilled>> /\ UNCHANGED <<reading, cur>>
    BY <1>3 DEF Start, block
  <2>3. Block!OpenForWriting(1)
    BY <2>1, <2>2, UnreadKept, OpensForWriting
  <2> QED
    BY <1>1, <2>1, <2>3 DEF Block!UseForWriting
<1>4. CASE Stop \/ Event
  <2>1. Open = TRUE /\ Open' = FALSE
    BY <1>4 DEF Stop, Event, Open
  <2>2. Close /\ UNCHANGED reading
    BY <1>4 DEF Stop, Event
  <2>3. cur' = 0
    BY <2>2 DEF Close, block, MarkFilledAs
  <2>4. cur = 0 => Unread' = Unread
    BY <2>2, UnreadKept DEF Close, block
  <2>5. cur # 0 => Unread' = Append(Unread, [pkts |-> cur, eod |-> TRUE])
    BY <2>2, MarkAppends DEF Close
  <2>6. Block!CloseForWriting(1)
    BY <2>1, <2>2, <2>3, <2>4, <2>5, ClosesForWriting
  <2> QED
    BY <1>1, <2>1, <2>6 DEF Block!UseForWriting
<1>5. CASE MarkFilled
  <2>1. Open = TRUE /\ Open' = TRUE
    BY <1>5 DEF MarkFilled, Open
  <2>2. cur = PktsPerBuf /\ MarkFilledAs(FALSE) /\ UNCHANGED reading
    BY <1>5 DEF MarkFilled
  <2>3. cur' = 0 /\ Unread' = Append(Unread, [pkts |-> PktsPerBuf, eod |-> FALSE])
    BY <2>2, Sizes, MarkAppends DEF MarkFilledAs
  <2>4. Block!MarkFilled(1)
    BY <2>1, <2>2, <2>3, MarksFilled
  <2> QED
    BY <1>1, <2>1, <2>4 DEF Block!UseForWriting
<1>6. CASE Write
  <2>1. Open = TRUE /\ Open' = TRUE
    BY <1>6 DEF Write, Open
  <2>2. UNCHANGED <<info, rbuf, pos, nfilled>> /\ UNCHANGED reading /\ cur' = cur + 1
    BY <1>6 DEF Write
  <2>3. cur # PktsPerBuf /\ ~(cur = 0 /\ Len(Unread) >= NBufs)
    BY <1>6, FirstUnread, Sizes DEF Write, BlockType
  <2>4. Block!WritePacket(1)
    BY <2>1, <2>2, <2>3, UnreadKept, WritesPacket
  <2> QED
    BY <1>1, <2>1, <2>4 DEF Block!UseForWriting
<1> QED
  BY <1>3, <1>4, <1>5, <1>6

\* So is what the Reader does.
LEMMA ReaderUses ==
  ASSUME BlockType, Indices, Read
  PROVE  Block!UseForReading(1)
<1>1. <<AsRing>>[1].reading = reading /\ UNCHANGED <<Open, cur>> /\ UNCHANGED info
  BY Parts DEF Read, Open
<1>2. CASE OpenToRead
  <2>1. ~reading /\ Block!OpenForReading(1)
    BY <1>1, <1>2, UnreadKept, OpensForReading DEF OpenToRead
  <2> QED
    BY <1>1, <2>1 DEF Block!UseForReading
<1>3. CASE CloseToRead
  <2>1. reading /\ Block!CloseForReading(1)
    BY <1>1, <1>3, UnreadKept, ClosesForReading DEF CloseToRead
  <2> QED
    BY <1>1, <2>1 DEF Block!UseForReading
<1>4. CASE ReadPacket
  <2>1. reading /\ nfilled > 0 /\ pos < info[rbuf].pkts /\ UNCHANGED reading
    BY <1>4 DEF ReadPacket
  <2>2. /\ Head(Unread) = Unread[1] /\ Unread # <<>>
        /\ Unread[1] = [pkts |-> info[rbuf].pkts - pos, eod |-> info[rbuf].eod]
    BY <2>1, FirstUnread
  <2>3. /\ info[rbuf].pkts \in Nat /\ pos \in Nat
        /\ Head(Unread).pkts = info[rbuf].pkts - pos /\ Head(Unread).eod = info[rbuf].eod
    BY <2>2, Sizes DEF BlockType
  <2>4. Unread' = IF Head(Unread).pkts = 1 /\ ~Head(Unread).eod THEN Tail(Unread)
                  ELSE [Unread EXCEPT ![1].pkts = Head(Unread).pkts - 1]
    <3>1. Head(Unread).pkts = 1 <=> pos + 1 = info[rbuf].pkts
      BY <2>3
    <3>2. CASE pos + 1 = info[rbuf].pkts /\ ~info[rbuf].eod
      <4>1. Unread' = Tail(Unread)
        BY <1>1, <1>4, <2>1, <3>2, ClearTakes DEF ReadPacket
      <4> QED
        BY <2>3, <3>1, <3>2, <4>1
    <3>3. CASE ~(pos + 1 = info[rbuf].pkts /\ ~info[rbuf].eod)
      <4>1. Unread' = [Unread EXCEPT ![1].pkts = Unread[1].pkts - 1]
        BY <1>1, <1>4, <2>1, <3>3, ReadTakes DEF ReadPacket
      <4> QED
        BY <2>2, <2>3, <3>1, <3>3, <4>1
    <3> QED
      BY <3>2, <3>3
  <2>5. Block!ReadPacket(1)
    <3>1. Head(Unread).pkts > 0
      BY <2>1, <2>3
    <3> QED
      BY <1>1, <2>1, <2>2, <2>4, <3>1, ReadsPacket
  <2> QED
    BY <1>1, <2>1, <2>5 DEF Block!UseForReading
<1>5. CASE ReadEnd
  <2>1. reading /\ nfilled > 0 /\ pos = info[rbuf].pkts /\ Clear /\ reading' = FALSE
    BY <1>5 DEF ReadEnd
  <2>2. Unread # <<>> /\ Head(Unread).pkts = 0
    <3>1. info[rbuf].pkts \in Nat
      BY DEF BlockType
    <3> QED
      BY <2>1, <3>1, FirstUnread
  <2>3. Unread' = Tail(Unread)
    BY <1>1, <2>1, ClearTakes
  <2>4. Block!ReadEnd(1)
    BY <1>1, <2>1, <2>2, <2>3, ReadsEnd
  <2> QED
    BY <1>1, <2>1, <2>4 DEF Block!UseForReading
<1> QED
  BY <1>2, <1>3, <1>4, <1>5 DEF Read

\* Recordings, dumps and reads implement the legal use of the data block, wherever in the
\* ring they stand.
THEOREM BlockUsed == Spec => UsesBlock
<1>1. Init => Block!RingInit
  <2> SUFFICES ASSUME Init PROVE <<AsRing>> = [p \in {1} |-> Block!NewRing]
    BY DEF Block!RingInit
  <2>1. Open = FALSE /\ reading = FALSE /\ cur = 0 /\ nfilled = 0
    BY DEF Init, Open
  <2>2. Unread = <<>>
    BY <2>1 DEF Unread
  <2>3. AsRing = RingOf(FALSE, FALSE, <<>>, 0)
    BY <2>1, <2>2, AsRingIs
  <2>4. AsRing = Block!NewRing
    BY <2>3, Zenon DEF RingOf, Block!NewRing
  <2> QED
    BY <2>4
<1>2. BlockType /\ Indices /\ [Next]_vars => [Block!Use]_(<<AsRing>>)
  <2> SUFFICES ASSUME BlockType, Indices, [Next]_vars PROVE [Block!Use]_(<<AsRing>>)
    OBVIOUS
  <2>1. CASE Start \/ Stop \/ Event \/ MarkFilled \/ Write
    BY <2>1, WriterUses DEF Block!Use
  <2>2. CASE Read
    BY <2>2, ReaderUses DEF Block!Use
  <2>3. CASE Arrive \/ StayStopped \/ Restart \/ Receive \/ WriteFails \/ UNCHANGED vars
    <3>1. Open' = Open
      BY <2>3 DEF Arrive, StayStopped, Restart, Receive, WriteFails, vars, Open
    <3>2. UNCHANGED <<info, rbuf, pos, nfilled>> /\ UNCHANGED <<reading, cur>>
      BY <2>3 DEF Arrive, StayStopped, Restart, Receive, WriteFails, vars, block
    <3>3. AsRing' = RingOf(Open', reading', Unread', cur')
      BY Zenon DEF AsRing, RingOf, Open
    <3> QED
      BY <3>1, <3>2, <3>3, UnreadKept, AsRingIs
  <2> QED
    BY <2>1, <2>2, <2>3 DEF Next
<1>3. TypeOK => BlockType
  BY TypeIs
<1> QED
  BY <1>1, <1>2, <1>3, TypeCorrect, PTL DEF Spec, UsesBlock, Block!Spec
-----------------------------------------------------------------------------
(* What is in a dump. *)

\* The place in a dump of the packet that was written n packets ago, when writing has come
\* to place w.
Back(w, n) == IF n <= w THEN w - n + 1 ELSE Capacity + w - n + 1

HoldsRecent(w) == \A n \in 1..Len(recent) : Dump[Back(w, n)] = recent[Len(recent) - n + 1]

Here == wbuf * PktsPerBuf + cur

\* The memory behind the place of writing holds the packets of the recording, also when that
\* place is the beginning of a sub-block; and closing the block leaves them there.
Newest ==
  /\ Open =>
       /\ HoldsRecent(Here)
       /\ recent # <<>> /\ cur = 0 => info[Closed].pkts = PktsPerBuf
  /\ writer = "dumped" /\ recent # <<>> => HoldsRecent(StoppedAfter)

\* Packet j of sub-block i is the one at i * PktsPerBuf + j of a dump, and no other's.
LEMMA PlaceOf ==
  /\ \A i \in Buf, j \in 1..PktsPerBuf :
       LET k == i * PktsPerBuf + j
       IN  k \in 1..Capacity /\ (k - 1) \div PktsPerBuf = i /\ (k - 1) % PktsPerBuf = j - 1
  /\ \A k \in 1..Capacity :
       LET i == (k - 1) \div PktsPerBuf
           r == (k - 1) % PktsPerBuf
       IN  i \in Buf /\ r \in 0..(PktsPerBuf - 1) /\ k = i * PktsPerBuf + r + 1
<1>1. PktsPerBuf \in Nat \ {0} /\ NBufs \in Nat \ {0} /\ Capacity = NBufs * PktsPerBuf
  BY Sizes DEF Capacity
\* Multiples of PktsPerBuf are that far apart.
<1>2. \A a, b \in Int : a < b => a * PktsPerBuf + PktsPerBuf <= b * PktsPerBuf
  <2> SUFFICES ASSUME NEW a \in Int, NEW b \in Int, a < b
               PROVE  a * PktsPerBuf + PktsPerBuf <= b * PktsPerBuf
    OBVIOUS
  <2>1. (a + 1) * PktsPerBuf <= b * PktsPerBuf
    <3>1. a + 1 <= b /\ PktsPerBuf >= 0
      BY <1>1
    <3>2. b * PktsPerBuf - (a + 1) * PktsPerBuf = (b - (a + 1)) * PktsPerBuf
      BY <1>1
    <3>3. (b - (a + 1)) * PktsPerBuf >= 0
      BY <1>1, <3>1
    <3>4. b * PktsPerBuf \in Int /\ (a + 1) * PktsPerBuf \in Int
      BY <1>1
    <3> QED
      BY <3>2, <3>3, <3>4
  <2>2. (a + 1) * PktsPerBuf = a * PktsPerBuf + PktsPerBuf
    BY <1>1
  <2> QED
    BY <2>1, <2>2
<1>3. \A x \in Nat : /\ x \div PktsPerBuf \in Int /\ x % PktsPerBuf \in 0..(PktsPerBuf - 1)
                     /\ x = (x \div PktsPerBuf) * PktsPerBuf + (x % PktsPerBuf)
  BY <1>1
<1>4. ASSUME NEW x \in Nat, NEW i \in Int, NEW r \in 0..(PktsPerBuf - 1), x = i * PktsPerBuf + r
      PROVE  x \div PktsPerBuf = i /\ x % PktsPerBuf = r
  <2> DEFINE q == x \div PktsPerBuf
             s == x % PktsPerBuf
  <2>1. q \in Int /\ s \in 0..(PktsPerBuf - 1) /\ x = q * PktsPerBuf + s
    BY <1>3
  <2> HIDE DEF q, s
  <2>2. q * PktsPerBuf \in Int /\ i * PktsPerBuf \in Int
    BY <1>1, <2>1
  <2>3. ~(q < i) /\ ~(i < q)
    BY <1>1, <1>2, <1>4, <2>1, <2>2
  <2>4. q = i
    BY <2>1, <2>3
  <2>5. s = r
    BY <1>1, <1>4, <2>1, <2>2, <2>4
  <2> QED
    BY <2>4, <2>5 DEF q, s
<1>5. \A i \in Buf, j \in 1..PktsPerBuf :
        LET k == i * PktsPerBuf + j
        IN  k \in 1..Capacity /\ (k - 1) \div PktsPerBuf = i /\ (k - 1) % PktsPerBuf = j - 1
  <2> SUFFICES ASSUME NEW i \in Buf, NEW j \in 1..PktsPerBuf
               PROVE  LET k == i * PktsPerBuf + j
                      IN  /\ k \in 1..Capacity
                          /\ (k - 1) \div PktsPerBuf = i /\ (k - 1) % PktsPerBuf = j - 1
    OBVIOUS
  <2>1. i \in Nat /\ i < NBufs /\ j \in Nat
    BY <1>1 DEF Buf
  <2>2. i * PktsPerBuf \in Nat /\ NBufs * PktsPerBuf \in Nat
    BY <1>1, <2>1
  <2>3. i * PktsPerBuf + PktsPerBuf <= NBufs * PktsPerBuf
    BY <1>1, <1>2, <2>1
  <2>4. i * PktsPerBuf + j \in 1..Capacity
    BY <1>1, <2>1, <2>2, <2>3
  <2> DEFINE x == (i * PktsPerBuf + j) - 1
  <2>5. x \in Nat /\ i \in Int /\ j - 1 \in 0..(PktsPerBuf - 1) /\ x = i * PktsPerBuf + (j - 1)
    BY <1>1, <2>1, <2>2
  <2> HIDE DEF x
  <2>6. x \div PktsPerBuf = i /\ x % PktsPerBuf = j - 1
    BY <1>4, <2>5
  <2> QED
    BY <2>4, <2>6 DEF x
<1>6. \A k \in 1..Capacity :
        LET i == (k - 1) \div PktsPerBuf
            r == (k - 1) % PktsPerBuf
        IN  i \in Buf /\ r \in 0..(PktsPerBuf - 1) /\ k = i * PktsPerBuf + r + 1
  <2> SUFFICES ASSUME NEW k \in 1..Capacity
               PROVE  LET i == (k - 1) \div PktsPerBuf
                          r == (k - 1) % PktsPerBuf
                      IN  /\ i \in Buf /\ r \in 0..(PktsPerBuf - 1)
                          /\ k = i * PktsPerBuf + r + 1
    OBVIOUS
  <2> DEFINE q == (k - 1) \div PktsPerBuf
             s == (k - 1) % PktsPerBuf
  <2>1. NBufs * PktsPerBuf \in Nat /\ k - 1 \in Nat /\ k - 1 < NBufs * PktsPerBuf
    BY <1>1
  <2>2. q \in Int /\ s \in 0..(PktsPerBuf - 1) /\ k - 1 = q * PktsPerBuf + s
    BY <1>3, <2>1
  <2> HIDE DEF q, s
  <2>3. q * PktsPerBuf \in Int /\ s \in Int
    BY <1>1, <2>2
  <2>4. 0 <= q
    <3>1. q < 0 => q * PktsPerBuf + PktsPerBuf <= 0 * PktsPerBuf
      BY <1>2, <2>2
    <3> QED
      BY <1>1, <2>1, <2>2, <2>3, <3>1
  <2>5. q < NBufs
    <3>1. NBufs < q => NBufs * PktsPerBuf + PktsPerBuf <= q * PktsPerBuf
      BY <1>1, <1>2, <2>2
    <3> QED
      BY <1>1, <2>1, <2>2, <2>3, <3>1
  <2> QED
    BY <1>1, <2>1, <2>2, <2>3, <2>4, <2>5 DEF q, s, Buf
<1> QED
  BY <1>5, <1>6

\* A dump is as long as the ring's memory, and writing comes to a place inside it.
LEMMA DumpIs ==
  ASSUME BlockType
  PROVE  /\ Dump \in Seq(Packet \union {NoPacket}) /\ Len(Dump) = Capacity
         /\ Capacity \in Nat \ {0} /\ Here \in Nat /\ Here <= Capacity
         /\ cur < PktsPerBuf => Here + 1 \in 1..Capacity
         /\ cur > 0 => Here \in 1..Capacity
<1>1. PktsPerBuf \in Nat \ {0} /\ Capacity \in Nat \ {0} /\ wbuf \in Buf /\ cur \in 0..PktsPerBuf
  BY Sizes, CapacityIs DEF BlockType
<1>2. ASSUME NEW k \in 1..Capacity PROVE Dump[k] \in Packet \union {NoPacket}
  <2> DEFINE i == (k - 1) \div PktsPerBuf
             r == (k - 1) % PktsPerBuf
  <2>1. i \in Buf /\ r \in 0..(PktsPerBuf - 1)
    BY PlaceOf
  <2>2. Dump[k] = mem[i][1 + r]
    BY DEF Dump
  <2> HIDE DEF i, r
  <2>3. 1 + r \in 1..PktsPerBuf
    BY <1>1, <2>1
  <2>4. mem[i] \in [1..PktsPerBuf -> Packet \union {NoPacket}]
    BY <2>1 DEF BlockType
  <2>5. mem[i][1 + r] \in Packet \union {NoPacket}
    BY <2>3, <2>4
  <2> QED
    BY <2>2, <2>5
<1>3. Dump = [k \in 1..Capacity |-> Dump[k]]
  BY DEF Dump
<1>4. Dump \in Seq(Packet \union {NoPacket}) /\ Len(Dump) = Capacity
  <2> DEFINE S == Packet \union {NoPacket}
  <2>1. \A k \in 1..Capacity : Dump[k] \in S
    BY <1>2
  <2> HIDE DEF S
  <2>2. Dump \in [1..Capacity -> S]
    BY <1>3, <2>1
  <2>3. Dump \in Seq(S) /\ Len(Dump) = Capacity
    BY <1>1, <2>2
  <2> QED
    BY <2>3 DEF S
<1>5. \A j \in 1..PktsPerBuf : wbuf * PktsPerBuf + j \in 1..Capacity
  BY <1>1, PlaceOf
<1>6. wbuf * PktsPerBuf \in Int /\ wbuf * PktsPerBuf + 1 \in 1..Capacity
  <2>1. wbuf \in Int /\ 1 \in 1..PktsPerBuf
    BY <1>1 DEF Buf
  <2> QED
    BY <1>1, <1>5, <2>1
<1> DEFINE z == wbuf * PktsPerBuf
<1> HIDE DEF z
<1>7. /\ z \in Int /\ z + 1 \in 1..Capacity /\ Here = z + cur
      /\ \A j \in 1..PktsPerBuf : z + j \in 1..Capacity
  BY <1>5, <1>6 DEF z, Here
<1>8. /\ Here \in Nat /\ Here <= Capacity
      /\ cur < PktsPerBuf => Here + 1 \in 1..Capacity
      /\ cur > 0 => Here \in 1..Capacity
  <2>1. CASE cur = 0
    BY <1>1, <1>7, <2>1
  <2>2. CASE cur \in 1..PktsPerBuf
    <3>1. z + cur \in 1..Capacity
      BY <1>7, <2>2
    <3>2. cur < PktsPerBuf => z + (cur + 1) \in 1..Capacity
      BY <1>1, <1>7, <2>2
    <3> QED
      BY <1>1, <1>7, <3>1, <3>2
  <2> QED
    BY <1>1, <2>1, <2>2
<1> QED
  BY <1>1, <1>4, <1>8

\* Writing a packet changes one place of what a dump would show.
LEMMA DumpTakes ==
  ASSUME BlockType, cur < PktsPerBuf, mem' = [mem EXCEPT ![wbuf][cur + 1] = hand]
  PROVE  \A k \in 1..Capacity : Dump'[k] = IF k = Here + 1 THEN hand ELSE Dump[k]
<1> SUFFICES ASSUME NEW k \in 1..Capacity
             PROVE  Dump'[k] = IF k = Here + 1 THEN hand ELSE Dump[k]
  OBVIOUS
<1> DEFINE i == (k - 1) \div PktsPerBuf
           r == (k - 1) % PktsPerBuf
<1>1. i \in Buf /\ r \in 0..(PktsPerBuf - 1) /\ k = i * PktsPerBuf + r + 1
  BY PlaceOf
<1>2. Dump[k] = mem[i][1 + r] /\ Dump'[k] = mem'[i][1 + r]
  BY DEF Dump
<1>3. PktsPerBuf \in Nat \ {0} /\ wbuf \in Buf /\ cur \in Nat /\ cur + 1 \in 1..PktsPerBuf
  BY Sizes DEF BlockType
<1>4. k = Here + 1 => i = wbuf /\ r = cur
  <2> DEFINE y == wbuf * PktsPerBuf + (cur + 1)
  <2>1. (y - 1) \div PktsPerBuf = wbuf /\ (y - 1) % PktsPerBuf = (cur + 1) - 1
    BY <1>3, PlaceOf
  <2>2. y = Here + 1
    <3>1. wbuf * PktsPerBuf \in Int
      BY <1>3 DEF Buf
    <3> QED
      BY <1>3, <3>1 DEF Here
  <2> HIDE DEF y
  <2>3. (cur + 1) - 1 = cur
    BY <1>3
  <2> QED
    BY <2>1, <2>2, <2>3
<1>5. i = wbuf /\ r = cur => k = Here + 1
  <2>1. wbuf * PktsPerBuf \in Int
    BY <1>3 DEF Buf
  <2> QED
    BY <1>1, <1>3, <2>1 DEF Here
<1> HIDE DEF i, r
<1>6. mem'[i][1 + r] = IF i = wbuf /\ r = cur THEN hand ELSE mem[i][1 + r]
  <2>1. mem' = [mem EXCEPT ![wbuf] = [mem[wbuf] EXCEPT ![cur + 1] = hand]]
    OBVIOUS
  <2>2. 1 + r \in 1..PktsPerBuf /\ (1 + r = cur + 1 <=> r = cur)
    BY <1>1, <1>3
  <2> QED
    BY <1>1, <1>3, <2>1, <2>2 DEF BlockType
<1> QED
  BY <1>2, <1>4, <1>5, <1>6

\* The latest packets, and one more: the oldest is dropped when there are as many as the ring
\* has places.
LEMMA RecentTakes ==
  ASSUME WriterState, hand \in Packet, recent' = Latest(Append(recent, hand), Capacity)
  PROVE  LET d == IF Len(recent) = Capacity THEN 1 ELSE 0
         IN  /\ Len(recent) \in 0..Capacity /\ Len(recent') = Len(recent) + 1 - d
             /\ Len(recent') \in 1..Capacity
             /\ recent'[Len(recent')] = hand
             /\ \A i \in 1..(Len(recent') - 1) :
                  i + d \in 1..Len(recent) /\ recent'[i] = recent[i + d]
<1> DEFINE n == Len(recent)
           s == Append(recent, hand)
<1>1. n \in 0..Capacity /\ Capacity \in Nat \ {0} /\ recent \in Seq(Packet)
  BY CapacityIs, LenProperties DEF WriterState
<1>2. /\ s \in Seq(Packet) /\ Len(s) = n + 1 /\ s[n + 1] = hand
      /\ \A i \in 1..n : s[i] = recent[i]
  BY <1>1
<1> HIDE DEF s
<1>3. recent' = IF n + 1 <= Capacity THEN s ELSE SubSeq(s, (n + 1) - Capacity + 1, n + 1)
  BY <1>2 DEF Latest, s
<1>4. CASE n < Capacity
  <2>1. recent' = s /\ n # Capacity /\ n + 1 \in 1..Capacity
    BY <1>1, <1>3, <1>4
  <2> QED
    BY <1>1, <1>2, <2>1
<1>5. CASE n = Capacity
  <2>1. recent' = SubSeq(s, 2, n + 1)
    <3>1. ~(n + 1 <= Capacity) /\ (n + 1) - Capacity + 1 = 2
      BY <1>1, <1>5
    <3> QED
      BY <1>3, <3>1
  <2>2. \A i \in 2..(n + 1) : s[i] \in Packet
    BY <1>1, <1>2
  <2>3. /\ Len(SubSeq(s, 2, n + 1)) = IF 2 <= n + 1 THEN ((n + 1) - 2) + 1 ELSE 0
        /\ \A i \in 1..(((n + 1) - 2) + 1) : SubSeq(s, 2, n + 1)[i] = s[2 + i - 1]
    BY <1>1, <2>2, SubSeqProperties
  <2>4. Len(recent') = n /\ \A i \in 1..n : recent'[i] = s[i + 1]
    BY <1>1, <1>5, <2>1, <2>3
  <2> QED
    BY <1>1, <1>2, <1>5, <2>4
<1> QED
  BY <1>1, <1>4, <1>5

\* Writing a packet puts it right behind the others.
LEMMA WriteHolds ==
  ASSUME WriterState, BlockType, hand \in Packet, Write, HoldsRecent(Here)
  PROVE  HoldsRecent(Here)' /\ cur' # 0
<1> DEFINE d == IF Len(recent) = Capacity THEN 1 ELSE 0
           n == Len(recent)
           m == Len(recent')
           w == Here
<1>1. /\ cur < PktsPerBuf /\ mem' = [mem EXCEPT ![wbuf][cur + 1] = hand] /\ cur' = cur + 1
      /\ wbuf' = wbuf /\ recent' = Latest(Append(recent, hand), Capacity)
  BY DEF Write
<1>2. /\ n \in 0..Capacity /\ m = n + 1 - d /\ m \in 1..Capacity /\ recent'[m] = hand
      /\ \A i \in 1..(m - 1) : i + d \in 1..n /\ recent'[i] = recent[i + d]
  BY <1>1, RecentTakes
<1>3. /\ Capacity \in Nat \ {0} /\ w \in Nat /\ w <= Capacity /\ w + 1 \in 1..Capacity
      /\ \A k \in 1..Capacity : Dump'[k] = IF k = w + 1 THEN hand ELSE Dump[k]
  BY <1>1, DumpIs, DumpTakes
<1>4. Here' = w + 1
  <2>1. wbuf * PktsPerBuf \in Int /\ cur \in Int
    BY Sizes DEF BlockType, Buf
  <2> QED
    BY <1>1, <2>1 DEF Here
<1>5. \A j \in 1..n : Dump[Back(w, j)] = recent[n - j + 1]
  BY DEF HoldsRecent
<1> HIDE DEF d, n, m, w
<1>6. d \in {0, 1} /\ (d = 1 <=> n = Capacity)
  BY DEF d, n
<1>7. ASSUME NEW j \in 1..m PROVE Dump'[Back(w + 1, j)] = recent'[m - j + 1]
  <2>1. CASE j = 1
    <3>1. Back(w + 1, j) = w + 1 /\ m - j + 1 = m
      BY <1>2, <1>3, <2>1 DEF Back
    <3> QED
      BY <1>2, <1>3, <3>1
  <2>2. CASE j # 1
    <3>1. j - 1 \in 1..n /\ m - j + 1 \in 1..(m - 1) /\ (m - j + 1) + d = n - (j - 1) + 1
      BY <1>2, <1>6, <2>2
    <3>2. recent'[m - j + 1] = recent[n - (j - 1) + 1]
      BY <1>2, <3>1
    <3>3. /\ Back(w + 1, j) = Back(w, j - 1) /\ Back(w, j - 1) \in 1..Capacity
          /\ Back(w, j - 1) # w + 1
      BY <1>2, <1>3, <1>6, <2>2, <3>1 DEF Back
    <3>4. Dump'[Back(w + 1, j)] = Dump[Back(w, j - 1)]
      BY <1>3, <3>3
    <3> QED
      BY <1>5, <3>1, <3>2, <3>4
  <2> QED
    BY <2>1, <2>2
<1>8. HoldsRecent(Here)'
  BY <1>4, <1>7 DEF HoldsRecent, Back, m
<1>9. cur' # 0
  BY <1>1 DEF BlockType
<1> QED
  BY <1>8, <1>9

\* When a sub-block is marked filled, and at its end another one or the first follows, the
\* place of writing is the same one.
LEMMA FillHolds ==
  ASSUME WriterState, BlockType, NEW eod \in BOOLEAN, MarkFilledAs(eod), UNCHANGED recent,
         HoldsRecent(Here)
  PROVE  /\ HoldsRecent(StoppedAfter)'
         /\ cur = PktsPerBuf => HoldsRecent(Here)' /\ info'[Closed'].pkts = PktsPerBuf
<1>1. /\ wbuf' = Around(wbuf, 1) /\ cur' = 0 /\ mem' = mem
      /\ info' = [info EXCEPT ![wbuf] = [pkts |-> cur, eod |-> eod]]
  BY DEF MarkFilledAs
<1>2. NBufs \in Nat \ {0} /\ PktsPerBuf \in Nat \ {0} /\ wbuf \in Buf /\ cur \in 0..PktsPerBuf
  BY Sizes DEF BlockType
<1>3. Closed' = wbuf
  <2>1. NBufs - 1 \in 0..(NBufs - 1)
    BY <1>2
  <2>2. Around(Around(wbuf, 1), NBufs - 1) = Around(wbuf, NBufs - 1 + 1)
    BY <1>2, <2>1, AroundIs
  <2>3. NBufs - 1 + 1 = NBufs
    BY <1>2
  <2>4. Around(wbuf, NBufs) = wbuf
    BY <1>2, AroundIs
  <2> QED
    BY <1>1, <2>2, <2>3, <2>4 DEF Closed
<1>4. info'[wbuf].pkts = cur
  BY <1>1, <1>2 DEF BlockType
<1>5. StoppedAfter' = Here
  BY <1>3, <1>4 DEF StoppedAfter, Here
<1>6. Dump' = Dump
  BY <1>1 DEF Dump
<1>7. HoldsRecent(StoppedAfter)'
  BY <1>5, <1>6 DEF HoldsRecent, Back
<1>8. ASSUME cur = PktsPerBuf PROVE HoldsRecent(Here)'
  <2> DEFINE z == wbuf * PktsPerBuf
  <2>1. z \in Int /\ Here = z + PktsPerBuf
    BY <1>2, <1>8 DEF Here, Buf
  <2>2. Here' = IF wbuf + 1 < NBufs THEN z + PktsPerBuf ELSE 0
    <3>1. CASE wbuf + 1 < NBufs
      <4>1. wbuf' = wbuf + 1
        BY <1>1, <3>1 DEF Around
      <4>2. (wbuf + 1) * PktsPerBuf = z + PktsPerBuf
        BY <1>2 DEF Buf
      <4> HIDE DEF z
      <4> QED
        BY <1>1, <1>2, <2>1, <3>1, <4>1, <4>2 DEF Here
    <3>2. CASE ~(wbuf + 1 < NBufs)
      <4>1. wbuf' = 0
        BY <1>1, <1>2, <3>2 DEF Around, Buf
      <4>2. 0 * PktsPerBuf = 0
        BY <1>2
      <4> QED
        BY <1>1, <3>2, <4>1, <4>2 DEF Here
    <3> QED
      BY <3>1, <3>2
  <2>3. ~(wbuf + 1 < NBufs) => Here = Capacity
    <3>1. ~(wbuf + 1 < NBufs) => wbuf = NBufs - 1
      BY <1>2 DEF Buf
    <3>2. (NBufs - 1) * PktsPerBuf + PktsPerBuf = NBufs * PktsPerBuf
      BY <1>2
    <3> QED
      BY <1>8, <3>1, <3>2 DEF Here, Capacity
  <2>4. Here' = Here \/ (Here' = 0 /\ Here = Capacity)
    BY <2>1, <2>2, <2>3
  <2>5. Capacity \in Nat \ {0} /\ \A j \in 1..Capacity : Back(0, j) = Back(Capacity, j)
    BY CapacityIs DEF Back
  <2>6. 1..Len(recent) \subseteq 1..Capacity
    BY <2>5 DEF WriterState
  <2>7. \A j \in 1..Len(recent) : Back(Here', j) = Back(Here, j)
    BY <2>4, <2>5, <2>6
  <2> HIDE DEF z
  <2>8. \A j \in 1..Len(recent) : Back(Here, j)' = Back(Here', j)
    BY DEF Back
  <2> QED
    BY <1>6, <2>7, <2>8 DEF HoldsRecent
<1> QED
  BY <1>3, <1>4, <1>7, <1>8

\* Each step keeps the packets of the recording where they are.
LEMMA NewestKept ==
  ASSUME WriterState, HasPacket, BlockType, Newest, [Next]_vars
  PROVE  Newest'
<1>1. CASE Start
  <2>1. recent' = <<>> /\ Len(recent') = 0 /\ writer' = "started"
    BY <1>1 DEF Start
  <2> QED
    BY <2>1 DEF Newest, HoldsRecent
<1>2. CASE Stop \/ Event
  <2>1. Open /\ writer' \in {"stopped", "dumped"} /\ Close /\ recent' = recent
    BY <1>2 DEF Stop, Event, Open
  <2>2. HoldsRecent(Here) /\ (recent # <<>> /\ cur = 0 => info[Closed].pkts = PktsPerBuf)
    BY <2>1 DEF Newest
  <2>3. CASE cur # 0
    BY <2>1, <2>2, <2>3, FillHolds DEF Close, Newest, Open
  <2>4. CASE cur = 0 /\ recent # <<>>
    <3>1. UNCHANGED <<mem, info, wbuf>>
      BY <2>1, <2>4 DEF Close, block
    <3>2. HoldsRecent(StoppedAfter)
      <4>1. /\ NBufs \in Nat \ {0} /\ PktsPerBuf \in Nat \ {0} /\ wbuf \in Buf
            /\ Capacity \in Nat \ {0}
        BY Sizes, CapacityIs DEF BlockType
      <4>2. StoppedAfter = Closed * PktsPerBuf + PktsPerBuf
        BY <2>2, <2>4 DEF StoppedAfter
      <4>3. Here = wbuf * PktsPerBuf /\ wbuf * PktsPerBuf \in Int
        BY <2>4, <4>1 DEF Here, Buf
      <4>4. Closed = IF wbuf = 0 THEN NBufs - 1 ELSE wbuf - 1
        BY <4>1 DEF Closed, Around, Buf
      <4>5. CASE wbuf = 0
        <5>1. (NBufs - 1) * PktsPerBuf + PktsPerBuf = NBufs * PktsPerBuf /\ 0 * PktsPerBuf = 0
          BY <4>1
        <5>2. StoppedAfter = Capacity /\ Here = 0
          BY <4>2, <4>3, <4>4, <4>5, <5>1 DEF Capacity
        <5>3. \A j \in 1..Capacity : Back(0, j) = Back(Capacity, j)
          BY <4>1 DEF Back
        <5>4. 1..Len(recent) \subseteq 1..Capacity
          BY <4>1 DEF WriterState
        <5> QED
          BY <2>2, <5>2, <5>3, <5>4 DEF HoldsRecent
      <4>6. CASE wbuf # 0
        <5>1. (wbuf - 1) * PktsPerBuf + PktsPerBuf = wbuf * PktsPerBuf
          BY <4>1 DEF Buf
        <5> QED
          BY <2>2, <4>2, <4>3, <4>4, <4>6, <5>1
      <4> QED
        BY <4>5, <4>6
    <3>3. HoldsRecent(StoppedAfter)'
      BY <2>1, <3>1, <3>2 DEF HoldsRecent, StoppedAfter, Closed, Dump, Back
    <3> QED
      BY <2>1, <3>3 DEF Newest, Open
  <2>5. CASE recent = <<>>
    BY <2>1, <2>5 DEF Newest, Open
  <2> QED
    BY <2>3, <2>4, <2>5
<1>3. CASE MarkFilled
  <2>1. Open /\ writer' = "write" /\ cur = PktsPerBuf /\ MarkFilledAs(FALSE) /\ recent' = recent
    BY <1>3 DEF MarkFilled, Open
  <2>2. HoldsRecent(Here)
    BY <2>1 DEF Newest
  <2> QED
    BY <2>1, <2>2, FillHolds DEF Newest
<1>4. CASE Write
  <2>1. Open /\ writer' = "started" /\ hand \in Packet
    BY <1>4 DEF Write, Open, HasPacket
  <2>2. HoldsRecent(Here)
    BY <2>1 DEF Newest
  <2> QED
    BY <1>4, <2>1, <2>2, WriteHolds DEF Newest
<1>5. CASE Arrive \/ StayStopped \/ Restart \/ Receive \/ WriteFails \/ Read \/ UNCHANGED vars
  <2>1. UNCHANGED <<mem, info, wbuf, cur, recent>>
    BY <1>5 DEF Arrive, StayStopped, Restart, Receive, WriteFails, Read, vars, block
  <2>2. (Open' => Open) /\ (writer' = "dumped" => writer = "dumped")
    BY <1>5 DEF Arrive, StayStopped, Restart, Receive, WriteFails, Read, vars, Open
  <2>3. /\ HoldsRecent(Here) => HoldsRecent(Here)'
        /\ HoldsRecent(StoppedAfter) => HoldsRecent(StoppedAfter)'
        /\ info'[Closed'] = info[Closed]
    BY <2>1 DEF HoldsRecent, Here, StoppedAfter, Closed, Dump, Back
  <2> QED
    BY <2>1, <2>2, <2>3 DEF Newest
<1> QED
  BY <1>1, <1>2, <1>3, <1>4, <1>5 DEF Next

\* Two ends of a sequence put together the other way round.
LEMMA InTimeIs ==
  ASSUME NEW S, NEW s \in Seq(S), NEW w \in 0..Len(s)
  PROVE  /\ InTime(s, w) \in Seq(S) /\ Len(InTime(s, w)) = Len(s)
         /\ \A k \in 1..Len(s) :
              InTime(s, w)[k] = IF k <= Len(s) - w THEN s[w + k] ELSE s[k - (Len(s) - w)]
<1> DEFINE n == Len(s)
           a == SubSeq(s, w + 1, n)
           b == SubSeq(s, 1, w)
<1>1. n \in Nat /\ w \in Nat /\ w <= n /\ \A i \in 1..n : s[i] \in S
  OBVIOUS
<1>2. a \in Seq(S) /\ Len(a) = n - w /\ \A i \in 1..(n - w) : a[i] = s[w + i]
  <2>1. \A i \in (w + 1)..n : s[i] \in S
    BY <1>1
  <2>2. /\ a \in Seq(S)
        /\ Len(a) = IF w + 1 <= n THEN (n - (w + 1)) + 1 ELSE 0
        /\ \A i \in 1..((n - (w + 1)) + 1) : a[i] = s[((w + 1) + i) - 1]
    BY <1>1, <2>1, SubSeqProperties
  <2> HIDE DEF a, n
  <2> QED
    BY <1>1, <2>2
<1>3. b \in Seq(S) /\ Len(b) = w /\ \A i \in 1..w : b[i] = s[i]
  <2>1. \A i \in 1..w : s[i] \in S
    BY <1>1
  <2>2. /\ b \in Seq(S)
        /\ Len(b) = IF 1 <= w THEN (w - 1) + 1 ELSE 0
        /\ \A i \in 1..((w - 1) + 1) : b[i] = s[(1 + i) - 1]
    BY <1>1, <2>1, SubSeqProperties
  <2> HIDE DEF b, n
  <2> QED
    BY <1>1, <2>2
<1>4. InTime(s, w) = a \o b
  BY DEF InTime
<1> HIDE DEF a, b
<1> QED
  BY <1>1, <1>2, <1>3, <1>4

\* Writing stopped somewhere in the memory.
LEMMA StopIs ==
  ASSUME BlockType
  PROVE  StoppedAfter \in 0..Capacity
<1>1. NBufs \in Nat \ {0} /\ PktsPerBuf \in Nat \ {0} /\ Closed \in Buf
  <2>1. NBufs - 1 \in 0..NBufs /\ wbuf \in Buf
    BY Sizes DEF BlockType
  <2> QED
    BY <2>1, Sizes, AroundIs DEF Closed
<1>2. info[Closed].pkts \in 0..PktsPerBuf
  BY <1>1 DEF BlockType
<1>3. Closed * PktsPerBuf + 1 \in 1..Capacity /\ Closed * PktsPerBuf \in Int
  <2>1. 1 \in 1..PktsPerBuf
    BY <1>1
  <2>2. Closed * PktsPerBuf + 1 \in 1..Capacity
    BY <1>1, <2>1, PlaceOf
  <2>3. Closed * PktsPerBuf \in Int
    BY <1>1 DEF Buf
  <2> QED
    BY <2>2, <2>3
<1>4. info[Closed].pkts \in 1..PktsPerBuf =>
        Closed * PktsPerBuf + info[Closed].pkts \in 1..Capacity
  BY <1>1, PlaceOf
<1> DEFINE z == Closed * PktsPerBuf
           p == info[Closed].pkts
<1>5. StoppedAfter = z + p
  BY DEF StoppedAfter
<1> HIDE DEF z, p
<1>6. /\ z \in Int /\ z + 1 \in 1..Capacity /\ p \in 0..PktsPerBuf
      /\ (p \in 1..PktsPerBuf => z + p \in 1..Capacity)
  BY <1>2, <1>3, <1>4 DEF z, p
<1> QED
  BY CapacityIs, <1>1, <1>5, <1>6

\* A dump turned to where writing stopped ends in the packets of the recording.
LEMMA NewestIsEnd ==
  ASSUME WriterState, BlockType, HoldsRecent(StoppedAfter)
  PROVE  Latest(InTime(Dump, StoppedAfter), Len(recent)) = recent
<1> DEFINE n == Len(recent)
           C == Capacity
           w == StoppedAfter
           t == InTime(Dump, w)
           S == Packet \union {NoPacket}
<1>1. n \in 0..C /\ C \in Nat \ {0} /\ recent \in Seq(Packet)
  BY CapacityIs, LenProperties DEF WriterState
<1>2. w \in 0..C
  BY StopIs
<1>3. Dump \in Seq(S) /\ Len(Dump) = C
  BY DumpIs
<1>4. /\ t \in Seq(S) /\ Len(t) = C
      /\ \A k \in 1..C : t[k] = IF k <= C - w THEN Dump[w + k] ELSE Dump[k - (C - w)]
  <2> HIDE DEF S, w
  <2>1. w \in 0..Len(Dump)
    BY <1>2, <1>3
  <2> QED
    BY <1>3, <2>1, InTimeIs
<1>5. \A j \in 1..n : Dump[Back(w, j)] = recent[n - j + 1]
  BY DEF HoldsRecent
<1> HIDE DEF n, C, w, t, S
<1>6. ASSUME NEW i \in 1..n PROVE t[(C - n) + i] = recent[i]
  <2> DEFINE j == n - i + 1
             k == (C - n) + i
  <2>1. j \in 1..n /\ n - j + 1 = i /\ k \in 1..C
    BY <1>1
  <2>2. Back(w, j) = IF k <= C - w THEN w + k ELSE k - (C - w)
    BY <1>1, <1>2 DEF Back, C
  <2>3. t[k] = Dump[Back(w, j)]
    BY <1>4, <2>1, <2>2
  <2>4. Dump[Back(w, j)] = recent[i]
    BY <1>5, <2>1
  <2> QED
    BY <2>3, <2>4
<1>7. Latest(t, n) = IF C <= n THEN t ELSE SubSeq(t, (C - n) + 1, C)
  BY <1>4 DEF Latest
<1>8. /\ Latest(t, n) \in Seq(S) /\ Len(Latest(t, n)) = n
      /\ \A i \in 1..n : Latest(t, n)[i] = t[(C - n) + i]
  <2>1. CASE C <= n
    <3>1. C = n /\ Latest(t, n) = t
      BY <1>1, <1>7, <2>1
    <3> QED
      BY <1>1, <1>4, <3>1
  <2>2. CASE ~(C <= n)
    <3> DEFINE a == (C - n) + 1
    <3>1. a \in Int /\ C \in Int /\ \A i \in a..C : t[i] \in S
      BY <1>1, <1>4
    <3>2. a <= C \/ n = 0
      BY <1>1
    <3>3. (C - a) + 1 = n
      BY <1>1
    <3>4. \A i \in 1..n : (a + i) - 1 = (C - n) + i
      BY <1>1
    <3> HIDE DEF a
    <3>5. /\ SubSeq(t, a, C) \in Seq(S)
          /\ Len(SubSeq(t, a, C)) = IF a <= C THEN (C - a) + 1 ELSE 0
          /\ \A i \in 1..((C - a) + 1) : SubSeq(t, a, C)[i] = t[(a + i) - 1]
      BY <3>1, SubSeqProperties
    <3>6. Latest(t, n) = SubSeq(t, a, C)
      BY <1>7, <2>2 DEF a
    <3> QED
      BY <1>1, <3>2, <3>3, <3>4, <3>5, <3>6
  <2> QED
    BY <2>1, <2>2
<1>9. \A i \in 1..n : Latest(t, n)[i] = recent[i]
  BY <1>6, <1>8
<1>10. Latest(t, n) = recent
  <2>1. Len(recent) = n
    BY DEF n
  <2> QED
    BY <1>1, <1>8, <1>9, <2>1, SeqEqual
<1> QED
  BY <1>10 DEF t, n, w

\* The dump of an event holds the newest packets of the recording, where db_unwrap looks for
\* them (writer.c's ipcio_write and ipcio_close, event_to_file).
THEOREM DumpsEndInRecordings == Spec => []DumpEndsInRecording
<1>1. Init => Newest
  BY DEF Init, Newest, Open
<1>2. TypeOK /\ HasPacket /\ Newest /\ [Next]_vars => Newest'
  BY TypeIs, NewestKept
<1>3. TypeOK /\ Newest => DumpEndsInRecording
  BY TypeIs, NewestIsEnd DEF Newest, DumpEndsInRecording
<1> QED
  BY <1>1, <1>2, <1>3, TypeCorrect, PTL DEF Spec
-----------------------------------------------------------------------------
(* What the frame-skip log says of a dump. *)

\* The frame of a packet in recent, and whether it is the latest of its thread.
Header(i) == FrameOf(recent[i])
LatestOfThread(j) == \A k \in (j + 1)..Len(recent) : Header(k).thread # Header(j).thread

Follows(j, i) ==
  /\ j < i /\ Header(j).thread = Header(i).thread
  /\ \A k \in (j + 1)..(i - 1) : Header(k).thread # Header(i).thread

\* Among the last packets of recent, as many as have come since the last that was logged, each
\* follows the one before it of its thread; and framenum is the number of the latest of them.
Unlogged ==
  \A j \in 1..Len(recent) : j > Len(recent) - runs =>
    /\ \A i \in 1..Len(recent) : Follows(j, i) => RunsOn(Header(j).num, Header(i).num)
    /\ Open /\ LatestOfThread(j) => framenum[Header(j).thread] = Header(j).num

\* No jump means that the number runs on.
LEMMA NoJumpRunsOn ==
  ASSUME NEW m \in 0..MAXFRAMENUM, NEW n \in 0..MAXFRAMENUM, ~Jump(m, n)
  PROVE  RunsOn(m, n)
<1>1. MAXFRAMENUM \in Nat /\ n - m \in {1, -MAXFRAMENUM}
  BY Sizes DEF Jump
<1>2. CASE n = m + 1
  <2>1. n % (MAXFRAMENUM + 1) = n
    BY <1>1
  <2> QED
    BY <1>2, <2>1 DEF RunsOn
<1>3. CASE m = MAXFRAMENUM /\ n = 0
  <2>1. (MAXFRAMENUM + 1) % (MAXFRAMENUM + 1) = 0
    BY <1>1
  <2> QED
    BY <1>3, <2>1 DEF RunsOn
<1>4. n = m + 1 \/ (m = MAXFRAMENUM /\ n = 0)
  BY <1>1
<1> QED
  BY <1>2, <1>3, <1>4

\* A packet that is written follows the latest of its thread, or is logged.
LEMMA WriteLogs ==
  ASSUME WriterState, hand \in Packet, Write, Unlogged
  PROVE  Unlogged'
<1> DEFINE d == IF Len(recent) = Capacity THEN 1 ELSE 0
           n == Len(recent)
           m == Len(recent')
           f == FrameOf(hand)
<1>1. /\ recent' = Latest(Append(recent, hand), Capacity) /\ Open /\ Open'
      /\ framenum' = [framenum EXCEPT ![f.thread] = f.num]
      /\ runs' = IF Jump(framenum[f.thread], f.num) THEN 1
                 ELSE IF runs < Capacity THEN runs + 1 ELSE runs
  BY DEF Write, Open, LogFrame, Logged
<1>2. /\ n \in 0..Capacity /\ m = n + 1 - d /\ m \in 1..Capacity /\ recent'[m] = hand
      /\ \A i \in 1..(m - 1) : i + d \in 1..n /\ recent'[i] = recent[i + d]
  BY <1>1, RecentTakes
<1>3. /\ f \in Frame /\ framenum \in [Thread -> -1..MAXFRAMENUM] /\ runs \in 0..Capacity
      /\ Capacity \in Nat \ {0} /\ \A i \in 1..n : Header(i) \in Frame
  <2>1. recent \in Seq(Packet)
    BY DEF WriterState
  <2>2. \A i \in 1..n : recent[i] \in Packet
    BY <2>1
  <2> QED
    BY <2>2, FrameType, CapacityIs DEF WriterState, Header
<1>4. d \in {0, 1} /\ (d = 1 <=> n = Capacity)
  OBVIOUS
<1> HIDE DEF d, n, m, f
<1> DEFINE H(i) == FrameOf(recent'[i])
<1>5. /\ H(m) = f /\ \A i \in 1..(m - 1) : H(i) = Header(i + d) /\ i + d \in 1..n
  BY <1>2 DEF Header, f
<1> HIDE DEF H
<1>6. ASSUME NEW j \in 1..m, j > m - runs', NEW i \in 1..m,
             j < i, H(j).thread = H(i).thread,
             \A k \in (j + 1)..(i - 1) : H(k).thread # H(i).thread
      PROVE  RunsOn(H(j).num, H(i).num)
  <2>1. j \in 1..(m - 1) /\ H(j) = Header(j + d) /\ j + d \in 1..n
    BY <1>2, <1>5, <1>6
  <2>2. ~Jump(framenum[f.thread], f.num)
    BY <1>1, <1>2, <1>6, <2>1
  <2>3. j + d > n - runs
    BY <1>1, <1>2, <1>3, <1>4, <1>6, <2>1, <2>2
  <2>4. CASE i # m
    <3>1. i \in 1..(m - 1) /\ H(i) = Header(i + d) /\ i + d \in 1..n /\ j + d < i + d
      BY <1>2, <1>4, <1>5, <1>6, <2>1, <2>4
    <3>2. ASSUME NEW k \in ((j + d) + 1)..((i + d) - 1)
          PROVE  Header(k).thread # Header(i + d).thread
      <4>1. k - d \in (j + 1)..(i - 1) /\ k - d \in 1..(m - 1) /\ (k - d) + d = k
        BY <1>2, <1>4, <1>6, <3>1
      <4>2. H(k - d) = Header(k) /\ H(k - d).thread # H(i).thread
        BY <1>5, <1>6, <4>1
      <4> QED
        BY <3>1, <4>2
    <3>3. Follows(j + d, i + d)
      BY <1>6, <2>1, <3>1, <3>2 DEF Follows
    <3>4. RunsOn(Header(j + d).num, Header(i + d).num)
      BY <2>1, <2>3, <3>1, <3>3 DEF Unlogged, n
    <3> QED
      BY <2>1, <3>1, <3>4
  <2>5. CASE i = m
    <3>1. H(i) = f /\ Header(j + d).thread = f.thread
      BY <1>5, <1>6, <2>1, <2>5
    <3>2. ASSUME NEW k \in (j + d + 1)..n PROVE Header(k).thread # Header(j + d).thread
      <4>1. k - d \in (j + 1)..(i - 1) /\ k - d \in 1..(m - 1) /\ (k - d) + d = k
        BY <1>2, <1>4, <1>6, <2>1, <2>5
      <4>2. H(k - d) = Header(k) /\ H(k - d).thread # H(i).thread
        BY <1>5, <1>6, <4>1
      <4> QED
        BY <3>1, <4>2
    <3>3. LatestOfThread(j + d)
      BY <3>2 DEF LatestOfThread, n
    <3>4. framenum[f.thread] = Header(j + d).num
      BY <1>1, <2>1, <2>3, <3>1, <3>3 DEF Unlogged, n
    <3>5. RunsOn(Header(j + d).num, f.num)
      <4>1. Header(j + d).num \in 0..MAXFRAMENUM /\ f.num \in 0..MAXFRAMENUM
        BY <1>3, <2>1 DEF Frame
      <4> QED
        BY <2>2, <3>4, <4>1, NoJumpRunsOn
    <3> QED
      BY <2>1, <3>1, <3>5
  <2> QED
    BY <2>4, <2>5
<1>7. ASSUME NEW j \in 1..m, j > m - runs',
             \A k \in (j + 1)..m : H(k).thread # H(j).thread
      PROVE  framenum'[H(j).thread] = H(j).num
  <2>1. CASE j = m
    BY <1>1, <1>3, <1>5, <2>1 DEF Frame
  <2>2. CASE j # m
    <3>1. j \in 1..(m - 1) /\ H(j) = Header(j + d) /\ j + d \in 1..n /\ m \in (j + 1)..m
      BY <1>2, <1>5, <2>2
    <3>2. H(j).thread # f.thread
      BY <1>5, <1>7, <3>1
    <3>3. j + d > n - runs
      BY <1>1, <1>2, <1>3, <1>4, <1>7, <3>1
    <3>4. ASSUME NEW k \in (j + d + 1)..n PROVE Header(k).thread # Header(j + d).thread
      <4>1. k - d \in (j + 1)..m /\ k - d \in 1..(m - 1) /\ (k - d) + d = k
        BY <1>2, <1>4, <3>1
      <4> QED
        BY <1>5, <1>7, <3>1, <4>1
    <3>5. LatestOfThread(j + d)
      BY <3>4 DEF LatestOfThread, n
    <3>6. framenum[H(j).thread] = H(j).num
      BY <1>1, <3>1, <3>3, <3>5 DEF Unlogged, n
    <3>7. H(j).thread \in Thread
      BY <1>3, <3>1 DEF Frame
    <3> QED
      BY <1>1, <1>3, <3>2, <3>6, <3>7
  <2> QED
    BY <2>1, <2>2
<1>8. /\ \A i : Header(i)' = H(i)
      /\ \A j, i : Follows(j, i)' <=> /\ j < i /\ H(j).thread = H(i).thread
                                      /\ \A k \in (j + 1)..(i - 1) : H(k).thread # H(i).thread
      /\ \A j : LatestOfThread(j)' <=> \A k \in (j + 1)..m : H(k).thread # H(j).thread
  BY DEF Header, H, Follows, LatestOfThread, m
<1> QED
  BY <1>6, <1>7, <1>8 DEF Unlogged, m

\* So does every other step: a lost packet breaks the row, and so does a new recording.
LEMMA UnloggedKept ==
  ASSUME WriterState, HasPacket, Unlogged, [Next]_vars
  PROVE  Unlogged'
<1>1. CASE Start
  <2>1. Len(recent') = 0
    BY <1>1 DEF Start
  <2> QED
    BY <2>1 DEF Unlogged
<1>2. CASE WriteFails
  <2>1. runs' = 0 /\ recent' = recent /\ Len(recent) \in Nat
    BY <1>2, LenProperties DEF WriteFails, WriterState
  <2> QED
    BY <2>1 DEF Unlogged
<1>3. CASE Write
  BY <1>3, WriteLogs DEF HasPacket, Write
<1>4. CASE Arrive \/ Stop \/ Event \/ StayStopped \/ Restart \/ Receive \/ MarkFilled \/ Read
             \/ UNCHANGED vars
  <2>1. UNCHANGED <<recent, runs>> /\ (Open' => Open /\ framenum' = framenum)
    BY <1>4 DEF Arrive, Stop, Event, StayStopped, Restart, Receive, MarkFilled, Read, vars, Open
  <2>2. /\ \A i : Header(i)' = Header(i)
        /\ \A j, i : Follows(j, i)' <=> Follows(j, i)
        /\ \A j : LatestOfThread(j)' <=> LatestOfThread(j)
    BY <2>1 DEF Header, Follows, LatestOfThread
  <2> QED
    BY <2>1, <2>2 DEF Unlogged
<1> QED
  BY <1>1, <1>2, <1>3, <1>4 DEF Next

\* A dump that is a whole recording shows its frames in the order of time.
LEMMA UnloggedIsInTime ==
  ASSUME WriterState, BlockType, HoldsRecent(StoppedAfter), Unlogged,
         Len(recent) = Capacity, runs = Capacity
  PROVE  Contiguous(InTime(FrameDump, StoppedAfter))
<1> DEFINE C == Capacity
           w == StoppedAfter
           S == Packet \union {NoPacket}
           F == {FrameOf(k) : k \in S}
           t == InTime(Dump, w)
           u == InTime(FrameDump, w)
<1>1. C \in Nat \ {0} /\ Dump \in Seq(S) /\ Len(Dump) = C /\ w \in 0..C
  BY DumpIs, StopIs
<1>2. FrameDump \in Seq(F) /\ Len(FrameDump) = C /\ \A k \in 1..C : FrameDump[k] = FrameOf(Dump[k])
  <2>1. \A k \in 1..C : Dump[k] \in S
    BY <1>1
  <2>2. \A k \in 1..C : FrameOf(Dump[k]) \in F
    BY <2>1
  <2> HIDE DEF F
  <2>3. FrameDump \in [1..C -> F]
    BY <2>2 DEF FrameDump
  <2>4. FrameDump \in Seq(F) /\ Len(FrameDump) = C
    BY <1>1, <2>3
  <2> QED
    BY <2>4 DEF FrameDump
<1>3. /\ t \in Seq(S) /\ Len(t) = C
      /\ \A k \in 1..C : t[k] = IF k <= C - w THEN Dump[w + k] ELSE Dump[k - (C - w)]
  <2> HIDE DEF S, w
  <2>1. w \in 0..Len(Dump)
    BY <1>1
  <2> QED
    BY <1>1, <2>1, InTimeIs
<1>4. /\ u \in Seq(F) /\ Len(u) = C
      /\ \A k \in 1..C : u[k] = IF k <= C - w THEN FrameDump[w + k] ELSE FrameDump[k - (C - w)]
  <2> HIDE DEF F, w
  <2>1. w \in 0..Len(FrameDump)
    BY <1>1, <1>2
  <2> QED
    BY <1>2, <2>1, InTimeIs
<1>5. t = recent
  <2>1. Latest(t, C) = recent
    BY NewestIsEnd
  <2> HIDE DEF t
  <2>2. C <= C
    BY <1>1
  <2> QED
    BY <1>3, <2>1, <2>2 DEF Latest
<1> HIDE DEF w, S, F, t, u, C
<1>6. \A k \in 1..C : u[k] = FrameOf(recent[k])
  <2> SUFFICES ASSUME NEW k \in 1..C PROVE u[k] = FrameOf(recent[k])
    OBVIOUS
  <2>1. CASE k <= C - w
    <3>1. w + k \in 1..C
      BY <1>1, <2>1
    <3> QED
      BY <1>2, <1>3, <1>4, <1>5, <2>1, <3>1
  <2>2. CASE ~(k <= C - w)
    <3>1. k - (C - w) \in 1..C
      BY <1>1, <2>2
    <3> QED
      BY <1>2, <1>3, <1>4, <1>5, <2>2, <3>1
  <2> QED
    BY <2>1, <2>2
<1>7. ASSUME NEW i \in 1..C, NEW j \in 1..(i - 1), Precedes(u, j, i)
      PROVE  RunsOn(u[j].num, u[i].num)
  <2>1. j \in 1..C /\ \A k \in (j + 1)..(i - 1) : k \in 1..C
    BY <1>1
  <2>2. Follows(j, i)
    BY <1>6, <1>7, <2>1 DEF Follows, Header, Precedes
  <2>3. j > Len(recent) - runs
    BY <1>1, <2>1 DEF C
  <2>4. RunsOn(Header(j).num, Header(i).num)
    BY <2>1, <2>2, <2>3 DEF Unlogged, C
  <2> QED
    BY <1>6, <2>1, <2>4 DEF Header
<1>8. Contiguous(u)
  BY <1>4, <1>7 DEF Contiguous, DiscontinuousAt
<1> QED
  BY <1>8 DEF u, w

\* A dump that the skip log says nothing about is in the order of time when it is turned
\* (writer.c's frame-skip log, event_to_file, and what db_unwrap expects).
THEOREM UnloggedDumpsAreInTime == Spec => []UnloggedDumpIsInTime
<1>1. Init => Newest /\ Unlogged
  <2>1. Init => Len(recent) = 0
    BY DEF Init
  <2> QED
    BY <2>1 DEF Init, Newest, Open, Unlogged
<1>2. TypeOK /\ HasPacket /\ Newest /\ Unlogged /\ [Next]_vars => Newest' /\ Unlogged'
  BY TypeIs, NewestKept, UnloggedKept
<1>3. TypeOK /\ Newest /\ Unlogged => UnloggedDumpIsInTime
  <2> SUFFICES ASSUME TypeOK, Newest, Unlogged, writer = "dumped", Len(recent) = Capacity,
                      runs = Capacity
               PROVE  Contiguous(InTime(FrameDump, StoppedAfter))
    BY DEF UnloggedDumpIsInTime
  <2>1. recent # <<>>
    BY CapacityIs
  <2>2. HoldsRecent(StoppedAfter)
    BY <2>1 DEF Newest
  <2> QED
    BY <2>2, TypeIs, UnloggedIsInTime
<1> QED
  BY <1>1, <1>2, <1>3, TypeCorrect, PTL DEF Spec
=============================================================================
