----------------------------- MODULE DataBlock -----------------------------
(***************************************************************************)
(* The shared-memory ring buffer ("data block") between the Writer and the *)
(* Reader of a pair.  It is PSRDADA's ipcio, a library outside this        *)
(* repository; what is modelled here is what the calls in writer.c,        *)
(* reader.c and utils.c rely on:                                           *)
(*   - the block is a ring of NBufs sub-blocks of PktsPerBuf packets each; *)
(*   - ipcio_write blocks when the next sub-block is still unread;         *)
(*   - a sub-block becomes visible to the reader when it is marked filled, *)
(*     which happens when a further write finds it full or when the writer *)
(*     closes, and closing also marks the end of data (EOD) on it;         *)
(*   - ipcio_read blocks while no sub-block is filled, and comes up short  *)
(*     only at an EOD (reader.c, comment at the test of nbytes).           *)
(***************************************************************************)
EXTENDS Naturals, Sequences

CONSTANTS Pairs,       \* the Writer/Reader pairs, NRWPAIRS of them
          NBufs,       \* sub-blocks in a ring
          PktsPerBuf,  \* VDIF packets in a sub-block
          IpcErrors    \* the calls of ipcio that may return an error

ASSUME RingAssumption == /\ NBufs \in Nat \ {0}
                         /\ PktsPerBuf \in Nat \ {0}
                         /\ IpcErrors \subseteq {"open", "close", "write", "read"}

VARIABLE ring   \* ring[p] is the data block of pair p

SubBlock == [pkts : 0..PktsPerBuf, eod : BOOLEAN]

Ring == [writing : BOOLEAN,         \* open for writing
         reading : BOOLEAN,         \* open for reading
         filled  : Seq(SubBlock),   \* marked filled and not yet cleared, oldest first
         cur     : 0..PktsPerBuf]   \* packets in the sub-block being written

NewRing == [writing |-> FALSE, reading |-> FALSE, filled |-> <<>>, cur |-> 0]

RingInit == ring = [p \in Pairs |-> NewRing]

(***************************************************************************)
(* ipcio_open and ipcio_close on the writing side.                         *)
(***************************************************************************)
OpenForWriting(p) == ring' = [ring EXCEPT ![p].writing = TRUE]

CloseForWriting(p) ==
  ring' = [ring EXCEPT ![p].writing = FALSE,
                       ![p].cur = 0,
                       ![p].filled = IF ring[p].cur = 0 THEN @
                                     ELSE Append(@, [pkts |-> ring[p].cur, eod |-> TRUE])]

(***************************************************************************)
(* ipcio_write of one packet: a full sub-block is first marked filled,     *)
(* then the next one has to be clear before its first packet is copied.    *)
(***************************************************************************)
SubBlockFull(p) == ring[p].cur = PktsPerBuf
RingFull(p) == ring[p].cur = 0 /\ Len(ring[p].filled) >= NBufs

MarkFilled(p) ==
  /\ SubBlockFull(p)
  /\ ring' = [ring EXCEPT ![p].cur = 0,
                          ![p].filled = Append(@, [pkts |-> PktsPerBuf, eod |-> FALSE])]

WritePacket(p) ==
  /\ ~SubBlockFull(p)
  /\ ~RingFull(p)
  /\ ring' = [ring EXCEPT ![p].cur = @ + 1]

(***************************************************************************)
(* The reading side.  A sub-block is cleared with its last packet, the one *)
(* that ends the data with the short read that reports its EOD.            *)
(***************************************************************************)
OpenForReading(p) == ring' = [ring EXCEPT ![p].reading = TRUE]
CloseForReading(p) == ring' = [ring EXCEPT ![p].reading = FALSE]

NothingToRead(p) == ring[p].filled = <<>>

ReadPacket(p) ==
  /\ ~NothingToRead(p)
  /\ LET h == Head(ring[p].filled) IN
       /\ h.pkts > 0
       /\ ring' = [ring EXCEPT ![p].filled =
                     IF h.pkts = 1 /\ ~h.eod THEN Tail(@)
                     ELSE [@ EXCEPT ![1].pkts = h.pkts - 1]]

AtEnd(p) == ~NothingToRead(p) /\ Head(ring[p].filled).pkts = 0

ReadEnd(p) ==
  /\ AtEnd(p)
  /\ ring' = [ring EXCEPT ![p].filled = Tail(@), ![p].reading = FALSE]
=============================================================================
