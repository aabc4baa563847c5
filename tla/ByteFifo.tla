------------------------------ MODULE ByteFifo ------------------------------
(***************************************************************************)
(* What the callers of byte_ring_buffer.c rely on: a bounded first-in      *)
(* first-out queue of bytes.  A write stores the longest prefix that fits, *)
(* a read removes at most the number of bytes asked for.  ByteRingBuffer   *)
(* is shown to implement these operators, so the modules of the components *)
(* that own a ring use them directly.                                      *)
(***************************************************************************)
EXTENDS Integers, Sequences

AtMost(m, n) == IF m <= n THEN m ELSE n

(* Mutant: the bytes already stored are not subtracted from the capacity.  *)
FifoAcceptedUnchecked(q, capacity, length) == AtMost(length, capacity)

(* The number of bytes a write of `length` bytes stores.                   *)
FifoAccepted(q, capacity, length) == AtMost(length, capacity - Len(q))

FifoWrite(q, capacity, bytes) ==
  q \o SubSeq(bytes, 1, FifoAccepted(q, capacity, Len(bytes)))

FifoRead(q, length) == SubSeq(q, 1, AtMost(length, Len(q)))

FifoRest(q, length) == SubSeq(q, AtMost(length, Len(q)) + 1, Len(q))
=============================================================================
