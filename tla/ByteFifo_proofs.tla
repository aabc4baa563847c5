-------------------------- MODULE ByteFifo_proofs ---------------------------
(***************************************************************************)
(* What a caller of the ring may rely on, for every capacity and length.   *)
(***************************************************************************)
EXTENDS ByteFifo, SequenceTheorems, TLAPS

(* A write returns a count between 0 and the length asked for, and the     *)
(* ring never holds more than its capacity.                                *)
THEOREM FifoWriteBounded ==
  ASSUME NEW S, NEW q \in Seq(S), NEW bytes \in Seq(S),
         NEW capacity \in Nat, Len(q) <= capacity
  PROVE  /\ FifoAccepted(q, capacity, Len(bytes)) \in 0 .. Len(bytes)
         /\ FifoWrite(q, capacity, bytes) \in Seq(S)
         /\ Len(FifoWrite(q, capacity, bytes))
              = Len(q) + FifoAccepted(q, capacity, Len(bytes))
         /\ Len(FifoWrite(q, capacity, bytes)) <= capacity
<1> DEFINE n == FifoAccepted(q, capacity, Len(bytes))
<1>1. n \in 0 .. Len(bytes) /\ n <= capacity - Len(q)
  BY DEF FifoAccepted, AtMost
<1>2. /\ SubSeq(bytes, 1, n) \in Seq(S)
      /\ Len(SubSeq(bytes, 1, n)) = n
  <2>1. \A i \in 1 .. n : bytes[i] \in S
    BY <1>1
  <2>2. QED
    BY <1>1, <2>1, SubSeqProperties
<1>3. /\ q \o SubSeq(bytes, 1, n) \in Seq(S)
      /\ Len(q \o SubSeq(bytes, 1, n)) = Len(q) + n
  BY <1>2, ConcatProperties
<1>4. QED
  BY <1>1, <1>3 DEF FifoWrite

(* A read splits the ring: what it returns followed by what it leaves is   *)
(* what was there, in order.                                               *)
THEOREM FifoReadSplits ==
  ASSUME NEW S, NEW q \in Seq(S), NEW n \in Nat
  PROVE  /\ FifoRead(q, n) \in Seq(S)
         /\ FifoRest(q, n) \in Seq(S)
         /\ Len(FifoRead(q, n)) = AtMost(n, Len(q))
         /\ Len(FifoRest(q, n)) = Len(q) - AtMost(n, Len(q))
         /\ FifoRead(q, n) \o FifoRest(q, n) = q
<1> DEFINE k == AtMost(n, Len(q))
<1>1. k \in 0 .. Len(q)
  BY DEF AtMost
<1>2. /\ SubSeq(q, 1, k) \in Seq(S)
      /\ Len(SubSeq(q, 1, k)) = k
  <2>1. \A i \in 1 .. k : q[i] \in S
    BY <1>1
  <2>2. QED
    BY <1>1, <2>1, SubSeqProperties
<1>3. /\ SubSeq(q, k + 1, Len(q)) \in Seq(S)
      /\ Len(SubSeq(q, k + 1, Len(q))) = Len(q) - k
  <2>1. \A i \in k + 1 .. Len(q) : q[i] \in S
    BY <1>1
  <2>2. QED
    BY <1>1, <2>1, SubSeqProperties
<1>4. SubSeq(q, 1, k) \o SubSeq(q, k + 1, Len(q)) = q
  <2>1. SubSeq(q, 1, k) \o SubSeq(q, k + 1, Len(q)) = SubSeq(q, 1, Len(q))
    BY <1>1, ConcatAdjacentSubSeq
  <2>2. QED
    BY <2>1, SubSeqFull
<1>5. QED
  BY <1>2, <1>3, <1>4 DEF FifoRead, FifoRest

(* A step as long as the queue takes all of it.                            *)
LEMMA FifoReadAll ==
  ASSUME NEW S, NEW q \in Seq(S), NEW n \in Nat, Len(q) <= n
  PROVE  FifoRead(q, n) = q /\ FifoRest(q, n) = <<>>
<1>1. AtMost(n, Len(q)) = Len(q)
  BY DEF AtMost
<1>2. FifoRead(q, n) = q
  BY <1>1, SubSeqFull DEF FifoRead
<1>3. FifoRest(q, n) \in Seq(S) /\ Len(FifoRest(q, n)) = 0
  BY <1>1, FifoReadSplits
<1>4. QED
  BY <1>2, <1>3, EmptySeq

(* What fits an empty ring is stored whole.                                *)
LEMMA FifoWriteAll ==
  ASSUME NEW S, NEW bytes \in Seq(S), NEW capacity \in Nat, Len(bytes) <= capacity
  PROVE  FifoWrite(<<>>, capacity, bytes) = bytes
<1>1. FifoAccepted(<<>>, capacity, Len(bytes)) = Len(bytes)
  BY DEF FifoAccepted, AtMost
<1>2. SubSeq(bytes, 1, Len(bytes)) = bytes
  BY SubSeqFull
<1>3. <<>> \o bytes = bytes
  BY ConcatEmptySeq
<1>4. QED
  BY <1>1, <1>2, <1>3 DEF FifoWrite
=============================================================================
