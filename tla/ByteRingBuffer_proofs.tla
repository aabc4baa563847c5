------------------------ MODULE ByteRingBuffer_proofs -----------------------
(***************************************************************************)
(* The indices of the byte ring, for every capacity and transfer length.   *)
(***************************************************************************)
EXTENDS ByteRingBuffer, SequenceTheorems, TLAPS

(* The index after the last slot is the first slot.                        *)
LEMMA AdvanceWraps ==
  ASSUME NEW i \in Slots
  PROVE  Advance(i) = (IF i = Capacity - 1 THEN 0 ELSE i + 1)
<1>1. \A n \in Nat \ {0} : \A k \in 0 .. n - 1 :
        (k + 1) % n = (IF k = n - 1 THEN 0 ELSE k + 1)
  OBVIOUS
<1>2. QED
  BY <1>1, RingAssumption DEF Slots, Advance

(* A write in progress has all of its bytes at hand.                       *)
SourceIsWhole == call = "write" => Len(source) = length

RingInv == TypeOK /\ HeadFollowsTail /\ SourceIsWhole

LEMMA RingInit == Init => RingInv
<1> SUFFICES ASSUME Init PROVE RingInv
  OBVIOUS
<1>1. AnyByte \in Byte
  BY RingAssumption DEF AnyByte
<1>2. TypeOK
  BY <1>1, RingAssumption DEF Init, TypeOK, Slots
<1>3. HeadFollowsTail /\ SourceIsWhole
  BY DEF Init, HeadFollowsTail, SourceIsWhole
<1>4. QED
  BY <1>2, <1>3 DEF RingInv

LEMMA RingStep == RingInv /\ [Next]_vars => RingInv'
<1> SUFFICES ASSUME RingInv, [Next]_vars PROVE RingInv'
  OBVIOUS
<1> USE RingAssumption DEF RingInv
<1>1. ASSUME NEW bytes \in Buffers, CallWrite(bytes) PROVE RingInv'
  <2>1. bytes \in Seq(Byte) /\ Len(bytes) \in 0 .. MaxTransfer
    BY DEF Buffers
  <2>2. QED
    BY <1>1, <2>1 DEF CallWrite, bufferVars, TypeOK, HeadFollowsTail, SourceIsWhole
<1>2. CASE StoreByte
  <2>1. head \in Slots /\ Advance(head) \in Slots
    BY AdvanceWraps DEF TypeOK, Slots
  <2>2. source[done + 1] \in Byte
    BY <1>2 DEF StoreByte, TypeOK, SourceIsWhole
  <2>3. data' \in [Slots -> Byte]
    BY <1>2, <2>1, <2>2 DEF StoreByte, TypeOK
  <2>4. size' \in 0 .. Capacity /\ done' \in 0 .. length'
    BY <1>2 DEF StoreByte, TypeOK
  <2>5. TypeOK'
    BY <1>2, <2>1, <2>3, <2>4 DEF StoreByte, TypeOK
  <2>6. HeadFollowsTail'
    BY <1>2, AdvanceWraps DEF StoreByte, TypeOK, HeadFollowsTail, Slots
  <2>7. SourceIsWhole'
    BY <1>2 DEF StoreByte, SourceIsWhole
  <2>8. QED
    BY <2>5, <2>6, <2>7
<1>3. CASE ReturnWrite
  <2>1. overflow_count' \in 0 .. CounterRange - 1
    BY <1>3 DEF ReturnWrite, TypeOK
  <2>2. QED
    BY <1>3, <2>1 DEF ReturnWrite, TypeOK, HeadFollowsTail, SourceIsWhole
<1>4. ASSUME NEW n \in 0 .. MaxTransfer, CallRead(n) PROVE RingInv'
  BY <1>4 DEF CallRead, bufferVars, TypeOK, HeadFollowsTail, SourceIsWhole
<1>5. CASE LoadByte
  <2>1. tail \in Slots /\ Advance(tail) \in Slots
    BY AdvanceWraps DEF TypeOK, Slots
  <2>2. out' \in Seq(Byte)
    BY <1>5, <2>1 DEF LoadByte, TypeOK
  <2>3. size' \in 0 .. Capacity /\ done' \in 0 .. length'
    BY <1>5 DEF LoadByte, TypeOK
  <2>4. TypeOK'
    BY <1>5, <2>1, <2>2, <2>3 DEF LoadByte, TypeOK
  <2>5. HeadFollowsTail'
    <3>1. tail' = (IF tail = Capacity - 1 THEN 0 ELSE tail + 1)
      BY <1>5, <2>1, AdvanceWraps DEF LoadByte
    <3>2. size' = size - 1 /\ head' = head /\ size > 0
      BY <1>5 DEF LoadByte
    <3>3. head \in 0 .. Capacity - 1 /\ tail \in 0 .. Capacity - 1 /\ size \in Int
      BY DEF TypeOK, Slots
    <3>4. QED
      BY <3>1, <3>2, <3>3 DEF HeadFollowsTail
  <2>6. SourceIsWhole'
    BY <1>5 DEF LoadByte, SourceIsWhole
  <2>7. QED
    BY <2>4, <2>5, <2>6
<1>6. CASE ReturnRead
  BY <1>6 DEF ReturnRead, bufferVars, TypeOK, HeadFollowsTail, SourceIsWhole
<1>7. CASE UNCHANGED vars
  BY <1>7 DEF vars, TypeOK, HeadFollowsTail, SourceIsWhole
<1>8. QED
  BY <1>1, <1>2, <1>3, <1>4, <1>5, <1>6, <1>7 DEF Next

LEMMA RingInvariant == Spec => []RingInv
BY RingInit, RingStep, PTL DEF Spec

(* Every field of the ring stays within its bounds: no index leaves the    *)
(* storage and the ring never holds more than its capacity, at every turn  *)
(* of the copy loops.                                                      *)
THEOREM RingTypeCorrect == Spec => []TypeOK
<1>1. RingInv => TypeOK
  BY DEF RingInv
<1>2. QED
  BY <1>1, RingInvariant, PTL

(* The write index is always `size` slots ahead of the read index, modulo  *)
(* the capacity: the three fields write and read update separately agree.  *)
THEOREM IndicesAgree == Spec => []HeadFollowsTail
<1>1. RingInv => HeadFollowsTail
  BY DEF RingInv
<1>2. QED
  BY <1>1, RingInvariant, PTL
-----------------------------------------------------------------------------
(* The ring implements the bounded queue its callers rely on.              *)

(* The slot k places after another, with at most one turn of the ring.     *)
LEMMA SlotAfter ==
  ASSUME NEW i \in Slots, NEW k \in 0 .. Capacity
  PROVE  (i + k) % Capacity = (IF i + k < Capacity THEN i + k ELSE i + k - Capacity)
<1>1. \A n \in Nat \ {0} : \A x \in 0 .. 2 * n - 1 :
        x % n = (IF x < n THEN x ELSE x - n)
  OBVIOUS
<1>2. i + k \in 0 .. 2 * Capacity - 1
  BY RingAssumption DEF Slots
<1> DEFINE x == i + k
<1>3. x \in 0 .. 2 * Capacity - 1 /\ Capacity \in Nat \ {0}
  BY <1>2, RingAssumption
<1> HIDE DEF x
<1>4. CASE x < Capacity
  <2>1. x % Capacity = x
    BY <1>1, <1>3, <1>4
  <2>2. QED
    BY <1>4, <2>1 DEF x
<1>5. CASE ~(x < Capacity)
  <2>1. x % Capacity = x - Capacity
    BY <1>1, <1>3, <1>5
  <2>2. i \in Int /\ k \in Int /\ Capacity \in Int
    BY RingAssumption DEF Slots
  <2>3. QED
    BY <1>5, <2>1, <2>2 DEF x
<1>6. QED
  BY <1>4, <1>5

(* The contents are `size` bytes, the oldest in the slot of the tail.      *)
LEMMA ContentsAre ==
  ASSUME TypeOK
  PROVE  /\ Contents \in Seq(Byte) /\ Len(Contents) = size
         /\ \A i \in 1 .. size :
              Contents[i] = data[IF tail + i - 1 < Capacity THEN tail + i - 1
                                                          ELSE tail + i - 1 - Capacity]
<1> DEFINE slot(i) == IF tail + i - 1 < Capacity THEN tail + i - 1
                                                ELSE tail + i - 1 - Capacity
<1>1. /\ tail \in 0 .. Capacity - 1 /\ size \in 0 .. Capacity
      /\ Capacity \in Nat \ {0} /\ data \in [0 .. Capacity - 1 -> Byte]
  BY RingAssumption DEF TypeOK, Slots
<1>2. ASSUME NEW i \in 1 .. size
      PROVE  /\ (tail + i - 1) % Capacity = slot(i)
             /\ slot(i) \in 0 .. Capacity - 1
  <2>1. i - 1 \in 0 .. Capacity /\ tail + (i - 1) = tail + i - 1
    BY <1>1
  <2>2. (tail + i - 1) % Capacity = slot(i)
    BY <1>1, <2>1, SlotAfter DEF Slots
  <2>3. QED
    BY <1>1, <2>2
<1> HIDE DEF slot
<1>3. /\ Contents \in [1 .. size -> Byte]
      /\ \A i \in 1 .. size : Contents[i] = data[slot(i)]
  BY <1>1, <1>2 DEF Contents
<1>4. Contents \in Seq(Byte) /\ Len(Contents) = size
  BY <1>1, <1>3
<1>5. QED
  BY <1>3, <1>4 DEF slot

(* The same of the next state.                                             *)
LEMMA ContentsAfter ==
  ASSUME TypeOK'
  PROVE  /\ Contents' \in Seq(Byte) /\ Len(Contents') = size'
         /\ \A i \in 1 .. size' :
              Contents'[i] = data'[IF tail' + i - 1 < Capacity THEN tail' + i - 1
                                                             ELSE tail' + i - 1 - Capacity]
<1>1. (TypeOK => /\ Contents \in Seq(Byte) /\ Len(Contents) = size
                /\ \A i \in 1 .. size :
                     Contents[i] = data[IF tail + i - 1 < Capacity THEN tail + i - 1
                                                         ELSE tail + i - 1 - Capacity])'
  BY ContentsAre, PTL
<1>2. QED
  BY <1>1

(* What a call in progress has moved so far.                               *)
InProgress ==
  /\ call = "write" =>
       /\ done <= size
       /\ \A i \in 1 .. done : Contents[size - done + i] = source[i]
  /\ call = "read" => Len(out) = done

(* One byte stored is one byte more at the end of the contents.            *)
LEMMA StoreAppends ==
  ASSUME RingInv, RingInv', StoreByte
  PROVE  /\ \A i \in 1 .. size : Contents'[i] = Contents[i]
         /\ Contents'[size + 1] = source[done + 1]
<1>1. /\ data' = [data EXCEPT ![head] = source[done + 1]]
      /\ tail' = tail /\ size' = size + 1 /\ size < Capacity
  BY DEF StoreByte
<1>2. /\ tail \in 0 .. Capacity - 1 /\ head \in 0 .. Capacity - 1
      /\ size \in 0 .. Capacity /\ Capacity \in Nat \ {0}
      /\ data \in [0 .. Capacity - 1 -> Byte]
      /\ head = tail + size \/ head = tail + size - Capacity
  BY RingAssumption DEF RingInv, TypeOK, Slots, HeadFollowsTail
<1> DEFINE slot(i) == IF tail + i - 1 < Capacity THEN tail + i - 1
                                                ELSE tail + i - 1 - Capacity
<1>3. /\ \A i \in 1 .. size : Contents[i] = data[slot(i)]
      /\ \A i \in 1 .. size + 1 : Contents'[i] = data'[slot(i)]
  <2>1. \A i \in 1 .. size : Contents[i] = data[slot(i)]
    BY ContentsAre DEF RingInv
  <2>2. \A i \in 1 .. size' :
          Contents'[i] = data'[IF tail' + i - 1 < Capacity THEN tail' + i - 1
                                                         ELSE tail' + i - 1 - Capacity]
    BY ContentsAfter DEF RingInv
  <2>3. QED
    BY <1>1, <2>1, <2>2
<1>4. slot(size + 1) = head
  BY <1>2
<1>5. \A i \in 1 .. size : slot(i) \in 0 .. Capacity - 1 /\ slot(i) # head
  BY <1>1, <1>2
<1> HIDE DEF slot
<1>6. \A i \in 1 .. size : Contents'[i] = Contents[i]
  BY <1>1, <1>2, <1>3, <1>5
<1>7. Contents'[size + 1] = source[done + 1]
  BY <1>1, <1>2, <1>3, <1>4
<1>8. QED
  BY <1>6, <1>7

(* One byte loaded is the first of the contents.                           *)
LEMMA LoadTakesFirst ==
  ASSUME RingInv, RingInv', LoadByte
  PROVE  /\ Contents[1] = data[tail]
         /\ \A i \in 1 .. size - 1 : Contents'[i] = Contents[i + 1]
<1>1. data' = data /\ tail' = Advance(tail) /\ size' = size - 1 /\ size > 0
  BY DEF LoadByte
<1>2. /\ tail \in 0 .. Capacity - 1 /\ size \in 0 .. Capacity /\ Capacity \in Nat \ {0}
      /\ tail' = (IF tail = Capacity - 1 THEN 0 ELSE tail + 1)
  BY <1>1, AdvanceWraps, RingAssumption DEF RingInv, TypeOK, Slots
<1> DEFINE slot(t, i) == IF t + i - 1 < Capacity THEN t + i - 1 ELSE t + i - 1 - Capacity
<1>3. \A i \in 1 .. size : Contents[i] = data[slot(tail, i)]
  BY ContentsAre DEF RingInv
<1>4. \A i \in 1 .. size - 1 : Contents'[i] = data[slot(tail', i)]
  BY <1>1, ContentsAfter DEF RingInv
<1>5. /\ slot(tail, 1) = tail
      /\ \A i \in 1 .. size - 1 : slot(tail', i) = slot(tail, i + 1)
  BY <1>1, <1>2
<1> HIDE DEF slot
<1>6. QED
  BY <1>1, <1>2, <1>3, <1>4, <1>5

LEMMA InProgressInit == Init => InProgress
BY DEF Init, InProgress

LEMMA InProgressStep == RingInv /\ RingInv' /\ InProgress /\ [Next]_vars => InProgress'
<1> SUFFICES ASSUME RingInv, RingInv', InProgress, [Next]_vars PROVE InProgress'
  OBVIOUS
<1>1. ASSUME NEW bytes \in Buffers, CallWrite(bytes) PROVE InProgress'
  BY <1>1 DEF CallWrite, bufferVars, InProgress, RingInv, TypeOK
<1>2. CASE StoreByte
  <2>1. /\ call = "write" /\ call' = "write" /\ done' = done + 1 /\ size' = size + 1
        /\ source' = source
    BY <1>2 DEF StoreByte
  <2>2. /\ done \in Nat /\ size \in Nat /\ done <= size
        /\ \A i \in 1 .. done : Contents[size - done + i] = source[i]
    BY <2>1 DEF InProgress, RingInv, TypeOK
  <2>3. ASSUME NEW i \in 1 .. done + 1
        PROVE  Contents'[size - done + i] = source[i]
    <3>1. CASE i = done + 1
      BY <1>2, <2>2, <3>1, StoreAppends
    <3>2. CASE i \in 1 .. done
      <4>1. size - done + i \in 1 .. size
        BY <2>2, <3>2
      <4>2. QED
        BY <1>2, <2>2, <3>2, <4>1, StoreAppends
    <3>3. QED
      BY <2>2, <3>1, <3>2
  <2>4. size' - done' = size - done /\ done' <= size'
    BY <2>1, <2>2
  <2>5. QED
    BY <2>1, <2>3, <2>4 DEF InProgress
<1>3. ASSUME NEW n \in 0 .. MaxTransfer, CallRead(n) PROVE InProgress'
  BY <1>3 DEF CallRead, InProgress
<1>4. CASE LoadByte
  <2>1. call' = "read" /\ done' = done + 1 /\ out' = Append(out, data[tail]) /\ Len(out) = done
    BY <1>4 DEF LoadByte, InProgress
  <2>2. out \in Seq(Byte) /\ data[tail] \in Byte
    BY DEF RingInv, TypeOK
  <2>3. Len(out') = done'
    BY <2>1, <2>2, AppendProperties
  <2>4. QED
    BY <2>1, <2>3 DEF InProgress
<1>5. CASE ReturnWrite \/ ReturnRead
  BY <1>5 DEF ReturnWrite, ReturnRead, InProgress
<1>6. CASE UNCHANGED vars
  BY <1>6 DEF vars, InProgress, Contents
<1>7. QED
  BY <1>1, <1>2, <1>3, <1>4, <1>5, <1>6 DEF Next

(* The queue of a state, call by call.                                     *)
LEMMA QueueIs ==
  /\ call = "write" => Queue = SubSeq(Contents, 1, size - done)
  /\ call = "read" => Queue = out \o Contents
  /\ call \notin {"write", "read"} => Queue = Contents
BY DEF Queue

LEMMA QueueWillBe ==
  /\ call' = "write" => Queue' = SubSeq(Contents', 1, size' - done')
  /\ call' = "read" => Queue' = out' \o Contents'
  /\ call' \notin {"write", "read"} => Queue' = Contents'
BY DEF Queue

(* Two prefixes of one length, equal element by element, are one.          *)
LEMMA SamePrefix ==
  ASSUME NEW S, NEW s \in Seq(S), NEW t \in Seq(S), NEW n \in Nat,
         n <= Len(s), n <= Len(t), \A i \in 1 .. n : s[i] = t[i]
  PROVE  SubSeq(s, 1, n) = SubSeq(t, 1, n)
<1>1. \A i \in 1 .. n : s[i] \in S /\ t[i] \in S
  OBVIOUS
<1>2. /\ SubSeq(s, 1, n) \in Seq(S) /\ Len(SubSeq(s, 1, n)) = n
      /\ SubSeq(t, 1, n) \in Seq(S) /\ Len(SubSeq(t, 1, n)) = n
      /\ \A i \in 1 .. n : SubSeq(s, 1, n)[i] = s[i] /\ SubSeq(t, 1, n)[i] = t[i]
  BY <1>1, SubSeqProperties
<1>3. QED
  BY <1>2, SeqEqual

(* A turn of a loop leaves the queue as it is.                             *)
LEMMA StoreKeepsQueue ==
  ASSUME RingInv, RingInv', InProgress, StoreByte
  PROVE  Queue' = Queue
<1>1. /\ call = "write" /\ call' = "write" /\ done' = done + 1 /\ size' = size + 1
  BY DEF StoreByte
<1>2. /\ done \in Nat /\ size \in Nat /\ done <= size
  BY <1>1 DEF InProgress, RingInv, TypeOK
<1>3. /\ Contents \in Seq(Byte) /\ Len(Contents) = size
      /\ Contents' \in Seq(Byte) /\ Len(Contents') = size + 1
  BY <1>1, ContentsAre, ContentsAfter DEF RingInv
<1>4. \A i \in 1 .. size - done : Contents'[i] = Contents[i]
  BY <1>2, StoreAppends
<1>5. SubSeq(Contents', 1, size - done) = SubSeq(Contents, 1, size - done)
  BY <1>2, <1>3, <1>4, SamePrefix
<1>6. size' - done' = size - done
  BY <1>1, <1>2
<1>7. QED
  BY <1>1, <1>5, <1>6, QueueIs, QueueWillBe

LEMMA LoadKeepsQueue ==
  ASSUME RingInv, RingInv', InProgress, LoadByte
  PROVE  Queue' = Queue
<1>1. /\ call = "read" /\ call' = "read" /\ out' = Append(out, data[tail])
      /\ size' = size - 1 /\ size > 0
  BY DEF LoadByte
<1>2. /\ size \in Nat /\ out \in Seq(Byte) /\ data[tail] \in Byte
  BY DEF RingInv, TypeOK
<1>3. /\ Contents \in Seq(Byte) /\ Len(Contents) = size
      /\ Contents' \in Seq(Byte) /\ Len(Contents') = size - 1
  BY <1>1, ContentsAre, ContentsAfter DEF RingInv
<1>4. /\ out' \in Seq(Byte) /\ Len(out') = Len(out) + 1
      /\ \A i \in 1 .. Len(out) : out'[i] = out[i]
      /\ out'[Len(out) + 1] = Contents[1]
  BY <1>1, <1>2, AppendProperties, LoadTakesFirst
<1>5. Len(out) \in Nat
  BY <1>2
<1>6. /\ out' \o Contents' \in Seq(Byte) /\ Len(out' \o Contents') = Len(out) + size
      /\ \A i \in 1 .. Len(out) + size :
           (out' \o Contents')[i] = IF i <= Len(out) + 1 THEN out'[i]
                                    ELSE Contents'[i - (Len(out) + 1)]
  <2> DEFINE s == out'
             t == Contents'
  <2>1. s \in Seq(Byte) /\ t \in Seq(Byte) /\ Len(s) = Len(out) + 1
    BY <1>3, <1>4
  <2>2. Len(s) + Len(t) = Len(out) + size
    BY <1>2, <1>3, <1>4, <1>5
  <2> HIDE DEF s, t
  <2>3. /\ s \o t \in Seq(Byte) /\ Len(s \o t) = Len(s) + Len(t)
        /\ \A i \in 1 .. Len(s) + Len(t) :
             (s \o t)[i] = IF i <= Len(s) THEN s[i] ELSE t[i - Len(s)]
    BY <2>1, ConcatProperties
  <2>4. QED
    BY <2>1, <2>2, <2>3 DEF s, t
<1>7. /\ out \o Contents \in Seq(Byte) /\ Len(out \o Contents) = Len(out) + size
      /\ \A i \in 1 .. Len(out) + size :
           (out \o Contents)[i] = IF i <= Len(out) THEN out[i] ELSE Contents[i - Len(out)]
  BY <1>2, <1>3, ConcatProperties
<1>8. ASSUME NEW i \in 1 .. Len(out) + size
      PROVE  (out' \o Contents')[i] = (out \o Contents)[i]
  <2>1. CASE i <= Len(out)
    BY <1>4, <1>5, <1>6, <1>7, <2>1
  <2>2. CASE i = Len(out) + 1
    BY <1>4, <1>5, <1>6, <1>7, <2>2
  <2>3. CASE i > Len(out) + 1
    <3>1. /\ i - (Len(out) + 1) \in 1 .. size - 1
          /\ (i - (Len(out) + 1)) + 1 = i - Len(out)
      BY <1>2, <1>5, <2>3
    <3>2. Contents'[i - (Len(out) + 1)] = Contents[i - Len(out)]
      BY <3>1, LoadTakesFirst
    <3>3. QED
      BY <1>5, <1>6, <1>7, <2>3, <3>2
  <2>4. i <= Len(out) \/ i = Len(out) + 1 \/ i > Len(out) + 1
    BY <1>2, <1>5
  <2>5. QED
    BY <2>1, <2>2, <2>3, <2>4
<1>9. out' \o Contents' = out \o Contents
  BY <1>6, <1>7, <1>8, SeqEqual
<1>10. QED
  BY <1>1, <1>9, QueueIs, QueueWillBe

(* So does the beginning of a call.                                        *)
LEMMA CallKeepsQueue ==
  ASSUME RingInv, (\E bytes \in Buffers : CallWrite(bytes)) \/ (\E n \in Nat : CallRead(n))
  PROVE  Queue' = Queue /\ UNCHANGED <<overflow_count, returned>>
<1>1. /\ call = "none" /\ UNCHANGED <<bufferVars, returned>>
      /\ done' = 0
      /\ call' = "write" \/ (out' = <<>> /\ call' = "read")
  BY DEF CallWrite, CallRead
<1>2. Contents' = Contents /\ size' = size
  BY <1>1 DEF Contents, bufferVars
<1>3. Contents \in Seq(Byte) /\ Len(Contents) = size /\ size \in Nat
  BY ContentsAre DEF RingInv, TypeOK
<1>4. SubSeq(Contents, 1, size - 0) = Contents /\ <<>> \o Contents = Contents
  BY <1>3, SubSeqFull, ConcatEmptySeq
<1>5. Queue' = Queue
  BY <1>1, <1>2, <1>4, QueueIs, QueueWillBe
<1>6. QED
  BY <1>1, <1>5 DEF bufferVars

(* The return of a write is the abstract write of its whole argument.      *)
LEMMA ReturnWriteStep ==
  ASSUME RingInv, InProgress, ReturnWrite
  PROVE  Fifo!Write(source)
<1> USE RingAssumption
<1>1. /\ call = "write" /\ call' = "none"
      /\ done = length \/ size = Capacity
      /\ UNCHANGED <<data, tail, size>>
      /\ returned' = [count |-> done, bytes |-> <<>>]
      /\ overflow_count' = IF done < length THEN (overflow_count + 1) % CounterRange
                                           ELSE overflow_count
  BY DEF ReturnWrite
<1>2. /\ source \in Seq(Byte) /\ Len(source) = length
      /\ length \in Nat /\ done \in Nat /\ size \in Nat /\ size <= Capacity
      /\ done <= length /\ done <= size
      /\ \A i \in 1 .. done : Contents[size - done + i] = source[i]
  BY <1>1 DEF RingInv, TypeOK, SourceIsWhole, InProgress
<1>3. Contents \in Seq(Byte) /\ Len(Contents) = size /\ Contents' = Contents
  BY <1>1, ContentsAre DEF RingInv, Contents
<1> DEFINE older == SubSeq(Contents, 1, size - done)
           newer == SubSeq(source, 1, done)
<1>4. /\ older \in Seq(Byte) /\ Len(older) = size - done
      /\ \A i \in 1 .. size - done : older[i] = Contents[i]
  <2>1. \A i \in 1 .. size - done : Contents[i] \in Byte
    BY <1>2, <1>3
  <2>2. size - done \in Nat
    BY <1>2
  <2>3. QED
    BY <2>1, <2>2, SubSeqProperties
<1>5. /\ newer \in Seq(Byte) /\ Len(newer) = done
      /\ \A i \in 1 .. done : newer[i] = source[i]
  <2>1. \A i \in 1 .. done : source[i] \in Byte
    BY <1>2
  <2>2. QED
    BY <1>2, <2>1, SubSeqProperties
<1>6. Queue = older
  BY <1>1, QueueIs
<1> HIDE DEF older, newer
<1>7. FifoAccepted(Queue, Capacity, Len(source)) = done
  BY <1>1, <1>2, <1>4, <1>6 DEF FifoAccepted, AtMost
<1>8. older \o newer = Contents
  <2>1. /\ older \o newer \in Seq(Byte) /\ Len(older \o newer) = size
        /\ \A i \in 1 .. size : (older \o newer)[i] =
              IF i <= size - done THEN older[i] ELSE newer[i - (size - done)]
    <3>1. Len(older) + Len(newer) = size
      BY <1>2, <1>4, <1>5
    <3>2. /\ older \o newer \in Seq(Byte)
          /\ Len(older \o newer) = Len(older) + Len(newer)
          /\ \A i \in 1 .. Len(older) + Len(newer) : (older \o newer)[i] =
                IF i <= Len(older) THEN older[i] ELSE newer[i - Len(older)]
      BY <1>4, <1>5, ConcatProperties
    <3>3. QED
      BY <1>4, <3>1, <3>2
  <2>2. ASSUME NEW i \in 1 .. size PROVE (older \o newer)[i] = Contents[i]
    <3>1. CASE i <= size - done
      BY <1>2, <1>4, <2>1, <3>1
    <3>2. CASE i > size - done
      <4>1. i - (size - done) \in 1 .. done /\ size - done + (i - (size - done)) = i
        BY <1>2, <3>2
      <4>2. QED
        BY <1>2, <1>5, <2>1, <3>2, <4>1
    <3>3. i <= size - done \/ i > size - done
      BY <1>2
    <3>4. QED
      BY <3>1, <3>2, <3>3
  <2>3. QED
    BY <1>3, <2>1, <2>2, SeqEqual
<1>9. Queue' = FifoWrite(Queue, Capacity, source)
  BY <1>1, <1>3, <1>6, <1>7, <1>8, QueueWillBe DEF FifoWrite, newer
<1>10. QED
  BY <1>1, <1>2, <1>7, <1>9
     DEF Fifo!Write, Fifo!FifoAccepted, Fifo!FifoWrite, Fifo!AtMost, FifoAccepted, FifoWrite, AtMost

(* The return of a read is the abstract read of the length asked for.      *)
LEMMA ReturnReadStep ==
  ASSUME RingInv, InProgress, ReturnRead
  PROVE  Fifo!Read(length)
<1>1. /\ call = "read" /\ call' = "none"
      /\ done = length \/ size = 0
      /\ UNCHANGED bufferVars
      /\ returned' = [count |-> done, bytes |-> out]
  BY DEF ReturnRead
<1>2. /\ out \in Seq(Byte) /\ Len(out) = done
      /\ length \in Nat /\ done \in Nat /\ size \in Nat /\ done <= length
  BY <1>1 DEF RingInv, TypeOK, InProgress
<1>3. Contents \in Seq(Byte) /\ Len(Contents) = size /\ Contents' = Contents
  BY <1>1, ContentsAre DEF RingInv, Contents, bufferVars
<1> DEFINE q == out \o Contents
<1>4. /\ q \in Seq(Byte) /\ Len(q) = done + size
      /\ \A i \in 1 .. done + size : q[i] = IF i <= done THEN out[i] ELSE Contents[i - done]
  BY <1>2, <1>3, ConcatProperties
<1>5. Queue = q /\ Queue' = Contents
  BY <1>1, <1>3, QueueIs, QueueWillBe
<1> HIDE DEF q
<1>6. AtMost(length, Len(q)) = done
  BY <1>1, <1>2, <1>4 DEF AtMost
<1>7. SubSeq(q, 1, done) = out
  <2>1. \A i \in 1 .. done : q[i] \in Byte /\ q[i] = out[i]
    BY <1>2, <1>4
  <2>2. /\ SubSeq(q, 1, done) \in Seq(Byte) /\ Len(SubSeq(q, 1, done)) = done
        /\ \A i \in 1 .. done : SubSeq(q, 1, done)[i] = q[i]
    BY <1>2, <2>1, SubSeqProperties
  <2>3. QED
    BY <1>2, <2>1, <2>2, SeqEqual
<1>8. SubSeq(q, done + 1, Len(q)) = Contents
  <2>1. \A i \in done + 1 .. done + size : q[i] \in Byte
    BY <1>2, <1>4
  <2>2. /\ SubSeq(q, done + 1, done + size) \in Seq(Byte)
        /\ Len(SubSeq(q, done + 1, done + size)) = size
        /\ \A i \in 1 .. size : SubSeq(q, done + 1, done + size)[i] = q[done + i]
    BY <1>2, <2>1, SubSeqProperties
  <2>3. \A i \in 1 .. size : q[done + i] = Contents[i]
    BY <1>2, <1>4
  <2>4. QED
    BY <1>3, <1>4, <2>2, <2>3, SeqEqual
<1>9. /\ FifoRead(Queue, length) = out /\ FifoRest(Queue, length) = Queue'
  BY <1>5, <1>6, <1>7, <1>8 DEF FifoRead, FifoRest
<1>10. QED
  BY <1>1, <1>2, <1>9
     DEF Fifo!Read, Fifo!FifoRead, Fifo!FifoRest, Fifo!AtMost, FifoRead, FifoRest, AtMost,
         bufferVars

LEMMA QueueStep ==
  RingInv /\ RingInv' /\ InProgress /\ [Next]_vars
    => [Fifo!Next]_<<Queue, overflow_count, returned>>
<1> SUFFICES ASSUME RingInv, RingInv', InProgress, [Next]_vars
             PROVE  Fifo!Next \/ UNCHANGED <<Queue, overflow_count, returned>>
  OBVIOUS
<1>1. CASE StoreByte \/ LoadByte
  BY <1>1, StoreKeepsQueue, LoadKeepsQueue DEF StoreByte, LoadByte
<1>2. CASE (\E bytes \in Buffers : CallWrite(bytes)) \/ (\E n \in 0 .. MaxTransfer : CallRead(n))
  BY <1>2, CallKeepsQueue, RingAssumption
<1>3. CASE ReturnWrite
  <2>1. source \in Fifo!Buffers
    <3>1. call = "write"
      BY <1>3 DEF ReturnWrite
    <3>2. source \in [1 .. length -> Byte] /\ length \in 0 .. MaxTransfer
      BY <3>1 DEF RingInv, TypeOK, SourceIsWhole
    <3>3. QED
      BY <3>2 DEF Fifo!Buffers
  <2>2. QED
    BY <1>3, <2>1, ReturnWriteStep DEF Fifo!Next
<1>4. CASE ReturnRead
  BY <1>4, ReturnReadStep DEF Fifo!Next, RingInv, TypeOK
<1>5. CASE UNCHANGED vars
  BY <1>5 DEF vars, Queue, Contents
<1>6. QED
  BY <1>1, <1>2, <1>3, <1>4, <1>5 DEF Next

LEMMA QueueInit == Init => Fifo!Init
<1> SUFFICES ASSUME Init PROVE Fifo!Init
  OBVIOUS
<1>1. /\ call = "none" /\ size = 0 /\ overflow_count = 0
      /\ returned = [count |-> 0, bytes |-> <<>>]
  BY DEF Init
<1>2. Contents \in Seq(Byte) /\ Len(Contents) = 0
  BY <1>1, RingInit, ContentsAre DEF RingInv
<1>3. Queue = <<>>
  BY <1>1, <1>2, EmptySeq, QueueIs
<1>4. QED
  BY <1>1, <1>3 DEF Fifo!Init

(* For every capacity and transfer length the ring is the bounded queue    *)
(* its callers rely on: it loses, invents, duplicates and reorders nothing *)
(* it accepted, counts each write it cut, and returns what it did.         *)
THEOREM RingIsFifo == Spec => ImplementsFifo
<1>1. RingInv /\ RingInv' /\ InProgress /\ [Next]_vars => [Fifo!Next]_(Fifo!fifoVars)
  BY QueueStep DEF Fifo!fifoVars
<1>2. QED
  BY <1>1, RingInit, RingStep, InProgressInit, InProgressStep, QueueInit, PTL
     DEF Spec, ImplementsFifo, Fifo!Spec
=============================================================================
