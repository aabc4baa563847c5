------------------------ MODULE TransportUdp_proofs -------------------------
(***************************************************************************)
(* Frames in the transmit ring of the UDP transport: when all the bytes of *)
(* a frame follow its first one.                                           *)
(***************************************************************************)
EXTENDS TransportUdp, ByteFifo_proofs

(* Wherever the frame begins among the bytes, all of it follows.           *)
IsWhole(bytes, frame, size) ==
  \A i \in DOMAIN bytes :
    bytes[i] = <<frame, 1>> =>
      \A j \in 1 .. size :
        i + j - 1 \in DOMAIN bytes /\ bytes[i + j - 1] = <<frame, j>>

Lacks(bytes, frame) == \A i \in DOMAIN bytes : bytes[i] # <<frame, 1>>

(* Every byte of a frame is a byte of the transmit ring's type.            *)
LEMMA FrameBytesType ==
  ASSUME NEW frame \in TxFrame, NEW size \in Nat
  PROVE  FrameBytes(frame, size) \in Seq(TxByte)
<1>1. \A i \in 1 .. size : <<frame, i>> \in TxByte
  BY DEF TxByte
<1>2. [i \in 1 .. size |-> <<frame, i>>] \in [1 .. size -> TxByte]
  BY <1>1
<1>3. QED
  BY <1>2 DEF FrameBytes

(* What one frame's bytes are.                                             *)
LEMMA FrameBytesAre ==
  ASSUME NEW frame, NEW size \in Nat
  PROVE  /\ DOMAIN FrameBytes(frame, size) = 1 .. size
         /\ Len(FrameBytes(frame, size)) = size
         /\ \A i \in 1 .. size : FrameBytes(frame, size)[i] = <<frame, i>>
BY DEF FrameBytes

LEMMA FrameIsWhole ==
  ASSUME NEW frame, NEW size \in Nat
  PROVE  IsWhole(FrameBytes(frame, size), frame, size)
<1>1. SUFFICES ASSUME NEW i \in 1 .. size, <<frame, i>> = <<frame, 1>>, NEW j \in 1 .. size
               PROVE  /\ i + j - 1 \in 1 .. size
                      /\ FrameBytes(frame, size)[i + j - 1] = <<frame, j>>
  BY FrameBytesAre DEF IsWhole
<1>2. i = 1 /\ i + j - 1 = j
  BY <1>1
<1>3. QED
  BY <1>2, FrameBytesAre

(* Any part of one frame lacks every other.                                *)
LEMMA OtherFrameLacks ==
  ASSUME NEW frame, NEW other, frame # other, NEW size \in Nat
  PROVE  Lacks(FrameBytes(other, size), frame)
BY FrameBytesAre DEF Lacks

LEMMA LacksIsWhole ==
  ASSUME NEW bytes, NEW frame, NEW size, Lacks(bytes, frame)
  PROVE  IsWhole(bytes, frame, size)
BY DEF Lacks, IsWhole

LEMMA PrefixLacks ==
  ASSUME NEW bytes \in Seq(TxByte), NEW frame, NEW n \in 0 .. Len(bytes), Lacks(bytes, frame)
  PROVE  SubSeq(bytes, 1, n) \in Seq(TxByte) /\ Lacks(SubSeq(bytes, 1, n), frame)
<1>1. \A i \in 1 .. n : bytes[i] \in TxByte
  OBVIOUS
<1>2. /\ SubSeq(bytes, 1, n) \in Seq(TxByte) /\ Len(SubSeq(bytes, 1, n)) = n
      /\ \A i \in 1 .. n : SubSeq(bytes, 1, n)[i] = bytes[i]
  BY <1>1, SubSeqProperties
<1>3. DOMAIN SubSeq(bytes, 1, n) = 1 .. n /\ 1 .. n \subseteq DOMAIN bytes
  BY <1>2
<1>4. \A i \in DOMAIN bytes : bytes[i] # <<frame, 1>>
  BY DEF Lacks
<1>5. \A i \in 1 .. n : SubSeq(bytes, 1, n)[i] # <<frame, 1>>
  <2>1. SUFFICES ASSUME NEW i \in 1 .. n PROVE SubSeq(bytes, 1, n)[i] # <<frame, 1>>
    OBVIOUS
  <2>2. bytes[i] # <<frame, 1>> /\ SubSeq(bytes, 1, n)[i] = bytes[i]
    BY <1>2, <1>3, <1>4
  <2>3. QED
    BY <2>2
<1>6. QED
  BY <1>2, <1>3, <1>5 DEF Lacks

(* Frames stay whole when something without their first byte follows.      *)
LEMMA AppendKeepsWhole ==
  ASSUME NEW s \in Seq(TxByte), NEW t \in Seq(TxByte), NEW frame, NEW size,
         IsWhole(s, frame, size), Lacks(t, frame)
  PROVE  IsWhole(s \o t, frame, size)
<1>1. /\ DOMAIN (s \o t) = 1 .. Len(s) + Len(t)
      /\ DOMAIN s = 1 .. Len(s) /\ DOMAIN t = 1 .. Len(t)
      /\ Len(s) \in Nat /\ Len(t) \in Nat
      /\ \A i \in 1 .. Len(s) : (s \o t)[i] = s[i]
      /\ \A i \in Len(s) + 1 .. Len(s) + Len(t) : (s \o t)[i] = t[i - Len(s)]
  OBVIOUS
<1>2. SUFFICES ASSUME NEW i \in 1 .. Len(s) + Len(t), (s \o t)[i] = <<frame, 1>>,
                      NEW j \in 1 .. size
               PROVE  /\ i + j - 1 \in 1 .. Len(s) + Len(t)
                      /\ (s \o t)[i + j - 1] = <<frame, j>>
  BY <1>1 DEF IsWhole
<1>3. i \in 1 .. Len(s)
  <2>1. SUFFICES ASSUME i \in Len(s) + 1 .. Len(s) + Len(t) PROVE FALSE
    BY <1>1
  <2>2. i - Len(s) \in 1 .. Len(t) /\ t[i - Len(s)] = <<frame, 1>>
    BY <1>1, <1>2, <2>1
  <2>3. QED
    BY <1>1, <2>2 DEF Lacks
<1>4. i + j - 1 \in 1 .. Len(s) /\ s[i + j - 1] = <<frame, j>>
  BY <1>1, <1>2, <1>3 DEF IsWhole
<1>5. QED
  BY <1>1, <1>4

LEMMA AppendKeepsLacks ==
  ASSUME NEW s \in Seq(TxByte), NEW t \in Seq(TxByte), NEW frame,
         Lacks(s, frame), Lacks(t, frame)
  PROVE  Lacks(s \o t, frame)
<1>1. /\ DOMAIN (s \o t) = 1 .. Len(s) + Len(t)
      /\ DOMAIN s = 1 .. Len(s) /\ DOMAIN t = 1 .. Len(t)
      /\ Len(s) \in Nat /\ Len(t) \in Nat
      /\ \A i \in 1 .. Len(s) : (s \o t)[i] = s[i]
      /\ \A i \in Len(s) + 1 .. Len(s) + Len(t) : (s \o t)[i] = t[i - Len(s)]
  OBVIOUS
<1>2. SUFFICES ASSUME NEW i \in 1 .. Len(s) + Len(t) PROVE (s \o t)[i] # <<frame, 1>>
  BY <1>1 DEF Lacks
<1>3. CASE i \in 1 .. Len(s)
  BY <1>1, <1>3 DEF Lacks
<1>4. CASE i \in Len(s) + 1 .. Len(s) + Len(t)
  <2>1. i - Len(s) \in 1 .. Len(t)
    BY <1>1, <1>4
  <2>2. QED
    BY <1>1, <1>4, <2>1 DEF Lacks
<1>5. QED
  BY <1>1, <1>3, <1>4

(* A push to the ring behind a whole frame may itself be cut, and leaves   *)
(* the frame whole.                                                        *)
LEMMA PushKeepsWhole ==
  ASSUME NEW ring \in Seq(TxByte), Len(ring) <= TxCapacity,
         NEW bytes \in Seq(TxByte), NEW frame, NEW size, Lacks(bytes, frame)
  PROVE  /\ IsWhole(ring, frame, size) =>
              IsWhole(FifoWrite(ring, TxCapacity, bytes), frame, size)
         /\ Lacks(ring, frame) => Lacks(FifoWrite(ring, TxCapacity, bytes), frame)
<1> DEFINE n == FifoAccepted(ring, TxCapacity, Len(bytes))
<1>1. n \in 0 .. Len(bytes)
  BY FifoWriteBounded, UdpAssumption
<1>2. FifoWrite(ring, TxCapacity, bytes) = ring \o SubSeq(bytes, 1, n)
  BY DEF FifoWrite
<1> HIDE DEF n
<1>3. SubSeq(bytes, 1, n) \in Seq(TxByte) /\ Lacks(SubSeq(bytes, 1, n), frame)
  BY <1>1, PrefixLacks
<1>4. QED
  BY <1>2, <1>3, AppendKeepsWhole, AppendKeepsLacks

(* A push leaves what is at the front of the ring.                         *)
LEMMA PushKeepsFront ==
  ASSUME NEW ring \in Seq(TxByte), Len(ring) <= TxCapacity, 1 \in DOMAIN ring,
         NEW frame \in Seq(TxByte)
  PROVE  /\ 1 \in DOMAIN FifoWrite(ring, TxCapacity, frame)
         /\ FifoWrite(ring, TxCapacity, frame)[1] = ring[1]
<1> DEFINE n == FifoAccepted(ring, TxCapacity, Len(frame))
<1>1. n \in 0 .. Len(frame)
  BY FifoWriteBounded, UdpAssumption
<1>2. FifoWrite(ring, TxCapacity, frame) = ring \o SubSeq(frame, 1, n)
  BY DEF FifoWrite
<1> HIDE DEF n
<1>3. \A i \in 1 .. n : frame[i] \in TxByte
  BY <1>1
<1>4. SubSeq(frame, 1, n) \in Seq(TxByte) /\ 1 \in 1 .. Len(ring)
  BY <1>1, <1>3, SubSeqProperties
<1>5. QED
  BY <1>2, <1>4

(* One pass of the transport sends the ring whole if its buffer is as      *)
(* large as the ring.                                                      *)
LEMMA DrainSendsAll ==
  ASSUME TxCapacity <= DrainSize, UdpTypeOK, UdpStep
  PROVE  wire' = tx_buffer /\ tx_buffer' = <<>>
<1>1. wire' = FifoRead(tx_buffer, DrainSize) /\ tx_buffer' = FifoRest(tx_buffer, DrainSize)
  BY DEF UdpStep, Drain
<1>2. /\ tx_buffer \in Seq(TxByte) /\ Len(tx_buffer) <= DrainSize /\ DrainSize \in Nat
  BY UdpAssumption DEF UdpTypeOK
<1>3. QED
  BY <1>1, <1>2, FifoReadAll

(* The transport only adds to the receive ring.                            *)
LEMMA ReceiveTakesNothing ==
  ASSUME UdpTypeOK, UdpStep
  PROVE  /\ Len(rx_buffer) \in Nat /\ Len(rx_buffer') \in Nat
         /\ Len(rx_buffer') >= Len(rx_buffer)
<1>1. rx_buffer \in Seq(HostFrame) /\ RxCapacity \in Nat /\ Len(rx_buffer) \in Nat
  BY UdpAssumption DEF UdpTypeOK
<1>2. PICK n \in 0 .. RxCapacity - Len(rx_buffer) :
        \E arriving \in [1 .. n -> HostFrame] : rx_buffer' = rx_buffer \o arriving
  BY DEF UdpStep, Receive
<1>3. PICK arriving \in [1 .. n -> HostFrame] : rx_buffer' = rx_buffer \o arriving
  BY <1>2
<1>4. n \in Nat
  BY <1>1
<1>5. arriving \in Seq(HostFrame) /\ Len(arriving) = n
  BY <1>4
<1>6. Len(rx_buffer') = Len(rx_buffer) + n
  <2>1. \A s, t \in Seq(HostFrame) : Len(s \o t) = Len(s) + Len(t)
    OBVIOUS
  <2>2. QED
    BY <1>1, <1>3, <1>5, <2>1
<1>7. QED
  BY <1>1, <1>4, <1>6
=============================================================================
