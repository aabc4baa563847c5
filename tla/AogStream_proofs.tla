-------------------------- MODULE AogStream_proofs --------------------------
(***************************************************************************)
(* The AOG parser on every byte stream, for every size of byte and data,   *)
(* every preamble and every function in the place of the exclusive or.     *)
(***************************************************************************)
EXTENDS AogStream, SequenceFacts

(* A checksum is a byte: of the code, by the type of the result; here by   *)
(* induction over the bytes.                                               *)
LEMMA ChecksumIsByte ==
  ASSUME NEW bytes \in Seq(Byte)
  PROVE  Checksum(bytes) \in Byte
<1>1. Foldable(Byte, Byte, XorByte, 0, bytes)
  BY FrameAssumption DEF Foldable, Byte
<1>2. Checksum(bytes) = FoldBy(XorByte, 0, bytes)
  BY DEF Checksum, FoldBy, FoldLeft, MapThenFoldSet
<1>3. FoldBy(XorByte, 0, bytes) \in Byte
  BY <1>1, FoldType
<1>4. QED
  BY <1>2, <1>3

(* What stands between the preamble and the checksum.                      *)
Body(size, p, payload) == <<size>> \o p \o payload

LEMMA ByteFacts ==
  /\ MaxByte \in Nat /\ MaxData \in Nat /\ MaxData + 2 <= MaxByte
  /\ \A n \in Nat : n <= MaxByte => n \in Byte
  /\ \A b \in Byte : b \in Nat /\ b <= MaxByte
  /\ Preamble1 \in Byte /\ Preamble2 \in Byte /\ Preamble1 # Preamble2
BY FrameAssumption DEF Byte

LEMMA PairIsSequence ==
  ASSUME NEW p \in Byte \X Byte
  PROVE  p \in Seq(Byte) /\ Len(p) = 2 /\ p = <<p[1], p[2]>> /\ p[1] \in Byte /\ p[2] \in Byte
<1>1. PICK a \in Byte, b \in Byte : p = <<a, b>>
  OBVIOUS
<1>2. QED
  BY <1>1

LEMMA BodyIs ==
  ASSUME NEW size \in Byte, NEW p \in Byte \X Byte, NEW payload \in Seq(Byte)
  PROVE  /\ Body(size, p, payload) \in Seq(Byte)
         /\ Len(Body(size, p, payload)) = 3 + Len(payload)
         /\ Body(size, p, payload)[1] = size
         /\ Body(size, p, payload)[2] = p[1]
         /\ Body(size, p, payload)[3] = p[2]
         /\ \A i \in 1 .. Len(payload) : Body(size, p, payload)[3 + i] = payload[i]
<1> DEFINE one == <<size>>
           front == one \o p
           whole == front \o payload
<1>1. p \in Seq(Byte) /\ Len(p) = 2
  BY PairIsSequence
<1>2. one \in Seq(Byte) /\ Len(one) = 1 /\ one[1] = size
  OBVIOUS
<1> HIDE DEF one
<1>3. /\ front \in Seq(Byte) /\ Len(front) = Len(one) + Len(p)
      /\ \A i \in 1 .. Len(one) : front[i] = one[i]
      /\ \A i \in 1 .. Len(p) : front[Len(one) + i] = p[i]
  <2>1. one \in Seq(Byte) /\ p \in Seq(Byte)
    BY <1>1, <1>2
  <2>2. QED
    BY <2>1, ConcatIs
<1>4. Len(front) = 3 /\ front[1] = size /\ front[1 + 1] = p[1] /\ front[1 + 2] = p[2]
  BY <1>1, <1>2, <1>3
<1> HIDE DEF front
<1>5. /\ whole \in Seq(Byte) /\ Len(whole) = Len(front) + Len(payload)
      /\ \A i \in 1 .. Len(front) : whole[i] = front[i]
      /\ \A i \in 1 .. Len(payload) : whole[Len(front) + i] = payload[i]
  <2>1. front \in Seq(Byte)
    BY <1>3
  <2>2. QED
    BY <2>1, ConcatIs
<1>6. whole[1] = size /\ whole[2] = p[1] /\ whole[3] = p[2]
  BY <1>4, <1>5
<1>7. Body(size, p, payload) = whole
  BY DEF Body, whole, front, one
<1> HIDE DEF whole
<1>8. QED
  BY <1>4, <1>5, <1>6, <1>7

LEMMA EncodeIs ==
  ASSUME NEW p \in Byte \X Byte, NEW payload \in Seq(Byte),
         Len(payload) <= MaxData, Checksum(Body(2 + Len(payload), p, payload)) \in Byte
  PROVE  LET e == EncodeFrame(p, payload)
             size == 2 + Len(payload)
         IN  /\ e \in Seq(Byte) /\ Len(e) = 4 + size
             /\ e[1] = Preamble1 /\ e[2] = Preamble2 /\ e[3] = size
             /\ e[4] = p[1] /\ e[5] = p[2]
             /\ \A i \in 1 .. Len(payload) : e[5 + i] = payload[i]
             /\ e[4 + size] = Checksum(Body(size, p, payload))
<1> DEFINE size == 2 + Len(payload)
           body == Body(size, p, payload)
           crc == Checksum(body)
           last == <<crc>>
           start == <<Preamble1, Preamble2>>
           front == start \o body
           whole == front \o last
<1>1. Len(payload) \in Nat /\ size \in Byte /\ size \in Nat /\ size = 2 + Len(payload)
  BY ByteFacts
<1>0. crc \in Byte
  OBVIOUS
<1> HIDE DEF size
<1>2. /\ body \in Seq(Byte) /\ Len(body) = 3 + Len(payload) /\ body[1] = size
      /\ body[2] = p[1] /\ body[3] = p[2]
      /\ \A i \in 1 .. Len(payload) : body[3 + i] = payload[i]
  BY <1>1, BodyIs
<1> HIDE DEF body
<1>3. crc \in Byte
  BY <1>0
<1> HIDE DEF crc
<1>4. last \in Seq(Byte) /\ Len(last) = 1 /\ last[1] = crc
  BY <1>3
<1>5. /\ start \in Seq(Byte) /\ Len(start) = 2
      /\ start[1] = Preamble1 /\ start[2] = Preamble2
  BY ByteFacts
<1> HIDE DEF start, last
<1>6. /\ front \in Seq(Byte) /\ Len(front) = Len(start) + Len(body)
      /\ \A i \in 1 .. Len(start) : front[i] = start[i]
      /\ \A i \in 1 .. Len(body) : front[Len(start) + i] = body[i]
  <2>1. start \in Seq(Byte) /\ body \in Seq(Byte)
    BY <1>2, <1>5
  <2>2. QED
    BY <2>1, ConcatIs
<1>7. /\ Len(front) = 3 + size
      /\ front[1] = Preamble1 /\ front[2] = Preamble2 /\ front[2 + 1] = size
      /\ front[2 + 2] = p[1] /\ front[2 + 3] = p[2]
      /\ \A i \in 1 .. Len(payload) : front[5 + i] = payload[i]
  <2>1. ASSUME NEW i \in 1 .. Len(payload) PROVE front[5 + i] = payload[i]
    <3>1. 3 + i \in 1 .. Len(body) /\ 2 + (3 + i) = 5 + i
      BY <1>1, <1>2
    <3>2. QED
      BY <1>2, <1>5, <1>6, <3>1
  <2>2. 1 \in 1 .. Len(body) /\ 2 \in 1 .. Len(body) /\ 3 \in 1 .. Len(body)
    BY <1>1, <1>2
  <2>3. QED
    BY <1>1, <1>2, <1>5, <1>6, <2>1, <2>2
<1> HIDE DEF front
<1>8. /\ whole \in Seq(Byte) /\ Len(whole) = Len(front) + Len(last)
      /\ \A i \in 1 .. Len(front) : whole[i] = front[i]
      /\ \A i \in 1 .. Len(last) : whole[Len(front) + i] = last[i]
  <2>1. front \in Seq(Byte) /\ last \in Seq(Byte)
    BY <1>4, <1>6
  <2>2. QED
    BY <2>1, ConcatIs
<1>9. /\ Len(whole) = 4 + size /\ whole[4 + size] = crc
  <2>1. (3 + size) + 1 = 4 + size
    BY <1>1
  <2>2. QED
    BY <1>4, <1>7, <1>8, <2>1
<1>10. /\ whole[1] = Preamble1 /\ whole[2] = Preamble2 /\ whole[3] = size
       /\ whole[4] = p[1] /\ whole[5] = p[2]
  BY <1>1, <1>7, <1>8
<1>11. \A i \in 1 .. Len(payload) : whole[5 + i] = payload[i]
  BY <1>1, <1>7, <1>8
<1>12. EncodeFrame(p, payload) = whole
  BY DEF EncodeFrame, whole, front, start, last, crc, body, size, Body
<1> HIDE DEF whole
<1>13. QED
  BY <1>8, <1>9, <1>10, <1>11, <1>12 DEF size, crc, body
-----------------------------------------------------------------------------
(* What the parser has stored of the frame it is in, byte for byte.        *)

Stored(n) ==
  /\ frame[1] = Preamble1 /\ frame[2] = Preamble2
  /\ frame[3] = length /\ frame[4] = pgn[1] /\ frame[5] = pgn[2]
  /\ \A i \in 1 .. MaxData : i <= n => frame[5 + i] = data[i]

AfterPreamble1 == Len(frame) = 1 /\ frame[1] = Preamble1

AfterPreamble2 == Len(frame) = 2 /\ frame[1] = Preamble1 /\ frame[2] = Preamble2

InPgn ==
  /\ length >= 2 /\ data_count \in {0, 1}
  /\ Len(frame) = 3 + data_count
  /\ frame[1] = Preamble1 /\ frame[2] = Preamble2 /\ frame[3] = length
  /\ data_count = 1 => frame[4] = pgn[1]

InData ==
  /\ data_count < length - 2
  /\ Len(frame) = 5 + data_count
  /\ Stored(data_count)

BeforeCrc == length >= 2 /\ Len(frame) = 3 + length /\ Stored(length - 2)

HandedOut ==
  /\ state = "IDLE" /\ length >= 2
  /\ Len(frame) = 4 + length
  /\ Stored(length - 2)
  /\ crc_valid <=> frame[4 + length] = Checksum(Body(length, pgn, Payload))

FrameInv ==
  /\ state = "PREAMBLE" => AfterPreamble1
  /\ state = "LENGTH" => AfterPreamble2
  /\ state = "PGN" => InPgn
  /\ state = "DATA" => InData
  /\ state = "CRC" => BeforeCrc
  /\ ready => HandedOut

LEMMA PayloadIs ==
  ASSUME ParserTypeOK, length >= 2
  PROVE  /\ Payload \in Seq(Byte)
         /\ Len(Payload) = IF length - 2 <= MaxData THEN length - 2 ELSE MaxData
         /\ \A i \in 1 .. Len(Payload) : i \in 1 .. MaxData /\ Payload[i] = data[i]
<1> DEFINE n == IF length - 2 <= MaxData THEN length - 2 ELSE MaxData
<1>1. n \in Nat /\ n <= MaxData /\ MaxData \in Nat
  BY ByteFacts DEF ParserTypeOK
<1>2. data \in Seq(Byte) /\ Len(data) = MaxData
  BY <1>1 DEF ParserTypeOK
<1>3. Payload = SubSeq(data, 1, n)
  BY DEF Payload
<1> HIDE DEF n
<1>4. /\ SubSeq(data, 1, n) \in Seq(Byte) /\ Len(SubSeq(data, 1, n)) = n
      /\ \A i \in 1 .. n : SubSeq(data, 1, n)[i] = data[i]
  BY <1>1, <1>2, SMTT(30)
<1>5. QED
  BY <1>1, <1>3, <1>4 DEF n

LEMMA SlotIs ==
  ASSUME ParserTypeOK, NEW byte \in Byte
  PROVE  \A n \in Nat : n < MaxData =>
           LET filled == [data EXCEPT ![n + 1] = byte]
           IN  /\ filled \in [1 .. MaxData -> Byte]
               /\ filled[n + 1] = byte
               /\ \A i \in 1 .. MaxData : i # n + 1 => filled[i] = data[i]
BY ByteFacts DEF ParserTypeOK
-----------------------------------------------------------------------------
(* One step of the parser keeps the invariant: one lemma per state.        *)

LEMMA FlagsKeep ==
  ASSUME ParserTypeOK, Unready
  PROVE  ~ready' /\ ready' \in BOOLEAN /\ crc_valid' \in BOOLEAN
BY DEF ParserTypeOK, Unready

LEMMA IdleKeeps ==
  ASSUME ParserTypeOK, NEW byte \in Byte, Feed(byte), FeedIdle(byte)
  PROVE  ParserTypeOK' /\ FrameInv'
<1>1. /\ state' \in {"PREAMBLE", "IDLE"}
      /\ ~ready' /\ ready' \in BOOLEAN /\ crc_valid' \in BOOLEAN
  BY FlagsKeep DEF FeedIdle
<1>2. CASE state' = "PREAMBLE"
  <2>1. byte = Preamble1 /\ frame' = <<byte>>
    BY <1>2 DEF Feed, FeedIdle
  <2>2. QED
    BY <1>1, <1>2, <2>1
       DEF FeedIdle, ParserTypeOK, FrameInv, AfterPreamble1
<1>3. CASE state' = "IDLE"
  <2>1. frame' = <<>>
    BY <1>1, <1>3 DEF Feed
  <2>2. QED
    BY <1>1, <1>3, <2>1 DEF FeedIdle, ParserTypeOK, FrameInv
<1>4. QED
  BY <1>1, <1>2, <1>3

LEMMA PreambleKeeps ==
  ASSUME ParserTypeOK, FrameInv, NEW byte \in Byte, Feed(byte), FeedPreamble(byte)
  PROVE  ParserTypeOK' /\ FrameInv'
<1>1. /\ state' \in {"LENGTH", "PREAMBLE", "IDLE"}
      /\ ~ready' /\ ready' \in BOOLEAN /\ crc_valid' \in BOOLEAN
  BY FlagsKeep DEF FeedPreamble
<1>2. CASE state' = "LENGTH"
  <2>1. byte = Preamble2 /\ frame' = Append(frame, byte)
    BY <1>2 DEF Feed, FeedPreamble
  <2>2. frame \in Seq(Byte) /\ AfterPreamble1
    BY DEF FeedPreamble, FrameInv, ParserTypeOK
  <2>3. frame' \in Seq(Byte) /\ AfterPreamble2'
    <3>1. /\ frame' \in Seq(Byte) /\ Len(frame') = Len(frame) + 1
          /\ \A i \in 1 .. Len(frame) : frame'[i] = frame[i]
          /\ frame'[Len(frame) + 1] = byte
      BY <2>1, <2>2, AppendIs
    <3>2. QED
      BY <2>1, <2>2, <3>1 DEF AfterPreamble1, AfterPreamble2
  <2>4. QED
    BY <1>1, <1>2, <2>3 DEF FeedPreamble, ParserTypeOK, FrameInv
<1>3. CASE state' = "PREAMBLE"
  <2>1. byte = Preamble1 /\ frame' = <<byte>>
    BY <1>3 DEF Feed, FeedPreamble
  <2>2. QED
    BY <1>1, <1>3, <2>1
       DEF FeedPreamble, ParserTypeOK, FrameInv, AfterPreamble1
<1>4. CASE state' = "IDLE"
  <2>1. frame' = <<>>
    BY <1>1, <1>4 DEF Feed
  <2>2. QED
    BY <1>1, <1>4, <2>1 DEF FeedPreamble, ParserTypeOK, FrameInv
<1>5. QED
  BY <1>1, <1>2, <1>3, <1>4

LEMMA LengthKeeps ==
  ASSUME ParserTypeOK, FrameInv, NEW byte \in Byte, Feed(byte), FeedLength(byte)
  PROVE  ParserTypeOK' /\ FrameInv'
<1>1. /\ state' \in {"PGN", "IDLE"} /\ length' = byte
      /\ ~ready' /\ ready' \in BOOLEAN /\ crc_valid' \in BOOLEAN
  BY FlagsKeep DEF FeedLength
<1>2. CASE state' = "PGN"
  <2>1. /\ byte >= 2 /\ data_count' = 0 /\ pgn' = <<0, 0>>
        /\ frame' = Append(frame, byte)
    BY <1>2, ByteFacts DEF Feed, FeedLength
  <2>2. frame \in Seq(Byte) /\ AfterPreamble2
    BY DEF FeedLength, FrameInv, ParserTypeOK
  <2>3. frame' \in Seq(Byte) /\ InPgn'
    <3>1. /\ frame' \in Seq(Byte) /\ Len(frame') = Len(frame) + 1
          /\ \A i \in 1 .. Len(frame) : frame'[i] = frame[i]
          /\ frame'[Len(frame) + 1] = byte
      BY <2>1, <2>2, AppendIs
    <3>2. Len(frame) = 2
      BY <2>2 DEF AfterPreamble2
    <3>3. QED
      BY <1>1, <2>1, <2>2, <3>1, <3>2 DEF AfterPreamble2, InPgn
  <2>4. 0 \in Byte
    BY ByteFacts
  <2>5. QED
    BY <1>1, <1>2, <2>1, <2>3, <2>4
       DEF FeedLength, ParserTypeOK, FrameInv
<1>3. CASE state' = "IDLE"
  <2>1. frame' = <<>> /\ UNCHANGED <<pgn, data_count>>
    BY <1>1, <1>3 DEF Feed, FeedLength
  <2>2. QED
    BY <1>1, <1>3, <2>1 DEF FeedLength, ParserTypeOK, FrameInv
<1>4. QED
  BY <1>1, <1>2, <1>3

LEMMA PgnKeeps ==
  ASSUME ParserTypeOK, FrameInv, NEW byte \in Byte, Feed(byte), FeedPgn(byte)
  PROVE  ParserTypeOK' /\ FrameInv'
<1>1. /\ state = "PGN" /\ InPgn /\ state' \in {"PGN", "CRC", "DATA"}
      /\ UNCHANGED <<length, data>>
      /\ ~ready' /\ ready' \in BOOLEAN /\ crc_valid' \in BOOLEAN
  BY FlagsKeep DEF FeedPgn, FrameInv
<1>2. frame' = Append(frame, byte)
  BY <1>1 DEF Feed
<1>3. frame \in Seq(Byte) /\ length \in Nat /\ MaxData \in Nat
  BY ByteFacts DEF ParserTypeOK
<1>4. /\ frame' \in Seq(Byte) /\ Len(frame') = Len(frame) + 1
      /\ \A i \in 1 .. Len(frame) : frame'[i] = frame[i]
      /\ frame'[Len(frame) + 1] = byte
  BY <1>2, <1>3, AppendIs
<1>5. CASE data_count = 0
  <2>1. state' = "PGN" /\ pgn' = <<byte, 0>> /\ data_count' = 1
    BY <1>1, <1>5 DEF FeedPgn
  <2>2. InPgn'
    BY <1>1, <1>3, <1>4, <1>5, <2>1 DEF InPgn
  <2>3. 0 \in Byte /\ 1 \in Byte
    BY ByteFacts
  <2>4. QED
    BY <1>1, <1>4, <2>1, <2>2, <2>3 DEF ParserTypeOK, FrameInv
<1>6. CASE data_count # 0
  <2>1. data_count = 1 /\ pgn' = <<pgn[1], byte>>
    BY <1>1, <1>6 DEF FeedPgn, InPgn
  <2>2. Len(frame') = 5 /\ Stored(0)'
    BY <1>1, <1>3, <1>4, <2>1 DEF InPgn, Stored
  <2>3. 0 \in Byte /\ 2 \in Byte /\ pgn' \in Byte \X Byte
    BY <2>1, ByteFacts DEF ParserTypeOK
  <2>4. CASE length = 2
    <3>1. state' = "CRC" /\ data_count' = 2
      BY <1>6, <2>4 DEF FeedPgn
    <3>2. BeforeCrc'
      BY <1>1, <1>3, <2>2, <2>4 DEF BeforeCrc, Stored
    <3>3. QED
      BY <1>1, <1>4, <2>3, <3>1, <3>2 DEF ParserTypeOK, FrameInv
  <2>5. CASE length # 2
    <3>1. state' = "DATA" /\ data_count' = 0
      BY <1>6, <2>5 DEF FeedPgn
    <3>2. InData'
      BY <1>1, <1>3, <2>2, <2>5, <3>1 DEF InData, InPgn
    <3>3. QED
      BY <1>1, <1>4, <2>3, <3>1, <3>2 DEF ParserTypeOK, FrameInv
  <2>6. QED
    BY <2>4, <2>5
<1>7. QED
  BY <1>5, <1>6

LEMMA DataKeeps ==
  ASSUME ParserTypeOK, FrameInv, NEW byte \in Byte, Feed(byte), FeedData(byte)
  PROVE  ParserTypeOK' /\ FrameInv'
<1>1. /\ state = "DATA" /\ InData /\ state' \in {"CRC", "DATA"}
      /\ UNCHANGED <<length, pgn>>
      /\ data_count' = data_count + 1
      /\ ~ready' /\ ready' \in BOOLEAN /\ crc_valid' \in BOOLEAN
  BY FlagsKeep DEF FeedData, FrameInv
<1>2. frame' = Append(frame, byte)
  BY <1>1 DEF Feed
<1>3. /\ frame \in Seq(Byte) /\ length \in Nat /\ MaxData \in Nat
      /\ data_count \in Nat /\ length \in Byte /\ length <= MaxByte
  BY ByteFacts DEF ParserTypeOK
<1>4. /\ frame' \in Seq(Byte) /\ Len(frame') = Len(frame) + 1
      /\ \A i \in 1 .. Len(frame) : frame'[i] = frame[i]
      /\ frame'[Len(frame) + 1] = byte
  BY <1>2, <1>3, AppendIs
<1>5. Len(frame) = 5 + data_count /\ data_count + 1 <= length - 2
  BY <1>1, <1>3 DEF InData
<1>6. data_count' \in Byte
  BY <1>1, <1>3, <1>5, ByteFacts
<1>7. /\ data' \in [1 .. MaxData -> Byte]
      /\ data_count < MaxData => data'[data_count + 1] = byte
      /\ \A i \in 1 .. MaxData : i # data_count + 1 => data'[i] = data[i]
  <2>1. CASE data_count < MaxData
    <3>1. data' = [data EXCEPT ![data_count + 1] = byte]
      BY <2>1 DEF FeedData
    <3>2. QED
      BY <1>3, <2>1, <3>1, SlotIs
  <2>2. CASE ~(data_count < MaxData)
    <3>1. data' = data
      BY <2>2 DEF FeedData
    <3>2. QED
      BY <2>2, <3>1 DEF ParserTypeOK
  <2>3. QED
    BY <2>1, <2>2
<1>8. Stored(data_count)'
  <2>1. ASSUME NEW i \in 1 .. MaxData, i <= data_count + 1
        PROVE  frame'[5 + i] = data'[i]
    <3>1. CASE i = data_count + 1
      <4>1. data_count < MaxData /\ 5 + i = Len(frame) + 1
        BY <1>3, <1>5, <3>1
      <4>2. QED
        BY <1>4, <1>7, <3>1, <4>1
    <3>2. CASE i # data_count + 1
      <4>1. i <= data_count /\ 5 + i \in 1 .. Len(frame)
        BY <1>3, <1>5, <2>1, <3>2
      <4>2. frame[5 + i] = data[i]
        BY <1>1, <4>1 DEF InData, Stored
      <4>3. QED
        BY <1>4, <1>7, <3>2, <4>1, <4>2
    <3>3. QED
      BY <3>1, <3>2
  <2>2. \A i \in 1 .. 5 : frame'[i] = frame[i]
    BY <1>3, <1>4, <1>5
  <2>3. /\ frame'[1] = Preamble1 /\ frame'[2] = Preamble2 /\ frame'[3] = length
        /\ frame'[4] = pgn[1] /\ frame'[5] = pgn[2]
    BY <1>1, <2>2 DEF InData, Stored
  <2>4. QED
    BY <1>1, <1>3, <2>1, <2>3 DEF Stored
<1>9. CASE data_count + 1 >= length - 2
  <2>1. state' = "CRC" /\ data_count + 1 = length - 2
    BY <1>1, <1>3, <1>5, <1>9 DEF FeedData
  <2>2. BeforeCrc'
    BY <1>1, <1>3, <1>4, <1>5, <1>8, <2>1 DEF BeforeCrc, Stored
  <2>3. QED
    BY <1>1, <1>4, <1>6, <1>7, <2>1, <2>2 DEF ParserTypeOK, FrameInv
<1>10. CASE ~(data_count + 1 >= length - 2)
  <2>1. state' = "DATA"
    BY <1>1, <1>10 DEF FeedData
  <2>2. InData'
    BY <1>1, <1>3, <1>4, <1>5, <1>8, <1>10 DEF InData, Stored
  <2>3. QED
    BY <1>1, <1>4, <1>6, <1>7, <2>1, <2>2 DEF ParserTypeOK, FrameInv
<1>11. QED
  BY <1>9, <1>10

LEMMA CrcKeeps ==
  ASSUME ParserTypeOK, FrameInv, NEW byte \in Byte, Feed(byte), FeedCrc(byte)
  PROVE  ParserTypeOK' /\ FrameInv'
<1>1. /\ state = "CRC" /\ BeforeCrc /\ state' = "IDLE" /\ ready'
      /\ UNCHANGED <<length, pgn, data, data_count>>
      /\ crc_valid' = (byte = Checksum(Body(length, pgn, Payload)))
  BY DEF FeedCrc, FrameInv, Body
<1>2. frame' = Append(frame, byte)
  BY <1>1 DEF Feed
<1>3. frame \in Seq(Byte) /\ length \in Nat /\ MaxData \in Nat
  BY ByteFacts DEF ParserTypeOK
<1>4. /\ frame' \in Seq(Byte) /\ Len(frame') = Len(frame) + 1
      /\ \A i \in 1 .. Len(frame) : frame'[i] = frame[i]
      /\ frame'[Len(frame) + 1] = byte
  BY <1>2, <1>3, AppendIs
<1>5. Payload' = Payload
  BY <1>1 DEF Payload
<1>6. Len(frame') = 4 + length /\ frame'[4 + length] = byte
  <2>1. Len(frame) + 1 = 4 + length
    BY <1>1, <1>3 DEF BeforeCrc
  <2>2. QED
    BY <1>4, <2>1
<1>7. Stored(length - 2)'
  <2>1. \A i \in 1 .. 3 + length : frame'[i] = frame[i]
    BY <1>1, <1>4 DEF BeforeCrc
  <2>2. /\ frame'[1] = Preamble1 /\ frame'[2] = Preamble2 /\ frame'[3] = length
        /\ frame'[4] = pgn[1] /\ frame'[5] = pgn[2]
    BY <1>1, <1>3, <2>1 DEF BeforeCrc, Stored
  <2>3. ASSUME NEW i \in 1 .. MaxData, i <= length - 2
        PROVE  frame'[5 + i] = data[i]
    <3>1. 5 + i \in 1 .. 3 + length
      BY <1>3, <2>3
    <3>2. frame[5 + i] = data[i]
      BY <1>1, <2>3 DEF BeforeCrc, Stored
    <3>3. QED
      BY <2>1, <3>1, <3>2
  <2>4. QED
    BY <1>1, <2>2, <2>3 DEF Stored
<1>8. crc_valid' <=> frame'[4 + length] = Checksum(Body(length, pgn, Payload))
  BY <1>1, <1>6
<1>9. HandedOut'
  BY <1>1, <1>5, <1>6, <1>7, <1>8 DEF HandedOut, BeforeCrc
<1>10. crc_valid' \in BOOLEAN /\ ready' \in BOOLEAN
  BY <1>1 DEF FeedCrc
<1>11. QED
  BY <1>1, <1>4, <1>9, <1>10 DEF ParserTypeOK, FrameInv

LEMMA FeedKeeps ==
  ASSUME ParserTypeOK, FrameInv, NEW byte \in Byte, Feed(byte)
  PROVE  ParserTypeOK' /\ FrameInv'
<1>1. \/ FeedIdle(byte) \/ FeedPreamble(byte) \/ FeedLength(byte)
      \/ FeedPgn(byte) \/ FeedData(byte) \/ FeedCrc(byte)
  BY DEF Feed
<1>2. QED
  BY <1>1, IdleKeeps, PreambleKeeps, LengthKeeps, PgnKeeps, DataKeeps, CrcKeeps
-----------------------------------------------------------------------------
(* The frame handed out, seen as a frame of the encoder and the verifier.  *)

(* Two frames of the same shape are the same.                              *)
LEMMA SameFrame ==
  ASSUME NEW f \in Seq(Byte), NEW e \in Seq(Byte), NEW n \in Nat,
         Len(f) = 6 + n, Len(e) = 6 + n,
         f[1] = e[1], f[2] = e[2], f[3] = e[3], f[4] = e[4], f[5] = e[5],
         \A i \in 1 .. n : f[5 + i] = e[5 + i],
         f[6 + n] = e[6 + n]
  PROVE  f = e
<1>1. ASSUME NEW j \in 1 .. 6 + n PROVE f[j] = e[j]
  <2>1. CASE j \in {1, 2, 3, 4, 5}
    BY <2>1
  <2>2. CASE j = 6 + n
    BY <2>2
  <2>3. CASE j \notin {1, 2, 3, 4, 5} /\ j # 6 + n
    <3>1. j - 5 \in 1 .. n /\ 5 + (j - 5) = j
      BY <2>3
    <3>2. QED
      BY <3>1
  <2>4. QED
    BY <2>1, <2>2, <2>3
<1>2. QED
  BY <1>1

LEMMA HandedIsEncoded ==
  ASSUME ParserTypeOK, FrameInv, ready, length - 2 <= MaxData
  PROVE  /\ crc_valid <=> VerifyCrc(frame)
         /\ crc_valid => frame = EncodeFrame(pgn, Payload)
<1>1. /\ length >= 2 /\ Len(frame) = 4 + length /\ Stored(length - 2)
      /\ crc_valid <=> frame[4 + length] = Checksum(Body(length, pgn, Payload))
  BY DEF FrameInv, HandedOut
<1>2. /\ length \in Nat /\ MaxData \in Nat /\ length \in Byte
      /\ pgn \in Byte \X Byte /\ frame \in Seq(Byte)
  BY ByteFacts DEF ParserTypeOK
<1>3. /\ Payload \in Seq(Byte) /\ Len(Payload) = length - 2
      /\ \A i \in 1 .. length - 2 : Payload[i] = data[i] /\ i \in 1 .. MaxData
  BY <1>1, PayloadIs
<1>4. \A i \in 1 .. length - 2 : frame[5 + i] = Payload[i]
  BY <1>1, <1>2, <1>3 DEF Stored
<1>5. /\ frame[1] = Preamble1 /\ frame[2] = Preamble2 /\ frame[3] = length
      /\ frame[4] = pgn[1] /\ frame[5] = pgn[2]
  BY <1>1 DEF Stored
<1> DEFINE body == Body(length, pgn, Payload)
           inner == SubSeq(frame, 3, Len(frame) - 1)
<1>6. /\ body \in Seq(Byte) /\ Len(body) = 1 + length
      /\ body[1] = length /\ body[2] = pgn[1] /\ body[3] = pgn[2]
      /\ \A i \in 1 .. length - 2 : body[3 + i] = Payload[i]
  <2>1. 3 + (length - 2) = 1 + length
    BY <1>2
  <2>2. QED
    BY <1>2, <1>3, <2>1, BodyIs
<1> HIDE DEF body
<1>7. /\ inner \in Seq(Byte) /\ Len(inner) = 1 + length
      /\ \A i \in 1 .. 1 + length : inner[i] = frame[2 + i]
  <2>1. inner = SubSeq(frame, 3, 3 + length)
    BY <1>1, <1>2
  <2>2. SubSeq(frame, 3, 3 + length) \in Seq(Byte)
    BY <1>1, <1>2, SMTT(30)
  <2>3. /\ Len(SubSeq(frame, 3, 3 + length)) = 1 + length
        /\ \A i \in 1 .. 1 + length : SubSeq(frame, 3, 3 + length)[i] = frame[2 + i]
    BY <1>1, <1>2, SMTT(30)
  <2>4. QED
    BY <2>1, <2>2, <2>3
<1> HIDE DEF inner
<1>8. inner = body
  <2>1. ASSUME NEW j \in 1 .. 1 + length PROVE inner[j] = body[j]
    <3>1. CASE j \in {1, 2, 3}
      BY <1>2, <1>5, <1>6, <1>7, <3>1
    <3>2. CASE j \notin {1, 2, 3}
      <4>1. j - 3 \in 1 .. length - 2 /\ 5 + (j - 3) = 2 + j /\ 3 + (j - 3) = j
        BY <1>2, <3>2
      <4>2. QED
        BY <1>4, <1>6, <1>7, <4>1
    <3>3. QED
      BY <3>1, <3>2
  <2>2. QED
    BY <1>6, <1>7, <2>1
<1>9. crc_valid <=> VerifyCrc(frame)
  <2>1. Len(frame) >= 6 /\ Len(frame) = frame[3] + 4
    BY <1>1, <1>2, <1>5
  <2>2. Last(frame) = frame[4 + length]
    BY <1>1 DEF Last
  <2>3. VerifyCrc(frame) <=> frame[4 + length] = Checksum(inner)
    BY <1>5, <2>1, <2>2 DEF VerifyCrc, inner
  <2>4. QED
    BY <1>1, <1>8, <2>3 DEF body
<1>10. ASSUME crc_valid PROVE frame = EncodeFrame(pgn, Payload)
  <2> DEFINE n == Len(Payload)
             e == EncodeFrame(pgn, Payload)
  <2>1. /\ n \in Nat /\ 2 + n = length /\ n <= MaxData /\ 6 + n = 4 + length
        /\ 4 + (2 + n) = 6 + n
    BY <1>1, <1>2, <1>3
  <2>2. frame[4 + length] = Checksum(Body(length, pgn, Payload))
    BY <1>1, <1>10
  <2>3. Checksum(Body(2 + n, pgn, Payload)) \in Byte
    <3>1. 4 + length \in 1 .. Len(frame)
      BY <1>1, <1>2
    <3>2. QED
      BY <1>2, <2>1, <2>2, <3>1
  <2>4. /\ e \in Seq(Byte) /\ Len(e) = 4 + (2 + n)
        /\ e[1] = Preamble1 /\ e[2] = Preamble2 /\ e[3] = 2 + n
        /\ e[4] = pgn[1] /\ e[5] = pgn[2]
        /\ \A i \in 1 .. n : e[5 + i] = Payload[i]
        /\ e[4 + (2 + n)] = Checksum(Body(2 + n, pgn, Payload))
    BY <1>2, <1>3, <2>1, <2>3, EncodeIs
  <2> HIDE DEF e
  <2>5. \A i \in 1 .. n : frame[5 + i] = e[5 + i]
    BY <1>3, <1>4, <2>4
  <2>6. /\ Len(frame) = 6 + n /\ Len(e) = 6 + n
        /\ frame[1] = e[1] /\ frame[2] = e[2] /\ frame[3] = e[3]
        /\ frame[4] = e[4] /\ frame[5] = e[5]
    BY <1>1, <1>5, <2>1, <2>4
  <2>7. frame[6 + n] = e[6 + n]
    BY <2>1, <2>2, <2>4
  <2>8. frame \in Seq(Byte) /\ e \in Seq(Byte) /\ n \in Nat
    BY <1>2, <2>1, <2>4
  <2> HIDE DEF n
  <2>9. frame = e
    BY <2>5, <2>6, <2>7, <2>8, SameFrame
  <2>10. QED
    BY <2>9 DEF e
<1>11. QED
  BY <1>9, <1>10
-----------------------------------------------------------------------------
(* The parser and the sender.                                              *)

IInv == TypeOK /\ FrameInv

LEMMA EncodedIsBytes ==
  ASSUME NEW p \in Pgns, NEW payload \in Payloads
  PROVE  /\ p \in Byte \X Byte /\ payload \in Seq(Byte) /\ Len(payload) <= MaxData
         /\ Checksum(Body(2 + Len(payload), p, payload)) \in Byte
         /\ EncodeFrame(p, payload) \in Seq(Byte)
<1>1. p \in Byte \X Byte /\ payload \in Seq(Byte) /\ Len(payload) <= MaxData
  BY StreamAssumption
<1>2. 2 + Len(payload) \in Byte
  BY <1>1, ByteFacts
<1>3. Body(2 + Len(payload), p, payload) \in Seq(Byte)
  BY <1>1, <1>2, BodyIs
<1>4. Checksum(Body(2 + Len(payload), p, payload)) \in Byte
  BY <1>3, ChecksumIsByte
<1>5. EncodeFrame(p, payload) \in Seq(Byte)
  BY <1>1, <1>4, EncodeIs
<1>6. QED
  BY <1>1, <1>4, <1>5

LEMMA ParserSame ==
  ASSUME ParserTypeOK, FrameInv, UNCHANGED parserVars
  PROVE  ParserTypeOK' /\ FrameInv'
<1>1. Payload' = Payload
  BY DEF parserVars, Payload
<1>2. QED
  BY <1>1 DEF parserVars, ParserTypeOK, FrameInv, AfterPreamble1, AfterPreamble2,
              InPgn, InData, BeforeCrc, HandedOut, Stored

LEMMA EnoughIs == Enough \in Nat /\ Enough = MaxByte + 2 + 6 + MaxData /\ MaxData \in Nat
BY ByteFacts DEF Enough

LEMMA InitHolds ==
  ASSUME Init
  PROVE  IInv
<1> USE DEF Init, ParserInit
<1>1. ParserTypeOK
  <2>1. 0 \in Byte
    BY ByteFacts
  <2>2. length \in Byte /\ pgn \in Byte \X Byte /\ data_count \in Byte
    BY <2>1
  <2>3. data \in [1 .. MaxData -> Byte] /\ frame \in Seq(Byte)
    BY <2>1
  <2>4. crc_valid \in BOOLEAN /\ ready \in BOOLEAN
    OBVIOUS
  <2>5. QED
    BY <2>2, <2>3, <2>4 DEF ParserTypeOK
<1>2. FrameInv
  <2>1. ~ready
    OBVIOUS
  <2>2. QED
    BY <2>1 DEF FrameInv
<1>3. TypeOK
  <2>1. in_sync \in BOOLEAN /\ noisy \in BOOLEAN
    OBVIOUS
  <2>2. left \in Seq(Byte)
    OBVIOUS
  <2>3. quiet \in 0 .. Enough
    BY EnoughIs
  <2>4. QED
    BY <1>1, <2>1, <2>2, <2>3 DEF TypeOK
<1>4. QED
  BY <1>2, <1>3 DEF IInv

LEMMA StepHolds ==
  ASSUME IInv, [Next]_vars
  PROVE  IInv'
<1>1. ParserTypeOK /\ FrameInv /\ TypeOK
  BY DEF IInv, TypeOK
<1>2. CASE BeginFrame
  <2>1. ParserTypeOK' /\ FrameInv'
    BY <1>1, <1>2, ParserSame DEF BeginFrame
  <2>2. PICK p \in Pgns, payload \in Payloads :
          sent' = [pgn |-> p, payload |-> payload] /\ left' = EncodeFrame(p, payload)
    BY <1>2 DEF BeginFrame
  <2>3. left' \in Seq(Byte)
    BY <2>2, EncodedIsBytes
  <2>4. in_sync' \in BOOLEAN /\ noisy' \in BOOLEAN /\ quiet' \in 0 .. Enough
    BY <1>1, <1>2 DEF BeginFrame, TypeOK
  <2>5. QED
    BY <2>1, <2>2, <2>3, <2>4 DEF IInv, TypeOK
<1>3. CASE SendByte
  <2>1. Head(left) \in Byte /\ Tail(left) \in Seq(Byte)
    BY <1>1, <1>3 DEF SendByte, TypeOK
  <2>2. ParserTypeOK' /\ FrameInv'
    BY <1>1, <1>3, <2>1, FeedKeeps DEF SendByte
  <2>3. quiet' \in 0 .. Enough
    BY <1>1, <1>3, EnoughIs DEF SendByte, TypeOK
  <2>4. QED
    BY <1>1, <1>3, <2>1, <2>2, <2>3 DEF SendByte, IInv, TypeOK
<1>4. CASE LoseTail
  <2>1. ParserTypeOK' /\ FrameInv'
    BY <1>1, <1>4, ParserSame DEF LoseTail
  <2>2. left' \in Seq(Byte)
    BY <1>4 DEF LoseTail
  <2>3. in_sync' \in BOOLEAN /\ quiet' \in 0 .. Enough
    <3>1. in_sync' = FALSE /\ quiet' = 0 /\ 0 \in 0 .. Enough
      BY <1>4, EnoughIs DEF LoseTail
    <3>2. Enough' = Enough
      BY DEF Enough
    <3>3. QED
      BY <3>1, <3>2
  <2>4. QED
    BY <1>1, <1>4, <2>1, <2>2, <2>3 DEF LoseTail, IInv, TypeOK
<1>5. CASE ForeignByte
  <2>1. PICK byte \in Noise : Feed(byte)
    BY <1>5 DEF ForeignByte
  <2>2. ParserTypeOK' /\ FrameInv'
    BY <1>1, <2>1, FeedKeeps, StreamAssumption
  <2>3. quiet' \in 0 .. Enough
    BY <1>5, EnoughIs DEF ForeignByte
  <2>4. QED
    BY <1>1, <1>5, <2>2, <2>3 DEF ForeignByte, IInv, TypeOK
<1>6. CASE NoiseEnds
  <2>1. ParserTypeOK' /\ FrameInv'
    BY <1>1, <1>6, ParserSame DEF NoiseEnds
  <2>2. QED
    BY <1>1, <1>6, <2>1 DEF NoiseEnds, IInv, TypeOK
<1>7. CASE UNCHANGED vars
  <2>1. ParserTypeOK' /\ FrameInv'
    BY <1>1, <1>7, ParserSame DEF vars
  <2>2. QED
    BY <1>1, <1>7, <2>1 DEF vars, IInv, TypeOK
<1>8. QED
  BY <1>2, <1>3, <1>4, <1>5, <1>6, <1>7 DEF Next

LEMMA AlwaysIInv == Spec => []IInv
<1>1. Init => IInv
  BY InitHolds
<1>2. IInv /\ [Next]_vars => IInv'
  BY StepHolds
<1>3. QED
  BY <1>1, <1>2, PTL DEF Spec

(* Every variable of the parser and of the stream keeps its type: no byte  *)
(* is stored beyond the data buffer (aog_frame.c:122), for every size of   *)
(* it.                                                                     *)
THEOREM ParserTypeCorrect == Spec => []TypeOK
<1>1. IInv => TypeOK
  BY DEF IInv
<1>2. QED
  BY <1>1, AlwaysIInv, PTL

(* Whatever the stream carries, the parser accepts exactly the frames      *)
(* aog_frame_verify_crc accepts, of those whose data fits, and hands out   *)
(* what aog_frame_encode would have put into them.                         *)
THEOREM ParserAgreesWithVerifier == Spec => []AcceptedIsVerified
<1>1. IInv => AcceptedIsVerified
  BY HandedIsEncoded DEF IInv, TypeOK, AcceptedIsVerified
<1>2. QED
  BY <1>1, AlwaysIInv, PTL
-----------------------------------------------------------------------------
(* A frame that is in step with the parser.                                *)

Total == 6 + Len(sent.payload)
Heard == Total - Len(left)

(* Where the parser is when it has heard k bytes of the frame.             *)
InStep(k) ==
  /\ k = 0 => state \in {"IDLE", "PREAMBLE"}
  /\ k = 1 => state = "PREAMBLE"
  /\ k = 2 => state = "LENGTH"
  /\ k \in {3, 4} => state = "PGN"
  /\ k >= 5 /\ k < Total - 1 => state = "DATA"
  /\ k = Total - 1 => state = "CRC"
  /\ k = Total => state = "IDLE" /\ ready
  /\ k > 0 => Len(frame) = k /\ \A i \in 1 .. k : frame[i] = Current[i]

(* What is left of a frame is its end.                                     *)
LeftInv ==
  /\ Len(left) <= Total
  /\ \A i \in 1 .. Len(left) : left[i] = Current[Heard + i]

InSyncInv == in_sync => InStep(Heard)

LEMMA CurrentIs ==
  ASSUME TypeOK
  PROVE  LET n == Len(sent.payload)
         IN  /\ n \in Nat /\ 2 + n \in Byte /\ n <= MaxData /\ Total = 6 + n
             /\ sent.pgn \in Byte \X Byte /\ sent.payload \in Seq(Byte)
             /\ Current \in Seq(Byte) /\ Len(Current) = Total
             /\ Current[1] = Preamble1 /\ Current[2] = Preamble2
             /\ Current[3] = 2 + n
             /\ Current[4] = sent.pgn[1] /\ Current[5] = sent.pgn[2]
             /\ \A i \in 1 .. n : Current[5 + i] = sent.payload[i]
             /\ Current[6 + n] = Checksum(Body(2 + n, sent.pgn, sent.payload))
<1> DEFINE n == Len(sent.payload)
           p == sent.pgn
           payload == sent.payload
           e == EncodeFrame(p, payload)
<1>1. p \in Pgns /\ payload \in Payloads
  BY DEF TypeOK
<1>2. /\ p \in Byte \X Byte /\ payload \in Seq(Byte) /\ Len(payload) <= MaxData
      /\ Checksum(Body(2 + Len(payload), p, payload)) \in Byte
  BY <1>1, EncodedIsBytes
<1> HIDE DEF p, payload
<1>3. /\ e \in Seq(Byte) /\ Len(e) = 4 + (2 + Len(payload))
      /\ e[1] = Preamble1 /\ e[2] = Preamble2 /\ e[3] = 2 + Len(payload)
      /\ e[4] = p[1] /\ e[5] = p[2]
      /\ \A i \in 1 .. Len(payload) : e[5 + i] = payload[i]
      /\ e[4 + (2 + Len(payload))] = Checksum(Body(2 + Len(payload), p, payload))
  BY <1>2, EncodeIs
<1>4. /\ n = Len(payload) /\ Current = e /\ Total = 6 + Len(payload)
  BY DEF Current, Total, p, payload
<1> HIDE DEF e, n
<1>5. Len(payload) \in Nat /\ 4 + (2 + Len(payload)) = 6 + Len(payload)
  BY <1>2
<1>6. 2 + Len(payload) \in Byte
  BY <1>2, <1>5, ByteFacts
<1>7. QED
  BY <1>2, <1>3, <1>4, <1>5, <1>6 DEF n, p, payload

(* The parser hears the next byte of the frame it is in step with.         *)
LEMMA HearsNext ==
  ASSUME IInv, NEW k \in Nat, k < Total, InStep(k),
         Feed(Current[k + 1])
  PROVE  /\ k + 1 = 1 => state' = "PREAMBLE"
         /\ k + 1 = 2 => state' = "LENGTH"
         /\ k + 1 \in {3, 4} => state' = "PGN"
         /\ k + 1 >= 5 /\ k + 1 < Total - 1 => state' = "DATA"
         /\ k + 1 = Total - 1 => state' = "CRC"
         /\ k + 1 = Total => state' = "IDLE" /\ ready'
         /\ Len(frame') = k + 1
         /\ \A i \in 1 .. k + 1 : frame'[i] = Current[i]
<1> DEFINE byte == Current[k + 1]
           n == Len(sent.payload)
<1>1. TypeOK /\ ParserTypeOK /\ FrameInv /\ frame \in Seq(Byte)
  BY DEF IInv, TypeOK, ParserTypeOK
<1>2. /\ n \in Nat /\ 2 + n \in Byte /\ Total = 6 + n
      /\ Current \in Seq(Byte) /\ Len(Current) = 6 + n
      /\ Current[1] = Preamble1 /\ Current[2] = Preamble2 /\ Current[3] = 2 + n
  BY <1>1, CurrentIs
<1>3. byte \in Byte
  BY <1>2
<1>4. Feed(byte)
  OBVIOUS
<1> HIDE DEF byte, n
<1>5. ASSUME k > 0, frame' = Append(frame, byte)
      PROVE  /\ Len(frame') = k + 1
             /\ \A i \in 1 .. k + 1 : frame'[i] = Current[i]
  <2>1. /\ Len(frame') = Len(frame) + 1
        /\ \A i \in 1 .. Len(frame) : frame'[i] = frame[i]
        /\ frame'[Len(frame) + 1] = byte
    BY <1>1, <1>3, <1>5, AppendIs
  <2>2. Len(frame) = k /\ \A i \in 1 .. k : frame[i] = Current[i]
    BY <1>5 DEF InStep
  <2>3. QED
    BY <2>1, <2>2 DEF byte
<1>6. CASE k = 0
  <2>1. state \in {"IDLE", "PREAMBLE"} /\ byte = Preamble1
    BY <1>2, <1>6 DEF InStep, byte
  <2>2. FeedIdle(byte) \/ FeedPreamble(byte)
    BY <1>4, <2>1 DEF Feed, FeedLength, FeedPgn, FeedData, FeedCrc
  <2>3. state' = "PREAMBLE" /\ frame' = <<byte>>
    BY <1>4, <2>1, <2>2, ByteFacts DEF Feed, FeedIdle, FeedPreamble
  <2>4. QED
    BY <1>2, <1>6, <2>3 DEF byte
<1>7. CASE k = 1
  <2>1. state = "PREAMBLE" /\ byte = Preamble2
    BY <1>2, <1>7 DEF InStep, byte
  <2>2. FeedPreamble(byte)
    BY <1>4, <2>1 DEF Feed, FeedIdle, FeedLength, FeedPgn, FeedData, FeedCrc
  <2>3. state' = "LENGTH" /\ frame' = Append(frame, byte)
    BY <1>4, <2>1, <2>2, ByteFacts DEF Feed, FeedPreamble
  <2>4. QED
    BY <1>2, <1>5, <1>7, <2>3
<1>8. CASE k = 2
  <2>1. state = "LENGTH" /\ byte = 2 + n
    BY <1>2, <1>8 DEF InStep, byte
  <2>2. FeedLength(byte)
    BY <1>4, <2>1 DEF Feed, FeedIdle, FeedPreamble, FeedPgn, FeedData, FeedCrc
  <2>3. state' = "PGN" /\ frame' = Append(frame, byte)
    BY <1>2, <1>4, <2>1, <2>2 DEF Feed, FeedLength
  <2>4. QED
    BY <1>2, <1>5, <1>8, <2>3
<1>9. CASE k \in {3, 4}
  <2>1. state = "PGN" /\ InPgn /\ Len(frame) = k
    BY <1>1, <1>9 DEF InStep, FrameInv
  <2>2. data_count = k - 3 /\ length = 2 + n
    BY <1>2, <1>9, <2>1 DEF InPgn, InStep
  <2>3. FeedPgn(byte)
    BY <1>4, <2>1 DEF Feed, FeedIdle, FeedPreamble, FeedLength, FeedData, FeedCrc
  <2>4. CASE k = 3
    <3>1. state' = "PGN"
      BY <2>1, <2>2, <2>3, <2>4 DEF FeedPgn
    <3>2. frame' = Append(frame, byte)
      BY <1>4, <3>1 DEF Feed
    <3>3. QED
      BY <1>2, <1>5, <2>4, <3>1, <3>2
  <2>5. CASE k = 4 /\ n = 0
    <3>1. state' = "CRC"
      BY <2>2, <2>3, <2>5 DEF FeedPgn
    <3>2. frame' = Append(frame, byte)
      BY <1>4, <3>1 DEF Feed
    <3>3. QED
      BY <1>2, <1>5, <2>5, <3>1, <3>2
  <2>6. CASE k = 4 /\ n # 0
    <3>1. state' = "DATA"
      BY <1>2, <2>2, <2>3, <2>6 DEF FeedPgn
    <3>2. frame' = Append(frame, byte)
      BY <1>4, <3>1 DEF Feed
    <3>3. QED
      BY <1>2, <1>5, <2>6, <3>1, <3>2
  <2>7. QED
    BY <1>9, <2>4, <2>5, <2>6
<1>10. CASE k >= 5 /\ k < Total - 1
  <2>1. state = "DATA" /\ InData /\ Len(frame) = k
    BY <1>1, <1>10 DEF InStep, FrameInv
  <2>2. /\ data_count = k - 5 /\ length = 2 + n
    <3>1. frame[3] = 2 + n
      BY <1>2, <1>10 DEF InStep
    <3>2. data_count \in Nat
      BY <1>1, ByteFacts DEF ParserTypeOK
    <3>3. QED
      BY <2>1, <3>1, <3>2 DEF InData, Stored
  <2>3. FeedData(byte)
    BY <1>4, <2>1 DEF Feed, FeedIdle, FeedPreamble, FeedLength, FeedPgn, FeedCrc
  <2>4. state' = IF k - 4 >= n THEN "CRC" ELSE "DATA"
    BY <1>2, <2>2, <2>3 DEF FeedData
  <2>5. frame' = Append(frame, byte)
    BY <1>4, <2>4 DEF Feed
  <2>6. QED
    BY <1>2, <1>5, <1>10, <2>4, <2>5
<1>11. CASE k = Total - 1
  <2>1. state = "CRC"
    BY <1>11 DEF InStep
  <2>2. FeedCrc(byte)
    BY <1>4, <2>1 DEF Feed, FeedIdle, FeedPreamble, FeedLength, FeedPgn, FeedData
  <2>3. state' = "IDLE" /\ ready'
    BY <2>2 DEF FeedCrc
  <2>4. frame' = Append(frame, byte)
    BY <1>4, <2>3 DEF Feed
  <2>5. QED
    BY <1>2, <1>5, <1>11, <2>3, <2>4
<1>12. QED
  BY <1>2, <1>6, <1>7, <1>8, <1>9, <1>10, <1>11

LEMMA FrameBegins ==
  ASSUME BeginFrame
  PROVE  /\ Total' \in Nat /\ Total' >= 6
         /\ left' = Current' /\ Len(left') = Total' /\ Heard' = 0
<1>1. PICK p \in Pgns, payload \in Payloads :
        /\ sent' = [pgn |-> p, payload |-> payload]
        /\ left' = EncodeFrame(p, payload)
  BY DEF BeginFrame
<1>2. /\ p \in Byte \X Byte /\ payload \in Seq(Byte) /\ Len(payload) <= MaxData
      /\ Checksum(Body(2 + Len(payload), p, payload)) \in Byte
  BY EncodedIsBytes
<1>3. Len(left') = 4 + (2 + Len(payload))
  BY <1>1, <1>2, EncodeIs
<1>4. Len(payload) \in Nat /\ Total' = 6 + Len(payload)
  BY <1>1, <1>2 DEF Total
<1>5. PICK t \in Nat : t >= 6 /\ Total' = t /\ Len(left') = t
  BY <1>3, <1>4
<1>6. Heard' = Total' - Len(left')
  BY DEF Heard
<1>7. Heard' = 0
  BY <1>5, <1>6
<1>8. left' = Current'
  BY <1>1 DEF Current
<1>9. QED
  BY <1>5, <1>7, <1>8

LEMMA FrameGoesOn ==
  ASSUME TypeOK, LeftInv, SendByte
  PROVE  /\ Total' = Total /\ Current' = Current
         /\ left \in Seq(Byte) /\ Len(left) \in Nat \ {0} /\ Len(left') = Len(left) - 1
         /\ \A i \in 1 .. Len(left') : left'[i] = left[i + 1]
         /\ Heard \in Nat /\ Heard < Total /\ Heard' = Heard + 1
         /\ Heard + 1 \in Nat \ {0}
         /\ Feed(Current[Heard + 1])
<1>1. /\ left # <<>> /\ Feed(Head(left)) /\ left' = Tail(left)
      /\ Total' = Total /\ Current' = Current
  BY DEF SendByte, Total, Current
<1>2. /\ left \in Seq(Byte) /\ Len(left) \in Nat /\ Len(left) >= 1
      /\ Head(left) = left[1] /\ Len(left') = Len(left) - 1
      /\ \A i \in 1 .. Len(left') : left'[i] = left[i + 1]
  BY <1>1 DEF TypeOK
<1>3. Heard \in Nat /\ Heard < Total /\ Heard' = Heard + 1
  <2>1. Heard = Total - Len(left) /\ Heard' = Total' - Len(left')
    BY DEF Heard
  <2>2. Total \in Nat
    BY CurrentIs
  <2>3. PICK t \in Nat, l \in Nat :
          Total = t /\ Total' = t /\ Len(left) = l /\ Len(left') = l - 1
    BY <1>1, <1>2, <2>2
  <2>4. l >= 1 /\ l <= t
    BY <1>2, <2>3 DEF LeftInv
  <2>5. Heard = t - l /\ Heard' = t - (l - 1)
    BY <2>1, <2>3
  <2>6. QED
    BY <2>3, <2>4, <2>5
<1>4. Head(left) = Current[Heard + 1]
  BY <1>2 DEF LeftInv
<1>5. QED
  BY <1>1, <1>2, <1>3, <1>4

LEMMA StepLeft ==
  ASSUME TypeOK, LeftInv, [Next]_vars
  PROVE  LeftInv'
<1>1. CASE BeginFrame
  <2>1. /\ Total' \in Nat /\ left' = Current' /\ Len(left') = Total' /\ Heard' = 0
    BY <1>1, FrameBegins
  <2>2. QED
    BY <2>1 DEF LeftInv
<1>2. CASE SendByte
  <2>1. /\ Total' = Total /\ Current' = Current
        /\ Len(left) \in Nat \ {0} /\ Len(left') = Len(left) - 1
        /\ \A i \in 1 .. Len(left') : left'[i] = left[i + 1]
        /\ Heard \in Nat /\ Heard' = Heard + 1
    BY <1>2, FrameGoesOn
  <2>2. ASSUME NEW i \in 1 .. Len(left') PROVE left'[i] = Current'[Heard' + i]
    <3>1. i + 1 \in 1 .. Len(left) /\ Heard + (i + 1) = Heard' + i
      BY <2>1
    <3>2. QED
      BY <2>1, <3>1 DEF LeftInv
  <2>3. Len(left') <= Total'
    <3>1. Total \in Nat
      BY CurrentIs
    <3>2. QED
      BY <2>1, <3>1 DEF LeftInv
  <2>4. QED
    BY <2>2, <2>3 DEF LeftInv
<1>3. CASE LoseTail
  <2>1. left' = <<>> /\ Total' = Total /\ Total \in Nat /\ Total >= 6
    BY <1>3, CurrentIs DEF LoseTail, Total
  <2>2. QED
    BY <2>1 DEF LeftInv
<1>4. ASSUME UNCHANGED <<sent, left>>
      PROVE  LeftInv'
  BY <1>4 DEF LeftInv, Heard, Total, Current
<1>5. CASE ForeignByte
  BY <1>4, <1>5 DEF ForeignByte
<1>6. CASE NoiseEnds
  BY <1>4, <1>6 DEF NoiseEnds
<1>7. CASE UNCHANGED vars
  BY <1>4, <1>7 DEF vars
<1>8. QED
  BY <1>1, <1>2, <1>3, <1>5, <1>6, <1>7 DEF Next

LEMMA StepInSync ==
  ASSUME IInv, LeftInv, InSyncInv, [Next]_vars
  PROVE  InSyncInv'
<1>1. TypeOK
  BY DEF IInv
<1>2. CASE BeginFrame
  <2>1. SUFFICES ASSUME in_sync' PROVE InStep(Heard)'
    BY DEF InSyncInv
  <2>2. state' \in {"IDLE", "PREAMBLE"}
    BY <1>2, <2>1 DEF BeginFrame, parserVars
  <2>3. Total' \in Nat /\ Total' >= 6 /\ Heard' = 0
    BY <1>2, FrameBegins
  <2>4. QED
    BY <2>2, <2>3 DEF InStep
<1>3. CASE SendByte
  <2>1. SUFFICES ASSUME in_sync' PROVE InStep(Heard)'
    BY DEF InSyncInv
  <2>2. /\ Total' = Total /\ Current' = Current
        /\ Heard \in Nat /\ Heard < Total /\ Heard' = Heard + 1 /\ Heard + 1 # 0
        /\ Feed(Current[Heard + 1])
    BY <1>1, <1>3, FrameGoesOn
  <2>3. InStep(Heard)
    BY <1>3, <2>1 DEF SendByte, InSyncInv
  <2>4. QED
    BY <2>2, <2>3, HearsNext DEF InStep
<1>4. CASE LoseTail
  BY <1>4 DEF LoseTail, InSyncInv
<1>5. CASE ForeignByte
  BY <1>5 DEF ForeignByte, InSyncInv
<1>6. ASSUME UNCHANGED <<parserVars, sent, left, in_sync>>
      PROVE  InSyncInv'
  BY <1>6 DEF parserVars, InSyncInv, InStep, Heard, Total, Current
<1>7. CASE NoiseEnds
  BY <1>6, <1>7 DEF NoiseEnds
<1>8. CASE UNCHANGED vars
  BY <1>6, <1>8 DEF vars
<1>9. QED
  BY <1>2, <1>3, <1>4, <1>5, <1>7, <1>8 DEF Next

(* A frame heard to its end is handed out as it was sent.                  *)
LEMMA HeardIsDelivered ==
  ASSUME IInv, InSyncInv, in_sync, left = <<>>
  PROVE  Delivered
<1> DEFINE n == Len(sent.payload)
<1>1. TypeOK /\ ParserTypeOK /\ FrameInv
  BY DEF IInv, TypeOK
<1>2. /\ n \in Nat /\ n <= MaxData /\ Total = 6 + n
      /\ sent.pgn \in Byte \X Byte /\ sent.payload \in Seq(Byte)
      /\ Current[3] = 2 + n
      /\ Current[4] = sent.pgn[1] /\ Current[5] = sent.pgn[2]
      /\ \A i \in 1 .. n : Current[5 + i] = sent.payload[i]
      /\ Current[6 + n] = Checksum(Body(2 + n, sent.pgn, sent.payload))
  BY <1>1, CurrentIs
<1>3. n = Len(sent.payload)
  OBVIOUS
<1> HIDE DEF n
<1>4. Heard = Total
  BY <1>2 DEF Heard
<1>5. /\ ready /\ Len(frame) = 6 + n
      /\ \A i \in 1 .. 6 + n : frame[i] = Current[i]
  BY <1>2, <1>4 DEF InSyncInv, InStep
<1>6. /\ Stored(length - 2) /\ length >= 2
      /\ crc_valid <=> frame[4 + length] = Checksum(Body(length, pgn, Payload))
  BY <1>1, <1>5 DEF FrameInv, HandedOut
<1>7. length = 2 + n
  BY <1>2, <1>5, <1>6 DEF Stored
<1>8. pgn = sent.pgn
  <2>1. pgn[1] = sent.pgn[1] /\ pgn[2] = sent.pgn[2]
    BY <1>2, <1>5, <1>6 DEF Stored
  <2>2. pgn = <<pgn[1], pgn[2]>> /\ sent.pgn = <<sent.pgn[1], sent.pgn[2]>>
    BY <1>1, <1>2, PairIsSequence DEF ParserTypeOK
  <2>3. QED
    BY <2>1, <2>2
<1>9. Payload = sent.payload
  <2>1. /\ Payload \in Seq(Byte) /\ Len(Payload) = n
        /\ \A i \in 1 .. n : i \in 1 .. MaxData /\ Payload[i] = data[i]
    <3>1. length - 2 = n
      BY <1>2, <1>7
    <3>2. QED
      BY <1>1, <1>2, <1>6, <3>1, PayloadIs
  <2>2. ASSUME NEW i \in 1 .. n PROVE Payload[i] = sent.payload[i]
    <3>1. frame[5 + i] = data[i]
      BY <1>2, <1>6, <1>7, <2>1 DEF Stored
    <3>2. 5 + i \in 1 .. 6 + n
      BY <1>2
    <3>3. QED
      BY <1>2, <1>5, <2>1, <3>1, <3>2
  <2>3. Len(sent.payload) = n /\ sent.payload \in Seq(Byte)
    BY <1>2, <1>3
  <2>4. Len(Payload) = Len(sent.payload) /\ \A i \in 1 .. Len(Payload) : Payload[i] = sent.payload[i]
    BY <2>1, <2>2, <2>3
  <2>5. QED
    BY <2>1, <2>3, <2>4, SeqEqual
<1>10. crc_valid
  <2>1. 4 + length = 6 + n /\ 6 + n \in 1 .. 6 + n
    BY <1>2, <1>7
  <2>2. QED
    BY <1>2, <1>5, <1>6, <1>7, <1>8, <1>9, <2>1
<1>11. QED
  BY <1>3, <1>5, <1>7, <1>8, <1>9, <1>10 DEF Delivered

StreamInv == IInv /\ LeftInv /\ InSyncInv

LEMMA AlwaysStreamInv == Spec => []StreamInv
<1>1. Init => StreamInv
  <2>1. SUFFICES ASSUME Init PROVE StreamInv
    OBVIOUS
  <2>2. IInv
    BY <2>1, InitHolds
  <2>3. left = <<>> /\ Total \in Nat /\ Total >= 6 /\ ~in_sync
    BY <2>1, <2>2, CurrentIs DEF Init, IInv
  <2>4. QED
    BY <2>2, <2>3 DEF StreamInv, LeftInv, InSyncInv
<1>2. StreamInv /\ [Next]_vars => StreamInv'
  BY StepHolds, StepLeft, StepInSync DEF StreamInv, IInv
<1>3. QED
  BY <1>1, <1>2, PTL DEF Spec

(* A frame that begins at a parser in no frame and loses no byte is handed *)
(* out with its last byte, as it was sent (aog_frame.c:141-147), whatever  *)
(* the parser holds of earlier frames and whatever the frame's size.       *)
THEOREM InSyncDelivered == Spec => []InSyncIsDelivered
<1>1. StreamInv => InSyncIsDelivered
  BY HeardIsDelivered DEF StreamInv, InSyncIsDelivered
<1>2. QED
  BY <1>1, AlwaysStreamInv, PTL
-----------------------------------------------------------------------------
(* A parser that is out of step.                                           *)

InFrame == state \in {"PGN", "DATA", "CRC"}

(* The bytes the frame in progress still takes, at most.                   *)
ToGo ==
  CASE state = "LENGTH" -> MaxByte + 2
    [] state = "PGN" -> length + 1 - data_count
    [] state = "DATA" -> length - 1 - data_count
    [] state = "CRC" -> 1
    [] OTHER -> 0

(* The parser is in no frame, or in one that ends with the sender's.       *)
OnBeat ==
  \/ state \in {"IDLE", "PREAMBLE"}
  \/ state = "LENGTH" /\ Len(left) = Total - 2
  \/ InFrame /\ Len(left) = ToGo

PreambleHeard ==
  state = "PREAMBLE" /\ left # <<>> /\ Heard > 0 => Current[Heard] = Preamble1

BeatInv ==
  /\ PreambleHeard
  /\ OnBeat \/ quiet + ToGo <= MaxByte + 2
  /\ quiet >= MaxByte + 2 + Heard => in_sync

ToGoBound ==
  /\ ToGo \in Nat /\ ToGo <= MaxByte + 2
  /\ state \notin {"IDLE", "PREAMBLE"} => ToGo >= 1

LEMMA ToGoIs == ParserTypeOK /\ FrameInv => ToGoBound
<1> SUFFICES ASSUME ParserTypeOK, FrameInv PROVE ToGoBound
  OBVIOUS
<1> USE DEF ToGoBound
<1>1. length \in Nat /\ length <= MaxByte /\ data_count \in Nat /\ MaxByte \in Nat
  BY ByteFacts DEF ParserTypeOK
<1>2. CASE state \in {"IDLE", "PREAMBLE"}
  BY <1>1, <1>2 DEF ToGo
<1>3. CASE state = "LENGTH"
  BY <1>1, <1>3 DEF ToGo
<1>4. CASE state = "PGN"
  BY <1>1, <1>4 DEF ToGo, FrameInv, InPgn
<1>5. CASE state = "DATA"
  BY <1>1, <1>5 DEF ToGo, FrameInv, InData
<1>6. CASE state = "CRC"
  BY <1>1, <1>6 DEF ToGo
<1>7. QED
  BY <1>2, <1>3, <1>4, <1>5, <1>6 DEF ParserTypeOK

(* Every byte brings the end of the frame in progress nearer.              *)
LEMMA FrameRunsOut ==
  ASSUME ParserTypeOK, FrameInv, NEW byte \in Byte, Feed(byte), InFrame
  PROVE  /\ ToGo' = ToGo - 1
         /\ ToGo >= 2 => InFrame'
         /\ ToGo = 1 => state' = "IDLE"
<1>1. length \in Nat /\ data_count \in Nat
  BY ByteFacts DEF ParserTypeOK
<1>2. CASE state = "PGN"
  <2>1. FeedPgn(byte)
    BY <1>2 DEF Feed, FeedIdle, FeedPreamble, FeedLength, FeedData, FeedCrc
  <2>2. ToGo = length + 1 - data_count /\ length >= 2 /\ data_count \in {0, 1}
    BY <1>2 DEF ToGo, FrameInv, InPgn
  <2>3. CASE data_count = 0
    <3>1. state' = "PGN" /\ data_count' = 1 /\ length' = length
      BY <1>2, <2>1, <2>3 DEF FeedPgn
    <3>2. QED
      BY <1>1, <2>2, <2>3, <3>1 DEF ToGo, InFrame
  <2>4. CASE data_count = 1 /\ length = 2
    <3>1. state' = "CRC"
      BY <2>1, <2>4 DEF FeedPgn
    <3>2. QED
      BY <2>2, <2>4, <3>1 DEF ToGo, InFrame
  <2>5. CASE data_count = 1 /\ length # 2
    <3>1. state' = "DATA" /\ data_count' = 0 /\ length' = length
      BY <2>1, <2>5 DEF FeedPgn
    <3>2. QED
      BY <1>1, <2>2, <2>5, <3>1 DEF ToGo, InFrame
  <2>6. QED
    BY <2>2, <2>3, <2>4, <2>5
<1>3. CASE state = "DATA"
  <2>1. FeedData(byte)
    BY <1>3 DEF Feed, FeedIdle, FeedPreamble, FeedLength, FeedPgn, FeedCrc
  <2>2. ToGo = length - 1 - data_count /\ data_count < length - 2
    BY <1>3 DEF ToGo, FrameInv, InData
  <2>3. /\ data_count' = data_count + 1 /\ length' = length
        /\ state' = IF data_count' >= length - 2 THEN "CRC" ELSE "DATA"
    BY <2>1 DEF FeedData
  <2>4. QED
    BY <1>1, <2>2, <2>3 DEF ToGo, InFrame
<1>4. CASE state = "CRC"
  <2>1. FeedCrc(byte)
    BY <1>4 DEF Feed, FeedIdle, FeedPreamble, FeedLength, FeedPgn, FeedData
  <2>2. state' = "IDLE"
    BY <2>1 DEF FeedCrc
  <2>3. QED
    BY <1>4, <2>2 DEF ToGo
<1>5. QED
  BY <1>2, <1>3, <1>4 DEF InFrame

LEMMA LengthRunsOut ==
  ASSUME ParserTypeOK, NEW byte \in Byte, Feed(byte), state = "LENGTH"
  PROVE  /\ byte < 2 => state' = "IDLE"
         /\ byte >= 2 => InFrame' /\ ToGo' = byte + 1
         /\ ToGo' < ToGo
<1>1. FeedLength(byte)
  BY DEF Feed, FeedIdle, FeedPreamble, FeedPgn, FeedData, FeedCrc
<1>2. byte \in Nat /\ byte <= MaxByte /\ MaxByte \in Nat
  BY ByteFacts
<1>3. ToGo = MaxByte + 2
  BY DEF ToGo
<1>4. CASE byte < 2
  <2>1. state' = "IDLE"
    BY <1>1, <1>4 DEF FeedLength
  <2>2. ToGo' = 0
    BY <2>1 DEF ToGo
  <2>3. QED
    BY <1>2, <1>3, <1>4, <2>1, <2>2
<1>5. CASE byte >= 2
  <2>1. state' = "PGN" /\ length' = byte /\ data_count' = 0
    BY <1>1, <1>2, <1>5 DEF FeedLength
  <2>2. ToGo' = byte + 1
    BY <1>2, <2>1 DEF ToGo
  <2>3. QED
    BY <1>2, <1>3, <1>5, <2>1, <2>2 DEF InFrame
<1>6. QED
  BY <1>2, <1>4, <1>5

(* Outside a frame only the first preamble byte leads to PREAMBLE, and     *)
(* only the second one, behind it, into a frame.                           *)
LEMMA PreambleIsHeard ==
  ASSUME ParserTypeOK, NEW byte \in Byte, Feed(byte)
  PROVE  /\ state' = "PREAMBLE" => byte = Preamble1
         /\ state = "IDLE" => state' \in {"IDLE", "PREAMBLE"}
         /\ state = "PREAMBLE" /\ byte # Preamble2 => state' \in {"IDLE", "PREAMBLE"}
         /\ state = "PREAMBLE" /\ byte = Preamble2 => state' = "LENGTH"
<1>1. CASE FeedIdle(byte)
  BY <1>1 DEF FeedIdle
<1>2. CASE FeedPreamble(byte)
  BY <1>2, ByteFacts DEF FeedPreamble
<1>3. CASE FeedLength(byte) \/ FeedPgn(byte) \/ FeedData(byte) \/ FeedCrc(byte)
  BY <1>3 DEF FeedLength, FeedPgn, FeedData, FeedCrc
<1>4. QED
  BY <1>1, <1>2, <1>3 DEF Feed

(* On clean frames the parser stays on the beat, and comes nearer to it.   *)
LEMMA BeatGoesOn ==
  ASSUME IInv, LeftInv, PreambleHeard, SendByte, Clean(Current)
  PROVE  /\ OnBeat => OnBeat'
         /\ ~OnBeat => OnBeat' \/ ToGo' < ToGo
<1> DEFINE byte == Current[Heard + 1]
           n == Len(sent.payload)
<1>1. TypeOK /\ ParserTypeOK /\ FrameInv
  BY DEF IInv, TypeOK
<1>2. /\ Total' = Total /\ left # <<>>
      /\ Len(left) \in Nat \ {0} /\ Len(left') = Len(left) - 1
      /\ Heard \in Nat /\ Heard < Total /\ Heard' = Heard + 1
      /\ Feed(byte)
  BY <1>1, FrameGoesOn DEF SendByte
<1>3. /\ n \in Nat /\ Total = 6 + n
      /\ Current \in Seq(Byte) /\ Len(Current) = 6 + n
      /\ Current[1] = Preamble1 /\ Current[2] = Preamble2 /\ Current[3] = 2 + n
  BY <1>1, CurrentIs
<1>4. byte \in Byte
  BY <1>2, <1>3
<1>5. Heard = 6 + n - Len(left)
  BY <1>3 DEF Heard
<1> HIDE DEF n
<1>6. CASE state = "IDLE"
  BY <1>1, <1>2, <1>4, <1>6, PreambleIsHeard DEF OnBeat
<1>7. CASE state = "PREAMBLE" /\ byte # Preamble2
  BY <1>1, <1>2, <1>4, <1>7, PreambleIsHeard DEF OnBeat
<1>8. CASE state = "PREAMBLE" /\ byte = Preamble2
  <2>1. Heard # 0
    BY <1>3, <1>8, ByteFacts
  <2>2. Current[Heard] = Preamble1
    BY <1>2, <1>8, <2>1 DEF PreambleHeard
  <2>3. Heard \notin 3 .. Len(Current) - 1
    BY <1>8, <2>2 DEF Clean
  <2>4. Heard # 2
    BY <1>3, <2>2, ByteFacts
  <2>5. Heard = 1
    BY <1>2, <1>3, <2>1, <2>3, <2>4
  <2>6. Len(left') = Total' - 2
    BY <1>2, <1>3, <1>5, <2>5
  <2>7. state' = "LENGTH"
    BY <1>1, <1>2, <1>4, <1>8, PreambleIsHeard
  <2>8. QED
    BY <1>8, <2>6, <2>7 DEF OnBeat
<1>9. CASE state = "LENGTH"
  <2>1. /\ byte >= 2 => InFrame' /\ ToGo' = byte + 1
        /\ ToGo' < ToGo
    BY <1>1, <1>2, <1>4, <1>9, LengthRunsOut
  <2>2. ASSUME OnBeat PROVE OnBeat'
    <3>1. Len(left) = Total - 2
      BY <1>9, <2>2 DEF OnBeat, InFrame
    <3>2. byte = 2 + n
      BY <1>2, <1>3, <1>5, <3>1
    <3>3. InFrame' /\ ToGo' = 3 + n
      BY <1>3, <2>1, <3>2
    <3>4. Len(left') = 3 + n
      BY <1>2, <1>3, <3>1
    <3>5. QED
      BY <3>3, <3>4 DEF OnBeat
  <2>3. QED
    BY <2>1, <2>2
<1>10. CASE InFrame
  <2>1. /\ ToGo' = ToGo - 1
        /\ ToGo >= 2 => InFrame'
        /\ ToGo = 1 => state' = "IDLE"
    BY <1>1, <1>2, <1>4, <1>10, FrameRunsOut
  <2>2. ToGo \in Nat /\ ToGo >= 1
    BY <1>1, <1>10, ToGoIs DEF InFrame, ToGoBound
  <2>3. ASSUME OnBeat PROVE OnBeat'
    <3>1. Len(left) = ToGo
      BY <1>10, <2>3 DEF OnBeat, InFrame
    <3>2. Len(left') = ToGo'
      BY <1>2, <2>1, <3>1
    <3>3. QED
      BY <2>1, <2>2, <3>2 DEF OnBeat
  <2>4. QED
    BY <2>1, <2>2, <2>3
<1>11. QED
  BY <1>1, <1>6, <1>7, <1>8, <1>9, <1>10 DEF ParserTypeOK, InFrame

LEMMA StepBeat ==
  ASSUME StreamInv, BeatInv, [Next]_vars
  PROVE  BeatInv'
<1>1. IInv /\ TypeOK /\ ParserTypeOK /\ FrameInv /\ LeftInv
  BY DEF StreamInv, IInv, TypeOK
<1>2. ParserTypeOK' /\ FrameInv' /\ TypeOK' /\ LeftInv'
  BY <1>1, StepHolds, StepLeft DEF IInv, TypeOK
<1>3. /\ MaxByte \in Nat /\ quiet \in Nat
      /\ ToGo \in Nat /\ ToGo <= MaxByte + 2
      /\ state \notin {"IDLE", "PREAMBLE"} => ToGo >= 1
      /\ ToGo' \in Nat /\ ToGo' <= MaxByte + 2
  <2>1. quiet \in Nat /\ MaxByte \in Nat
    BY <1>1, EnoughIs, ByteFacts DEF TypeOK
  <2>2. ToGoBound
    BY <1>1, ToGoIs
  <2>3. ToGoBound'
    BY <1>2, ToGoIs, PTL
  <2>4. QED
    BY <2>1, <2>2, <2>3 DEF ToGoBound
<1>4. Total \in Nat /\ Total >= 6
  BY <1>1, CurrentIs
<1>5. CASE BeginFrame
  <2>1. /\ left = <<>> /\ UNCHANGED <<parserVars, quiet>>
        /\ in_sync' = (state \in {"IDLE", "PREAMBLE"})
    BY <1>5 DEF BeginFrame
  <2>2. Heard' = 0
    BY <1>5, FrameBegins
  <2>3. OnBeat => state \in {"IDLE", "PREAMBLE"}
    BY <1>3, <1>4, <2>1 DEF OnBeat, InFrame
  <2>4. OnBeat => OnBeat'
    BY <2>1, <2>3 DEF OnBeat, parserVars
  <2>5. ToGo' = ToGo
    BY <2>1 DEF ToGo, parserVars
  <2>6. quiet >= MaxByte + 2 => OnBeat
    <3>1. ASSUME ~OnBeat PROVE quiet + ToGo <= MaxByte + 2 /\ ToGo >= 1
      BY <1>3, <3>1 DEF BeatInv, OnBeat
    <3>2. QED
      BY <1>3, <3>1
  <2>7. PreambleHeard'
    BY <2>2 DEF PreambleHeard
  <2>8. quiet' >= MaxByte + 2 + Heard' => in_sync'
    <3>1. ASSUME quiet' >= MaxByte + 2 + Heard' PROVE quiet >= MaxByte + 2
      BY <1>3, <2>1, <2>2, <3>1
    <3>2. QED
      BY <2>1, <2>3, <2>6, <3>1
  <2>9. OnBeat' \/ quiet' + ToGo' <= MaxByte + 2
    BY <2>1, <2>4, <2>5 DEF BeatInv
  <2>10. QED
    BY <2>7, <2>8, <2>9 DEF BeatInv
<1>6. CASE SendByte
  <2>1. /\ Current' = Current /\ Current[Heard + 1] \in Byte
        /\ Heard \in Nat /\ Heard' = Heard + 1
        /\ Feed(Current[Heard + 1]) /\ in_sync' = in_sync
    <3>1. /\ Current' = Current
          /\ Heard \in Nat /\ Heard < Total /\ Heard' = Heard + 1
          /\ Feed(Current[Heard + 1])
      BY <1>1, <1>6, FrameGoesOn
    <3>2. Current \in Seq(Byte) /\ Len(Current) = Total
      BY <1>1, CurrentIs
    <3>3. QED
      BY <1>4, <1>6, <3>1, <3>2 DEF SendByte
  <2>2. PreambleHeard'
    <3>1. state' = "PREAMBLE" => Current[Heard + 1] = Preamble1
      BY <1>1, <2>1, PreambleIsHeard
    <3>2. QED
      BY <2>1, <3>1 DEF PreambleHeard
  <2>3. CASE ~Clean(Current)
    <3>1. quiet' = 0
      BY <1>6, <2>3 DEF SendByte
    <3>2. quiet' + ToGo' <= MaxByte + 2 /\ ~(quiet' >= MaxByte + 2 + Heard')
      <4>1. PICK h \in Nat, k \in Nat :
              h <= MaxByte + 2 /\ ToGo' = h /\ Heard' = k
        BY <1>3, <2>1
      <4>2. 0 + h <= MaxByte + 2 /\ ~(0 >= MaxByte + 2 + k)
        BY <1>3, <4>1
      <4>3. QED
        BY <3>1, <4>1, <4>2
    <3>3. QED
      BY <2>2, <3>2 DEF BeatInv
  <2>4. CASE Clean(Current)
    <3>1. quiet' \in Nat /\ quiet' <= quiet + 1
      <4>1. CASE quiet < Enough
        BY <1>3, <1>6, <2>4, <4>1 DEF SendByte
      <4>2. CASE ~(quiet < Enough)
        BY <1>3, <1>6, <2>4, <4>2 DEF SendByte
      <4>3. QED
        BY <4>1, <4>2
    <3>2. /\ OnBeat => OnBeat'
          /\ ~OnBeat => OnBeat' \/ ToGo' < ToGo
      BY <1>1, <1>6, <2>4, BeatGoesOn DEF BeatInv
    <3>3. OnBeat' \/ quiet' + ToGo' <= MaxByte + 2
      <4>1. ASSUME quiet + ToGo <= MaxByte + 2, ToGo' < ToGo
            PROVE  quiet' + ToGo' <= MaxByte + 2
        <5>1. PICK g \in Nat, h \in Nat, q \in Nat :
                ToGo = g /\ ToGo' = h /\ quiet' = q
          BY <1>3, <3>1
        <5>2. q + h <= MaxByte + 2
          BY <1>3, <3>1, <4>1, <5>1
        <5>3. QED
          BY <5>1, <5>2
      <4>2. QED
        BY <3>2, <4>1 DEF BeatInv
    <3>4. quiet' >= MaxByte + 2 + Heard' => in_sync'
      <4>1. ASSUME quiet' >= MaxByte + 2 + Heard' PROVE quiet >= MaxByte + 2 + Heard
        BY <1>3, <2>1, <3>1, <4>1
      <4>2. QED
        BY <2>1, <4>1 DEF BeatInv
    <3>5. QED
      BY <2>2, <3>3, <3>4 DEF BeatInv
  <2>5. QED
    BY <2>3, <2>4
<1>7. CASE LoseTail \/ ForeignByte
  <2>1. left' = <<>> /\ quiet' = 0 /\ Total' = Total
    BY <1>7 DEF LoseTail, ForeignByte, Total
  <2>2. Heard' = Total
    BY <1>4, <2>1 DEF Heard
  <2>3. quiet' + ToGo' <= MaxByte + 2 /\ ~(quiet' >= MaxByte + 2 + Heard')
    <3>1. PICK h \in Nat, k \in Nat :
            h <= MaxByte + 2 /\ ToGo' = h /\ Heard' = k
      BY <1>3, <1>4, <2>2
    <3>2. 0 + h <= MaxByte + 2 /\ ~(0 >= MaxByte + 2 + k)
      BY <1>3, <3>1
    <3>3. QED
      BY <2>1, <3>1, <3>2
  <2>4. PreambleHeard'
    BY <2>1 DEF PreambleHeard
  <2>5. QED
    BY <2>3, <2>4 DEF BeatInv
<1>8. ASSUME UNCHANGED <<parserVars, sent, left, in_sync, quiet>>
      PROVE  BeatInv'
  <2>1. UNCHANGED <<Heard, Total, Current, ToGo>>
    BY <1>8 DEF Heard, Total, Current, ToGo, parserVars
  <2>2. QED
    BY <1>8, <2>1 DEF BeatInv, PreambleHeard, OnBeat, InFrame, parserVars
<1>9. CASE NoiseEnds
  BY <1>8, <1>9 DEF NoiseEnds
<1>10. CASE UNCHANGED vars
  BY <1>8, <1>10 DEF vars
<1>11. QED
  BY <1>5, <1>6, <1>7, <1>9, <1>10 DEF Next

(* However the stream was disturbed, after the bytes of clean frames a     *)
(* false frame can swallow at most, its length byte and what the largest   *)
(* length says, and those of one frame more, every frame is handed out     *)
(* with its last byte (aog_frame.c:79-131), for every size of byte and     *)
(* data, every preamble and every frame.                                   *)
THEOREM RecoveryIsBounded == Spec => []RecoversInTime
<1>1. Init => BeatInv
  <2>1. SUFFICES ASSUME Init PROVE BeatInv
    OBVIOUS
  <2>2. left = <<>> /\ quiet = 0 /\ state = "IDLE"
    BY <2>1 DEF Init, ParserInit
  <2>3. Total \in Nat /\ MaxByte \in Nat
    BY <2>1, InitHolds, CurrentIs, ByteFacts DEF IInv
  <2>4. Heard = Total
    BY <2>2, <2>3 DEF Heard
  <2>5. QED
    BY <2>2, <2>3, <2>4 DEF BeatInv, PreambleHeard, OnBeat
<1>2. StreamInv /\ BeatInv /\ [Next]_vars => BeatInv'
  BY StepBeat
<1>3. StreamInv /\ BeatInv => RecoversInTime
  <2>1. SUFFICES ASSUME StreamInv, BeatInv, quiet = Enough, left = <<>>
                 PROVE  Delivered
    BY DEF RecoversInTime
  <2>2. IInv /\ TypeOK /\ InSyncInv
    BY <2>1 DEF StreamInv, IInv
  <2>3. PICK n \in Nat : n <= MaxData /\ Total = 6 + n
    BY <2>2, CurrentIs
  <2>4. Heard = 6 + n
    BY <2>1, <2>3 DEF Heard
  <2>5. in_sync
    BY <2>1, <2>3, <2>4, EnoughIs, ByteFacts DEF BeatInv
  <2>6. QED
    BY <2>1, <2>2, <2>5, HeardIsDelivered
<1>4. QED
  BY <1>1, <1>2, <1>3, AlwaysStreamInv, PTL DEF Spec
=============================================================================
