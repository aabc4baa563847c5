-------------------------- MODULE NmeaStream_proofs --------------------------
(***************************************************************************)
(* The NMEA parser behind a line that loses characters, for every set of   *)
(* sentences, every buffer and every number of losses.                     *)
(***************************************************************************)
EXTENDS NmeaStream, SequenceFacts

(* Characters a receiver sends; no one of them ends a C string.            *)
Printable == Char \ {NUL}

LEMMA CharFacts ==
  /\ MaxLen \in Nat /\ MaxLen >= 6
  /\ NUL \in Char /\ NUL = "NUL"
  /\ {"CR", "LF", "$", "*"} \subseteq Printable
  /\ Code \in [Char -> Byte] /\ XorByte \in [Byte \X Byte -> Byte]
BY NmeaAssumption DEF Printable, NUL

(* The codes of a text, and of one character more.                         *)
LEMMA CodesAre ==
  ASSUME NEW text \in Seq(Char)
  PROVE  /\ Codes(text) \in Seq(Byte) /\ Len(Codes(text)) = Len(text)
         /\ \A c \in Char : Codes(Append(text, c)) = Append(Codes(text), Code[c])
<1>1. /\ Len(text) \in Nat /\ DOMAIN text = 1 .. Len(text)
      /\ \A i \in 1 .. Len(text) : Code[text[i]] \in Byte
  <2>1. /\ Len(text) \in Nat /\ DOMAIN text = 1 .. Len(text)
        /\ \A i \in 1 .. Len(text) : text[i] \in Char
    OBVIOUS
  <2>2. \A c \in Char : Code[c] \in Byte
    BY CharFacts
  <2>3. QED
    BY <2>1, <2>2
<1>2. Codes(text) \in Seq(Byte) /\ Len(Codes(text)) = Len(text)
  BY <1>1 DEF Codes
<1>3. ASSUME NEW c \in Char
      PROVE  Codes(Append(text, c)) = Append(Codes(text), Code[c])
  <2> DEFINE more == Append(text, c)
             end == Append(Codes(text), Code[c])
  <2>1. /\ more \in Seq(Char) /\ Len(more) = Len(text) + 1
        /\ \A i \in 1 .. Len(text) : more[i] = text[i]
        /\ more[Len(text) + 1] = c /\ DOMAIN more = 1 .. Len(text) + 1
    BY AppendIs
  <2>2. Code[c] \in Byte
    BY CharFacts
  <2>3. /\ end \in Seq(Byte) /\ Len(end) = Len(text) + 1
        /\ \A i \in 1 .. Len(text) : end[i] = Codes(text)[i]
        /\ end[Len(text) + 1] = Code[c] /\ DOMAIN end = 1 .. Len(text) + 1
    BY <1>2, <2>2, AppendIs
  <2> HIDE DEF more, end
  <2>4. ASSUME NEW i \in 1 .. Len(text) + 1 PROVE Code[more[i]] = end[i]
    <3>1. CASE i = Len(text) + 1
      BY <2>1, <2>3, <3>1
    <3>2. CASE i \in 1 .. Len(text)
      BY <1>1, <2>1, <2>3, <3>2 DEF Codes
    <3>3. QED
      BY <1>1, <3>1, <3>2
  <2>5. Codes(more) = [i \in 1 .. Len(text) + 1 |-> Code[more[i]]]
    BY <2>1 DEF Codes
  <2>6. end = [i \in 1 .. Len(text) + 1 |-> end[i]]
    BY <2>3
  <2>7. Codes(more) = end
    BY <2>4, <2>5, <2>6
  <2>8. QED
    BY <2>7 DEF more, end
<1>4. QED
  BY <1>2, <1>3

LEMMA ChecksumIsFold ==
  ASSUME NEW text
  PROVE  Checksum(text) = FoldBy(XorByte, 0, Codes(text))
BY DEF Checksum, FoldBy, FoldLeft, MapThenFoldSet

(* A checksum is a byte: in the code, by the type of the variable; here by *)
(* induction over the characters.                                          *)
LEMMA ChecksumIsByte ==
  ASSUME NEW text \in Seq(Char)
  PROVE  Checksum(text) \in Byte
<1>1. Foldable(Byte, Byte, XorByte, 0, Codes(text))
  <2>1. 0 \in Byte
    BY DEF Byte
  <2>2. QED
    BY <2>1, CharFacts, CodesAre DEF Foldable
<1>2. FoldBy(XorByte, 0, Codes(text)) \in Byte
  BY <1>1, FoldType
<1>3. QED
  BY <1>2, ChecksumIsFold

(* The sender's checksum goes from character to character as the parser's. *)
LEMMA XorFolds ==
  ASSUME NEW codes \in Seq(Byte), NEW base \in Byte
  PROVE  /\ Len(codes) = 0 => FoldBy(XorByte, base, codes) = base
         /\ \A b \in Byte : FoldBy(XorByte, base, Append(codes, b))
                              = XorByte[<<FoldBy(XorByte, base, codes), b>>]
<1>1. Foldable(Byte, Byte, XorByte, base, codes)
  BY CharFacts DEF Foldable
<1>2. ASSUME Len(codes) = 0 PROVE FoldBy(XorByte, base, codes) = base
  BY <1>1, <1>2, FoldNone
<1>3. ASSUME NEW b \in Byte
      PROVE  FoldBy(XorByte, base, Append(codes, b)) = XorByte[<<FoldBy(XorByte, base, codes), b>>]
  BY <1>1, FoldAppend
<1>4. QED
  BY <1>2, <1>3

LEMMA ChecksumFolds ==
  /\ Checksum(<<>>) = 0
  /\ \A text \in Seq(Char), c \in Char :
       Checksum(Append(text, c)) = XorByte[<<Checksum(text), Code[c]>>]
<1>1. Checksum(<<>>) = 0
  <2>1. <<>> \in Seq(Char) /\ Len(<<>>) = 0
    OBVIOUS
  <2>2. Len(Codes(<<>>)) = 0 /\ Codes(<<>>) \in Seq(Byte)
    BY <2>1, CodesAre
  <2>3. 0 \in Byte
    BY DEF Byte
  <2>4. FoldBy(XorByte, 0, Codes(<<>>)) = 0
    BY <2>2, <2>3, XorFolds
  <2>5. QED
    BY <2>4, ChecksumIsFold
<1>2. ASSUME NEW text \in Seq(Char), NEW c \in Char
      PROVE  Checksum(Append(text, c)) = XorByte[<<Checksum(text), Code[c]>>]
  <2>1. Codes(text) \in Seq(Byte) /\ Code[c] \in Byte
    BY CodesAre, CharFacts
  <2>2. Codes(Append(text, c)) = Append(Codes(text), Code[c])
    BY CodesAre
  <2>3. 0 \in Byte
    BY DEF Byte
  <2>4. FoldBy(XorByte, 0, Append(Codes(text), Code[c]))
          = XorByte[<<FoldBy(XorByte, 0, Codes(text)), Code[c]>>]
    BY <2>1, <2>3, XorFolds
  <2>5. QED
    BY <2>2, <2>4, ChecksumIsFold
<1>3. QED
  BY <1>1, <1>2

HexChars == {"0", "1", "2", "3", "4", "5", "6", "7", "8", "9", "A", "B", "C", "D", "E", "F"}

(* The sixteen digits, and what they are not.                              *)
LEMMA HexDigits ==
  /\ HexUpper \in Seq(HexChars) /\ Len(HexUpper) = 16
  /\ HexUpper[1] = "0" /\ HexUpper[2] = "1" /\ HexUpper[3] = "2"
  /\ HexUpper[4] = "3" /\ HexUpper[5] = "4" /\ HexUpper[6] = "5"
  /\ HexUpper[7] = "6" /\ HexUpper[8] = "7" /\ HexUpper[9] = "8"
  /\ HexUpper[10] = "9" /\ HexUpper[11] = "A" /\ HexUpper[12] = "B"
  /\ HexUpper[13] = "C" /\ HexUpper[14] = "D" /\ HexUpper[15] = "E"
  /\ HexUpper[16] = "F"
<1> DEFINE letters == <<"A", "B", "C", "D", "E", "F">>
<1>1. /\ Digits \in Seq(HexChars) /\ Len(Digits) = 10
      /\ Digits[1] = "0" /\ Digits[2] = "1" /\ Digits[3] = "2" /\ Digits[4] = "3"
      /\ Digits[5] = "4" /\ Digits[6] = "5" /\ Digits[7] = "6" /\ Digits[8] = "7"
      /\ Digits[9] = "8" /\ Digits[10] = "9"
  BY DEF Digits, HexChars
<1>2. /\ letters \in Seq(HexChars) /\ Len(letters) = 6
      /\ letters[1] = "A" /\ letters[2] = "B" /\ letters[3] = "C"
      /\ letters[4] = "D" /\ letters[5] = "E" /\ letters[6] = "F"
  BY DEF HexChars
<1>3. HexUpper = Digits \o letters
  BY DEF HexUpper
<1> HIDE DEF letters
<1>4. /\ HexUpper \in Seq(HexChars) /\ Len(HexUpper) = 16
      /\ \A i \in 1 .. 10 : HexUpper[i] = Digits[i]
      /\ \A i \in 1 .. 6 : HexUpper[10 + i] = letters[i]
  <2>1. Digits \in Seq(HexChars) /\ letters \in Seq(HexChars)
    BY <1>1, <1>2
  <2>2. HexUpper \in Seq(HexChars) /\ Len(HexUpper) = Len(Digits) + Len(letters)
    BY <2>1, <1>3
  <2>3. /\ \A i \in 1 .. Len(Digits) : HexUpper[i] = Digits[i]
        /\ \A i \in 1 .. Len(letters) : HexUpper[Len(Digits) + i] = letters[i]
    BY <2>1, <1>3
  <2>4. QED
    BY <1>1, <1>2, <2>2, <2>3
<1>5. /\ HexUpper[10 + 1] = "A" /\ HexUpper[10 + 2] = "B" /\ HexUpper[10 + 3] = "C"
      /\ HexUpper[10 + 4] = "D" /\ HexUpper[10 + 5] = "E" /\ HexUpper[10 + 6] = "F"
  BY <1>2, <1>4
<1>6. QED
  BY <1>1, <1>4, <1>5

LEMMA HexIsPrintable ==
  ASSUME NEW h \in 0 .. 15
  PROVE  HexUpper[h + 1] \in Printable /\ HexUpper[h + 1] # "$"
<1>1. HexUpper[h + 1] \in Char
  <2>1. h + 1 \in DOMAIN HexUpper
    BY HexDigits
  <2>2. HexUpper[h + 1] \in ToSet(HexUpper)
    BY <2>1 DEF ToSet
  <2>3. QED
    BY <2>2, NmeaStreamAssumption
<1>2. HexUpper[h + 1] # "NUL" /\ HexUpper[h + 1] # "$"
  BY HexDigits
<1>3. QED
  BY <1>1, <1>2 DEF Printable, NUL

LEMMA HexValIs ==
  ASSUME NEW c, IsHex(c)
  PROVE  HexVal(c) \in 0 .. 15
<1>1. \E i \in 1 .. 16 : c \in {HexUpper[i], HexLower[i]}
  BY DEF IsHex, ToSet, HexUpper, HexLower, Digits
<1>2. QED
  BY <1>1 DEF HexVal
-----------------------------------------------------------------------------
(* The sentence and its line end, character by character.                  *)

Digit1(body) == HexUpper[(Checksum(body) \div 16) + 1]
Digit2(body) == HexUpper[(Checksum(body) % 16) + 1]

LEMMA LineIs ==
  ASSUME NEW body \in Bodies, NEW end \in LineEnds
  PROVE  LET line == Sentence(body) \o end
             n == Len(body)
         IN  /\ n \in Nat /\ body \in Seq(Printable \ {"$", "*", "CR", "LF"})
             /\ end \in Seq({"CR", "LF"})
             /\ line \in Seq(Printable) /\ Len(line) = n + 4 + Len(end)
             /\ line[1] = "$" /\ line[n + 2] = "*"
             /\ line[n + 3] = Digit1(body) /\ line[n + 4] = Digit2(body)
             /\ \A i \in 1 .. n : line[1 + i] = body[i]
             /\ \A i \in 1 .. Len(end) : line[(n + 4) + i] = end[i]
             /\ Digit1(body) # "$" /\ Digit2(body) # "$"
<1> DEFINE n == Len(body)
           dollar == <<"$">>
           crc == Checksum(body)
           tail == <<"*", Digit1(body), Digit2(body)>>
           front == dollar \o body
           sentence == front \o tail
           line == sentence \o end
<1>1. /\ body \in Seq(Printable \ {"$", "*", "CR", "LF"}) /\ body \in Seq(Printable)
      /\ end \in Seq({"CR", "LF"}) /\ end \in Seq(Printable)
      /\ body \in Seq(Char) /\ n \in Nat
  <2>1. body \in Seq(Char \ {NUL, "CR", "LF", "$", "*"}) /\ end \in Seq({"CR", "LF"})
    BY NmeaStreamAssumption
  <2>2. Char \ {NUL, "CR", "LF", "$", "*"} = Printable \ {"$", "*", "CR", "LF"}
    BY DEF Printable
  <2>3. body \in Seq(Printable) /\ body \in Seq(Char)
    BY <2>1 DEF Printable
  <2>4. end \in Seq(Printable)
    BY <2>1, CharFacts
  <2>5. QED
    BY <2>1, <2>2, <2>3, <2>4
<1>2. crc \in Byte
  BY <1>1, ChecksumIsByte
<1>3. crc \div 16 \in 0 .. 15 /\ crc % 16 \in 0 .. 15
  BY <1>2 DEF Byte
<1>4. /\ Digit1(body) \in Printable /\ Digit1(body) # "$"
      /\ Digit2(body) \in Printable /\ Digit2(body) # "$"
  BY <1>3, HexIsPrintable DEF Digit1, Digit2
<1>5. /\ dollar \in Seq(Printable) /\ Len(dollar) = 1 /\ dollar[1] = "$"
      /\ tail \in Seq(Printable) /\ Len(tail) = 3 /\ tail[1] = "*"
      /\ tail[2] = Digit1(body) /\ tail[3] = Digit2(body)
  BY <1>4, CharFacts
<1>6. Sentence(body) \o end = line
  BY DEF Sentence, Digit1, Digit2
<1> HIDE DEF dollar, tail, crc, n
<1>7. front = dollar \o body
  OBVIOUS
<1> HIDE DEF front
<1>8. sentence = front \o tail
  OBVIOUS
<1> HIDE DEF sentence
<1>9. line = sentence \o end
  OBVIOUS
<1> HIDE DEF line
<1>10. /\ front \in Seq(Printable) /\ Len(front) = 1 + n
       /\ \A i \in 1 .. 1 : front[i] = dollar[i]
       /\ \A i \in 1 .. n : front[1 + i] = body[i]
  <2>1. dollar \in Seq(Printable) /\ body \in Seq(Printable)
    BY <1>1, <1>5
  <2>2. front \in Seq(Printable) /\ Len(front) = Len(dollar) + Len(body)
    BY <2>1, <1>7
  <2>3. /\ \A i \in 1 .. Len(dollar) : front[i] = dollar[i]
        /\ \A i \in 1 .. Len(body) : front[Len(dollar) + i] = body[i]
    BY <2>1, <1>7
  <2>4. QED
    BY <1>5, <2>2, <2>3 DEF n
<1>11. /\ sentence \in Seq(Printable) /\ Len(sentence) = (1 + n) + 3
       /\ \A i \in 1 .. 1 + n : sentence[i] = front[i]
       /\ \A i \in 1 .. 3 : sentence[(1 + n) + i] = tail[i]
  <2>1. front \in Seq(Printable) /\ tail \in Seq(Printable)
    BY <1>5, <1>10
  <2>2. sentence \in Seq(Printable) /\ Len(sentence) = Len(front) + Len(tail)
    BY <2>1, <1>8
  <2>3. /\ \A i \in 1 .. Len(front) : sentence[i] = front[i]
        /\ \A i \in 1 .. Len(tail) : sentence[Len(front) + i] = tail[i]
    BY <2>1, <1>8
  <2>4. QED
    BY <1>5, <1>10, <2>2, <2>3
<1>12. /\ line \in Seq(Printable) /\ Len(line) = (n + 4) + Len(end)
       /\ \A i \in 1 .. n + 4 : line[i] = sentence[i]
       /\ \A i \in 1 .. Len(end) : line[(n + 4) + i] = end[i]
  <2>1. sentence \in Seq(Printable) /\ end \in Seq(Printable)
    BY <1>1, <1>11
  <2>2. line \in Seq(Printable) /\ Len(line) = Len(sentence) + Len(end)
    BY <2>1, <1>9
  <2>3. /\ \A i \in 1 .. Len(sentence) : line[i] = sentence[i]
        /\ \A i \in 1 .. Len(end) : line[Len(sentence) + i] = end[i]
    BY <2>1, <1>9
  <2>4. Len(sentence) = n + 4
    BY <1>1, <1>11
  <2>5. QED
    BY <2>2, <2>3, <2>4
<1>13. line[1] = "$" /\ \A i \in 1 .. n : line[1 + i] = body[i]
  BY <1>1, <1>5, <1>10, <1>11, <1>12
<1>14. /\ line[n + 2] = "*" /\ line[n + 3] = Digit1(body) /\ line[n + 4] = Digit2(body)
  <2>1. /\ sentence[(1 + n) + 1] = tail[1] /\ sentence[(1 + n) + 2] = tail[2]
        /\ sentence[(1 + n) + 3] = tail[3]
    BY <1>11
  <2>2. /\ (1 + n) + 1 = n + 2 /\ (1 + n) + 2 = n + 3 /\ (1 + n) + 3 = n + 4
        /\ n + 2 \in 1 .. n + 4 /\ n + 3 \in 1 .. n + 4 /\ n + 4 \in 1 .. n + 4
    BY <1>1
  <2>3. QED
    BY <1>5, <1>12, <2>1, <2>2
<1>15. QED
  BY <1>1, <1>4, <1>6, <1>12, <1>13, <1>14 DEF n
-----------------------------------------------------------------------------
(* Types.  No character that ends a C string is ever sent.                 *)

LeftInv == left \in Seq(Printable)

LEMMA FeedTypes ==
  ASSUME ParserTypeOK, NEW c \in Char, Feed(c)
  PROVE  ParserTypeOK'
<1>1. /\ MaxLen \in Nat /\ MaxLen >= 6 /\ NUL \in Char
      /\ Code \in [Char -> Byte] /\ XorByte \in [Byte \X Byte -> Byte]
  BY CharFacts
<1>2. CASE FeedIdle(c)
  <2>1. 0 \in Byte /\ 0 \in 0 .. MaxLen - 1
    BY <1>1 DEF Byte
  <2>2. QED
    BY <1>2, <2>1 DEF FeedIdle, ParserTypeOK
<1>3. CASE FeedStar(c)
  <2>1. buffer' \in [0 .. MaxLen - 1 -> Char]
    BY <1>1, <1>3 DEF FeedStar, ParserTypeOK
  <2>2. QED
    BY <1>3, <2>1 DEF FeedStar, NotFinal, ParserTypeOK
<1>4. CASE FeedLineEnd(c)
  BY <1>4 DEF FeedLineEnd, NotFinal, ParserTypeOK
<1>5. CASE FeedChar(c)
  <2>1. buffer' \in [0 .. MaxLen - 1 -> Char]
    BY <1>1, <1>5 DEF FeedChar, ParserTypeOK
  <2>2. index' \in 0 .. MaxLen - 1
    BY <1>1, <1>5 DEF FeedChar, ParserTypeOK
  <2>3. calc_checksum' \in Byte
    <3>1. Code[c] \in Byte /\ calc_checksum \in Byte
      BY <1>1 DEF ParserTypeOK
    <3>2. XorByte[<<calc_checksum, Code[c]>>] \in Byte
      BY <1>1, <3>1
    <3>3. QED
      BY <1>5, <3>2 DEF FeedChar
  <2>4. QED
    BY <1>5, <2>1, <2>2, <2>3 DEF FeedChar, NotFinal, ParserTypeOK
<1>6. CASE FeedOverflow(c)
  BY <1>6 DEF FeedOverflow, NotFinal, ParserTypeOK
<1>7. CASE FeedNoHex(c)
  BY <1>7 DEF FeedNoHex, NotFinal, ParserTypeOK
<1>8. CASE FeedHigh(c)
  <2>1. recv_checksum_hi' \in 0 .. 15
    BY <1>8, HexValIs DEF FeedHigh
  <2>2. QED
    BY <1>8, <2>1 DEF FeedHigh, NotFinal, ParserTypeOK
<1>9. CASE FeedLow(c)
  <2>1. type' \in {"NONE", "GGA", "RMC", "GST", "GSV", "GSA"}
    BY <1>9 DEF FeedLow, FinalizeSentence, Identify
  <2>2. /\ data'.kind \in {"GGA", "RMC", "GST", "GSV", "GSA"}
        /\ type' # "NONE" => data'.kind = type'
    <3>1. PICK junk \in Junk :
            data' = CASE type' = "GGA" -> [kind |-> "GGA", value |-> Gga(Text(buffer), junk)]
                      [] type' = "RMC" -> [kind |-> "RMC", value |-> Rmc(Text(buffer), junk)]
                      [] type' = "GST" -> [kind |-> "GST", value |-> Gst(Text(buffer))]
                      [] type' = "GSV" -> [kind |-> "GSV", value |-> Gsv(Text(buffer))]
                      [] type' = "GSA" -> [kind |-> "GSA", value |-> Gsa(Text(buffer))]
                      [] OTHER -> data
      BY <1>9 DEF FeedLow, FinalizeSentence
    <3>2. CASE type' = "GGA"
      BY <3>1, <3>2
    <3>3. CASE type' = "RMC"
      BY <3>1, <3>3
    <3>4. CASE type' = "GST"
      BY <3>1, <3>4
    <3>5. CASE type' = "GSV"
      BY <3>1, <3>5
    <3>6. CASE type' = "GSA"
      BY <3>1, <3>6
    <3>7. CASE type' = "NONE"
      BY <3>1, <3>7 DEF ParserTypeOK
    <3>8. QED
      BY <2>1, <3>2, <3>3, <3>4, <3>5, <3>6, <3>7
  <2>3. QED
    BY <1>9, <2>1, <2>2 DEF FeedLow, ParserTypeOK
<1>10. CASE FeedEndOfLine(c)
  BY <1>10 DEF FeedEndOfLine, NotFinal, ParserTypeOK
<1>11. QED
  BY <1>2, <1>3, <1>4, <1>5, <1>6, <1>7, <1>8, <1>9, <1>10 DEF Feed

LEMMA TypesInit ==
  ASSUME Init
  PROVE  TypeOK /\ LeftInv
<1> USE DEF Init, ParserInit
<1>1. /\ buffer \in [0 .. MaxLen - 1 -> Char] /\ index \in 0 .. MaxLen - 1
      /\ calc_checksum \in Byte
  BY CharFacts DEF Byte
<1>2. data.kind = "GGA" /\ type = "NONE"
  OBVIOUS
<1>3. ParserTypeOK
  BY <1>1, <1>2 DEF ParserTypeOK
<1>4. in_sync \in BOOLEAN /\ recovered \in BOOLEAN
  OBVIOUS
<1>5. left \in Seq(Printable) /\ left \in Seq(Char)
  OBVIOUS
<1>6. missing \in Nat /\ losses \in 0 .. MaxLosses
  BY NmeaStreamAssumption
<1>7. QED
  BY <1>3, <1>4, <1>5, <1>6 DEF TypeOK, LeftInv

LEMMA TypesStep ==
  ASSUME TypeOK, LeftInv, [Next]_vars
  PROVE  TypeOK' /\ LeftInv'
<1>1. ASSUME left' \in Seq(Printable) PROVE left' \in Seq(Char)
  BY <1>1 DEF Printable
<1>2. ASSUME UNCHANGED nmeaVars PROVE ParserTypeOK'
  BY <1>2 DEF nmeaVars, TypeOK, ParserTypeOK
<1>3. CASE BeginSentence
  <2>1. left' \in Seq(Printable)
    BY <1>3, LineIs DEF BeginSentence
  <2>2. in_sync' \in BOOLEAN /\ recovered' \in BOOLEAN
    BY <1>3 DEF BeginSentence, TypeOK
  <2>3. ParserTypeOK'
    BY <1>2, <1>3 DEF BeginSentence
  <2>4. QED
    BY <1>1, <1>3, <2>1, <2>2, <2>3 DEF BeginSentence, TypeOK, LeftInv
<1>4. CASE SendChar
  <2>1. /\ Head(left) \in Printable /\ Head(left) \in Char
        /\ left' \in Seq(Printable)
    BY <1>4 DEF SendChar, LeftInv, Printable
  <2>2. ParserTypeOK'
    BY <1>4, <2>1, FeedTypes DEF SendChar, TypeOK
  <2>3. recovered' \in BOOLEAN
    BY <1>4 DEF SendChar
  <2>4. QED
    BY <1>1, <1>4, <2>1, <2>2, <2>3 DEF SendChar, TypeOK, LeftInv
<1>5. CASE Lose
  <2>1. PICK n \in {1, Len(left)} :
          left' = SubSeq(left, n + 1, Len(left)) /\ missing' = missing + n
    BY <1>5 DEF Lose
  <2>2. Len(left) \in Nat /\ n \in Nat /\ n >= 1 /\ n <= Len(left)
    BY <1>5, <2>1 DEF Lose, LeftInv
  <2>3. left' \in Seq(Printable)
    BY <2>1, <2>2 DEF LeftInv
  <2>4. missing' \in Nat /\ losses' \in 0 .. MaxLosses
    BY <1>5, <2>1, <2>2, NmeaStreamAssumption DEF Lose, TypeOK
  <2>5. recovered' \in BOOLEAN /\ ParserTypeOK'
    BY <1>2, <1>5 DEF Lose
  <2>6. QED
    BY <1>1, <1>5, <2>3, <2>4, <2>5 DEF Lose, TypeOK, LeftInv
<1>6. CASE UNCHANGED vars
  <2>1. ParserTypeOK'
    BY <1>2, <1>6 DEF vars
  <2>2. QED
    BY <1>6, <2>1 DEF vars, TypeOK, LeftInv
<1>7. QED
  BY <1>3, <1>4, <1>5, <1>6 DEF Next

LEMMA AlwaysTyped == Spec => [](TypeOK /\ LeftInv)
<1>1. Init => TypeOK /\ LeftInv
  BY TypesInit
<1>2. TypeOK /\ LeftInv /\ [Next]_vars => (TypeOK /\ LeftInv)'
  BY TypesStep
<1>3. QED
  BY <1>1, <1>2, PTL DEF Spec

(* Every variable keeps its type: neither a character nor the terminator   *)
(* is stored outside the buffer (nmea_parser.c:460-487), and the decoded   *)
(* data are of the type named.                                             *)
THEOREM SentenceTypeCorrect == Spec => []TypeOK
BY AlwaysTyped, PTL
-----------------------------------------------------------------------------
(* Recovery.  From the '*' on a sentence leaves the parser one of two      *)
(* states at each character: where the sentence puts it, or idle.          *)

Line == Sentence(sent) \o line_end

(* What is left is the end of the line.                                    *)
LeftIsEnd ==
  /\ Len(left) <= Len(Line)
  /\ \A i \in 1 .. Len(left) : left[i] = Line[(Len(Line) - Len(left)) + i]

(* The states with n characters to come, m of them of the line end.        *)
Settled(n, m) ==
  CASE n = m + 2 -> {"IDLE", "CHECKSUM_H"}
    [] n = m + 1 -> {"IDLE", "CHECKSUM_L"}
    [] n = m /\ n # 0 -> {"IDLE", "CR"}
    [] n = 1 /\ m = 2 -> {"IDLE", "LF"}
    [] n = 0 -> {"IDLE"}
    [] OTHER -> {"IDLE", "DATA", "CHECKSUM_H", "CHECKSUM_L", "CR", "LF"}

RecoverInv ==
  /\ recovered => missing = 0
  /\ missing = 0 /\ left # <<>> => LeftIsEnd
  /\ missing = 0 => state \in Settled(Len(left), Len(line_end))

LEMMA StarSettles ==
  ASSUME ParserTypeOK, Feed("*")
  PROVE  state' \in {"IDLE", "CHECKSUM_H"}
<1>1. ~IsHex("*")
  BY DEF IsHex, ToSet, HexUpper, HexLower, Digits
<1>2. QED
  BY <1>1 DEF ParserTypeOK, Feed, FeedIdle, FeedStar, FeedLineEnd, FeedChar, FeedOverflow,
              FeedNoHex, FeedHigh, FeedLow, FeedEndOfLine

LEMMA CharSettles ==
  ASSUME NEW c, c # "$", Feed(c)
  PROVE  /\ state \in {"IDLE", "CHECKSUM_H"} => state' \in {"IDLE", "CHECKSUM_L"}
         /\ state \in {"IDLE", "CHECKSUM_L"} => state' \in {"IDLE", "CR"}
         /\ state \in {"IDLE", "CR"} => state' \in {"IDLE", "LF"}
         /\ state \in {"IDLE", "CR"} /\ c = "LF" => state' = "IDLE"
         /\ state \in {"IDLE", "LF"} => state' = "IDLE"
BY DEF Feed, FeedIdle, FeedStar, FeedLineEnd, FeedChar, FeedOverflow,
       FeedNoHex, FeedHigh, FeedLow, FeedEndOfLine

LEMMA SendSettles ==
  ASSUME LineEnds \subseteq {<<"CR", "LF">>, <<"LF">>},
         TypeOK, LeftInv, RecoverInv, SendChar, missing = 0
  PROVE  LeftIsEnd' /\ state' \in Settled(Len(left'), Len(line_end'))
<1> DEFINE b == Len(sent)
           m == Len(line_end)
           n == Len(left)
           c == Head(left)
<1>1. /\ sent \in Bodies /\ line_end \in LineEnds /\ ParserTypeOK
  BY DEF TypeOK
<1>2. /\ b \in Nat /\ Line \in Seq(Printable) /\ Len(Line) = b + 4 + m
      /\ Line[b + 2] = "*" /\ Line[b + 3] # "$" /\ Line[b + 4] # "$"
      /\ \A i \in 1 .. m : Line[(b + 4) + i] = line_end[i]
  BY <1>1, LineIs DEF Line
<1>3. /\ line_end \in {<<"CR", "LF">>, <<"LF">>} /\ m \in {1, 2}
      /\ m = 1 => line_end[1] = "LF"
      /\ m = 2 => line_end[1] = "CR" /\ line_end[2] = "LF"
  BY <1>1
<1>4. /\ left \in Seq(Printable) /\ n \in Nat /\ n >= 1 /\ left # <<>>
      /\ c = left[1] /\ left' = Tail(left) /\ Len(left') = n - 1
      /\ \A i \in 1 .. n - 1 : left'[i] = left[i + 1]
      /\ Feed(c) /\ line_end' = line_end /\ sent' = sent /\ c \in Char
  BY DEF SendChar, LeftInv, Printable
<1>5. LeftIsEnd /\ state \in Settled(n, m)
  BY <1>4 DEF RecoverInv
<1>6. Line' = Line
  BY <1>4 DEF Line
<1> HIDE DEF b, c, m
<1>7. n <= b + 4 + m /\ c = Line[((b + 4 + m) - n) + 1]
  BY <1>2, <1>4, <1>5 DEF LeftIsEnd
<1>8. LeftIsEnd'
  <2>1. ASSUME NEW i \in 1 .. n - 1
        PROVE  left'[i] = Line[(Len(Line) - (n - 1)) + i]
    <3>1. i + 1 \in 1 .. n /\ (Len(Line) - n) + (i + 1) = (Len(Line) - (n - 1)) + i
      BY <1>2, <1>4
    <3>2. QED
      BY <1>4, <1>5, <3>1 DEF LeftIsEnd
  <2>2. QED
    <3>1. Len(left') = n - 1 /\ n - 1 <= Len(Line)
      BY <1>2, <1>4, <1>7
    <3>2. QED
      BY <1>6, <2>1, <3>1 DEF LeftIsEnd
<1>9. state' \in Settled(n - 1, m)
  <2>1. state' \in {"IDLE", "DATA", "CHECKSUM_H", "CHECKSUM_L", "CR", "LF"}
    BY <1>1, <1>4, FeedTypes DEF ParserTypeOK
  <2>2. CASE n > m + 3
    BY <1>3, <1>4, <2>1, <2>2 DEF Settled
  <2>3. CASE n = m + 3
    <3>1. c = "*"
      <4>1. ((b + 4 + m) - n) + 1 = b + 2
        BY <1>2, <1>3, <2>3
      <4>2. QED
        BY <1>2, <1>7, <4>1
    <3>2. state' \in {"IDLE", "CHECKSUM_H"}
      BY <1>1, <1>4, <3>1, StarSettles
    <3>3. QED
      BY <1>3, <2>3, <3>2, <1>4 DEF Settled
  <2>4. CASE n = m + 2
    <3>1. c # "$"
      <4>1. ((b + 4 + m) - n) + 1 = b + 3
        BY <1>2, <1>3, <2>4
      <4>2. QED
        BY <1>2, <1>7, <4>1
    <3>2. state \in {"IDLE", "CHECKSUM_H"}
      BY <1>3, <1>5, <2>4 DEF Settled
    <3>3. state' \in {"IDLE", "CHECKSUM_L"}
      BY <1>4, <3>1, <3>2, CharSettles
    <3>4. QED
      BY <1>3, <1>4, <2>4, <3>3 DEF Settled
  <2>5. CASE n = m + 1
    <3>1. c # "$"
      <4>1. ((b + 4 + m) - n) + 1 = b + 4
        BY <1>2, <1>3, <2>5
      <4>2. QED
        BY <1>2, <1>7, <4>1
    <3>2. state' \in {"IDLE", "CR"}
      BY <1>4, <1>5, <2>5, <3>1, CharSettles DEF Settled
    <3>3. QED
      BY <1>3, <2>5, <3>2, <1>4 DEF Settled
  <2>6. CASE n = m
    <3>1. c = line_end[1]
      <4>1. ((b + 4 + m) - n) + 1 = (b + 4) + 1
        BY <1>2, <1>3, <2>6
      <4>2. QED
        BY <1>2, <1>3, <1>7, <4>1
    <3>2. CASE m = 1
      <4>1. state' = "IDLE"
        BY <1>3, <1>4, <1>5, <2>6, <3>1, <3>2, CharSettles DEF Settled
      <4>2. QED
        BY <1>4, <2>6, <3>2, <4>1 DEF Settled
    <3>3. CASE m = 2
      <4>1. state' \in {"IDLE", "LF"}
        BY <1>3, <1>4, <1>5, <2>6, <3>1, <3>3, CharSettles DEF Settled
      <4>2. QED
        BY <1>4, <2>6, <3>3, <4>1 DEF Settled
    <3>4. QED
      BY <1>3, <3>2, <3>3
  <2>7. CASE n = 1 /\ m = 2
    <3>1. c = line_end[2]
      <4>1. ((b + 4 + m) - n) + 1 = (b + 4) + 2
        BY <1>2, <2>7
      <4>2. QED
        BY <1>2, <1>7, <2>7, <4>1
    <3>2. state' = "IDLE"
      BY <1>3, <1>4, <1>5, <2>7, <3>1, CharSettles DEF Settled
    <3>3. QED
      BY <1>4, <2>7, <3>2 DEF Settled
  <2>8. n > m + 3 \/ n = m + 3 \/ n = m + 2 \/ n = m + 1 \/ n = m \/ (n = 1 /\ m = 2)
    <3>1. \A k \in Nat : k >= 1 =>
            /\ k > 4 \/ k = 4 \/ k = 3 \/ k = 2 \/ k = 1
            /\ k > 5 \/ k = 5 \/ k = 4 \/ k = 3 \/ k = 2 \/ k = 1
      OBVIOUS
    <3>2. m \in {1, 2} /\ n \in Nat /\ n >= 1
      BY <1>3, <1>4
    <3> HIDE DEF n, m
    <3>3. QED
      BY <3>1, <3>2
  <2>9. QED
    BY <2>2, <2>3, <2>4, <2>5, <2>6, <2>7, <2>8
<1>10. QED
  BY <1>4, <1>8, <1>9 DEF m

LEMMA RecoverStep ==
  ASSUME LineEnds \subseteq {<<"CR", "LF">>, <<"LF">>},
         TypeOK, LeftInv, RecoverInv, [Next]_vars
  PROVE  RecoverInv'
<1>1. CASE BeginSentence
  <2>1. /\ sent' \in Bodies /\ line_end' \in LineEnds /\ left' = Line'
        /\ missing' = 0
    BY <1>1 DEF BeginSentence, Line
  <2>2. Len(sent') \in Nat /\ Len(Line') = Len(sent') + 4 + Len(line_end')
    BY <2>1, LineIs DEF Line
  <2>3. Len(line_end') \in Nat
    BY <2>1
  <2>4. LeftIsEnd'
    BY <2>1, <2>2, <2>3 DEF LeftIsEnd
  <2>5. state' \in Settled(Len(left'), Len(line_end'))
    <3>1. Len(left') > Len(line_end') + 3 /\ Len(line_end') \in {1, 2}
      BY <2>1, <2>2
    <3>2. state' \in {"IDLE", "DATA", "CHECKSUM_H", "CHECKSUM_L", "CR", "LF"}
      BY <1>1 DEF BeginSentence, nmeaVars, TypeOK, ParserTypeOK
    <3>3. QED
      BY <2>2, <2>3, <3>1, <3>2 DEF Settled
  <2>6. QED
    BY <2>1, <2>4, <2>5 DEF RecoverInv
<1>2. CASE SendChar
  <2>1. CASE missing = 0
    <3>1. LeftIsEnd' /\ state' \in Settled(Len(left'), Len(line_end'))
      BY <1>2, <2>1, SendSettles
    <3>2. missing' = 0
      BY <1>2, <2>1 DEF SendChar
    <3>3. QED
      BY <3>1, <3>2 DEF RecoverInv
  <2>2. CASE missing # 0
    <3>1. missing' # 0 /\ (recovered' <=> recovered)
      BY <1>2, <2>2 DEF SendChar
    <3>2. QED
      BY <2>2, <3>1 DEF RecoverInv
  <2>3. QED
    BY <2>1, <2>2
<1>3. CASE Lose
  <2>1. missing' # 0
    BY <1>3 DEF Lose, TypeOK, LeftInv
  <2>2. ~recovered'
    BY <1>3 DEF Lose
  <2>3. QED
    BY <2>1, <2>2 DEF RecoverInv
<1>4. CASE UNCHANGED vars
  BY <1>4 DEF vars, nmeaVars, RecoverInv, LeftIsEnd, Settled, Line
<1>5. QED
  BY <1>1, <1>2, <1>3, <1>4 DEF Next

(* For receivers that end their lines with CR LF or LF: one whole sentence *)
(* after any losses leaves the parser idle, whatever the losses left it    *)
(* waiting for (nmea_parser.c:502-518).                                    *)
THEOREM RecoversAtOnce ==
  ASSUME LineEnds \subseteq {<<"CR", "LF">>, <<"LF">>}
  PROVE  Spec => []RecoversInOneSentence
<1>1. Init => RecoverInv
  <2>1. ASSUME Init PROVE RecoverInv
    <3>1. left = <<>> /\ missing = 0 /\ state = "IDLE" /\ line_end \in {<<"CR", "LF">>, <<"LF">>}
      BY <2>1 DEF Init, ParserInit
    <3>2. QED
      BY <3>1 DEF RecoverInv, Settled
  <2>2. QED
    BY <2>1
<1>2. TypeOK /\ LeftInv /\ RecoverInv /\ [Next]_vars => RecoverInv'
  BY RecoverStep
<1>3. RecoverInv => RecoversInOneSentence
  BY DEF RecoverInv, Settled, RecoversInOneSentence
<1>4. QED
  BY <1>1, <1>2, <1>3, AlwaysTyped, PTL DEF Spec
-----------------------------------------------------------------------------
(* The text in the buffer, which ends at its terminator and not before.    *)

Filled == \A i \in 0 .. MaxLen - 1 : i < index => buffer[i] # NUL

Ended == buffer[index] = NUL

NameInv ==
  /\ state \in {"DATA", "CHECKSUM_H", "CHECKSUM_L"} => Filled
  /\ state \in {"CHECKSUM_H", "CHECKSUM_L"} => Ended
  /\ returned = "VALID" => state = "CR" /\ Filled /\ Ended /\ type = Identify(buffer)

LEMMA TextIs ==
  ASSUME ParserTypeOK, Filled, Ended
  PROVE  Text(buffer) = [i \in 1 .. index |-> buffer[i - 1]]
<1> DEFINE nul == {i \in DOMAIN buffer : buffer[i] = NUL}
<1>1. /\ index \in 0 .. MaxLen - 1 /\ MaxLen \in Nat /\ DOMAIN buffer = 0 .. MaxLen - 1
  BY CharFacts DEF ParserTypeOK
<1>2. index \in nul /\ \A j \in nul : index <= j
  BY <1>1 DEF Filled, Ended
<1>3. \A i \in nul : (\A j \in nul : i <= j) => i = index
  BY <1>1, <1>2
<1>4. (CHOOSE i \in nul : \A j \in nul : i <= j) = index
  BY <1>2, <1>3
<1>5. nul # {}
  BY <1>2
<1>6. QED
  BY <1>4, <1>5 DEF Text

LEMMA FeedNames ==
  ASSUME ParserTypeOK, NameInv, NEW c \in Printable, Feed(c)
  PROVE  NameInv'
<1>1. /\ index \in 0 .. MaxLen - 1 /\ MaxLen \in Nat /\ c # NUL
      /\ buffer \in [0 .. MaxLen - 1 -> Char]
  BY CharFacts DEF ParserTypeOK, Printable
<1>2. CASE FeedIdle(c)
  <2>1. returned' # "VALID" /\ buffer' = buffer
    BY <1>2 DEF FeedIdle
  <2>2. CASE c = "$"
    <3>1. state' = "DATA" /\ index' = 0
      BY <1>2, <2>2 DEF FeedIdle
    <3>2. Filled'
      BY <3>1 DEF Filled
    <3>3. QED
      BY <2>1, <3>1, <3>2 DEF NameInv
  <2>3. CASE c # "$"
    BY <1>2, <2>1, <2>3 DEF FeedIdle, NameInv
  <2>4. QED
    BY <2>2, <2>3
<1>3. CASE FeedStar(c)
  <2>1. /\ state = "DATA" /\ state' = "CHECKSUM_H" /\ returned' # "VALID"
        /\ buffer' = [buffer EXCEPT ![index] = NUL] /\ index' = index
    BY <1>3 DEF FeedStar
  <2>2. Filled' /\ Ended'
    BY <1>1, <2>1 DEF Filled, Ended, NameInv
  <2>3. QED
    BY <2>1, <2>2 DEF NameInv
<1>4. CASE FeedLineEnd(c)
  BY <1>4 DEF FeedLineEnd, NameInv
<1>5. CASE FeedChar(c)
  <2>1. /\ state = "DATA" /\ state' = "DATA" /\ returned' # "VALID"
        /\ buffer' = [buffer EXCEPT ![index] = c] /\ index' = index + 1
    BY <1>5 DEF FeedChar
  <2>2. ASSUME NEW i \in 0 .. MaxLen - 1, i < index + 1
        PROVE  buffer'[i] # NUL
    <3>1. CASE i = index
      BY <1>1, <2>1, <3>1
    <3>2. CASE i # index
      <4>1. buffer'[i] = buffer[i] /\ i < index
        BY <1>1, <2>1, <2>2, <3>2
      <4>2. QED
        BY <2>1, <4>1 DEF NameInv, Filled
    <3>3. QED
      BY <3>1, <3>2
  <2>3. Filled'
    BY <2>1, <2>2 DEF Filled
  <2>4. QED
    BY <2>1, <2>3 DEF NameInv
<1>6. CASE FeedOverflow(c)
  BY <1>6 DEF FeedOverflow, NameInv
<1>7. CASE FeedNoHex(c)
  BY <1>7 DEF FeedNoHex, NameInv
<1>8. CASE FeedHigh(c)
  BY <1>8 DEF FeedHigh, NameInv, Filled, Ended
<1>9. CASE FeedLow(c)
  <2>1. /\ state = "CHECKSUM_L" /\ state' = "CR" /\ type' = Identify(buffer)
        /\ buffer' = buffer /\ index' = index
    BY <1>9 DEF FeedLow, FinalizeSentence
  <2>2. Filled' /\ Ended'
    BY <2>1 DEF NameInv, Filled, Ended
  <2>3. QED
    BY <2>1, <2>2 DEF NameInv
<1>10. CASE FeedEndOfLine(c)
  BY <1>10 DEF FeedEndOfLine, NameInv
<1>11. QED
  BY <1>2, <1>3, <1>4, <1>5, <1>6, <1>7, <1>8, <1>9, <1>10 DEF Feed

LEMMA NameStep ==
  ASSUME TypeOK, LeftInv, NameInv, [Next]_vars
  PROVE  NameInv'
<1>1. ASSUME UNCHANGED nmeaVars PROVE NameInv'
  BY <1>1 DEF nmeaVars, NameInv, Filled, Ended
<1>2. CASE SendChar
  <2>1. Head(left) \in Printable /\ Feed(Head(left)) /\ ParserTypeOK
    BY <1>2 DEF SendChar, LeftInv, TypeOK
  <2>2. QED
    BY <2>1, FeedNames
<1>3. QED
  BY <1>1, <1>2 DEF Next, BeginSentence, Lose, vars

LEMMA NamedIsOwn ==
  ASSUME ParserTypeOK, Filled, Ended, index # 1
  PROVE  Identify(buffer) =
           IF index < 5 THEN "NONE" ELSE Identify([i \in 0 .. 4 |-> Text(buffer)[i + 1]])
<1>1. /\ index \in 0 .. MaxLen - 1 /\ MaxLen \in Nat /\ MaxLen >= 6 /\ NUL = "NUL"
  BY CharFacts DEF ParserTypeOK
<1>2. CASE index = 0
  <2>1. buffer[0] # "G"
    BY <1>1, <1>2 DEF Ended
  <2>2. QED
    BY <1>1, <1>2, <2>1 DEF Identify
<1>3. CASE index \in {2, 3, 4}
  <2>1. \/ buffer[2] = "NUL"
        \/ buffer[3] = "NUL"
        \/ buffer[4] = "NUL"
    BY <1>1, <1>3 DEF Ended
  <2>2. QED
    BY <1>3, <2>1 DEF Identify
<1>4. CASE index >= 5
  <2> DEFINE own == [i \in 0 .. 4 |-> Text(buffer)[i + 1]]
  <2>1. /\ own[0] = buffer[0] /\ own[1] = buffer[1] /\ own[2] = buffer[2]
        /\ own[3] = buffer[3] /\ own[4] = buffer[4]
    <3>1. ASSUME NEW i \in 0 .. 4 PROVE own[i] = buffer[i]
      <4>1. i + 1 \in 1 .. index /\ (i + 1) - 1 = i
        BY <1>1, <1>4
      <4>2. Text(buffer)[i + 1] = buffer[i]
        BY <4>1, TextIs
      <4>3. QED
        BY <4>2
    <3>2. QED
      BY <3>1
  <2> HIDE DEF own
  <2>2. Identify(own) = Identify(buffer)
    BY <2>1 DEF Identify
  <2>3. QED
    BY <1>1, <1>4, <2>2 DEF own
<1>5. QED
  BY <1>1, <1>2, <1>3, <1>4

(* Whatever sentences went before and whatever the line loses, the type of *)
(* an accepted sentence is spelt by its own characters: the terminator     *)
(* (nmea_parser.c:484) ends what a longer sentence left, except behind a   *)
(* single character.                                                       *)
THEOREM NamedByItself == Spec => []TypeIsItsOwn
<1>1. Init => NameInv
  BY DEF Init, ParserInit, NameInv
<1>2. TypeOK /\ LeftInv /\ NameInv /\ [Next]_vars => NameInv'
  BY NameStep
<1>3. TypeOK /\ NameInv => TypeIsItsOwn
  BY NamedIsOwn DEF TypeOK, NameInv, TypeIsItsOwn
<1>4. QED
  BY <1>1, <1>2, <1>3, AlwaysTyped, PTL DEF Spec
-----------------------------------------------------------------------------
(* In step.  After k characters of a sentence that began at an idle parser *)
(* and lost nothing, the parser is where k characters put it.              *)

(* The digit of a half byte has that value.                                *)
LEMMA HexValOfDigit ==
  ASSUME NEW h \in 0 .. 15
  PROVE  IsHex(HexUpper[h + 1]) /\ HexVal(HexUpper[h + 1]) = h
<1>1. /\ Len(HexLower) = 16
      /\ \A i \in 1 .. 10 : HexLower[i] = HexUpper[i]
      /\ \A i \in 11 .. 16 : HexLower[i] \in {"a", "b", "c", "d", "e", "f"}
  <2> DEFINE letters == <<"a", "b", "c", "d", "e", "f">>
  <2>1. /\ Digits \in Seq(HexChars) /\ Len(Digits) = 10
        /\ \A i \in 1 .. 10 : Digits[i] = HexUpper[i]
    BY HexDigits DEF Digits, HexChars
  <2>2. /\ letters \in Seq({"a", "b", "c", "d", "e", "f"}) /\ Len(letters) = 6
        /\ \A i \in 1 .. 6 : letters[i] \in {"a", "b", "c", "d", "e", "f"}
    OBVIOUS
  <2>3. HexLower = Digits \o letters
    BY DEF HexLower
  <2> HIDE DEF letters
  <2>4. /\ Len(HexLower) = 16
        /\ \A i \in 1 .. 10 : HexLower[i] = Digits[i]
        /\ \A i \in 1 .. 6 : HexLower[10 + i] = letters[i]
    <3> DEFINE S == HexChars \cup {"a", "b", "c", "d", "e", "f"}
    <3>1. Digits \in Seq(S) /\ letters \in Seq(S)
      BY <2>1, <2>2
    <3> HIDE DEF S
    <3>2. /\ Len(HexLower) = Len(Digits) + Len(letters)
          /\ \A i \in 1 .. Len(Digits) : HexLower[i] = Digits[i]
          /\ \A i \in 1 .. Len(letters) : HexLower[Len(Digits) + i] = letters[i]
      BY <2>3, <3>1, ConcatIs
    <3>3. QED
      BY <2>1, <2>2, <3>2
  <2>5. ASSUME NEW i \in 11 .. 16 PROVE HexLower[i] \in {"a", "b", "c", "d", "e", "f"}
    <3>1. i - 10 \in 1 .. 6 /\ 10 + (i - 10) = i
      OBVIOUS
    <3>2. letters[i - 10] \in {"a", "b", "c", "d", "e", "f"}
      BY <2>2, <3>1
    <3>3. QED
      BY <2>4, <3>1, <3>2
  <2>6. QED
    BY <2>1, <2>4, <2>5
<1> DEFINE c == HexUpper[h + 1]
<1>2. h + 1 \in 1 .. 16 /\ h + 1 \in DOMAIN HexUpper
  BY HexDigits
<1>3. IsHex(c)
  BY <1>2 DEF IsHex, ToSet
<1>4. ASSUME NEW i \in 1 .. 16, c \in {HexUpper[i], HexLower[i]}
      PROVE  i = h + 1
  <2>1. \A j, k \in 1 .. 16 : HexUpper[j] = HexUpper[k] => j = k
    BY HexDigits, SMTT(60)
  <2>2. \A j \in 1 .. 16 : HexUpper[j] \notin {"a", "b", "c", "d", "e", "f"}
    BY HexDigits, SMTT(60)
  <2>3. CASE i \in 1 .. 10
    BY <1>1, <1>2, <1>4, <2>1, <2>3
  <2>4. CASE i \in 11 .. 16
    BY <1>1, <1>2, <1>4, <2>1, <2>2, <2>4
  <2>5. QED
    BY <2>3, <2>4
<1>5. c \in {HexUpper[h + 1], HexLower[h + 1]}
  OBVIOUS
<1> HIDE DEF c
<1>6. (CHOOSE i \in 1 .. 16 : c \in {HexUpper[i], HexLower[i]}) = h + 1
  BY <1>2, <1>4, <1>5
<1>7. HexVal(c) = (h + 1) - 1
  BY <1>6 DEF HexVal
<1>8. QED
  BY <1>3, <1>7 DEF c

Heard == Len(Line) - Len(left)

(* The first k characters of the text are stored.                          *)
Storing(k) ==
  /\ state = "DATA" /\ index = k
  /\ \A i \in 1 .. k : buffer[i - 1] = sent[i]
  /\ calc_checksum = Checksum(SubSeq(sent, 1, k))

Stored ==
  /\ index = Len(sent)
  /\ \A i \in 1 .. Len(sent) : buffer[i - 1] = sent[i]
  /\ Ended
  /\ calc_checksum = Checksum(sent)

InStep(k) ==
  /\ k = 0 => state = "IDLE"
  /\ k >= 1 /\ k <= Len(sent) + 1 /\ k <= MaxLen => Storing(k - 1)
  /\ Len(sent) < MaxLen =>
       /\ k = Len(sent) + 2 => state = "CHECKSUM_H" /\ Stored
       /\ k = Len(sent) + 3 => /\ state = "CHECKSUM_L" /\ Stored
                               /\ recv_checksum_hi = Checksum(sent) \div 16
       /\ k = Len(sent) + 4 => returned = "VALID" /\ Text(buffer) = sent
  /\ Len(sent) >= MaxLen /\ k > MaxLen /\ k <= Len(sent) + 4 =>
       state = "IDLE" /\ returned # "VALID"

InSyncInv == in_sync /\ missing = 0 => LeftIsEnd /\ InStep(Heard)

LEMMA FeedsDollar ==
  ASSUME sent \in Bodies, NEW k, k = 0,
         InStep(k), Feed("$"), sent' = sent
  PROVE  InStep(k + 1)'
<1>1. Len(sent) \in Nat /\ MaxLen \in Nat /\ MaxLen >= 6 /\ sent \in Seq(Char)
  BY CharFacts, NmeaStreamAssumption
<1>2. state' = "DATA" /\ index' = 0 /\ calc_checksum' = 0
  BY DEF InStep, Feed, FeedIdle, FeedStar, FeedLineEnd, FeedChar, FeedOverflow,
         FeedNoHex, FeedHigh, FeedLow, FeedEndOfLine
<1>3. SubSeq(sent, 1, 0) = <<>>
  BY SubSeqEmpty
<1>4. Storing(0)'
  <2>1. Checksum(SubSeq(sent, 1, 0)) = Checksum(<<>>)
    BY <1>3, Zenon
  <2>2. Checksum(SubSeq(sent, 1, 0)) = 0
    BY <2>1, ChecksumFolds
  <2>3. QED
    BY <1>2, <2>2 DEF Storing
<1>5. QED
  BY <1>1, <1>4 DEF InStep

LEMMA FeedsText ==
  ASSUME ParserTypeOK, sent \in Bodies,
         NEW k \in 1 .. Len(sent), k <= MaxLen,
         InStep(k), Feed(sent[k]), sent' = sent
  PROVE  InStep(k + 1)'
<1> DEFINE c == sent[k]
<1>1. /\ Len(sent) \in Nat /\ MaxLen \in Nat /\ MaxLen >= 6 /\ sent \in Seq(Char)
      /\ c \in Char /\ c \notin {"*", "CR", "LF"} /\ k \in Nat /\ k >= 1 /\ k <= Len(sent)
  BY CharFacts, NmeaStreamAssumption
<1>2. Storing(k - 1)
  BY <1>1 DEF InStep
<1>3. FeedChar(c) \/ FeedOverflow(c)
  BY <1>1, <1>2 DEF Storing, Feed, FeedIdle, FeedStar, FeedLineEnd, FeedNoHex, FeedHigh,
                    FeedLow, FeedEndOfLine
<1>4. CASE k < MaxLen
  <2>1. FeedChar(c)
    BY <1>1, <1>2, <1>3, <1>4 DEF Storing, FeedOverflow
  <2>2. /\ state' = "DATA" /\ index' = k
        /\ buffer' = [buffer EXCEPT ![k - 1] = c]
        /\ calc_checksum' = XorByte[<<Checksum(SubSeq(sent, 1, k - 1)), Code[c]>>]
    BY <1>1, <1>2, <2>1 DEF Storing, FeedChar
  <2>3. ASSUME NEW i \in 1 .. k PROVE buffer'[i - 1] = sent[i]
    <3>1. buffer \in [0 .. MaxLen - 1 -> Char] /\ i - 1 \in 0 .. MaxLen - 1
      BY <1>1, <1>4 DEF ParserTypeOK
    <3>2. CASE i = k
      BY <2>2, <3>1, <3>2
    <3>3. CASE i # k
      <4>1. i \in 1 .. k - 1 /\ i - 1 # k - 1
        BY <1>1, <3>3
      <4>2. QED
        BY <1>2, <2>2, <3>1, <4>1 DEF Storing
    <3>4. QED
      BY <3>2, <3>3
  <2>4. calc_checksum' = Checksum(SubSeq(sent, 1, k))
    <3>1. k - 1 \in Nat /\ k - 1 < Len(sent) /\ (k - 1) + 1 = k
      BY <1>1
    <3>2. /\ SubSeq(sent, 1, k - 1) \in Seq(Char)
          /\ SubSeq(sent, 1, k) = Append(SubSeq(sent, 1, k - 1), c)
      BY <1>1, <3>1, PrefixGrows
    <3>3. QED
      BY <1>1, <2>2, <3>2, ChecksumFolds
  <2>5. Storing(k)'
    BY <2>2, <2>3, <2>4 DEF Storing
  <2>6. (k + 1) - 1 = k /\ k + 1 <= Len(sent) + 1 /\ k + 1 <= MaxLen
    BY <1>1, <1>4
  <2>7. QED
    BY <1>1, <2>5, <2>6 DEF InStep
<1>5. CASE k = MaxLen
  <2>1. FeedOverflow(c)
    BY <1>1, <1>2, <1>3, <1>5 DEF Storing, FeedChar
  <2>2. state' = "IDLE" /\ returned' # "VALID" /\ Len(sent) >= MaxLen
    BY <1>1, <1>5, <2>1 DEF FeedOverflow
  <2>3. QED
    BY <1>1, <1>5, <2>2 DEF InStep
<1>6. QED
  BY <1>1, <1>4, <1>5

LEMMA FeedsStar ==
  ASSUME ParserTypeOK, sent \in Bodies, Len(sent) < MaxLen,
         NEW k, k = Len(sent) + 1, InStep(k), Feed("*"), sent' = sent
  PROVE  InStep(k + 1)'
<1> DEFINE n == Len(sent)
<1>1. /\ n \in Nat /\ MaxLen \in Nat /\ MaxLen >= 6 /\ sent \in Seq(Char) /\ n < MaxLen
      /\ buffer \in [0 .. MaxLen - 1 -> Char]
  BY CharFacts, NmeaStreamAssumption DEF ParserTypeOK
<1>2. Storing(n)
  <2>1. n + 1 >= 1 /\ n + 1 <= MaxLen /\ (n + 1) - 1 = n
    BY <1>1
  <2>2. QED
    BY <2>1 DEF InStep
<1>3. FeedStar("*")
  BY <1>2 DEF Storing, Feed, FeedIdle, FeedStar, FeedLineEnd, FeedChar, FeedOverflow,
              FeedNoHex, FeedHigh, FeedLow, FeedEndOfLine
<1>4. /\ state' = "CHECKSUM_H" /\ index' = n /\ calc_checksum' = calc_checksum
      /\ buffer' = [buffer EXCEPT ![n] = NUL]
  BY <1>2, <1>3 DEF FeedStar, Storing
<1>5. SubSeq(sent, 1, n) = sent
  BY <1>1
<1>6. ASSUME NEW i \in 1 .. n PROVE buffer'[i - 1] = sent[i]
  <2>1. i - 1 \in 0 .. MaxLen - 1 /\ i - 1 # n
    BY <1>1
  <2>2. QED
    BY <1>1, <1>2, <1>4, <2>1 DEF Storing
<1>7. buffer'[n] = NUL
  BY <1>1, <1>4
<1>8. Stored'
  BY <1>2, <1>4, <1>5, <1>6, <1>7 DEF Storing, Stored, Ended
<1>9. QED
  BY <1>1, <1>4, <1>8 DEF InStep

(* The checksum digits are the halves of the checksum.                     *)
LEMMA DigitsAre ==
  ASSUME NEW body \in Seq(Char)
  PROVE  LET crc == Checksum(body)
         IN  /\ crc \in Byte /\ crc \div 16 \in 0 .. 15 /\ crc % 16 \in 0 .. 15
             /\ 16 * (crc \div 16) + (crc % 16) = crc
             /\ IsHex(Digit1(body)) /\ HexVal(Digit1(body)) = crc \div 16
             /\ IsHex(Digit2(body)) /\ HexVal(Digit2(body)) = crc % 16
<1> DEFINE crc == Checksum(body)
<1>1. /\ crc \in 0 .. 255 /\ crc \div 16 \in 0 .. 15 /\ crc % 16 \in 0 .. 15
      /\ 16 * (crc \div 16) + (crc % 16) = crc
  <2>1. \A b \in 0 .. 255 :
          /\ b \div 16 \in 0 .. 15 /\ b % 16 \in 0 .. 15
          /\ 16 * (b \div 16) + (b % 16) = b
    OBVIOUS
  <2>2. crc \in 0 .. 255
    BY ChecksumIsByte DEF Byte
  <2> HIDE DEF crc
  <2>3. QED
    BY <2>1, <2>2
<1>2. /\ IsHex(Digit1(body)) /\ HexVal(Digit1(body)) = crc \div 16
      /\ IsHex(Digit2(body)) /\ HexVal(Digit2(body)) = crc % 16
  BY <1>1, HexValOfDigit DEF Digit1, Digit2
<1>3. QED
  BY <1>1, <1>2 DEF Byte

LEMMA FeedsDigits ==
  ASSUME ParserTypeOK, sent \in Bodies, Len(sent) < MaxLen,
         NEW k, InStep(k), sent' = sent
  PROVE  /\ k = Len(sent) + 2 /\ Feed(Digit1(sent)) => InStep(k + 1)'
         /\ k = Len(sent) + 3 /\ Feed(Digit2(sent)) => InStep(k + 1)'
<1> DEFINE n == Len(sent)
           crc == Checksum(sent)
<1>1. /\ n \in Nat /\ MaxLen \in Nat /\ MaxLen >= 6 /\ n < MaxLen
      /\ sent \in Seq(Printable) /\ sent \in Seq(Char)
  <2>1. sent \in Seq(Char \ {NUL, "CR", "LF", "$", "*"})
    BY NmeaStreamAssumption
  <2>2. sent \in Seq(Printable) /\ sent \in Seq(Char)
    BY <2>1 DEF Printable
  <2>3. QED
    BY <2>2, CharFacts
<1>2. /\ 16 * (crc \div 16) + (crc % 16) = crc
      /\ IsHex(Digit1(sent)) /\ HexVal(Digit1(sent)) = crc \div 16
      /\ IsHex(Digit2(sent)) /\ HexVal(Digit2(sent)) = crc % 16
  BY <1>1, DigitsAre
<1>3. crc \in Byte
  BY <1>1, DigitsAre
<1>4. ASSUME k = n + 2, Feed(Digit1(sent)) PROVE InStep(k + 1)'
  <2>1. state = "CHECKSUM_H" /\ Stored
    BY <1>1, <1>4 DEF InStep
  <2>2. FeedHigh(Digit1(sent))
    BY <1>2, <1>4, <2>1 DEF Feed, FeedIdle, FeedStar, FeedLineEnd, FeedChar, FeedOverflow,
                            FeedNoHex, FeedLow, FeedEndOfLine
  <2>3. state' = "CHECKSUM_L" /\ Stored' /\ recv_checksum_hi' = crc \div 16
    BY <1>2, <2>1, <2>2 DEF FeedHigh, Stored, Ended
  <2>4. QED
    BY <1>1, <1>4, <2>3 DEF InStep
<1>5. ASSUME k = n + 3, Feed(Digit2(sent)) PROVE InStep(k + 1)'
  <2>1. state = "CHECKSUM_L" /\ Stored /\ recv_checksum_hi = crc \div 16
    BY <1>1, <1>5 DEF InStep
  <2>2. FeedLow(Digit2(sent))
    <3>1. Feed(Digit2(sent)) /\ state = "CHECKSUM_L" /\ IsHex(Digit2(sent))
      BY <1>2, <1>5, <2>1
    <3>2. QED
      BY <3>1, SMTT(30) DEF Feed, FeedIdle, FeedStar, FeedLineEnd, FeedChar, FeedOverflow,
                            FeedNoHex, FeedHigh, FeedEndOfLine
  <2>3. returned' = "VALID" /\ buffer' = buffer
    BY <1>2, <1>3, <2>1, <2>2 DEF FeedLow, Stored
  <2>4. Text(buffer) = sent
    <3>1. index = n /\ Ended
      BY <2>1 DEF Stored
    <3>2. ASSUME NEW i \in 0 .. MaxLen - 1, i < index PROVE buffer[i] # NUL
      <4>1. i + 1 \in 1 .. n /\ (i + 1) - 1 = i
        BY <1>1, <3>1, <3>2
      <4>2. buffer[i] = sent[i + 1] /\ sent[i + 1] \in Printable
        BY <1>1, <2>1, <4>1 DEF Stored
      <4>3. QED
        BY <4>2 DEF Printable
    <3>3. Text(buffer) = [i \in 1 .. n |-> buffer[i - 1]]
      BY <3>1, <3>2, TextIs DEF Filled
    <3>4. [i \in 1 .. n |-> buffer[i - 1]] = [i \in 1 .. n |-> sent[i]]
      BY <2>1 DEF Stored
    <3>5. sent = [i \in 1 .. n |-> sent[i]]
      BY <1>1
    <3>6. QED
      BY <3>3, <3>4, <3>5
  <2>5. QED
    BY <1>1, <1>5, <2>3, <2>4 DEF InStep
<1>6. QED
  BY <1>4, <1>5

LEMMA FeedsRefused ==
  ASSUME sent \in Bodies, Len(sent) >= MaxLen,
         NEW k \in Nat, k > MaxLen, k <= Len(sent) + 3, NEW c, c # "$",
         InStep(k), Feed(c), sent' = sent
  PROVE  InStep(k + 1)'
<1>1. Len(sent) \in Nat /\ MaxLen \in Nat /\ MaxLen >= 6
  BY CharFacts, NmeaStreamAssumption
<1>2. state = "IDLE"
  BY <1>1 DEF InStep
<1>3. state' = "IDLE" /\ returned' # "VALID"
  BY <1>2 DEF Feed, FeedIdle, FeedStar, FeedLineEnd, FeedChar, FeedOverflow,
              FeedNoHex, FeedHigh, FeedLow, FeedEndOfLine
<1>4. QED
  BY <1>1, <1>3 DEF InStep

(* The line of the sentence being sent.                                    *)
LEMMA SentIs ==
  ASSUME sent \in Bodies, line_end \in LineEnds
  PROVE  LET n == Len(sent)
         IN  /\ n \in Nat /\ sent \in Seq(Printable \ {"$", "*", "CR", "LF"})
             /\ Len(line_end) \in Nat
             /\ Line \in Seq(Printable) /\ Len(Line) = n + 4 + Len(line_end)
             /\ Line[1] = "$" /\ Line[n + 2] = "*"
             /\ Line[n + 3] = Digit1(sent) /\ Line[n + 4] = Digit2(sent)
             /\ \A i \in 1 .. n : Line[1 + i] = sent[i]
             /\ \A i \in (n + 5) .. Len(Line) : Line[i] \in {"CR", "LF"}
             /\ \A i \in 2 .. Len(Line) : Line[i] # "$"
<1> DEFINE n == Len(sent)
           m == Len(line_end)
<1>1. /\ n \in Nat /\ sent \in Seq(Printable \ {"$", "*", "CR", "LF"})
      /\ line_end \in Seq({"CR", "LF"})
  BY LineIs
<1>2. Line \in Seq(Printable) /\ Len(Line) = n + 4 + m
  BY LineIs DEF Line
<1>3. /\ Line[1] = "$" /\ Line[n + 2] = "*"
      /\ Line[n + 3] = Digit1(sent) /\ Line[n + 4] = Digit2(sent)
      /\ Digit1(sent) # "$" /\ Digit2(sent) # "$"
      /\ \A i \in 1 .. n : Line[1 + i] = sent[i]
      /\ \A i \in 1 .. m : Line[(n + 4) + i] = line_end[i]
  BY LineIs DEF Line
<1>4. m \in Nat /\ \A i \in 1 .. m : line_end[i] \in {"CR", "LF"}
  BY <1>1
<1>5. \A i \in 1 .. n : sent[i] # "$"
  BY <1>1
<1> HIDE DEF n, m
<1>6. ASSUME NEW i \in (n + 5) .. Len(Line) PROVE Line[i] \in {"CR", "LF"}
  <2>1. i - (n + 4) \in 1 .. m /\ (n + 4) + (i - (n + 4)) = i
    BY <1>1, <1>2, <1>4 DEF n
  <2>2. QED
    BY <1>3, <1>4, <2>1
<1>7. ASSUME NEW i \in 2 .. Len(Line) PROVE Line[i] # "$"
  <2>1. CASE i <= n + 1
    <3>1. i - 1 \in 1 .. n /\ 1 + (i - 1) = i
      BY <1>1, <2>1 DEF n
    <3>2. QED
      BY <1>3, <1>5, <3>1
  <2>2. CASE i \in {n + 2, n + 3, n + 4}
    BY <1>3, <2>2
  <2>3. CASE i >= n + 5
    <3>1. i \in (n + 5) .. Len(Line)
      BY <1>1, <1>2, <1>4, <2>3 DEF n
    <3>2. QED
      BY <1>6, <3>1
  <2>4. QED
    BY <1>1, <2>1, <2>2, <2>3 DEF n
<1>8. QED
  BY <1>1, <1>2, <1>3, <1>4, <1>6, <1>7 DEF n, m

(* One character fewer is left, sent or lost.                              *)
LEMMA EndMoves ==
  ASSUME sent \in Bodies, line_end \in LineEnds, LeftInv, LeftIsEnd, left # <<>>,
         sent' = sent, line_end' = line_end, left' = Tail(left)
  PROVE  /\ Heard \in Nat /\ Heard + 1 <= Len(Line) /\ Head(left) = Line[Heard + 1]
         /\ LeftIsEnd' /\ Heard' = Heard + 1
<1>1. Line' = Line /\ Len(Line) \in Nat
  <2>1. Len(Line) \in Nat
    BY SentIs
  <2>2. QED
    BY <2>1 DEF Line
<1>2. /\ left \in Seq(Printable) /\ Len(left) \in Nat /\ Len(left) >= 1
      /\ Head(left) = left[1] /\ Len(left') = Len(left) - 1
      /\ \A i \in 1 .. Len(left') : left'[i] = left[i + 1]
  BY DEF LeftInv
<1>3. Heard' = Heard + 1
  <2>1. Heard' = Len(Line) - Len(left')
    BY <1>1 DEF Heard
  <2>2. QED
    BY <1>1, <1>2, <2>1 DEF Heard
<1>4. Heard \in Nat /\ Heard + 1 <= Len(Line) /\ Head(left) = Line[Heard + 1]
  BY <1>1, <1>2 DEF LeftIsEnd, Heard
<1>5. LeftIsEnd'
  <2>1. ASSUME NEW i \in 1 .. Len(left')
        PROVE  left'[i] = Line[(Len(Line) - Len(left')) + i]
    <3>1. i + 1 \in 1 .. Len(left)
          /\ (Len(Line) - Len(left)) + (i + 1) = (Len(Line) - Len(left')) + i
      BY <1>1, <1>2
    <3>2. QED
      BY <1>2, <3>1 DEF LeftIsEnd
  <2>2. Len(left') <= Len(Line)
    BY <1>1, <1>2 DEF LeftIsEnd
  <2>3. QED
    BY <1>1, <2>1, <2>2 DEF LeftIsEnd
<1>6. QED
  BY <1>3, <1>4, <1>5

LEMMA InSyncSend ==
  ASSUME TypeOK, LeftInv, InSyncInv, SendChar,
         in_sync, missing = 0
  PROVE  LeftIsEnd' /\ InStep(Heard)'
<1> DEFINE n == Len(sent)
           c == Head(left)
           m == Len(line_end)
<1>1. /\ sent \in Bodies /\ line_end \in LineEnds /\ ParserTypeOK
      /\ sent' = sent /\ line_end' = line_end /\ left' = Tail(left) /\ Feed(c)
      /\ LeftIsEnd /\ InStep(Heard)
  BY DEF TypeOK, SendChar, InSyncInv
<1>2. /\ n \in Nat /\ m \in Nat /\ Line \in Seq(Printable) /\ Len(Line) = n + 4 + m
      /\ Line[1] = "$" /\ Line[n + 2] = "*"
      /\ Line[n + 3] = Digit1(sent) /\ Line[n + 4] = Digit2(sent)
      /\ \A i \in 1 .. n : Line[1 + i] = sent[i]
      /\ \A i \in 2 .. Len(Line) : Line[i] # "$"
  BY <1>1, SentIs
<1>3. /\ Heard \in Nat /\ Heard + 1 <= Len(Line) /\ c = Line[Heard + 1]
      /\ LeftIsEnd' /\ Heard' = Heard + 1
  BY <1>1, EndMoves DEF SendChar
<1>4. PICK k \in Nat : k = Heard /\ k + 1 <= Len(Line) /\ Heard' = k + 1
  BY <1>3
<1>5. c = Line[k + 1] /\ InStep(k)
  BY <1>1, <1>3, <1>4
<1> HIDE DEF c, m
<1>6. MaxLen \in Nat /\ MaxLen >= 6
  BY CharFacts
<1>7. InStep(k + 1)'
  <2>1. CASE k = 0
    <3>1. c = "$"
      BY <1>2, <1>5, <2>1
    <3>2. QED
      BY <1>1, <1>5, <2>1, <3>1, FeedsDollar DEF c
  <2>2. CASE k \in 1 .. n /\ k <= MaxLen
    <3>1. c = sent[k]
      BY <1>2, <1>5, <2>2
    <3>2. QED
      BY <1>1, <1>5, <1>6, <2>2, <3>1, FeedsText DEF c
  <2>3. CASE n < MaxLen /\ k = n + 1
    <3>1. c = "*" /\ k + 1 = n + 2
      BY <1>2, <1>5, <2>3
    <3>2. QED
      BY <1>1, <1>5, <1>6, <2>3, <3>1, FeedsStar DEF c
  <2>4. CASE n < MaxLen /\ k = n + 2
    <3>1. c = Digit1(sent) /\ k + 1 = n + 3
      BY <1>2, <1>5, <2>4
    <3>2. QED
      BY <1>1, <1>5, <1>6, <2>4, <3>1, FeedsDigits DEF c
  <2>5. CASE n < MaxLen /\ k = n + 3
    <3>1. c = Digit2(sent) /\ k + 1 = n + 4
      BY <1>2, <1>5, <2>5
    <3>2. QED
      BY <1>1, <1>5, <1>6, <2>5, <3>1, FeedsDigits DEF c
  <2>6. CASE n >= MaxLen /\ k > MaxLen /\ k <= n + 3
    <3>1. c # "$"
      <4>1. k + 1 \in 2 .. Len(Line)
        BY <1>4, <1>6, <2>6
      <4>2. QED
        BY <1>2, <1>5, <4>1
    <3>2. QED
      BY <1>1, <1>5, <1>4, <1>6, <2>6, <3>1, FeedsRefused DEF c
  <2>7. CASE k >= n + 4
    BY <1>1, <1>2, <1>4, <1>6, <2>7 DEF InStep
  <2>8. QED
    BY <1>2, <1>4, <1>6, <2>1, <2>2, <2>3, <2>4, <2>5, <2>6, <2>7
<1>8. InStep(Heard)'
  BY <1>4, <1>7 DEF InStep, Storing, Stored, Ended
<1>9. QED
  BY <1>3, <1>8

LEMMA InSyncStep ==
  ASSUME TypeOK, LeftInv, InSyncInv, [Next]_vars
  PROVE  InSyncInv'
<1>1. CASE BeginSentence
  <2>1. /\ left' = Line' /\ sent' \in Bodies /\ line_end' \in LineEnds
        /\ in_sync' => state' = "IDLE"
    BY <1>1 DEF BeginSentence, Line, nmeaVars
  <2>2. /\ Len(Line') \in Nat /\ Len(sent') \in Nat
        /\ MaxLen \in Nat /\ MaxLen >= 6
    <3>1. Line' \in Seq(Printable) /\ Len(sent') \in Nat
      BY <2>1, LineIs DEF Line
    <3>2. QED
      BY <3>1, CharFacts
  <2>3. LeftIsEnd' /\ Heard' = 0
    BY <2>1, <2>2 DEF LeftIsEnd, Heard
  <2>4. in_sync' => InStep(0)'
    BY <2>1, <2>2 DEF InStep
  <2>5. QED
    BY <2>3, <2>4 DEF InSyncInv, InStep
<1>2. CASE SendChar
  <2>1. (in_sync' <=> in_sync) /\ missing' = missing
    BY <1>2 DEF SendChar
  <2>2. QED
    BY <1>2, <2>1, InSyncSend DEF InSyncInv
<1>3. CASE Lose
  <2>1. missing' # 0
    BY <1>3 DEF Lose, TypeOK, LeftInv
  <2>2. QED
    BY <2>1 DEF InSyncInv
<1>4. CASE UNCHANGED vars
  BY <1>4 DEF vars, nmeaVars, InSyncInv, LeftIsEnd, Heard, Line, InStep, Storing, Stored, Ended
<1>5. QED
  BY <1>1, <1>2, <1>3, <1>4 DEF Next

(* A sentence of any length that begins at an idle parser and loses        *)
(* nothing is accepted as sent, or refused for its length, whatever the    *)
(* sentences before it left behind (nmea_parser.c:429-500).                *)
THEOREM InSyncAccepted == Spec => []InSyncIsAccepted
<1>1. Init => InSyncInv
  BY DEF Init, InSyncInv
<1>2. TypeOK /\ LeftInv /\ InSyncInv /\ [Next]_vars => InSyncInv'
  BY InSyncStep
<1>3. TypeOK /\ InSyncInv => InSyncIsAccepted
  <2>1. SUFFICES ASSUME TypeOK, InSyncInv, in_sync, JustComplete
                 PROVE  IF Len(sent) < MaxLen
                        THEN returned = "VALID" /\ Text(buffer) = sent
                        ELSE returned # "VALID" /\ state = "IDLE"
    BY DEF InSyncIsAccepted
  <2>2. /\ Len(sent) \in Nat /\ Len(line_end) \in Nat
        /\ Len(Line) = Len(sent) + 4 + Len(line_end) /\ MaxLen \in Nat
    <3>1. /\ sent \in Bodies /\ line_end \in LineEnds
          /\ line_end \in Seq({"CR", "LF"})
      BY <2>1, NmeaStreamAssumption DEF TypeOK
    <3>2. QED
      BY <3>1, LineIs, CharFacts DEF Line
  <2>3. Heard = Len(sent) + 4 /\ InStep(Heard)
    BY <2>1, <2>2 DEF JustComplete, InSyncInv, Heard
  <2>4. QED
    BY <2>2, <2>3 DEF InStep
<1>4. QED
  BY <1>1, <1>2, <1>3, AlwaysTyped, PTL DEF Spec
-----------------------------------------------------------------------------
(* One loss.  After k characters of a sentence, one of them lost, the      *)
(* parser is idle, or its checksum is not the one that is coming, or it is *)
(* one character behind and does not catch up.                             *)

AtEnd ==
  /\ state \in {"IDLE", "CR", "LF"}
  /\ returned = "VALID" => Text(buffer) = sent

OneLost(k) ==
  \/ state = "IDLE"
  \/ /\ k <= Len(sent) + 1 /\ state = "DATA"
     /\ calc_checksum # Checksum(SubSeq(sent, 1, k - 1))
  \/ k = Len(sent) + 2 /\ state = "CHECKSUM_H" /\ calc_checksum # Checksum(sent)
  \/ /\ k = Len(sent) + 3 /\ state = "CHECKSUM_L" /\ calc_checksum # Checksum(sent)
     /\ recv_checksum_hi = Checksum(sent) \div 16
  \/ k >= Len(sent) + 2 /\ state = "DATA"
  \/ k = Len(sent) + 3 /\ state = "CHECKSUM_H"
  \/ k = Len(sent) + 4 /\ state = "CHECKSUM_L"
  \/ k >= Len(sent) + 4 /\ AtEnd

LossInv ==
  in_sync =>
    /\ missing = 0 /\ Heard >= Len(sent) + 4 => AtEnd
    /\ missing = 1 => LeftIsEnd /\ Heard >= 1 /\ OneLost(Heard)

(* The exclusive or with a byte can be undone, and of two of them changes  *)
(* the first unless the second is zero.                                    *)
LEMMA XorDiffers ==
  ASSUME NEW x \in Byte, NEW y \in Byte, NEW c \in Printable
  PROVE  /\ XorByte[<<x, Code[c]>>] = XorByte[<<y, Code[c]>>] => x = y
         /\ XorByte[<<x, Code[c]>>] # x
<1>1. Code[c] \in Byte /\ Code[c] # 0
  <2>1. c \in Char /\ c \in Char \ {NUL}
    BY DEF Printable
  <2>2. QED
    BY <2>1, CharFacts, NmeaStreamAssumption
<1> DEFINE b == Code[c]
<1>2. b \in Byte /\ b # 0
  BY <1>1
<1> HIDE DEF b
<1>3. /\ XorByte[<<XorByte[<<x, b>>], b>>] = x
      /\ XorByte[<<XorByte[<<y, b>>], b>>] = y
      /\ XorByte[<<x, b>>] # x
  BY <1>2, NmeaStreamAssumption
<1>4. QED
  BY <1>3 DEF b

(* The next prefix of the text and its checksum.                           *)
LEMMA PrefixChecksum ==
  ASSUME sent \in Bodies, NEW k \in 1 .. Len(sent)
  PROVE  LET before == Checksum(SubSeq(sent, 1, k - 1))
         IN  /\ before \in Byte /\ sent[k] \in Printable /\ sent[k] \in Char
             /\ sent[k] \notin {"*", "CR", "LF", "$"}
             /\ Checksum(SubSeq(sent, 1, k)) = XorByte[<<before, Code[sent[k]]>>]
<1>1. /\ sent \in Seq(Char) /\ Len(sent) \in Nat /\ sent[k] \in Char \ {NUL}
      /\ sent[k] \notin {"*", "CR", "LF", "$"}
  BY NmeaStreamAssumption
<1>2. k - 1 \in Nat /\ k - 1 < Len(sent) /\ (k - 1) + 1 = k
  BY <1>1
<1>3. /\ SubSeq(sent, 1, k - 1) \in Seq(Char)
      /\ SubSeq(sent, 1, k) = Append(SubSeq(sent, 1, k - 1), sent[k])
  BY <1>1, <1>2, PrefixGrows
<1>4. Checksum(SubSeq(sent, 1, k - 1)) \in Byte
  BY <1>3, ChecksumIsByte
<1>5. QED
  BY <1>1, <1>3, <1>4, ChecksumFolds DEF Printable

(* What the loss of the next character makes of a parser in step.          *)
LEMMA LossIsBehind ==
  ASSUME ParserTypeOK, sent \in Bodies,
         NEW k \in Nat, InStep(k), k >= Len(sent) + 4 => AtEnd
  PROVE  OneLost(k + 1)
<1> DEFINE n == Len(sent)
<1>1. n \in Nat /\ MaxLen \in Nat /\ MaxLen >= 6 /\ sent \in Seq(Char)
  BY CharFacts, NmeaStreamAssumption
<1>2. CASE k = 0
  BY <1>2 DEF InStep, OneLost
<1>3. CASE k \in 1 .. n /\ k <= MaxLen
  <2>1. state = "DATA" /\ calc_checksum = Checksum(SubSeq(sent, 1, k - 1))
    BY <1>1, <1>3 DEF InStep, Storing
  <2>2. Checksum(SubSeq(sent, 1, k)) # calc_checksum
    BY <1>3, <2>1, PrefixChecksum, XorDiffers
  <2>3. k + 1 <= n + 1 /\ (k + 1) - 1 = k
    BY <1>1, <1>3
  <2>4. QED
    BY <2>1, <2>2, <2>3 DEF OneLost
<1>4. CASE k = n + 1 /\ n < MaxLen
  BY <1>1, <1>4 DEF InStep, Storing, OneLost
<1>5. CASE k = n + 2 /\ n < MaxLen
  BY <1>1, <1>5 DEF InStep, OneLost
<1>6. CASE k = n + 3 /\ n < MaxLen
  BY <1>1, <1>6 DEF InStep, OneLost
<1>7. CASE n >= MaxLen /\ k > MaxLen /\ k <= n + 4
  BY <1>7 DEF InStep, OneLost
<1>8. CASE k >= n + 4
  BY <1>1, <1>8 DEF OneLost
<1>9. QED
  BY <1>1, <1>2, <1>3, <1>4, <1>5, <1>6, <1>7, <1>8

(* A parser that is behind stays behind.                                   *)
LEMMA BehindSend ==
  ASSUME ParserTypeOK, sent \in Bodies, line_end \in LineEnds, sent' = sent,
         NEW k \in Nat, k >= 1, k + 1 <= Len(Line), OneLost(k), Feed(Line[k + 1])
  PROVE  OneLost(k + 1)'
<1> DEFINE n == Len(sent)
           c == Line[k + 1]
           crc == Checksum(sent)
<1>1. /\ n \in Nat /\ c # "$"
      /\ k <= n => c = sent[k]
      /\ k = n + 1 => c = "*"
      /\ k = n + 2 => c = Digit1(sent)
      /\ k = n + 3 => c = Digit2(sent)
      /\ k >= n + 4 => c \in {"CR", "LF"}
  <2>1. n \in Nat /\ Len(line_end) \in Nat /\ Len(Line) = n + 4 + Len(line_end)
    BY SentIs
  <2>2. /\ Line[n + 2] = "*" /\ Line[n + 3] = Digit1(sent) /\ Line[n + 4] = Digit2(sent)
        /\ \A i \in 1 .. n : Line[1 + i] = sent[i]
        /\ \A i \in (n + 5) .. Len(Line) : Line[i] \in {"CR", "LF"}
        /\ \A i \in 2 .. Len(Line) : Line[i] # "$"
    BY SentIs
  <2>3. k + 1 \in 2 .. Len(Line)
    BY <2>1
  <2>4. ASSUME k <= n PROVE c = sent[k]
    BY <2>1, <2>2, <2>4
  <2>5. ASSUME k >= n + 4 PROVE c \in {"CR", "LF"}
    <3>1. k + 1 \in (n + 5) .. Len(Line)
      BY <2>1, <2>3, <2>5
    <3>2. QED
      BY <2>2, <3>1
  <2>6. QED
    BY <2>1, <2>2, <2>3, <2>4, <2>5
<1>2. /\ sent \in Seq(Char) /\ crc \in Byte
      /\ 16 * (crc \div 16) + (crc % 16) = crc
      /\ IsHex(Digit1(sent)) /\ HexVal(Digit1(sent)) = crc \div 16
      /\ IsHex(Digit2(sent)) /\ HexVal(Digit2(sent)) = crc % 16
  <2>1. sent \in Seq(Char)
    BY NmeaStreamAssumption
  <2>2. QED
    BY <2>1, DigitsAre
<1>3. /\ ~IsHex("*") /\ ~IsHex("CR") /\ ~IsHex("LF")
  BY DEF IsHex, ToSet, HexUpper, HexLower, Digits
<1> HIDE DEF c, n, crc
<1>4. Feed(c)
  BY DEF c
<1>5. CASE state = "IDLE"
  <2>1. state' = "IDLE"
    BY <1>1, <1>4, <1>5 DEF Feed, FeedIdle, FeedStar, FeedLineEnd, FeedChar, FeedOverflow,
                            FeedNoHex, FeedHigh, FeedLow, FeedEndOfLine
  <2>2. QED
    BY <2>1 DEF OneLost
<1>6. CASE /\ k <= n /\ state = "DATA"
           /\ calc_checksum # Checksum(SubSeq(sent, 1, k - 1))
  <2>1. /\ c \in Printable /\ c \notin {"*", "CR", "LF", "$"}
        /\ Checksum(SubSeq(sent, 1, k - 1)) \in Byte /\ calc_checksum \in Byte
        /\ Checksum(SubSeq(sent, 1, k)) = XorByte[<<Checksum(SubSeq(sent, 1, k - 1)), Code[c]>>]
    <3>1. c = sent[k] /\ k \in 1 .. Len(sent)
      BY <1>1, <1>6 DEF n
    <3>2. QED
      BY <3>1, PrefixChecksum DEF ParserTypeOK
  <2>2. FeedChar(c) \/ FeedOverflow(c)
    BY <1>4, <1>6, <2>1 DEF Feed, FeedIdle, FeedStar, FeedLineEnd, FeedNoHex, FeedHigh,
                            FeedLow, FeedEndOfLine
  <2>3. CASE FeedOverflow(c)
    BY <2>3 DEF FeedOverflow, OneLost
  <2>4. CASE FeedChar(c)
    <3>1. state' = "DATA" /\ calc_checksum' = XorByte[<<calc_checksum, Code[c]>>]
      BY <1>6, <2>4 DEF FeedChar
    <3>2. calc_checksum' # Checksum(SubSeq(sent, 1, k))
      BY <1>6, <2>1, <3>1, XorDiffers
    <3>3. k + 1 <= n + 1 /\ (k + 1) - 1 = k
      BY <1>1, <1>6
    <3>4. QED
      BY <3>1, <3>2, <3>3 DEF OneLost, n
  <2>5. QED
    BY <2>2, <2>3, <2>4
<1>7. CASE /\ k = n + 1 /\ state = "DATA"
           /\ calc_checksum # Checksum(SubSeq(sent, 1, k - 1))
  <2>1. SubSeq(sent, 1, k - 1) = sent
    <3>1. k - 1 = Len(sent)
      BY <1>1, <1>7 DEF n
    <3>2. QED
      BY <1>2, <3>1
  <2>2. state' = "CHECKSUM_H" /\ calc_checksum' = calc_checksum
    BY <1>1, <1>4, <1>7 DEF Feed, FeedIdle, FeedStar, FeedLineEnd, FeedChar, FeedOverflow,
                            FeedNoHex, FeedHigh, FeedLow, FeedEndOfLine
  <2>3. k + 1 = n + 2
    BY <1>1, <1>7
  <2>4. QED
    BY <1>7, <2>1, <2>2, <2>3 DEF OneLost, n
<1>8. CASE k = n + 2 /\ state = "CHECKSUM_H" /\ calc_checksum # crc
  <2>1. FeedHigh(c)
    BY <1>1, <1>2, <1>4, <1>8 DEF Feed, FeedIdle, FeedStar, FeedLineEnd, FeedChar,
                                  FeedOverflow, FeedNoHex, FeedLow, FeedEndOfLine
  <2>2. state' = "CHECKSUM_L" /\ calc_checksum' = calc_checksum /\ recv_checksum_hi' = crc \div 16
    BY <1>1, <1>2, <1>8, <2>1 DEF FeedHigh
  <2>3. k + 1 = n + 3
    BY <1>1, <1>8
  <2>4. QED
    BY <1>8, <2>2, <2>3 DEF OneLost, n, crc
<1>9. CASE /\ k = n + 3 /\ state = "CHECKSUM_L" /\ calc_checksum # crc
           /\ recv_checksum_hi = crc \div 16
  <2>1. FeedLow(c)
    BY <1>1, <1>2, <1>4, <1>9 DEF Feed, FeedIdle, FeedStar, FeedLineEnd, FeedChar,
                                  FeedOverflow, FeedNoHex, FeedHigh, FeedEndOfLine
  <2>2. state' = "CR" /\ returned' = "INVALID_CHECKSUM"
    BY <1>1, <1>2, <1>9, <2>1 DEF FeedLow
  <2>3. k + 1 >= n + 4
    BY <1>1, <1>9
  <2>4. QED
    BY <2>2, <2>3 DEF OneLost, AtEnd, n
<1>10. CASE k >= n + 2 /\ state = "DATA"
  <2>1. c # "*"
    BY <1>1, <1>2, <1>3, <1>10
  <2>2. state' \in {"DATA", "IDLE"}
    BY <1>4, <1>10, <2>1 DEF Feed, FeedIdle, FeedStar, FeedLineEnd, FeedChar, FeedOverflow,
                             FeedNoHex, FeedHigh, FeedLow, FeedEndOfLine
  <2>3. k + 1 >= n + 2
    BY <1>1, <1>10
  <2>4. QED
    BY <2>2, <2>3 DEF OneLost, n
<1>11. CASE k = n + 3 /\ state = "CHECKSUM_H"
  <2>1. state' \in {"CHECKSUM_L", "IDLE"}
    BY <1>1, <1>4, <1>11, CharSettles
  <2>2. k + 1 = n + 4
    BY <1>1, <1>11
  <2>3. QED
    BY <2>1, <2>2 DEF OneLost, n
<1>12. CASE k = n + 4 /\ state = "CHECKSUM_L"
  <2>1. ~IsHex(c)
    BY <1>1, <1>3, <1>12
  <2>2. state' = "IDLE"
    BY <1>4, <1>12, <2>1 DEF Feed, FeedIdle, FeedStar, FeedLineEnd, FeedChar, FeedOverflow,
                             FeedNoHex, FeedHigh, FeedLow, FeedEndOfLine
  <2>3. QED
    BY <2>2 DEF OneLost
<1>13. CASE k >= n + 4 /\ AtEnd /\ state # "IDLE"
  <2>1. state' \in {"IDLE", "LF"} /\ returned' # "VALID"
    BY <1>4, <1>13 DEF AtEnd, Feed, FeedIdle, FeedStar, FeedLineEnd, FeedChar, FeedOverflow,
                       FeedNoHex, FeedHigh, FeedLow, FeedEndOfLine
  <2>2. k + 1 >= n + 4
    BY <1>1, <1>13
  <2>3. QED
    BY <2>1, <2>2 DEF OneLost, AtEnd, n
<1>14. QED
  <2>1. k <= n \/ k = n + 1 \/ ~(k <= n + 1)
    BY <1>1
  <2>2. QED
    BY <1>5, <1>6, <1>7, <1>8, <1>9, <1>10, <1>11, <1>12, <1>13, <2>1 DEF OneLost, n, crc

(* Nothing lost: past the digits the parser waits for the line end.        *)
LEMMA InStepEnds ==
  ASSUME TypeOK, LeftInv, InSyncInv, InSyncInv', NameInv', LossInv, SendChar,
         in_sync, missing = 0, Heard' >= Len(sent) + 4
  PROVE  AtEnd'
<1> DEFINE n == Len(sent)
           c == Head(left)
<1>1. /\ sent \in Bodies /\ line_end \in LineEnds
      /\ sent' = sent /\ line_end' = line_end /\ left' = Tail(left) /\ Feed(c)
      /\ left # <<>> /\ LeftIsEnd /\ in_sync' /\ missing' = 0
  BY DEF TypeOK, SendChar, InSyncInv
<1>2. /\ n \in Nat /\ \A i \in 2 .. Len(Line) : Line[i] # "$"
      /\ Len(Line) \in Nat /\ MaxLen \in Nat
  BY <1>1, SentIs, CharFacts
<1>3. /\ Heard \in Nat /\ Heard + 1 <= Len(Line) /\ c = Line[Heard + 1]
      /\ Heard' = Heard + 1
  BY <1>1, EndMoves
<1> HIDE DEF n, c
<1>4. CASE Heard >= n + 4
  <2>1. AtEnd
    BY <1>4 DEF LossInv, n
  <2>2. c # "$"
    <3>1. Heard + 1 \in 2 .. Len(Line)
      BY <1>2, <1>3, <1>4
    <3>2. QED
      BY <1>2, <1>3, <3>1
  <2>3. state' \in {"IDLE", "LF"} /\ returned' # "VALID"
    BY <1>1, <2>1, <2>2 DEF AtEnd, Feed, FeedIdle, FeedStar, FeedLineEnd, FeedChar,
                            FeedOverflow, FeedNoHex, FeedHigh, FeedLow, FeedEndOfLine
  <2>4. QED
    BY <2>3 DEF AtEnd
<1>5. CASE Heard < n + 4
  <2>1. Heard' = n + 4
    BY <1>2, <1>3, <1>5 DEF n
  <2>2. InStep(Heard)'
    BY <1>1 DEF InSyncInv
  <2>3. CASE n < MaxLen
    <3>1. returned' = "VALID" /\ Text(buffer)' = sent'
      BY <1>1, <2>1, <2>2, <2>3 DEF InStep, n
    <3>2. state' = "CR"
      BY <3>1 DEF NameInv
    <3>3. QED
      BY <3>1, <3>2 DEF AtEnd
  <2>4. CASE ~(n < MaxLen)
    <3>1. state' = "IDLE" /\ returned' # "VALID"
      BY <1>1, <1>2, <2>1, <2>2, <2>4 DEF InStep, n
    <3>2. QED
      BY <3>1 DEF AtEnd
  <2>5. QED
    BY <2>3, <2>4
<1>6. QED
  BY <1>2, <1>3, <1>4, <1>5

LEMMA LossStep ==
  ASSUME TypeOK, LeftInv, InSyncInv, InSyncInv', NameInv', LossInv, [Next]_vars
  PROVE  LossInv'
<1>1. CASE BeginSentence
  <2>1. left' = Line' /\ sent' \in Bodies /\ line_end' \in LineEnds /\ missing' = 0
    BY <1>1 DEF BeginSentence, Line
  <2>2. Len(Line') \in Nat /\ Len(sent') \in Nat
    <3>1. Line' \in Seq(Printable) /\ Len(sent') \in Nat
      BY <2>1, LineIs DEF Line
    <3>2. QED
      BY <3>1
  <2>3. Heard' = 0
    BY <2>1, <2>2 DEF Heard
  <2>4. QED
    BY <2>1, <2>2, <2>3 DEF LossInv
<1>2. CASE SendChar
  <2>1. SUFFICES ASSUME in_sync
                 PROVE  /\ missing = 0 /\ Heard' >= Len(sent) + 4 => AtEnd'
                        /\ missing = 1 => LeftIsEnd' /\ Heard' >= 1 /\ OneLost(Heard)'
    BY <1>2 DEF SendChar, LossInv
  <2>2. ASSUME missing = 0, Heard' >= Len(sent) + 4 PROVE AtEnd'
    BY <1>2, <2>1, <2>2, InStepEnds
  <2>3. ASSUME missing = 1 PROVE LeftIsEnd' /\ Heard' >= 1 /\ OneLost(Heard)'
    <3>1. /\ sent \in Bodies /\ line_end \in LineEnds /\ ParserTypeOK /\ left # <<>>
          /\ sent' = sent /\ line_end' = line_end /\ left' = Tail(left) /\ Feed(Head(left))
          /\ LeftIsEnd /\ Heard >= 1 /\ OneLost(Heard)
      BY <1>2, <2>1, <2>3 DEF TypeOK, SendChar, LossInv
    <3>2. /\ Heard \in Nat /\ Heard + 1 <= Len(Line) /\ Head(left) = Line[Heard + 1]
          /\ LeftIsEnd' /\ Heard' = Heard + 1
      BY <3>1, EndMoves
    <3>3. PICK k \in Nat : k = Heard
      BY <3>2
    <3>4. OneLost(k + 1)'
      BY <3>1, <3>2, <3>3, BehindSend
    <3>5. OneLost(Heard)'
      BY <3>2, <3>3, <3>4 DEF OneLost, AtEnd
    <3>6. QED
      BY <3>2, <3>5
  <2>4. QED
    BY <2>2, <2>3
<1>3. CASE Lose
  <2>1. PICK n \in {1, Len(left)} :
          left' = SubSeq(left, n + 1, Len(left)) /\ missing' = missing + n
    BY <1>3 DEF Lose
  <2>2. /\ Len(left) \in Nat /\ Len(left) >= 1 /\ missing \in Nat /\ n \in Nat /\ n >= 1
        /\ left # <<>>
    BY <1>3, <2>1 DEF Lose, LeftInv, TypeOK
  <2>3. SUFFICES ASSUME in_sync, missing' = 1
                 PROVE  LeftIsEnd' /\ Heard' >= 1 /\ OneLost(Heard)'
    BY <1>3, <2>1, <2>2 DEF Lose, LossInv
  <2>4. missing = 0 /\ n = 1
    BY <2>1, <2>2, <2>3
  <2>5. left' = Tail(left)
    <3>1. left' = SubSeq(left, 2, Len(left))
      BY <2>1, <2>4
    <3>2. SubSeq(left, 2, Len(left)) = Tail(left)
      BY <2>2 DEF LeftInv
    <3>3. QED
      BY <3>1, <3>2
  <2>6. /\ sent \in Bodies /\ line_end \in LineEnds /\ ParserTypeOK
        /\ sent' = sent /\ line_end' = line_end /\ UNCHANGED nmeaVars
        /\ LeftIsEnd /\ InStep(Heard)
        /\ Heard >= Len(sent) + 4 => AtEnd
    BY <1>3, <2>3, <2>4 DEF TypeOK, Lose, InSyncInv, LossInv
  <2>7. Heard \in Nat /\ LeftIsEnd' /\ Heard' = Heard + 1
    BY <2>2, <2>5, <2>6, EndMoves
  <2>8. OneLost(Heard + 1)
    BY <2>6, <2>7, LossIsBehind
  <2>9. OneLost(Heard)'
    BY <2>6, <2>7, <2>8 DEF OneLost, AtEnd, nmeaVars
  <2>10. QED
    BY <2>7, <2>9
<1>4. CASE UNCHANGED vars
  BY <1>4 DEF vars, nmeaVars, LossInv, LeftIsEnd, Heard, Line, OneLost, AtEnd
<1>5. QED
  BY <1>1, <1>2, <1>3, <1>4 DEF Next

(* A sentence that lost one character of it is not accepted, for every     *)
(* sentence, buffer and line end (nmea_parser.c:448-500): the exclusive or *)
(* shows any one character of the text that is missing, and without the    *)
(* '*' or a digit what comes does not add up to a frame.                   *)
THEOREM OneLossNoticed == Spec => []OneLossIsNoticed
<1> DEFINE Inv == TypeOK /\ LeftInv /\ NameInv /\ InSyncInv /\ LossInv
<1>1. Init => Inv
  <2>1. ASSUME Init PROVE NameInv /\ InSyncInv /\ LossInv
    BY <2>1 DEF Init, ParserInit, NameInv, InSyncInv, LossInv
  <2>2. QED
    BY <2>1, TypesInit
<1>2. Inv /\ [Next]_vars => Inv'
  <2>1. SUFFICES ASSUME Inv, [Next]_vars PROVE Inv'
    OBVIOUS
  <2>2. (TypeOK /\ LeftInv)' /\ NameInv' /\ InSyncInv'
    BY <2>1, TypesStep, NameStep, InSyncStep
  <2>3. LossInv'
    BY <2>1, <2>2, LossStep
  <2>4. QED
    BY <2>2, <2>3
<1>3. Inv => OneLossIsNoticed
  <2>1. SUFFICES ASSUME Inv, in_sync, missing = 1, returned = "VALID"
                 PROVE  Text(buffer) = sent
    BY DEF OneLossIsNoticed
  <2>2. state = "CR" /\ OneLost(Heard)
    BY <2>1 DEF NameInv, LossInv
  <2>3. AtEnd
    BY <2>2 DEF OneLost
  <2>4. QED
    BY <2>1, <2>3 DEF AtEnd
<1>4. QED
  BY <1>1, <1>2, <1>3, PTL DEF Spec
=============================================================================
