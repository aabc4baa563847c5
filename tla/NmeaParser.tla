----------------------------- MODULE NmeaParser ------------------------------
(***************************************************************************)
(* src/components/protocol_nmea/nmea_parser.c: the streaming parser of     *)
(* sentences "$...*hh" CR LF, one action per parser state.  The size of    *)
(* the buffer and the character codes are parameters.                      *)
(***************************************************************************)
EXTENDS NmeaSentence

CONSTANTS
  MaxLen,      (* NMEA_MAX_SENTENCE_LEN                                    *)
  Code,        (* the code of every character                              *)
  XorByte,     (* exclusive or of two bytes                                *)
  Junk         (* what an uninitialised text buffer may hold               *)

Char == DOMAIN Code

Byte == 0 .. 255

ASSUME NmeaAssumption ==
  /\ MaxLen \in Nat /\ MaxLen >= 6
  /\ Code \in [Char -> Byte]
  /\ {NUL, "CR", "LF", "$", "*"} \subseteq Char
  /\ XorByte \in [Byte \X Byte -> Byte]
  /\ Junk # {} /\ \A junk \in Junk : junk \in Seq(Char)

VARIABLES
  state,
  buffer,            (* the characters of the sentence, from 0             *)
  index,             (* how many                                           *)
  calc_checksum,
  recv_checksum_hi,
  type,              (* what the latest complete sentence is               *)
  data,              (* the union: what the latest known one says          *)
  returned           (* what the latest nmea_parser_feed returned          *)

nmeaVars ==
  <<state, buffer, index, calc_checksum, recv_checksum_hi, type, data, returned>>

(* All the bytes of the structure are zero, which is a GGA of zeros.       *)
ParserInit ==
  /\ state = "IDLE"
  /\ buffer = [i \in 0 .. MaxLen - 1 |-> NUL]
  /\ index = 0
  /\ calc_checksum = 0
  /\ recv_checksum_hi = 0
  /\ type = "NONE"
  /\ data = [kind |-> "GGA", value |-> Gga(<<>>, <<>>)]
  /\ returned = "INCOMPLETE"
-----------------------------------------------------------------------------
HexUpper == Digits \o <<"A", "B", "C", "D", "E", "F">>
HexLower == Digits \o <<"a", "b", "c", "d", "e", "f">>

IsHex(c) == c \in ToSet(HexUpper) \cup ToSet(HexLower)

HexVal(c) == (CHOOSE i \in 1 .. 16 : c \in {HexUpper[i], HexLower[i]}) - 1

(* The C string in the buffer.                                             *)
Text(chars) ==
  LET nul == {i \in DOMAIN chars : chars[i] = NUL}
      end == IF nul = {} THEN MaxLen ELSE CHOOSE i \in nul : \A j \in nul : i <= j
  IN  [i \in 1 .. end |-> chars[i - 1]]

(* nmea_identify_sentence looks at five bytes, whatever the length is.     *)
Identify(chars) ==
  LET name == <<chars[0], chars[2], chars[3], chars[4]>>
  IN  CASE name = <<"G", "G", "G", "A">> -> "GGA"
        [] name = <<"G", "R", "M", "C">> -> "RMC"
        [] name = <<"G", "G", "S", "T">> -> "GST"
        [] name = <<"G", "G", "S", "V">> -> "GSV"
        [] name = <<"G", "G", "S", "A">> -> "GSA"
        [] OTHER -> "NONE"

(* nmea_finalize_sentence.                                                 *)
FinalizeSentence ==
  /\ type' = Identify(buffer)
  /\ \E junk \in Junk :
       LET text == Text(buffer)
       IN  data' = CASE type' = "GGA" -> [kind |-> "GGA", value |-> Gga(text, junk)]
                     [] type' = "RMC" -> [kind |-> "RMC", value |-> Rmc(text, junk)]
                     [] type' = "GST" -> [kind |-> "GST", value |-> Gst(text)]
                     [] type' = "GSV" -> [kind |-> "GSV", value |-> Gsv(text)]
                     [] type' = "GSA" -> [kind |-> "GSA", value |-> Gsa(text)]
                     [] OTHER -> data
-----------------------------------------------------------------------------
(* The parser, one action per state.                                       *)

NotFinal == UNCHANGED <<type, data>>

(* Mutant: the checksum of the sentence before goes on.                    *)
FeedIdleKeepsChecksum(c) ==
  /\ state = "IDLE"
  /\ IF c = "$"
     THEN state' = "DATA" /\ index' = 0 /\ type' = "NONE"
     ELSE UNCHANGED <<state, index, type>>
  /\ returned' = "INCOMPLETE"
  /\ UNCHANGED <<buffer, calc_checksum, recv_checksum_hi, data>>

FeedIdle(c) ==
  /\ state = "IDLE"
  /\ IF c = "$"
     THEN state' = "DATA" /\ index' = 0 /\ calc_checksum' = 0 /\ type' = "NONE"
     ELSE UNCHANGED <<state, index, calc_checksum, type>>
  /\ returned' = "INCOMPLETE"
  /\ UNCHANGED <<buffer, recv_checksum_hi, data>>

(* Mutant: the text is not terminated.                                     *)
FeedStarUnterminated(c) ==
  /\ state = "DATA" /\ c = "*"
  /\ state' = "CHECKSUM_H"
  /\ returned' = "INCOMPLETE"
  /\ UNCHANGED <<buffer, index, calc_checksum, recv_checksum_hi>> /\ NotFinal

FeedStar(c) ==
  /\ state = "DATA" /\ c = "*"
  /\ buffer' = [buffer EXCEPT ![index] = NUL]
  /\ state' = "CHECKSUM_H"
  /\ returned' = "INCOMPLETE"
  /\ UNCHANGED <<index, calc_checksum, recv_checksum_hi>> /\ NotFinal

FeedLineEnd(c) ==
  /\ state = "DATA" /\ c \in {"CR", "LF"}
  /\ state' = "IDLE"
  /\ returned' = "INVALID_CHECKSUM"
  /\ UNCHANGED <<buffer, index, calc_checksum, recv_checksum_hi>> /\ NotFinal

(* Mutant: the room for the terminator is given away.                      *)
FeedCharFull(c) ==
  /\ state = "DATA" /\ c \notin {"*", "CR", "LF"}
  /\ index < MaxLen
  /\ buffer' = [buffer EXCEPT ![index] = c]
  /\ index' = index + 1
  /\ calc_checksum' = XorByte[<<calc_checksum, Code[c]>>]
  /\ returned' = "INCOMPLETE"
  /\ UNCHANGED <<state, recv_checksum_hi>> /\ NotFinal

FeedChar(c) ==
  /\ state = "DATA" /\ c \notin {"*", "CR", "LF"}
  /\ index < MaxLen - 1
  /\ buffer' = [buffer EXCEPT ![index] = c]
  /\ index' = index + 1
  /\ calc_checksum' = XorByte[<<calc_checksum, Code[c]>>]
  /\ returned' = "INCOMPLETE"
  /\ UNCHANGED <<state, recv_checksum_hi>> /\ NotFinal

FeedOverflow(c) ==
  /\ state = "DATA" /\ c \notin {"*", "CR", "LF"}
  /\ index >= MaxLen - 1
  /\ state' = "IDLE"
  /\ returned' = "OVERFLOW"
  /\ UNCHANGED <<buffer, index, calc_checksum, recv_checksum_hi>> /\ NotFinal

FeedNoHex(c) ==
  /\ state \in {"CHECKSUM_H", "CHECKSUM_L"} /\ ~IsHex(c)
  /\ state' = "IDLE"
  /\ returned' = "INVALID_CHECKSUM"
  /\ UNCHANGED <<buffer, index, calc_checksum, recv_checksum_hi>> /\ NotFinal

FeedHigh(c) ==
  /\ state = "CHECKSUM_H" /\ IsHex(c)
  /\ recv_checksum_hi' = HexVal(c)
  /\ state' = "CHECKSUM_L"
  /\ returned' = "INCOMPLETE"
  /\ UNCHANGED <<buffer, index, calc_checksum>> /\ NotFinal

(* Mutant: only the low digit is compared.                                 *)
FeedLowOnly(c) ==
  /\ state = "CHECKSUM_L" /\ IsHex(c)
  /\ returned' = IF HexVal(c) = calc_checksum % 16 THEN "VALID" ELSE "INVALID_CHECKSUM"
  /\ FinalizeSentence
  /\ state' = "CR"
  /\ UNCHANGED <<buffer, index, calc_checksum, recv_checksum_hi>>

(* The sentence is decoded whether its checksum is right or not.           *)
FeedLow(c) ==
  /\ state = "CHECKSUM_L" /\ IsHex(c)
  /\ returned' = IF 16 * recv_checksum_hi + HexVal(c) = calc_checksum
                 THEN "VALID" ELSE "INVALID_CHECKSUM"
  /\ FinalizeSentence
  /\ state' = "CR"
  /\ UNCHANGED <<buffer, index, calc_checksum, recv_checksum_hi>>

(* Mutant: a line feed must come, even if it came already.                 *)
FeedEndOfLineWaits(c) ==
  /\ state \in {"CR", "LF"}
  /\ state' = IF state = "CR" THEN "LF" ELSE "IDLE"
  /\ returned' = "INCOMPLETE"
  /\ UNCHANGED <<buffer, index, calc_checksum, recv_checksum_hi>> /\ NotFinal

(* Any character is taken for the line end, even the '$' of the next       *)
(* sentence.                                                               *)
FeedEndOfLine(c) ==
  /\ state \in {"CR", "LF"}
  /\ state' = IF state = "CR" /\ c = "CR" THEN "LF" ELSE "IDLE"
  /\ returned' = "INCOMPLETE"
  /\ UNCHANGED <<buffer, index, calc_checksum, recv_checksum_hi>> /\ NotFinal

(* nmea_parser_feed.                                                       *)
Feed(c) ==
  \/ FeedIdle(c)
  \/ FeedStar(c)
  \/ FeedLineEnd(c)
  \/ FeedChar(c)
  \/ FeedOverflow(c)
  \/ FeedNoHex(c)
  \/ FeedHigh(c)
  \/ FeedLow(c)
  \/ FeedEndOfLine(c)
-----------------------------------------------------------------------------
(* No character is stored outside the buffer, nor the terminator.          *)
ParserTypeOK ==
  /\ state \in {"IDLE", "DATA", "CHECKSUM_H", "CHECKSUM_L", "CR", "LF"}
  /\ buffer \in [0 .. MaxLen - 1 -> Char]
  /\ index \in 0 .. MaxLen - 1
  /\ calc_checksum \in Byte
  /\ recv_checksum_hi \in 0 .. 15
  /\ type \in {"NONE", "GGA", "RMC", "GST", "GSV", "GSA"}
  /\ data.kind \in {"GGA", "RMC", "GST", "GSV", "GSA"}
  /\ type # "NONE" => data.kind = type
  /\ returned \in {"INCOMPLETE", "VALID", "INVALID_CHECKSUM", "OVERFLOW"}
=============================================================================
