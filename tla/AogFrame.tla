------------------------------ MODULE AogFrame ------------------------------
(***************************************************************************)
(* src/components/protocol_aog/aog_frame.c: the AOG frame                  *)
(*                                                                         *)
(*   preamble 1, preamble 2, length, PGN low, PGN high, data ..., checksum *)
(*                                                                         *)
(* its encoder, the verifier of a whole frame and the streaming parser,    *)
(* one action per parser state.  The sizes of byte, preambles and data     *)
(* are parameters; the checksum combines bytes with the function XorByte.  *)
(***************************************************************************)
EXTENDS Integers, SequencesExt

CONSTANTS
  MaxByte,     (* the largest byte, 255                                    *)
  Preamble1,   (* AOG_PREAMBLE_1                                           *)
  Preamble2,   (* AOG_PREAMBLE_2                                           *)
  MaxData,     (* AOG_MAX_DATA_SIZE                                        *)
  XorByte      (* exclusive or of two bytes                                *)

Byte == 0 .. MaxByte

ASSUME FrameAssumption ==
  /\ MaxByte \in Nat
  /\ Preamble1 \in Byte /\ Preamble2 \in Byte /\ Preamble1 # Preamble2
  /\ MaxData \in Nat /\ MaxData + 2 <= MaxByte
  /\ XorByte \in [Byte \X Byte -> Byte]

VARIABLES
  state,       (* where in a frame the parser is                           *)
  length,      (* the length byte: PGN and data                            *)
  pgn,         (* <<low byte, high byte>>                                  *)
  data,        (* the data buffer                                          *)
  data_count,
  crc_valid,
  ready,       (* what the latest aog_parser_feed returned                 *)
  frame        (* history: the bytes since the preamble                    *)

parserVars == <<state, length, pgn, data, data_count, crc_valid, ready, frame>>

ParserInit ==
  /\ state = "IDLE"
  /\ length = 0
  /\ pgn = <<0, 0>>
  /\ data = [i \in 1 .. MaxData |-> 0]
  /\ data_count = 0
  /\ crc_valid = FALSE
  /\ ready = FALSE
  /\ frame = <<>>
-----------------------------------------------------------------------------
(* Checksum, encoder and verifier.                                         *)

Checksum(bytes) == FoldLeft(LAMBDA crc, byte : XorByte[<<crc, byte>>], 0, bytes)

(* Mutant: the checksum leaves the length byte out.                        *)
EncodeFrameNoLength(p, payload) ==
  <<Preamble1, Preamble2, 2 + Len(payload)>> \o p \o payload
    \o <<Checksum(p \o payload)>>

(* aog_frame_encode for data that fits; longer data is refused.            *)
EncodeFrame(p, payload) ==
  LET body == <<2 + Len(payload)>> \o p \o payload
  IN  <<Preamble1, Preamble2>> \o body \o <<Checksum(body)>>

VerifyCrc(bytes) ==
  /\ Len(bytes) >= 6
  /\ Len(bytes) = bytes[3] + 4
  /\ bytes[1] = Preamble1 /\ bytes[2] = Preamble2
  /\ Last(bytes) = Checksum(SubSeq(bytes, 3, Len(bytes) - 1))
-----------------------------------------------------------------------------
(* The parser, one action per state.                                       *)

Unready == ready' = FALSE /\ UNCHANGED crc_valid

FeedIdle(byte) ==
  /\ state = "IDLE"
  /\ state' = IF byte = Preamble1 THEN "PREAMBLE" ELSE "IDLE"
  /\ Unready /\ UNCHANGED <<length, pgn, data, data_count>>

(* Mutant: a repeated first preamble is dropped with the broken start.     *)
FeedPreambleNoRestart(byte) ==
  /\ state = "PREAMBLE"
  /\ state' = IF byte = Preamble2 THEN "LENGTH" ELSE "IDLE"
  /\ Unready /\ UNCHANGED <<length, pgn, data, data_count>>

FeedPreamble(byte) ==
  /\ state = "PREAMBLE"
  /\ state' = CASE byte = Preamble2 -> "LENGTH"
                [] byte = Preamble1 -> "PREAMBLE"
                [] OTHER -> "IDLE"
  /\ Unready /\ UNCHANGED <<length, pgn, data, data_count>>

FeedLength(byte) ==
  /\ state = "LENGTH"
  /\ length' = byte
  /\ IF byte < 2
     THEN state' = "IDLE" /\ UNCHANGED <<pgn, data_count>>
     ELSE state' = "PGN" /\ pgn' = <<0, 0>> /\ data_count' = 0
  /\ Unready /\ UNCHANGED data

(* A frame without data keeps the 2 that counted its PGN bytes.            *)
FeedPgn(byte) ==
  /\ state = "PGN"
  /\ \/ /\ data_count = 0
        /\ pgn' = <<byte, 0>> /\ data_count' = 1 /\ UNCHANGED state
     \/ /\ data_count # 0
        /\ pgn' = <<pgn[1], byte>>
        /\ IF length = 2
           THEN state' = "CRC" /\ data_count' = 2
           ELSE state' = "DATA" /\ data_count' = 0
  /\ Unready /\ UNCHANGED <<length, data>>

(* Mutant: a byte beyond the data buffer is stored.                        *)
FeedDataUnbounded(byte) ==
  /\ state = "DATA"
  /\ data' = [i \in DOMAIN data \cup {data_count + 1} |->
                IF i = data_count + 1 THEN byte ELSE data[i]]
  /\ data_count' = data_count + 1
  /\ state' = IF data_count' >= length - 2 THEN "CRC" ELSE "DATA"
  /\ Unready /\ UNCHANGED <<length, pgn>>

(* Bytes beyond the data buffer are counted and not stored.                *)
FeedData(byte) ==
  /\ state = "DATA"
  /\ data' = IF data_count < MaxData
             THEN [data EXCEPT ![data_count + 1] = byte] ELSE data
  /\ data_count' = data_count + 1
  /\ state' = IF data_count' >= length - 2 THEN "CRC" ELSE "DATA"
  /\ Unready /\ UNCHANGED <<length, pgn>>

(* The data bytes the frame in progress has in the buffer.                 *)
Payload == SubSeq(data, 1, IF length - 2 <= MaxData THEN length - 2 ELSE MaxData)

(* Mutant: the whole data buffer goes into the checksum.                   *)
FeedCrcWholeBuffer(byte) ==
  /\ state = "CRC"
  /\ crc_valid' = (byte = Checksum(<<length>> \o pgn \o data))
  /\ ready' = TRUE
  /\ state' = "IDLE"
  /\ UNCHANGED <<length, pgn, data, data_count>>

FeedCrc(byte) ==
  /\ state = "CRC"
  /\ crc_valid' = (byte = Checksum(<<length>> \o pgn \o Payload))
  /\ ready' = TRUE
  /\ state' = "IDLE"
  /\ UNCHANGED <<length, pgn, data, data_count>>

(* aog_parser_feed.                                                        *)
Feed(byte) ==
  /\ \/ FeedIdle(byte)
     \/ FeedPreamble(byte)
     \/ FeedLength(byte)
     \/ FeedPgn(byte)
     \/ FeedData(byte)
     \/ FeedCrc(byte)
  /\ frame' = CASE state' = "PREAMBLE" -> <<byte>>
                [] state' = "IDLE" /\ ~ready' -> <<>>
                [] OTHER -> Append(frame, byte)
-----------------------------------------------------------------------------
ParserTypeOK ==
  /\ state \in {"IDLE", "PREAMBLE", "LENGTH", "PGN", "DATA", "CRC"}
  /\ length \in Byte
  /\ pgn \in Byte \X Byte
  /\ data \in [1 .. MaxData -> Byte]
  /\ data_count \in Byte
  /\ crc_valid \in BOOLEAN /\ ready \in BOOLEAN
  /\ frame \in Seq(Byte)
=============================================================================
