----------------------------- MODULE NmeaStream ------------------------------
(***************************************************************************)
(* A GNSS receiver that sends NMEA sentences, a line and a ring that lose  *)
(* some of their characters, and the parser at the end.  The receive ring  *)
(* of the UART (src/components/transport_uart/transport_uart.c) drops what *)
(* does not fit.                                                           *)
(***************************************************************************)
EXTENDS NmeaParser

CONSTANTS
  Bodies,      (* what the receiver says between '$' and '*'               *)
  LineEnds,    (* how a line may end                                       *)
  MaxLosses    (* bound: losses                                            *)

ASSUME NmeaStreamAssumption ==
  /\ \A body \in Bodies : body \in Seq(Char \ {NUL, "CR", "LF", "$", "*"})
  /\ \A end \in LineEnds : end \in Seq({"CR", "LF"})
  /\ ToSet(HexUpper) \subseteq Char
  /\ \A c \in Char \ {NUL} : Code[c] # 0
  /\ \A x, y \in Byte :
       XorByte[<<XorByte[<<x, y>>], y>>] = x /\ (y # 0 => XorByte[<<x, y>>] # x)
  /\ MaxLosses \in Nat

VARIABLES
  sent,        (* the sentence being sent, or sent last                    *)
  line_end,    (* and how it ends                                          *)
  left,        (* its characters still to come                             *)
  in_sync,     (* it began at an idle parser                               *)
  missing,     (* how many of its characters were lost                     *)
  recovered,   (* a whole sentence went by since the last loss             *)
  losses

vars == <<nmeaVars, sent, line_end, left, in_sync, missing, recovered, losses>>

Codes(text) == [i \in DOMAIN text |-> Code[text[i]]]

Checksum(text) == FoldLeft(LAMBDA crc, byte : XorByte[<<crc, byte>>], 0, Codes(text))

(* The sentence a receiver makes of its text.                              *)
Sentence(body) ==
  LET crc == Checksum(body)
  IN  <<"$">> \o body \o <<"*", HexUpper[(crc \div 16) + 1], HexUpper[(crc % 16) + 1]>>

Init ==
  /\ ParserInit
  /\ sent \in Bodies
  /\ line_end \in LineEnds
  /\ left = <<>>
  /\ in_sync = FALSE
  /\ missing = 0
  /\ recovered = TRUE
  /\ losses = 0

BeginSentence ==
  /\ left = <<>>
  /\ sent' \in Bodies
  /\ line_end' \in LineEnds
  /\ left' = Sentence(sent') \o line_end'
  /\ in_sync' = (state = "IDLE")
  /\ missing' = 0
  /\ UNCHANGED <<nmeaVars, recovered, losses>>

SendChar ==
  /\ left # <<>>
  /\ Feed(Head(left))
  /\ left' = Tail(left)
  /\ recovered' = (recovered \/ (left' = <<>> /\ missing = 0))
  /\ UNCHANGED <<sent, line_end, in_sync, missing, losses>>

(* One character is lost, or all that is left of the sentence.             *)
Lose ==
  /\ losses < MaxLosses
  /\ left # <<>>
  /\ \E n \in {1, Len(left)} :
       /\ left' = SubSeq(left, n + 1, Len(left))
       /\ missing' = missing + n
  /\ recovered' = FALSE
  /\ losses' = losses + 1
  /\ UNCHANGED <<nmeaVars, sent, line_end, in_sync>>

Next == BeginSentence \/ SendChar \/ Lose

Spec == Init /\ [][Next]_vars
-----------------------------------------------------------------------------
(* The type of every variable.                                             *)
TypeOK ==
  /\ ParserTypeOK
  /\ sent \in Bodies /\ line_end \in LineEnds
  /\ left \in Seq(Char)
  /\ in_sync \in BOOLEAN /\ recovered \in BOOLEAN
  /\ missing \in Nat /\ losses \in 0 .. MaxLosses

(* The last checksum digit has just been fed.                              *)
JustComplete == left = line_end /\ missing = 0

(* A sentence that begins at an idle parser and loses nothing is accepted  *)
(* with its last checksum digit and is in the buffer as it was sent,       *)
(* whatever longer sentence was there before; one too long for the buffer  *)
(* is refused and leaves the parser idle.                                  *)
InSyncIsAccepted ==
  in_sync /\ JustComplete =>
    IF Len(sent) < MaxLen
    THEN returned = "VALID" /\ Text(buffer) = sent
    ELSE returned # "VALID" /\ state = "IDLE"

(* A sentence that lost one character is not accepted, unless the one lost *)
(* is of the line end: no loss moves the rest of it into a valid frame     *)
(* (nmea_parser.c:448-500).                                                *)
OneLossIsNoticed ==
  in_sync /\ missing = 1 /\ returned = "VALID" => Text(buffer) = sent

(* One whole sentence after a loss is all the parser needs: it is idle     *)
(* when the next begins, whatever the loss left it waiting for, a lost '$' *)
(* or line end included (nmea_parser.c:502-518).                           *)
RecoversInOneSentence == recovered /\ left = <<>> => state = "IDLE"

(* The type of an accepted sentence is spelt by its own characters and not *)
(* by what a longer one left behind them (nmea_parser.c:161-184).  The     *)
(* sentence of the one character 'G' is the exception: the terminator      *)
(* stands where the second character is not looked at.                     *)
TypeIsItsOwn ==
  returned = "VALID" /\ index # 1 =>
    type = IF index < 5 THEN "NONE" ELSE Identify([i \in 0 .. 4 |-> Text(buffer)[i + 1]])

(* What the latest accepted sentence says is decoded from what was sent.   *)
(* Violated: field 0 is the talker and type, and the parsers count the     *)
(* time as field 0.  The comment is "0=invalid, 1=GPS, 2=DGPS"             *)
(* (nmea_parser.h:38); the quality is the sixth field behind the type.     *)
FixQualityIsSent ==
  in_sync /\ JustComplete /\ returned = "VALID" /\ type = "GGA" =>
    data.value.fix_quality = ParseInt(GetField(sent, 6))
=============================================================================
