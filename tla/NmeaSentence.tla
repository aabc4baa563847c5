---------------------------- MODULE NmeaSentence ----------------------------
(***************************************************************************)
(* src/components/protocol_nmea/nmea_parser.c: what the parser reads out   *)
(* of a complete sentence, the characters between '$' and '*'.             *)
(*                                                                         *)
(* A sentence is a sequence of characters.  A floating-point value is      *)
(* represented by its numeral, the digits and points atof stops after;     *)
(* <<>> is zero.  Integers are values.  No sentence the runs use has a     *)
(* sign, a blank, an exponent or a number with two points.                 *)
(***************************************************************************)
EXTENDS Integers, SequencesExt

NUL == "NUL"

Digits == <<"0", "1", "2", "3", "4", "5", "6", "7", "8", "9">>

DigitValue(c) == (CHOOSE i \in 1 .. 10 : Digits[i] = c) - 1
-----------------------------------------------------------------------------
(* Fields.                                                                 *)

Prefix(text, n) == SubSeq(text, 1, IF n < Len(text) THEN n ELSE Len(text))

(* The longest prefix that consists of characters of C.                    *)
Leading(text, C) ==
  Prefix(text, CHOOSE n \in 0 .. Len(text) :
                 /\ \A i \in 1 .. n : text[i] \in C
                 /\ n < Len(text) => text[n + 1] \notin C)

Commas(sentence) ==
  SelectSeq([k \in DOMAIN sentence |-> k], LAMBDA k : sentence[k] = ",")

(* What the pointer of nmea_get_field shows, to the end of the sentence;   *)
(* <<>> for NULL.  Field 0 is what stands before the first comma.          *)
FieldAt(sentence, i) ==
  LET commas == Commas(sentence)
  IN  CASE i = 0 -> sentence
        [] i > Len(commas) -> <<>>
        [] OTHER -> SubSeq(sentence, commas[i] + 1, Len(sentence))

(* The field itself: that text up to its comma; its length is out_length.  *)
(* An empty last field is NULL, too: the walk stops at the terminator.     *)
GetField(sentence, i) ==
  LET text == FieldAt(sentence, i)
      cut  == {k \in DOMAIN text : text[k] = ","}
  IN  IF cut = {} THEN text
      ELSE SubSeq(text, 1, (CHOOSE k \in cut : \A j \in cut : k <= j) - 1)

(* nmea_parse_double copies at most 23 characters.                         *)
ParseDouble(text) == Leading(Prefix(text, 23), ToSet(Digits) \cup {"."})

(* nmea_parse_int copies at most 11 characters.                            *)
ParseInt(text) ==
  FoldLeft(LAMBDA n, c : 10 * n + DigitValue(c), 0,
           Leading(Prefix(text, 11), ToSet(Digits)))

Uint8(n) == n % 256
Uint16(n) == n % 65536

(* nmea_parse_char; NUL for an empty field.                                *)
ParseChar(text) == IF text = <<>> THEN NUL ELSE text[1]

IsZero(numeral) == \A i \in DOMAIN numeral : numeral[i] \in {"0", "."}

ZeroAngle == [degrees |-> 0, minutes |-> <<>>, negative |-> FALSE]

(* nmea_parse_latlon of the first `length` characters at `text`.  The      *)
(* callers' flen is overwritten by the call that fetches the hemisphere,   *)
(* so `length` is that of the hemisphere's field, and the text may go on   *)
(* over a comma.  A copy shorter than the degrees leaves `junk`, what the  *)
(* buffer held before, where the minutes are read.                         *)
ParseLatLon(text, length, hemisphere, junk) ==
  LET copy       == Prefix(text, length)
      degLen     == IF hemisphere \in {"E", "W"} THEN 3 ELSE 2
      minuteText == IF Len(copy) >= degLen THEN SubSeq(copy, degLen + 1, Len(copy))
                    ELSE junk
  IN  IF IsZero(ParseDouble(copy)) \/ length >= 24 THEN ZeroAngle
      ELSE [degrees  |-> ParseInt(Prefix(copy, degLen)),
            minutes  |-> ParseDouble(minuteText),
            negative |-> hemisphere \in {"S", "W"}]

(* nmea_parse_date of a field.                                             *)
ParseDate(text) ==
  IF Len(text) < 6 THEN [day |-> 0, month |-> 0, year |-> 0]
  ELSE [day   |-> ParseInt(SubSeq(text, 1, 2)),
        month |-> ParseInt(SubSeq(text, 3, 4)),
        year  |-> 2000 + ParseInt(SubSeq(text, 5, 6))]
-----------------------------------------------------------------------------
(* The sentences.  `Number(i)` and so on read field i as it is numbered in *)
(* the code, which counts the talker and type as field 0.                  *)

(* The angle whose text is at field i and whose hemisphere is field h.     *)
AngleField(sentence, i, h, junk) ==
  ParseLatLon(FieldAt(sentence, i), Len(GetField(sentence, h)),
              ParseChar(GetField(sentence, h)), junk)

(* nmea_parse_gga.                                                         *)
Gga(s, junk) ==
  LET Number(i)  == ParseDouble(GetField(s, i))
      Integer(i) == ParseInt(GetField(s, i))
  IN  [utc_time        |-> Number(0),
       latitude        |-> AngleField(s, 1, 2, junk),
       longitude       |-> AngleField(s, 3, 4, junk),
       fix_quality     |-> Uint8(Integer(5)),
       num_sats        |-> Uint8(Integer(6)),
       hdop            |-> Number(7),
       altitude        |-> Number(8),
       geoid_sep       |-> Number(10),
       age_diff        |-> Number(11),
       diff_station_id |-> Uint16(Integer(12))]

(* nmea_parse_rmc.                                                         *)
Rmc(s, junk) ==
  LET Number(i) == ParseDouble(GetField(s, i))
  IN  [utc_time      |-> Number(0),
       status_valid  |-> ParseChar(GetField(s, 1)) = "A",
       latitude      |-> AngleField(s, 2, 3, junk),
       longitude     |-> AngleField(s, 4, 5, junk),
       speed_knots   |-> Number(6),
       course_true   |-> Number(7),
       date          |-> ParseDate(GetField(s, 8)),
       mag_variation |-> Number(9),
       mag_var_dir   |-> ParseChar(GetField(s, 10)),
       mode          |-> ParseChar(GetField(s, 11))]

(* nmea_parse_gst.                                                         *)
Gst(s) ==
  LET Number(i) == ParseDouble(GetField(s, i))
  IN  [utc_time    |-> Number(0), total_rms |-> Number(1),
       std_major   |-> Number(2), std_minor |-> Number(3),
       orientation |-> Number(4), std_lat   |-> Number(5),
       std_lon     |-> Number(6), std_alt   |-> Number(7)]

(* nmea_parse_gsv: satellites up to the first whose number is missing; an  *)
(* empty signal strength is -1.                                            *)
Gsv(s) ==
  LET Integer(i) == ParseInt(GetField(s, i))
      Seen(n)    == \A k \in 0 .. n - 1 : GetField(s, 3 + 4 * k) # <<>>
      count      == CHOOSE n \in 0 .. 4 : Seen(n) /\ (n < 4 => ~Seen(n + 1))
      Sat(base)  == [prn |-> Integer(base), elevation |-> Integer(base + 1),
                     azimuth |-> Integer(base + 2),
                     snr |-> IF GetField(s, base + 3) = <<>> THEN -1
                             ELSE Integer(base + 3)]
  IN  [num_messages     |-> Uint8(Integer(0)),
       message_number   |-> Uint8(Integer(1)),
       num_sats_in_view |-> Uint8(Integer(2)),
       sat_count        |-> count,
       sats             |-> [k \in 1 .. count |-> Sat(4 * k - 1)],
       system_id        |-> Uint8(Integer(19))]

(* nmea_parse_gsa.                                                         *)
Gsa(s) ==
  LET Number(i)  == ParseDouble(GetField(s, i))
      Integer(i) == ParseInt(GetField(s, i))
  IN  [mode      |-> ParseChar(GetField(s, 0)),
       fix       |-> Uint8(Integer(1)),
       prn       |-> [i \in 1 .. 12 |-> Integer(i + 1)],
       pdop      |-> Number(14), hdop |-> Number(15), vdop |-> Number(16),
       system_id |-> Uint8(Integer(17))]
=============================================================================
