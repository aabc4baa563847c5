---------------------------- MODULE MCNmeaStream ----------------------------
(* Real character codes; a buffer of 12 characters, one sentence of each   *)
(* type and of equal length, sentences shorter than a type name, and one   *)
(* that does not fit.  Texts are strings taken apart.                      *)
EXTENDS NmeaStream, Bitwise

Chars(text) == [i \in 1 .. Len(text) |-> SubSeq(text, i, i)]

Letters == Chars("ABCDEFGHIJKLMNOPQRSTUVWXYZ")

CharCode(c) ==
  CASE c = NUL -> 0 [] c = "LF" -> 10 [] c = "CR" -> 13 [] c = "$" -> 36
    [] c = "*" -> 42 [] c = "," -> 44 [] c = "." -> 46
    [] c \in ToSet(Digits) -> 48 + DigitValue(c)
    [] OTHER -> 64 + (CHOOSE i \in 1 .. 26 : Letters[i] = c)

MCCode ==
  [c \in {NUL, "LF", "CR", "$", "*", ",", "."} \cup ToSet(Digits) \cup ToSet(Letters)
     |-> CharCode(c)]

MCXorByte == [pair \in (0 .. 255) \X (0 .. 255) |-> pair[1] ^^ pair[2]]

MCJunk == {<<>>, <<"7">>}

MCBodies ==
  {Chars("GNGGA,9,4"), Chars("GNRMC,1,A"), Chars("GNGST,.,2"), Chars("GPGSV,1,1"),
   Chars("GPGSA,A,3"), Chars("GN"), Chars("G"), Chars("GNTXT,NOTHERE")}

MCLineEnds == {<<"CR", "LF">>, <<"LF">>}

(* A whole GGA sentence, shortened.                                        *)
GgaBodies == {Chars("GNGGA,12,4830.5,N,01145.5,E,4,08,1.1,95,M,47,M,1,7"),
              Chars("GNGGA,12,4830.5,N,01145.5,E,0,00,,,M,,M,,")}
=============================================================================
