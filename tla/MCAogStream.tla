---------------------------- MODULE MCAogStream -----------------------------
(* Bytes of three bits and one byte of data, so that lengths from 4 on     *)
(* mean more data than fits.  Some of the frames have the first preamble   *)
(* byte as their checksum, some, not clean, the whole preamble as their    *)
(* PGN, with a data byte behind it that no length can be.  The largest     *)
(* length, a foreign byte, makes a false frame longer than a whole one.    *)
EXTENDS AogStream, Bitwise

MCXorByte == [pair \in Byte \X Byte |-> pair[1] ^^ pair[2]]
MCPgns == {<<4, 2>>, <<4, 5>>}
MCPayloads == {<<>>, <<1>>}
=============================================================================
