-------------------------- MODULE MCByteRingBuffer --------------------------
(* A ring of three bytes over two byte values, with transfers longer than  *)
(* the ring, so that it wraps, fills, overflows and drains.                *)
EXTENDS ByteRingBuffer
=============================================================================
