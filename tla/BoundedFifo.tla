---------------------------- MODULE BoundedFifo -----------------------------
(***************************************************************************)
(* The abstract ring: every call is one step on a sequence of bytes.       *)
(* `overflows` counts the writes that were cut short, `returned` is what   *)
(* the latest call handed back to its caller.                              *)
(***************************************************************************)
EXTENDS ByteFifo

CONSTANTS
  Capacity,      (* bytes the ring can hold                                *)
  Byte,          (* the values of a byte                                   *)
  MaxTransfer,   (* longest buffer a caller passes                         *)
  CounterRange   (* number of values of the uint32_t overflow counter      *)

VARIABLES queue, overflows, returned

fifoVars == <<queue, overflows, returned>>

Buffers == UNION {[1 .. n -> Byte] : n \in 0 .. MaxTransfer}

Init ==
  /\ queue = <<>>
  /\ overflows = 0
  /\ returned = [count |-> 0, bytes |-> <<>>]

Write(bytes) ==
  LET stored == FifoAccepted(queue, Capacity, Len(bytes)) IN
  /\ queue' = FifoWrite(queue, Capacity, bytes)
  /\ overflows' = IF stored < Len(bytes) THEN (overflows + 1) % CounterRange
                                         ELSE overflows
  /\ returned' = [count |-> stored, bytes |-> <<>>]

Read(length) ==
  LET taken == FifoRead(queue, length) IN
  /\ queue' = FifoRest(queue, length)
  /\ overflows' = overflows
  /\ returned' = [count |-> Len(taken), bytes |-> taken]

Next ==
  \/ \E bytes \in Buffers : Write(bytes)
  \/ \E length \in 0 .. MaxTransfer : Read(length)

Spec == Init /\ [][Next]_fifoVars
=============================================================================
