--------------------------- MODULE ByteRingBuffer ---------------------------
(***************************************************************************)
(* src/components/runtime_buffers/byte_ring_buffer.c, one action for each  *)
(* turn of the copy loops of byte_ring_buffer_write and _read, so that     *)
(* every intermediate value of the four fields is a state.  `call` is the  *)
(* function being executed ("none" between calls), `source` and `length`   *)
(* its arguments, `done` the loop counter (written / read) and `out` the   *)
(* bytes a read has copied so far.                                         *)
(***************************************************************************)
EXTENDS ByteFifo

CONSTANTS
  Capacity,      (* buffer->capacity                                       *)
  Byte,          (* the values of a byte                                   *)
  MaxTransfer,   (* longest buffer a caller passes                         *)
  CounterRange   (* number of values of the uint32_t overflow_count        *)

ASSUME RingAssumption ==
  /\ Capacity \in Nat \ {0}
  /\ MaxTransfer \in Nat
  /\ CounterRange \in Nat \ {0}
  /\ Byte # {}

VARIABLES
  data,            (* buffer->data, slots 0 .. Capacity-1                  *)
  head,            (* next slot to write                                   *)
  tail,            (* next slot to read                                    *)
  size,            (* bytes held                                           *)
  overflow_count,
  call, source, length, done, out,
  returned         (* return value and output of the latest finished call  *)

bufferVars == <<data, head, tail, size, overflow_count>>
callVars == <<call, source, length, done, out, returned>>
vars == <<data, head, tail, size, overflow_count,
          call, source, length, done, out, returned>>

Slots == 0 .. Capacity - 1
Buffers == UNION {[1 .. n -> Byte] : n \in 0 .. MaxTransfer}

AnyByte == CHOOSE b \in Byte : TRUE

(* The storage array is never cleared; its first contents are arbitrary    *)
(* but no read returns them, so one value stands for all.                  *)
Init ==
  /\ data = [i \in Slots |-> AnyByte]
  /\ head = 0
  /\ tail = 0
  /\ size = 0
  /\ overflow_count = 0
  /\ call = "none"
  /\ source = <<>>
  /\ length = 0
  /\ done = 0
  /\ out = <<>>
  /\ returned = [count |-> 0, bytes |-> <<>>]

Advance(i) == (i + 1) % Capacity

CallWrite(bytes) ==
  /\ call = "none"
  /\ call' = "write"
  /\ source' = bytes
  /\ length' = Len(bytes)
  /\ done' = 0
  /\ UNCHANGED <<bufferVars, out, returned>>

(* Mutant: the fullness test allows one byte too many.                     *)
StoreByteOffByOne ==
  /\ call = "write" /\ done < length /\ size <= Capacity
  /\ data' = [data EXCEPT ![head] = source[done + 1]]
  /\ head' = Advance(head)
  /\ size' = size + 1
  /\ done' = done + 1
  /\ UNCHANGED <<tail, overflow_count, call, source, length, out, returned>>

(* Mutant: the write index runs ahead of the byte count.                   *)
StoreByteNoCount ==
  /\ call = "write" /\ done < length /\ size < Capacity
  /\ data' = [data EXCEPT ![head] = source[done + 1]]
  /\ head' = Advance(head)
  /\ done' = done + 1
  /\ UNCHANGED <<tail, size, overflow_count, call, source, length, out, returned>>

StoreByte ==
  /\ call = "write" /\ done < length /\ size < Capacity
  /\ data' = [data EXCEPT ![head] = source[done + 1]]
  /\ head' = Advance(head)
  /\ size' = size + 1
  /\ done' = done + 1
  /\ UNCHANGED <<tail, overflow_count, call, source, length, out, returned>>

(* Mutant: a full ring does not end the loop.                              *)
ReturnWriteNoBreak ==
  /\ call = "write" /\ done = length
  /\ returned' = [count |-> done, bytes |-> <<>>]
  /\ call' = "none"
  /\ source' = <<>>
  /\ length' = 0
  /\ done' = 0
  /\ UNCHANGED <<bufferVars, out>>

(* The loop ends: everything stored, or full with bytes left over.         *)
ReturnWrite ==
  /\ call = "write"
  /\ done = length \/ size = Capacity
  /\ overflow_count' = IF done < length THEN (overflow_count + 1) % CounterRange
                                          ELSE overflow_count
  /\ returned' = [count |-> done, bytes |-> <<>>]
  /\ call' = "none"
  /\ source' = <<>>
  /\ length' = 0
  /\ done' = 0
  /\ UNCHANGED <<data, head, tail, size, out>>

CallRead(n) ==
  /\ call = "none"
  /\ call' = "read"
  /\ length' = n
  /\ done' = 0
  /\ out' = <<>>
  /\ UNCHANGED <<bufferVars, source, returned>>

(* Mutant: the read index is not advanced.                                 *)
LoadByteStuckTail ==
  /\ call = "read" /\ done < length /\ size > 0
  /\ out' = Append(out, data[tail])
  /\ size' = size - 1
  /\ done' = done + 1
  /\ UNCHANGED <<data, head, tail, overflow_count, call, source, length, returned>>

LoadByte ==
  /\ call = "read" /\ done < length /\ size > 0
  /\ out' = Append(out, data[tail])
  /\ tail' = Advance(tail)
  /\ size' = size - 1
  /\ done' = done + 1
  /\ UNCHANGED <<data, head, overflow_count, call, source, length, returned>>

ReturnRead ==
  /\ call = "read"
  /\ done = length \/ size = 0
  /\ returned' = [count |-> done, bytes |-> out]
  /\ call' = "none"
  /\ source' = <<>>
  /\ length' = 0
  /\ done' = 0
  /\ out' = <<>>
  /\ UNCHANGED bufferVars

Next ==
  \/ \E bytes \in Buffers : CallWrite(bytes)
  \/ StoreByte
  \/ ReturnWrite
  \/ \E n \in 0 .. MaxTransfer : CallRead(n)
  \/ LoadByte
  \/ ReturnRead

(* A call on the service task always returns: nothing preempts its loop    *)
(* for ever.                                                               *)
Fairness == WF_vars(StoreByte \/ ReturnWrite \/ LoadByte \/ ReturnRead)

Spec == Init /\ [][Next]_vars

FairSpec == Spec /\ Fairness
-----------------------------------------------------------------------------
TypeOK ==
  /\ data \in [Slots -> Byte]
  /\ head \in Slots
  /\ tail \in Slots
  /\ size \in 0 .. Capacity
  /\ overflow_count \in 0 .. CounterRange - 1
  /\ call \in {"none", "write", "read"}
  /\ source \in Seq(Byte)
  /\ length \in 0 .. MaxTransfer
  /\ done \in 0 .. length
  /\ out \in Seq(Byte)

(* The head is always `size` slots after the tail, around the ring: the    *)
(* three redundant fields that write and read update separately agree at   *)
(* every turn of every loop.                                               *)
HeadFollowsTail == head = tail + size \/ head = tail + size - Capacity

(* The bytes held, oldest first.                                           *)
Contents == [i \in 1 .. size |-> data[(tail + i - 1) % Capacity]]

(* The ring implements the bounded queue.  A write takes effect when it    *)
(* returns, so the bytes it has stored so far are not yet in the queue;    *)
(* a read takes effect when it returns, so the bytes it has copied out     *)
(* still are.                                                              *)
Queue ==
  CASE call = "write" -> SubSeq(Contents, 1, size - done)
    [] call = "read" -> out \o Contents
    [] OTHER -> Contents

Fifo == INSTANCE BoundedFifo WITH queue <- Queue, overflows <- overflow_count

(* byte_ring_buffer.c loses, invents, duplicates and reorders nothing it   *)
(* accepted: every return is a step of the abstract queue, and every turn  *)
(* of a loop is none.                                                      *)
ImplementsFifo == Fifo!Spec

(* Every call returns.                                                     *)
CallsReturn == (call # "none") ~> (call = "none")
=============================================================================
