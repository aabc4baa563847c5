----------------------------- MODULE RtcmRouter -----------------------------
(***************************************************************************)
(* src/components/rtcm_router/rtcm_router.c and the statistics of          *)
(* src/components/protocol_rtcm/rtcm_passthrough.c: hands the corrections  *)
(* of the NTRIP client to the transmit rings of both UARTs.  The 32-bit    *)
(* counters are numbers; no output is ever disabled.                       *)
(***************************************************************************)
EXTENDS NtripClient, TransportUart

CONSTANT RouterChunk  (* sizeof(tmp) of the router's step                  *)

ASSUME RouterAssumption == RouterChunk \in Nat \ {0}

VARIABLES
  bytes_forwarded,    (* per output                                        *)
  bytes_dropped,      (* per output                                        *)
  stats               (* rtcm_stats_t                                      *)

routerVars == <<bytes_forwarded, bytes_dropped, stats>>

RouterInit ==
  /\ bytes_forwarded = [r \in Receiver |-> 0]
  /\ bytes_dropped = [r \in Receiver |-> 0]
  /\ stats = [bytes_in |-> 0, bytes_out |-> 0, bytes_dropped |-> 0]

Written(r, bytes) == FifoAccepted(uart_tx[r], UartTxCapacity, Len(bytes))

(* Mutant: what is offered to an output counts as forwarded.               *)
DistributeOffered(bytes) ==
  /\ uart_tx' = [r \in Receiver |-> FifoWrite(uart_tx[r], UartTxCapacity, bytes)]
  /\ bytes_forwarded' = [r \in Receiver |-> bytes_forwarded[r] + Len(bytes)]
  /\ bytes_dropped' =
       [r \in Receiver |-> bytes_dropped[r] + Len(bytes) - Written(r, bytes)]

(* Mutant: an output gets no more than every other one accepts.            *)
DistributeTogether(bytes) ==
  LET taken == AtMost(Written("primary", bytes), Written("secondary", bytes)) IN
  /\ uart_tx' = [r \in Receiver |-> FifoWrite(uart_tx[r], UartTxCapacity, SubSeq(bytes, 1, taken))]
  /\ bytes_forwarded' = [r \in Receiver |-> bytes_forwarded[r] + taken]
  /\ bytes_dropped' = [r \in Receiver |-> bytes_dropped[r] + Len(bytes) - taken]

(* Every output gets what its ring accepts of the bytes, the rest is       *)
(* counted.                                                                *)
Distribute(bytes) ==
  /\ uart_tx' = [r \in Receiver |-> FifoWrite(uart_tx[r], UartTxCapacity, bytes)]
  /\ bytes_forwarded' = [r \in Receiver |-> bytes_forwarded[r] + Written(r, bytes)]
  /\ bytes_dropped' =
       [r \in Receiver |-> bytes_dropped[r] + Len(bytes) - Written(r, bytes)]

(* rtcm_passthrough_record_in, _out and _dropped.                          *)
Record(bytes) ==
  LET out == Written("primary", bytes) + Written("secondary", bytes) IN
  stats' = [bytes_in      |-> stats.bytes_in + Len(bytes),
            bytes_out     |-> stats.bytes_out + out,
            bytes_dropped |-> stats.bytes_dropped + 2 * Len(bytes) - out]

RouterStep ==
  LET bytes == FifoRead(rtcm_buffer, RouterChunk) IN
  /\ rtcm_buffer' = FifoRest(rtcm_buffer, RouterChunk)
  /\ Distribute(bytes)
  /\ Record(bytes)
  /\ UNCHANGED <<tcpVars, ntrip_state, unstamped, age, pulled, attempt>>
  /\ UNCHANGED <<uart_opened, uart_rx, uart_sent>>

RouterTypeOK ==
  /\ bytes_forwarded \in [Receiver -> Nat]
  /\ bytes_dropped \in [Receiver -> Nat]
  /\ stats \in [bytes_in : Nat, bytes_out : Nat, bytes_dropped : Nat]
=============================================================================
