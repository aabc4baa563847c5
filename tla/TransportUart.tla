--------------------------- MODULE TransportUart ----------------------------
(***************************************************************************)
(* src/components/transport_uart/transport_uart.c: the two rings between   *)
(* the board and each GNSS receiver.                                       *)
(*                                                                         *)
(* The receive ring is kept at the granularity of whole NMEA sentences,    *)
(* because gnss_um980 acts on completed sentences only; a sentence damaged *)
(* on the way or in the ring is one of kind "bad".  The transmit ring is   *)
(* kept byte by byte: a correction byte is its number in order of arrival. *)
(***************************************************************************)
EXTENDS ByteFifo

CONSTANTS
  Sentence,         (* sentences a receiver can send                       *)
  UartRxCapacity,   (* sentences the receive ring holds                    *)
  UartTxCapacity,   (* TRANSPORT_UART_TX_BUFFER_SIZE                       *)
  UartDrainSize     (* sizeof(tx_tmp): bytes one pass takes off that ring  *)

ASSUME UartAssumption ==
  /\ UartRxCapacity \in Nat
  /\ UartTxCapacity \in Nat
  /\ UartDrainSize \in Nat \ {0}

Receiver == {"primary", "secondary"}

VARIABLES
  uart_opened,      (* whether transport_uart_init installed the step      *)
  uart_rx,          (* sentences received, oldest first                    *)
  uart_tx,          (* bytes waiting to be sent, oldest first              *)
  uart_sent         (* history: the bytes handed to the hardware           *)

uartVars == <<uart_opened, uart_rx, uart_tx, uart_sent>>

(* hal_uart_port_init may fail for either port.  transport_uart_init then  *)
(* returns before it installs the step; the rings are there already, and   *)
(* app_core, which ignores the result, wires and registers them all the    *)
(* same.  Both ports exist in every build of this role                     *)
(* (board_profile_has_uart), so the check in front of it always passes.    *)
UartInit ==
  /\ uart_opened \in [Receiver -> BOOLEAN]
  /\ uart_rx = [r \in Receiver |-> <<>>]
  /\ uart_tx = [r \in Receiver |-> <<>>]
  /\ uart_sent = [r \in Receiver |-> <<>>]

(* hal_uart_read: the receiver may have sent any sentences that fit; one   *)
(* that does not is damaged or never arrives.                              *)
UartReceive(r) ==
  \E n \in 0 .. UartRxCapacity - Len(uart_rx[r]) :
    \E arriving \in [1 .. n -> Sentence] :
      uart_rx' = [uart_rx EXCEPT ![r] = @ \o arriving]

(* Mutant: the drained bytes stay in the ring.                             *)
UartTransmitTwice(r) ==
  /\ uart_sent' = [uart_sent EXCEPT ![r] = @ \o FifoRead(uart_tx[r], UartDrainSize)]
  /\ UNCHANGED uart_tx

(* The result of hal_uart_write is ignored: the bytes are gone from the    *)
(* ring whatever the hardware took.                                        *)
UartTransmit(r) ==
  /\ uart_sent' = [uart_sent EXCEPT ![r] = @ \o FifoRead(uart_tx[r], UartDrainSize)]
  /\ uart_tx' = [uart_tx EXCEPT ![r] = FifoRest(@, UartDrainSize)]

(* A component without a step is passed over.                              *)
UartStep(r) ==
  /\ IF uart_opened[r] THEN UartReceive(r) /\ UartTransmit(r)
                       ELSE UNCHANGED <<uart_rx, uart_tx, uart_sent>>
  /\ UNCHANGED uart_opened

UartTypeOK ==
  /\ uart_opened \in [Receiver -> BOOLEAN]
  /\ uart_rx \in [Receiver -> Seq(Sentence)]
  /\ uart_tx \in [Receiver -> Seq(Nat)]
  /\ uart_sent \in [Receiver -> Seq(Nat)]
  /\ \A r \in Receiver : Len(uart_tx[r]) <= UartTxCapacity
=============================================================================
