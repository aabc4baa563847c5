---------------------------- MODULE TransportUdp ----------------------------
(***************************************************************************)
(* src/components/transport_udp/transport_udp.c: the two rings between an  *)
(* AOG application and the network.                                        *)
(*                                                                         *)
(* The receive ring is kept at the granularity of whole frames, because    *)
(* the applications act on completed frames only; the transmit ring is     *)
(* kept byte by byte, because its capacity cuts frames in two.  A byte of  *)
(* the transmit ring is <<pgn, i>>, the i-th byte of a frame of that PGN.  *)
(***************************************************************************)
EXTENDS ByteFifo

CONSTANTS
  HostFrame,     (* frames the network can deliver                         *)
  RxCapacity,    (* frames the receive ring holds                          *)
  TxCapacity,    (* capacity given to the transmit ring, in bytes          *)
  DrainSize      (* sizeof(tx_tmp): bytes one pass takes off that ring     *)

ASSUME UdpAssumption ==
  /\ RxCapacity \in Nat
  /\ TxCapacity \in Nat
  /\ DrainSize \in Nat

VARIABLES
  rx_buffer,     (* frames received, oldest first                          *)
  tx_buffer,     (* bytes waiting to be sent, oldest first                 *)
  wire           (* the bytes handed to the network by the latest drain    *)

udpVars == <<rx_buffer, tx_buffer, wire>>

UdpInit ==
  /\ rx_buffer = <<>>
  /\ tx_buffer = <<>>
  /\ wire = <<>>

(* The receive half is a stub in the code: "Data would go into rx_buffer   *)
(* here".  The network is the environment and appends any frames that fit; *)
(* a frame that does not fit, or is lost on the way, is one that never     *)
(* arrives.                                                                *)
Receive ==
  \E n \in 0 .. RxCapacity - Len(rx_buffer) :
    \E arriving \in [1 .. n -> HostFrame] :
      rx_buffer' = rx_buffer \o arriving

(* Mutant: a pass that received nothing returns before it sends.           *)
DrainAfterReceiving ==
  /\ wire' = IF rx_buffer' = <<>> THEN <<>> ELSE FifoRead(tx_buffer, DrainSize)
  /\ tx_buffer' = IF rx_buffer' = <<>> THEN tx_buffer ELSE FifoRest(tx_buffer, DrainSize)

Drain ==
  /\ wire' = FifoRead(tx_buffer, DrainSize)
  /\ tx_buffer' = FifoRest(tx_buffer, DrainSize)

UdpStep == Receive /\ Drain

(* The frames the AOG applications send.                                   *)
TxFrame == {"hello", "status", "position", "heading"}

TxByte == TxFrame \X Nat

(* The i-th byte of a frame of `size` bytes carrying this PGN.             *)
FrameBytes(pgn, size) == [i \in 1 .. size |-> <<pgn, i>>]

UdpTypeOK ==
  /\ rx_buffer \in Seq(HostFrame)
  /\ Len(rx_buffer) <= RxCapacity
  /\ tx_buffer \in Seq(TxByte)
  /\ Len(tx_buffer) <= TxCapacity
  /\ wire \in Seq(TxByte)
=============================================================================
