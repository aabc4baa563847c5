---------------------------- MODULE NtripClient -----------------------------
(***************************************************************************)
(* src/components/ntrip_client/ntrip_client.c and the TCP transport it     *)
(* reads from, src/components/transport_tcp/transport_tcp.c.               *)
(*                                                                         *)
(* A correction byte is its number in order of arrival.  The time of the   *)
(* last state change is kept as its age, which the code compares with its  *)
(* two timeouts only, and the value 0 that ntrip_client_start leaves there *)
(* as `unstamped`.  reconnect_count is read by no component and left out.  *)
(***************************************************************************)
EXTENDS ByteFifo

CONSTANTS
  TcpCapacity,        (* TRANSPORT_TCP_RX_BUFFER_SIZE                      *)
  RtcmCapacity,       (* NTRIP_RTCM_BUFFER_SIZE                            *)
  ClientChunk,        (* sizeof(tmp) of the client's step                  *)
  ConnectingTimeout,      (* NTRIP_SKELETON_CONNECTING_TIMEOUT_US          *)
  AuthenticatingTimeout,  (* NTRIP_SKELETON_AUTHENTICATING_TIMEOUT_US      *)
  MaxBytes            (* bound: correction bytes that arrive               *)

ASSUME NtripAssumption ==
  /\ TcpCapacity \in Nat
  /\ RtcmCapacity \in Nat
  /\ ClientChunk \in Nat \ {0}
  /\ ConnectingTimeout \in Nat \ {0}
  /\ AuthenticatingTimeout \in Nat \ {0}
  /\ MaxBytes \in Nat

NtripState ==
  {"IDLE", "CONNECTING", "AUTHENTICATING", "CONNECTED", "ERROR", "RECONNECT"}

LongestWait == ConnectingTimeout + AuthenticatingTimeout

VARIABLES
  connected,          (* of the TCP transport                              *)
  tcp_rx,             (* its receive ring                                  *)
  ntrip_state,
  unstamped,          (* the last state change has the time 0              *)
  age,                (* time since the last state change, up to           *)
                      (* LongestWait                                       *)
  rtcm_buffer,
  arrived,            (* history: correction bytes that arrived            *)
  pulled,             (* history: bytes the client took off the TCP ring   *)
  attempt             (* history: time since the connection attempt began, *)
                      (* up to LongestWait                                 *)

tcpVars == <<connected, tcp_rx, arrived>>
clientVars == <<ntrip_state, unstamped, age, rtcm_buffer, pulled, attempt>>
ntripVars == <<tcpVars, clientVars>>

(* transport_tcp_init; ntrip_client_init, then ntrip_client_start.         *)
NtripInit ==
  /\ connected = FALSE
  /\ tcp_rx = <<>>
  /\ ntrip_state = "CONNECTING"
  /\ unstamped = TRUE
  /\ age = 0
  /\ rtcm_buffer = <<>>
  /\ arrived = 0
  /\ pulled = 0
  /\ attempt = 0
-----------------------------------------------------------------------------
(* The TCP transport.                                                      *)

(* The receive half is a stub in the code: "Data would go into rx_buffer   *)
(* here".  What does not fit stays with the sender.                        *)
TcpStep ==
  \E n \in 0 .. AtMost(TcpCapacity - Len(tcp_rx), MaxBytes - arrived) :
    /\ n > 0 => connected
    /\ tcp_rx' = tcp_rx \o [i \in 1 .. n |-> arrived + i]
    /\ arrived' = arrived + n
    /\ UNCHANGED <<connected, clientVars>>

Connect == connected' = TRUE /\ UNCHANGED <<tcp_rx, arrived, clientVars>>
Disconnect == connected' = FALSE /\ UNCHANGED <<tcp_rx, arrived, clientVars>>
-----------------------------------------------------------------------------
(* ntrip_is_valid_transition.                                              *)
ValidTransition(from, to) ==
  \/ from = to
  \/ <<from, to>> \in
       {<<"IDLE", "CONNECTING">>,
        <<"CONNECTING", "AUTHENTICATING">>, <<"CONNECTING", "ERROR">>,
        <<"AUTHENTICATING", "CONNECTED">>, <<"AUTHENTICATING", "ERROR">>,
        <<"CONNECTED", "ERROR">>, <<"CONNECTED", "IDLE">>,
        <<"ERROR", "RECONNECT">>, <<"ERROR", "IDLE">>,
        <<"RECONNECT", "CONNECTING">>, <<"RECONNECT", "IDLE">>}

(* What every valid transition does.  The TCP ring is not cleared.         *)
Enter(new_state) ==
  /\ ntrip_state' = new_state
  /\ age' = 0
  /\ attempt' = IF new_state = "CONNECTING" THEN 0 ELSE attempt
  /\ rtcm_buffer' = IF new_state = "CONNECTED" THEN rtcm_buffer ELSE <<>>

(* ntrip_client_transition with the current time; an invalid one changes   *)
(* nothing.                                                                *)
Transition(new_state) ==
  /\ ValidTransition(ntrip_state, new_state)
  /\ Enter(new_state)
  /\ unstamped' = FALSE
  /\ UNCHANGED <<tcpVars, pulled>>

(* ntrip_client_start.                                                     *)
Start ==
  /\ ntrip_state = "IDLE"
  /\ Enter("CONNECTING")
  /\ unstamped' = TRUE
  /\ UNCHANGED <<tcpVars, pulled>>
-----------------------------------------------------------------------------
(* ntrip_client_service_step.                                              *)

(* Mutant: the time 0 of the start is taken for a time.                    *)
ElapsedSinceZero == IF unstamped THEN LongestWait ELSE age

(* The first step after a start stamps it, and nothing has elapsed.        *)
Elapsed == IF unstamped THEN 0 ELSE age

(* The step waits in its state; it stamps a start.                         *)
Stay ==
  /\ unstamped' = FALSE
  /\ age' = Elapsed
  /\ UNCHANGED <<tcpVars, ntrip_state, rtcm_buffer, pulled, attempt>>

WaitThen(timeout, next_state) ==
  IF Elapsed >= timeout THEN Transition(next_state) ELSE Stay

(* What the RTCM ring does not accept is lost: the result of the write is  *)
(* ignored.                                                                *)
Forward ==
  LET bytes == FifoRead(tcp_rx, ClientChunk) IN
  /\ tcp_rx' = FifoRest(tcp_rx, ClientChunk)
  /\ rtcm_buffer' = FifoWrite(rtcm_buffer, RtcmCapacity, bytes)
  /\ pulled' = pulled + Len(bytes)
  /\ unstamped' = FALSE
  /\ UNCHANGED <<connected, arrived, ntrip_state, age, attempt>>

(* Mutant: an error is waited out and then forgotten.                      *)
ClientStepNoRetry ==
  CASE ntrip_state = "CONNECTING" -> WaitThen(ConnectingTimeout, "AUTHENTICATING")
    [] ntrip_state = "AUTHENTICATING" -> WaitThen(AuthenticatingTimeout, "CONNECTED")
    [] ntrip_state = "CONNECTED" -> Forward
    [] ntrip_state = "RECONNECT" -> Transition("CONNECTING")
    [] OTHER -> Stay

ClientStep ==
  CASE ntrip_state = "CONNECTING" -> WaitThen(ConnectingTimeout, "AUTHENTICATING")
    [] ntrip_state = "AUTHENTICATING" -> WaitThen(AuthenticatingTimeout, "CONNECTED")
    [] ntrip_state = "CONNECTED" -> Forward
    [] ntrip_state = "ERROR" -> WaitThen(AuthenticatingTimeout, "RECONNECT")
    [] ntrip_state = "RECONNECT" -> Transition("CONNECTING")
    [] ntrip_state = "IDLE" -> Stay

NtripTypeOK ==
  /\ connected \in BOOLEAN
  /\ tcp_rx \in Seq(Nat) /\ Len(tcp_rx) <= TcpCapacity
  /\ ntrip_state \in NtripState
  /\ unstamped \in BOOLEAN
  /\ age \in 0 .. LongestWait
  /\ rtcm_buffer \in Seq(Nat) /\ Len(rtcm_buffer) <= RtcmCapacity
  /\ arrived \in Nat /\ pulled \in Nat
  /\ attempt \in 0 .. LongestWait
=============================================================================
