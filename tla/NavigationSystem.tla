-------------------------- MODULE NavigationSystem --------------------------
(***************************************************************************)
(* The navigation board: the ten components app_core_init registers for    *)
(* this role, called in registration order by the service task, all with   *)
(* the one timestamp of the pass.  Two data flows share the task: NMEA     *)
(* sentences from two receivers to position and heading frames, and        *)
(* corrections from a TCP connection to the two receivers.                 *)
(*                                                                         *)
(* A tick is the 10 ms the task sleeps between two passes.  Between two    *)
(* passes the public functions app_core leaves to other callers can be     *)
(* called.                                                                 *)
(***************************************************************************)
EXTENDS AogNavigationApp, RtcmRouter

CONSTANTS
  MaxStall,        (* most ticks between the start of two passes           *)
  ApiStates,       (* states a caller asks ntrip_client_transition for     *)
  ApiCalls,        (* other public functions called between passes         *)
  MaxCalls         (* bound: such calls                                    *)

ASSUME NavigationAssumption ==
  /\ MaxStall \in Nat \ {0}
  /\ MsModulus > SendInterval + MaxStall
  /\ ApiStates \subseteq NtripState
  /\ ApiCalls \subseteq {"connect", "disconnect", "start"}
  /\ MaxCalls \in Nat

(* The two steps copy through buffers of the same size, smaller than the   *)
(* ring between them.                                                      *)
ASSUME CorrectionsAssumption ==
  /\ ClientChunk <= RouterChunk
  /\ ClientChunk <= RtcmCapacity

VARIABLES
  now_ms,          (* the 32-bit millisecond count of the pass             *)
  pc,              (* 0: asleep; otherwise the component whose turn it is  *)
  calls            (* calls made between passes                            *)

schedVars == <<now_ms, pc, calls>>

vars == <<udpVars, uartVars, gnssVars, navAppVars, ntripVars, routerVars, schedVars>>

(* Mutant: the router is registered before the client that feeds it.       *)
RegistrationRouterFirst ==
  <<"primary_uart", "secondary_uart", "primary_gnss", "secondary_gnss",
    "heading", "tcp", "router", "ntrip", "aog_udp", "nav_app">>

(* Mutant: each UART is registered beside its receiver, the router between.*)
RegistrationRouterBetween ==
  <<"primary_uart", "primary_gnss", "ntrip", "router", "secondary_uart",
    "secondary_gnss", "heading", "tcp", "aog_udp", "nav_app">>

(* The order of the runtime_component_register calls.                      *)
Registration ==
  <<"primary_uart", "secondary_uart", "primary_gnss", "secondary_gnss",
    "heading", "tcp", "ntrip", "router", "aog_udp", "nav_app">>

Init ==
  /\ UdpInit
  /\ UartInit
  /\ GnssInit
  /\ NavAppInit
  /\ NtripInit
  /\ RouterInit
  /\ now_ms = 0
  /\ pc = 0
  /\ calls = 0
-----------------------------------------------------------------------------
(* The service task.                                                       *)

(* task_service wakes after one tick or later and takes the timestamp.     *)
BeginPass ==
  /\ pc = 0
  /\ pc' = 1
  /\ \E d \in 1 .. MaxStall :
       /\ now_ms' = (now_ms + d) % MsModulus
       /\ since_output' = AtMost(since_output + d, SendInterval)
       /\ age' = AtMost(age + d, LongestWait)
       /\ attempt' = AtMost(attempt + d, LongestWait)
  /\ UNCHANGED <<udpVars, uartVars, gnssVars, last_aog_send_ms, tcpVars, ntrip_state,
                 unstamped, rtcm_buffer, pulled, routerVars, calls>>

Turn(component) == pc # 0 /\ Registration[pc] = component

UartOf == [primary |-> "primary_uart", secondary |-> "secondary_uart"]
GnssOf == [primary |-> "primary_gnss", secondary |-> "secondary_gnss"]

(* runtime_service_step_all goes to the next component; after the last one *)
(* the task sleeps.                                                        *)
NextTurn ==
  /\ pc' = IF pc = Len(Registration) THEN 0 ELSE pc + 1
  /\ UNCHANGED <<now_ms, calls>>

RunUart(r) ==
  /\ Turn(UartOf[r]) /\ UartStep(r) /\ NextTurn
  /\ UNCHANGED <<udpVars, gnssVars, navAppVars, ntripVars, routerVars>>

RunGnss(r) ==
  /\ Turn(GnssOf[r]) /\ GnssStep(r) /\ NextTurn
  /\ UNCHANGED <<udpVars, navAppVars, ntripVars, routerVars>>

RunHeading ==
  /\ Turn("heading") /\ HeadingStep /\ NextTurn
  /\ UNCHANGED <<udpVars, navAppVars, ntripVars, routerVars>>

RunTcp ==
  /\ Turn("tcp") /\ TcpStep /\ NextTurn
  /\ UNCHANGED <<udpVars, uartVars, gnssVars, navAppVars, routerVars>>

RunNtrip ==
  /\ Turn("ntrip") /\ ClientStep /\ NextTurn
  /\ UNCHANGED <<udpVars, uartVars, gnssVars, navAppVars, routerVars>>

RunRouter ==
  /\ Turn("router") /\ RouterStep /\ NextTurn
  /\ UNCHANGED <<udpVars, gnssVars, navAppVars>>

RunUdp ==
  /\ Turn("aog_udp") /\ UdpStep /\ NextTurn
  /\ UNCHANGED <<uartVars, gnssVars, navAppVars, ntripVars, routerVars>>

RunNavApp ==
  /\ Turn("nav_app") /\ NavAppStep(now_ms) /\ NextTurn
  /\ UNCHANGED <<uartVars, gnssVars, ntripVars, routerVars>>

ServiceTask ==
  \/ BeginPass
  \/ \E r \in Receiver : RunUart(r) \/ RunGnss(r)
  \/ RunHeading \/ RunTcp \/ RunNtrip \/ RunRouter \/ RunUdp \/ RunNavApp
-----------------------------------------------------------------------------
(* Callers of the public functions, between two passes.                    *)

MayCall ==
  /\ pc = 0 /\ calls < MaxCalls
  /\ calls' = calls + 1
  /\ UNCHANGED <<udpVars, uartVars, gnssVars, navAppVars, routerVars, now_ms, pc>>

CallConnect == "connect" \in ApiCalls /\ MayCall /\ Connect

CallDisconnect == "disconnect" \in ApiCalls /\ MayCall /\ Disconnect

CallStart == "start" \in ApiCalls /\ MayCall /\ Start

CallTransition == \E new_state \in ApiStates : MayCall /\ Transition(new_state)

Caller == CallConnect \/ CallDisconnect \/ CallStart \/ CallTransition

Next == ServiceTask \/ Caller

Spec == Init /\ [][Next]_vars

(* The service task never ends and nothing of higher priority shares its   *)
(* core: the next component, or the next pass, always comes.               *)
FairSpec == Spec /\ WF_vars(ServiceTask)
-----------------------------------------------------------------------------
TypeOK ==
  /\ UdpTypeOK
  /\ UartTypeOK
  /\ GnssTypeOK
  /\ NavAppTypeOK
  /\ NtripTypeOK
  /\ RouterTypeOK
  /\ now_ms \in 0 .. MsModulus - 1
  /\ pc \in 0 .. Len(Registration)
  /\ calls \in 0 .. MaxCalls

OnWire(frame) == {i \in DOMAIN wire : wire[i] = <<frame, 1>>}

Whole(frame, size) ==
  \A i \in OnWire(frame) :
    \A j \in 1 .. size : i + j - 1 \in DOMAIN wire /\ wire[i + j - 1] = <<frame, j>>

(* No frame waits longer than one pass: whenever the application comes to  *)
(* write, the ring is empty, although the transport that empties it is     *)
(* registered before the application (app_core.c:173).                     *)
NoBacklog == Turn("nav_app") => tx_buffer = <<>>

(* In a ring as small as one position frame a hello response is never cut, *)
(* and a position is cut by nothing but the hello response in front of it. *)
FramesWhole ==
  /\ Whole("hello", HelloSize)
  /\ OnWire("hello") = {} => Whole("position", PositionSize)

(* An output round takes place exactly in the first pass that is at least  *)
(* SendInterval after the latest one, also where the millisecond count     *)
(* wraps (aog_navigation_app.c:116).                                       *)
OutputOnTime ==
  [][RunNavApp => (since_output' = 0 <=> since_output >= SendInterval)]_vars

(* No step loses a hello request: the pass that takes one out of the       *)
(* receive ring leaves a response in the transmit ring, also in an output  *)
(* round (aog_navigation_app.c:98-113), and a response that leaves that    *)
(* ring is on the wire.                                                    *)
HelloTaken ==
  \E i \in 1 .. Len(rx_buffer) - Len(rx_buffer') : rx_buffer[i] = "hello"
HelloInRing == \E i \in DOMAIN tx_buffer : tx_buffer[i] = <<"hello", 1>>
HelloKept ==
  [][/\ HelloTaken => HelloInRing'
     /\ HelloInRing => HelloInRing' \/ OnWire("hello")' # {}]_vars

(* Every hello request that reaches the receive ring is answered.          *)
HelloQueued == \E i \in DOMAIN rx_buffer : rx_buffer[i] = "hello"
HelloAnswered == HelloQueued ~> OnWire("hello") # {}

(* Every byte the router took is in one of three places for each receiver: *)
(* handed to its UART, in the ring of its UART, or counted as dropped; and *)
(* the totals are those of the outputs.                                    *)
EveryByteAccounted ==
  /\ \A r \in Receiver :
       /\ bytes_forwarded[r] = Len(uart_sent[r]) + Len(uart_tx[r])
       /\ bytes_forwarded[r] + bytes_dropped[r] = stats.bytes_in
  /\ stats.bytes_out = bytes_forwarded["primary"] + bytes_forwarded["secondary"]
  /\ stats.bytes_dropped = bytes_dropped["primary"] + bytes_dropped["secondary"]

(* Between the TCP ring and the router nothing is lost, although the       *)
(* client ignores how much its ring accepts (ntrip_client.c:183) and every *)
(* transition clears that ring (ntrip_client.c:111-117): the router comes  *)
(* next and takes it all.                                                  *)
ClientLosesNothing == pulled = stats.bytes_in + Len(rtcm_buffer)

(* Both receivers get the same corrections, what one misses the other      *)
(* misses, too, unless only one of the ports could be opened (app_core.c   *)
(* ignores the results of :112 and :120 and wires both).                   *)
OutputsAgree ==
  pc = 0 /\ uart_opened["primary"] = uart_opened["secondary"] =>
    /\ uart_sent["primary"] = uart_sent["secondary"]
    /\ uart_tx["primary"] = uart_tx["secondary"]

(* The ring of a port that could not be opened fills and is never drained; *)
(* that costs the other receiver nothing: an output misses a byte only     *)
(* when its own ring is full to the last place.                            *)
LossIsLocal ==
  [][\A r \in Receiver :
       bytes_dropped'[r] > bytes_dropped[r] => Len(uart_tx'[r]) = UartTxCapacity]_vars

(* The client is connected only after both waits of the attempt are over,  *)
(* however often it was started, failed or was told to change its state    *)
(* (ntrip_client.c:147-168).                                               *)
WaitsBeforeConnected == ntrip_state = "CONNECTED" => attempt >= LongestWait

(* When the callers leave it alone, the client ends up connected, unless   *)
(* one of them took it to IDLE.                                            *)
ConnectsInTheEnd == <>[](ntrip_state = "CONNECTED") \/ <>[](ntrip_state = "IDLE")

(* To each receiver the board is a pipe that may lose bytes and does       *)
(* nothing worse, whatever stalls, disconnects and restarts there are.     *)
Pipe == INSTANCE LossyPipe WITH Output <- Receiver, sent <- uart_sent

ImplementsLossyPipe == Pipe!Spec
-----------------------------------------------------------------------------
(* What the documentation promises and the code does not do.               *)

(* A heading is sent only while both receivers have a fix                  *)
(* (gnss_dual_heading.h:19: "true if both receivers have fix").            *)
HeadingHasFix ==
  pc = 0 /\ (\E i \in DOMAIN tx_buffer : tx_buffer[i] = <<"heading", 1>>) =>
    \A r \in Receiver : HasFix(r)

(* An output round queues what there is to send, the position and the      *)
(* heading (docs/architecture/protocols.md:3-4: both are mandatory).       *)
Queued(frame) == \A i \in DOMAIN frame : \E j \in DOMAIN tx_buffer : tx_buffer[j] = frame[i]

OutputsQueued ==
  pc = 0 /\ since_output = 0 => Queued(PositionFrame) /\ Queued(HeadingFrame)
=============================================================================
