--------------------------- MODULE SteeringSystem ---------------------------
(***************************************************************************)
(* The steering board: the eight components app_core_init registers,       *)
(* called in registration order by the service task, all with the one      *)
(* timestamp the task took before the pass.  Between two passes the task   *)
(* sleeps; the public functions of the components that app_core does not   *)
(* call itself can be called then.                                         *)
(*                                                                         *)
(* Every component runs to completion on the same task, so a component's   *)
(* step is one action.  The sensors, the network and the time that passes  *)
(* are the environment.                                                    *)
(***************************************************************************)
EXTENDS ActuatorDrv8263h

CONSTANTS
  MaxTime,         (* bound: ticks the clock may reach                     *)
  MaxStall,        (* most ticks between the start of two passes           *)
  ApiCalls,        (* public functions called between passes               *)
  TimeoutChoices   (* arguments given to safety_failsafe_set_timeout       *)

ASSUME SystemAssumption ==
  /\ MaxTime \in Nat
  /\ MaxStall \in Nat
  /\ ApiCalls \subseteq {"enable", "disable", "set_timeout", "set_calibration"}
  /\ TimeoutChoices \subseteq Nat

VARIABLES
  now,        (* the timestamp of the pass                                 *)
  pc,         (* 0: asleep; otherwise the component whose turn it is       *)
  held_off    (* history: disable() was called, and no enable() since      *)

schedVars == <<now, pc, held_off>>

vars == <<udpVars, steeringAppVars, sensorVars, safetyVars, controlVars,
          actuatorVars, schedVars>>

(* Mutant: the control is registered before the application.               *)
RegistrationControlFirst ==
  <<"imu", "adc", "was", "control", "app", "safety", "actuator", "udp">>

(* Mutant: the actuator is registered before everything that feeds it.     *)
RegistrationActuatorFront ==
  <<"actuator", "imu", "adc", "was", "app", "control", "safety", "udp">>

(* The order of the runtime_component_register calls.                      *)
Registration ==
  <<"imu", "adc", "was", "app", "control", "safety", "actuator", "udp">>

Init ==
  /\ UdpInit
  /\ SteeringAppInit
  /\ SensorsInit
  /\ SafetyInit
  /\ SteeringControlInit
  /\ ActuatorInit
  /\ now = 0
  /\ pc = 0
  /\ held_off = FALSE

(* task_service wakes and takes the timestamp.  A tick is longer than the  *)
(* 10 ms of the task's delay, so several passes may share one; a pass may  *)
(* also come late, by up to MaxStall ticks.                                *)
BeginPass ==
  /\ pc = 0
  /\ pc' = 1
  /\ \E d \in 0 .. AtMost(MaxStall, MaxTime - now) : now' = now + d
  /\ UNCHANGED <<udpVars, steeringAppVars, sensorVars, safetyVars, controlVars,
                 actuatorVars, held_off>>

Turn(component) == pc # 0 /\ Registration[pc] = component

(* runtime_service_step_all goes to the next component; after the last one *)
(* the task sleeps.                                                        *)
NextTurn ==
  /\ pc' = IF pc = Len(Registration) THEN 0 ELSE pc + 1
  /\ UNCHANGED <<now, held_off>>

RunImu ==
  /\ Turn("imu") /\ ImuStep /\ NextTurn
  /\ UNCHANGED <<udpVars, steeringAppVars, safetyVars, controlVars, actuatorVars>>

RunAdc ==
  /\ Turn("adc") /\ AdcStep /\ NextTurn
  /\ UNCHANGED <<udpVars, steeringAppVars, safetyVars, controlVars, actuatorVars>>

RunWas ==
  /\ Turn("was") /\ WasStep /\ NextTurn
  /\ UNCHANGED <<udpVars, steeringAppVars, safetyVars, controlVars, actuatorVars>>

RunApp ==
  /\ Turn("app") /\ SteeringAppStep(now) /\ NextTurn
  /\ UNCHANGED <<sensorVars, safetyVars, controlVars, actuatorVars>>

RunControl ==
  /\ Turn("control") /\ SteeringControlStep(now) /\ NextTurn
  /\ UNCHANGED <<udpVars, steeringAppVars, sensorVars, actuatorVars>>

RunSafety ==
  /\ Turn("safety") /\ SafetyStep(now) /\ NextTurn
  /\ UNCHANGED <<udpVars, steeringAppVars, sensorVars, controlVars, actuatorVars>>

RunActuator ==
  /\ Turn("actuator") /\ ActuatorStep /\ NextTurn
  /\ UNCHANGED <<udpVars, steeringAppVars, sensorVars, safetyVars, controlVars>>

RunUdp ==
  /\ Turn("udp") /\ UdpStep /\ NextTurn
  /\ UNCHANGED <<steeringAppVars, sensorVars, safetyVars, controlVars, actuatorVars>>

(* A caller of the public functions, between two passes.                   *)
MayCall(function) == pc = 0 /\ function \in ApiCalls

CallEnable ==
  /\ MayCall("enable") /\ Enable
  /\ held_off' = FALSE
  /\ UNCHANGED <<udpVars, steeringAppVars, sensorVars, safetyVars, controlVars, now, pc>>

CallDisable ==
  /\ MayCall("disable") /\ Disable
  /\ held_off' = TRUE
  /\ UNCHANGED <<udpVars, steeringAppVars, sensorVars, safetyVars, controlVars, now, pc>>

CallSetTimeout ==
  /\ MayCall("set_timeout")
  /\ \E timeout \in TimeoutChoices : SetTimeout(timeout)
  /\ UNCHANGED <<udpVars, steeringAppVars, sensorVars, controlVars, actuatorVars, schedVars>>

CallSetCalibration ==
  /\ MayCall("set_calibration")
  /\ \E span_zero \in BOOLEAN : SetCalibration(span_zero)
  /\ UNCHANGED <<udpVars, steeringAppVars, safetyVars, controlVars, actuatorVars, schedVars>>

ServiceTask ==
  \/ BeginPass
  \/ RunImu \/ RunAdc \/ RunWas \/ RunApp
  \/ RunControl \/ RunSafety \/ RunActuator \/ RunUdp

Caller == CallEnable \/ CallDisable \/ CallSetTimeout \/ CallSetCalibration

Next == ServiceTask \/ Caller

Spec == Init /\ [][Next]_vars

(* The service task never ends and nothing of higher priority shares its   *)
(* core: the next component, or the next pass, always comes.               *)
FairSpec == Spec /\ WF_vars(ServiceTask)
-----------------------------------------------------------------------------
(* Every variable has its type, and no component has seen a time later     *)
(* than the current timestamp, so no unsigned difference wraps.            *)
FeedNotAhead == last_feed_us <= now /\ last_status_send_us <= now /\ heard_us <= now

TypeOK ==
  /\ UdpTypeOK
  /\ SteeringAppTypeOK
  /\ SensorsTypeOK
  /\ SafetyTypeOK
  /\ SteeringControlTypeOK
  /\ ActuatorTypeOK
  /\ now \in Nat
  /\ pc \in 0 .. Len(Registration)
  /\ held_off \in BOOLEAN
  /\ FeedNotAhead

(* Once the watchdog has published `triggered` the duty cycle is zero, and *)
(* stays zero whatever functions are called, except in the moment before   *)
(* the actuator's own turn in that same pass.                              *)
TriggeredStopsDrive ==
  SafetyTriggered /\ ~Turn("actuator") => current_duty = 0

(* At the end of a pass the failsafe is exactly the boot timeout: it is    *)
(* triggered if and only if no steering frame was ever accepted and the    *)
(* clock has passed the timeout.                                           *)
FailsafeIsBootTimeout ==
  pc = 0 => (failsafe_triggered <=> ~steer_input_snapshot.valid /\ now > WatchdogTimeout)

(* The pin requested of the GPIO layer agrees with the published status,   *)
(* and the failsafe trips at most once after boot.                         *)
PinFollowsFailsafe ==
  /\ failsafe_pin = "active" <=> failsafe_triggered
  /\ timeout_count <= 1

(* A frame acts in the pass that decodes it: at the end of every pass the  *)
(* duty cycle is that of the newest angle decoded, with no pass of delay   *)
(* and no older angle in between.                                          *)
FrameActsInSamePass ==
  pc = 0 /\ steer_input_snapshot.valid => current_duty = DutyOf(steer_input)

(* Whatever functions are called, the duty cycle is zero or that of the    *)
(* newest angle decoded: no uninitialised or outdated command is driven.   *)
DutyComesFromHost ==
  pc = 0 => current_duty \in {0, DutyOf(steer_input)}

(* The drive stays enabled for at most DisableTimeout steps in a row       *)
(* without a valid command, however often enable() is called in between    *)
(* and wherever the 32-bit count stands (actuator_drv8263h.c:91): only     *)
(* where it wraps is it that many, otherwise one fewer.                    *)
BlindStepsBounded == blind_steps <= DisableTimeout

(* A hello response is never cut: if its first byte reaches the network,   *)
(* all of it follows.                                                      *)
HelloSentWhole ==
  \A i \in DOMAIN wire :
    wire[i] = <<"hello", 1>> =>
      \A j \in 1 .. HelloSize :
        i + j - 1 \in DOMAIN wire /\ wire[i + j - 1] = <<"hello", j>>

HelloOnWire == \E i \in DOMAIN wire : wire[i] = <<"hello", 1>>

(* A status frame is cut by nothing but a hello response in front of it in *)
(* the same datagram: no remainder of an earlier pass takes its room, and  *)
(* the room left by the accepted bytes is never given to two frames        *)
(* (aog_steering_app.c:57, which ignores what the ring accepted).          *)
StatusCutByHelloOnly ==
  ~HelloOnWire =>
    \A i \in DOMAIN wire :
      wire[i] = <<"status", 1>> =>
        \A j \in 1 .. StatusSize :
          i + j - 1 \in DOMAIN wire /\ wire[i + j - 1] = <<"status", j>>

HelloQueued == \E i \in DOMAIN rx_buffer : rx_buffer[i].kind = "hello"

(* No step loses a hello request: the pass that takes one out of the       *)
(* receive ring leaves a response in the transmit ring, also when a status *)
(* report is due (aog_steering_app.c:142-157), and a response that leaves  *)
(* that ring is on the wire.                                               *)
HelloTaken ==
  \E i \in 1 .. Len(rx_buffer) - Len(rx_buffer') : rx_buffer[i].kind = "hello"
HelloInRing == \E i \in DOMAIN tx_buffer : tx_buffer[i] = <<"hello", 1>>
HelloKept ==
  [][/\ HelloTaken => HelloInRing'
     /\ HelloInRing => HelloInRing' \/ HelloOnWire']_vars

(* Every hello request that reaches the receive ring is answered.          *)
HelloAnswered == HelloQueued ~> HelloOnWire

(* What a user of the board sees of its steering: SteeringMode.            *)
Mode == IF enabled THEN "driving" ELSE IF safety_blocked THEN "tripped" ELSE "waiting"

Operation == INSTANCE SteeringMode WITH
  mode <- Mode, duty <- current_duty, Duties <- Duty

(* The board implements the three-state operation of SteeringMode.         *)
ImplementsOperation == Operation!Spec
-----------------------------------------------------------------------------
(* What the documentation promises and the code does not do.               *)

(* A host that stops sending is noticed: after the watchdog timeout        *)
(* without a steering frame the drive is stopped (steering_control.c,      *)
(* "the watchdog is NOT fed, causing a timeout-triggered failsafe").       *)
SilenceStopsDrive ==
  pc = 0 /\ now - heard_us > watchdog_timeout_us => current_duty = 0

(* disable() is an override: the drive stays off until enable() is called  *)
(* ("Manual enable/disable still available as override").                  *)
DisableHolds == held_off => current_duty = 0
=============================================================================
