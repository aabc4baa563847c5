-------------------------- MODULE ActuatorDrv8263h --------------------------
(***************************************************************************)
(* src/components/actuator_drv8263h/actuator_drv8263h.c: turns the         *)
(* command into a duty cycle unless the failsafe is triggered or the       *)
(* driver is disabled.  Duty is counted in units of 1/40, the scale the    *)
(* code uses (FullScale = 40 degrees).  update_count is a statistic and    *)
(* left out.                                                               *)
(***************************************************************************)
EXTENDS SteeringControl

CONSTANTS
  FullScale,        (* degrees at which the duty cycle saturates           *)
  NaN,              (* the float that compares false with everything       *)
  DisableTimeout,   (* ACTUATOR_DISABLE_TIMEOUT                            *)
  CountModulus      (* 2^32: where the count of missing commands wraps     *)

ASSUME ActuatorAssumption ==
  /\ FullScale \in Nat \ {0}
  /\ NaN \notin Int
  /\ Angle \subseteq Int \cup {NaN}
  /\ DisableTimeout \in Nat \ {0}
  /\ CountModulus \in Nat /\ CountModulus > DisableTimeout

VARIABLES
  enabled, safety_blocked, current_duty, no_valid_count,
  blind_steps       (* history: steps in a row, up to the latest, that     *)
                    (* left the drive enabled without a valid command      *)

actuatorVars == <<enabled, safety_blocked, current_duty, no_valid_count, blind_steps>>

Duty == (-FullScale) .. FullScale \cup {NaN}

ActuatorInit ==
  /\ enabled = FALSE
  /\ safety_blocked = FALSE
  /\ current_duty = 0
  /\ no_valid_count = 0
  /\ blind_steps = 0

(* Both comparisons of the code are false for NaN, which is then divided   *)
(* by 40 and stays NaN.                                                    *)
DutyOf(angle) ==
  IF angle = NaN THEN NaN
  ELSE IF angle > 0 THEN IF angle > FullScale THEN FullScale ELSE angle
  ELSE IF angle < -FullScale THEN -FullScale ELSE angle

SafetyTriggered == safety_snapshot.valid /\ safety_snapshot.value.triggered

CommandOk == command_snapshot.valid /\ command_snapshot.value.valid

(* The angle the step uses.  `cmd` is an uninitialised local: if the       *)
(* snapshot was never written it may hold any angle.                       *)
AngleRead == IF command_snapshot.valid THEN {command_snapshot.value.angle} ELSE Angle

(* The count is a uint32_t that nothing stops at the limit: while no       *)
(* command comes it goes on, and after 2^32 steps wraps to 0.              *)
CountInvalid == (no_valid_count + 1) % CountModulus

(* Mutant: the blocked branch leaves the old duty cycle standing.          *)
BlockedKeepsDuty ==
  /\ SafetyTriggered
  /\ safety_blocked' = TRUE
  /\ enabled' = FALSE
  /\ UNCHANGED <<no_valid_count, current_duty>>

Blocked ==
  /\ SafetyTriggered
  /\ safety_blocked' = TRUE
  /\ enabled' = FALSE
  /\ current_duty' = 0
  /\ UNCHANGED no_valid_count

(* Auto-enable on a sensor-backed command.                                 *)
AcceptCommand ==
  /\ CommandOk
  /\ no_valid_count' = 0
  /\ enabled' = (enabled \/ command_snapshot.value.sensors_valid)

(* Mutant: the auto-disable compares with one too many.                    *)
MissCommandLate ==
  /\ ~CommandOk
  /\ no_valid_count' = CountInvalid
  /\ enabled' = (enabled /\ no_valid_count' <= DisableTimeout)

(* Auto-disable after DisableTimeout steps without one.                    *)
MissCommand ==
  /\ ~CommandOk
  /\ no_valid_count' = CountInvalid
  /\ enabled' = (enabled /\ no_valid_count' < DisableTimeout)

Drive ==
  /\ ~SafetyTriggered
  /\ safety_blocked' = FALSE
  /\ AcceptCommand \/ MissCommand
  /\ IF enabled' THEN \E angle \in AngleRead : current_duty' = DutyOf(angle)
                 ELSE current_duty' = 0

ActuatorStep ==
  /\ Blocked \/ Drive
  /\ blind_steps' = IF enabled' /\ ~CommandOk THEN blind_steps + 1 ELSE 0

Enable ==
  /\ enabled' = TRUE
  /\ UNCHANGED <<safety_blocked, current_duty, no_valid_count, blind_steps>>

Disable ==
  /\ enabled' = FALSE
  /\ current_duty' = 0
  /\ UNCHANGED <<safety_blocked, no_valid_count, blind_steps>>

ActuatorTypeOK ==
  /\ enabled \in BOOLEAN
  /\ safety_blocked \in BOOLEAN
  /\ current_duty \in Duty
  /\ no_valid_count \in 0 .. CountModulus - 1
  /\ blind_steps \in Nat
=============================================================================
