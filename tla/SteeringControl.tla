--------------------------- MODULE SteeringControl --------------------------
(***************************************************************************)
(* src/components/steering_control/steering_control.c: combines the        *)
(* steering input with the validity of both sensors, publishes the         *)
(* command, and feeds the watchdog when the command is sensor-backed.      *)
(* speed, measured angle and heading error are read by no one and left     *)
(* out; command.status is 1 exactly when the command is valid.             *)
(***************************************************************************)
EXTENDS AogSteeringApp, SteeringSensors, SafetyFailsafe

VARIABLES command, command_snapshot

controlVars == <<command, command_snapshot>>

Command == [angle : Angle, valid : BOOLEAN, sensors_valid : BOOLEAN]

NoCommand == [angle |-> 0, valid |-> FALSE, sensors_valid |-> FALSE]

SteeringControlInit ==
  /\ command = NoCommand
  /\ command_snapshot = SnapshotInit(NoCommand)

WasValid == was_snapshot.valid /\ was_snapshot.value
ImuValid == imu_snapshot.valid /\ imu_snapshot.value

(* No input was ever published: an invalid command that keeps its angle,   *)
(* and no feed.                                                            *)
WithoutInput ==
  /\ ~steer_input_snapshot.valid
  /\ command' = [command EXCEPT !.valid = FALSE, !.sensors_valid = FALSE]
  /\ UNCHANGED last_feed_us

(* Mutant: the watchdog is fed only when the command becomes valid.        *)
WithInputFeedOnce(ts) ==
  /\ steer_input_snapshot.valid
  /\ command' = [angle |-> steer_input_snapshot.value,
                 valid |-> TRUE,
                 sensors_valid |-> WasValid /\ ImuValid]
  /\ IF WasValid /\ ImuValid /\ ~command.valid THEN Feed(ts) ELSE UNCHANGED last_feed_us

WithInput(ts) ==
  /\ steer_input_snapshot.valid
  /\ command' = [angle |-> steer_input_snapshot.value,
                 valid |-> TRUE,
                 sensors_valid |-> WasValid /\ ImuValid]
  /\ IF WasValid /\ ImuValid THEN Feed(ts) ELSE UNCHANGED last_feed_us

SteeringControlStep(ts) ==
  /\ WithoutInput \/ WithInput(ts)
  /\ command_snapshot' = SnapshotSet(command')
  /\ UNCHANGED <<watchdog_timeout_us, failsafe_triggered, timeout_count,
                 safety_snapshot, failsafe_pin>>

SteeringControlTypeOK ==
  /\ command \in Command
  /\ command_snapshot \in SnapshotType(Command)
=============================================================================
