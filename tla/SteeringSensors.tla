--------------------------- MODULE SteeringSensors --------------------------
(***************************************************************************)
(* The sensor chain of the steering board: imu_bno085.c, ads1118.c and     *)
(* was_sensor.c.  All three ignore the result of hal_spi_transfer; the     *)
(* measured values (the IMU's angles, the ADC's raw count, the wheel       *)
(* angle) are constants of the code or are read by no one, so what is      *)
(* left of a sample is its `valid` flag.                                   *)
(***************************************************************************)
EXTENDS SnapshotBuffer

VARIABLES
  imu_snapshot,      (* published by the IMU                               *)
  adc_data_valid,    (* ads1118_t.data_valid                               *)
  was_raw_span_zero, (* the calibration maps every raw value to one angle  *)
  was_data_valid,    (* was_sensor_t.data_valid                            *)
  was_snapshot       (* published by the wheel angle sensor                *)

sensorVars ==
  <<imu_snapshot, adc_data_valid, was_raw_span_zero, was_data_valid, was_snapshot>>

(* was_sensor_init leaves both raw limits 0; app_core_init then sets the   *)
(* calibration 0 .. 65535 before any component runs.                       *)
SensorsInit ==
  /\ imu_snapshot = SnapshotInit(FALSE)
  /\ adc_data_valid = FALSE
  /\ was_raw_span_zero = FALSE
  /\ was_data_valid = FALSE
  /\ was_snapshot = SnapshotInit(FALSE)

ImuStep ==
  /\ imu_snapshot' = SnapshotSet(TRUE)
  /\ UNCHANGED <<adc_data_valid, was_raw_span_zero, was_data_valid, was_snapshot>>

AdcStep ==
  /\ adc_data_valid' = TRUE
  /\ UNCHANGED <<imu_snapshot, was_raw_span_zero, was_data_valid, was_snapshot>>

(* With an unusable calibration the sensor marks itself invalid and leaves *)
(* without publishing: the previous snapshot stays.                        *)
WasSkip ==
  /\ was_raw_span_zero
  /\ was_data_valid' = FALSE
  /\ UNCHANGED was_snapshot

WasPublish ==
  /\ ~was_raw_span_zero
  /\ was_data_valid' = TRUE
  /\ was_snapshot' = SnapshotSet(TRUE)

WasStep ==
  /\ WasSkip \/ WasPublish
  /\ UNCHANGED <<imu_snapshot, adc_data_valid, was_raw_span_zero>>

(* was_sensor_set_calibration, with equal raw limits or not.               *)
SetCalibration(span_zero) ==
  /\ was_raw_span_zero' = span_zero
  /\ UNCHANGED <<imu_snapshot, adc_data_valid, was_data_valid, was_snapshot>>

SensorsTypeOK ==
  /\ imu_snapshot \in SnapshotType(BOOLEAN)
  /\ adc_data_valid \in BOOLEAN
  /\ was_raw_span_zero \in BOOLEAN
  /\ was_data_valid \in BOOLEAN
  /\ was_snapshot \in SnapshotType(BOOLEAN)
=============================================================================
