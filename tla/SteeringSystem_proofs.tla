----------------------- MODULE SteeringSystem_proofs ------------------------
(***************************************************************************)
(* Type correctness and the safety of the steering board, for every clock, *)
(* every host and every choice of the constants SteeringSystem assumes.    *)
(***************************************************************************)
EXTENDS SteeringSystem, TransportUdp_proofs

LEMMA RegistrationFacts ==
  /\ Len(Registration) = 8
  /\ Registration[1] = "imu"      /\ Registration[2] = "adc"
  /\ Registration[3] = "was"      /\ Registration[4] = "app"
  /\ Registration[5] = "control"  /\ Registration[6] = "safety"
  /\ Registration[7] = "actuator" /\ Registration[8] = "udp"
BY DEF Registration

(* Whose turn it is, as the position in the registration order.            *)
LEMMA TurnPosition ==
  ASSUME pc \in 0 .. 8
  PROVE  /\ Turn("imu") <=> pc = 1
         /\ Turn("adc") <=> pc = 2
         /\ Turn("was") <=> pc = 3
         /\ Turn("app") <=> pc = 4
         /\ Turn("control") <=> pc = 5
         /\ Turn("safety") <=> pc = 6
         /\ Turn("actuator") <=> pc = 7
         /\ Turn("udp") <=> pc = 8
<1>1. \/ pc = 0 \/ pc = 1 \/ pc = 2 \/ pc = 3 \/ pc = 4
      \/ pc = 5 \/ pc = 6 \/ pc = 7 \/ pc = 8
  OBVIOUS
<1>2. QED
  BY <1>1, RegistrationFacts DEF Turn

LEMMA NextTurnType ==
  ASSUME pc \in 1 .. 8, NextTurn
  PROVE  /\ pc' = (IF pc = 8 THEN 0 ELSE pc + 1)
         /\ pc' \in 0 .. 8
         /\ UNCHANGED <<now, held_off>>
BY RegistrationFacts DEF NextTurn

(* What decoding leaves behind is one of the angles.                       *)
LEMMA DecodedAngle ==
  ASSUME NEW frames \in Seq(HostFrame), steer_input \in Angle, Decode(frames)
  PROVE  steer_input' \in Angle
<1>1. CASE UNCHANGED steer_input
  BY <1>1
<1>2. ASSUME NEW i \in OfKind(frames, {"steer"}), steer_input' = frames[i].angle
      PROVE  steer_input' \in Angle
  <2>1. i \in 1 .. Len(frames)
    BY DEF OfKind
  <2>2. frames[i] \in SteeringFrame
    BY <2>1, SteeringAppAssumption
  <2>3. QED
    BY <1>2, <2>2 DEF SteeringFrame
<1>3. QED
  BY <1>1, <1>2 DEF Decode

(* Responding keeps the transmit ring within its capacity.                 *)
LEMMA RespondType ==
  ASSUME NEW frames, NEW ts, UdpTypeOK, Respond(frames, ts)
  PROVE  tx_buffer' \in Seq(TxByte) /\ Len(tx_buffer') <= TxCapacity
<1> DEFINE hello == IF HelloPending(frames) THEN FrameBytes("hello", HelloSize) ELSE <<>>
           status == IF StatusDue(ts) THEN FrameBytes("status", StatusSize) ELSE <<>>
           first == FifoWrite(tx_buffer, TxCapacity, hello)
<1>1. hello \in Seq(TxByte) /\ status \in Seq(TxByte)
  <2>1. /\ FrameBytes("hello", HelloSize) \in Seq(TxByte)
        /\ FrameBytes("status", StatusSize) \in Seq(TxByte)
    BY FrameBytesType, SteeringAppAssumption DEF TxFrame
  <2>2. <<>> \in Seq(TxByte)
    OBVIOUS
  <2>3. QED
    BY <2>1, <2>2
<1> HIDE DEF hello, status
<1>2. first \in Seq(TxByte) /\ Len(first) <= TxCapacity
  BY <1>1, FifoWriteBounded, UdpAssumption DEF UdpTypeOK
<1>3. tx_buffer' = FifoWrite(first, TxCapacity, status)
  BY DEF Respond, hello, status
<1>4. QED
  BY <1>1, <1>2, <1>3, FifoWriteBounded, UdpAssumption

(* What one pass of the application leaves in its part of the state.       *)
LEMMA SteeringAppType ==
  ASSUME NEW ts \in Nat, UdpTypeOK, SteeringAppTypeOK, SteeringAppStep(ts)
  PROVE  /\ UdpTypeOK'
         /\ SteeringAppTypeOK'
         /\ last_status_send_us' \in {last_status_send_us, ts}
         /\ heard_us' \in {heard_us, ts}
<1>1. PICK n \in 0 .. AtMost(FramesPerPass, Len(rx_buffer)) :
        LET frames == SubSeq(rx_buffer, 1, n) IN
        /\ rx_buffer' = SubSeq(rx_buffer, n + 1, Len(rx_buffer))
        /\ Decode(frames)
        /\ PublishInput(frames, ts)
        /\ Respond(frames, ts)
        /\ last_status_send_us' = IF StatusDue(ts) THEN ts ELSE last_status_send_us
        /\ UNCHANGED wire
  BY DEF SteeringAppStep
<1> DEFINE frames == SubSeq(rx_buffer, 1, n)
<1>2. rx_buffer \in Seq(HostFrame) /\ n \in 0 .. Len(rx_buffer)
  BY SteeringAppAssumption DEF UdpTypeOK, AtMost
<1>3. frames \in Seq(HostFrame)
  <2>1. \A i \in 1 .. n : rx_buffer[i] \in HostFrame
    BY <1>2
  <2>2. QED
    BY <1>2, <2>1, SubSeqProperties
<1>4. rx_buffer' \in Seq(HostFrame) /\ Len(rx_buffer') <= Len(rx_buffer)
  <2>1. \A i \in n + 1 .. Len(rx_buffer) : rx_buffer[i] \in HostFrame
    BY <1>2
  <2>2. QED
    BY <1>1, <1>2, <2>1, SubSeqProperties
<1> HIDE DEF frames
<1>5. Decode(frames) /\ PublishInput(frames, ts) /\ Respond(frames, ts)
  BY <1>1 DEF frames
<1>6. steer_input' \in Angle
  BY <1>3, <1>5, DecodedAngle DEF SteeringAppTypeOK
<1>7. steer_input_snapshot' \in SnapshotType(Angle) /\ heard_us' \in {heard_us, ts}
  <2>1. CASE UNCHANGED <<steer_input_snapshot, heard_us>>
    BY <2>1 DEF SteeringAppTypeOK
  <2>2. CASE /\ steer_input_snapshot' = SnapshotSet(steer_input')
             /\ heard_us' = ts
    BY <1>6, <2>2 DEF SnapshotSet, SnapshotType
  <2>3. QED
    BY <1>5, <2>1, <2>2 DEF PublishInput
<1>8. UdpTypeOK'
  BY <1>1, <1>2, <1>4, <1>5, RespondType, UdpAssumption DEF UdpTypeOK
<1>9. last_status_send_us' \in {last_status_send_us, ts}
  BY <1>1
<1>10. QED
  BY <1>6, <1>7, <1>8, <1>9 DEF SteeringAppTypeOK

LEMMA UdpType ==
  ASSUME UdpTypeOK, UdpStep
  PROVE  UdpTypeOK'
<1>1. rx_buffer' \in Seq(HostFrame) /\ Len(rx_buffer') <= RxCapacity
  <2>1. PICK n \in 0 .. RxCapacity - Len(rx_buffer) :
          \E arriving \in [1 .. n -> HostFrame] : rx_buffer' = rx_buffer \o arriving
    BY DEF UdpStep, Receive
  <2>2. PICK arriving \in [1 .. n -> HostFrame] : rx_buffer' = rx_buffer \o arriving
    BY <2>1
  <2>3. n \in Nat /\ n <= RxCapacity - Len(rx_buffer)
    BY UdpAssumption DEF UdpTypeOK
  <2>4. arriving \in Seq(HostFrame) /\ Len(arriving) = n
    BY <2>3, SeqDef
  <2>5. QED
    BY <2>2, <2>3, <2>4, ConcatProperties, UdpAssumption DEF UdpTypeOK
<1>2. /\ wire' \in Seq(TxByte)
      /\ tx_buffer' \in Seq(TxByte)
      /\ Len(tx_buffer') <= TxCapacity
  <2>1. tx_buffer \in Seq(TxByte) /\ DrainSize \in Nat
    BY UdpAssumption DEF UdpTypeOK
  <2>2. AtMost(DrainSize, Len(tx_buffer)) \in Nat
    BY <2>1 DEF AtMost
  <2>3. QED
    BY <2>1, <2>2, FifoReadSplits, UdpAssumption DEF UdpStep, Drain, UdpTypeOK
<1>3. QED
  BY <1>1, <1>2 DEF UdpTypeOK

(* Standing still is a duty cycle.                                         *)
LEMMA ZeroIsDuty == 0 \in Duty
<1>1. 0 \in (-FullScale) .. FullScale
  BY ActuatorAssumption
<1>2. QED
  BY <1>1 DEF Duty

LEMMA TypeInit == Init => TypeOK
<1> SUFFICES ASSUME Init PROVE TypeOK
  OBVIOUS
<1> USE DEF Init
<1>1. UdpTypeOK
  BY UdpAssumption DEF UdpInit, UdpTypeOK
<1>2. SteeringAppTypeOK
  BY SteeringAppAssumption DEF SteeringAppInit, SteeringAppTypeOK, SnapshotInit, SnapshotType
<1>3. SensorsTypeOK
  BY DEF SensorsInit, SensorsTypeOK, SnapshotInit, SnapshotType
<1>4. SafetyTypeOK
  <2>1. 0 \in 0 .. CounterRange - 1 /\ WatchdogTimeout \in Nat
    BY SafetyAssumption
  <2>2. [triggered |-> FALSE, timeout_count |-> 0] \in SafetyStatus
    BY <2>1 DEF SafetyStatus
  <2>3. safety_snapshot \in SnapshotType(SafetyStatus)
    BY <2>2 DEF SafetyInit, SnapshotInit, SnapshotType
  <2>4. QED
    BY <2>1, <2>3 DEF SafetyInit, SafetyTypeOK
<1>5. SteeringControlTypeOK
  BY SteeringAppAssumption
     DEF SteeringControlInit, SteeringControlTypeOK, SnapshotInit, SnapshotType, Command, NoCommand
<1>6. ActuatorTypeOK
  <2>1. 0 \in 0 .. CountModulus - 1
    BY ActuatorAssumption
  <2>2. QED
    BY <2>1, ZeroIsDuty DEF ActuatorInit, ActuatorTypeOK
<1>7. FeedNotAhead
  BY DEF FeedNotAhead, SafetyInit, SteeringAppInit
<1>8. now \in Nat /\ pc \in 0 .. Len(Registration) /\ held_off \in BOOLEAN
  <2>1. now \in Nat /\ pc \in 0 .. Len(Registration)
    <3>1. now = 0 /\ pc = 0
      OBVIOUS
    <3>2. QED
      BY <3>1, RegistrationFacts
  <2>2. held_off \in BOOLEAN
    OBVIOUS
  <2>3. QED
    BY <2>1, <2>2
<1> HIDE DEF Init
<1>9. QED
  BY <1>1, <1>2, <1>3, <1>4, <1>5, <1>6, <1>7, <1>8 DEF TypeOK

(* A component that a step does not touch keeps its type.                  *)
LEMMA UdpTypeStable ==
  ASSUME UdpTypeOK, UNCHANGED udpVars PROVE UdpTypeOK'
BY DEF UdpTypeOK, udpVars

LEMMA SteeringAppTypeStable ==
  ASSUME SteeringAppTypeOK, UNCHANGED steeringAppVars PROVE SteeringAppTypeOK'
BY DEF SteeringAppTypeOK, steeringAppVars

LEMMA SensorsTypeStable ==
  ASSUME SensorsTypeOK, UNCHANGED sensorVars PROVE SensorsTypeOK'
BY DEF SensorsTypeOK, sensorVars

LEMMA SafetyTypeStable ==
  ASSUME SafetyTypeOK, UNCHANGED safetyVars PROVE SafetyTypeOK'
BY DEF SafetyTypeOK, safetyVars

LEMMA SteeringControlTypeStable ==
  ASSUME SteeringControlTypeOK, UNCHANGED controlVars PROVE SteeringControlTypeOK'
BY DEF SteeringControlTypeOK, controlVars

LEMMA ActuatorTypeStable ==
  ASSUME ActuatorTypeOK, UNCHANGED actuatorVars PROVE ActuatorTypeOK'
BY DEF ActuatorTypeOK, actuatorVars

(* Each component's own step keeps its type.                               *)
LEMMA SensorsType ==
  ASSUME SensorsTypeOK,
         \/ ImuStep \/ AdcStep \/ WasStep
         \/ \E span_zero \in BOOLEAN : SetCalibration(span_zero)
  PROVE  SensorsTypeOK'
<1> USE DEF SensorsTypeOK, SnapshotSet, SnapshotType
<1>1. CASE ImuStep
  BY <1>1 DEF ImuStep
<1>2. CASE AdcStep
  BY <1>2 DEF AdcStep
<1>3. CASE WasStep
  <2>1. was_data_valid' \in BOOLEAN /\ was_snapshot' \in SnapshotType(BOOLEAN)
    <3>1. CASE WasSkip
      BY <3>1 DEF WasSkip
    <3>2. CASE WasPublish
      BY <3>2 DEF WasPublish
    <3>3. QED
      BY <1>3, <3>1, <3>2 DEF WasStep
  <2>2. QED
    BY <1>3, <2>1 DEF WasStep
<1>4. CASE \E span_zero \in BOOLEAN : SetCalibration(span_zero)
  BY <1>4 DEF SetCalibration
<1>5. QED
  BY <1>1, <1>2, <1>3, <1>4

(* The watchdog's step keeps its type; it moves neither the feed nor the   *)
(* timeout.                                                                *)
LEMMA SafetyType ==
  ASSUME NEW ts \in Nat, SafetyTypeOK, SafetyStep(ts)
  PROVE  SafetyTypeOK' /\ UNCHANGED <<last_feed_us, watchdog_timeout_us>>
<1>1. /\ failsafe_triggered' \in BOOLEAN
      /\ timeout_count' \in 0 .. CounterRange - 1
      /\ failsafe_pin' \in {"safe", "active"}
  <2>1. (timeout_count + 1) % CounterRange \in 0 .. CounterRange - 1
    BY SafetyAssumption DEF SafetyTypeOK
  <2>2. QED
    BY <2>1 DEF SafetyStep, SafetyTypeOK, WatchdogOff, Trip, Clear, Quiet
<1>2. safety_snapshot' \in SnapshotType(SafetyStatus)
  BY <1>1 DEF SafetyStep, PublishSafety, SnapshotSet, SnapshotType, SafetyStatus
<1>3. QED
  BY <1>1, <1>2 DEF SafetyStep, SafetyTypeOK

LEMMA SteeringControlType ==
  ASSUME NEW ts \in Nat, SteeringControlTypeOK, SteeringAppTypeOK, SafetyTypeOK,
         SensorsTypeOK, SteeringControlStep(ts)
  PROVE  /\ SteeringControlTypeOK'
         /\ SafetyTypeOK'
         /\ last_feed_us' \in {last_feed_us, ts}
<1>1. command' \in Command /\ last_feed_us' \in {last_feed_us, ts}
  <2>1. CASE WithoutInput
    BY <2>1 DEF WithoutInput, SteeringControlTypeOK, Command
  <2>2. CASE WithInput(ts)
    <3>1. steer_input_snapshot.value \in Angle
      BY DEF SteeringAppTypeOK, SnapshotType
    <3>2. (WasValid /\ ImuValid) \in BOOLEAN
      BY DEF WasValid, ImuValid
    <3>3. command' \in Command
      BY <2>2, <3>1, <3>2 DEF WithInput, Command
    <3>4. QED
      BY <2>2, <3>3 DEF WithInput, Feed
  <2>3. QED
    BY <2>1, <2>2 DEF SteeringControlStep
<1>2. command_snapshot' \in SnapshotType(Command)
  BY <1>1 DEF SteeringControlStep, SnapshotSet, SnapshotType
<1>3. SafetyTypeOK'
  BY <1>1 DEF SteeringControlStep, SafetyTypeOK
<1>4. QED
  BY <1>1, <1>2, <1>3 DEF SteeringControlTypeOK

(* The duty cycle computed from any angle is in range or NaN.              *)
LEMMA DutyOfType ==
  ASSUME NEW angle \in Angle PROVE DutyOf(angle) \in Duty
BY ActuatorAssumption DEF DutyOf, Duty

(* The count of missing commands stays within its width.                   *)
LEMMA CountType ==
  ASSUME no_valid_count \in 0 .. CountModulus - 1
  PROVE  /\ CountInvalid \in 0 .. CountModulus - 1
         /\ CountInvalid \in {0, no_valid_count + 1}
<1>1. CASE no_valid_count + 1 = CountModulus
  BY <1>1, ActuatorAssumption DEF CountInvalid
<1>2. CASE no_valid_count + 1 < CountModulus
  BY <1>2, ActuatorAssumption DEF CountInvalid
<1>3. QED
  BY <1>1, <1>2, ActuatorAssumption

LEMMA ActuatorType ==
  ASSUME ActuatorTypeOK, SteeringControlTypeOK, ActuatorStep
  PROVE  ActuatorTypeOK'
<1>0. blind_steps' \in Nat
  BY DEF ActuatorStep, ActuatorTypeOK
<1>1. CASE Blocked
  BY <1>0, <1>1, ZeroIsDuty DEF Blocked, ActuatorTypeOK
<1>2. CASE Drive
  <2>1. enabled' \in BOOLEAN /\ no_valid_count' \in 0 .. CountModulus - 1
    <3>1. CASE AcceptCommand
      BY <3>1, ActuatorAssumption
         DEF AcceptCommand, ActuatorTypeOK, SteeringControlTypeOK, SnapshotType, Command
    <3>2. CASE MissCommand
      BY <3>2, CountType DEF MissCommand, ActuatorTypeOK
    <3>3. QED
      BY <1>2, <3>1, <3>2 DEF Drive
  <2>2. current_duty' \in Duty
    <3>1. CASE enabled'
      <4>1. PICK angle \in AngleRead : current_duty' = DutyOf(angle)
        BY <1>2, <3>1 DEF Drive
      <4>2. angle \in Angle
        BY <4>1 DEF AngleRead, SteeringControlTypeOK, SnapshotType, Command
      <4>3. QED
        BY <4>1, <4>2, DutyOfType
    <3>2. CASE ~enabled'
      BY <1>2, <3>2, ActuatorAssumption DEF Drive, Duty
    <3>3. QED
      BY <3>1, <3>2
  <2>3. safety_blocked' \in BOOLEAN
    BY <1>2 DEF Drive
  <2>4. QED
    BY <1>0, <2>1, <2>2, <2>3 DEF ActuatorTypeOK
<1>3. QED
  BY <1>1, <1>2 DEF ActuatorStep

(* The schedule moves on by one component and keeps its type.              *)
LEMMA ScheduleType ==
  ASSUME TypeOK, pc # 0, NextTurn
  PROVE  /\ now' = now /\ now' \in Nat
         /\ pc' \in 0 .. Len(Registration)
         /\ held_off' \in BOOLEAN
<1>1. pc \in 1 .. 8
  BY RegistrationFacts DEF TypeOK
<1>2. pc' \in 0 .. 8 /\ UNCHANGED <<now, held_off>>
  BY <1>1, NextTurnType
<1>3. now \in Nat /\ held_off \in BOOLEAN
  BY DEF TypeOK
<1>4. pc' \in 0 .. Len(Registration)
  BY <1>2, RegistrationFacts
<1>5. QED
  BY <1>2, <1>3, <1>4

(* No time seen lies ahead of the clock if each of the times seen either   *)
(* stays or becomes the current timestamp, and the clock does not go back. *)
LEMMA FeedNotAheadStep ==
  ASSUME TypeOK, now' \in Nat, now' >= now,
         last_feed_us' \in {last_feed_us, now},
         last_status_send_us' \in {last_status_send_us, now},
         heard_us' \in {heard_us, now}
  PROVE  FeedNotAhead'
<1>1. /\ last_feed_us \in Nat /\ last_status_send_us \in Nat
      /\ heard_us \in Nat /\ now \in Nat
  BY DEF TypeOK, SafetyTypeOK, SteeringAppTypeOK
<1>2. last_feed_us <= now /\ last_status_send_us <= now /\ heard_us <= now
  BY DEF TypeOK, FeedNotAhead
<1>3. last_feed_us' <= now' /\ last_status_send_us' <= now' /\ heard_us' <= now'
  BY <1>1, <1>2
<1>4. QED
  BY <1>3 DEF FeedNotAhead

(* Every turn of the service task keeps every type.                        *)
LEMMA TypeRun ==
  ASSUME TypeOK,
         \/ RunImu \/ RunAdc \/ RunWas \/ RunApp
         \/ RunControl \/ RunSafety \/ RunActuator \/ RunUdp
  PROVE  TypeOK'
<1>1. /\ UdpTypeOK /\ SteeringAppTypeOK /\ SensorsTypeOK /\ SafetyTypeOK
      /\ SteeringControlTypeOK /\ ActuatorTypeOK /\ now \in Nat
  BY DEF TypeOK
<1>2. pc # 0 /\ NextTurn
  BY DEF RunImu, RunAdc, RunWas, RunApp, RunControl, RunSafety, RunActuator, RunUdp, Turn
<1>3. /\ now' = now /\ now' \in Nat /\ pc' \in 0 .. Len(Registration)
      /\ held_off' \in BOOLEAN
  BY <1>2, ScheduleType
<1>4. now' >= now
  BY <1>1, <1>3
<1>5. CASE RunImu \/ RunAdc \/ RunWas
  <2>1. /\ ImuStep \/ AdcStep \/ WasStep
        /\ UNCHANGED <<udpVars, steeringAppVars, safetyVars, controlVars, actuatorVars>>
    BY <1>5 DEF RunImu, RunAdc, RunWas
  <2>2. SensorsTypeOK'
    BY <1>1, <2>1, SensorsType
  <2>3. /\ UdpTypeOK' /\ SteeringAppTypeOK' /\ SafetyTypeOK'
        /\ SteeringControlTypeOK' /\ ActuatorTypeOK'
    BY <1>1, <2>1, UdpTypeStable, SteeringAppTypeStable, SafetyTypeStable,
       SteeringControlTypeStable, ActuatorTypeStable
  <2>4. UNCHANGED <<last_feed_us, last_status_send_us, heard_us>>
    BY <2>1 DEF steeringAppVars, safetyVars
  <2>5. FeedNotAhead'
    BY <1>3, <1>4, <2>4, FeedNotAheadStep
  <2>6. QED
    BY <1>3, <2>2, <2>3, <2>5 DEF TypeOK
<1>6. CASE RunApp
  <2>1. /\ SteeringAppStep(now)
        /\ UNCHANGED <<sensorVars, safetyVars, controlVars, actuatorVars>>
    BY <1>6 DEF RunApp
  <2>2. /\ UdpTypeOK' /\ SteeringAppTypeOK'
        /\ last_status_send_us' \in {last_status_send_us, now}
        /\ heard_us' \in {heard_us, now}
    BY <1>1, <2>1, SteeringAppType
  <2>3. /\ SensorsTypeOK' /\ SafetyTypeOK'
        /\ SteeringControlTypeOK' /\ ActuatorTypeOK'
    BY <1>1, <2>1, SensorsTypeStable, SafetyTypeStable,
       SteeringControlTypeStable, ActuatorTypeStable
  <2>4. UNCHANGED last_feed_us
    BY <2>1 DEF safetyVars
  <2>5. FeedNotAhead'
    BY <1>3, <1>4, <2>2, <2>4, FeedNotAheadStep
  <2>6. QED
    BY <1>3, <2>2, <2>3, <2>5 DEF TypeOK
<1>7. CASE RunControl
  <2>1. /\ SteeringControlStep(now)
        /\ UNCHANGED <<udpVars, steeringAppVars, sensorVars, actuatorVars>>
    BY <1>7 DEF RunControl
  <2>2. /\ SteeringControlTypeOK' /\ SafetyTypeOK'
        /\ last_feed_us' \in {last_feed_us, now}
    BY <1>1, <2>1, SteeringControlType
  <2>3. UdpTypeOK' /\ SteeringAppTypeOK' /\ SensorsTypeOK' /\ ActuatorTypeOK'
    BY <1>1, <2>1, UdpTypeStable, SteeringAppTypeStable, SensorsTypeStable,
       ActuatorTypeStable
  <2>4. UNCHANGED <<last_status_send_us, heard_us>>
    BY <2>1 DEF steeringAppVars
  <2>5. FeedNotAhead'
    BY <1>3, <1>4, <2>2, <2>4, FeedNotAheadStep
  <2>6. QED
    BY <1>3, <2>2, <2>3, <2>5 DEF TypeOK
<1>8. CASE RunSafety
  <2>1. /\ SafetyStep(now)
        /\ UNCHANGED <<udpVars, steeringAppVars, sensorVars, controlVars, actuatorVars>>
    BY <1>8 DEF RunSafety
  <2>2. SafetyTypeOK' /\ UNCHANGED last_feed_us
    BY <1>1, <2>1, SafetyType
  <2>3. /\ UdpTypeOK' /\ SteeringAppTypeOK' /\ SensorsTypeOK'
        /\ SteeringControlTypeOK' /\ ActuatorTypeOK'
    BY <1>1, <2>1, UdpTypeStable, SteeringAppTypeStable, SensorsTypeStable,
       SteeringControlTypeStable, ActuatorTypeStable
  <2>4. UNCHANGED <<last_status_send_us, heard_us>>
    BY <2>1 DEF steeringAppVars
  <2>5. FeedNotAhead'
    BY <1>3, <1>4, <2>2, <2>4, FeedNotAheadStep
  <2>6. QED
    BY <1>3, <2>2, <2>3, <2>5 DEF TypeOK
<1>9. CASE RunActuator \/ RunUdp
  <2>1. /\ UNCHANGED <<steeringAppVars, sensorVars, safetyVars, controlVars>>
        /\ \/ ActuatorStep /\ UNCHANGED udpVars
           \/ UdpStep /\ UNCHANGED actuatorVars
    BY <1>9 DEF RunActuator, RunUdp
  <2>2. UdpTypeOK' /\ ActuatorTypeOK'
    BY <1>1, <2>1, ActuatorType, UdpType, UdpTypeStable, ActuatorTypeStable
  <2>3. /\ SteeringAppTypeOK' /\ SensorsTypeOK' /\ SafetyTypeOK'
        /\ SteeringControlTypeOK'
    BY <1>1, <2>1, SteeringAppTypeStable, SensorsTypeStable, SafetyTypeStable,
       SteeringControlTypeStable
  <2>4. UNCHANGED <<last_feed_us, last_status_send_us, heard_us>>
    BY <2>1 DEF steeringAppVars, safetyVars
  <2>5. FeedNotAhead'
    BY <1>3, <1>4, <2>4, FeedNotAheadStep
  <2>6. QED
    BY <1>3, <2>2, <2>3, <2>5 DEF TypeOK
<1>10. QED
  BY <1>5, <1>6, <1>7, <1>8, <1>9

(* So do the start of a pass and every public function.                    *)
LEMMA TypeIdle ==
  ASSUME TypeOK, BeginPass \/ Caller \/ UNCHANGED vars
  PROVE  TypeOK'
<1>1. /\ UdpTypeOK /\ SteeringAppTypeOK /\ SensorsTypeOK /\ SafetyTypeOK
      /\ SteeringControlTypeOK /\ ActuatorTypeOK /\ now \in Nat
      /\ pc \in 0 .. Len(Registration) /\ held_off \in BOOLEAN
  BY DEF TypeOK
<1>2. UNCHANGED <<udpVars, steeringAppVars, controlVars, last_feed_us>>
  BY DEF BeginPass, Caller, CallEnable, CallDisable, CallSetTimeout,
         CallSetCalibration, SetTimeout, vars, safetyVars
<1>3. UdpTypeOK' /\ SteeringAppTypeOK' /\ SteeringControlTypeOK'
  BY <1>1, <1>2, UdpTypeStable, SteeringAppTypeStable, SteeringControlTypeStable
<1>4. SensorsTypeOK'
  <2>1. \/ UNCHANGED sensorVars
        \/ \E span_zero \in BOOLEAN : SetCalibration(span_zero)
    BY DEF BeginPass, Caller, CallEnable, CallDisable, CallSetTimeout,
           CallSetCalibration, vars
  <2>2. QED
    BY <1>1, <2>1, SensorsType, SensorsTypeStable
<1>5. SafetyTypeOK'
  <2>1. \/ UNCHANGED safetyVars
        \/ \E timeout \in TimeoutChoices : SetTimeout(timeout)
    BY DEF BeginPass, Caller, CallEnable, CallDisable, CallSetTimeout,
           CallSetCalibration, vars
  <2>2. ASSUME NEW timeout \in TimeoutChoices, SetTimeout(timeout)
        PROVE  SafetyTypeOK'
    <3>1. timeout \in Nat
      BY <2>2, SystemAssumption
    <3>2. QED
      BY <1>1, <2>2, <3>1 DEF SetTimeout, SafetyTypeOK
  <2>3. QED
    BY <1>1, <2>1, <2>2, SafetyTypeStable
<1>6. ActuatorTypeOK'
  <2>1. UNCHANGED actuatorVars \/ Enable \/ Disable
    BY DEF BeginPass, Caller, CallEnable, CallDisable, CallSetTimeout,
           CallSetCalibration, vars
  <2>2. CASE Enable \/ Disable
    BY <1>1, <2>2, ZeroIsDuty DEF Enable, Disable, ActuatorTypeOK
  <2>3. QED
    BY <1>1, <2>1, <2>2, ActuatorTypeStable
<1>7. /\ now' \in Nat /\ now' >= now /\ pc' \in 0 .. Len(Registration)
      /\ held_off' \in BOOLEAN
  <2>1. CASE BeginPass
    <3>1. MaxTime - now \in Int /\ MaxStall \in Nat
      BY <1>1, SystemAssumption
    <3>2. PICK d \in 0 .. AtMost(MaxStall, MaxTime - now) : now' = now + d
      BY <2>1 DEF BeginPass
    <3>3. d \in Nat
      BY <3>1, <3>2 DEF AtMost
    <3>4. now' \in Nat /\ now' >= now
      BY <1>1, <3>2, <3>3
    <3>5. pc' = 1 /\ held_off' = held_off
      BY <2>1 DEF BeginPass
    <3>6. QED
      BY <1>1, <3>4, <3>5, RegistrationFacts
  <2>2. CASE Caller
    <3>1. UNCHANGED <<now, pc>> /\ held_off' \in {held_off, TRUE, FALSE}
      BY <2>2 DEF Caller, CallEnable, CallDisable, CallSetTimeout,
                  CallSetCalibration, schedVars
    <3>2. now' \in Nat /\ now' >= now /\ pc' \in 0 .. Len(Registration)
      BY <1>1, <3>1
    <3>3. held_off' \in BOOLEAN
      BY <1>1, <3>1
    <3>4. QED
      BY <3>2, <3>3
  <2>3. CASE UNCHANGED vars
    BY <1>1, <2>3 DEF vars, schedVars
  <2>4. QED
    BY <2>1, <2>2, <2>3
<1>8. FeedNotAhead'
  <2>1. UNCHANGED <<last_feed_us, last_status_send_us, heard_us>>
    BY <1>2 DEF steeringAppVars
  <2>2. QED
    BY <1>7, <2>1, FeedNotAheadStep
<1>9. QED
  BY <1>3, <1>4, <1>5, <1>6, <1>7, <1>8 DEF TypeOK

LEMMA TypeStep == TypeOK /\ [Next]_vars => TypeOK'
BY TypeRun, TypeIdle DEF Next, ServiceTask

(* Every variable keeps its type and no component has seen a time later    *)
(* than the current timestamp: for every host, clock and capacity.         *)
THEOREM TypeCorrect == Spec => []TypeOK
BY TypeInit, TypeStep, PTL DEF Spec
-----------------------------------------------------------------------------
(* The drive and the published failsafe.                                   *)

LEMMA TriggeredInit == Init => TriggeredStopsDrive
BY DEF Init, SafetyInit, SnapshotInit, TriggeredStopsDrive, SafetyTriggered

LEMMA TriggeredStep ==
  TypeOK /\ TriggeredStopsDrive /\ [Next]_vars => TriggeredStopsDrive'
<1> SUFFICES ASSUME TypeOK, TriggeredStopsDrive, [Next]_vars
             PROVE  TriggeredStopsDrive'
  OBVIOUS
<1>1. pc \in 0 .. 8
  BY RegistrationFacts DEF TypeOK
<1>2. CASE UNCHANGED safety_snapshot /\ current_duty' \in {current_duty, 0} /\ pc # 7
  <2>1. ~Turn("actuator")
    BY <1>1, <1>2, TurnPosition
  <2>2. QED
    BY <1>2, <2>1 DEF TriggeredStopsDrive, SafetyTriggered
<1>3. CASE RunSafety
  <2>1. pc = 6 /\ NextTurn
    BY <1>1, <1>3, TurnPosition DEF RunSafety
  <2>2. pc' = 7
    BY <2>1, NextTurnType
  <2>3. Turn("actuator")'
    BY <2>2, RegistrationFacts DEF Turn
  <2>4. QED
    BY <2>3 DEF TriggeredStopsDrive
<1>4. CASE RunActuator
  <2>1. UNCHANGED safety_snapshot /\ ActuatorStep
    BY <1>4 DEF RunActuator, safetyVars
  <2>2. current_duty' = 0 \/ ~SafetyTriggered
    BY <2>1 DEF ActuatorStep, Blocked, Drive
  <2>3. QED
    BY <2>1, <2>2 DEF TriggeredStopsDrive, SafetyTriggered
<1>5. CASE BeginPass \/ Caller
  <2>1. pc = 0 /\ UNCHANGED safety_snapshot /\ current_duty' \in {current_duty, 0}
    BY <1>5 DEF BeginPass, Caller, MayCall, CallEnable, CallDisable, CallSetTimeout,
                CallSetCalibration, Enable, Disable, SetTimeout, safetyVars, actuatorVars
  <2>2. QED
    BY <1>2, <2>1
<1>6. CASE RunImu \/ RunAdc \/ RunWas \/ RunApp \/ RunControl \/ RunUdp
  <2>1. pc # 7
    BY <1>1, <1>6, TurnPosition DEF RunImu, RunAdc, RunWas, RunApp, RunControl, RunUdp
  <2>2. UNCHANGED <<safety_snapshot, current_duty>>
    BY <1>6 DEF RunImu, RunAdc, RunWas, RunApp, RunControl, RunUdp, SteeringControlStep,
                safetyVars, actuatorVars
  <2>3. QED
    BY <1>2, <2>1, <2>2
<1>7. CASE UNCHANGED vars
  BY <1>7 DEF vars, safetyVars, actuatorVars, schedVars, TriggeredStopsDrive,
              SafetyTriggered, Turn
<1>8. QED
  BY <1>3, <1>4, <1>5, <1>6, <1>7 DEF Next, ServiceTask

(* Whatever functions are called and whatever the host sends, the duty     *)
(* cycle is zero from the actuator's turn after a trip until the failsafe  *)
(* is published as clear.                                                  *)
THEOREM TriggeredIsStopped == Spec => []TriggeredStopsDrive
<1>1. TypeOK /\ TriggeredStopsDrive /\ [Next]_vars
        => (TypeOK /\ TriggeredStopsDrive)'
  BY TypeStep, TriggeredStep
<1>2. QED
  BY <1>1, TypeInit, TriggeredInit, PTL DEF Spec
-----------------------------------------------------------------------------
(* The board as app_core wires it, with no public function called between  *)
(* the passes.  Each part says what one component has made true once its   *)
(* turn in the pass is over.                                               *)
Heard == steer_input_snapshot.valid

SensorsLive ==
  /\ was_raw_span_zero = FALSE
  /\ pc \in 2 .. 8 => ImuValid
  /\ pc \in 4 .. 8 => WasValid

InputCurrent ==
  /\ Heard => steer_input_snapshot.value = steer_input
  /\ ~Heard => last_feed_us = 0

CommandCurrent ==
  Heard /\ pc \in {0, 6, 7, 8} =>
    /\ last_feed_us = now
    /\ command_snapshot.valid
    /\ command_snapshot.value = [angle |-> steer_input, valid |-> TRUE, sensors_valid |-> TRUE]

FailsafeCurrent ==
  /\ watchdog_timeout_us = WatchdogTimeout
  /\ SafetyTriggered <=> failsafe_triggered
  /\ pc \in {0, 7, 8} => (failsafe_triggered <=> now - last_feed_us > WatchdogTimeout)

TripsOnce ==
  /\ failsafe_pin = "active" <=> failsafe_triggered
  /\ timeout_count \in {0, 1}
  /\ ~Heard /\ failsafe_triggered => now > WatchdogTimeout
  /\ ~Heard /\ ~failsafe_triggered => timeout_count = 0

DutyCurrent == Heard /\ pc \in {0, 8} => current_duty = DutyOf(steer_input)

WiredInv ==
  SensorsLive /\ InputCurrent /\ CommandCurrent /\ FailsafeCurrent /\ TripsOnce /\ DutyCurrent

LEMMA WiredInit == Init => WiredInv
<1> SUFFICES ASSUME Init PROVE WiredInv
  OBVIOUS
<1>1. /\ now = 0 /\ pc = 0 /\ ~Heard /\ last_feed_us = 0
      /\ was_raw_span_zero = FALSE /\ failsafe_triggered = FALSE
      /\ watchdog_timeout_us = WatchdogTimeout /\ timeout_count = 0
      /\ failsafe_pin = "safe" /\ ~SafetyTriggered
  BY DEF Init, SteeringAppInit, SensorsInit, SafetyInit, SnapshotInit, Heard, SafetyTriggered
<1>2. ~(now - last_feed_us > WatchdogTimeout)
  BY <1>1, SafetyAssumption
<1>3. SensorsLive /\ InputCurrent /\ CommandCurrent /\ DutyCurrent
  BY <1>1 DEF SensorsLive, InputCurrent, CommandCurrent, DutyCurrent
<1>4. FailsafeCurrent
  BY <1>1, <1>2 DEF FailsafeCurrent
<1>5. TripsOnce
  BY <1>1 DEF TripsOnce
<1>6. QED
  BY <1>3, <1>4, <1>5 DEF WiredInv

(* The parts that a step leaves as they are: the variables they read do    *)
(* not move, and the pass does not enter a turn they speak of.             *)
LEMMA SensorsLiveStable ==
  ASSUME SensorsLive, UNCHANGED sensorVars, pc \in 0 .. 8,
         \/ pc = 0 /\ pc' = 1
         \/ pc \in 4 .. 7 /\ pc' = pc + 1
  PROVE  SensorsLive'
<1>1. /\ was_raw_span_zero' = was_raw_span_zero
      /\ ImuValid' <=> ImuValid
      /\ WasValid' <=> WasValid
  BY DEF sensorVars, ImuValid, WasValid
<1>2. pc' \in 2 .. 8 => pc \in 2 .. 8
  OBVIOUS
<1>3. pc' \in 4 .. 8 => pc \in 4 .. 8
  OBVIOUS
<1>4. QED
  BY <1>1, <1>2, <1>3 DEF SensorsLive

LEMMA TripsOnceStable ==
  ASSUME TypeOK, TripsOnce, now' \in Nat, now' >= now, Heard => Heard',
         UNCHANGED <<failsafe_pin, failsafe_triggered, timeout_count>>
  PROVE  TripsOnce'
<1>1. now' > WatchdogTimeout \/ ~(now > WatchdogTimeout)
  BY SafetyAssumption DEF TypeOK
<1>2. QED
  BY <1>1 DEF TripsOnce

LEMMA FailsafeCurrentStable ==
  ASSUME FailsafeCurrent, UNCHANGED <<watchdog_timeout_us, safety_snapshot, failsafe_triggered>>,
         \/ pc' \in 1 .. 6
         \/ UNCHANGED <<now, last_feed_us>> /\ pc \in {0, 7, 8}
  PROVE  FailsafeCurrent'
<1>1. SafetyTriggered' <=> SafetyTriggered
  BY DEF SafetyTriggered
<1>2. pc' \in {0, 7, 8} =>
        (failsafe_triggered' <=> now' - last_feed_us' > WatchdogTimeout)
  <2>1. CASE pc' \in 1 .. 6
    <3>1. pc' \notin {0, 7, 8}
      BY <2>1
    <3>2. QED
      BY <3>1
  <2>2. CASE UNCHANGED <<now, last_feed_us>> /\ pc \in {0, 7, 8}
    BY <2>2 DEF FailsafeCurrent
  <2>3. QED
    BY <2>1, <2>2
<1>3. QED
  BY <1>1, <1>2 DEF FailsafeCurrent

(* What a turn of the service task does to the schedule.                   *)
LEMMA TurnStep ==
  ASSUME TypeOK
  PROVE  /\ RunImu => pc = 1 /\ pc' = 2 /\ now' = now
         /\ RunAdc => pc = 2 /\ pc' = 3 /\ now' = now
         /\ RunWas => pc = 3 /\ pc' = 4 /\ now' = now
         /\ RunApp => pc = 4 /\ pc' = 5 /\ now' = now
         /\ RunControl => pc = 5 /\ pc' = 6 /\ now' = now
         /\ RunSafety => pc = 6 /\ pc' = 7 /\ now' = now
         /\ RunActuator => pc = 7 /\ pc' = 8 /\ now' = now
         /\ RunUdp => pc = 8 /\ pc' = 0 /\ now' = now
<1>1. pc \in 0 .. 8
  BY RegistrationFacts DEF TypeOK
<1>2. NextTurn => /\ pc' = IF pc = 8 THEN 0 ELSE pc + 1
                  /\ now' = now
  BY RegistrationFacts DEF NextTurn
<1>3. QED
  BY <1>1, <1>2, TurnPosition DEF RunImu, RunAdc, RunWas, RunApp, RunControl,
     RunSafety, RunActuator, RunUdp

LEMMA WiredSensors ==
  ASSUME TypeOK, WiredInv, RunImu \/ RunAdc \/ RunWas
  PROVE  WiredInv'
<1>1. /\ UNCHANGED <<steeringAppVars, safetyVars, controlVars, actuatorVars>>
      /\ now' = now /\ pc \in 1 .. 3 /\ pc' = pc + 1
  BY TurnStep DEF RunImu, RunAdc, RunWas
<1>2. SensorsLive'
  <2>1. was_raw_span_zero' = FALSE
    BY DEF WiredInv, SensorsLive, RunImu, RunAdc, RunWas, ImuStep, AdcStep, WasStep
  <2>2. ImuValid'
    <3>1. CASE RunImu
      BY <3>1 DEF RunImu, ImuStep, SnapshotSet, ImuValid
    <3>2. CASE RunAdc \/ RunWas
      <4>1. pc \in 2 .. 8
        BY <3>2, TurnStep
      <4>2. ImuValid
        BY <4>1 DEF WiredInv, SensorsLive
      <4>3. imu_snapshot' = imu_snapshot
        BY <3>2 DEF RunAdc, RunWas, AdcStep, WasStep
      <4>4. QED
        BY <4>2, <4>3 DEF ImuValid
    <3>3. QED
      BY <3>1, <3>2
  <2>3. pc' = 4 => WasValid'
    <3>1. SUFFICES ASSUME pc' = 4 PROVE WasValid'
      OBVIOUS
    <3>2. RunWas
      BY <3>1, TurnStep
    <3>3. WasPublish
      BY <3>2 DEF WiredInv, SensorsLive, RunWas, WasStep, WasSkip
    <3>4. QED
      BY <3>3 DEF WasPublish, SnapshotSet, WasValid
  <2>4. pc' \in 4 .. 8 => pc' = 4
    BY <1>1
  <2>5. QED
    BY <2>1, <2>2, <2>3, <2>4 DEF SensorsLive
<1>3. pc' \in 1 .. 4
  BY <1>1
<1>4. InputCurrent' /\ CommandCurrent' /\ DutyCurrent'
  BY <1>1, <1>3 DEF WiredInv, InputCurrent, CommandCurrent, DutyCurrent, Heard,
                    steeringAppVars, safetyVars
<1>5. FailsafeCurrent'
  BY <1>1, <1>3, FailsafeCurrentStable DEF WiredInv, safetyVars
<1>6. TripsOnce'
  <2>1. now' \in Nat /\ now' >= now
    BY <1>1 DEF TypeOK
  <2>2. QED
    BY <1>1, <2>1, TripsOnceStable DEF WiredInv, safetyVars, steeringAppVars, Heard
<1>7. QED
  BY <1>2, <1>4, <1>5, <1>6 DEF WiredInv

LEMMA WiredApp ==
  ASSUME TypeOK, WiredInv, RunApp
  PROVE  WiredInv'
<1>1. /\ UNCHANGED <<sensorVars, safetyVars, controlVars, actuatorVars>>
      /\ now' = now /\ pc = 4 /\ pc' = 5 /\ SteeringAppStep(now)
  BY TurnStep DEF RunApp
<1>2. PICK frames : Decode(frames) /\ PublishInput(frames, now)
  BY <1>1 DEF SteeringAppStep
<1>3. /\ Heard => Heard'
      /\ Heard' => steer_input_snapshot'.value = steer_input'
  <2>1. CASE OfKind(frames, {"steer", "steer_short"}) = {}
    <3>1. OfKind(frames, {"steer"}) = {}
      BY <2>1 DEF OfKind
    <3>2. UNCHANGED <<steer_input, steer_input_snapshot>>
      BY <1>2, <2>1, <3>1 DEF Decode, PublishInput
    <3>3. QED
      BY <3>2 DEF WiredInv, InputCurrent, Heard
  <2>2. CASE OfKind(frames, {"steer", "steer_short"}) # {}
    <3>1. steer_input_snapshot' = SnapshotSet(steer_input')
      BY <1>2, <2>2 DEF PublishInput
    <3>2. QED
      BY <3>1 DEF SnapshotSet, Heard
  <2>3. QED
    BY <2>1, <2>2
<1>4. SensorsLive'
  BY <1>1, SensorsLiveStable DEF WiredInv
<1>5. InputCurrent'
  BY <1>1, <1>3 DEF WiredInv, InputCurrent, safetyVars
<1>6. CommandCurrent' /\ DutyCurrent'
  BY <1>1 DEF CommandCurrent, DutyCurrent
<1>7. FailsafeCurrent'
  BY <1>1, FailsafeCurrentStable DEF WiredInv, safetyVars
<1>8. TripsOnce'
  <2>1. now' \in Nat /\ now' >= now
    BY <1>1 DEF TypeOK
  <2>2. QED
    BY <1>1, <1>3, <2>1, TripsOnceStable DEF WiredInv, safetyVars
<1>9. QED
  BY <1>4, <1>5, <1>6, <1>7, <1>8 DEF WiredInv

LEMMA WiredControl ==
  ASSUME TypeOK, WiredInv, RunControl
  PROVE  WiredInv'
<1>1. /\ UNCHANGED <<steeringAppVars, sensorVars, actuatorVars>>
      /\ UNCHANGED <<watchdog_timeout_us, failsafe_triggered, timeout_count,
                     safety_snapshot, failsafe_pin>>
      /\ now' = now /\ pc = 5 /\ pc' = 6 /\ SteeringControlStep(now)
  BY TurnStep DEF RunControl, SteeringControlStep
<1>2. ImuValid /\ WasValid /\ Heard' = Heard /\ steer_input' = steer_input
  BY <1>1 DEF WiredInv, SensorsLive, Heard, steeringAppVars
<1>3. InputCurrent' /\ CommandCurrent'
  <2>1. CASE ~Heard
    <3>1. last_feed_us' = last_feed_us
      BY <1>1, <2>1 DEF SteeringControlStep, WithoutInput, WithInput, Heard
    <3>2. InputCurrent' /\ CommandCurrent'
      BY <1>1, <1>2, <2>1, <3>1 DEF WiredInv, InputCurrent, CommandCurrent, Heard, steeringAppVars
    <3>3. QED
      BY <3>2
  <2>2. CASE Heard
    <3>1. WithInput(now) /\ command_snapshot' = SnapshotSet(command')
      BY <1>1, <2>2 DEF SteeringControlStep, WithoutInput, Heard
    <3>2. /\ last_feed_us' = now
          /\ command' = [angle |-> steer_input, valid |-> TRUE, sensors_valid |-> TRUE]
      BY <1>2, <2>2, <3>1 DEF WithInput, Feed, WiredInv, InputCurrent
    <3>3. CommandCurrent'
      BY <1>1, <1>2, <3>1, <3>2 DEF CommandCurrent, SnapshotSet
    <3>4. InputCurrent'
      BY <1>1, <1>2, <2>2 DEF WiredInv, InputCurrent, Heard, steeringAppVars
    <3>5. QED
      BY <3>3, <3>4
  <2>3. QED
    BY <2>1, <2>2
<1>4. SensorsLive'
  BY <1>1, SensorsLiveStable DEF WiredInv
<1>5. DutyCurrent'
  BY <1>1 DEF DutyCurrent
<1>6. FailsafeCurrent'
  BY <1>1, FailsafeCurrentStable DEF WiredInv
<1>7. TripsOnce'
  <2>1. now' \in Nat /\ now' >= now
    BY <1>1 DEF TypeOK
  <2>2. QED
    BY <1>1, <1>2, <2>1, TripsOnceStable DEF WiredInv
<1>8. QED
  BY <1>3, <1>4, <1>5, <1>6, <1>7 DEF WiredInv

LEMMA WiredSafety ==
  ASSUME TypeOK, WiredInv, RunSafety
  PROVE  WiredInv'
<1>1. /\ UNCHANGED <<steeringAppVars, sensorVars, controlVars, actuatorVars,
                     last_feed_us, watchdog_timeout_us>>
      /\ now' = now /\ pc = 6 /\ pc' = 7 /\ SafetyStep(now)
  BY TurnStep DEF RunSafety, SafetyStep
<1>2. /\ watchdog_timeout_us = WatchdogTimeout /\ ~WatchdogOff
      /\ Elapsed(now) <=> now - last_feed_us > WatchdogTimeout
  BY SafetyAssumption DEF WiredInv, FailsafeCurrent, WatchdogOff, Elapsed
<1>3. /\ now \in Nat /\ WatchdogTimeout \in Nat
      /\ failsafe_triggered \in BOOLEAN
  BY SafetyAssumption DEF TypeOK, SafetyTypeOK
<1>4. Trip(now) \/ Clear(now) \/ Quiet(now)
  BY <1>1, <1>2 DEF SafetyStep
<1>5. failsafe_triggered' <=> now - last_feed_us > WatchdogTimeout
  BY <1>2, <1>3, <1>4 DEF Trip, Clear, Quiet
<1>6. FailsafeCurrent'
  <2>1. SafetyTriggered' <=> failsafe_triggered'
    BY <1>1 DEF SafetyStep, PublishSafety, SnapshotSet, SafetyTriggered
  <2>2. QED
    BY <1>1, <1>2, <1>5, <2>1 DEF FailsafeCurrent
<1>7. /\ Heard => last_feed_us = now
      /\ ~Heard => last_feed_us = 0
      /\ Heard' = Heard
  BY <1>1 DEF WiredInv, CommandCurrent, InputCurrent, Heard, steeringAppVars
<1>8. TripsOnce'
  <2>1. failsafe_pin' = "active" <=> failsafe_triggered'
    BY <1>3, <1>4 DEF WiredInv, TripsOnce, Trip, Clear, Quiet
  <2>2. ~Heard' /\ failsafe_triggered' => now' > WatchdogTimeout
    BY <1>1, <1>3, <1>5, <1>7
  <2>3. timeout_count' \in {0, 1}
    <3>1. CASE Trip(now) /\ ~failsafe_triggered
      <4>1. ~Heard
        BY <1>2, <1>3, <1>7, <3>1 DEF Trip
      <4>2. timeout_count = 0
        BY <3>1, <4>1 DEF WiredInv, TripsOnce
      <4>3. 1 % CounterRange = 1
        BY SafetyAssumption
      <4>4. QED
        BY <3>1, <4>2, <4>3 DEF Trip
    <3>2. CASE ~(Trip(now) /\ ~failsafe_triggered)
      <4>1. timeout_count' = timeout_count
        BY <1>4, <3>2 DEF Trip, Clear, Quiet
      <4>2. QED
        BY <4>1 DEF WiredInv, TripsOnce
    <3>3. QED
      BY <3>1, <3>2
  <2>4. ~Heard' /\ ~failsafe_triggered' => timeout_count' = 0
    <3>1. SUFFICES ASSUME ~Heard, ~failsafe_triggered' PROVE timeout_count' = 0
      BY <1>7
    <3>2. ~(now > WatchdogTimeout)
      BY <1>3, <1>5, <1>7, <3>1
    <3>3. ~failsafe_triggered
      BY <3>1, <3>2 DEF WiredInv, TripsOnce
    <3>4. timeout_count = 0
      BY <3>1, <3>3 DEF WiredInv, TripsOnce
    <3>5. Clear(now) \/ Quiet(now)
      BY <1>4, <3>1 DEF Trip
    <3>6. QED
      BY <3>4, <3>5 DEF Clear, Quiet
  <2>5. QED
    BY <2>1, <2>2, <2>3, <2>4 DEF TripsOnce
<1>9. SensorsLive'
  BY <1>1, SensorsLiveStable DEF WiredInv
<1>10. InputCurrent' /\ CommandCurrent' /\ DutyCurrent'
  BY <1>1 DEF WiredInv, InputCurrent, CommandCurrent, DutyCurrent, Heard,
              steeringAppVars, controlVars
<1>11. QED
  BY <1>6, <1>8, <1>9, <1>10 DEF WiredInv

LEMMA WiredActuator ==
  ASSUME TypeOK, WiredInv, RunActuator
  PROVE  WiredInv'
<1>1. /\ UNCHANGED <<udpVars, steeringAppVars, sensorVars, safetyVars, controlVars>>
      /\ now' = now /\ pc = 7 /\ pc' = 8 /\ ActuatorStep
  BY TurnStep DEF RunActuator
<1>2. Heard' = Heard /\ steer_input' = steer_input
  BY <1>1 DEF Heard, steeringAppVars
<1>3. DutyCurrent'
  <2>1. SUFFICES ASSUME Heard PROVE current_duty' = DutyOf(steer_input)
    BY <1>2 DEF DutyCurrent, DutyOf
  <2>2. /\ last_feed_us = now
        /\ command_snapshot.valid
        /\ command_snapshot.value =
             [angle |-> steer_input, valid |-> TRUE, sensors_valid |-> TRUE]
    BY <1>1, <2>1 DEF WiredInv, CommandCurrent
  <2>3. ~(now - last_feed_us > WatchdogTimeout)
    BY <2>2, SafetyAssumption DEF TypeOK
  <2>4. ~SafetyTriggered
    BY <1>1, <2>3 DEF WiredInv, FailsafeCurrent
  <2>5. Drive /\ AcceptCommand
    BY <1>1, <2>2, <2>4 DEF ActuatorStep, Blocked, Drive, MissCommand, CommandOk
  <2>6. AngleRead = {steer_input}
    BY <2>2 DEF AngleRead
  <2>7. enabled'
    <3>1. command_snapshot.value.sensors_valid = TRUE
      BY <2>2
    <3>2. enabled' = TRUE
      BY <2>5, <3>1 DEF AcceptCommand
    <3>3. QED
      BY <3>2
  <2>8. QED
    BY <2>5, <2>6, <2>7 DEF Drive
<1>4. SensorsLive'
  BY <1>1, SensorsLiveStable DEF WiredInv
<1>5. InputCurrent' /\ CommandCurrent'
  BY <1>1 DEF WiredInv, InputCurrent, CommandCurrent, Heard, steeringAppVars, controlVars,
              safetyVars
<1>6. FailsafeCurrent'
  BY <1>1, FailsafeCurrentStable DEF WiredInv, safetyVars
<1>7. TripsOnce'
  <2>1. now' \in Nat /\ now' >= now
    BY <1>1 DEF TypeOK
  <2>2. QED
    BY <1>1, <1>2, <2>1, TripsOnceStable DEF WiredInv, safetyVars
<1>8. QED
  BY <1>3, <1>4, <1>5, <1>6, <1>7 DEF WiredInv

LEMMA WiredUdp ==
  ASSUME TypeOK, WiredInv, RunUdp
  PROVE  WiredInv'
<1>1. /\ UNCHANGED <<steeringAppVars, sensorVars, safetyVars, controlVars, actuatorVars>>
      /\ now' = now /\ pc = 8 /\ pc' = 0
  BY TurnStep DEF RunUdp
<1>2. SensorsLive'
  <2>1. pc' \notin 2 .. 8 /\ was_raw_span_zero' = FALSE
    BY <1>1 DEF WiredInv, SensorsLive, sensorVars
  <2>2. QED
    BY <2>1 DEF SensorsLive
<1>3. InputCurrent' /\ CommandCurrent' /\ DutyCurrent'
  BY <1>1 DEF WiredInv, InputCurrent, CommandCurrent, DutyCurrent, DutyOf, Heard,
              steeringAppVars, controlVars, safetyVars, actuatorVars
<1>4. FailsafeCurrent'
  BY <1>1, FailsafeCurrentStable DEF WiredInv, safetyVars
<1>5. TripsOnce'
  <2>1. now' \in Nat /\ now' >= now /\ Heard' = Heard
    BY <1>1 DEF TypeOK, Heard, steeringAppVars
  <2>2. QED
    BY <1>1, <2>1, TripsOnceStable DEF WiredInv, safetyVars
<1>6. QED
  BY <1>2, <1>3, <1>4, <1>5 DEF WiredInv

LEMMA WiredBegin ==
  ASSUME TypeOK, WiredInv, BeginPass
  PROVE  WiredInv'
<1>1. /\ UNCHANGED <<steeringAppVars, sensorVars, safetyVars, controlVars, actuatorVars>>
      /\ pc = 0 /\ pc' = 1
  BY DEF BeginPass
<1>2. SensorsLive'
  BY <1>1, SensorsLiveStable DEF WiredInv
<1>3. InputCurrent' /\ CommandCurrent' /\ DutyCurrent'
  BY <1>1 DEF WiredInv, InputCurrent, CommandCurrent, DutyCurrent, Heard,
              steeringAppVars, safetyVars
<1>4. FailsafeCurrent'
  BY <1>1, FailsafeCurrentStable DEF WiredInv, safetyVars
<1>5. TripsOnce'
  <2>1. Heard' = Heard
    BY <1>1 DEF Heard, steeringAppVars
  <2>2. now \in Nat
    BY DEF TypeOK
  <2>3. PICK d \in 0 .. AtMost(MaxStall, MaxTime - now) : now' = now + d
    BY DEF BeginPass
  <2>4. now' \in Nat /\ now' >= now
    <3>1. MaxTime - now \in Int /\ MaxStall \in Nat
      BY <2>2, SystemAssumption
    <3>2. d \in Nat
      BY <2>3, <3>1 DEF AtMost
    <3>3. QED
      BY <2>2, <2>3, <3>2
  <2>5. QED
    BY <1>1, <2>1, <2>4, TripsOnceStable DEF WiredInv, safetyVars
<1>6. QED
  BY <1>2, <1>3, <1>4, <1>5 DEF WiredInv

LEMMA WiredStutter ==
  ASSUME WiredInv, UNCHANGED vars
  PROVE  WiredInv'
BY DEF vars, schedVars, udpVars, steeringAppVars, sensorVars, safetyVars, controlVars,
       actuatorVars, WiredInv, SensorsLive, InputCurrent, CommandCurrent, FailsafeCurrent,
       TripsOnce, DutyCurrent, Heard, ImuValid, WasValid, SafetyTriggered, DutyOf

LEMMA WiredStep ==
  ASSUME ApiCalls = {}
  PROVE  TypeOK /\ WiredInv /\ [Next]_vars => WiredInv'
<1> SUFFICES ASSUME TypeOK, WiredInv, [Next]_vars PROVE WiredInv'
  OBVIOUS
<1>1. ~Caller
  BY DEF Caller, CallEnable, CallDisable, CallSetTimeout, CallSetCalibration, MayCall
<1>2. CASE BeginPass \/ UNCHANGED vars
  BY <1>2, WiredBegin, WiredStutter
<1>3. CASE RunImu \/ RunAdc \/ RunWas \/ RunApp
  BY <1>3, WiredSensors, WiredApp
<1>4. CASE RunControl \/ RunSafety \/ RunActuator \/ RunUdp
  BY <1>4, WiredControl, WiredSafety, WiredActuator, WiredUdp
<1>5. QED
  BY <1>1, <1>2, <1>3, <1>4 DEF Next, ServiceTask

LEMMA WiredCorrect ==
  ASSUME ApiCalls = {}
  PROVE  Spec => [](TypeOK /\ WiredInv)
<1>1. TypeOK /\ WiredInv /\ [Next]_vars => (TypeOK /\ WiredInv)'
  BY TypeStep, WiredStep
<1>2. QED
  BY <1>1, TypeInit, WiredInit, PTL DEF Spec

(* As wired, the failsafe is triggered at the end of a pass exactly when   *)
(* no steering frame was ever accepted and the boot timeout is over.       *)
THEOREM FailsafeAtBootOnly ==
  ASSUME ApiCalls = {}
  PROVE  Spec => []FailsafeIsBootTimeout
<1>1. TypeOK /\ WiredInv => FailsafeIsBootTimeout
  <2>1. SUFFICES ASSUME TypeOK, WiredInv, pc = 0
                 PROVE  failsafe_triggered <=> ~Heard /\ now > WatchdogTimeout
    BY DEF FailsafeIsBootTimeout, Heard
  <2>2. failsafe_triggered <=> now - last_feed_us > WatchdogTimeout
    BY <2>1 DEF WiredInv, FailsafeCurrent
  <2>3. now \in Nat /\ WatchdogTimeout \in Nat
    BY <2>1, SafetyAssumption DEF TypeOK
  <2>4. CASE Heard
    <3>1. last_feed_us = now
      BY <2>1, <2>4 DEF WiredInv, CommandCurrent
    <3>2. QED
      BY <2>2, <2>3, <2>4, <3>1
  <2>5. CASE ~Heard
    <3>1. last_feed_us = 0
      BY <2>1, <2>5 DEF WiredInv, InputCurrent
    <3>2. QED
      BY <2>2, <2>3, <2>5, <3>1
  <2>6. QED
    BY <2>4, <2>5
<1>2. QED
  BY <1>1, WiredCorrect, PTL

(* As wired, the pin requested agrees with the published failsafe, which   *)
(* trips at most once.                                                     *)
THEOREM PinAgrees ==
  ASSUME ApiCalls = {}
  PROVE  Spec => []PinFollowsFailsafe
<1>1. WiredInv => PinFollowsFailsafe
  BY DEF WiredInv, TripsOnce, PinFollowsFailsafe
<1>2. QED
  BY <1>1, WiredCorrect, PTL

(* As wired, a frame acts in the pass that decodes it, whatever mix of     *)
(* frames that pass reads.                                                 *)
THEOREM FrameActsAtOnce ==
  ASSUME ApiCalls = {}
  PROVE  Spec => []FrameActsInSamePass
<1>1. WiredInv => FrameActsInSamePass
  BY DEF WiredInv, DutyCurrent, FrameActsInSamePass, Heard
<1>2. QED
  BY <1>1, WiredCorrect, PTL
-----------------------------------------------------------------------------
(* The duty cycle and the host, whatever functions are called.             *)

(* While steps go by enabled without a command, the count is below the     *)
(* limit and no smaller than their number, but for the step on which the   *)
(* count wrapped.                                                          *)
BlindCounted ==
  blind_steps = 0 \/ (no_valid_count < DisableTimeout /\ blind_steps <= no_valid_count + 1)

LEMMA BlindStep ==
  ASSUME TypeOK, BlindCounted, ActuatorStep
  PROVE  BlindCounted'
<1>1. CASE ~enabled' \/ CommandOk
  BY <1>1 DEF ActuatorStep, BlindCounted
<1>2. CASE enabled' /\ ~CommandOk
  <2>1. blind_steps' = blind_steps + 1
    BY <1>2 DEF ActuatorStep
  <2>2. MissCommand
    BY <1>2 DEF ActuatorStep, Blocked, Drive, AcceptCommand
  <2>3. no_valid_count' = CountInvalid /\ no_valid_count' < DisableTimeout
    BY <1>2, <2>2 DEF MissCommand
  <2>4. /\ no_valid_count \in 0 .. CountModulus - 1 /\ blind_steps \in Nat
        /\ DisableTimeout \in Nat /\ CountModulus \in Nat /\ DisableTimeout < CountModulus
    BY ActuatorAssumption DEF TypeOK, ActuatorTypeOK
  <2>5. no_valid_count' \in Nat /\ no_valid_count' \in {0, no_valid_count + 1}
    BY <2>3, <2>4, CountType
  <2>6. CASE blind_steps = 0
    BY <2>1, <2>3, <2>5, <2>6 DEF BlindCounted
  <2>7. CASE blind_steps # 0
    <3>1. no_valid_count < DisableTimeout /\ blind_steps <= no_valid_count + 1
      BY <2>7 DEF BlindCounted
    <3>2. no_valid_count' = no_valid_count + 1
      BY <2>3, <2>4, <3>1 DEF CountInvalid
    <3>3. QED
      BY <2>1, <2>3, <2>4, <3>1, <3>2 DEF BlindCounted
  <2>8. QED
    BY <2>6, <2>7
<1>3. QED
  BY <1>1, <1>2

(* At most DisableTimeout steps in a row are enabled without a command,    *)
(* however often enable() is called and wherever the count wraps.          *)
THEOREM BlindStepsAreFew == Spec => []BlindStepsBounded
<1>1. Init => BlindCounted
  BY DEF Init, ActuatorInit, BlindCounted
<1>2. ASSUME TypeOK, BlindCounted, [Next]_vars
      PROVE  BlindCounted'
  <2>1. CASE RunActuator
    BY <1>2, <2>1, BlindStep DEF RunActuator
  <2>2. CASE ~RunActuator
    <3>1. UNCHANGED <<no_valid_count, blind_steps>>
      BY <1>2, <2>2
         DEF Next, ServiceTask, BeginPass, RunImu, RunAdc, RunWas, RunApp, RunControl,
             RunSafety, RunUdp, Caller, CallEnable, CallDisable, CallSetTimeout,
             CallSetCalibration, Enable, Disable, vars, actuatorVars
    <3>2. QED
      BY <1>2, <3>1 DEF BlindCounted
  <2>3. QED
    BY <2>1, <2>2
<1>3. TypeOK /\ BlindCounted => BlindStepsBounded
  BY ActuatorAssumption DEF TypeOK, ActuatorTypeOK, BlindCounted, BlindStepsBounded
<1>4. QED
  BY <1>1, <1>2, <1>3, TypeInit, TypeStep, PTL DEF Spec

(* Every angle on its way from the application to the drive is the newest  *)
(* one decoded, or the zero nobody asked for.                              *)
InputIsNewest == Heard => steer_input_snapshot.value = steer_input

NothingAskedYet == ~Heard => command.angle = 0

CommandIsNewest ==
  pc \in {6, 7} =>
    /\ command_snapshot.valid
    /\ command_snapshot.value.angle \in {0, steer_input}

DutyIsNewest == pc \in {0, 8} => current_duty \in {0, DutyOf(steer_input)}

HostInv == InputIsNewest /\ NothingAskedYet /\ CommandIsNewest /\ DutyIsNewest

(* What decoding and publishing do to the input: a first publication is    *)
(* never taken back, and the snapshot never lags behind the angle decoded. *)
LEMMA PublishedIsDecoded ==
  ASSUME NEW frames, NEW ts, InputIsNewest, Decode(frames), PublishInput(frames, ts)
  PROVE  InputIsNewest' /\ (Heard => Heard')
<1>1. CASE OfKind(frames, {"steer", "steer_short"}) = {}
  <2>1. OfKind(frames, {"steer"}) = {}
    BY <1>1 DEF OfKind
  <2>2. UNCHANGED <<steer_input, steer_input_snapshot>>
    BY <1>1, <2>1 DEF Decode, PublishInput
  <2>3. QED
    BY <2>2 DEF InputIsNewest, Heard
<1>2. CASE OfKind(frames, {"steer", "steer_short"}) # {}
  <2>1. steer_input_snapshot' = SnapshotSet(steer_input')
    BY <1>2 DEF PublishInput
  <2>2. QED
    BY <2>1 DEF SnapshotSet, InputIsNewest, Heard
<1>3. QED
  BY <1>1, <1>2

(* Standing still needs no duty cycle.                                     *)
LEMMA DutyOfZero == DutyOf(0) = 0
<1>1. 0 # NaN
  BY ActuatorAssumption
<1>2. QED
  BY <1>1, ActuatorAssumption DEF DutyOf

LEMMA HostInit == Init => HostInv
BY DEF Init, SteeringAppInit, SteeringControlInit, ActuatorInit, SnapshotInit, NoCommand,
       HostInv, InputIsNewest, NothingAskedYet, CommandIsNewest, DutyIsNewest, Heard

LEMMA HostApp ==
  ASSUME TypeOK, HostInv, RunApp
  PROVE  HostInv'
<1>1. UNCHANGED controlVars /\ pc' = 5 /\ SteeringAppStep(now)
  BY TurnStep DEF RunApp
<1>2. PICK frames : Decode(frames) /\ PublishInput(frames, now)
  BY <1>1 DEF SteeringAppStep
<1>3. InputIsNewest' /\ (Heard => Heard')
  BY <1>2, PublishedIsDecoded DEF HostInv
<1>4. NothingAskedYet'
  BY <1>1, <1>3 DEF HostInv, NothingAskedYet, controlVars
<1>5. CommandIsNewest' /\ DutyIsNewest'
  BY <1>1 DEF CommandIsNewest, DutyIsNewest
<1>6. QED
  BY <1>3, <1>4, <1>5 DEF HostInv

LEMMA HostControl ==
  ASSUME TypeOK, HostInv, RunControl
  PROVE  HostInv'
<1>1. /\ UNCHANGED steeringAppVars /\ pc' = 6
      /\ WithoutInput \/ WithInput(now)
      /\ command_snapshot' = SnapshotSet(command')
  BY TurnStep DEF RunControl, SteeringControlStep
<1>2. steer_input' = steer_input /\ Heard' = Heard /\ InputIsNewest'
  BY <1>1 DEF steeringAppVars, Heard, HostInv, InputIsNewest
<1>3. /\ command'.angle \in {0, steer_input}
      /\ ~Heard => command'.angle = 0
  <2>1. CASE WithoutInput
    <3>1. ~Heard /\ command'.angle = command.angle
      BY <2>1 DEF WithoutInput, Heard, TypeOK, SteeringControlTypeOK, Command
    <3>2. QED
      BY <3>1 DEF HostInv, NothingAskedYet
  <2>2. CASE WithInput(now)
    <3>1. Heard /\ command'.angle = steer_input_snapshot.value
      BY <2>2 DEF WithInput, Heard
    <3>2. QED
      BY <3>1 DEF HostInv, InputIsNewest
  <2>3. QED
    BY <1>1, <2>1, <2>2
<1>4. NothingAskedYet' /\ CommandIsNewest'
  BY <1>1, <1>2, <1>3 DEF NothingAskedYet, CommandIsNewest, SnapshotSet
<1>5. DutyIsNewest'
  BY <1>1 DEF DutyIsNewest
<1>6. QED
  BY <1>2, <1>4, <1>5 DEF HostInv

LEMMA HostActuator ==
  ASSUME TypeOK, HostInv, RunActuator
  PROVE  HostInv'
<1>1. /\ UNCHANGED <<steeringAppVars, controlVars>>
      /\ pc = 7 /\ pc' = 8 /\ ActuatorStep
  BY TurnStep DEF RunActuator
<1>2. current_duty' \in {0, DutyOf(steer_input)}
  <2>1. AngleRead \subseteq {0, steer_input}
    BY <1>1 DEF HostInv, CommandIsNewest, AngleRead
  <2>2. CASE Blocked
    BY <2>2 DEF Blocked
  <2>3. CASE Drive
    <3>1. current_duty' = 0 \/ \E angle \in AngleRead : current_duty' = DutyOf(angle)
      BY <2>3 DEF Drive
    <3>2. QED
      BY <2>1, <3>1, DutyOfZero
  <2>4. QED
    BY <1>1, <2>2, <2>3 DEF ActuatorStep
<1>3. steer_input' = steer_input
  BY <1>1 DEF steeringAppVars
<1>4. DutyIsNewest'
  BY <1>2, <1>3 DEF DutyIsNewest, DutyOf
<1>5. InputIsNewest' /\ NothingAskedYet' /\ CommandIsNewest'
  BY <1>1 DEF HostInv, InputIsNewest, NothingAskedYet, CommandIsNewest, Heard,
              steeringAppVars, controlVars
<1>6. QED
  BY <1>4, <1>5 DEF HostInv

(* No other step touches an angle on its way; what is called between two   *)
(* passes leaves the duty cycle standing or makes it zero.                 *)
LEMMA HostOther ==
  ASSUME TypeOK, HostInv, [Next]_vars, ~RunApp, ~RunControl, ~RunActuator
  PROVE  HostInv'
<1>1. UNCHANGED <<steer_input, steer_input_snapshot, command, command_snapshot>>
  BY DEF Next, ServiceTask, BeginPass, RunImu, RunAdc, RunWas, RunSafety, RunUdp, Caller,
         CallEnable, CallDisable, CallSetTimeout, CallSetCalibration, vars, steeringAppVars,
         controlVars
<1>2. current_duty' \in {0, current_duty}
  BY DEF Next, ServiceTask, BeginPass, RunImu, RunAdc, RunWas, RunSafety, RunUdp, Caller,
         CallEnable, CallDisable, CallSetTimeout, CallSetCalibration, vars, actuatorVars,
         Enable, Disable
<1>3. /\ pc' \in {6, 7} => pc \in {6, 7}
      /\ pc' \in {0, 8} => pc \in {0, 8}
  <2>1. CASE BeginPass \/ Caller \/ UNCHANGED vars
    BY <2>1 DEF BeginPass, Caller, CallEnable, CallDisable, CallSetTimeout,
                CallSetCalibration, vars, schedVars
  <2>2. CASE RunImu \/ RunAdc \/ RunWas \/ RunSafety \/ RunUdp
    BY <2>2, TurnStep
  <2>3. QED
    BY <2>1, <2>2 DEF Next, ServiceTask
<1>4. InputIsNewest' /\ NothingAskedYet' /\ CommandIsNewest'
  BY <1>1, <1>3 DEF HostInv, InputIsNewest, NothingAskedYet, CommandIsNewest, Heard
<1>5. DutyIsNewest'
  BY <1>1, <1>2, <1>3 DEF HostInv, DutyIsNewest, DutyOf
<1>6. QED
  BY <1>4, <1>5 DEF HostInv

(* At the end of a pass the duty cycle is zero or that of the newest angle *)
(* decoded, whatever functions are called: the uninitialised command of    *)
(* the actuator is never driven.                                           *)
THEOREM DutyIsFromHost == Spec => []DutyComesFromHost
<1>1. TypeOK /\ HostInv /\ [Next]_vars => (TypeOK /\ HostInv)'
  BY TypeStep, HostApp, HostControl, HostActuator, HostOther
<1>2. HostInv => DutyComesFromHost
  BY DEF HostInv, DutyIsNewest, DutyComesFromHost
<1>3. QED
  BY <1>1, <1>2, TypeInit, HostInit, PTL DEF Spec
-----------------------------------------------------------------------------
(* The board as wired implements the operation of SteeringMode.            *)

(* Until the first frame the drive is off and has no command; it is        *)
(* blocked only after the boot timeout.                                    *)
QuietUntilHeard ==
  ~Heard =>
    /\ ~enabled /\ current_duty = 0
    /\ command_snapshot.value.valid = FALSE
    /\ safety_blocked => now > WatchdogTimeout

LEMMA QuietInit == Init => QuietUntilHeard
BY DEF Init, ActuatorInit, SteeringControlInit, SnapshotInit, NoCommand, QuietUntilHeard

(* The actuator's turn before the first frame: it trips, or stays as it    *)
(* was.                                                                    *)
LEMMA ActuatorQuiet ==
  ASSUME TypeOK, WiredInv, QuietUntilHeard, RunActuator, ~Heard
  PROVE  /\ enabled' = FALSE /\ current_duty' = 0 /\ now' = now
         /\ \/ safety_blocked' = TRUE /\ now > WatchdogTimeout
            \/ safety_blocked' = FALSE /\ safety_blocked = FALSE
<1>1. pc = 7 /\ now' = now /\ ActuatorStep
  BY TurnStep DEF RunActuator
<1>2. SafetyTriggered <=> now > WatchdogTimeout
  <2>1. last_feed_us = 0
    BY DEF WiredInv, InputCurrent
  <2>2. SafetyTriggered <=> now - last_feed_us > WatchdogTimeout
    BY <1>1 DEF WiredInv, FailsafeCurrent
  <2>3. now \in Nat
    BY DEF TypeOK
  <2>4. QED
    BY <2>1, <2>2, <2>3
<1>3. CASE Blocked
  BY <1>1, <1>2, <1>3 DEF Blocked
<1>4. CASE Drive
  <2>1. ~CommandOk
    BY DEF QuietUntilHeard, CommandOk
  <2>2. enabled' = FALSE
    BY <1>4, <2>1 DEF Drive, AcceptCommand, MissCommand, QuietUntilHeard, TypeOK, ActuatorTypeOK
  <2>3. safety_blocked = FALSE
    BY <1>2, <1>4 DEF Drive, QuietUntilHeard, TypeOK, ActuatorTypeOK
  <2>4. QED
    BY <1>1, <1>4, <2>2, <2>3 DEF Drive
<1>5. QED
  BY <1>1, <1>3, <1>4 DEF ActuatorStep

(* The actuator's turn from the first frame on: it drives.                 *)
LEMMA ActuatorDrives ==
  ASSUME TypeOK, WiredInv, RunActuator, Heard
  PROVE  enabled' = TRUE
<1>1. pc = 7 /\ ActuatorStep
  BY TurnStep DEF RunActuator
<1>2. /\ last_feed_us = now
      /\ command_snapshot.valid
      /\ command_snapshot.value.valid = TRUE
      /\ command_snapshot.value.sensors_valid = TRUE
  BY <1>1 DEF WiredInv, CommandCurrent
<1>3. ~(now - last_feed_us > WatchdogTimeout)
  BY <1>2, SafetyAssumption DEF TypeOK
<1>4. ~SafetyTriggered
  BY <1>1, <1>3 DEF WiredInv, FailsafeCurrent
<1>5. Drive /\ AcceptCommand
  BY <1>1, <1>2, <1>4 DEF ActuatorStep, Blocked, Drive, MissCommand, CommandOk
<1>6. QED
  BY <1>2, <1>5 DEF AcceptCommand

(* As wired, only the actuator's own step moves its state.                 *)
LEMMA OtherStepsLeaveActuator ==
  ASSUME ApiCalls = {}, [Next]_vars, ~RunActuator
  PROVE  UNCHANGED actuatorVars
BY DEF Next, ServiceTask, BeginPass, RunImu, RunAdc, RunWas, RunApp, RunControl, RunSafety,
       RunUdp, Caller, MayCall, CallEnable, CallDisable, CallSetTimeout, CallSetCalibration, vars

LEMMA QuietStep ==
  ASSUME ApiCalls = {}
  PROVE  TypeOK /\ WiredInv /\ QuietUntilHeard /\ [Next]_vars => QuietUntilHeard'
<1> SUFFICES ASSUME TypeOK, WiredInv, QuietUntilHeard, [Next]_vars, ~Heard'
             PROVE  /\ ~enabled' /\ current_duty' = 0
                    /\ command_snapshot'.value.valid = FALSE
                    /\ safety_blocked' => now' > WatchdogTimeout
  BY DEF QuietUntilHeard
<1>1. ~Heard
  <2>1. CASE RunApp
    <3>1. PICK frames : Decode(frames) /\ PublishInput(frames, now)
      BY <2>1 DEF RunApp, SteeringAppStep
    <3>2. QED
      BY <3>1, PublishedIsDecoded DEF WiredInv, InputCurrent, InputIsNewest
  <2>2. CASE ~RunApp
    <3>1. UNCHANGED steer_input_snapshot
      BY <2>2 DEF Next, ServiceTask, BeginPass, RunImu, RunAdc, RunWas, RunControl, RunSafety,
         RunActuator, RunUdp, Caller, CallEnable, CallDisable, CallSetTimeout,
         CallSetCalibration, vars, steeringAppVars
    <3>2. QED
      BY <3>1 DEF Heard
  <2>3. QED
    BY <2>1, <2>2
<1>2. command_snapshot'.value.valid = FALSE
  <2>1. CASE RunControl
    <3>1. WithoutInput /\ command_snapshot' = SnapshotSet(command')
      BY <1>1, <2>1 DEF RunControl, SteeringControlStep, WithInput, Heard
    <3>2. command'.valid = FALSE
      BY <3>1 DEF WithoutInput, TypeOK, SteeringControlTypeOK, Command
    <3>3. QED
      BY <3>1, <3>2 DEF SnapshotSet
  <2>2. CASE ~RunControl
    <3>1. UNCHANGED command_snapshot
      BY <2>2 DEF Next, ServiceTask, BeginPass, RunImu, RunAdc, RunWas, RunApp, RunSafety,
         RunActuator, RunUdp, Caller, CallEnable, CallDisable, CallSetTimeout,
         CallSetCalibration, vars, controlVars
    <3>2. QED
      BY <1>1, <3>1 DEF QuietUntilHeard
  <2>3. QED
    BY <2>1, <2>2
<1>3. ~enabled' /\ current_duty' = 0 /\ (safety_blocked' => now' > WatchdogTimeout)
  <2>1. CASE RunActuator
    BY <1>1, <2>1, ActuatorQuiet
  <2>2. CASE ~RunActuator
    <3>1. UNCHANGED <<enabled, current_duty, safety_blocked>>
      BY <2>2, OtherStepsLeaveActuator DEF actuatorVars
    <3>2. now > WatchdogTimeout => now' > WatchdogTimeout
      <4>1. now \in Nat /\ now' \in Nat /\ WatchdogTimeout \in Nat
        BY TypeStep, SafetyAssumption DEF TypeOK
      <4>2. now' >= now
        <5>1. CASE BeginPass
          <6>1. PICK d \in 0 .. AtMost(MaxStall, MaxTime - now) : now' = now + d
            BY <5>1 DEF BeginPass
          <6>2. AtMost(MaxStall, MaxTime - now) \in Int
            BY <4>1, SystemAssumption DEF AtMost
          <6>3. QED
            BY <4>1, <6>1, <6>2
        <5>2. CASE ~BeginPass
          <6>1. now' = now
            BY <5>2, TurnStep DEF Next, ServiceTask, Caller, CallEnable, CallDisable,
               CallSetTimeout, CallSetCalibration, vars, schedVars
          <6>2. QED
            BY <4>1, <6>1
        <5>3. QED
          BY <5>1, <5>2
      <4>3. QED
        BY <4>1, <4>2
    <3>3. QED
      BY <1>1, <3>1, <3>2 DEF QuietUntilHeard
  <2>3. QED
    BY <2>1, <2>2
<1>4. QED
  BY <1>2, <1>3

LEMMA OperationStep ==
  ASSUME ApiCalls = {}
  PROVE  TypeOK /\ TypeOK' /\ WiredInv /\ QuietUntilHeard /\ [Next]_vars
           => [Operation!Next]_<<Mode, current_duty>>
<1> SUFFICES ASSUME TypeOK, TypeOK', WiredInv, QuietUntilHeard, [Next]_vars
             PROVE  \/ Operation!Next
                    \/ Mode' = Mode /\ current_duty' = current_duty
  OBVIOUS
<1>1. CASE ~RunActuator
  BY <1>1, OtherStepsLeaveActuator DEF actuatorVars, Mode
<1>2. CASE RunActuator /\ Heard
  <2>1. Mode' = "driving"
    BY <1>2, ActuatorDrives DEF Mode
  <2>2. current_duty' \in Duty
    BY DEF TypeOK, ActuatorTypeOK
  <2>3. Operation!Drive
    BY <2>1, <2>2 DEF Operation!Drive, Duty
  <2>4. QED
    BY <2>3 DEF Operation!Next
<1>3. CASE RunActuator /\ ~Heard
  <2>1. /\ enabled' = FALSE /\ current_duty' = 0 /\ ~enabled /\ current_duty = 0
        /\ \/ safety_blocked' = TRUE
           \/ safety_blocked' = FALSE /\ safety_blocked = FALSE
    BY <1>3, ActuatorQuiet DEF QuietUntilHeard
  <2>2. CASE safety_blocked' = TRUE /\ ~safety_blocked
    <3>1. Mode = "waiting" /\ Mode' = "tripped"
      BY <2>1, <2>2 DEF Mode
    <3>2. Operation!Trip
      BY <2>1, <3>1 DEF Operation!Trip
    <3>3. QED
      BY <3>2 DEF Operation!Next
  <2>3. CASE safety_blocked' = TRUE /\ safety_blocked
    BY <2>1, <2>3 DEF Mode
  <2>4. CASE safety_blocked' = FALSE /\ safety_blocked = FALSE
    BY <2>1, <2>4 DEF Mode
  <2>5. QED
    BY <2>1, <2>2, <2>3, <2>4
<1>4. QED
  BY <1>1, <1>2, <1>3

(* As wired, the board waits, may trip once while it waits, and from the   *)
(* first frame on drives for good.                                         *)
THEOREM OperationImplemented ==
  ASSUME ApiCalls = {}
  PROVE  Spec => ImplementsOperation
<1>1. Init => Operation!Init
  BY DEF Init, ActuatorInit, Operation!Init, Mode
<1>2. TypeOK /\ WiredInv /\ QuietUntilHeard /\ [Next]_vars => QuietUntilHeard'
  BY QuietStep
<1>3. TypeOK /\ TypeOK' /\ WiredInv /\ QuietUntilHeard /\ [Next]_vars
        => [Operation!Next]_(Operation!modeVars)
  BY OperationStep DEF Operation!modeVars
<1>4. QED
  BY <1>1, <1>2, <1>3, WiredCorrect, QuietInit, PTL
     DEF Spec, ImplementsOperation, Operation!Spec
-----------------------------------------------------------------------------
(* The hello response on its way to the host.                              *)

(* Outside the turns from control to transport the ring is empty, and no   *)
(* ring content and no datagram holds a part of a hello response.          *)
HelloUncut ==
  /\ pc \notin 5 .. 8 => tx_buffer = <<>>
  /\ IsWhole(tx_buffer, "hello", HelloSize)
  /\ IsWhole(wire, "hello", HelloSize)

LEMMA EmptyIsWhole == <<>> \in Seq(TxByte) /\ IsWhole(<<>>, "hello", HelloSize)
BY DEF IsWhole

(* What the application queues in an empty ring: the response fits.        *)
LEMMA RespondUncut ==
  ASSUME HelloSize <= TxCapacity, tx_buffer = <<>>, NEW frames, NEW ts, Respond(frames, ts)
  PROVE  IsWhole(tx_buffer', "hello", HelloSize)
<1> DEFINE hello == IF HelloPending(frames) THEN FrameBytes("hello", HelloSize) ELSE <<>>
           status == IF StatusDue(ts) THEN FrameBytes("status", StatusSize) ELSE <<>>
<1>1. /\ HelloSize \in Nat /\ StatusSize \in Nat /\ TxCapacity \in Nat
      /\ "hello" \in TxFrame /\ "status" \in TxFrame
  BY SteeringAppAssumption, UdpAssumption DEF TxFrame
<1>2. /\ hello \in Seq(TxByte) /\ Len(hello) <= TxCapacity
      /\ IsWhole(hello, "hello", HelloSize)
  <2>1. CASE HelloPending(frames)
    BY <1>1, <2>1, FrameBytesType, FrameBytesAre, FrameIsWhole
  <2>2. CASE ~HelloPending(frames)
    BY <1>1, <2>2, EmptyIsWhole
  <2>3. QED
    BY <2>1, <2>2
<1>3. status \in Seq(TxByte) /\ Lacks(status, "hello")
  <2>1. CASE StatusDue(ts)
    BY <1>1, <2>1, FrameBytesType, OtherFrameLacks
  <2>2. CASE ~StatusDue(ts)
    BY <2>2, EmptyIsWhole DEF Lacks
  <2>3. QED
    BY <2>1, <2>2
<1>4. tx_buffer' = FifoWrite(FifoWrite(<<>>, TxCapacity, hello), TxCapacity, status)
  BY DEF Respond
<1> HIDE DEF hello, status
<1>5. tx_buffer' = FifoWrite(hello, TxCapacity, status)
  BY <1>1, <1>2, <1>4, FifoWriteAll
<1>6. QED
  BY <1>2, <1>3, <1>5, PushKeepsWhole

(* It goes to the front of the ring, and stays there.                      *)
LEMMA RespondAnswers ==
  ASSUME HelloSize <= TxCapacity, tx_buffer = <<>>,
         NEW frames, HelloPending(frames), NEW ts, Respond(frames, ts)
  PROVE  1 \in DOMAIN tx_buffer' /\ tx_buffer'[1] = <<"hello", 1>>
<1> DEFINE hello == FrameBytes("hello", HelloSize)
           status == IF StatusDue(ts) THEN FrameBytes("status", StatusSize) ELSE <<>>
<1>1. /\ HelloSize \in Nat /\ HelloSize # 0 /\ StatusSize \in Nat /\ TxCapacity \in Nat
      /\ "hello" \in TxFrame /\ "status" \in TxFrame
  BY SteeringAppAssumption, UdpAssumption DEF TxFrame
<1>2. /\ hello \in Seq(TxByte) /\ Len(hello) <= TxCapacity
      /\ 1 \in DOMAIN hello /\ hello[1] = <<"hello", 1>>
  BY <1>1, FrameBytesType, FrameBytesAre
<1>3. status \in Seq(TxByte)
  BY <1>1, FrameBytesType, EmptyIsWhole
<1>4. tx_buffer' = FifoWrite(FifoWrite(<<>>, TxCapacity, hello), TxCapacity, status)
  BY DEF Respond
<1> HIDE DEF hello, status
<1>5. tx_buffer' = FifoWrite(hello, TxCapacity, status)
  BY <1>1, <1>2, <1>4, FifoWriteAll
<1>6. QED
  BY <1>2, <1>3, <1>5, PushKeepsFront

LEMMA HelloUncutStep ==
  ASSUME TxCapacity <= DrainSize, HelloSize <= TxCapacity
  PROVE  TypeOK /\ HelloUncut /\ [Next]_vars => HelloUncut'
<1> SUFFICES ASSUME TypeOK, HelloUncut, [Next]_vars PROVE HelloUncut'
  OBVIOUS
<1>1. CASE RunApp
  <2>1. pc = 4 /\ pc' = 5 /\ SteeringAppStep(now)
    BY <1>1, TurnStep DEF RunApp
  <2>2. PICK frames : Respond(frames, now)
    BY <2>1 DEF SteeringAppStep
  <2>3. tx_buffer = <<>> /\ wire' = wire
    BY <2>1 DEF HelloUncut, SteeringAppStep
  <2>4. QED
    BY <2>1, <2>2, <2>3, RespondUncut DEF HelloUncut
<1>2. CASE RunUdp
  <2>1. wire' = tx_buffer /\ tx_buffer' = <<>>
    BY <1>2, DrainSendsAll DEF RunUdp, TypeOK
  <2>2. QED
    BY <2>1, EmptyIsWhole DEF HelloUncut
<1>3. CASE ~RunApp /\ ~RunUdp
  <2>1. UNCHANGED <<tx_buffer, wire>>
    BY <1>3 DEF Next, ServiceTask, BeginPass, RunImu, RunAdc, RunWas, RunControl, RunSafety,
       RunActuator, Caller, CallEnable, CallDisable, CallSetTimeout, CallSetCalibration,
       vars, udpVars
  <2>2. pc' \notin 5 .. 8 => pc \notin 5 .. 8
    <3>1. CASE BeginPass \/ Caller \/ UNCHANGED vars
      BY <3>1 DEF BeginPass, Caller, MayCall, CallEnable, CallDisable, CallSetTimeout,
                  CallSetCalibration, vars, schedVars
    <3>2. CASE RunImu \/ RunAdc \/ RunWas \/ RunControl \/ RunSafety \/ RunActuator
      BY <3>2, TurnStep
    <3>3. QED
      BY <1>3, <3>1, <3>2 DEF Next, ServiceTask
  <2>3. QED
    BY <2>1, <2>2 DEF HelloUncut
<1>4. QED
  BY <1>1, <1>2, <1>3

LEMMA HelloUncutHolds ==
  ASSUME TxCapacity <= DrainSize, HelloSize <= TxCapacity
  PROVE  Spec => [](TypeOK /\ HelloUncut)
<1>1. Init => HelloUncut
  BY EmptyIsWhole DEF Init, UdpInit, HelloUncut
<1>2. TypeOK /\ HelloUncut /\ [Next]_vars => (TypeOK /\ HelloUncut)'
  BY TypeStep, HelloUncutStep
<1>3. QED
  BY <1>1, <1>2, TypeInit, PTL DEF Spec

(* In a ring that holds a hello response and is drained whole, no hello    *)
(* response is ever cut, whatever else is due and whatever is called.      *)
THEOREM HelloIsSentWhole ==
  ASSUME TxCapacity <= DrainSize, HelloSize <= TxCapacity
  PROVE  Spec => []HelloSentWhole
<1>1. HelloUncut => HelloSentWhole
  BY DEF HelloUncut, IsWhole, HelloSentWhole
<1>2. QED
  BY <1>1, HelloUncutHolds, PTL

(* Without a hello response, a status report is whole.                     *)
StatusUncut(bytes) == Lacks(bytes, "hello") => IsWhole(bytes, "status", StatusSize)

AllStatusUncut == StatusUncut(tx_buffer) /\ StatusUncut(wire)

LEMMA EmptyStatusUncut == <<>> \in Seq(TxByte) /\ StatusUncut(<<>>)
BY DEF StatusUncut, IsWhole

(* What the application queues in an empty ring: the report fits it alone. *)
LEMMA RespondStatusUncut ==
  ASSUME HelloSize <= TxCapacity, StatusSize <= TxCapacity, tx_buffer = <<>>,
         NEW frames, NEW ts, Respond(frames, ts)
  PROVE  StatusUncut(tx_buffer')
<1> DEFINE status == IF StatusDue(ts) THEN FrameBytes("status", StatusSize) ELSE <<>>
<1>1. StatusSize \in Nat /\ TxCapacity \in Nat /\ "status" \in TxFrame
  BY SteeringAppAssumption, UdpAssumption DEF TxFrame
<1>2. CASE HelloPending(frames)
  BY <1>2, RespondAnswers DEF StatusUncut, Lacks
<1>3. CASE ~HelloPending(frames)
  <2>1. /\ status \in Seq(TxByte) /\ Len(status) <= TxCapacity
        /\ IsWhole(status, "status", StatusSize)
    <3>1. CASE StatusDue(ts)
      BY <1>1, <3>1, FrameBytesType, FrameBytesAre, FrameIsWhole
    <3>2. CASE ~StatusDue(ts)
      BY <1>1, <3>2, EmptyIsWhole DEF IsWhole
    <3>3. QED
      BY <3>1, <3>2
  <2>2. tx_buffer' = FifoWrite(FifoWrite(<<>>, TxCapacity, <<>>), TxCapacity, status)
    BY <1>3 DEF Respond
  <2> HIDE DEF status
  <2>3. FifoWrite(<<>>, TxCapacity, <<>>) = <<>>
    <3>1. <<>> \in Seq(TxByte) /\ Len(<<>>) <= TxCapacity
      BY <1>1, EmptyIsWhole
    <3>2. QED
      BY <1>1, <3>1, FifoWriteAll
  <2>4. FifoWrite(<<>>, TxCapacity, status) = status
    BY <1>1, <2>1, FifoWriteAll
  <2>5. QED
    BY <2>1, <2>2, <2>3, <2>4 DEF StatusUncut
<1>4. QED
  BY <1>2, <1>3

(* In a ring that holds each of the two alone and is drained whole, a      *)
(* status report is cut by nothing but a hello response.                   *)
THEOREM StatusIsCutByHelloOnly ==
  ASSUME TxCapacity <= DrainSize, HelloSize <= TxCapacity, StatusSize <= TxCapacity
  PROVE  Spec => []StatusCutByHelloOnly
<1>1. Init => AllStatusUncut
  BY EmptyStatusUncut DEF Init, UdpInit, AllStatusUncut
<1>2. ASSUME TypeOK, HelloUncut, AllStatusUncut, [Next]_vars
      PROVE  AllStatusUncut'
  <2>1. CASE RunUdp
    BY <1>2, <2>1, DrainSendsAll, EmptyStatusUncut DEF RunUdp, TypeOK, AllStatusUncut
  <2>2. CASE RunApp
    <3>1. pc = 4 /\ SteeringAppStep(now)
      BY <1>2, <2>2, TurnStep DEF RunApp
    <3>2. PICK frames : Respond(frames, now)
      BY <3>1 DEF SteeringAppStep
    <3>3. tx_buffer = <<>> /\ wire' = wire
      BY <1>2, <3>1 DEF HelloUncut, SteeringAppStep
    <3>4. StatusUncut(tx_buffer')
      BY <3>2, <3>3, RespondStatusUncut
    <3>5. QED
      BY <1>2, <3>3, <3>4 DEF AllStatusUncut
  <2>3. CASE ~RunApp /\ ~RunUdp
    <3>1. UNCHANGED <<tx_buffer, wire>>
      BY <1>2, <2>3 DEF Next, ServiceTask, BeginPass, RunImu, RunAdc, RunWas, RunControl,
         RunSafety, RunActuator, Caller, CallEnable, CallDisable, CallSetTimeout,
         CallSetCalibration, vars, udpVars
    <3>2. QED
      BY <1>2, <3>1 DEF AllStatusUncut
  <2>4. QED
    BY <2>1, <2>2, <2>3
<1>3. AllStatusUncut => StatusCutByHelloOnly
  BY DEF AllStatusUncut, StatusUncut, Lacks, IsWhole, HelloOnWire, StatusCutByHelloOnly
<1>4. QED
  BY <1>1, <1>2, <1>3, HelloUncutHolds, PTL DEF Spec

(* In a ring that holds a hello response and is drained whole, no step     *)
(* loses a hello request, whatever else is due and whatever is called.     *)
THEOREM NoHelloLost ==
  ASSUME TxCapacity <= DrainSize, HelloSize <= TxCapacity
  PROVE  Spec => HelloKept
<1>1. ASSUME TypeOK, HelloUncut, [Next]_vars
      PROVE  /\ HelloTaken => HelloInRing'
             /\ HelloInRing => HelloInRing' \/ HelloOnWire'
  <2>1. CASE RunUdp
    <3>1. wire' = tx_buffer
      BY <1>1, <2>1, DrainSendsAll DEF RunUdp, TypeOK
    <3>2. HelloInRing => HelloOnWire'
      BY <3>1 DEF HelloInRing, HelloOnWire
    <3>3. ~HelloTaken
      <4>1. Len(rx_buffer) \in Nat /\ Len(rx_buffer') \in Nat /\ Len(rx_buffer') >= Len(rx_buffer)
        BY <1>1, <2>1, ReceiveTakesNothing DEF RunUdp, TypeOK
      <4>2. QED
        BY <4>1 DEF HelloTaken
    <3>4. QED
      BY <3>2, <3>3
  <2>2. CASE RunApp
    <3>1. tx_buffer = <<>>
      BY <1>1, <2>2, TurnStep DEF HelloUncut
    <3>2. PICK n \in 0 .. AtMost(FramesPerPass, Len(rx_buffer)) :
            /\ rx_buffer' = SubSeq(rx_buffer, n + 1, Len(rx_buffer))
            /\ Respond(SubSeq(rx_buffer, 1, n), now)
      BY <2>2 DEF RunApp, SteeringAppStep
    <3>3. /\ rx_buffer \in Seq(HostFrame) /\ n \in 0 .. Len(rx_buffer)
      BY <1>1, <3>2, SteeringAppAssumption DEF TypeOK, UdpTypeOK, AtMost
    <3>4. /\ Len(rx_buffer) - Len(rx_buffer') = n
          /\ DOMAIN SubSeq(rx_buffer, 1, n) = 1 .. n
          /\ \A i \in 1 .. n : SubSeq(rx_buffer, 1, n)[i] = rx_buffer[i]
      BY <3>2, <3>3
    <3>5. HelloTaken => HelloPending(SubSeq(rx_buffer, 1, n))
      BY <3>4 DEF HelloTaken, HelloPending, OfKind
    <3>6. HelloTaken => HelloInRing'
      BY <3>1, <3>2, <3>5, RespondAnswers DEF HelloInRing
    <3>7. ~HelloInRing
      BY <3>1 DEF HelloInRing
    <3>8. QED
      BY <3>6, <3>7
  <2>3. CASE ~RunApp /\ ~RunUdp
    <3>1. UNCHANGED <<rx_buffer, tx_buffer>>
      BY <1>1, <2>3 DEF Next, ServiceTask, BeginPass, RunImu, RunAdc, RunWas, RunControl,
         RunSafety, RunActuator, Caller, CallEnable, CallDisable, CallSetTimeout,
         CallSetCalibration, vars, udpVars
    <3>2. Len(rx_buffer) \in Nat
      BY <1>1 DEF TypeOK, UdpTypeOK
    <3>3. QED
      BY <3>1, <3>2 DEF HelloTaken, HelloInRing
  <2>4. QED
    BY <2>1, <2>2, <2>3
<1>2. QED
  BY <1>1, HelloUncutHolds, PTL DEF Spec, HelloKept
=============================================================================
