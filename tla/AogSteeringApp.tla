--------------------------- MODULE AogSteeringApp ---------------------------
(***************************************************************************)
(* src/components/aog_steering_app/aog_steering_app.c: consumes the AOG    *)
(* frames of the receive ring, publishes the steering input, answers hello *)
(* requests and reports status every AOG_STEER_STATUS_INTERVAL_MS.         *)
(*                                                                         *)
(* A frame is what the streaming parser makes of its bytes:                *)
(*   "steer"       PGN 252 with its 8 data bytes: a steering angle;        *)
(*   "steer_short" PGN 252, valid checksum, fewer data bytes;              *)
(*   "hello"       PGN 253;                                                *)
(*   "other"       another PGN, or a frame the checksum rejects.           *)
(***************************************************************************)
EXTENDS TransportUdp, SnapshotBuffer

CONSTANTS
  Angle,           (* steering angles a host may ask for                   *)
  FramesPerPass,   (* frames that fit the 64-byte read window              *)
  StatusInterval,  (* AOG_STEER_STATUS_INTERVAL_MS                         *)
  HelloSize,       (* bytes of a hello response frame                      *)
  StatusSize       (* bytes of a status frame                              *)

SteeringFrame == [kind : {"steer", "steer_short", "hello", "other"}, angle : Angle]

ASSUME SteeringAppAssumption ==
  /\ 0 \in Angle
  /\ HostFrame \subseteq SteeringFrame
  /\ FramesPerPass \in Nat \ {0}
  /\ StatusInterval \in Nat \ {0}
  /\ HelloSize \in Nat \ {0}
  /\ StatusSize \in Nat \ {0}

VARIABLES
  steer_input,            (* the steer_angle_deg decoded last              *)
  steer_input_snapshot,
  last_status_send_us,
  heard_us                (* history: time of the latest publication       *)

steeringAppVars ==
  <<steer_input, steer_input_snapshot, last_status_send_us, heard_us>>

SteeringAppInit ==
  /\ steer_input = 0
  /\ steer_input_snapshot = SnapshotInit(0)
  /\ last_status_send_us = 0
  /\ heard_us = 0

(* Positions of the frames of one kind.                                    *)
OfKind(frames, kinds) == {i \in DOMAIN frames : frames[i].kind \in kinds}

(* decode_steer_input, frame by frame: the last full frame decides; short  *)
(* ones leave the input as it was.                                         *)
Decode(frames) ==
  LET steering == OfKind(frames, {"steer"}) IN
  \/ steering = {} /\ UNCHANGED steer_input
  \/ \E i \in steering :
       /\ \A j \in steering : j <= i
       /\ steer_input' = frames[i].angle

(* Every PGN 252 frame publishes, the short ones too.                      *)
PublishInput(frames, ts) ==
  IF OfKind(frames, {"steer", "steer_short"}) = {}
  THEN UNCHANGED <<steer_input_snapshot, heard_us>>
  ELSE /\ steer_input_snapshot' = SnapshotSet(steer_input')
       /\ heard_us' = ts

(* Mutant: the flag is assigned, not set: only the last frame counts.      *)
HelloPendingLast(frames) ==
  frames # <<>> /\ frames[Len(frames)].kind = "hello"

HelloPending(frames) == OfKind(frames, {"hello"}) # {}

StatusDue(ts) == ts - last_status_send_us >= StatusInterval

(* Mutant: the status report goes first.                                   *)
RespondStatusFirst(frames, ts) ==
  LET status == IF StatusDue(ts) THEN FrameBytes("status", StatusSize) ELSE <<>>
      hello == IF HelloPending(frames) THEN FrameBytes("hello", HelloSize) ELSE <<>>
  IN  tx_buffer' = FifoWrite(FifoWrite(tx_buffer, TxCapacity, status), TxCapacity, hello)

(* Mutant: a hello request is dropped in a pass that reports status.       *)
RespondEither(frames, ts) ==
  LET response == IF StatusDue(ts) THEN FrameBytes("status", StatusSize)
                  ELSE IF HelloPending(frames) THEN FrameBytes("hello", HelloSize)
                  ELSE <<>>
  IN  tx_buffer' = FifoWrite(tx_buffer, TxCapacity, response)

(* At most one hello response, then the status report if it is due.        *)
(* push_aog_pgn ignores how much of each frame the ring accepted.          *)
Respond(frames, ts) ==
  LET hello == IF HelloPending(frames) THEN FrameBytes("hello", HelloSize) ELSE <<>>
      status == IF StatusDue(ts) THEN FrameBytes("status", StatusSize) ELSE <<>>
  IN  tx_buffer' = FifoWrite(FifoWrite(tx_buffer, TxCapacity, hello), TxCapacity, status)

(* One pass reads one window of the receive ring: how many frames it       *)
(* completes depends on their sizes, but a non-empty ring yields one.      *)
SteeringAppStep(ts) ==
  \E n \in 0 .. AtMost(FramesPerPass, Len(rx_buffer)) :
    LET frames == SubSeq(rx_buffer, 1, n) IN
    /\ n = 0 => rx_buffer = <<>>
    /\ rx_buffer' = SubSeq(rx_buffer, n + 1, Len(rx_buffer))
    /\ Decode(frames)
    /\ PublishInput(frames, ts)
    /\ Respond(frames, ts)
    /\ last_status_send_us' = IF StatusDue(ts) THEN ts ELSE last_status_send_us
    /\ UNCHANGED wire

SteeringAppTypeOK ==
  /\ steer_input \in Angle
  /\ steer_input_snapshot \in SnapshotType(Angle)
  /\ last_status_send_us \in Nat
  /\ heard_us \in Nat
=============================================================================
