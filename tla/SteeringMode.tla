---------------------------- MODULE SteeringMode ----------------------------
(***************************************************************************)
(* The operation of the steering board as its user sees it: it waits for   *)
(* a first steering frame, may trip its failsafe while waiting, and from   *)
(* the first frame on drives, with no way back.                            *)
(***************************************************************************)
EXTENDS Integers

CONSTANTS Duties   (* the duty cycles the drive can be given               *)

VARIABLES mode, duty

modeVars == <<mode, duty>>

Init == mode = "waiting" /\ duty = 0

(* No frame came within the watchdog timeout of the boot.                  *)
Trip ==
  /\ mode = "waiting"
  /\ mode' = "tripped"
  /\ duty' = 0

(* A frame was accepted, now or earlier: it decides the duty cycle.        *)
Drive ==
  /\ mode' = "driving"
  /\ duty' \in Duties

Next == Trip \/ Drive

Spec == Init /\ [][Next]_modeVars
=============================================================================
