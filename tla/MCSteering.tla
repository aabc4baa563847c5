----------------------------- MODULE MCSteering -----------------------------
(* The steering board on a small clock: a tick stands for 50 ms, so the    *)
(* watchdog times out after two ticks and status is due every tick.  The   *)
(* angles cover zero, both sides of zero, saturation and NaN; the buffer   *)
(* sizes are those of the code.                                            *)
EXTENDS SteeringSystem

MCAngle == {-1, 0, 2, NaN}
MCHostFrame ==
  [kind : {"steer"}, angle : {-1, 2, NaN}]
    \cup [kind : {"steer_short", "hello", "other"}, angle : {0}]
=============================================================================
