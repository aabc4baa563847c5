--------------------------- MODULE SafetyFailsafe ---------------------------
(***************************************************************************)
(* src/components/safety_failsafe/safety_failsafe.c: a software watchdog   *)
(* on the time of the latest feed, its status snapshot and its output pin. *)
(* Times are ticks of one clock.  In every use the feed is not later than  *)
(* the step that checks it (FeedNotAhead of SteeringSystem), so the        *)
(* unsigned subtraction of the code never wraps.                           *)
(***************************************************************************)
EXTENDS Integers, SnapshotBuffer

CONSTANTS
  WatchdogTimeout,   (* SAFETY_WATCHDOG_TIMEOUT_US                         *)
  CounterRange       (* number of values of the uint32_t counters          *)

ASSUME SafetyAssumption ==
  /\ WatchdogTimeout \in Nat \ {0}
  /\ CounterRange \in Nat \ {0, 1}

VARIABLES
  last_feed_us,
  watchdog_timeout_us,
  failsafe_triggered,
  timeout_count,
  safety_snapshot,
  failsafe_pin          (* the level last requested of hal_gpio_set        *)

safetyVars == <<last_feed_us, watchdog_timeout_us, failsafe_triggered,
                timeout_count, safety_snapshot, failsafe_pin>>

SafetyStatus == [triggered : BOOLEAN, timeout_count : 0 .. CounterRange - 1]

(* safety_failsafe_init followed by app_core's set_timeout.                *)
SafetyInit ==
  /\ last_feed_us = 0
  /\ watchdog_timeout_us = WatchdogTimeout
  /\ failsafe_triggered = FALSE
  /\ timeout_count = 0
  /\ safety_snapshot = SnapshotInit([triggered |-> FALSE, timeout_count |-> 0])
  /\ failsafe_pin = "safe"

(* Mutant: the watchdog trips one tick early.                              *)
ElapsedAtTimeout(ts) == ts - last_feed_us >= watchdog_timeout_us

Elapsed(ts) == ts - last_feed_us > watchdog_timeout_us

(* No timeout configured: safe, and the pin is left as it is.              *)
WatchdogOff ==
  /\ watchdog_timeout_us = 0
  /\ failsafe_triggered' = FALSE
  /\ UNCHANGED <<timeout_count, failsafe_pin>>

Trip(ts) ==
  /\ watchdog_timeout_us # 0
  /\ Elapsed(ts)
  /\ failsafe_triggered' = TRUE
  /\ timeout_count' = IF failsafe_triggered THEN timeout_count
                      ELSE (timeout_count + 1) % CounterRange
  /\ failsafe_pin' = "active"

(* Mutant: the failsafe clears but its pin is forgotten.                   *)
ClearFlagOnly(ts) ==
  /\ watchdog_timeout_us # 0
  /\ ~Elapsed(ts)
  /\ failsafe_triggered
  /\ failsafe_triggered' = FALSE
  /\ UNCHANGED <<timeout_count, failsafe_pin>>

Clear(ts) ==
  /\ watchdog_timeout_us # 0
  /\ ~Elapsed(ts)
  /\ failsafe_triggered
  /\ failsafe_triggered' = FALSE
  /\ failsafe_pin' = "safe"
  /\ UNCHANGED timeout_count

Quiet(ts) ==
  /\ watchdog_timeout_us # 0
  /\ ~Elapsed(ts)
  /\ ~failsafe_triggered
  /\ UNCHANGED <<failsafe_triggered, timeout_count, failsafe_pin>>

PublishSafety ==
  safety_snapshot' = SnapshotSet([triggered |-> failsafe_triggered',
                                  timeout_count |-> timeout_count'])

SafetyStep(ts) ==
  /\ WatchdogOff \/ Trip(ts) \/ Clear(ts) \/ Quiet(ts)
  /\ PublishSafety
  /\ UNCHANGED <<last_feed_us, watchdog_timeout_us>>

(* safety_failsafe_feed: only the time moves; the others are the caller's. *)
Feed(ts) == last_feed_us' = ts

SetTimeout(timeout) ==
  /\ watchdog_timeout_us' = timeout
  /\ UNCHANGED <<last_feed_us, failsafe_triggered, timeout_count,
                 safety_snapshot, failsafe_pin>>

SafetyTypeOK ==
  /\ last_feed_us \in Nat
  /\ watchdog_timeout_us \in Nat
  /\ failsafe_triggered \in BOOLEAN
  /\ timeout_count \in 0 .. CounterRange - 1
  /\ safety_snapshot \in SnapshotType(SafetyStatus)
  /\ failsafe_pin \in {"safe", "active"}
=============================================================================
