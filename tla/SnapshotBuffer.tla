--------------------------- MODULE SnapshotBuffer ---------------------------
(***************************************************************************)
(* src/components/runtime_snapshot/snapshot_buffer.c: the latest-value     *)
(* cell through which one component publishes to the next.  A cell says    *)
(* whether it was ever written and holds a copy of the latest value; no    *)
(* operation makes it unwritten again.  Its sequence counter is read by no *)
(* component and is left out.                                              *)
(***************************************************************************)

(* snapshot_buffer_init over zeroed storage; `zero` is the all-zero value. *)
SnapshotInit(zero) == [valid |-> FALSE, value |-> zero]

SnapshotSet(v) == [valid |-> TRUE, value |-> v]

SnapshotType(Value) == [valid : BOOLEAN, value : Value]
=============================================================================
