---------------------------- MODULE MCBulkRunner ----------------------------
(* Model checking BulkRunner: more items than runners, and the reverse. *)
EXTENDS BulkRunner
=============================================================================
