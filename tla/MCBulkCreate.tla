---------------------------- MODULE MCBulkCreate ----------------------------
(* Batches for model checking BulkCreate. *)
EXTENDS BulkCreate

CONSTANTS s1, s2

AnyBatch == [Items -> Subjects]
=============================================================================
