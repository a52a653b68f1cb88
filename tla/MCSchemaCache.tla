--------------------------- MODULE MCSchemaCache ---------------------------
(* Processes and users for model checking SchemaCache. *)
EXTENDS SchemaCache

CONSTANTS p1, p2, alice, bob
=============================================================================
