--------------------------- MODULE MCConsistency ---------------------------
(* Instances of Consistency for TLC. *)
EXTENDS Consistency, TLC
=============================================================================
