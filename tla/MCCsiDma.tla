------------------------------ MODULE MCCsiDma ------------------------------
(* Instances of CsiDma for TLC: the constants are given by the .cfg files. *)
EXTENDS CsiDma, TLC
=============================================================================
