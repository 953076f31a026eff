----------------------------- MODULE MCCsiBench -----------------------------
(* Instances of CsiBench for TLC: the constants are given by the .cfg files. *)
EXTENDS CsiBench, TLC

FileSymmetry == Permutations(Files)
=============================================================================
