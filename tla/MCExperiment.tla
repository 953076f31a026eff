---------------------------- MODULE MCExperiment ----------------------------
(* Instances of Experiment for TLC. *)
EXTENDS Experiment

MmapGroups == {[kind |-> "sweep_mmap", x |-> 1], [kind |-> "sweep_mmap", x |-> 2]}
BaseGroup  == {[kind |-> "baseline", x |-> 0]}
=============================================================================
