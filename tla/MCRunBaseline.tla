--------------------------- MODULE MCRunBaseline ---------------------------
(* Instances of RunBaseline for TLC. *)
EXTENDS RunBaseline

(* 5 is two and a half periods, -2 a re-emitted earlier frame.             *)
MCOffBeats == {5, -2}
=============================================================================
