------------------------------- MODULE Ranks -------------------------------
(***************************************************************************)
(* Sequences of integers as the scripts and csi_bench use them: a value    *)
(* taken at an index of the sorted sequence, and a sum.  Pure definitions. *)
(***************************************************************************)
EXTENDS Integers, Sequences, FiniteSets, Functions

Upto(vals, v)  == {i \in DOMAIN vals : vals[i] <= v}
Below(vals, v) == {i \in DOMAIN vals : vals[i] < v}

(* v stands at index k, counted from 0, when the values are sorted.        *)
HasRank(vals, v, k) ==
  /\ Cardinality(Below(vals, v)) <= k
  /\ k < Cardinality(Upto(vals, v))

(* sorted(vals)[k]                                                         *)
Ranked(vals, k) == CHOOSE v \in Range(vals) : HasRank(vals, v, k)

(* The values added up one after another.                                  *)
SumOf(vals) ==
  LET upto[n \in 0 .. Len(vals)] == IF n = 0 THEN 0 ELSE upto[n - 1] + vals[n]
  IN  upto[Len(vals)]
=============================================================================
