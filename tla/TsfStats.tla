------------------------------ MODULE TsfStats ------------------------------
(***************************************************************************)
(* The statistics over the TSF timestamps of the frames a consumer got:    *)
(* intervals, median, and the estimate of the frames lost in between, as   *)
(* csi_udp_recv.py computes them and as csi_bench.c does, and their         *)
(* distribution as plot_compare.py draws it.  Pure definitions, no state.  *)
(*                                                                         *)
(* A quotient that is only rounded or compared is kept as its two          *)
(* integers: d / nominal by d and nominal, d > 1.5 * nominal by            *)
(* 2 * d > 3 * nominal.  Both programs compute it with 53 bits.            *)
(***************************************************************************)
EXTENDS Ranks, FiniteSetsExt

CONSTANT U64  \* number of values of a uint64_t

ASSUME U64Assumption == U64 \in Nat \ {0}

(* b - a for neighbours: Python's integers keep the sign.                  *)
Intervals(tsfs) == [i \in 1 .. Len(tsfs) - 1 |-> tsfs[i + 1] - tsfs[i]]

(* The same difference in csi_bench, a uint64_t.                           *)
IntervalsU64(tsfs) ==
  [i \in 1 .. Len(tsfs) - 1 |-> (tsfs[i + 1] - tsfs[i]) % U64]

Percentile(vals, p) ==
  IF vals = <<>> THEN 0 ELSE Ranked(vals, ((Len(vals) - 1) * p) \div 100)

(* Python's round(d / p): halves go to the even neighbour.                 *)
RoundHalfEven(d, p) ==
  LET q == d \div p
      r == d % p
  IN  IF 2 * r > p \/ (2 * r = p /\ q % 2 = 1) THEN q + 1 ELSE q

(* C's llround(d / p): halves go away from zero.                           *)
RoundHalfUp(d, p) ==
  LET q == d \div p
  IN  IF 2 * (d % p) >= p THEN q + 1 ELSE q

\* mutant: one missing frame is taken for jitter
IsGap_Late(d, p) == d > 2 * p

(* The comparisons with 1.5 * nominal: the float in Python, the uint64_t   *)
(* it is truncated to in C.                                                *)
IsGap(d, p) == 2 * d > 3 * p
IsGapC(d, p) == d > (3 * p) \div 2

(* Frames missing from a gap, max(0, ...) included.                        *)
LostIn(d, p) ==
  LET n == RoundHalfEven(d, p) - 1
  IN  IF n > 0 THEN n ELSE 0

\* mutant: truncation instead of rounding
LostInC_Floor(d, p) == d \div p - 1

LostInC(d, p) == RoundHalfUp(d, p) - 1

(* The receiver's estimate of the frames lost; tsf_loss_est_percent is its *)
(* share in the frames received and lost.                                  *)
Lost(tsfs) ==
  LET diffs   == Intervals(tsfs)
      nominal == Percentile(diffs, 50)
  IN  IF nominal > 0
      THEN SumOf([i \in DOMAIN diffs |->
                    IF IsGap(diffs[i], nominal) THEN LostIn(diffs[i], nominal) ELSE 0])
      ELSE 0

(* csi_bench's estimate.                                                   *)
LostC(tsfs) ==
  LET diffs   == IntervalsU64(tsfs)
      nominal == Percentile(diffs, 50)
  IN  IF nominal > 0
      THEN SumOf([i \in DOMAIN diffs |->
                    IF IsGapC(diffs[i], nominal) THEN LostInC(diffs[i], nominal) ELSE 0])
      ELSE 0

(* plot_compare.py: the lines of a file of intervals, ascending.           *)
load_intervals(diffs) == [i \in DOMAIN diffs |-> Ranked(diffs, i - 1)]

\* mutant: the share of the values up to this one, this one included
Cdf_Inclusive(diffs) ==
  LET iv == load_intervals(diffs)
  IN  [i \in DOMAIN iv |-> [us |-> iv[i], share |-> i, of |-> Len(iv)]]

(* The curve of one path: intervals with their share i / (len - 1), which  *)
(* is 0 / 0 for the only interval of a file.                               *)
Cdf(diffs) ==
  LET iv == load_intervals(diffs)
  IN  [i \in DOMAIN iv |-> [us |-> iv[i], share |-> i - 1, of |-> Len(iv) - 1]]

-----------------------------------------------------------------------------
(* What the estimates are compared with.                                   *)

InOrder(tsfs) == \A i \in 1 .. Len(tsfs) - 1 : tsfs[i] <= tsfs[i + 1]

(* Intervals exactly half-way between an even multiple of the median and   *)
(* the next one: the two programs round them apart.                        *)
EvenHalves(tsfs) ==
  LET diffs   == Intervals(tsfs)
      nominal == Percentile(diffs, 50)
  IN  {i \in DOMAIN diffs :
         /\ nominal > 0
         /\ IsGap(diffs[i], nominal)
         /\ 2 * (diffs[i] % nominal) = nominal
         /\ (diffs[i] \div nominal) % 2 = 0}

(* The largest interval where a curve is at p percent or below.            *)
ReadOff(curve, p) ==
  Max({curve[i].us : i \in {j \in DOMAIN curve : 100 * curve[j].share <= p * curve[j].of}})
=============================================================================
