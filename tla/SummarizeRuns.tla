--------------------------- MODULE SummarizeRuns ---------------------------
(***************************************************************************)
(* summarize_runs.py and the sanity check at the end of the sweep script:  *)
(* the result files of repeated rounds, their summary and the rounds it    *)
(* flags; plot_sweep.py's figure of the summary.  Pure definitions.        *)
(*                                                                         *)
(* A result file is named by its group and its round.  A group is a kind   *)
(* and a number: mmap_ne8, mmap_load5, sweep_mmap_10mbps, baseline (0).    *)
(* Of a file's metrics only the frame rate, an integer, is kept: the       *)
(* others are only averaged.                                               *)
(***************************************************************************)
EXTENDS Ranks, FiniteSetsExt

CONSTANTS
  Groups,     \* groups that are measured: records [kind, x]
  NumRounds,  \* rounds of a group
  Missing,    \* no such file
  Torn        \* a file that is not JSON: its writer did not get to the end

Kinds == {"mmap_ne", "mmap_load", "sweep_mmap", "sweep_base", "baseline"}

ASSUME GroupAssumption ==
  /\ Groups \subseteq [kind : Kinds, x : Nat]
  /\ IsFiniteSet(Groups)
  /\ NumRounds \in Nat \ {0}
  /\ Missing \notin Nat
  /\ Torn \notin Nat
  /\ Missing # Torn

Rounds == 1 .. NumRounds

-----------------------------------------------------------------------------
(* discover: the groups and, ascending, the rounds that have a file.       *)
RoundsOf(files) ==
  LET S == {r \in Rounds : files[r] # Missing}
  IN  CHOOSE s \in [1 .. Cardinality(S) -> S] :
        \A i, j \in DOMAIN s : i < j => s[i] < s[j]

discover(results) == {g \in Groups : RoundsOf(results[g]) # <<>>}

(* The frame rates of a group's files in the order of the rounds.          *)
Rows(files) ==
  LET rounds == RoundsOf(files)
  IN  [i \in DOMAIN rounds |-> files[rounds[i]]]

\* mutant: the rates are not sorted
Median_Unsorted(fps) == fps[Len(fps) \div 2 + 1]

(* sorted(fps)[len(fps) // 2]: the upper one of an even number.            *)
Median(fps) == Ranked(fps, Len(fps) \div 2)

(* Indices of the rows below half of the median.                           *)
Low(fps) ==
  LET med == Median(fps)
  IN  {i \in DOMAIN fps : med > 0 /\ 2 * fps[i] < med}

(* suspect_rounds: f"{i + 1}" for the ith row.                             *)
Suspects(files) == Low(Rows(files))

(* A mean is kept as sum and n.                                            *)
stats(values) == [n |-> Len(values), sum |-> SumOf(values)]

(* A group of the summary.                                                 *)
Group(files) == [stats |-> stats(Rows(files)), suspect |-> Suspects(files)]

(* json.load() of a torn file raises: nothing is written.                  *)
Readable(results) == \A g \in Groups, r \in Rounds : results[g][r] # Torn

Summary(results) == [g \in discover(results) |-> Group(results[g])]

\* mutant: the pattern *.json takes the manifest too, which has no frame rate
SanityRates_Meta(own, udp) == Rows(own) \o Rows(udp) \o <<0>>

(* The frame rates the sweep script looks at: its pattern _r*.json takes   *)
(* the file of the round and the receiver's, <round>_udp.json.             *)
SanityRates(own, udp) == Rows(own) \o Rows(udp)

(* Rounds it prints, by the name of csi_bench's file.                      *)
SanityFlags(own, udp) ==
  LET rounds == RoundsOf(own)
  IN  {rounds[i] : i \in Low(SanityRates(own, udp)) \intersect DOMAIN rounds}

-----------------------------------------------------------------------------
(* The groups of one kind by ascending number: num_eq_scan, load_gradient  *)
(* and the two paths of sweep.                                             *)
View(summary, kind) ==
  LET S == {g \in DOMAIN summary : g.kind = kind}
  IN  CHOOSE view \in [1 .. Cardinality(S) -> S] :
        \A i, j \in DOMAIN view : i < j => view[i].x < view[j].x

(* The side_ch reference is a point of the figure when no sweep of the     *)
(* baseline exists and the mmap sweep has a scale.                         *)
RefDrawn(summary) ==
  /\ View(summary, "sweep_base") = <<>>
  /\ Len(View(summary, "sweep_mmap")) >= 2

Rates(view) == {view[i].x : i \in DOMAIN view}

FrameRates(summary, view) ==
  {summary[view[i]].stats.sum \div summary[view[i]].stats.n : i \in DOMAIN view}

\* mutant: the range of the rates is not divided by that of the frame rates
RefLoad_Unscaled(summary, rfps) ==
  LET view == View(summary, "sweep_mmap")
  IN  Min(Rates(view)) + rfps - Min(FrameRates(summary, view))

(* Offered load at which the reference of rfps frames/s is drawn: rfps on  *)
(* the scale from the smallest and largest mean frame rate to the smallest *)
(* and largest rate of the mmap points.  max(1e-9, ...) leaves a range of  *)
(* 0 at the smallest rate.                                                 *)
RefLoad(summary, rfps) ==
  LET view == View(summary, "sweep_mmap")
      mx   == Rates(view)
      mfps == FrameRates(summary, view)
  IN  IF Max(mfps) = Min(mfps) THEN Min(mx)
      ELSE Min(mx) + ((rfps - Min(mfps)) * (Max(mx) - Min(mx)))
                       \div (Max(mfps) - Min(mfps))
=============================================================================
