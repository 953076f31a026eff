----------------------------- MODULE Experiment -----------------------------
(***************************************************************************)
(* A measurement campaign with the board scripts (run_sweep_fixed_rate.sh; *)
(* run_scan_num_eq.sh is the same without WAIT, over several groups;       *)
(* run_repeats.sh has no pilot): a pilot that judges the traffic, the      *)
(* rounds of a group, each a capture that leaves a result file, and the    *)
(* operator, who interrupts the script, calls it again, aggregates the     *)
(* results between two calls and repeats the rounds that are flagged.      *)
(*                                                                         *)
(* csi_bench creates its JSON before it captures and fills it in at the    *)
(* end (csi_bench.c lines 198, 317); run_baseline.py opens its JSON when   *)
(* everything is measured.  A capture ends (EveryRunEnds in CsiBench,      *)
(* RunnerEnds in RunBaseline).                                             *)
(***************************************************************************)
EXTENDS SummarizeRuns

CONSTANTS
  Fps,       \* frame rates that are measured, 0 for idle traffic
  MinFps,    \* pilot threshold MIN_FPS
  MaxCalls   \* bound: calls of the script

ASSUME ExperimentAssumption ==
  /\ Fps \subseteq Nat
  /\ MinFps \in Nat
  /\ MaxCalls \in Nat
  /\ {Missing, Torn} \intersect [of : Nat, enough : BOOLEAN] = {}

VARIABLES
  sh,       \* where the script is
  call,     \* number of this call
  group,    \* KIND and RATE of this call
  opts,     \* WAIT and FORCE of this call
  low,      \* LOW: the pilot is below MIN_FPS
  again,    \* the pilot is a repetition of the WAIT loop
  rnd,      \* R
  pilot,    \* pilot[g]: whose the pilot file is, and if its rate is MIN_FPS
  results,  \* results[g][r]: content of the result file of a round
  summary   \* content of summary_mean_std.json

scriptVars == <<sh, call, group, opts, low, again, rnd>>
expVars == <<scriptVars, pilot, results, summary>>

ExpTypeOK ==
  /\ sh \in {"idle", "pilot", "judge", "round", "run", "sanity", "rerun"}
  /\ call \in 0 .. MaxCalls
  /\ group \in Groups
  /\ opts \in [wait : BOOLEAN, force : BOOLEAN]
  /\ low \in BOOLEAN
  /\ again \in BOOLEAN
  /\ rnd \in Rounds
  /\ pilot \in [Groups -> {Missing, Torn} \union [of : 1 .. MaxCalls, enough : BOOLEAN]]
  /\ results \in [Groups -> [Rounds -> {Missing, Torn} \union Fps]]
  /\ summary = Missing \/ \A g \in DOMAIN summary : summary[g].suspect \subseteq Rounds

NoOpts == [wait |-> FALSE, force |-> FALSE]

ExpInit ==
  /\ sh = "idle"
  /\ call = 0
  /\ group \in Groups
  /\ opts = NoOpts
  /\ low = FALSE
  /\ again = FALSE
  /\ rnd = 1
  /\ pilot = [g \in Groups |-> Missing]
  /\ results = [g \in Groups |-> [r \in Rounds |-> Missing]]
  /\ summary = Missing

(* The file is created before the capture.                                 *)
CreatesFirst(g) == g.kind # "baseline" /\ g.kind # "sweep_base"

(* The script ends, and its variables with it.                             *)
Exit ==
  /\ sh' = "idle"
  /\ opts' = NoOpts
  /\ low' = FALSE
  /\ again' = FALSE
  /\ rnd' = 1

-----------------------------------------------------------------------------
(* The script.                                                             *)

Begin ==
  /\ sh = "idle"
  /\ call < MaxCalls
  /\ call' = call + 1
  /\ group' \in Groups
  /\ opts' \in [wait : BOOLEAN, force : BOOLEAN]
  /\ sh' = "pilot"
  /\ again' = FALSE
  /\ low' = FALSE
  /\ rnd' = 1
  /\ UNCHANGED <<pilot, results, summary>>

(* run_pilot, and LOW from what it measured.                               *)
PilotMeasures ==
  /\ sh = "pilot"
  /\ \E f \in Fps :
       /\ pilot' = [pilot EXCEPT ![group] = [of |-> call, enough |-> f >= MinFps]]
       /\ low' = (f < MinFps)
  /\ sh' = "judge"
  /\ UNCHANGED <<call, group, opts, again, rnd, results, summary>>

(* What a failing pilot leaves: the file as it was, or a torn one.         *)
PilotBroken ==
  \/ UNCHANGED pilot
  \/ CreatesFirst(group) /\ pilot' = [pilot EXCEPT ![group] = Torn]

(* fail "pilot run failed"                                                 *)
FirstPilotFails ==
  /\ sh = "pilot"
  /\ ~again
  /\ PilotBroken
  /\ Exit
  /\ UNCHANGED <<call, group, results, summary>>

\* mutant: LOW keeps its value when the pilot file cannot be read
PilotStatusLost_KeepsLow ==
  /\ sh = "pilot"
  /\ CreatesFirst(group)
  /\ PilotBroken
  /\ low' = IF pilot'[group] \in {Missing, Torn} THEN low ELSE ~pilot'[group].enough
  /\ sh' = "judge"
  /\ UNCHANGED <<call, group, opts, again, rnd, results, summary>>

(* csi_bench returns ret, which is never assigned on its way to out: a     *)
(* failure may look like a success, and PILOT_FPS is read from what is     *)
(* there, "echo 0" if that is no JSON.                                     *)
PilotStatusLost ==
  /\ sh = "pilot"
  /\ CreatesFirst(group)
  /\ PilotBroken
  /\ low' = IF pilot'[group] \in {Missing, Torn} THEN 0 < MinFps
            ELSE ~pilot'[group].enough
  /\ sh' = "judge"
  /\ UNCHANGED <<call, group, opts, again, rnd, results, summary>>

(* "pilot rerun failed", continue: LOW stays as it is.                     *)
PilotRerunFails ==
  /\ sh = "pilot"
  /\ again
  /\ PilotBroken
  /\ sh' = "judge"
  /\ UNCHANGED <<call, group, opts, low, again, rnd, results, summary>>

(* LOW, WAIT=1 and time left before DEADLINE: sleep and try again.         *)
WaitForUplink ==
  /\ sh = "judge"
  /\ low
  /\ opts.wait
  /\ sh' = "pilot"
  /\ again' = TRUE
  /\ UNCHANGED <<call, group, opts, low, rnd, pilot, results, summary>>

\* mutant: the WAIT loop has no deadline
TrafficJudged_NoDeadline ==
  /\ sh = "judge"
  /\ low => ~opts.wait
  /\ IF low /\ ~opts.force THEN Exit
     ELSE /\ sh' = "round"
          /\ opts' = [opts EXCEPT !.wait = FALSE]
          /\ low' = FALSE
          /\ again' = FALSE
          /\ UNCHANGED rnd
  /\ UNCHANGED <<call, group, pilot, results, summary>>

(* Neither LOW nor, with WAIT=1, time left.                                *)
(* Only FORCE matters from here on, and only to RoundsOnEnough.            *)
TrafficJudged ==
  /\ sh = "judge"
  /\ IF low /\ ~opts.force THEN Exit
     ELSE /\ sh' = "round"
          /\ opts' = [opts EXCEPT !.wait = FALSE]
          /\ low' = FALSE
          /\ again' = FALSE
          /\ UNCHANGED rnd
  /\ UNCHANGED <<call, group, pilot, results, summary>>

\* mutant: R counts on after the last round
NextRound_Past ==
  /\ rnd' = rnd + 1
  /\ sh' = IF rnd < NumRounds THEN "round" ELSE "sanity"

NextRound ==
  /\ rnd' = IF rnd < NumRounds THEN rnd + 1 ELSE rnd
  /\ sh' = IF rnd < NumRounds THEN "round" ELSE "sanity"

Write(content) == results' = [results EXCEPT ![group][rnd] = content]

(* The capture of a round begins.                                          *)
RoundBegins ==
  /\ sh = "round"
  /\ IF CreatesFirst(group) THEN Write(Torn) ELSE UNCHANGED results
  /\ sh' = "run"
  /\ UNCHANGED <<call, group, opts, low, again, rnd, pilot, summary>>

RoundEnds ==
  /\ sh = "run"
  /\ \E f \in Fps : Write(f)
  /\ NextRound
  /\ UNCHANGED <<call, group, opts, low, again, pilot, summary>>

(* "round failed", or a failure whose status is lost: the script goes on   *)
(* with the next round.                                                    *)
RoundFails ==
  /\ sh \in {"round", "run"}
  /\ NextRound
  /\ UNCHANGED <<call, group, opts, low, again, pilot, results, summary>>

(* Prints its flags.                                                       *)
Sanity ==
  /\ sh = "sanity"
  /\ Exit
  /\ UNCHANGED <<call, group, pilot, results, summary>>

Script ==
  \/ PilotMeasures \/ FirstPilotFails \/ PilotStatusLost \/ PilotRerunFails
  \/ WaitForUplink \/ TrafficJudged
  \/ RoundBegins \/ RoundEnds \/ RoundFails
  \/ Sanity

-----------------------------------------------------------------------------
(* The operator.                                                           *)

(* Ctrl-C ends the script and the capture.                                 *)
CtrlC ==
  /\ sh # "idle"
  /\ Exit
  /\ UNCHANGED <<call, group, pilot, results, summary>>

(* A flagged round is captured again, by hand, into its file.              *)
Rerun ==
  /\ sh = "idle"
  /\ summary # Missing
  /\ \E g \in DOMAIN summary : \E r \in summary[g].suspect :
       /\ group' = g
       /\ rnd' = r
       /\ results' = IF CreatesFirst(g) THEN [results EXCEPT ![g][r] = Torn] ELSE results
  /\ sh' = "rerun"
  /\ UNCHANGED <<call, opts, low, again, pilot, summary>>

RerunEnds ==
  /\ sh = "rerun"
  /\ \E f \in Fps : Write(f)
  /\ Exit
  /\ UNCHANGED <<call, group, pilot, summary>>

(* summarize_runs.py: without a result file, or with a torn one, it writes *)
(* nothing and an earlier summary stays.                                   *)
Summarize ==
  /\ sh = "idle"
  /\ discover(results) # {}
  /\ Readable(results)
  /\ summary' = Summary(results)
  /\ UNCHANGED <<scriptVars, pilot, results>>

ExpNext == Begin \/ Script \/ CtrlC \/ Rerun \/ RerunEnds \/ Summarize

(* A capture ends, and DEADLINE comes: TrafficJudged in spite of LOW.      *)
ExpSpec ==
  /\ ExpInit
  /\ [][ExpNext]_expVars
  /\ WF_expVars(Script \/ RerunEnds)
  /\ SF_expVars(TrafficJudged)
-----------------------------------------------------------------------------
(* Properties.                                                             *)

(* Without FORCE the rounds begin only on a pilot file that says MIN_FPS,  *)
(* however many pilots failed on the way.                                  *)
Measuring == sh \in {"round", "run", "sanity"}

RoundsOnEnough ==
  Measuring /\ ~opts.force =>
    pilot[group] \notin {Missing, Torn} /\ pilot[group].enough

(* "is the fixed-rate uplink actually flowing?" (run_sweep_fixed_rate.sh   *)
(* line 140): the pilot that let the rounds begin is one of this call.     *)
RoundsAfterPilot == Measuring /\ ~opts.force => pilot[group].of = call

(* Results as an operator finds them, Ctrl-C included.                     *)
Aggregable == sh = "idle" /\ Readable(results)

(* Rounds below half of the group's median frame rate.                     *)
HalfOfMedian(g) ==
  {r \in Rounds : results[g][r] # Missing
                  /\ Median(Rows(results[g])) > 0
                  /\ 2 * results[g][r] < Median(Rows(results[g]))}

(* "Rounds whose frame rate is < 50% of the group median are flagged":     *)
(* the numbers in suspect_rounds are the numbers of those rounds.          *)
SuspectsAreRounds ==
  Aggregable =>
    \A g \in discover(results) : Suspects(results[g]) = HalfOfMedian(g)

(* As long as at most half of a group's rounds stalled, the flagged rounds *)
(* are the stalled ones.  A stall is a rate below half of every good one,  *)
(* and the good ones are not below half of each other.                     *)
StallsAreFlagged ==
  Aggregable =>
    \A g \in Groups, Stalls \in SUBSET Rounds :
      /\ \A r \in Rounds : results[g][r] # Missing
      /\ 2 * Cardinality(Stalls) <= NumRounds
      /\ \A q \in Rounds \ Stalls :
           /\ \A r \in Stalls : 2 * results[g][r] < results[g][q]
           /\ \A r \in Rounds \ Stalls : 2 * results[g][r] >= results[g][q]
      => Suspects(results[g]) = Stalls

(* The script's sanity check ("flag rounds far from their group median",   *)
(* line 194) takes the receivers' files into the group.  Whatever they say *)
(* and whichever of them and of the rounds are missing: as long as at most *)
(* half of the files stalled, and these are below half of all the others,  *)
(* the rounds named are those whose own file stalled.  The files are the   *)
(* rounds' and, from NumRounds + 1 on, the receivers'.                     *)
Found(fps) == {f \in 1 .. 2 * NumRounds : fps[f] # Missing}
Stalled(fps) ==
  LET found == Found(fps)
  IN  {f \in found : \E g \in found : 2 * fps[f] < fps[g]}
FewStalled(fps) ==
  LET bad  == Stalled(fps)
      good == Found(fps) \ bad
  IN  /\ 2 * Cardinality(bad) <= Cardinality(Found(fps))
      /\ \A f \in bad, g \in good : 2 * fps[f] < fps[g]

SanityFindsStalls ==
  sh = "sanity" /\ (\A r \in Rounds : results[group][r] # Torn) =>
    \A udp \in [Rounds -> Fps \union {Missing}] :
      LET fps == results[group] \o udp
      IN  FewStalled(fps) => SanityFlags(results[group], udp) = Stalled(fps) \intersect Rounds

(* The side_ch reference is drawn between the smallest and the largest     *)
(* rate when its frame rate is between those measured there.               *)
RefInRange ==
  sh = "idle" /\ summary # Missing /\ RefDrawn(summary) =>
    LET view == View(summary, "sweep_mmap")
        fps  == FrameRates(summary, view)
    IN  \A rfps \in Min(fps) .. Max(fps) :
          RefLoad(summary, rfps) \in Min(Rates(view)) .. Max(Rates(view))

(* A call of the script ends, also when the traffic never starts.          *)
ScriptEnds == (sh # "idle") ~> (sh = "idle")
=============================================================================
