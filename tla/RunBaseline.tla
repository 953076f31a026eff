---------------------------- MODULE RunBaseline ----------------------------
(***************************************************************************)
(* run_baseline.py with its two children: side_ch_ctl (external), whose    *)
(* CPU time is sampled from /proc, and csi_udp_recv.py, whose JSON is      *)
(* merged into the report.  The runner is called again and again with the  *)
(* same --json, as an operator repeats a point.                            *)
(*                                                                         *)
(* An ended child stays a zombie, and its /proc entry readable, until the  *)
(* runner waits for it: wait() and send_signal() do that.                  *)
(***************************************************************************)
EXTENDS UdpRecv

CONSTANT MaxRuns  \* bound: calls of run_baseline.py

ASSUME MaxRunsAssumption == MaxRuns \in Nat

VARIABLES
  at,      \* where the runner is in main
  run,     \* number of this call
  ctl,     \* side_ch_ctl
  local,   \* no --recv-json: the runner starts a receiver
  cpu,     \* CPU time of side_ch_ctl was sampled at the end of the window
  report   \* content of the file of --json

runnerVars == <<at, run, ctl, local, cpu, report>>
baselineVars == <<recvVars, runnerVars>>

Ended == {"idle", "done", "failed"}

(* What the report takes from a receiver's file: recv_data.get(...).       *)
NoData == [by |-> 0, frames |-> 0, lost |-> 0]

BaselineInit ==
  /\ RecvInit
  /\ at = "idle"
  /\ run = 0
  /\ ctl = "none"
  /\ local = FALSE
  /\ cpu = FALSE
  /\ report = Missing

Goto(step) == at' = step

-----------------------------------------------------------------------------
(* The runner.                                                             *)

(* The receiver of an earlier call has ended (NothingLeftRunning).         *)
NoReceiver ==
  /\ recv' = "off"
  /\ tsfs' = <<>>
  /\ nums' = <<>>
  /\ UNCHANGED <<stop, recv_json>>

Begin ==
  /\ at \in Ended
  /\ run < MaxRuns
  /\ run' = run + 1
  /\ ctl' = "running"
  /\ local' \in BOOLEAN
  /\ Goto(IF local' THEN "spawn_recv" ELSE "t0")
  /\ cpu' = FALSE
  /\ NoReceiver
  /\ UNCHANGED report

(* side_ch_ctl is not found.                                               *)
PopenFails ==
  /\ at \in Ended
  /\ run < MaxRuns
  /\ run' = run + 1
  /\ ctl' = "none"
  /\ local' = FALSE
  /\ Goto("failed")
  /\ cpu' = FALSE
  /\ NoReceiver
  /\ UNCHANGED report

SpawnRecv ==
  /\ at = "spawn_recv"
  /\ recv' = "start"
  /\ Goto("t0")
  /\ UNCHANGED <<stop, tsfs, nums, recv_json, run, ctl, local, cpu, report>>

(* /proc/<pid>/stat is there while the process is not waited for.          *)
StatReadable == ctl \in {"running", "zombie", "killed"}

ReadT0 ==
  /\ at = "t0"
  /\ Goto(IF StatReadable THEN "window" ELSE "no_stat")
  /\ UNCHANGED <<recvVars, run, ctl, local, cpu, report>>

(* proc.wait(timeout) finds the child ended: t1 = t0.                      *)
WaitReturns ==
  /\ at = "window"
  /\ ctl = "zombie"
  /\ ctl' = "reaped"
  /\ Goto("recv_wait")
  /\ UNCHANGED <<recvVars, run, local, cpu, report>>

\* mutant: the child is polled once more, or signalled, before it is sampled
WindowOver_Polls ==
  /\ at = "window"
  /\ ctl' = IF ctl = "zombie" THEN "reaped" ELSE ctl
  /\ Goto("t1")
  /\ UNCHANGED <<recvVars, run, local, cpu, report>>

(* TimeoutExpired: the last waitpid() found the child running, which does  *)
(* not say that it still is.                                               *)
WindowOver ==
  /\ at = "window"
  /\ Goto("t1")
  /\ UNCHANGED <<recvVars, run, ctl, local, cpu, report>>

ReadT1 ==
  /\ at = "t1"
  /\ Goto(IF StatReadable THEN "signal" ELSE "no_stat")
  /\ cpu' = TRUE
  /\ UNCHANGED <<recvVars, run, ctl, local, report>>

(* send_signal() polls the child first and signals it if it has not ended. *)
SendSigint ==
  /\ at = "signal"
  /\ ctl' = IF ctl = "zombie" THEN "reaped" ELSE ctl
  /\ Goto("grace")
  /\ UNCHANGED <<recvVars, run, local, cpu, report>>

(* proc.wait(timeout=5)                                                    *)
GraceReturns ==
  /\ at = "grace"
  /\ ctl \in {"zombie", "reaped"}
  /\ ctl' = "reaped"
  /\ Goto("recv_wait")
  /\ UNCHANGED <<recvVars, run, local, cpu, report>>

\* mutant: a child that ignores SIGINT is left alone
GraceOver_Leaves ==
  /\ at = "grace"
  /\ ctl \in {"running", "zombie"}
  /\ Goto("recv_wait")
  /\ UNCHANGED <<recvVars, run, ctl, local, cpu, report>>

(* The child ignores SIGINT: SIGKILL; kill() polls too.                    *)
GraceOver ==
  /\ at = "grace"
  /\ ctl \in {"running", "zombie"}
  /\ ctl' = IF ctl = "zombie" THEN "reaped" ELSE "killed"
  /\ Goto("recv_wait")
  /\ UNCHANGED <<recvVars, run, local, cpu, report>>

\* mutant: the receiver is not waited for
RecvWait_Not ==
  /\ at = "recv_wait"
  /\ Goto("merge")
  /\ UNCHANGED <<recvVars, run, ctl, local, cpu, report>>

(* recv.wait(): no timeout, the exit status is not looked at.              *)
RecvWait ==
  /\ at = "recv_wait"
  /\ local => recv \in Gone
  /\ Goto("merge")
  /\ UNCHANGED <<recvVars, run, ctl, local, cpu, report>>

\* mutant: a receiver's file that is not there is not set aside
Merge_NoDefaults ==
  /\ at = "merge"
  /\ recv_json # Torn
  /\ report' = [of |-> run, data |-> recv_json, cpu |-> cpu]
  /\ Goto("done")
  /\ UNCHANGED <<recvVars, run, ctl, local, cpu>>

(* json.load() of what is at recv_json, whoever wrote it.                  *)
Merge ==
  /\ at = "merge"
  /\ recv_json # Torn
  /\ report' = [of   |-> run,
                data |-> IF recv_json = Missing THEN NoData ELSE recv_json,
                cpu  |-> cpu]
  /\ Goto("done")
  /\ UNCHANGED <<recvVars, run, ctl, local, cpu>>

(* JSONDecodeError: no report, an earlier one stays.                       *)
MergeFails ==
  /\ at = "merge"
  /\ recv_json = Torn
  /\ Goto("failed")
  /\ UNCHANGED <<recvVars, run, ctl, local, cpu, report>>

-----------------------------------------------------------------------------
(* side_ch_ctl ends by itself or on SIGINT.                                *)
CtlEnds ==
  /\ ctl = "running"
  /\ ctl' = "zombie"
  /\ UNCHANGED <<recvVars, at, run, local, cpu, report>>

Runner ==
  \/ SpawnRecv \/ ReadT0
  \/ WaitReturns \/ WindowOver \/ ReadT1
  \/ SendSigint \/ GraceReturns \/ GraceOver
  \/ RecvWait \/ Merge \/ MergeFails

Receiver == RecvStep(run) /\ UNCHANGED runnerVars

BaselineNext ==
  \/ Begin \/ PopenFails
  \/ Runner
  \/ RecvNext(run) /\ UNCHANGED runnerVars
  \/ CtlEnds

(* The runner's timers expire; the receiver runs on, the timeout of its    *)
(* socket expires, and it looks at its clock again and again, so that it   *)
(* sees the end of its window.                                             *)
BaselineSpec ==
  /\ BaselineInit
  /\ [][BaselineNext]_baselineVars
  /\ WF_baselineVars(Runner)
  /\ WF_baselineVars(Receiver)
  /\ SF_baselineVars(LoopEnds /\ UNCHANGED runnerVars)
-----------------------------------------------------------------------------
BaselineTypeOK ==
  /\ RecvTypeOK
  /\ at \in Ended \union {"spawn_recv", "t0", "window", "t1", "signal", "grace",
                          "recv_wait", "merge", "no_stat"}
  /\ run \in 0 .. MaxRuns
  /\ ctl \in {"none", "running", "zombie", "reaped", "killed"}
  /\ local \in BOOLEAN
  /\ cpu \in BOOLEAN
  /\ report = Missing \/ report \in
       [of : 1 .. MaxRuns, data : [by : Nat, frames : Nat, lost : Nat], cpu : BOOLEAN]

(* The CPU time is sampled while /proc/<pid>/stat still exists, whenever   *)
(* side_ch_ctl ends (run_baseline.py lines 94-95).                         *)
TicksAreReadable == at # "no_stat"

(* A report has the numbers of the receiver of the same run if and only if *)
(* that receiver got to its end, and all of its frames.  When it did not,  *)
(* the numbers are those of an earlier run or the defaults.                *)
ReportOfThisRun ==
  at = "done" /\ local =>
    /\ report.data.by = run <=> recv = "exited"
    /\ recv = "exited" => report.data.frames = Len(tsfs)

(* When a run has ended none of its children runs: the next side_ch_ctl    *)
(* and the next receiver are alone on the interface and the port.          *)
NothingLeftRunning == at \in Ended => ctl # "running" /\ recv \in Gone

(* A run that was started ends, with side_ch_ctl deaf to SIGINT and with a *)
(* stream that stops.                                                      *)
RunnerEnds == (at = "window") ~> (at \in Ended)
=============================================================================
