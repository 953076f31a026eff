------------------------- MODULE RunBaseline_proofs -------------------------
(***************************************************************************)
(* Theorems about run_baseline.py: the child's CPU time can be read when   *)
(* it is read, nothing outlives a run, and a report has the numbers of its *)
(* own receiver whenever there are any.  And about those numbers: the two  *)
(* loss estimates and the figures agree on every window of frames the      *)
(* receiver can get.                                                       *)
(***************************************************************************)
EXTENDS RunBaseline, TsfStats_proofs, SequenceTheorems, TLAPS

(* Where the runner is against where its children are.                     *)
Sampling == {"spawn_recv", "t0", "window", "t1", "signal"}

CtlInv ==
  /\ at \in Ended \union Sampling \union {"grace", "recv_wait", "merge"}
  /\ at \in Sampling => ctl \in {"running", "zombie"}
  /\ at = "grace" => ctl \in {"running", "zombie", "reaped"}
  /\ at \in {"recv_wait", "merge"} \union Ended => ctl \in {"none", "reaped", "killed"}

RecvInv ==
  /\ at = "spawn_recv" => local
  /\ ~local \/ at \in {"spawn_recv", "merge"} \union Ended => recv \in Gone

RunInv == CtlInv /\ RecvInv

LEMMA InitRun == BaselineInit => RunInv
BY DEF BaselineInit, RecvInit, RunInv, CtlInv, RecvInv, Ended, Sampling, Gone

(* The receiver's steps leave the runner alone, and a receiver that is     *)
(* gone takes none.                                                        *)
LEMMA ReceiverSteps ==
  ASSUME RunInv, RecvNext(run), UNCHANGED runnerVars
  PROVE  RunInv'
<1>1. recv \notin Gone
  BY DEF RecvNext, RecvStep, Listen, RecvFrom, RecvTimeout, LoopEnds, Report, WriteJson,
         ListenFails, RecvDies, Interrupt, Datagram, ShortDatagram, Gone
<1> QED BY <1>1 DEF RunInv, CtlInv, RecvInv, runnerVars

(* The runner's steps.                                                     *)
LEMMA RunnerSteps ==
  ASSUME RunInv, Runner
  PROVE  RunInv'
<1> USE DEF RunInv, CtlInv, RecvInv, Ended, Sampling, Gone, Goto, recvVars
<1>1. CASE SpawnRecv    BY <1>1 DEF SpawnRecv
<1>2. CASE ReadT0       BY <1>2 DEF ReadT0, StatReadable
<1>3. CASE WaitReturns  BY <1>3 DEF WaitReturns
<1>4. CASE WindowOver   BY <1>4 DEF WindowOver
<1>5. CASE ReadT1       BY <1>5 DEF ReadT1, StatReadable
<1>6. CASE SendSigint   BY <1>6 DEF SendSigint
<1>7. CASE GraceReturns BY <1>7 DEF GraceReturns
<1>8. CASE GraceOver    BY <1>8 DEF GraceOver
<1>9. CASE RecvWait     BY <1>9 DEF RecvWait
<1>10. CASE Merge       BY <1>10 DEF Merge
<1>11. CASE MergeFails  BY <1>11 DEF MergeFails
<1> QED BY <1>1, <1>2, <1>3, <1>4, <1>5, <1>6, <1>7, <1>8, <1>9, <1>10, <1>11 DEF Runner

LEMMA RunStep ==
  ASSUME RunInv, [BaselineNext]_baselineVars
  PROVE  RunInv'
<1> USE DEF RunInv, CtlInv, RecvInv, Ended, Sampling, Gone, Goto
<1>1. CASE Begin       BY <1>1 DEF Begin, NoReceiver
<1>2. CASE PopenFails  BY <1>2 DEF PopenFails, NoReceiver
<1>3. CASE Runner      BY <1>3, RunnerSteps
<1>4. CASE RecvNext(run) /\ UNCHANGED runnerVars  BY <1>4, ReceiverSteps
<1>5. CASE CtlEnds     BY <1>5 DEF CtlEnds, recvVars
<1>6. CASE UNCHANGED baselineVars  BY <1>6 DEF baselineVars, recvVars, runnerVars
<1> QED BY <1>1, <1>2, <1>3, <1>4, <1>5, <1>6 DEF BaselineNext

THEOREM RunInvariant == BaselineSpec => []RunInv
BY InitRun, RunStep, PTL DEF BaselineSpec

(* The CPU time is sampled while /proc/<pid>/stat exists, whenever         *)
(* side_ch_ctl ends.                                                       *)
THEOREM CpuTimeIsThere == BaselineSpec => []TicksAreReadable
<1>1. RunInv => TicksAreReadable
  BY DEF RunInv, CtlInv, TicksAreReadable, Ended, Sampling
<1> QED BY <1>1, RunInvariant, PTL

(* When a run has ended, neither side_ch_ctl nor the receiver runs.        *)
THEOREM RunsLeaveNothing == BaselineSpec => []NothingLeftRunning
<1>1. RunInv => NothingLeftRunning
  BY DEF RunInv, CtlInv, RecvInv, NothingLeftRunning, Ended, Sampling
<1> QED BY <1>1, RunInvariant, PTL

-----------------------------------------------------------------------------
(* Whose numbers the receiver's file has.  A receiver that got to its end  *)
(* left those of this run; else what is there is of an earlier one.        *)
IsReport(content) == content \notin {Missing, Torn}

FileInv ==
  /\ run \in Nat
  /\ at # "idle" => run > 0
  /\ at = "spawn_recv" => recv = "off"
  /\ recv = "exited" =>
       recv_json = [by |-> run, frames |-> Len(tsfs), lost |-> Lost(tsfs)]
  /\ recv # "exited" /\ IsReport(recv_json) =>
       recv_json.by \in Nat /\ recv_json.by < run

(* The report is that of the run that is over.                             *)
ReportInv ==
  at = "done" =>
    /\ report.data.by = run <=> recv = "exited"
    /\ recv = "exited" => report.data.frames = Len(tsfs)

FileRunInv == RunInv /\ FileInv /\ ReportInv

LEMMA WrittenIsReport ==
  ASSUME NEW by, NEW frames, NEW lost
  PROVE  IsReport([by |-> by, frames |-> frames, lost |-> lost])
<1> DEFINE written == [by |-> by, frames |-> frames, lost |-> lost]
<1>1. "by" \in DOMAIN written
  OBVIOUS
<1>2. "by" \notin DOMAIN Missing /\ "by" \notin DOMAIN Torn
  BY DEF Missing, Torn
<1> QED BY <1>1, <1>2 DEF IsReport

LEMMA InitFile == BaselineInit => FileRunInv
BY InitRun DEF BaselineInit, RecvInit, FileRunInv, FileInv, ReportInv, IsReport

(* The receiver: only WriteJson makes it exited, only Report before it     *)
(* touches the file, and after the end of a run it is gone.                *)
LEMMA ReceiverFile ==
  ASSUME FileRunInv, RecvNext(run), UNCHANGED runnerVars
  PROVE  FileInv' /\ ReportInv'
<1> USE DEF FileRunInv, FileInv, ReportInv, runnerVars
<1>1. recv \notin Gone
  BY DEF RecvNext, RecvStep, Listen, RecvFrom, RecvTimeout, LoopEnds, Report, WriteJson,
         ListenFails, RecvDies, Interrupt, Datagram, ShortDatagram, Gone
<1>2. at \notin {"done", "spawn_recv"}
  BY <1>1 DEF RunInv, RecvInv, Ended
<1>3. recv # "exited"
  BY <1>1 DEF Gone
<1>4. CASE WriteJson(run)
  BY <1>2, <1>4 DEF WriteJson
<1>5. CASE Report
  BY <1>2, <1>5 DEF Report, IsReport
<1>6. CASE recv' # "exited" /\ UNCHANGED recv_json
  BY <1>2, <1>3, <1>6
<1>7. (recv' # "exited" /\ UNCHANGED recv_json) \/ WriteJson(run) \/ Report
  BY <1>3 DEF RecvNext, RecvStep, Listen, RecvFrom, RecvTimeout, LoopEnds,
         ListenFails, RecvDies, Interrupt, Datagram, ShortDatagram
<1> QED BY <1>4, <1>5, <1>6, <1>7

(* The end of a run: json.load() of the receiver's file.                   *)
LEMMA MergeFile ==
  ASSUME FileRunInv, Merge
  PROVE  FileInv' /\ ReportInv'
<1> USE DEF FileRunInv, FileInv, ReportInv, Merge, Goto, recvVars
<1>1. run \in Nat /\ run > 0 /\ UNCHANGED <<run, recv, tsfs, recv_json>>
  OBVIOUS
<1>2. report'.data = IF recv_json = Missing THEN NoData ELSE recv_json
  OBVIOUS
<1>3. CASE recv = "exited"
  <2>1. recv_json # Missing
    BY <1>3, WrittenIsReport DEF IsReport
  <2> QED BY <1>1, <1>2, <1>3, <2>1
<1>4. CASE recv # "exited"
  <2>1. CASE recv_json = Missing
    BY <1>1, <1>2, <1>4, <2>1 DEF NoData
  <2>2. CASE recv_json # Missing
    BY <1>1, <1>2, <1>4, <2>2 DEF IsReport
  <2> QED BY <2>1, <2>2
<1> QED BY <1>3, <1>4

LEMMA FileStep ==
  ASSUME FileRunInv, [BaselineNext]_baselineVars
  PROVE  FileRunInv'
<1>1. RunInv'
  BY RunStep DEF FileRunInv
<1>2. FileInv' /\ ReportInv'
  <2>1. CASE Begin \/ PopenFails
    <3>1. recv' = "off" /\ at' # "done" /\ run' = run + 1 /\ UNCHANGED recv_json
      BY <2>1 DEF Begin, PopenFails, NoReceiver, Goto
    <3>2. IsReport(recv_json) => recv_json.by \in Nat /\ recv_json.by <= run
      <4>1. CASE recv = "exited"
        BY <4>1 DEF FileRunInv, FileInv
      <4>2. CASE recv # "exited"
        BY <4>2 DEF FileRunInv, FileInv
      <4> QED BY <4>1, <4>2
    <3> QED BY <3>1, <3>2 DEF FileRunInv, FileInv, ReportInv, IsReport
  <2>2. CASE Merge
    BY <2>2, MergeFile
  <2>3. CASE SpawnRecv
    BY <2>3 DEF SpawnRecv, Goto, FileRunInv, FileInv, ReportInv
  <2>4. CASE RecvNext(run) /\ UNCHANGED runnerVars
    BY <2>4, ReceiverFile
  <2>5. CASE /\ UNCHANGED <<recvVars, run, report>>
             /\ at' = at \/ at' \notin {"done", "spawn_recv"}
             /\ at = "idle" => at' = "idle"
    BY <2>5 DEF FileRunInv, FileInv, ReportInv, recvVars
  <2>6. CASE CtlEnds \/ UNCHANGED baselineVars
    BY <2>5, <2>6 DEF CtlEnds, baselineVars, runnerVars
  <2>7. CASE Runner /\ ~SpawnRecv /\ ~Merge
    BY <2>5, <2>7 DEF Runner, ReadT0, WaitReturns, WindowOver, ReadT1, SendSigint,
           GraceReturns, GraceOver, RecvWait, MergeFails, Goto
  <2> QED BY <2>1, <2>2, <2>3, <2>4, <2>6, <2>7 DEF BaselineNext
<1> QED BY <1>1, <1>2 DEF FileRunInv

THEOREM FileInvariant == BaselineSpec => []FileRunInv
BY InitFile, FileStep, PTL DEF BaselineSpec

(* A report has the numbers of the receiver of the same run if and only if *)
(* that receiver got to its end, and then of all the frames it took: what  *)
(* an earlier run left in the file is never taken for this run's.          *)
THEOREM ReportsAreOfTheRun == BaselineSpec => []ReportOfThisRun
<1>1. FileRunInv => ReportOfThisRun
  BY DEF FileRunInv, ReportInv, ReportOfThisRun
<1> QED BY <1>1, FileInvariant, PTL

-----------------------------------------------------------------------------
(* The frames a receiver takes.  Losses only make the numbers jump, and    *)
(* neighbouring TSFs are less than a uint64_t apart.                       *)
StreamInv ==
  /\ tsfs \in Seq(Int)
  /\ nums \in Seq(Nat)
  /\ Len(nums) = Len(tsfs)
  /\ \A i \in 1 .. Len(tsfs) - 1 : nums[i] < nums[i + 1] /\ tsfs[i + 1] - tsfs[i] < U64

LEMMA FrameFollows ==
  ASSUME StreamInv, NEW f \in Following(LastFrame)
  PROVE  /\ f.num \in Nat /\ f.tsf \in Int
         /\ tsfs # <<>> => nums[Len(tsfs)] < f.num /\ f.tsf - tsfs[Len(tsfs)] < U64
<1> DEFINE last == LastFrame
<1>1. last.num \in Nat /\ last.tsf \in Int
  <2>1. CASE nums = <<>>
    BY <2>1, RecvAssumption DEF LastFrame
  <2>2. CASE nums # <<>>
    <3>1. Len(nums) \in 1 .. Len(nums) /\ Len(tsfs) \in 1 .. Len(tsfs)
      BY <2>2 DEF StreamInv
    <3> QED BY <2>2, <3>1 DEF LastFrame, StreamInv
  <2> QED BY <2>1, <2>2
<1>2. tsfs # <<>> => last = [num |-> nums[Len(tsfs)], tsf |-> tsfs[Len(tsfs)]]
  BY DEF LastFrame, StreamInv
<1>3. f.num \in Nat /\ f.tsf \in Int /\ last.num < f.num /\ f.tsf - last.tsf < U64
  <2> HIDE DEF last
  <2>1. CASE \E d \in OffBeats : f = [num |-> last.num + 1, tsf |-> last.tsf + d]
    <3>1. PICK d \in OffBeats : f = [num |-> last.num + 1, tsf |-> last.tsf + d]
      BY <2>1
    <3>2. d \in Int /\ d < U64
      BY RecvAssumption
    <3> QED BY <1>1, <3>1, <3>2, U64Assumption
  <2>2. CASE \E k \in 1 .. MaxMissed + 1 :
               f = [num |-> last.num + k, tsf |-> last.tsf + k * Period]
    <3>1. PICK k \in 1 .. MaxMissed + 1 :
            f = [num |-> last.num + k, tsf |-> last.tsf + k * Period]
      BY <2>2
    <3> DEFINE d == k * Period
    <3>2. k \in Nat \ {0} /\ d \in Int /\ d <= (MaxMissed + 1) * Period
      BY RecvAssumption
    <3>3. d < U64
      <4> DEFINE m == (MaxMissed + 1) * Period
      <4>1. m \in Int /\ m < U64
        BY RecvAssumption
      <4> HIDE DEF d, m
      <4>2. d \in Int /\ d <= m
        BY <3>2 DEF m
      <4> QED BY <4>1, <4>2, U64Assumption
    <3>4. f = [num |-> last.num + k, tsf |-> last.tsf + d]
      BY <3>1
    <3> HIDE DEF d
    <3> QED BY <1>1, <3>2, <3>3, <3>4, U64Assumption
  <2> QED BY <2>1, <2>2 DEF Following, last
<1> HIDE DEF last
<1> QED BY <1>2, <1>3

LEMMA DatagramKeepsStream ==
  ASSUME StreamInv, Datagram
  PROVE  StreamInv'
<1>1. PICK f \in Following(LastFrame) : \E n \in 1 .. MaxPerDgram :
             Take([i \in 1 .. n |-> [num |-> f.num + i - 1,
                                      tsf |-> f.tsf + (i - 1) * Period]])
  BY DEF Datagram
<1>2. PICK n \in 1 .. MaxPerDgram :
             Take([i \in 1 .. n |-> [num |-> f.num + i - 1,
                                      tsf |-> f.tsf + (i - 1) * Period]])
  BY <1>1
<1> DEFINE L == Len(tsfs)
           ts == [i \in 1 .. n |-> f.tsf + (i - 1) * Period]
           ns == [i \in 1 .. n |-> f.num + i - 1]
<1>3. /\ n \in Nat \ {0} /\ L \in Nat /\ Len(nums) = L
      /\ tsfs \in Seq(Int) /\ nums \in Seq(Nat)
      /\ \A i \in 1 .. L - 1 : nums[i] < nums[i + 1] /\ tsfs[i + 1] - tsfs[i] < U64
  BY RecvAssumption DEF StreamInv
<1>4. tsfs' = tsfs \o ts /\ nums' = nums \o ns
  BY <1>2 DEF Take
<1>5. /\ f.num \in Nat /\ f.tsf \in Int
      /\ L > 0 => nums[L] < f.num /\ f.tsf - tsfs[L] < U64
  BY FrameFollows
<1>6. Period \in Nat \ {0} /\ Period < U64 /\ U64 \in Nat
  <2>1. (MaxMissed + 1) * Period >= Period
    BY RecvAssumption
  <2> DEFINE m == (MaxMissed + 1) * Period
  <2>2. m \in Nat /\ m < U64 /\ m >= Period
    BY <2>1, RecvAssumption
  <2> HIDE DEF m
  <2> QED BY <2>2, RecvAssumption, U64Assumption
<1>7. /\ ts \in Seq(Int) /\ Len(ts) = n /\ ts[1] = f.tsf
      /\ \A i \in 1 .. n - 1 : ts[i + 1] - ts[i] = Period
  <2>1. ASSUME NEW i \in 1 .. n  PROVE (i - 1) * Period \in Int
    BY <1>6
  <2>2. ts \in [1 .. n -> Int]
    BY <1>5, <2>1
  <2>3. ts[1] = f.tsf
    BY <1>3, <1>5, <1>6
  <2>4. ASSUME NEW i \in 1 .. n - 1  PROVE ts[i + 1] - ts[i] = Period
    <3>1. i \in 1 .. n /\ i + 1 \in 1 .. n
      OBVIOUS
    <3>2. ((i + 1) - 1) * Period = (i - 1) * Period + Period
      BY <1>6
    <3> DEFINE a == (i - 1) * Period
    <3>3. ts[i + 1] = f.tsf + (a + Period) /\ ts[i] = f.tsf + a /\ a \in Int
      BY <2>1, <3>1, <3>2
    <3> HIDE DEF ts, a
    <3> QED BY <1>5, <1>6, <3>3
  <2> HIDE DEF ts
  <2>5. ts \in Seq(Int) /\ Len(ts) = n
    BY <1>3, <2>2
  <2> QED BY <2>3, <2>4, <2>5
<1>8. /\ ns \in Seq(Nat) /\ Len(ns) = n /\ ns[1] = f.num
      /\ \A i \in 1 .. n - 1 : ns[i + 1] - ns[i] = 1
  <2>1. ns \in [1 .. n -> Nat]
    BY <1>5
  <2>2. ns[1] = f.num /\ \A i \in 1 .. n - 1 : ns[i + 1] - ns[i] = 1
    BY <1>3, <1>5
  <2> HIDE DEF ns
  <2>3. ns \in Seq(Nat) /\ Len(ns) = n
    BY <1>3, <2>1
  <2> QED BY <2>2, <2>3
<1> HIDE DEF ts, ns
<1>9. /\ tsfs' \in Seq(Int) /\ Len(tsfs') = L + n
      /\ \A i \in 1 .. L + n : tsfs'[i] = IF i <= L THEN tsfs[i] ELSE ts[i - L]
  <2>1. tsfs \in Seq(Int) /\ ts \in Seq(Int) /\ Len(tsfs) = L /\ Len(ts) = n
    BY <1>3, <1>7
  <2> HIDE DEF L
  <2>2. /\ tsfs \o ts \in Seq(Int)
        /\ Len(tsfs \o ts) = L + n
        /\ \A i \in 1 .. L + n : (tsfs \o ts)[i] = IF i <= L THEN tsfs[i] ELSE ts[i - L]
    BY <2>1, ConcatProperties
  <2> QED BY <1>4, <2>2
<1>10. /\ nums' \in Seq(Nat) /\ Len(nums') = L + n
       /\ \A i \in 1 .. L + n : nums'[i] = IF i <= L THEN nums[i] ELSE ns[i - L]
  <2>1. nums \in Seq(Nat) /\ ns \in Seq(Nat) /\ Len(nums) = L /\ Len(ns) = n
    BY <1>3, <1>8
  <2> HIDE DEF L
  <2>2. /\ nums \o ns \in Seq(Nat)
        /\ Len(nums \o ns) = L + n
        /\ \A i \in 1 .. L + n : (nums \o ns)[i] = IF i <= L THEN nums[i] ELSE ns[i - L]
    BY <2>1, ConcatProperties
  <2> QED BY <1>4, <2>2
<1>11. ASSUME NEW i \in 1 .. (L + n) - 1
       PROVE  nums'[i] < nums'[i + 1] /\ tsfs'[i + 1] - tsfs'[i] < U64
  <2> HIDE DEF L
  <2>1. i \in 1 .. L + n /\ i + 1 \in 1 .. L + n
    BY <1>3
  <2>2. CASE i < L
    <3>1. i \in 1 .. L - 1 /\ i <= L /\ i + 1 <= L
      BY <1>3, <2>2
    <3> QED BY <1>3, <1>9, <1>10, <2>1, <3>1
  <2>3. CASE i = L
    <3>1. L > 0 /\ i <= L /\ ~(i + 1 <= L) /\ (i + 1) - L = 1
      BY <1>3, <2>3
    <3>2. /\ tsfs'[i] = tsfs[L] /\ tsfs'[i + 1] = ts[1]
          /\ nums'[i] = nums[L] /\ nums'[i + 1] = ns[1]
      BY <1>9, <1>10, <2>1, <2>3, <3>1
    <3> QED BY <1>5, <1>7, <1>8, <3>1, <3>2
  <2>4. CASE i > L
    <3>1. /\ i - L \in 1 .. n - 1 /\ i - L \in 1 .. n /\ (i - L) + 1 \in 1 .. n
          /\ ~(i <= L) /\ ~(i + 1 <= L) /\ (i + 1) - L = (i - L) + 1
      <4>1. n \in Nat /\ L \in Nat /\ i \in Nat /\ i <= (L + n) - 1
        BY <1>3, <2>1
      <4> QED BY <2>4, <4>1
    <3> DEFINE k == i - L
    <3>2. tsfs'[i] = ts[k] /\ tsfs'[i + 1] = ts[k + 1]
      BY <1>9, <2>1, <3>1
    <3>3. nums'[i] = ns[k] /\ nums'[i + 1] = ns[k + 1]
      BY <1>10, <2>1, <3>1
    <3>4. k \in 1 .. n - 1 /\ k \in 1 .. n /\ k + 1 \in 1 .. n
      BY <3>1
    <3> HIDE DEF k
    <3>5. ns[k] \in Int /\ ns[k + 1] \in Int
      BY <1>8, <3>4
    <3>6. ns[k + 1] - ns[k] = 1
      BY <1>8, <3>4
    <3>7. ts[k + 1] - ts[k] = Period
      BY <1>7, <3>4
    <3>8. nums'[i] < nums'[i + 1]
      BY <3>3, <3>5, <3>6
    <3> QED BY <1>6, <3>2, <3>7, <3>8
  <2> QED BY <1>3, <2>2, <2>3, <2>4
<1> HIDE DEF L
<1> QED BY <1>9, <1>10, <1>11 DEF StreamInv

LEMMA StreamStep ==
  ASSUME StreamInv, [BaselineNext]_baselineVars
  PROVE  StreamInv'
<1>1. CASE tsfs' = <<>> /\ nums' = <<>>
  BY <1>1 DEF StreamInv
<1>2. CASE UNCHANGED <<tsfs, nums>>
  BY <1>2 DEF StreamInv
<1>3. CASE Datagram
  BY <1>3, DatagramKeepsStream
<1>4. CASE Begin \/ PopenFails
  BY <1>1, <1>4 DEF Begin, PopenFails, NoReceiver
<1>5. CASE Runner
  BY <1>2, <1>5 DEF Runner, SpawnRecv, ReadT0, WaitReturns, WindowOver, ReadT1, SendSigint,
         GraceReturns, GraceOver, RecvWait, Merge, MergeFails, recvVars
<1>6. CASE RecvNext(run)
  BY <1>1, <1>2, <1>3, <1>6 DEF RecvNext, RecvStep, Listen, RecvFrom, RecvTimeout, LoopEnds,
         Report, WriteJson, ListenFails, RecvDies, Interrupt, ShortDatagram
<1>7. CASE CtlEnds \/ UNCHANGED baselineVars
  BY <1>2, <1>7 DEF CtlEnds, baselineVars, recvVars
<1> QED BY <1>4, <1>5, <1>6, <1>7 DEF BaselineNext

THEOREM StreamInvariant == BaselineSpec => []StreamInv
<1>1. BaselineInit => StreamInv
  BY DEF BaselineInit, RecvInit, StreamInv
<1> QED BY <1>1, StreamStep, PTL DEF BaselineSpec

-----------------------------------------------------------------------------
(* Whatever frames get through, csi_bench's estimate of the losses is the  *)
(* receiver's, and one more for each interval half-way between an even     *)
(* multiple of the median and the next.                                    *)
THEOREM EstimatesAgree == BaselineSpec => []EstimatorsAgree
<1>1. StreamInv => EstimatorsAgree
  BY EstimatesDiffer DEF StreamInv, EstimatorsAgree
<1> QED BY <1>1, StreamInvariant, PTL

(* On a stream that keeps its beat, with a median of one period, the       *)
(* estimate is exact for any pattern of losses.                            *)
THEOREM LossesAreExact == BaselineSpec => []LossIsExact
<1>1. StreamInv => LossIsExact
  <2> SUFFICES ASSUME StreamInv, Len(nums) > 1, OnBeat
               PROVE  Lost(tsfs) = nums[Len(nums)] - nums[1] + 1 - Len(nums)
    BY DEF LossIsExact
  <2> DEFINE n == Len(tsfs) - 1
  <2>1. n \in Nat \ {0} /\ Len(tsfs) = n + 1 /\ Len(nums) = n + 1
    <3>1. Len(tsfs) \in Nat /\ Len(nums) = Len(tsfs)
      BY DEF StreamInv
    <3> QED BY <3>1
  <2> HIDE DEF n
  <2>2. tsfs \in [1 .. n + 1 -> Int] /\ nums \in [1 .. n + 1 -> Nat]
    <3>1. tsfs \in Seq(Int) /\ nums \in Seq(Nat)
      BY DEF StreamInv
    <3>2. tsfs \in [1 .. n + 1 -> Int]
      BY <2>1, <3>1
    <3>3. nums \in [1 .. n + 1 -> Nat]
      BY <2>1, <3>1
    <3> QED BY <3>2, <3>3
  <2>3. 1 .. Len(tsfs) - 1 = 1 .. n
    BY <2>1
  <2>4. Climbs(nums, n)
    BY <2>3 DEF StreamInv, Climbs
  <2>5. KeepBeat(tsfs, nums, n, Period) /\ Percentile(Intervals(tsfs), 50) = Period
    BY <2>3 DEF OnBeat, KeepBeat
  <2>6. Lost(tsfs) = nums[n + 1] - nums[1] - n
    BY <2>1, <2>2, <2>4, <2>5, RecvAssumption, ExactOnBeat
  <2>7. nums[n + 1] \in Int /\ nums[1] \in Int /\ n \in Int
    BY <2>1, <2>2
  <2> QED BY <2>1, <2>6, <2>7
<1> QED BY <1>1, StreamInvariant, PTL

(* The curve of a run, read off at 50 or 95 percent, is the percentile of  *)
(* its report, for the intervals of both programs and any TSFs.            *)
THEOREM FiguresAndReports == BaselineSpec => []FiguresAgree
<1>1. StreamInv => FiguresAgree
  <2> SUFFICES ASSUME StreamInv, Len(tsfs) > 2,
                      NEW diffs \in {Intervals(tsfs), IntervalsU64(tsfs)},
                      NEW p \in {50, 95}
               PROVE  ReadOff(Cdf(diffs), p) = Percentile(diffs, p)
    BY DEF FiguresAgree
  <2>1. PICK n \in Nat : /\ Len(tsfs) > 1 => n = Len(tsfs) - 1
                         /\ Intervals(tsfs) \in [1 .. n -> Int]
                         /\ IntervalsU64(tsfs) \in [1 .. n -> Int]
    BY IntervalsAre DEF StreamInv
  <2>2. n > 1
    BY <2>1 DEF StreamInv
  <2>3. diffs \in [1 .. n -> Int] /\ p \in 0 .. 100
    BY <2>1
  <2> QED BY <2>2, <2>3, CurveIsPercentile
<1> QED BY <1>1, StreamInvariant, PTL

-----------------------------------------------------------------------------
(* Types.                                                                  *)
Numbers == [by : Nat, frames : Nat, lost : Nat]

LEMMA RecvTypeStep ==
  ASSUME StreamInv, StreamInv', BaselineTypeOK, RecvNext(run)
  PROVE  RecvTypeOK'
<1> USE DEF RecvTypeOK, BaselineTypeOK, Gone
<1>1. /\ tsfs' \in Seq(Int) /\ nums' \in Seq(Nat) /\ Len(nums') = Len(tsfs')
  BY DEF StreamInv
<1>2. CASE WriteJson(run)
  <2>1. run \in Nat /\ Len(tsfs) \in Nat /\ Lost(tsfs) \in Nat
    BY LostIsNat, MaxRunsAssumption DEF StreamInv
  <2>2. recv_json' \in Numbers
    BY <1>2, <2>1 DEF WriteJson, Numbers
  <2> QED BY <1>1, <1>2, <2>2 DEF WriteJson, Numbers
<1>3. CASE Report
  BY <1>1, <1>3 DEF Report
<1>4. CASE Datagram
  BY <1>1, <1>4 DEF Datagram
<1>5. CASE Listen \/ RecvFrom \/ RecvTimeout \/ LoopEnds
  BY <1>1, <1>5 DEF Listen, RecvFrom, RecvTimeout, LoopEnds
<1>6. CASE ListenFails \/ RecvDies \/ Interrupt \/ ShortDatagram
  BY <1>1, <1>6 DEF ListenFails, RecvDies, Interrupt, ShortDatagram
<1> QED BY <1>2, <1>3, <1>4, <1>5, <1>6 DEF RecvNext, RecvStep

LEMMA BaselineTypeStep ==
  ASSUME StreamInv, StreamInv', FileRunInv, BaselineTypeOK, [BaselineNext]_baselineVars
  PROVE  BaselineTypeOK'
<1> USE DEF BaselineTypeOK, Goto
<1>1. CASE Begin \/ PopenFails
  <2>1. run' \in 0 .. MaxRuns
    BY <1>1, MaxRunsAssumption DEF Begin, PopenFails
  <2>2. /\ tsfs' \in Seq(Int) /\ nums' \in Seq(Nat) /\ Len(nums') = Len(tsfs')
    BY DEF StreamInv
  <2>3. recv' = "off" /\ UNCHANGED <<stop, recv_json>>
    BY <1>1 DEF Begin, PopenFails, NoReceiver
  <2>4. RecvTypeOK'
    BY <2>2, <2>3 DEF RecvTypeOK, Gone
  <2> HIDE DEF BaselineTypeOK
  <2>5. /\ at' \in {"spawn_recv", "t0", "failed"}
        /\ ctl' \in {"running", "none"} /\ local' \in BOOLEAN /\ cpu' = FALSE
        /\ UNCHANGED report
    BY <1>1 DEF Begin, PopenFails
  <2> QED BY <2>1, <2>4, <2>5 DEF BaselineTypeOK, Ended
<1>2. CASE Merge
  <2>1. run \in 1 .. MaxRuns
    BY <1>2, MaxRunsAssumption DEF Merge, FileRunInv, FileInv
  <2>2. (IF recv_json = Missing THEN NoData ELSE recv_json) \in Numbers
    BY <1>2 DEF Merge, RecvTypeOK, NoData, Numbers
  <2>3. report' \in [of : 1 .. MaxRuns, data : Numbers, cpu : BOOLEAN]
    BY <1>2, <2>1, <2>2 DEF Merge
  <2> QED BY <1>2, <2>3 DEF Merge, RecvTypeOK, recvVars, Numbers, Ended
<1>3. CASE SpawnRecv
  BY <1>3 DEF SpawnRecv, RecvTypeOK
<1>4. CASE RecvNext(run) /\ UNCHANGED runnerVars
  BY <1>4, RecvTypeStep DEF runnerVars
<1>5. ASSUME UNCHANGED <<recvVars, run, report>>,
             /\ at' \in Ended \union {"spawn_recv", "t0", "window", "t1", "signal", "grace",
                                     "recv_wait", "merge", "no_stat"}
             /\ ctl' \in {"none", "running", "zombie", "reaped", "killed"}
             /\ local' \in BOOLEAN /\ cpu' \in BOOLEAN
      PROVE  BaselineTypeOK'
  BY <1>5 DEF RecvTypeOK, recvVars
<1>6. CASE CtlEnds \/ UNCHANGED baselineVars
  <2>1. UNCHANGED <<recvVars, at, run, local, cpu, report>> /\ ctl' \in {ctl, "zombie"}
    BY <1>6 DEF CtlEnds, baselineVars, runnerVars
  <2> QED BY <1>5, <2>1
<1>7. CASE Runner /\ ~Merge /\ ~SpawnRecv
  <2>1. UNCHANGED <<recvVars, run, local, report>>
    BY <1>7 DEF Runner, ReadT0, WaitReturns, WindowOver, ReadT1, SendSigint,
           GraceReturns, GraceOver, RecvWait, MergeFails
  <2>2. at' \in {"window", "no_stat", "recv_wait", "t1", "signal", "grace", "merge",
                 "failed"}
    BY <1>7 DEF Runner, ReadT0, WaitReturns, WindowOver, ReadT1, SendSigint,
           GraceReturns, GraceOver, RecvWait, MergeFails
  <2>3. ctl' \in {ctl, "reaped", "killed"} /\ cpu' \in {cpu, TRUE}
    BY <1>7 DEF Runner, ReadT0, WaitReturns, WindowOver, ReadT1, SendSigint,
           GraceReturns, GraceOver, RecvWait, MergeFails
  <2> QED BY <1>5, <2>1, <2>2, <2>3 DEF Ended
<1> QED BY <1>1, <1>2, <1>3, <1>4, <1>6, <1>7 DEF BaselineNext

(* Types, of the files' contents and of the reports in particular: numbers *)
(* in a report are never those of a file that is missing or half written.  *)
THEOREM BaselineTypeCorrect == BaselineSpec => []BaselineTypeOK
<1>1. BaselineInit => BaselineTypeOK
  <2>1. ASSUME BaselineInit  PROVE RecvTypeOK
    <3>1. tsfs \in Seq(Int) /\ nums \in Seq(Nat) /\ Len(nums) = Len(tsfs)
      BY <2>1 DEF BaselineInit, RecvInit
    <3>2. recv = "off" /\ stop = FALSE /\ recv_json = Missing
      BY <2>1 DEF BaselineInit, RecvInit
    <3> QED BY <3>1, <3>2 DEF RecvTypeOK, Gone
  <2>2. 0 \in 0 .. MaxRuns
    BY MaxRunsAssumption
  <2> QED BY <2>1, <2>2 DEF BaselineInit, BaselineTypeOK, Ended
<1>2. /\ StreamInv /\ StreamInv' /\ FileRunInv
      /\ BaselineTypeOK /\ [BaselineNext]_baselineVars
      => BaselineTypeOK'
  BY BaselineTypeStep
<1> QED BY <1>1, <1>2, StreamInvariant, FileInvariant, PTL DEF BaselineSpec
=============================================================================
