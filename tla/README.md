# TLA+ specification of the openwifi CSI pipeline

A verification development for the zero-copy CSI path of this repository: the
`csi_dma` kernel driver, the ring it shares with user space and the programs
that consume it. TLC checks small instances; the TLA+ proof system proves every
safety property of the passing runs and the refinement for every value of the
constants. `PROJECT.json` maps every
definition to the source lines it stands for and lists runs, mutants, hazards,
findings and theorems.

## 1. Inventory

| part | source | state it keeps | operations |
|---|---|---|---|
| ring ABI | `include/csi_ring.h` | none | frame size, geometry, `__u32` indices |
| driver | `driver/csi_dma.c` | `struct csi_dma_dev` (producer_idx, frame_seq, dma_err_count, running, num_eq, completion, wait queue, lock), the coherent ring with its header page, `struct csi_dma_file` per open file | kthread (`csi_dma_transfer`), callback, open, release, mmap, poll, START, STOP, SET_NUM_EQ, GET_STATS, probe, remove |
| PL and DMA engine | outside `src/` | NUM_EQ register, requests, descriptor queue | streams one frame per write of NUM_DMA_SYMBOL into the oldest descriptor |
| csi_bench | `user_space/csi_bench.c` | last index, counters, TSF intervals | set-up, capture loop, statistics, report |
| UDP receiver | `user_space/csi_udp_recv.py` | TSFs of the window | receive, statistics |
| baseline runner | `scripts/run_baseline.py` | two child processes, CPU ticks | run, sample, merge |
| consistency check | `board_kit/csi_consistency.py` | two dumps | monotonicity, classification, verdict |
| aggregation | `scripts/summarize_runs.py` | files of a directory | group, summarise, flag |
| experiment scripts | `board_kit/run_*.sh`, `wait_and_scan.sh`, `bench_up.sh` | files they leave, loaded modules | preconditions, pilot, rounds |
| AP bring-up | `board_kit/ap_*.sh`, `set_txlo.sh` | radio settings | system tools |
| plots, build | `scripts/plot_*.py`, `docs/draw_paper_figs.py`, `scripts/build.sh`, Makefiles | none | figures and report give the same percentiles; the reference point lies on the scale |

How they interact. The kthread arms one DMA descriptor, asks the PL for one
frame by a register write, sleeps on a `struct completion` that the DMA callback
completes, advances the indices in `struct csi_dma_dev`, copies them to the
mapped header page and wakes the pollers. Processes call into the driver with
ioctls and `poll()`, and read header and slots through the mapping, with no
system call and no lock. The scripts run csi_bench or side_ch_ctl and hand JSON
files on to the aggregation and the plots.

What is hard. The kthread takes no lock at all; the index exists twice
(`dev->producer_idx` for poll, the header's for the consumer); a transfer that
times out stays with the hardware, because the shared channel must not be
terminated; the ring has no flow control; TSF and payload of a slot are read at
different times; `running` is one flag for all processes; the module can go away
while descriptors are left; the scripts go on after failures and read files of
earlier runs. `hazards` in `PROJECT.json` lists each at its line.

What makes each part correct.

* driver: the hardware writes only into the slot published next; the ring is a
  window on the stream; nothing is published that did not land, every frame that
  lands is published; descriptors and requests stay paired; the header agrees
  with the device; no wake-up is lost; transfers stay inside their slot; freed
  memory is quiet; removal ends.
* csi_bench: frames are counted in the order of the stream with none skipped or
  repeated; TSF and payload come from one frame; the PL is asked for frames while
  somebody captures, and hardly longer; every run ends.
* statistics: the C and the Python estimate of the same stream agree, and count
  exactly what was lost.
* runner and receiver: a report is of the run it names, nothing outlives a run,
  every run ends.
* classifier: what it calls torn is torn, what it passes is not.
* scripts and aggregation: rounds begin on enough traffic, stalled rounds are
  named, also when rounds failed and files are missing.

## 2. Modules

| module | models | extends |
|---|---|---|
| `CsiRing` | `csi_ring.h`: frame size, geometry, index arithmetic | |
| `CsiDma` | `csi_dma.c` with PL and DMA engine | `CsiRing` |
| `CsiBench` | any number of csi_bench processes on the driver | `CsiDma` |
| `CsiStream` | abstract: what a capture that keeps up is promised | |
| `Consistency` | `csi_consistency.py` on the dumps of a csi_bench | `CsiBench` |
| `Ranks` | `sorted(values)[k]` and sums, as statistics and aggregation use them | |
| `TsfStats` | intervals, median and loss estimates, in Python and in C; the curve `plot_compare.py` draws | `Ranks` |
| `UdpRecv` | `csi_udp_recv.py` | `TsfStats` |
| `RunBaseline` | `run_baseline.py` with both children | `UdpRecv` |
| `SummarizeRuns` | `summarize_runs.py`, the sweep script's sanity check, `plot_sweep.py`'s reference point | `Ranks` |
| `Experiment` | `run_sweep_fixed_rate.sh`, the operator and the aggregation | `SummarizeRuns` |
| `MC*` | sets for TLC | the module they instantiate |
| `CsiRing_proofs`, `Ranks_proofs`, `TsfStats_proofs` | lemmas about definitions without state | the module they are about |
| `CsiDma_proofs`, `CsiBench_proofs`, `Consistency_proofs`, `RunBaseline_proofs`, `Experiment_proofs` | theorems about the specifications | the module they are about, and the lemmas they need |

`board_kit/` holds identical copies of `csi_udp_recv.py`, `run_baseline.py` and
`summarize_runs.py`; the map names the ones under `user_space/` and `scripts/`.

### CsiDma

Variables keep the names of `struct csi_dma_dev`. `pc` is the place of the
kthread; an action is a stretch of `csi_dma_transfer` between two accesses that
another actor can see:

| action | code |
|---|---|
| `LoopHead` | 202-208: not to stop, and running; a STOP that comes now does not keep the thread from one more transfer |
| `TransferArm` | 136-164: slot of `producer_idx`, `frame_bytes`, prep, `reinit_completion`, submit, issue |
| `PrepFails`, `SubmitFails` | 147-151, 158-162: count, return `-EIO`, try again at once |
| `TransferTrigger` | 169-170: `frame_symbols`, read again, to NUM_DMA_SYMBOL |
| `WaitDone` | 172-186: a completion is consumed |
| `WaitTimeout` | 172-183: counted in `dev`, descriptor and request stay with the hardware |
| `Advance`, `Publish`, `WakePollers` | 188-189, 190-192, 194 |
| `ThreadExit` | 202: only between two transfers |
| `DmaBegin`, `DmaEnd` | external; `DmaEnd` ends in `csi_dma_callback`, 114-119, and leaves bytes in the slots behind (`Overrun`) when the transfer was longer than its slot |
| `Open` .. `SetNumEqEnd`, `Poll*` | the file operations 221-314; SET_NUM_EQ in three stretches (`SetNumEqBegin`, `SetNumEqReg`, `SetNumEqEnd`), because kthread, PL and mapped header see the states between them |
| `RemoveBegin`, `RemoveEnd` | `csi_dma_remove`, 452-475 |

`Init` is the state in which `csi_dma_probe` returned 0, with the module
parameters as they were given: probe checks neither `num_eq_init` nor
`slot_size_init`, so no frame need fit its slot. `frame_symbols` and
`frame_bytes` are functions of `num_eq`, with which they are always assigned.
`frame_seq` is kept unwrapped: the code never computes with it, so it serves as
the number of the stream position that the wrapped `producer_idx` stands for.
A slot is a record: the frame its first bytes (the TSF) came from, the frame its
last bytes came from, the layout the PL gave it and the bytes moved; a torn slot
is one with `head # tail`. `poll()` is split into queueing, comparing, sleeping,
being woken, interrupted and expiring, as the kernel runs `csi_dma_poll`; a woken
caller stays queued and compares again. `rmmod` needs every file closed (`fops.owner`); an
unbind through sysfs, which does not, is outside the model.

Assumptions about code that is not in the repository: the channel completes its
descriptors in the order they were submitted; the PL serves requests in order,
one frame each; a transfer moves the shorter of descriptor and stream. The layout
of a frame is `reg_num_eq` when it begins.

### CsiBench and CsiStream

`at[p]` is where process `p` is in `main`. Each action takes the driver's action
for the system call it makes; between the calls it reads `meta` and `slots`
through the mapping. `ReadTsf` (line 238) and `CopySlot` (248-253) are separate
steps. Every `goto out` is a step to `close`, and an error of poll() (220-224) one
to `stop`. `Kill` is a signal between two system calls or in the sleep of poll();
the ioctls do not sleep on anything a signal ends. With `CloseDev` the process is
gone, and with it all it knew. A run without kills leaves
`MayKill` at FALSE.

Two variables are history: no step depends on them. `abandoned` says that a
capture was killed, or `auto_start` set, and no STOP came since; `late` counts the
frames the PL began since `running` went off.

csi_bench cannot hold the producer back, so what it may read safely is a matter
of speed: `FrameArrives` lets a frame begin only while every capturing process
is at most `MaxBacklog` published frames behind. `MaxBacklog = NumSlots - 1` is
the largest safe value, and the assumption under which `NoDirtyReads` and
`ReliableStream` are checked; the `consistency` runs lift it. `FrameArrives`
also excludes `U32` frames between two polls of one file, which poll, comparing
indices for equality, would take for none.

`CsiStream` knows no ring and no slots: frames are published, a capture begins
with the next frame, takes them one by one and forwards each before it takes the
next. The refinement mapping (`Stream` in `CsiBench`) reads the published frames
off the mapped header's `frame_seq`, the position off `prev_tsf` and the
forwarded frame off `copied`; a capture that took nothing yet is at `first`, the
frame it started behind, and outside `InStream`, before the mapping of the ring and
after STOP, there is no position. `ReliableStream` says that every step of driver,
hardware and csi_bench is one of `CsiStream`'s or none.

### Consistency

`Consistency` runs the driver and one csi_bench with `-f` and collects what
`fwrite` copies. A payload is two halves, as the classifier cuts it. `fwrite`
races with the DMA: the halves copied are those of the slot's old frame, of its
new one, or cut (`Mixed`). `AtOnce` and `Overtaken` are a selection of what such a
race can copy: whole, overtaken once by the write, or cut in a half.
`PartsOwedOrLater` and `AlarmsAreSound` are shown for these copies. `load_frames`,
`tsf_monotonicity` and `classify_violations` are the functions of that name.
`Correlates` takes the channel to be static, where the amplitude profile of
every frame is the same and torn frames correlate as well as whole ones.

### Ranks, TsfStats, UdpRecv and RunBaseline

Both programs sort only to take values by their place, so a sorted sequence is
`Ranked`: the value with at most k values below it and more than k up to it. The
loops that add up are the recursive function `SumOf`. Quotients that are only rounded or compared are kept as two integers. What the
two programs do differently is all there: C's `uint64_t` differences, `llround`
against Python's `round`, the truncated threshold against the float.

`UdpRecv` has one action per statement group of `main`; the handler's `stop` is
seen at the head of the loop only. `Datagram` takes one or more frames of one
stream, with frames lost in between and now and then a difference of another
size (`OffBeats`): jitter, or a re-emitted frame whose TSF goes back.

`RunBaseline` has one action per statement of `main` that another process can
see. `ctl` distinguishes a child that runs, has ended (`zombie`, its `/proc`
entry still readable), was waited for (`reaped`) or killed; Python's
`send_signal` and `kill` poll the child first, which reaps it. The content of a
JSON file carries whose it is (`by`, `of`), so that a stale file is a state.

### SummarizeRuns and Experiment

A result file is its frame rate, `Missing`, or `Torn`: csi_bench opens its JSON
before it captures and fills it in at the end, run_baseline.py opens it when all
is measured. `Experiment` has one action per step of the sweep script; the
operator may press Ctrl-C anywhere, call the script again for any point,
aggregate between calls and repeat flagged rounds by hand.

The exit status of csi_bench is modelled as what it is: `ret` (csi_bench.c:104)
is never assigned on the way to `out`, so a failure may return anything;
compiled with gcc it returns 0. `FirstPilotFails` and `PilotRerunFails` are the
failures the script is told of, `PilotStatusLost` the ones it is not.

## 3. Runs

| run | instance | shows |
|---|---|---|
| `dma_steady` | 3 slots, indices modulo 6, 7 frames, num_eq 8, 0 and the refused 9, no timeouts | the ring is a window on the stream, writes and header are right, freed memory is quiet, every streamed frame is published, although START, STOP, SET_NUM_EQ and rmmod come at any point |
| `dma_faults` | 2 slots, 3 frames, timeouts, failing prep and submit, 3 descriptors | `NoInventedFrames`, `EveryDescRequested`, `NoLostWakeup`; rmmod ends (`RemovalEnds`); a stream that is on goes on (`StreamGoesOn`), wherever START and STOP find the thread |
| `bench_capture` | 1 process, killed anywhere, 3 slots, backlog 2, 7 frames over the wrap | `ReliableStream` (refinement), `EveryRunEnds`, `ReadWithTheNext`, `StreamsOnDemand` |
| `bench_two` | 2 processes, backlog 1 of 2 slots, 4 frames over the wrap | `ReadsFollowTheStream`, `NoDirtyReads` |
| `baseline` | 2 calls of the runner, up to 4 frames each, period 2, one frame lost in a row, intervals of 5 and -2, datagrams of 1 or 2 frames | `TicksAreReadable`, `ReportOfThisRun`, `NothingLeftRunning`, `RunnerEnds`; on every window the receiver can see `EstimatorsAgree`, `LossIsExact`, `FiguresAgree` |
| `consistency` | 1 process, 2 slots, 5 frames, no limit on the backlog, window 2 | `PartsOwedOrLater`, `AlarmsAreSound` |
| `experiment` | 2 calls, two mmap points of 3 rounds, rates 1 and 4, MIN_FPS 3 | `RoundsOnEnough`, `StallsAreFlagged` (at most half of the rounds stall, each below half of every good one), `SanityFindsStalls` (whatever the receivers' files say, or if they are missing), `RefInRange`, `ScriptEnds` |

Runs that TLC must refute show where the code does less than a text of the
repository says:

| run | property | what happens |
|---|---|---|
| `dma_stale_desc` | `WritesOnlyNextSlot` | after one timeout a second descriptor is armed for the same slot; the frames after it land one descriptor behind, in slots already published. `csi_ring.h:19` |
| `bench_late` | `EveryFrameIsRead` | poll reports the frame between `Advance` and `Publish`; csi_bench sees no new index, and the next poll has nothing to report. With no further frame this one is never read, because a timeout of poll does not make csi_bench look at the ring. `csi_bench.c:226`. `ReadWithTheNext` is what does hold |
| `consistency_torn` | `NoDirtyReadPassed` | a torn frame whose TSF is in order is not examined, and the check says PASS. `csi_consistency.py:194` |
| `stale_pilot` | `RoundsAfterPilot` | csi_bench fails before it opens its JSON and exits with 0; the sweep starts on the pilot file of an earlier call. `run_sweep_fixed_rate.sh:140` |
| `suspect_rounds` | `SuspectsAreRounds` | with one round's file missing, the rounds behind it are reported one too low. `summarize_runs.py:20` |

What else the model shows, without a run of its own: with `SlotSize = 3792` the
buffer is no whole number of pages, `MapAccepted` is FALSE and no csi_bench can
map the ring (`csi_dma.c:248`); with `SlotSize = 512` and `InitNumEq` 8, or
SET_NUM_EQ to 8, `DmaInsideSlot` fails, and with it `RingHoldsLastFrames`
(`csi_dma.c:387`); SET_NUM_EQ between `TransferArm` and `DmaEnd` leaves part of a
frame in a slot (`csi_dma.c:143,170`); a timeout reaches the header's
`dma_err_count` only with the next good frame (`csi_dma.c:192`).

`bench_up.sh:5` calls the stream demand-driven. A killed csi_bench leaves it on,
since `csi_dma_release` does not stop it, until another one sends STOP; and an
armed transfer still brings its frame after STOP. `StreamsOnDemand` says what that
leaves: when nobody captures, and the last capture left on by a kill was followed
by a STOP, `running` is off and the PL begins at most one more frame. `running` is
a flag: of two captures the first to finish stops the other, and no text of the
repository promises more. `StreamGoesOn` therefore excuses a stream that a STOP
turned off, and rmmod, nothing else: from every state with `running` set, reached
through any STARTs and STOPs (of one file or several, the flag cannot tell),
timeouts and errors, the thread prepares a transfer.
`EstimatorsAgree` is about TSFs in order: a TSF that goes back is nearly 2^64 in
C and negative in Python. It is exact, a difference of one for each interval
half-way between an even multiple of the median and the next. `LossIsExact`
needs the median to be the period, which it is while most intervals have no
loss. `ReportOfThisRun` is an equivalence: the report has this run's numbers
exactly when the receiver got to its end; otherwise the numbers are an earlier
run's or zeros, and nothing in the report says so. `FiguresAgree` reads p50 and
p95 off the curve of the comparison figure; it leaves out captures of two frames,
where the curve is 0 / 0 and `plot_compare.py` raises.

### Bounds

Small numbers of slots are enough: what distinguishes slots is whether they are
the one written, the one published last, or about to be overwritten. `U32`
stands for 2^32 and is small, so that the indices wrap inside `MaxFrames`
frames; it stays a multiple of `NumSlots`, as 2^32 is of the default 16. In
`consistency` it exceeds the frames, so that the backlog is told apart from 0,
and five frames over two slots lap the reader twice. Bounds that stand in
guards: `MaxFrames` (frames the PL delivers, frames the receiver takes),
`MaxDescs` (the engine's descriptors, a real limit), `MaxBacklog`, `MaxRuns`,
`MaxCalls`, `MaxMissed`, `MaxPerDgram`. `dma_err_count` needs none, it wraps.

Four frames give three intervals, enough for a median with a smaller and a larger
neighbour; 5 is two and a half periods of 2, where the roundings part; 1024
stands for 2^64 and is far above every difference. Two calls of the runner and
of the script are what a stale file takes. Three rounds are the script's
default, and with rates 1 and 4 any of them may be a stall. `rmmod` ends the
driver and the bounds end the calls, so deadlock is not checked.

### Fairness

`FairSpec`: the scheduler runs the kthread, a transfer that began ends, and the
end of `remove` follows the exit of the kthread. Nothing forces a frame to
arrive, a process to call, or a module to be unloaded. `WF(Kthread)` with
`MayTimeout` gives that a transfer without a frame times out, which is what
`wait_for_completion_timeout` promises; without `MayTimeout` the thread may wait
for ever. `StreamGoesOn` rests on it in the same way. `LoopFairness`: besides,
each process runs on, and poll expires after 200 ms. The clock is no part
of it, captures may be of any length; `EveryRunEnds` names it as its premise,
strong fairness of `DurationOver`, which the loop meets again and again. `BaselineSpec`: the runner's timers expire, the receiver's socket
times out after 0.5 s, and the receiver's window ends after finitely many rounds
of its loop (strong fairness of `LoopEnds`); side_ch_ctl need not end.
`ExpSpec`: a capture ends (`EveryRunEnds`, `RunnerEnds`), and `date` passes
DEADLINE after finitely many pilots (strong fairness of `TrafficJudged`).

## 4. Proofs

Every invariant a passing run checks is a theorem (`DmaInsideSlot` the lemma
`TransfersFit`), and so is the refinement. All constants are arbitrary within the modules' assumptions: any
number of slots, files, processes, descriptors, frames, calls, groups and
rounds. What the assumptions say beyond the types of the constants, and what
single theorems assume:

| assumption | where | why |
|---|---|---|
| there is a slot; the number of slots divides 2^32, and is smaller | `RingAssumption` | `num_slots_init` is not checked by the code, which divides by it; keeps slot and index in step over the wrap. True of the default 16 |
| `FramesFit`: a frame of `num_eq_init`, and of each num_eq that SET_NUM_EQ is given and accepts, fits a slot | theorems about what is in the ring | `slot_size_init` and `num_eq_init` are not checked by probe; a longer transfer runs into the next slot. True of the default slot of 4096 bytes, as num_eq 8 takes 3792, and of `num_eq_init` up to 8 |
| frames of less than 2^32 bytes | `CsiRing`, whose `FrameBytes` does not wrap | `CSI_FRAME_BYTES` is computed in 32 bits; `FramesFit` implies it, since the size of a slot is a `__u32` |
| `~MayTimeout` | theorems about the order of frames, `StreamingIsOnDemand` | with a timeout they are false: a left-over descriptor pairs frames with the slot behind (`dma_stale_desc`), and its request brings a frame after STOP |
| `MaxBacklog < NumSlots` | theorems about what csi_bench reads | a reader that falls a ring behind is overrun: the ring has no flow control |
| `MinFps > 0` | `RoundsNeedTraffic` | with 0 the script asks for nothing |
| neighbouring TSFs less than 2^64 apart | `RecvAssumption` | a TSF is a `uint64_t` |
| finitely many groups, one round or more | `GroupAssumption` | files of a directory, ROUNDS |

### Driver (`CsiDma_proofs`)

* `TypeCorrect`: `TypeOK` is made inductive by `TypeInv`, which adds that a
  frame being written has its descriptor and its request, and that nobody
  outside poll is left on the wait queue.
* `EngineNeverStarves`, `OnlyLandedFramesPublished`: `EngineInv` counts. The
  frames published, the completion counter and the transfer just completed
  together never exceed the frames landed, whatever order timeouts and late
  completions come in.
* `HeaderIsTruthful`, `WakeupsAreNotLost`: both formulas are inductive next to
  the type invariant; no strengthening is needed.
* `WritesAreAhead`, `RemovalIsSafe`, `RingIsAWindow`: `PipeInv` says that there is
  at most one descriptor, that it is for the next slot, and that completion
  counter, engine and `pc` agree on whose turn it is. `SteadyInv` adds that
  `producer_idx` is `frame_seq` modulo `U32`, and that every frame published less
  than `NumSlots` ago is whole in its slot. That a frame ends in the slot it began
  in rests on the lemma `TransfersFit` (`DmaInsideSlot`), whose invariant
  `SizeInv` bounds every layout in use, the initial one included. `CsiRing_proofs`
  has the arithmetic: two recent indices lie in different slots
  (`RecentFramesApart`), wrapped or not.

### csi_bench and the stream (`CsiBench_proofs`, `Consistency_proofs`)

* `BenchesAreWoken`, `BenchesSeeTheStream`: each step of the composed system is a
  step of the driver or leaves it alone, which holds by the way `CsiBench` is
  written (`BenchesUseDriver`); through it the driver's invariants carry over to
  any number of processes without being proved again.
* `BenchTypeCorrect`: where a process is and what it has open. A step of one
  process leaves what every other knows (`OthersStand`).
* `StreamingIsOnDemand`: `DemandInv` counts the frames that may still come after
  STOP. `Coming` says that the kthread is past its loop head with a transfer whose
  frame has not begun, and `OneLateFrame` that this frame and those begun since STOP
  are at most one; `OnByCapture` ties `running` to a
  capture or to `abandoned`, through kills, STOPs of others and `auto_start`.
* `StreamIsFollowed`, `ReadsAreClean`: `BenchInv` counts frames where the program
  compares wrapped indices. `CountInv` says that `last` and `prod` of a process
  are the indices of frames it counts, without bound; `StreamInv`, that the
  frame it reads next is no more than a ring behind the engine (`NotLapped`)
  and that what it took and forwarded are the frames it counted. A slot read
  while its frame is in the ring holds that frame (`ReadsItsFrame`).
* `RingIsAReliableStream`: under `BenchInv` every step of driver and processes is
  a step of `CsiStream` or a stutter; only `Publish` publishes, only `ReadTsf`
  takes, only `CopySlot` forwards.
* `DumpIsOwedOrLater`, without a limit on the backlog: what lies in a slot is the
  last frame published into it or one a whole number of laps later
  (`SlotsAgeInLaps`), so each part of the nth dumped frame is the nth frame
  since the start or one of later laps. `DumpIsTheStream` is the same for a
  reader that keeps up, with equality.
* `TornReportsAreSound`, even with timeouts: whole frames show both halves in the
  same places of the reference, so that a report of a torn frame needs one.

### Runner and receiver (`RunBaseline_proofs`, `TsfStats_proofs`, `Ranks_proofs`)

* `CpuTimeIsThere`, `RunsLeaveNothing`: `RunInv` ties the place of the runner to
  the state of its children. Up to the SIGINT the child may have ended but is
  not yet waited for, so `/proc/<pid>/stat` is readable; a receiver only lives
  between its start and `recv.wait()`.
* `ReportsAreOfTheRun`: `FileInv` says whose the receiver's file is. While the
  receiver of run n has not exited, what is at `--recv-json` is nothing, half a
  file or of a run before n; once it has, it is its own, with all its frames.
  `Merge` turns that into the equivalence `ReportInv`.
* `BaselineTypeCorrect`: the files' contents; a report never holds a file that is
  missing or half written.
* `EstimatesAgree`, `LossesAreExact`, `FiguresAndReports`: `StreamInv` says that
  the numbers of the frames taken increase and that their TSFs stay within a
  `uint64_t` of each other, over datagrams of any size. The rest is arithmetic
  over windows of any length: `OneInterval` compares the two thresholds and
  roundings, `SumsDiffer` counts the terms where they part; `WholePeriods` and
  `SumTelescopes` give the exact loss; `RankedAscends` gives the percentile as
  the largest value the curve reaches.

### Scripts and aggregation (`Experiment_proofs`)

* `ExpTypeCorrect`: the files, the summary and the flags: a flagged round is the
  number of a round.
* `RoundsNeedTraffic`: `PilotInv` follows the pilot's file through repeated and
  failing pilots: the script gets to its judgement with `low` set or a file that
  says enough.
* `StallsAreFound`: for any rounds of which at most half stalled, each below half
  of every good one, the upper median is a good one's, so the flags are the
  stalls (`StallsFlagged`).
* `SanityIsRight`: the rates the script looks at are those of the rounds' and of the
  receivers' files, each once (`RatesOfFiles`, a bijection), so that the median is
  over both; as long as at most half of them are stalls it is a good one's
  (`LowIsBad`, which `StallsAreFound` rests on too).
* `ReferenceIsInRange`: the reference is a part of the range of the points,
  whatever their number and order.

### Induction

The library's induction theorems take a predicate, which the provers cannot
instantiate. `Ranks_proofs` states induction for sets instead: `LeastOf`, from
the well-foundedness of < on Nat, and `UpToAll`, for the set of the numbers up
to n that have a property. From these follow the least and the greatest element
of a bounded set, the existence of every rank (`RankExists`), and that the
recursion of `SumOf` has a solution for every length (`SumOfIs`). Operators of
the community modules that take an operator (`SortSeq`, `MapThenSumSet`) cannot
be expanded in a proof, which is why `Ranks`, `View` and `RoundsOf` are written
with CHOOSE and functions.

### Model-checked only

The liveness properties `FramesArePublished`, `RemovalEnds`, `StreamGoesOn`,
`EveryRunEnds`, `ReadWithTheNext`, `RunnerEnds` and `ScriptEnds`: liveness under fairness and
ENABLED are out of the prover's reach. And the five refuted properties, which
are shown by TLC's behaviours.

## 5. Not modelled

* Probe's error paths and insmod in any order: `Init` is a loaded module.
* `last_transfer_us`; wording of output; means and deviations that are only
  printed.
* Ctrl-C on `run_baseline.py` itself.
* `run_scan_num_eq.sh`, `run_repeats.sh`: loops of the shape of the sweep script.
  `wait_and_scan.sh`, `run_csi_bench.sh`, `bench_up.sh`: load modules and call the
  others. `run_repeat_baseline.sh`: a loop over `run_baseline.py`.
* AP bring-up, the build, the layout of figures, the ELF binaries of `board_kit`
  and the recorded `results`.

## 6. Plan

1. Done: the modules above, their runs, and the proofs of every safety property
   and refinement they check.
2. Safety parts of the liveness properties: what each stage of a transfer, of
   `remove` and of a run leads to, as action properties, so that only the
   fairness argument is left to TLC.
3. The scripts that load modules (`wait_and_scan.sh`, `bench_up.sh`) on top of
   `Experiment`.
