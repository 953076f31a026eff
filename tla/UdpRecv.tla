------------------------------ MODULE UdpRecv ------------------------------
(***************************************************************************)
(* csi_udp_recv.py: takes datagrams of CSI frames for a fixed window,      *)
(* collects their TSFs and leaves a JSON with rate, loss and jitter.       *)
(*                                                                         *)
(* The frames come from side_ch_ctl (external), one stream on the loopback *)
(* interface: datagrams get lost when the socket's buffer is full, and     *)
(* arrive in order.  The PL re-emits a frame now and then                  *)
(* (csi_consistency.py lines 83-85), so that a TSF may go back.            *)
(***************************************************************************)
EXTENDS TsfStats

CONSTANTS
  Period,     \* TSF ticks between two frames of the stream
  OffBeats,   \* other differences that occur, of either sign
  MaxMissed,  \* bound: frames lost in a row
  MaxPerDgram,\* bound: whole frames of a datagram
  MaxFrames   \* bound: frames the receiver takes in a run

ASSUME RecvAssumption ==
  /\ Period \in Nat \ {0}
  /\ OffBeats \subseteq Int
  /\ MaxMissed \in Nat
  /\ MaxPerDgram \in Nat \ {0}
  /\ MaxFrames \in Nat
  \* TSFs are uint64_t, and so are their differences.
  /\ \A d \in OffBeats : d < U64
  /\ (MaxMissed + 1) * Period < U64

VARIABLES
  recv,      \* where the receiver is in main
  stop,      \* set by the handler of SIGINT and SIGTERM
  tsfs,      \* TSFs of the frames taken
  nums,      \* their numbers in the stream
  recv_json  \* content of the file of --json

recvVars == <<recv, stop, tsfs, nums, recv_json>>

(* Content of a file that does not exist, and of one whose writer died     *)
(* after open("w"); any other content is the record that was written.      *)
Missing == [file |-> "missing"]
Torn    == [file |-> "torn"]

Gone == {"off", "exited", "died"}

RecvInit ==
  /\ recv = "off"
  /\ stop = FALSE
  /\ tsfs = <<>>
  /\ nums = <<>>
  /\ recv_json = Missing

-----------------------------------------------------------------------------
(* Socket, dump file and signal handlers are set up.                       *)
Listen ==
  /\ recv = "start"
  /\ recv' = "loop"
  /\ stop' = FALSE
  /\ tsfs' = <<>>
  /\ nums' = <<>>
  /\ UNCHANGED recv_json

(* bind() or open() raises, or a signal comes before it has a handler.     *)
ListenFails ==
  /\ recv = "start"
  /\ recv' = "died"
  /\ UNCHANGED <<stop, tsfs, nums, recv_json>>

(* After the loop nothing looks at stop.                                   *)
Interrupt ==
  /\ recv \in {"loop", "recvfrom"}
  /\ ~stop
  /\ stop' = TRUE
  /\ UNCHANGED <<recv, tsfs, nums, recv_json>>

(* The window is still open: wait for a datagram.                          *)
RecvFrom ==
  /\ recv = "loop"
  /\ ~stop
  /\ recv' = "recvfrom"
  /\ UNCHANGED <<stop, tsfs, nums, recv_json>>

\* mutant: the socket has no timeout
RecvTimeout_Never == FALSE

(* 0.5 s without a datagram.                                               *)
RecvTimeout ==
  /\ recv = "recvfrom"
  /\ recv' = "loop"
  /\ UNCHANGED <<stop, tsfs, nums, recv_json>>

(* A next frame of the stream: number and TSF.  Between frames received in *)
(* a row any difference that occurs, after k lost ones k + 1 periods.      *)
Following(f) ==
  {[num |-> f.num + 1, tsf |-> f.tsf + d] : d \in OffBeats}
    \union {[num |-> f.num + k, tsf |-> f.tsf + k * Period] : k \in 1 .. MaxMissed + 1}

LastFrame ==
  IF nums = <<>> THEN [num |-> 0, tsf |-> Period]
                 ELSE [num |-> nums[Len(nums)], tsf |-> tsfs[Len(tsfs)]]

(* The n = len(data) // fb whole frames of a datagram, one after another.  *)
Take(frames) ==
  /\ tsfs' = tsfs \o [i \in DOMAIN frames |-> frames[i].tsf]
  /\ nums' = nums \o [i \in DOMAIN frames |-> frames[i].num]

(* A datagram: its first frame follows the stream, the others follow each  *)
(* other without a loss.                                                   *)
Datagram ==
  /\ recv = "recvfrom"
  /\ \E f \in Following(LastFrame), n \in 1 .. MaxPerDgram :
       /\ Len(tsfs) + n <= MaxFrames
       /\ Take([i \in 1 .. n |-> [num |-> f.num + i - 1,
                                  tsf |-> f.tsf + (i - 1) * Period]])
  /\ recv' = "loop"
  /\ UNCHANGED <<stop, recv_json>>

(* Less than a frame: n = 0.                                               *)
ShortDatagram ==
  /\ recv = "recvfrom"
  /\ recv' = "loop"
  /\ UNCHANGED <<stop, tsfs, nums, recv_json>>

(* The window is over or stop is set: the loop ends, and stop is of no     *)
(* further use.                                                            *)
LoopEnds ==
  /\ recv = "loop"
  /\ recv' = "report"
  /\ stop' = FALSE
  /\ UNCHANGED <<tsfs, nums, recv_json>>

(* Statistics, the intervals file, then open("w") truncates the JSON.      *)
Report ==
  /\ recv = "report"
  /\ recv' = "write"
  /\ recv_json' = Torn
  /\ UNCHANGED <<stop, tsfs, nums>>

(* The part of the JSON that depends on the frames; by tells whose it is.  *)
WriteJson(by) ==
  /\ recv = "write"
  /\ recv' = "exited"
  /\ recv_json' = [by |-> by, frames |-> Len(tsfs), lost |-> Lost(tsfs)]
  /\ UNCHANGED <<stop, tsfs, nums>>

(* SIGKILL, or an exception such as a full disk: no JSON, or half of one.  *)
RecvDies ==
  /\ recv \notin Gone \union {"start"}
  /\ recv' = "died"
  /\ stop' = FALSE
  /\ tsfs' = <<>>
  /\ nums' = <<>>
  /\ UNCHANGED recv_json

RecvStep(by) ==
  \/ Listen
  \/ RecvFrom \/ RecvTimeout
  \/ LoopEnds
  \/ Report \/ WriteJson(by)

RecvNext(by) ==
  \/ RecvStep(by)
  \/ ListenFails \/ RecvDies
  \/ Interrupt
  \/ Datagram \/ ShortDatagram

RecvTypeOK ==
  /\ recv \in Gone \union {"start", "loop", "recvfrom", "report", "write"}
  /\ stop \in BOOLEAN
  /\ tsfs \in Seq(Int)
  /\ nums \in Seq(Nat)
  /\ Len(nums) = Len(tsfs)
  /\ recv_json \in {Missing, Torn} \union [by : Nat, frames : Nat, lost : Nat]

-----------------------------------------------------------------------------
(* Properties of the estimate, where the receiver computes it.             *)

(* csi_bench's statistics and the receiver's are compared with each other  *)
(* (board_kit/plot_compare.py): on the same TSFs in order they count the   *)
(* same losses, up to one for each interval of exactly 2.5, 4.5, ...       *)
(* medians, where llround goes up and Python's round down.                 *)
EstimatorsAgree ==
  recv = "report" /\ InOrder(tsfs) =>
    LostC(tsfs) - Lost(tsfs) = Cardinality(EvenHalves(tsfs))

(* The frames of a stream without a break in its beat are counted exactly: *)
(* every lost one, no other, as long as most intervals have no loss.       *)
OnBeat ==
  /\ \A i \in 1 .. Len(tsfs) - 1 : tsfs[i + 1] - tsfs[i] = Period * (nums[i + 1] - nums[i])
  /\ Percentile(Intervals(tsfs), 50) = Period

LossIsExact ==
  recv = "report" /\ Len(nums) > 1 /\ OnBeat =>
    Lost(tsfs) = nums[Len(nums)] - nums[1] + 1 - Len(nums)

(* The curves of plot_compare.py and the p50 and p95 of the two reports    *)
(* (which it draws when a file of intervals is missing) say the same of    *)
(* one run, TSFs that go back included.                                    *)
FiguresAgree ==
  recv = "report" /\ Len(tsfs) > 2 =>
    \A diffs \in {Intervals(tsfs), IntervalsU64(tsfs)}, p \in {50, 95} :
      ReadOff(Cdf(diffs), p) = Percentile(diffs, p)
=============================================================================
