-------------------------- MODULE CsiBench_proofs --------------------------
(***************************************************************************)
(* csi_bench processes use the driver only through its operations, so what *)
(* is proved of the driver holds under any number of them.  Here too: what *)
(* a process reads (the stream it follows, reads that are not torn), and   *)
(* that a capture implements CsiStream.                                    *)
(***************************************************************************)
EXTENDS CsiBench, CsiDma_proofs

(* A step of a process is a system call on its file, or leaves the driver  *)
(* alone.                                                                  *)
LEMMA RunIsFileOp ==
  ASSUME NEW p \in Files, OpenDev(p) \/ Run(p) \/ Kill(p)
  PROVE  FileOp(p) \/ UNCHANGED vars
<1>1. CASE OpenDev(p)
  BY <1>1 DEF OpenDev, FileOp
<1>2. CASE SetNumEq(p)
  BY <1>2 DEF SetNumEq, FileOp
<1>3. CASE SetNumEqReturns(p)
  BY <1>3 DEF SetNumEqReturns, FileOp
<1>4. CASE StartStream(p) \/ StopStream(p)
  BY <1>4 DEF StartStream, StopStream, FileOp
<1>5. CASE PollDev(p)
  BY <1>5 DEF PollDev, PollReturns, Poll, FileOp
<1>6. CASE CloseDev(p)
  BY <1>6 DEF CloseDev, FileOp
<1>7. CASE MapRing(p) \/ MapFails(p) \/ OutputFails(p) \/ PollFails(p)
  BY <1>7 DEF MapRing, MapFails, OutputFails, PollFails
<1>8. CASE ReadIndex(p) \/ ReadTsf(p) \/ CopySlot(p) \/ ReadAll(p)
  BY <1>8 DEF ReadIndex, ReadTsf, CopySlot, ReadAll
<1>9. CASE KeepPolling(p) \/ DurationOver(p) \/ Kill(p)
  BY <1>9 DEF KeepPolling, DurationOver, Kill, Poll, FileOp
<1> QED
  BY <1>1, <1>2, <1>3, <1>4, <1>5, <1>6, <1>7, <1>8, <1>9 DEF Run

LEMMA BenchStepIsDriverStep == [BenchNext]_allVars => [Next]_vars
<1> SUFFICES ASSUME [BenchNext]_allVars  PROVE [Next]_vars
  OBVIOUS
<1>1. CASE DriverStep
  BY <1>1 DEF DriverStep, Next
<1>2. CASE FrameArrives
  BY <1>2 DEF FrameArrives, Next
<1>3. ASSUME NEW p \in Files, OpenDev(p) \/ Run(p) \/ Kill(p)  PROVE [Next]_vars
  BY <1>3, RunIsFileOp DEF Next
<1>4. CASE UNCHANGED allVars
  BY <1>4 DEF allVars
<1> QED BY <1>1, <1>2, <1>3, <1>4 DEF BenchNext

(* What is proved of the driver holds with its consumers.                  *)
LEMMA BenchesUseDriver == BenchSpec => Spec
<1>1. BenchInit => Init
  BY DEF BenchInit
<1> QED BY <1>1, BenchStepIsDriverStep, PTL DEF BenchSpec, Spec

(* No consumer sleeps through a frame, however many capture at once.       *)
THEOREM BenchesAreWoken == BenchSpec => []NoLostWakeup
BY BenchesUseDriver, WakeupsAreNotLost, PTL

(* With no timeout and slots that hold a frame, the ring every consumer    *)
(* maps is a window on the stream.                                         *)
THEOREM BenchesSeeTheStream ==
  ASSUME ~MayTimeout, FramesFit  PROVE BenchSpec => []RingHoldsLastFrames
BY BenchesUseDriver, RingIsAWindow, PTL
-----------------------------------------------------------------------------
(* What a process knows of itself.                                         *)

View(q) == <<at[q], last[q], prod[q], offset[q], total[q], prev_tsf[q],
             copied[q], first[q]>>

(* The slot that is forwarded is one of the frames found new.              *)
CopiesNewFrame ==
  \A p \in Files : at[p] = "copy_slot" => offset[p] < IdxDiff(prod[p], last[p])

BenchTypeInv == BenchTypeOK /\ CopiesNewFrame

(* A step of one process leaves every other where it is.                   *)
LEMMA OthersStand ==
  ASSUME BenchTypeOK, NEW p \in Files, NEW q \in Files, q # p,
         OpenDev(p) \/ Run(p) \/ Kill(p)
  PROVE  UNCHANGED View(q)
<1> USE DEF View, readVars, Goto
<1>1. at \in [Files -> {"idle"} \union Setup \union Capture \union Finish]
      /\ last \in [Files -> 0 .. U32 - 1] /\ prod \in [Files -> 0 .. U32 - 1]
      /\ offset \in [Files -> 0 .. U32 - 1] /\ total \in [Files -> Nat]
      /\ prev_tsf \in [Files -> Nat] /\ copied \in [Files -> Nat]
      /\ first \in [Files -> Nat]
  BY DEF BenchTypeOK
<1>2. CASE OpenDev(p) \/ SetNumEq(p) \/ SetNumEqReturns(p) \/ CloseDev(p)
  BY <1>1, <1>2 DEF OpenDev, SetNumEq, SetNumEqReturns, CloseDev
<1>3. CASE MapRing(p) \/ MapFails(p) \/ OutputFails(p) \/ StartStream(p)
  BY <1>1, <1>3 DEF MapRing, MapFails, OutputFails, StartStream
<1>4. CASE PollDev(p) \/ PollFails(p)
  BY <1>1, <1>4 DEF PollDev, PollReturns, PollFails
<1>5. CASE ReadIndex(p) \/ ReadTsf(p) \/ CopySlot(p) \/ ReadAll(p)
  BY <1>1, <1>5 DEF ReadIndex, ReadTsf, CopySlot, ReadAll
<1>6. CASE KeepPolling(p) \/ DurationOver(p) \/ StopStream(p) \/ Kill(p)
  BY <1>1, <1>6 DEF KeepPolling, DurationOver, StopStream, Kill
<1> QED BY <1>2, <1>3, <1>4, <1>5, <1>6 DEF Run

LEMMA BenchTypeInit == BenchInit => TypeInv /\ BenchTypeInv
<1> SUFFICES ASSUME BenchInit  PROVE TypeInv /\ BenchTypeInv
  OBVIOUS
<1>1. TypeInv
  BY TypeInit DEF BenchInit
<1>2. BenchTypeInv
  BY RingAssumption, DmaAssumption
     DEF BenchInit, BenchTypeInv, BenchTypeOK, CopiesNewFrame, Init
<1> QED BY <1>1, <1>2

(* Where the process of a step is afterwards, and what it knows.           *)
LEMMA OwnTypes ==
  ASSUME TypeInv, BenchTypeInv, NEW p \in Files, OpenDev(p) \/ Run(p) \/ Kill(p)
  PROVE  /\ last' \in [Files -> 0 .. U32 - 1]
         /\ prod' \in [Files -> 0 .. U32 - 1]
         /\ offset' \in [Files -> 0 .. U32 - 1]
         /\ total' \in [Files -> Nat] /\ first' \in [Files -> Nat]
         /\ prev_tsf' \in [Files -> Nat] /\ copied' \in [Files -> Nat]
         /\ abandoned' \in BOOLEAN /\ late' \in Nat
         /\ at'[p] = "copy_slot" => offset'[p] < IdxDiff(prod'[p], last'[p])
<1> USE DEF readVars, histVars, Goto
<1>1. BenchTypeOK /\ CopiesNewFrame
  BY DEF BenchTypeInv
<1>2. /\ meta.producer_idx \in 0 .. U32 - 1 /\ meta.frame_seq \in Nat
      /\ slots \in [Slots -> Slot]
  BY DEF TypeInv, TypeOK
<1>3. U32 \in Nat \ {0} /\ 0 \in 0 .. U32 - 1
  BY RingAssumption
<1>5. CASE MapRing(p)
  BY <1>1, <1>2, <1>3, <1>5 DEF MapRing, BenchTypeOK
<1>6. CASE ReadIndex(p)
  BY <1>1, <1>2, <1>3, <1>6 DEF ReadIndex, BenchTypeOK
<1>7. CASE ReadTsf(p) \/ CopySlot(p)
  <2>1. NextRead(p) \in Nat /\ SlotOf(NextRead(p)) \in Slots
    BY <1>1, <1>3, SlotOfType DEF NextRead, BenchTypeOK
  <2>2. SlotRead(p).head \in Nat /\ SlotRead(p).tail \in Nat
    BY <1>2, <2>1 DEF SlotRead, Slot
  <2>3. IdxDiff(prod[p], last[p]) \in 0 .. U32 - 1
    BY <1>1, <1>3 DEF IdxDiff, BenchTypeOK
  <2>4. CASE ReadTsf(p)
    BY <1>1, <2>2, <2>4 DEF ReadTsf, BenchTypeOK
  <2>5. CASE CopySlot(p)
    <3>1. offset[p] + 1 \in 0 .. U32 - 1
      BY <1>1, <1>3, <2>3, <2>5 DEF CopySlot, BenchTypeOK, CopiesNewFrame
    <3> QED BY <1>1, <2>2, <2>5, <3>1 DEF CopySlot, BenchTypeOK
  <2> QED BY <1>7, <2>4, <2>5
<1>8. CASE ReadAll(p)
  BY <1>1, <1>3, <1>8 DEF ReadAll, BenchTypeOK
<1>9. CASE OpenDev(p) \/ SetNumEq(p) \/ SetNumEqReturns(p) \/ MapFails(p)
           \/ OutputFails(p)
  BY <1>1, <1>9 DEF OpenDev, SetNumEq, SetNumEqReturns, MapFails,
    OutputFails, BenchTypeOK
<1>10. CASE PollDev(p) \/ PollFails(p)
  BY <1>1, <1>10 DEF PollDev, PollReturns, PollFails, BenchTypeOK
<1>11. CASE KeepPolling(p) \/ DurationOver(p) \/ Kill(p)
  BY <1>1, <1>11 DEF KeepPolling, DurationOver, Kill, BenchTypeOK
<1>13. CASE CloseDev(p)
  <2>1. at'[p] = "idle" /\ UNCHANGED <<abandoned, late, first>>
    BY <1>1, <1>13 DEF CloseDev, BenchTypeOK
  <2>2. /\ last' \in [Files -> 0 .. U32 - 1] /\ prod' \in [Files -> 0 .. U32 - 1]
        /\ offset' \in [Files -> 0 .. U32 - 1] /\ total' \in [Files -> Nat]
        /\ prev_tsf' \in [Files -> Nat] /\ copied' \in [Files -> Nat]
    BY <1>1, <1>3, <1>13 DEF CloseDev, BenchTypeOK
  <2> QED BY <1>1, <2>1, <2>2 DEF BenchTypeOK
<1>12. CASE StartStream(p) \/ StopStream(p)
  <2>1. /\ UNCHANGED readVars /\ late' = 0 /\ abandoned' \in BOOLEAN
        /\ at'[p] # "copy_slot"
    BY <1>1, <1>12 DEF StartStream, StopStream, BenchTypeOK
  <2> QED BY <1>1, <2>1 DEF BenchTypeOK
<1> QED
  BY <1>5, <1>6, <1>7, <1>8, <1>9, <1>10, <1>11, <1>12, <1>13 DEF Run

(* A process is at a step of main, and has its file open between open and  *)
(* close.                                                                  *)
LEMMA OwnStep ==
  ASSUME BenchTypeOK, NEW p \in Files, OpenDev(p) \/ Run(p) \/ Kill(p)
  PROVE  /\ at' \in [Files -> {"idle"} \union Setup \union Capture \union Finish]
         /\ files' = {q \in Files : at'[q] # "idle"}
<1> USE DEF Goto, BenchTypeOK, Setup, Capture, Finish
<1>1. CASE OpenDev(p)
  BY <1>1 DEF OpenDev, Open
<1>2. CASE SetNumEq(p) \/ SetNumEqReturns(p)
  BY <1>2 DEF SetNumEq, SetNumEqReturns, SetNumEqBegin, SetNumEqReg,
    SetNumEqEnd, fileVars
<1>3. CASE MapRing(p) \/ MapFails(p) \/ OutputFails(p) \/ PollFails(p) \/ Kill(p)
  BY <1>3 DEF MapRing, MapFails, OutputFails, PollFails, Kill, PollInterrupted,
    vars, fileVars
<1>4. CASE StartStream(p) \/ StopStream(p)
  BY <1>4 DEF StartStream, StopStream, Start, Stop, SetRunning, fileVars
<1>5. CASE PollDev(p)
  <2>1. UNCHANGED files
    BY <1>5 DEF PollDev, PollReturns, PollQueue, PollReady, PollSleep,
                PollWoken, PollExpire, PollNothing
  <2>2. /\ at[p] = "poll"
        /\ \/ UNCHANGED at
           \/ at' = [at EXCEPT ![p] = "read_index"]
           \/ at' = [at EXCEPT ![p] = "elapsed"]
    BY <1>5 DEF PollDev, PollReturns
  <2> QED BY <2>1, <2>2
<1>6. CASE ReadIndex(p) \/ ReadTsf(p) \/ CopySlot(p) \/ ReadAll(p)
  BY <1>6 DEF ReadIndex, ReadTsf, CopySlot, ReadAll, vars, fileVars
<1>7. CASE KeepPolling(p) \/ DurationOver(p)
  BY <1>7 DEF KeepPolling, DurationOver, vars, fileVars
<1>8. CASE CloseDev(p)
  BY <1>8 DEF CloseDev, Release
<1> QED BY <1>1, <1>2, <1>3, <1>4, <1>5, <1>6, <1>7, <1>8 DEF Run

(* The driver does not touch what the processes know, nor who is there.    *)
LEMMA DriverLeavesBenches ==
  ASSUME DriverStep \/ FrameArrives \/ UNCHANGED allVars
  PROVE  UNCHANGED <<files, benchVars>>
<1> USE DEF benchVars, fileVars
<1>1. CASE DriverStep
  BY <1>1 DEF DriverStep, Kthread, LoopHead, TransferArm, PrepFails, SubmitFails,
    TransferTrigger, WaitDone, WaitTimeout, Advance, Publish, WakePollers,
    ThreadExit, DmaEnd, RemoveBegin, RemoveEnd
<1>2. CASE FrameArrives
  BY <1>2 DEF FrameArrives, DmaBegin
<1>3. CASE UNCHANGED allVars
  BY <1>3 DEF allVars, vars
<1> QED BY <1>1, <1>2, <1>3

LEMMA BenchTypeStep ==
  TypeInv /\ BenchTypeInv /\ [BenchNext]_allVars => TypeInv' /\ BenchTypeInv'
<1> SUFFICES ASSUME TypeInv, BenchTypeInv, [BenchNext]_allVars
             PROVE  BenchTypeInv'
  BY BenchStepIsDriverStep, TypeStep
<1>1. ASSUME NEW p \in Files, OpenDev(p) \/ Run(p) \/ Kill(p)
      PROVE  BenchTypeInv'
  <2>1. BenchTypeOK'
    BY <1>1, OwnTypes, OwnStep DEF BenchTypeInv, BenchTypeOK
  <2>2. ASSUME NEW q \in Files, at'[q] = "copy_slot"
        PROVE  offset'[q] < IdxDiff(prod'[q], last'[q])
    <3>1. CASE q = p
      BY <1>1, <2>2, <3>1, OwnTypes
    <3>2. CASE q # p
      BY <1>1, <2>2, <3>2, OthersStand DEF BenchTypeInv, CopiesNewFrame, View
    <3> QED BY <3>1, <3>2
  <2> QED BY <2>1, <2>2 DEF BenchTypeInv, CopiesNewFrame
<1>2. CASE DriverStep \/ FrameArrives \/ UNCHANGED allVars
  <2>1. abandoned' \in BOOLEAN /\ late' \in Nat
    BY <1>2 DEF DriverStep, FrameArrives, allVars, histVars, BenchTypeInv,
      BenchTypeOK
  <2> QED BY <1>2, <2>1, DriverLeavesBenches DEF BenchTypeInv, BenchTypeOK,
    CopiesNewFrame, benchVars, readVars
<1> QED BY <1>1, <1>2 DEF BenchNext

(* csi_bench's counters keep their width and its file is open exactly      *)
(* between its open and its close.                                         *)
THEOREM BenchTypeCorrect == BenchSpec => []BenchTypeOK
<1>1. BenchTypeInv => BenchTypeOK
  BY DEF BenchTypeInv
<1> QED BY BenchTypeInit, BenchTypeStep, <1>1, PTL DEF BenchSpec

-----------------------------------------------------------------------------
(* START and STOP.                                                         *)

(* Only START and STOP switch the streaming, and forget the late frames.   *)
LEMMA SwitchSteps ==
  ASSUME [BenchNext]_allVars
  PROVE  \/ \E p \in Files : StartStream(p) \/ StopStream(p)
         \/ /\ UNCHANGED running
            /\ FrameArrives \/ UNCHANGED late
            /\ abandoned => abandoned'
<1> USE DEF cfgVars, readVars, histVars
<1>1. CASE DriverStep
  BY <1>1 DEF DriverStep, Kthread, LoopHead, TransferArm, PrepFails,
    SubmitFails, TransferTrigger, WaitDone, WaitTimeout, Advance, Publish,
    WakePollers, ThreadExit, DmaEnd, RemoveBegin, RemoveEnd
<1>2. CASE FrameArrives
  BY <1>2 DEF FrameArrives, DmaBegin
<1>3. ASSUME NEW p \in Files, OpenDev(p) \/ Run(p) \/ Kill(p),
             ~StartStream(p), ~StopStream(p)
      PROVE  UNCHANGED <<running, late>> /\ (abandoned => abandoned')
  <2>1. CASE OpenDev(p) \/ SetNumEq(p) \/ SetNumEqReturns(p) \/ CloseDev(p)
    BY <2>1 DEF OpenDev, Open, SetNumEq, SetNumEqBegin, SetNumEqReturns,
      SetNumEqReg, SetNumEqEnd, CloseDev, Release
  <2>2. CASE MapRing(p) \/ MapFails(p) \/ OutputFails(p) \/ PollFails(p)
    BY <2>2 DEF MapRing, MapFails, OutputFails, PollFails, vars
  <2>3. CASE PollDev(p)
    BY <2>3 DEF PollDev, PollReturns, PollQueue, PollReady, PollSleep,
      PollWoken, PollExpire, PollNothing
  <2>4. CASE ReadIndex(p) \/ ReadTsf(p) \/ CopySlot(p) \/ ReadAll(p)
             \/ KeepPolling(p) \/ DurationOver(p)
    BY <2>4 DEF ReadIndex, ReadTsf, CopySlot, ReadAll, KeepPolling,
      DurationOver, vars
  <2>5. CASE Kill(p)
    BY <2>5 DEF Kill, PollInterrupted, vars
  <2> QED BY <1>3, <2>1, <2>2, <2>3, <2>4, <2>5 DEF Run
<1>4. CASE UNCHANGED allVars
  BY <1>4 DEF allVars, vars
<1> QED BY <1>1, <1>2, <1>3, <1>4 DEF BenchNext

(* A capture is left to STOP, unless it is killed.                         *)
LEMMA CaptureSteps ==
  ASSUME BenchTypeOK, NEW p \in Files, OpenDev(p) \/ Run(p) \/ Kill(p)
  PROVE  at[p] \in Capture \union {"stop"} =>
           \/ at'[p] \in Capture \union {"stop"}
           \/ StopStream(p)
           \/ abandoned'
<1> USE DEF Goto, BenchTypeOK, Setup, Capture, Finish
<1>1. CASE OpenDev(p) \/ SetNumEq(p) \/ SetNumEqReturns(p) \/ CloseDev(p)
  BY <1>1 DEF OpenDev, SetNumEq, SetNumEqReturns, CloseDev
<1>2. CASE MapRing(p) \/ MapFails(p) \/ OutputFails(p)
  BY <1>2 DEF MapRing, MapFails, OutputFails
<1>3. CASE PollDev(p) \/ PollFails(p)
  <2>1. /\ at[p] = "poll"
        /\ at'[p] \in {"poll", "read_index", "elapsed", "stop"}
    BY <1>3 DEF PollDev, PollReturns, PollFails
  <2> QED BY <2>1
<1>4. CASE ReadIndex(p) \/ ReadTsf(p) \/ CopySlot(p) \/ ReadAll(p)
  BY <1>4 DEF ReadIndex, ReadTsf, CopySlot, ReadAll
<1>5. CASE KeepPolling(p) \/ DurationOver(p)
  BY <1>5 DEF KeepPolling, DurationOver
<1>6. CASE StartStream(p)
  BY <1>6 DEF StartStream
<1>7. CASE StopStream(p) \/ Kill(p)
  BY <1>7 DEF StopStream, Kill
<1> QED BY <1>1, <1>2, <1>3, <1>4, <1>5, <1>6, <1>7 DEF Run

(* The kthread has looked at running, and the frame of this transfer has   *)
(* not begun to come.                                                      *)
Coming ==
  \/ pc \in {"transfer", "armed"}
  \/ pc = "waiting" /\ cmp = 0 /\ ~writing

(* The stream is on by the will of a capture, or was left on; while it is  *)
(* off, the frame that is coming is the last one.                          *)
OnByCapture ==
  running => abandoned \/ \E p \in Files : at[p] \in Capture \union {"stop"}

OneLateFrame == ~running => late + (IF Coming THEN 1 ELSE 0) <= 1

DemandInv == OneTransfer /\ OnByCapture /\ OneLateFrame

LEMMA OnByCaptureStep ==
  ASSUME BenchTypeInv, OnByCapture, [BenchNext]_allVars
  PROVE  OnByCapture'
<1>1. BenchTypeOK
  BY DEF BenchTypeInv
<1>2. ASSUME NEW p \in Files, StartStream(p)  PROVE OnByCapture'
  <2>1. at'[p] = "poll"
    BY <1>1, <1>2 DEF StartStream, Goto, BenchTypeOK
  <2> QED BY <2>1 DEF OnByCapture, Capture
<1>3. ASSUME NEW p \in Files, StopStream(p)  PROVE OnByCapture'
  BY <1>3 DEF StopStream, Stop, SetRunning, OnByCapture
<1>4. ASSUME UNCHANGED running, abandoned => abandoned',
             \A p \in Files : ~StartStream(p) /\ ~StopStream(p)
      PROVE  OnByCapture'
  <2> SUFFICES ASSUME NEW p \in Files, at[p] \in Capture \union {"stop"}
               PROVE  at'[p] \in Capture \union {"stop"} \/ abandoned'
    BY <1>4 DEF OnByCapture
  <2>1. ASSUME NEW q \in Files, OpenDev(q) \/ Run(q) \/ Kill(q)
        PROVE  at'[p] \in Capture \union {"stop"} \/ abandoned'
    <3>1. CASE q = p
      BY <1>1, <1>4, <2>1, <3>1, CaptureSteps
    <3>2. CASE q # p
      BY <1>1, <2>1, <3>2, OthersStand DEF View
    <3> QED BY <3>1, <3>2
  <2>2. CASE DriverStep \/ FrameArrives \/ UNCHANGED allVars
    BY <2>2, DriverLeavesBenches DEF benchVars
  <2> QED BY <2>1, <2>2 DEF BenchNext
<1> QED BY <1>2, <1>3, <1>4, SwitchSteps

(* A process publishes nothing, and leaves kthread and hardware alone.     *)
LEMMA BenchLeavesStream ==
  ASSUME TypeInv, NEW p \in Files, OpenDev(p) \/ Run(p) \/ Kill(p)
  PROVE  /\ UNCHANGED <<thrVars, hwVars, rmVars>>
         /\ meta'.frame_seq = meta.frame_seq
         /\ meta'.producer_idx = meta.producer_idx
BY RunIsFileOp, FileOpLeavesEngine, FileOpLeavesCounts DEF vars

(* With the stream off the kthread begins no transfer.                     *)
LEMMA NothingNewComes ==
  ASSUME TypeInv, ~running, OneTransfer, ~Coming, [BenchNext]_allVars
  PROVE  ~Coming'
<1>1. cmp \in Nat
  BY DEF TypeInv, TypeOK
<1> USE DEF Coming, idxVars, plVars, hwVars
<1>2. CASE DriverStep
  <2>1. CASE Kthread
    BY <1>1, <2>1 DEF Kthread, LoopHead, TransferArm, PrepFails, SubmitFails,
      TransferTrigger, WaitDone, WaitTimeout, Advance, Publish, WakePollers,
      ThreadExit
  <2>2. CASE DmaEnd
    BY <1>1, <2>2 DEF DmaEnd
  <2>3. CASE RemoveBegin \/ RemoveEnd
    BY <2>3 DEF RemoveBegin, RemoveEnd, thrVars
  <2> QED BY <1>2, <2>1, <2>2, <2>3 DEF DriverStep
<1>3. CASE FrameArrives
  BY <1>3 DEF FrameArrives, DmaBegin, thrVars
<1>4. ASSUME NEW p \in Files, OpenDev(p) \/ Run(p) \/ Kill(p)
      PROVE  ~Coming'
  BY <1>4, BenchLeavesStream DEF thrVars
<1>5. CASE UNCHANGED allVars
  BY <1>5 DEF allVars, vars, thrVars
<1> QED BY <1>2, <1>3, <1>4, <1>5 DEF BenchNext

LEMMA OneLateFrameStep ==
  ASSUME TypeInv, BenchTypeInv, OneTransfer, OneLateFrame, [BenchNext]_allVars
  PROVE  OneLateFrame'
<1>1. late \in Nat
  BY DEF BenchTypeInv, BenchTypeOK
<1>2. ASSUME NEW p \in Files, StartStream(p) \/ StopStream(p)
      PROVE  OneLateFrame'
  <2>1. late' = 0
    BY <1>2 DEF StartStream, StopStream
  <2> QED BY <2>1 DEF OneLateFrame
<1>3. CASE FrameArrives
  <2>1. UNCHANGED running
    BY <1>3 DEF FrameArrives, DmaBegin, cfgVars
  <2>2. Coming /\ ~Coming'
    BY <1>3 DEF FrameArrives, DmaBegin, OneTransfer, Coming, thrVars
  <2>3. ~running => late' = late + 1
    BY <1>3 DEF FrameArrives
  <2> QED BY <1>1, <2>1, <2>2, <2>3 DEF OneLateFrame
<1>4. CASE UNCHANGED <<running, late>>
  BY <1>1, <1>4, NothingNewComes DEF OneLateFrame
<1> QED BY <1>2, <1>3, <1>4, SwitchSteps

(* The hardware streams on demand: once the last capture has stopped the   *)
(* stream, or was killed and a later one has stopped it, at most one more  *)
(* frame comes, of the transfer that STOP found under way.  However many   *)
(* captures start, stop and are killed under each other.                   *)
THEOREM StreamingIsOnDemand ==
  ASSUME ~MayTimeout  PROVE BenchSpec => []StreamsOnDemand
<1>1. BenchInit => DemandInv
  BY DEF BenchInit, Init, DemandInv, OneTransfer, OnByCapture, OneLateFrame,
    Coming
<1>2. TypeInv /\ BenchTypeInv /\ DemandInv /\ [BenchNext]_allVars => DemandInv'
  BY BenchStepIsDriverStep, ControlStep, OnByCaptureStep, OneLateFrameStep
     DEF DemandInv
<1>3. BenchTypeInv /\ DemandInv => StreamsOnDemand
  BY DEF BenchTypeInv, BenchTypeOK, DemandInv, OnByCapture, OneLateFrame,
    StreamsOnDemand
<1> QED BY BenchTypeInit, BenchTypeStep, <1>1, <1>2, <1>3, PTL DEF BenchSpec

-----------------------------------------------------------------------------
(* Reading.                                                                *)

(* A process that follows the index of the header.                         *)
Following == Capture \union {"start"}

(* The frames, counted from the loading of the driver, that p has read to  *)
(* the end; the frame being forwarded is counted already.                  *)
Done(p) == first[p] + total[p] - (IF at[p] = "copy_slot" THEN 1 ELSE 0)

(* The wrapped indices p compares are those of the frames it counts: last  *)
(* is where its loop began, prod a number of frames later that were        *)
(* published.                                                              *)
IndicesAreCounts(p) ==
  at[p] \in Following =>
    /\ offset[p] <= Done(p) - first[p]
    /\ last[p] = (Done(p) - offset[p]) % U32
    /\ at[p] = "start" => total[p] = 0
    /\ IF at[p] \in {"read_slots", "copy_slot"}
       THEN LET new == IdxDiff(prod[p], last[p])
            IN  /\ offset[p] <= new
                /\ Done(p) - offset[p] + new <= meta.frame_seq
                /\ prod[p] = (Done(p) - offset[p] + new) % U32
       ELSE offset[p] = 0 /\ Done(p) <= meta.frame_seq

(* A step of the driver publishes nothing or one frame.                    *)
LEMMA DriverPublishes ==
  ASSUME TypeInv, IndexIsCount, DriverStep \/ FrameArrives \/ UNCHANGED allVars
  PROVE  \/ pc = "publish" /\ meta'.frame_seq = meta.frame_seq + 1
         \/ meta'.frame_seq = meta.frame_seq
<1>1. CASE Publish
  <2>1. meta \in [producer_idx : 0 .. U32 - 1, frame_seq : Nat,
                  dma_err_count : 0 .. U32 - 1, num_eq : Nat]
    BY DEF TypeInv, TypeOK
  <2> QED BY <1>1, <2>1 DEF Publish, IndexIsCount
<1>2. CASE DriverStep /\ ~Publish
  BY <1>2 DEF DriverStep, Kthread, LoopHead, TransferArm, PrepFails, SubmitFails,
    TransferTrigger, WaitDone, WaitTimeout, Advance, WakePollers,
    ThreadExit, DmaEnd, RemoveBegin, RemoveEnd
<1>3. CASE FrameArrives \/ UNCHANGED allVars
  BY <1>3 DEF FrameArrives, DmaBegin, allVars, vars
<1> QED BY <1>1, <1>2, <1>3

(* What a step of the process does to its own place in the stream.         *)
LEMMA OwnCount ==
  ASSUME TypeInv, BenchTypeInv, IndexIsCount, NEW p \in Files,
         OpenDev(p) \/ Run(p) \/ Kill(p), IndicesAreCounts(p)
  PROVE  IndicesAreCounts(p)'
<1>1. /\ at \in [Files -> {"idle"} \union Setup \union Capture \union Finish]
      /\ last \in [Files -> 0 .. U32 - 1] /\ prod \in [Files -> 0 .. U32 - 1]
      /\ offset \in [Files -> 0 .. U32 - 1] /\ total \in [Files -> Nat]
      /\ prev_tsf \in [Files -> Nat] /\ copied \in [Files -> Nat]
      /\ first \in [Files -> Nat]
  BY DEF BenchTypeInv, BenchTypeOK
<1>2. /\ meta'.frame_seq = meta.frame_seq /\ meta.frame_seq \in Nat
      /\ meta.producer_idx = meta.frame_seq % U32
  BY BenchLeavesStream DEF IndexIsCount, TypeInv, TypeOK
<1>3. U32 \in Nat \ {0} /\ IdxDiff(prod[p], last[p]) \in Nat
  BY <1>1, RingAssumption DEF IdxDiff
<1> USE DEF readVars, Goto
<1>4. CASE MapRing(p)
  BY <1>1, <1>2, <1>4 DEF MapRing, IndicesAreCounts, Done, Following
<1>5. CASE StartStream(p)
  BY <1>1, <1>2, <1>5 DEF StartStream, IndicesAreCounts, Done, Following
<1>6. CASE PollDev(p)
  <2>1. /\ at[p] = "poll" /\ at'[p] \in {"poll", "read_index", "elapsed"}
        /\ UNCHANGED readVars
    BY <1>1, <1>6 DEF PollDev, PollReturns
  <2> QED BY <1>2, <2>1 DEF IndicesAreCounts, Done, Following, Capture
<1>7. CASE ReadIndex(p)
  <2>1. /\ at[p] = "read_index" /\ UNCHANGED <<last, total, first>>
        /\ prod'[p] = meta.producer_idx /\ offset'[p] = 0
        /\ at'[p] = IF meta.producer_idx # last[p] THEN "read_slots" ELSE "elapsed"
    BY <1>1, <1>7 DEF ReadIndex
  <2>2. /\ offset[p] = 0 /\ Done(p) <= meta.frame_seq /\ Done(p) >= first[p]
        /\ last[p] = Done(p) % U32 /\ Done(p) \in Nat /\ Done(p)' = Done(p)
    BY <1>1, <2>1 DEF IndicesAreCounts, Done, Following, Capture
  <2>3. LET new == IdxDiff(meta.producer_idx, last[p])
        IN  /\ 0 <= new /\ Done(p) + new <= meta.frame_seq
            /\ meta.producer_idx = (Done(p) + new) % U32
    <3> DEFINE d == IdxDiff(meta.frame_seq % U32, Done(p) % U32)
    <3>1. /\ d \in 0 .. U32 - 1 /\ d <= meta.frame_seq - Done(p)
          /\ (Done(p) + d) % U32 = meta.frame_seq % U32
      BY <1>2, <2>2, IdxDiffOfFrames
    <3>2. d = IdxDiff(meta.producer_idx, last[p])
      BY <1>2, <2>2
    <3> HIDE DEF d
    <3> QED BY <1>2, <1>3, <2>2, <3>1, <3>2
  <2> QED BY <1>1, <1>2, <2>1, <2>2, <2>3 DEF IndicesAreCounts
<1>8. CASE ReadTsf(p)
  <2>1. /\ at[p] = "read_slots" /\ at'[p] = "copy_slot"
        /\ total'[p] = total[p] + 1 /\ UNCHANGED <<last, prod, offset, first>>
        /\ offset[p] < IdxDiff(prod[p], last[p])
    BY <1>1, <1>8 DEF ReadTsf
  <2>2. Done(p)' = Done(p)
    BY <1>1, <2>1 DEF Done
  <2> QED BY <1>1, <1>2, <1>3, <2>1, <2>2 DEF IndicesAreCounts, Following, Capture
<1>9. CASE CopySlot(p)
  <2>1. /\ at[p] = "copy_slot" /\ at'[p] = "read_slots"
        /\ offset'[p] = offset[p] + 1 /\ UNCHANGED <<last, prod, total, first>>
        /\ offset[p] < IdxDiff(prod[p], last[p])
    BY <1>1, <1>9 DEF CopySlot, BenchTypeInv, CopiesNewFrame
  <2>2. /\ Done(p)' = Done(p) + 1 /\ Done(p) \in Int
        /\ (Done(p) + 1) - (offset[p] + 1) = Done(p) - offset[p]
        /\ offset[p] + 1 <= IdxDiff(prod[p], last[p])
        /\ offset[p] <= Done(p) - first[p] =>
             offset[p] + 1 <= (Done(p) + 1) - first[p]
    BY <1>1, <1>3, <2>1 DEF Done
  <2> QED BY <1>2, <2>1, <2>2 DEF IndicesAreCounts, Following, Capture
<1>10. CASE ReadAll(p)
  <2>1. /\ at[p] = "read_slots" /\ at'[p] = "elapsed"
        /\ last'[p] = prod[p] /\ offset'[p] = 0
        /\ UNCHANGED <<prod, total, first>>
        /\ offset[p] = IdxDiff(prod[p], last[p])
    <3>1. offset[p] <= IdxDiff(prod[p], last[p]) /\ offset[p] \in Nat
      BY <1>1, <1>3, <1>10 DEF ReadAll, IndicesAreCounts, Following, Capture
    <3> QED BY <1>1, <1>3, <1>10, <3>1 DEF ReadAll
  <2>2. /\ Done(p)' = Done(p) /\ Done(p) \in Int
        /\ (Done(p) - offset[p]) + offset[p] = Done(p) /\ Done(p) - 0 = Done(p)
        /\ offset[p] <= Done(p) - first[p] => 0 <= Done(p) - first[p]
    BY <1>1, <2>1 DEF Done
  <2> QED BY <1>2, <2>1, <2>2 DEF IndicesAreCounts, Following, Capture
<1>11. CASE KeepPolling(p)
  BY <1>1, <1>2, <1>11 DEF KeepPolling, IndicesAreCounts, Done, Following, Capture
<1>12. CASE \/ OpenDev(p) \/ SetNumEq(p) \/ SetNumEqReturns(p) \/ MapFails(p)
            \/ OutputFails(p) \/ PollFails(p) \/ DurationOver(p)
            \/ StopStream(p) \/ CloseDev(p) \/ Kill(p)
  <2>1. at'[p] \in {"set_num_eq", "setting", "map", "close", "stop", "idle"}
    BY <1>1, <1>12 DEF OpenDev, SetNumEq, SetNumEqReturns, MapFails,
      OutputFails, PollFails, DurationOver, StopStream, CloseDev, Kill
  <2> QED BY <2>1 DEF IndicesAreCounts, Following, Capture
<1> QED
  BY <1>4, <1>5, <1>6, <1>7, <1>8, <1>9, <1>10, <1>11, <1>12 DEF Run

CountInv == IndexIsCount /\ \A p \in Files : IndicesAreCounts(p)

LEMMA CountInit == BenchInit => CountInv
BY IndexInit DEF BenchInit, CountInv, IndicesAreCounts, Following, Capture

LEMMA CountInvStep ==
  TypeInv /\ BenchTypeInv /\ CountInv /\ [BenchNext]_allVars => CountInv'
<1> SUFFICES ASSUME TypeInv, BenchTypeInv, CountInv, [BenchNext]_allVars,
                    NEW p \in Files
             PROVE  IndicesAreCounts(p)'
  BY IndexStep, BenchStepIsDriverStep DEF CountInv
<1>1. IndexIsCount /\ IndicesAreCounts(p)
  BY DEF CountInv
<1>2. ASSUME NEW q \in Files, OpenDev(q) \/ Run(q) \/ Kill(q)
      PROVE  IndicesAreCounts(p)'
  <2>1. CASE q = p
    BY <1>1, <1>2, <2>1, OwnCount
  <2>2. CASE q # p
    <3>1. UNCHANGED View(p)
      BY <1>2, <2>2, OthersStand DEF BenchTypeInv
    <3>2. meta'.frame_seq = meta.frame_seq
      BY <1>2, BenchLeavesStream
    <3> QED BY <1>1, <3>1, <3>2 DEF View, IndicesAreCounts, Done
  <2> QED BY <2>1, <2>2
<1>3. CASE DriverStep \/ FrameArrives \/ UNCHANGED allVars
  <2>1. UNCHANGED <<at, last, prod, offset, total, first>>
    BY <1>3, DriverLeavesBenches DEF benchVars, readVars
  <2>2. meta.frame_seq \in Nat /\ meta'.frame_seq \in Nat
        /\ meta'.frame_seq >= meta.frame_seq
    BY <1>1, <1>3, DriverPublishes DEF TypeInv, TypeOK
  <2>3. /\ Done(p) \in Int /\ offset[p] \in Nat
        /\ IdxDiff(prod[p], last[p]) \in Nat
    <3>1. BenchTypeOK
      BY DEF BenchTypeInv
    <3>2. /\ offset[p] \in 0 .. U32 - 1 /\ prod[p] \in 0 .. U32 - 1
          /\ last[p] \in 0 .. U32 - 1
      BY <3>1 DEF BenchTypeOK
    <3>3. U32 \in Nat /\ U32 > 0
      BY RingAssumption
    <3>4. /\ offset[p] \in Nat /\ prod[p] \in Int /\ last[p] \in Int
      BY <3>2, <3>3
    <3>5. first[p] \in Nat /\ total[p] \in Nat
      BY <3>1 DEF BenchTypeOK
    <3>6. Done(p) \in Int
      BY <3>5 DEF Done
    <3>7. IdxDiff(prod[p], last[p]) \in Nat
      BY <3>3, <3>4 DEF IdxDiff
    <3> QED BY <3>4, <3>6, <3>7
  <2>4. Done(p)' = Done(p)
    BY <2>1 DEF Done
  <2> QED BY <1>1, <2>1, <2>2, <2>3, <2>4 DEF IndicesAreCounts
<1> QED BY <1>2, <1>3 DEF BenchNext

(* The frame p reads next is still in the ring, until the engine begins to *)
(* write over it.                                                          *)
NotLapped(p) == at[p] \in Following => tsf - Done(p) <= NumSlots

(* What p took and forwarded are the frames it counted.                    *)
ReadsInOrder(p) ==
  at[p] \in Following =>
    /\ prev_tsf[p] = IF total[p] = 0 THEN 0 ELSE first[p] + total[p]
    /\ at[p] # "copy_slot" => copied[p] = prev_tsf[p]
(* How a process that follows the index got there.                         *)
LEMMA OwnProgress ==
  ASSUME BenchTypeOK, NEW p \in Files, OpenDev(p) \/ Run(p) \/ Kill(p),
         at'[p] \in Following
  PROVE  \/ MapRing(p) \/ ReadTsf(p) \/ CopySlot(p)
         \/ /\ at[p] \in Following \ {"copy_slot"}
            /\ at'[p] \in Capture \ {"copy_slot"}
            /\ at[p] = "start" => at'[p] = "poll"
            /\ total'[p] = total[p] /\ first'[p] = first[p]
            /\ prev_tsf'[p] = prev_tsf[p] /\ copied'[p] = copied[p]
<1> USE DEF BenchTypeOK, Following, Capture, Goto, readVars
<1>1. CASE PollDev(p)
  <2>1. /\ at[p] = "poll" /\ at'[p] \in {"poll", "read_index", "elapsed"}
        /\ UNCHANGED readVars
    BY <1>1 DEF PollDev, PollReturns
  <2> QED BY <2>1
<1>2. CASE ReadIndex(p) \/ ReadAll(p)
  BY <1>2 DEF ReadIndex, ReadAll
<1>3. CASE StartStream(p) \/ KeepPolling(p)
  BY <1>3 DEF StartStream, KeepPolling
<1>4. CASE \/ OpenDev(p) \/ SetNumEq(p) \/ SetNumEqReturns(p) \/ MapFails(p)
           \/ OutputFails(p) \/ PollFails(p) \/ DurationOver(p)
           \/ StopStream(p) \/ CloseDev(p) \/ Kill(p)
  BY <1>4 DEF OpenDev, SetNumEq, SetNumEqReturns, MapFails, OutputFails,
    PollFails, DurationOver, StopStream, CloseDev, Kill
<1> QED BY <1>1, <1>2, <1>3, <1>4 DEF Run

(* What p reads next has the index of the frame after those it has done.   *)
LEMMA NextReadIsDone ==
  ASSUME BenchTypeOK, NEW p \in Files, at[p] \in Following, IndicesAreCounts(p)
  PROVE  /\ Done(p) \in Nat
         /\ NextRead(p) = Done(p) % U32
<1> DEFINE base == Done(p) - offset[p]
<1>1. /\ first[p] \in Nat /\ total[p] \in Nat /\ offset[p] \in Nat
      /\ offset[p] <= Done(p) - first[p] /\ last[p] = base % U32
  BY RingAssumption DEF BenchTypeOK, IndicesAreCounts
<1>2. base \in Nat /\ base + offset[p] = Done(p) /\ Done(p) \in Nat
  BY <1>1 DEF Done
<1>3. ((base % U32) + offset[p]) % U32 = (base + offset[p]) % U32
  BY <1>1, <1>2, FrameOfIdxSum
<1> QED BY <1>1, <1>2, <1>3 DEF NextRead

(* No frame is done before it is published; the header is at most the frame*)
(* under way behind the engine.                                            *)
LEMMA DoneIsPublished ==
  ASSUME TypeInv, BenchTypeOK, CountInv, NEW p \in Files, at[p] \in Following
  PROVE  /\ Done(p) \in Nat /\ Done(p) <= meta.frame_seq
         /\ at[p] \in {"read_slots", "copy_slot"} /\ offset[p] < IdxDiff(prod[p], last[p])
              => Done(p) < meta.frame_seq
<1>1. IndicesAreCounts(p)
  BY DEF CountInv
<1>2. Done(p) \in Nat /\ offset[p] \in Nat /\ meta.frame_seq \in Nat
  <2>1. Done(p) \in Nat
    BY <1>1, NextReadIsDone
  <2>2. offset[p] \in Nat
    BY RingAssumption DEF BenchTypeOK
  <2>3. meta.frame_seq \in Nat
    BY DEF TypeInv, TypeOK
  <2> QED BY <2>1, <2>2, <2>3
<1>3. IdxDiff(prod[p], last[p]) \in Nat
  BY RingAssumption DEF BenchTypeOK, IdxDiff
<1> QED BY <1>1, <1>2, <1>3 DEF IndicesAreCounts

LEMMA HeaderIsClose ==
  ASSUME TypeInv, IndexIsCount, OneTransfer, StreamCount
  PROVE  /\ meta.frame_seq \in Nat /\ frame_seq \in Nat /\ tsf \in Nat
         /\ meta.frame_seq <= frame_seq /\ frame_seq <= tsf
         /\ tsf <= meta.frame_seq + 1
<1>1. meta.frame_seq \in Nat /\ frame_seq \in Nat /\ tsf \in Nat
  BY DEF TypeInv, TypeOK
<1>2. pc = "publish" => ~Unpublished
  BY DEF OneTransfer, Unpublished
<1> QED BY <1>1, <1>2 DEF IndexIsCount, StreamCount

(* A slot that is read while its frame is in the ring holds that frame.    *)
LEMMA ReadsItsFrame ==
  ASSUME TypeInv, BenchTypeInv, CountInv, OneTransfer, StreamCount,
         RingHoldsLap, NEW p \in Files, NotLapped(p),
         at[p] \in {"read_slots", "copy_slot"},
         offset[p] < IdxDiff(prod[p], last[p])
  PROVE  SlotRead(p).head = Done(p) + 1 /\ SlotRead(p).tail = Done(p) + 1
<1>1. at[p] \in Following /\ BenchTypeOK
  BY DEF Following, Capture, BenchTypeInv
<1>2. Done(p) \in Nat /\ NextRead(p) = Done(p) % U32
  BY <1>1, NextReadIsDone DEF CountInv
<1>3. Done(p) < meta.frame_seq
  BY <1>1, DoneIsPublished
<1>4. Done(p) \in 0 .. frame_seq - 1
  BY <1>2, <1>3, HeaderIsClose DEF CountInv
<1>5. tsf - Done(p) <= NumSlots
  BY <1>1 DEF NotLapped
<1> QED BY <1>2, <1>4, <1>5 DEF RingHoldsLap, SlotRead

(* A frame arrives only while the backlog of a capture leaves it room.     *)
LEMMA ArrivesInWindow ==
  ASSUME MaxBacklog < NumSlots, TypeInv, BenchTypeInv, CountInv, OneTransfer,
         StreamCount, NEW p \in Files, NotLapped(p), FrameArrives
  PROVE  NotLapped(p)'
<1> SUFFICES ASSUME at[p] \in Following  PROVE tsf' - Done(p) <= NumSlots
  BY DriverLeavesBenches DEF NotLapped, Done, benchVars, readVars
<1>1. BenchTypeOK /\ IndicesAreCounts(p)
  BY DEF BenchTypeInv, CountInv
<1>2. Done(p) \in Nat /\ NextRead(p) = Done(p) % U32 /\ Done(p) <= meta.frame_seq
  BY <1>1, NextReadIsDone, DoneIsPublished
<1>3. /\ frame_seq \in Nat /\ tsf \in Nat /\ meta.frame_seq \in Nat
      /\ meta.frame_seq <= frame_seq /\ frame_seq <= tsf
  BY HeaderIsClose DEF CountInv
<1>4. tsf' = frame_seq + 1
  <2>1. ~Unpublished
    BY DEF FrameArrives, DmaBegin, OneTransfer, Unpublished
  <2> QED BY <1>3, <2>1 DEF FrameArrives, DmaBegin, StreamCount
<1>5. frame_seq - Done(p) < U32
  <2>1. tsf - Done(p) <= NumSlots
    BY DEF NotLapped
  <2> QED BY <1>2, <1>3, <2>1, RingAssumption
<1>6. IdxDiff(frame_seq % U32, Done(p) % U32) = frame_seq - Done(p)
  <2>1. Done(p) \in Nat /\ frame_seq \in Nat /\ Done(p) <= frame_seq
    BY <1>2, <1>3
  <2> QED BY <1>5, <2>1, IdxDiffOfFrames
<1>7. Backlog(p) = frame_seq - Done(p)
  BY <1>2, <1>6 DEF Backlog, StreamCount
<1>8. p \in files
  BY <1>1 DEF BenchTypeOK, Following, Capture
<1>9. Backlog(p) <= MaxBacklog
  BY <1>8 DEF FrameArrives, Following
<1> QED
  BY <1>2, <1>3, <1>4, <1>7, <1>9, RingAssumption, BenchAssumption

StreamInv ==
  /\ SteadyInv
  /\ RingHoldsLap
  /\ \A p \in Files : NotLapped(p) /\ ReadsInOrder(p)

LEMMA StreamInvInit == FramesFit /\ BenchInit => StreamInv
BY SteadyInit, RingInit
   DEF BenchInit, StreamInv, NotLapped, ReadsInOrder, Following, Capture

(* The step of a process leaves its own reading in order.                  *)
LEMMA OwnReading ==
  ASSUME TypeInv, BenchTypeInv, CountInv, StreamInv, NEW p \in Files,
         OpenDev(p) \/ Run(p) \/ Kill(p), at'[p] \in Following
  PROVE  NotLapped(p)' /\ ReadsInOrder(p)'
<1>1. /\ BenchTypeOK /\ IndexIsCount /\ OneTransfer /\ StreamCount
      /\ RingHoldsLap /\ NotLapped(p) /\ ReadsInOrder(p) /\ IndicesAreCounts(p)
  BY DEF BenchTypeInv, CountInv, StreamInv, SteadyInv, PipeInv
<1>2. /\ at \in [Files -> {"idle"} \union Setup \union Capture \union Finish]
      /\ total \in [Files -> Nat] /\ first \in [Files -> Nat]
      /\ prev_tsf \in [Files -> Nat] /\ copied \in [Files -> Nat]
  BY <1>1 DEF BenchTypeOK
<1>3. UNCHANGED <<tsf, slots>> /\ tsf \in Nat /\ NumSlots \in Nat \ {0}
  BY BenchLeavesStream, RingAssumption DEF hwVars, TypeInv, TypeOK
<1> USE DEF readVars, Goto
<1>4. CASE MapRing(p)
  <2>1. /\ at'[p] = "start" /\ total'[p] = 0 /\ first'[p] = meta.frame_seq
        /\ prev_tsf'[p] = 0 /\ copied'[p] = 0
    BY <1>2, <1>4 DEF MapRing
  <2>2. tsf - meta.frame_seq <= NumSlots /\ Done(p)' = meta.frame_seq
    BY <1>1, <1>3, <2>1, HeaderIsClose DEF Done
  <2> QED BY <1>3, <2>1, <2>2 DEF NotLapped, ReadsInOrder
<1>5. CASE ReadTsf(p)
  <2>1. /\ at[p] = "read_slots" /\ at'[p] = "copy_slot"
        /\ offset[p] < IdxDiff(prod[p], last[p])
        /\ total'[p] = total[p] + 1 /\ first'[p] = first[p]
        /\ prev_tsf'[p] = SlotRead(p).head /\ copied'[p] = copied[p]
    BY <1>2, <1>5 DEF ReadTsf
  <2>2. Done(p) = first[p] + total[p] /\ Done(p)' = Done(p)
    BY <1>2, <2>1 DEF Done
  <2>3. SlotRead(p).head = Done(p) + 1
    BY <1>1, <2>1, ReadsItsFrame
  <2>4. at[p] \in Following
    BY <2>1 DEF Following, Capture
  <2> QED BY <1>1, <1>2, <1>3, <2>1, <2>2, <2>3, <2>4 DEF NotLapped, ReadsInOrder
<1>6. CASE CopySlot(p)
  <2>1. /\ at[p] = "copy_slot" /\ at'[p] = "read_slots"
        /\ offset[p] < IdxDiff(prod[p], last[p])
        /\ total'[p] = total[p] /\ first'[p] = first[p]
        /\ prev_tsf'[p] = prev_tsf[p] /\ copied'[p] = SlotRead(p).tail
    BY <1>2, <1>6 DEF CopySlot, BenchTypeInv, CopiesNewFrame
  <2>2. at[p] \in Following
    BY <2>1 DEF Following, Capture
  <2>3. /\ Done(p) = first[p] + total[p] - 1 /\ Done(p)' = first[p] + total[p]
        /\ Done(p) \in Nat /\ total[p] > 0
    BY <1>1, <1>2, <2>1, <2>2, NextReadIsDone, RingAssumption
    DEF Done, IndicesAreCounts, BenchTypeOK
  <2>4. SlotRead(p).tail = Done(p) + 1
    BY <1>1, <2>1, ReadsItsFrame
  <2> QED BY <1>1, <1>2, <1>3, <2>1, <2>2, <2>3, <2>4 DEF NotLapped, ReadsInOrder
<1>7. CASE /\ at[p] \in Following \ {"copy_slot"}
           /\ at'[p] \in Capture \ {"copy_slot"}
           /\ total'[p] = total[p] /\ first'[p] = first[p]
           /\ prev_tsf'[p] = prev_tsf[p] /\ copied'[p] = copied[p]
  BY <1>1, <1>3, <1>7 DEF NotLapped, ReadsInOrder, Done
<1> QED BY <1>1, <1>4, <1>5, <1>6, <1>7, OwnProgress

LEMMA StreamInvStep ==
  ASSUME ~MayTimeout, FramesFit, MaxBacklog < NumSlots
  PROVE  TypeInv /\ BenchTypeInv /\ CountInv /\ StreamInv /\ [BenchNext]_allVars
           => StreamInv'
<1> SUFFICES ASSUME TypeInv, BenchTypeInv, CountInv, StreamInv,
                    [BenchNext]_allVars
             PROVE  StreamInv'
  OBVIOUS
<1>1. /\ BenchTypeOK /\ IndexIsCount /\ OneTransfer /\ StreamCount
      /\ SteadyInv /\ RingHoldsLap
  BY DEF BenchTypeInv, CountInv, StreamInv, SteadyInv, PipeInv
<1>2. SteadyInv' /\ RingHoldsLap'
  BY <1>1, BenchStepIsDriverStep, SteadyStep, LapStep
<1> SUFFICES ASSUME NEW p \in Files  PROVE NotLapped(p)' /\ ReadsInOrder(p)'
  BY <1>2 DEF StreamInv
<1>3. NotLapped(p) /\ ReadsInOrder(p)
  BY DEF StreamInv
<1>4. ASSUME NEW q \in Files, OpenDev(q) \/ Run(q) \/ Kill(q)
      PROVE  NotLapped(p)' /\ ReadsInOrder(p)'
  <2>1. CASE q = p /\ at'[p] \in Following
    BY <1>4, <2>1, OwnReading
  <2>2. CASE at'[p] \notin Following
    BY <2>2 DEF NotLapped, ReadsInOrder
  <2>3. CASE q # p
    <3>1. UNCHANGED View(p) /\ UNCHANGED tsf
      BY <1>1, <1>4, <2>3, OthersStand, BenchLeavesStream DEF hwVars
    <3> QED BY <1>3, <3>1 DEF View, NotLapped, ReadsInOrder, Done
  <2> QED BY <2>1, <2>2, <2>3
<1>5. CASE FrameArrives
  <2>1. ReadsInOrder(p)'
    BY <1>3, <1>5, DriverLeavesBenches DEF ReadsInOrder, benchVars, readVars
  <2> QED BY <1>1, <1>3, <1>5, <2>1, ArrivesInWindow
<1>6. CASE DriverStep \/ UNCHANGED allVars
  <2>1. UNCHANGED tsf
    BY <1>6 DEF DriverStep, Kthread, LoopHead, TransferArm, PrepFails,
      SubmitFails, TransferTrigger, WaitDone, WaitTimeout, Advance, Publish, WakePollers,
      ThreadExit, DmaEnd, RemoveBegin, RemoveEnd, hwVars, plVars, allVars, vars
  <2>2. UNCHANGED benchVars
    BY <1>6, DriverLeavesBenches
  <2> QED BY <1>3, <2>1, <2>2
          DEF NotLapped, ReadsInOrder, Done, benchVars, readVars
<1> QED BY <1>4, <1>5, <1>6 DEF BenchNext

BenchInv == TypeInv /\ BenchTypeInv /\ CountInv /\ StreamInv

LEMMA BenchInvariant ==
  ASSUME ~MayTimeout, FramesFit, MaxBacklog < NumSlots
  PROVE  BenchSpec => []BenchInv
<1>1. BenchInit => BenchInv
  BY BenchTypeInit, CountInit, StreamInvInit DEF BenchInv
<1>2. BenchInv /\ [BenchNext]_allVars => BenchInv'
  BY BenchTypeStep, CountInvStep, StreamInvStep DEF BenchInv
<1> QED BY <1>1, <1>2, PTL DEF BenchSpec

(* With no timeout, slots that hold a frame and captures less than NumSlots*)
(* frames behind, the nth frame any of them counts is the nth published    *)
(* since it read its first index: over every wrap of the indices, whatever *)
(* the processes do to each other and wherever they are killed.            *)
THEOREM StreamIsFollowed ==
  ASSUME ~MayTimeout, FramesFit, MaxBacklog < NumSlots
  PROVE  BenchSpec => []ReadsFollowTheStream
<1>1. BenchInv => ReadsFollowTheStream
  BY DEF BenchInv, StreamInv, ReadsInOrder, ReadsFollowTheStream, Following,
    BenchTypeInv, BenchTypeOK
<1> QED BY BenchInvariant, <1>1, PTL

(* Under the same assumptions what was forwarded and dumped of a slot is   *)
(* the frame whose TSF was counted: there are no dirty reads.              *)
THEOREM ReadsAreClean ==
  ASSUME ~MayTimeout, FramesFit, MaxBacklog < NumSlots
  PROVE  BenchSpec => []NoDirtyReads
<1>1. BenchInv => NoDirtyReads
  BY DEF BenchInv, StreamInv, ReadsInOrder, NoDirtyReads, Following
<1> QED BY BenchInvariant, <1>1, PTL

-----------------------------------------------------------------------------
(* The stream the captures see is the reliable one of CsiStream.           *)

(* A step of a process that reads nothing puts it into no stream, and, if  *)
(* it stays in one, leaves its place there.                                *)
LEMMA QuietOrLeaves ==
  ASSUME BenchTypeOK, NEW p \in Files, OpenDev(p) \/ Run(p) \/ Kill(p),
         ~MapRing(p), ~ReadTsf(p), ~CopySlot(p)
  PROVE  InStream(p)' =>
           /\ InStream(p)
           /\ UNCHANGED <<total, prev_tsf, copied, first>>
<1> USE DEF BenchTypeOK, InStream, Capture, Goto, readVars
<1>1. CASE PollDev(p)
  <2>1. at[p] = "poll" /\ UNCHANGED readVars
    BY <1>1 DEF PollDev, PollReturns
  <2> QED BY <2>1
<1>2. CASE ReadIndex(p) \/ ReadAll(p) \/ KeepPolling(p) \/ DurationOver(p)
  BY <1>2 DEF ReadIndex, ReadAll, KeepPolling, DurationOver
<1>3. CASE StartStream(p) \/ OutputFails(p) \/ StopStream(p)
  BY <1>3 DEF StartStream, OutputFails, StopStream
<1>4. CASE OpenDev(p) \/ SetNumEq(p) \/ SetNumEqReturns(p)
  BY <1>4 DEF OpenDev, SetNumEq, SetNumEqReturns
<1>5. CASE MapFails(p) \/ PollFails(p) \/ CloseDev(p) \/ Kill(p)
  BY <1>5 DEF MapFails, PollFails, CloseDev, Kill
<1> QED BY <1>1, <1>2, <1>3, <1>4, <1>5 DEF Run

LEMMA StreamRefinesInit == BenchInit => Stream!Init
BY DEF BenchInit, Init, Stream!Init, InStream, Capture

LEMMA StreamRefinesStep ==
  ASSUME BenchInv, [BenchNext]_allVars
  PROVE  [Stream!Next]_(Stream!streamVars)
<1> DEFINE published == meta.frame_seq
           active == {p \in Files : InStream(p)}
           pos == [p \in Files |-> IF ~InStream(p) THEN 0
                     ELSE IF total[p] = 0 THEN first[p] ELSE prev_tsf[p]]
           out == [p \in Files |-> IF ~InStream(p) THEN 0
                     ELSE IF copied[p] = 0 THEN first[p] ELSE copied[p]]
<1>1. /\ TypeInv /\ BenchTypeOK /\ IndexIsCount
      /\ \A p \in Files : ReadsInOrder(p) /\ IndicesAreCounts(p)
  BY DEF BenchInv, BenchTypeInv, CountInv, StreamInv
<1>2. /\ at \in [Files -> {"idle"} \union Setup \union Capture \union Finish]
      /\ total \in [Files -> Nat] /\ first \in [Files -> Nat]
      /\ prev_tsf \in [Files -> Nat] /\ copied \in [Files -> Nat]
  BY <1>1 DEF BenchTypeOK
<1>3. CASE UNCHANGED <<published, active, pos, out>>
  BY <1>3 DEF Stream!streamVars
<1>4. CASE DriverStep \/ FrameArrives \/ UNCHANGED allVars
  <2>1. published' = published + 1 \/ published' = published
    BY <1>1, <1>4, DriverPublishes
  <2>2. UNCHANGED <<active, pos, out>>
    BY <1>4, DriverLeavesBenches DEF benchVars, readVars, InStream
  <2>3. CASE published' = published + 1
    BY <2>2, <2>3 DEF Stream!Next, Stream!Publish
  <2> QED BY <1>3, <2>1, <2>2, <2>3
<1>5. ASSUME NEW p \in Files, OpenDev(p) \/ Run(p) \/ Kill(p)
      PROVE  [Stream!Next]_(Stream!streamVars)
  <2>1. published' = published
    BY <1>1, <1>5, BenchLeavesStream
  <2>2. \A q \in Files : q # p =>
          /\ at'[q] = at[q] /\ total'[q] = total[q] /\ first'[q] = first[q]
          /\ prev_tsf'[q] = prev_tsf[q] /\ copied'[q] = copied[q]
    BY <1>1, <1>5, OthersStand DEF View
  <2> USE DEF readVars, Goto
  <2>3. CASE MapRing(p)
    <3>1. /\ at[p] = "map" /\ at'[p] = "start" /\ first'[p] = published
          /\ total'[p] = 0 /\ copied'[p] = 0
      BY <1>2, <2>3 DEF MapRing
    <3>2. p \notin active /\ active' = active \union {p}
      BY <2>2, <3>1 DEF InStream, Capture
    <3>3. pos'[p] = published /\ out'[p] = published
      BY <3>1 DEF InStream
    <3>4. \A q \in Files : q # p => pos'[q] = pos[q] /\ out'[q] = out[q]
      BY <2>2 DEF InStream
    <3>5. pos' = [pos EXCEPT ![p] = published] /\ out' = [out EXCEPT ![p] = published]
      BY <3>3, <3>4, Zenon
    <3> QED BY <2>1, <3>2, <3>5 DEF Stream!Next, Stream!Begin
  <2>4. CASE ReadTsf(p)
    <3>1. /\ at[p] = "read_slots" /\ at'[p] = "copy_slot"
          /\ total'[p] = total[p] + 1 /\ first'[p] = first[p]
          /\ copied'[p] = copied[p] /\ offset[p] < IdxDiff(prod[p], last[p])
      BY <1>2, <2>4 DEF ReadTsf
    <3>2. at[p] \in Following /\ at'[p] \in Following
      BY <3>1 DEF Following, Capture
    <3>3. pos[p] = first[p] + total[p] /\ out[p] = pos[p]
      BY <1>1, <1>2, <3>1, <3>2 DEF ReadsInOrder, InStream, Capture
    <3>4. pos[p] < published
      <4>1. Done(p) = first[p] + total[p]
        BY <1>2, <3>1 DEF Done
      <4>2. Done(p) < meta.frame_seq
        BY <1>1, <3>1, <3>2, DoneIsPublished DEF BenchInv
      <4> QED BY <3>3, <4>1, <4>2
    <3>5. prev_tsf'[p] = first[p] + total[p] + 1
      BY <1>2, <1>5, <3>1, <3>2, OwnReading DEF ReadsInOrder, BenchInv
    <3>6. pos' = [pos EXCEPT ![p] = @ + 1] /\ UNCHANGED out
      <4>1. total'[p] # 0
        BY <1>2, <3>1
      <4>2. pos'[p] = pos[p] + 1
        BY <3>1, <3>3, <3>5, <4>1 DEF InStream, Capture
      <4>3. \A q \in Files : q # p => pos'[q] = pos[q]
        BY <2>2 DEF InStream
      <4>4. pos' = [pos EXCEPT ![p] = @ + 1]
        BY <4>2, <4>3, Zenon
      <4>5. UNCHANGED out
        BY <2>2, <3>1 DEF InStream, Capture
      <4> QED BY <4>4, <4>5
    <3>7. p \in active /\ UNCHANGED active
      BY <2>2, <3>1 DEF InStream, Capture
    <3> QED BY <2>1, <3>3, <3>4, <3>6, <3>7 DEF Stream!Next, Stream!Take
  <2>5. CASE CopySlot(p)
    <3>1. /\ at[p] = "copy_slot" /\ at'[p] = "read_slots"
          /\ total'[p] = total[p] /\ first'[p] = first[p]
          /\ prev_tsf'[p] = prev_tsf[p]
      BY <1>2, <2>5 DEF CopySlot
    <3>2. at[p] \in Following /\ at'[p] \in Following
      BY <3>1 DEF Following, Capture
    <3>3. total[p] > 0
      BY <1>1, <1>2, <3>1, <3>2, RingAssumption
         DEF IndicesAreCounts, Done, BenchTypeOK
    <3>4. prev_tsf[p] = first[p] + total[p]
      BY <1>1, <3>2, <3>3 DEF ReadsInOrder
    <3>5. copied'[p] = prev_tsf[p]
      BY <1>5, <3>1, <3>2, OwnReading DEF ReadsInOrder, BenchInv
    <3>6. out' = [out EXCEPT ![p] = pos[p]] /\ UNCHANGED pos
      <4>1. pos[p] = prev_tsf[p] /\ out'[p] = prev_tsf[p]
        BY <1>2, <3>1, <3>3, <3>4, <3>5 DEF InStream, Capture
      <4>2. \A q \in Files : q # p => out'[q] = out[q]
        BY <2>2 DEF InStream
      <4>3. out' = [out EXCEPT ![p] = pos[p]]
        BY <4>1, <4>2, Zenon
      <4>4. UNCHANGED pos
        BY <2>2, <3>1 DEF InStream, Capture
      <4> QED BY <4>3, <4>4
    <3>7. p \in active /\ UNCHANGED active
      BY <2>2, <3>1 DEF InStream, Capture
    <3> QED BY <2>1, <3>6, <3>7 DEF Stream!Next, Stream!Forward
  <2>6. CASE ~MapRing(p) /\ ~ReadTsf(p) /\ ~CopySlot(p)
    <3>1. \A q \in Files : q # p =>
            /\ q \in active' <=> q \in active
            /\ pos'[q] = pos[q] /\ out'[q] = out[q]
      BY <2>2 DEF InStream
    <3>2. CASE InStream(p)' \/ ~InStream(p)
      <4>1. InStream(p)' <=> InStream(p)
        BY <1>1, <1>5, <2>6, <3>2, QuietOrLeaves
      <4>2. pos'[p] = pos[p] /\ out'[p] = out[p]
        BY <1>1, <1>5, <2>6, <4>1, QuietOrLeaves
      <4>3. active' = active
        BY <3>1, <4>1
      <4>4. pos' = pos /\ out' = out
        BY <3>1, <4>2
      <4> QED BY <1>3, <2>1, <4>3, <4>4
    <3>3. CASE ~InStream(p)' /\ InStream(p)
      <4>1. p \in active /\ active' = active \ {p}
        BY <3>1, <3>3
      <4>2. pos'[p] = 0 /\ out'[p] = 0
        BY <3>3
      <4>3. pos' = [pos EXCEPT ![p] = 0] /\ out' = [out EXCEPT ![p] = 0]
        BY <3>1, <4>2, Zenon
      <4> QED BY <2>1, <4>1, <4>3 DEF Stream!Next, Stream!End
    <3> QED BY <3>2, <3>3
  <2> QED BY <2>3, <2>4, <2>5, <2>6
<1> QED BY <1>4, <1>5 DEF BenchNext

(* With no timeout, slots that hold a frame and captures less than NumSlots*)
(* frames behind, driver, ring and any number of csi_bench together are a  *)
(* reliable stream: each capture takes the frames published after its      *)
(* start, in order, each once and whole, and forwards each one before it   *)
(* takes the next.                                                         *)
THEOREM RingIsAReliableStream ==
  ASSUME ~MayTimeout, FramesFit, MaxBacklog < NumSlots
  PROVE  BenchSpec => ReliableStream
<1>1. BenchInv /\ [BenchNext]_allVars => [Stream!Next]_(Stream!streamVars)
  BY StreamRefinesStep
<1> QED
  BY BenchInvariant, StreamRefinesInit, <1>1, PTL
     DEF BenchSpec, ReliableStream, Stream!Spec
=============================================================================
