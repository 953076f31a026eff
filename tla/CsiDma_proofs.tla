--------------------------- MODULE CsiDma_proofs ---------------------------
(***************************************************************************)
(* What holds of the csi_dma driver for every ring geometry, every number  *)
(* of open files and frames, and every limit of the DMA engine.            *)
(***************************************************************************)
EXTENDS CsiDma, CsiRing_proofs, SequenceTheorems

(* TypeOK is not inductive alone.  A process not inside poll() is not      *)
(* queued, so Release leaves no stale entry on the wait queue; and while a *)
(* frame is being written the engine holds its descriptor and the PL its   *)
(* request, so completing it takes something off both queues.              *)
QueuedOnlyInPoll == \A f \in Files : poll_st[f] = "none" => f \notin poll_wq

WritingIsAsked == writing => chan # <<>> /\ pl # <<>> /\ tsf > 0

TypeInv == TypeOK /\ QueuedOnlyInPoll /\ WritingIsAsked

LEMMA TypeInit == Init => TypeInv
<1> SUFFICES ASSUME Init  PROVE TypeInv
  OBVIOUS
<1> USE RingAssumption, DmaAssumption DEF Init
<1>1. TypeOK
  <2>1. slots \in [Slots -> Slot]
    BY DEF Empty, Slot
  <2>2. meta \in [producer_idx : 0 .. U32 - 1, frame_seq : Nat,
                  dma_err_count : 0 .. U32 - 1, num_eq : Nat]
    OBVIOUS
  <2>3. FlagsOK
    BY DEF FlagsOK
  <2> QED BY <2>1, <2>2, <2>3 DEF TypeOK, KthreadPcs, PollStates
<1>2. QueuedOnlyInPoll /\ WritingIsAsked
  BY DEF QueuedOnlyInPoll, WritingIsAsked
<1> QED BY <1>1, <1>2 DEF TypeInv

LEMMA FlagsStep == FlagsOK /\ [Next]_vars => FlagsOK'
<1> SUFFICES ASSUME FlagsOK, [Next]_vars  PROVE FlagsOK'
  OBVIOUS
<1> USE DEF FlagsOK, thrVars, cfgVars, fileVars, hwVars, rmVars, idxVars,
           pollVars, plVars
<1>1. CASE Kthread
  BY <1>1 DEF Kthread, LoopHead, TransferArm, PrepFails, SubmitFails, TransferTrigger,
              WaitDone, WaitTimeout, Advance, Publish, WakePollers, ThreadExit
<1>2. CASE DmaBegin \/ DmaEnd
  BY <1>2 DEF DmaBegin, DmaEnd
<1>3. ASSUME NEW f \in Files, Open(f) \/ Release(f) \/ Start(f) \/ Stop(f)
      PROVE  FlagsOK'
  BY <1>3 DEF Open, Release, Start, Stop, SetRunning
<1>4. ASSUME NEW f \in Files, NEW n \in NumEqArgs, SetNumEqBegin(f, n)
      PROVE  FlagsOK'
  BY <1>4 DEF SetNumEqBegin
<1>5. ASSUME NEW f \in Files, SetNumEqReg(f) \/ SetNumEqEnd(f) \/ Poll(f)
      PROVE  FlagsOK'
  BY <1>5 DEF SetNumEqReg, SetNumEqEnd, Poll, PollQueue, PollReady, PollSleep,
              PollWoken, PollExpire, PollNothing, PollInterrupted
<1>6. CASE RemoveBegin \/ RemoveEnd
  BY <1>6 DEF RemoveBegin, RemoveEnd
<1>7. CASE UNCHANGED vars
  BY <1>7 DEF vars
<1> QED
  BY <1>1, <1>2, <1>3, <1>4, <1>5, <1>6, <1>7 DEF Next, FileOp

(* The descriptor the kthread prepares is one for a slot of the ring.      *)
LEMMA DescriptorAppended ==
  ASSUME TypeOK
  PROVE  /\ NextDesc \in Desc
         /\ Append(chan, NextDesc) \in Seq(Desc)
         /\ Append(chan, NextDesc) # <<>>
<1>1. producer_idx \in Nat /\ num_eq \in Nat /\ chan \in Seq(Desc)
  BY RingAssumption DEF TypeOK
<1>2. NextDesc \in Desc
  BY <1>1, SlotOfType, FrameSizeType DEF NextDesc, Desc
<1> QED BY <1>1, <1>2, AppendProperties

(* Whatever descriptor and request come next, the frame is written into a  *)
(* slot of the ring.                                                       *)
LEMMA FrameLandsInSlot ==
  ASSUME TypeOK, DmaBegin
  PROVE  slots' \in [Slots -> Slot]
<1> DEFINE d == Head(chan)
           frame == [head  |-> tsf + 1,
                     tail  |-> slots[d.slot].tail,
                     numEq |-> reg_num_eq,
                     bytes |-> TransferBytes]
<1>1. chan \in Seq(Desc) /\ chan # <<>> /\ pl \in Seq(Nat) /\ pl # <<>>
  BY DEF TypeOK, DmaBegin
<1>2. d \in Desc /\ Head(pl) \in Nat
  BY <1>1, HeadTailProperties
<1>3. d.slot \in Slots /\ d.len \in Nat
  BY <1>2 DEF Desc
<1>4. slots \in [Slots -> Slot] /\ reg_num_eq \in Nat /\ tsf \in Nat
  BY DEF TypeOK
<1>5. slots[d.slot].tail \in Nat
  BY <1>3, <1>4 DEF Slot
<1>6. TransferBytes \in Nat
  BY <1>2, <1>3 DEF TransferBytes, MinOf, SymbolBytes
<1>7. frame \in Slot
  BY <1>4, <1>5, <1>6 DEF Slot
<1>8. slots' = [slots EXCEPT ![d.slot] = frame]
  BY DEF DmaBegin
<1> QED BY <1>4, <1>7, <1>8

LEMMA FrameCompletes ==
  ASSUME TypeOK, WritingIsAsked, DmaEnd
  PROVE  /\ slots' \in [Slots -> Slot]
         /\ chan' \in Seq(Desc)
         /\ pl' \in Seq(Nat)
<1>1. chan \in Seq(Desc) /\ chan # <<>> /\ pl \in Seq(Nat) /\ pl # <<>>
  BY DEF TypeOK, WritingIsAsked, DmaEnd
<1>2. chan' \in Seq(Desc) /\ pl' \in Seq(Nat)
  BY <1>1, HeadTailProperties DEF DmaEnd
<1>3. slots \in [Slots -> Slot] /\ tsf \in Nat
  BY DEF TypeOK
<1>4. Head(chan) \in Desc
  BY <1>1, HeadTailProperties
<1>5. ASSUME NEW t \in Slots
      PROVE  /\ slots[t] \in Slot
             /\ [slots[t] EXCEPT !.tail = tsf] \in Slot
             /\ [slots[t] EXCEPT !.head = tsf] \in Slot
  BY <1>3 DEF Slot
<1>6. slots' \in [Slots -> Slot]
  BY <1>5 DEF DmaEnd
<1> QED BY <1>2, <1>6

(* TypeOK in three parts: the kthread and the settings, the open files,    *)
(* the hardware.                                                           *)
ThreadTypes ==
  /\ pc \in KthreadPcs /\ cmp \in Nat
  /\ num_eq \in Nat /\ reg_num_eq \in Nat
  /\ producer_idx \in 0 .. U32 - 1 /\ frame_seq \in Nat
  /\ dma_err_count \in 0 .. U32 - 1
  /\ meta \in [producer_idx : 0 .. U32 - 1, frame_seq : Nat,
               dma_err_count : 0 .. U32 - 1, num_eq : Nat]

FileTypes ==
  /\ files \subseteq Files /\ lock \in files \union {NoFile}
  /\ last_producer_idx \in [Files -> 0 .. U32 - 1]
  /\ poll_st \in [Files -> PollStates] /\ poll_wq \subseteq files

HwTypes ==
  chan \in Seq(Desc) /\ pl \in Seq(Nat) /\ tsf \in Nat /\ slots \in [Slots -> Slot]

LEMMA TypeStep == TypeInv /\ [Next]_vars => TypeInv'
<1> SUFFICES ASSUME TypeInv, [Next]_vars  PROVE TypeInv'
  OBVIOUS
<1> FlagsOK'
  BY FlagsStep DEF TypeInv, TypeOK
<1> USE DEF TypeInv, TypeOK, QueuedOnlyInPoll, WritingIsAsked, KthreadPcs,
           PollStates,
           thrVars, cfgVars, fileVars, hwVars, rmVars, idxVars, pollVars, plVars
<1>1. CASE TransferArm
  <2>1. chan' \in Seq(Desc) /\ chan' # <<>>
    BY <1>1, DescriptorAppended DEF TransferArm
  <2> QED BY <1>1, <2>1 DEF TransferArm
<1>2. CASE PrepFails
  BY <1>2, NextIdxType DEF PrepFails, CountError
<1>3. CASE SubmitFails
  <2>1. dma_err_count' \in 0 .. U32 - 1
    BY <1>3, NextIdxType DEF SubmitFails, CountError
  <2>2. /\ pc' = "loop" /\ cmp' = 0
        /\ UNCHANGED <<meta, idxVars, cfgVars, fileVars, hwVars, rmVars>>
    BY <1>3 DEF SubmitFails
  <2>3. ThreadTypes'
    BY <2>1, <2>2 DEF ThreadTypes
  <2>4. FileTypes' /\ QueuedOnlyInPoll'
    BY <2>2 DEF FileTypes
  <2>5. HwTypes' /\ WritingIsAsked'
    BY <2>2 DEF HwTypes
  <2> QED BY <2>3, <2>4, <2>5 DEF ThreadTypes, FileTypes, HwTypes
<1>4. CASE TransferTrigger
  <2>1. FrameSymbols(num_eq) \in Nat
    BY FrameSizeType
  <2>2. pl' \in Seq(Nat) /\ pl' # <<>>
    <3>1. pl \in Seq(Nat) /\ pl' = Append(pl, FrameSymbols(num_eq))
      BY <1>4 DEF TransferTrigger
    <3> QED BY <2>1, <3>1, AppendProperties
  <2>3. /\ pc' = "waiting"
        /\ UNCHANGED <<cmp, dma_err_count, meta, chan, writing, tsf, slots,
                       idxVars, cfgVars, fileVars, rmVars>>
    BY <1>4 DEF TransferTrigger
  <2>4. ThreadTypes'
    BY <2>3 DEF ThreadTypes
  <2>5. FileTypes' /\ QueuedOnlyInPoll'
    BY <2>3 DEF FileTypes
  <2>6. HwTypes' /\ WritingIsAsked'
    BY <2>2, <2>3 DEF HwTypes
  <2> QED BY <2>4, <2>5, <2>6 DEF ThreadTypes, FileTypes, HwTypes
<1>5. CASE WaitDone
  BY <1>5 DEF WaitDone
<1>6. CASE WaitTimeout
  BY <1>6, NextIdxType DEF WaitTimeout, CountError
<1>7. CASE Advance
  <2>1. producer_idx' \in 0 .. U32 - 1
    BY <1>7, NextIdxType DEF Advance
  <2> QED BY <1>7, <2>1 DEF Advance
<1>8. CASE Publish
  BY <1>8 DEF Publish
<1>9. CASE WakePollers
  BY <1>9 DEF WakePollers
<1>10. CASE ThreadExit
  BY <1>10 DEF ThreadExit
<1>11. CASE DmaBegin
  <2>1. slots' \in [Slots -> Slot]
    BY <1>11, FrameLandsInSlot
  <2>2. /\ writing' /\ chan # <<>> /\ pl # <<>> /\ tsf' = tsf + 1
        /\ UNCHANGED <<meta, chan, pl, thrVars, cfgVars, fileVars, rmVars>>
    BY <1>11 DEF DmaBegin
  <2>3. ThreadTypes'
    BY <2>2 DEF ThreadTypes
  <2>4. FileTypes' /\ QueuedOnlyInPoll'
    BY <2>2 DEF FileTypes
  <2>5. HwTypes' /\ WritingIsAsked'
    BY <2>1, <2>2 DEF HwTypes
  <2> QED BY <2>3, <2>4, <2>5 DEF ThreadTypes, FileTypes, HwTypes
<1>12. CASE DmaEnd
  <2>1. slots' \in [Slots -> Slot] /\ chan' \in Seq(Desc) /\ pl' \in Seq(Nat)
    BY <1>12, FrameCompletes
  <2>2. /\ ~writing' /\ cmp' = cmp + 1
        /\ UNCHANGED <<pc, dma_err_count, meta, tsf, idxVars, cfgVars, fileVars,
                       rmVars>>
    BY <1>12 DEF DmaEnd
  <2>3. ThreadTypes'
    BY <2>2 DEF ThreadTypes
  <2>4. FileTypes' /\ QueuedOnlyInPoll'
    BY <2>2 DEF FileTypes
  <2>5. HwTypes' /\ WritingIsAsked'
    BY <2>1, <2>2 DEF HwTypes
  <2> QED BY <2>3, <2>4, <2>5 DEF ThreadTypes, FileTypes, HwTypes
<1>13. ASSUME NEW f \in Files, Open(f)  PROVE TypeInv'
  BY <1>13 DEF Open
<1>14. ASSUME NEW f \in Files, Release(f)  PROVE TypeInv'
  BY <1>14 DEF Release
<1>15. ASSUME NEW f \in Files, Start(f) \/ Stop(f)  PROVE TypeInv'
  <2>1. CASE SetRunning(f, TRUE)
    BY <2>1 DEF SetRunning
  <2>2. CASE SetRunning(f, FALSE)
    BY <2>2 DEF SetRunning
  <2> QED BY <1>15, <2>1, <2>2 DEF Start, Stop
<1>16. ASSUME NEW f \in Files, NEW n \in NumEqArgs, SetNumEqBegin(f, n)
       PROVE  TypeInv'
  BY <1>16, DmaAssumption DEF SetNumEqBegin
<1>17. ASSUME NEW f \in Files, SetNumEqReg(f) \/ SetNumEqEnd(f)
       PROVE  TypeInv'
  <2>1. CASE SetNumEqReg(f)
    BY <2>1 DEF SetNumEqReg
  <2>2. CASE SetNumEqEnd(f)
    BY <2>2 DEF SetNumEqEnd
  <2> QED BY <1>17, <2>1, <2>2
<1>18. ASSUME NEW f \in Files, Poll(f)  PROVE TypeInv'
  <2>1. CASE PollQueue(f)
    BY <1>18, <2>1 DEF PollQueue
  <2>2. CASE PollReady(f)
    BY <1>18, <2>2 DEF PollReady
  <2>3. CASE PollSleep(f)
    BY <1>18, <2>3 DEF PollSleep
  <2>4. CASE PollWoken(f)
    BY <1>18, <2>4 DEF PollWoken
  <2>5. CASE PollExpire(f)
    BY <1>18, <2>5 DEF PollExpire
  <2>6. CASE PollNothing(f)
    BY <1>18, <2>6 DEF PollNothing
  <2>7. CASE PollInterrupted(f)
    BY <1>18, <2>7 DEF PollInterrupted
  <2> QED BY <1>18, <2>1, <2>2, <2>3, <2>4, <2>5, <2>6, <2>7 DEF Poll
<1>19. CASE RemoveBegin
  BY <1>19 DEF RemoveBegin
<1>20. CASE RemoveEnd
  BY <1>20 DEF RemoveEnd
<1>21. CASE LoopHead
  BY <1>21 DEF LoopHead
<1>22. CASE UNCHANGED vars
  BY <1>22 DEF vars
<1> QED
  BY <1>1, <1>2, <1>3, <1>4, <1>5, <1>6, <1>7, <1>8, <1>9, <1>10, <1>11,
     <1>12, <1>13, <1>14, <1>15, <1>16, <1>17, <1>18, <1>19, <1>20, <1>21,
     <1>22 DEF Next, Kthread, FileOp

(* Type correctness of the driver and its hardware.                        *)
THEOREM TypeCorrect == Spec => []TypeOK
<1>1. TypeInv => TypeOK
  BY DEF TypeInv
<1> QED BY TypeInit, TypeStep, <1>1, PTL DEF Spec

-----------------------------------------------------------------------------
(* The kthread and the engine, whatever times out or fails.                *)

(* A system call touches neither the kthread, nor the hardware queues, nor *)
(* removal.                                                                *)
LEMMA FileOpLeavesEngine ==
  ASSUME NEW f \in Files, FileOp(f)
  PROVE  UNCHANGED <<thrVars, hwVars, rmVars>>
<1> USE DEF thrVars, hwVars, rmVars
<1>1. ASSUME Open(f) \/ Release(f) \/ Start(f) \/ Stop(f)
      PROVE  UNCHANGED <<thrVars, hwVars, rmVars>>
  BY <1>1 DEF Open, Release, Start, Stop, SetRunning
<1>2. ASSUME NEW n \in NumEqArgs, SetNumEqBegin(f, n)
      PROVE  UNCHANGED <<thrVars, hwVars, rmVars>>
  BY <1>2 DEF SetNumEqBegin
<1>3. ASSUME SetNumEqReg(f) \/ SetNumEqEnd(f) \/ Poll(f)
      PROVE  UNCHANGED <<thrVars, hwVars, rmVars>>
  BY <1>3 DEF SetNumEqReg, SetNumEqEnd, Poll, PollQueue, PollReady, PollSleep,
              PollWoken, PollExpire, PollNothing, PollInterrupted
<1> QED BY <1>1, <1>2, <1>3 DEF FileOp

(* A completion the kthread has not consumed, and one it has consumed and  *)
(* not counted yet, both stand for a frame that landed.                    *)
FramesAccounted ==
  frame_seq + cmp + (IF pc = "advance" THEN 1 ELSE 0) <= Landed

EngineInv == EveryDescRequested /\ FramesAccounted

LEMMA EngineInit == Init => EngineInv
BY DEF Init, EngineInv, EveryDescRequested, FramesAccounted, Landed

LEMMA EngineStep == TypeInv /\ EngineInv /\ [Next]_vars => EngineInv'
<1> SUFFICES ASSUME TypeInv, EngineInv, [Next]_vars  PROVE EngineInv'
  OBVIOUS
<1>1. /\ chan \in Seq(Desc) /\ pl \in Seq(Nat)
      /\ cmp \in Nat /\ frame_seq \in Nat /\ tsf \in Nat
  BY DEF TypeInv, TypeOK
<1> USE DEF EngineInv, EveryDescRequested, FramesAccounted, Landed,
           thrVars, cfgVars, fileVars, hwVars, rmVars, idxVars, pollVars, plVars
<1>2. CASE TransferArm
  <2>1. Len(chan') = Len(chan) + 1
    BY <1>1, <1>2, DescriptorAppended, AppendProperties DEF TransferArm, TypeInv
  <2> QED BY <1>1, <1>2, <2>1 DEF TransferArm
<1>3. CASE LoopHead \/ PrepFails \/ SubmitFails
  BY <1>1, <1>3 DEF LoopHead, PrepFails, SubmitFails
<1>4. CASE TransferTrigger
  <2>1. Len(pl') = Len(pl) + 1
    BY <1>1, <1>4 DEF TransferTrigger
  <2> QED BY <1>1, <1>4, <2>1 DEF TransferTrigger
<1>5. CASE WaitDone \/ WaitTimeout
  BY <1>1, <1>5 DEF WaitDone, WaitTimeout
<1>6. CASE Advance \/ Publish \/ WakePollers \/ ThreadExit
  BY <1>1, <1>6 DEF Advance, Publish, WakePollers, ThreadExit
<1>7. CASE DmaBegin
  BY <1>1, <1>7 DEF DmaBegin
<1>8. CASE DmaEnd
  <2>1. Len(chan') = Len(chan) - 1 /\ Len(pl') = Len(pl) - 1
    BY <1>1, <1>8, HeadTailProperties DEF DmaEnd, TypeInv, WritingIsAsked
  <2>2. /\ writing /\ ~writing' /\ cmp' = cmp + 1
        /\ UNCHANGED <<pc, frame_seq, tsf>>
    BY <1>8 DEF DmaEnd
  <2>3. EveryDescRequested'
    BY <1>1, <2>1, <2>2
  <2>4. FramesAccounted'
    BY <1>1, <2>2
  <2> QED BY <2>3, <2>4
<1>9. ASSUME NEW f \in Files, FileOp(f)  PROVE EngineInv'
  BY <1>9, FileOpLeavesEngine
<1>10. CASE RemoveBegin \/ RemoveEnd
  BY <1>10 DEF RemoveBegin, RemoveEnd
<1>11. CASE UNCHANGED vars
  BY <1>11 DEF vars
<1> QED
  BY <1>2, <1>3, <1>4, <1>5, <1>6, <1>7, <1>8, <1>9, <1>10, <1>11
  DEF Next, Kthread

(* However transfers time out or descriptors fail, the engine never waits  *)
(* for data nobody asked for.                                              *)
THEOREM EngineNeverStarves == Spec => []EveryDescRequested
<1>1. TypeInv /\ EngineInv => EveryDescRequested
  BY DEF EngineInv
<1> QED BY TypeInit, TypeStep, EngineInit, EngineStep, <1>1, PTL DEF Spec

(* However many completions come late, csi_dma_transfer publishes nothing  *)
(* that did not land.                                                      *)
THEOREM OnlyLandedFramesPublished == Spec => []NoInventedFrames
<1>1. TypeInv /\ EngineInv => NoInventedFrames
  BY DEF TypeInv, TypeOK, EngineInv, FramesAccounted, NoInventedFrames, Landed
<1> QED BY TypeInit, TypeStep, EngineInit, EngineStep, <1>1, PTL DEF Spec

-----------------------------------------------------------------------------
(* The header page and the pollers.                                        *)

LEMMA HeaderStep == TypeInv /\ HeaderAgrees /\ [Next]_vars => HeaderAgrees'
<1> SUFFICES ASSUME TypeInv, HeaderAgrees, [Next]_vars  PROVE HeaderAgrees'
  OBVIOUS
<1>1. meta \in [producer_idx : 0 .. U32 - 1, frame_seq : Nat,
                dma_err_count : 0 .. U32 - 1, num_eq : Nat]
  BY DEF TypeInv, TypeOK
<1> USE DEF HeaderAgrees, thrVars, cfgVars, fileVars, hwVars, rmVars, idxVars,
           pollVars, plVars
<1>2. CASE LoopHead \/ TransferArm \/ PrepFails \/ SubmitFails \/ TransferTrigger
  BY <1>2 DEF LoopHead, TransferArm, PrepFails, SubmitFails, TransferTrigger
<1>3. CASE WaitDone \/ WaitTimeout \/ WakePollers \/ ThreadExit
  BY <1>3 DEF WaitDone, WaitTimeout, WakePollers, ThreadExit
<1>4. CASE Advance
  BY <1>4 DEF Advance
<1>5. CASE Publish
  BY <1>1, <1>5 DEF Publish
<1>6. CASE DmaBegin \/ DmaEnd
  BY <1>6 DEF DmaBegin, DmaEnd
<1>7. ASSUME NEW f \in Files, Open(f) \/ Release(f) \/ Start(f) \/ Stop(f)
      PROVE  HeaderAgrees'
  BY <1>7 DEF Open, Release, Start, Stop, SetRunning
<1>8. ASSUME NEW f \in Files, NEW n \in NumEqArgs, SetNumEqBegin(f, n)
      PROVE  HeaderAgrees'
  BY <1>8, DmaAssumption DEF SetNumEqBegin
<1>9. ASSUME NEW f \in Files, SetNumEqReg(f) \/ SetNumEqEnd(f)
      PROVE  HeaderAgrees'
  BY <1>1, <1>9, DmaAssumption DEF SetNumEqReg, SetNumEqEnd
<1>10. ASSUME NEW f \in Files, Poll(f)  PROVE HeaderAgrees'
  BY <1>10 DEF Poll, PollQueue, PollReady, PollSleep, PollWoken, PollExpire,
               PollNothing, PollInterrupted
<1>11. CASE RemoveBegin \/ RemoveEnd
  BY <1>11 DEF RemoveBegin, RemoveEnd
<1>12. CASE UNCHANGED vars
  BY <1>12 DEF vars
<1> QED
  BY <1>2, <1>3, <1>4, <1>5, <1>6, <1>7, <1>8, <1>9, <1>10, <1>11, <1>12
  DEF Next, Kthread, FileOp

(* What a process reads in the mapped header is the state of the driver.   *)
THEOREM HeaderIsTruthful == Spec => []HeaderAgrees
<1>1. Init => HeaderAgrees
  BY DEF Init, HeaderAgrees
<1> QED BY TypeInit, TypeStep, <1>1, HeaderStep, PTL DEF Spec

LEMMA WakeupStep == TypeInv /\ NoLostWakeup /\ [Next]_vars => NoLostWakeup'
<1> SUFFICES ASSUME TypeInv, NoLostWakeup, [Next]_vars  PROVE NoLostWakeup'
  OBVIOUS
<1>1. poll_wq \subseteq files /\ files \subseteq Files
  BY DEF TypeInv, TypeOK
<1>2. poll_st \in [Files -> PollStates]
  BY DEF TypeInv, TypeOK
<1>3. last_producer_idx \in [Files -> 0 .. U32 - 1]
  BY DEF TypeInv, TypeOK
<1> USE DEF NoLostWakeup, HasNews, thrVars, cfgVars, fileVars, hwVars, rmVars,
           idxVars, pollVars, plVars
<1>4. CASE LoopHead \/ TransferArm \/ PrepFails \/ SubmitFails \/ TransferTrigger
  BY <1>4 DEF LoopHead, TransferArm, PrepFails, SubmitFails, TransferTrigger
<1>5. CASE WaitDone \/ WaitTimeout \/ ThreadExit
  BY <1>5 DEF WaitDone, WaitTimeout, ThreadExit
<1>6. CASE Advance \/ Publish \/ WakePollers
  BY <1>6 DEF Advance, Publish, WakePollers
<1>7. CASE DmaBegin \/ DmaEnd
  BY <1>7 DEF DmaBegin, DmaEnd
<1>8. ASSUME NEW f \in Files, Open(f)  PROVE NoLostWakeup'
  BY <1>1, <1>3, <1>8 DEF Open
<1>9. ASSUME NEW f \in Files, Release(f) \/ Start(f) \/ Stop(f)
      PROVE  NoLostWakeup'
  BY <1>9 DEF Release, Start, Stop, SetRunning
<1>10. ASSUME NEW f \in Files, NEW n \in NumEqArgs, SetNumEqBegin(f, n)
       PROVE  NoLostWakeup'
  BY <1>10 DEF SetNumEqBegin
<1>11. ASSUME NEW f \in Files, SetNumEqReg(f) \/ SetNumEqEnd(f)
       PROVE  NoLostWakeup'
  BY <1>11 DEF SetNumEqReg, SetNumEqEnd
<1>12. ASSUME NEW f \in Files, Poll(f)  PROVE NoLostWakeup'
  <2>1. CASE PollQueue(f)
    BY <1>1, <1>2, <2>1 DEF PollQueue
  <2>2. CASE PollReady(f)
    BY <1>1, <1>2, <1>3, <2>2 DEF PollReady
  <2>3. CASE PollSleep(f)
    BY <1>1, <1>2, <2>3 DEF PollSleep
  <2>4. CASE PollWoken(f)
    BY <1>1, <1>2, <2>4 DEF PollWoken
  <2>5. CASE PollExpire(f)
    BY <1>1, <1>2, <2>5 DEF PollExpire
  <2>6. CASE PollNothing(f)
    BY <1>1, <1>2, <2>6 DEF PollNothing
  <2>7. CASE PollInterrupted(f)
    BY <1>1, <1>2, <2>7 DEF PollInterrupted
  <2> QED BY <1>12, <2>1, <2>2, <2>3, <2>4, <2>5, <2>6, <2>7 DEF Poll
<1>13. CASE RemoveBegin \/ RemoveEnd
  BY <1>13 DEF RemoveBegin, RemoveEnd
<1>14. CASE UNCHANGED vars
  BY <1>14 DEF vars
<1> QED
  BY <1>4, <1>5, <1>6, <1>7, <1>8, <1>9, <1>10, <1>11, <1>12, <1>13, <1>14
  DEF Next, Kthread, FileOp

(* No poller sleeps through a frame, however many poll at once.            *)
THEOREM WakeupsAreNotLost == Spec => []NoLostWakeup
<1>1. Init => NoLostWakeup
  BY DEF Init, NoLostWakeup
<1> QED BY TypeInit, TypeStep, <1>1, WakeupStep, PTL DEF Spec

-----------------------------------------------------------------------------
(* The size of transfers.                                                  *)

(* The frame of the num_eq in force fits into a slot, so that the next     *)
(* descriptor will.                                                        *)
NumEqFits == FrameBytes(num_eq) <= SlotSize

SizeInv == NumEqFits /\ DmaInsideSlot

LEMMA SizeInit == FramesFit /\ Init => SizeInv
BY DEF FramesFit, Init, SizeInv, NumEqFits, DmaInsideSlot

LEMMA SizeStep ==
  ASSUME FramesFit, TypeInv, SizeInv, [Next]_vars
  PROVE  SizeInv'
<1>1. chan \in Seq(Desc)
  BY DEF TypeInv, TypeOK
<1>2. CASE UNCHANGED <<chan, num_eq>>
  BY <1>2 DEF SizeInv, NumEqFits, DmaInsideSlot
<1>3. CASE TransferArm
  <2>1. chan' = Append(chan, NextDesc) /\ NextDesc \in Desc /\ UNCHANGED num_eq
    BY <1>3, DescriptorAppended DEF TransferArm, TypeInv, cfgVars
  <2>2. NextDesc.len <= SlotSize
    BY DEF NextDesc, SizeInv, NumEqFits
  <2>3. DmaInsideSlot'
    <3> SUFFICES ASSUME NEW i \in 1 .. Len(chan) + 1
                 PROVE  chan'[i].len <= SlotSize
      BY <1>1, <2>1, AppendProperties DEF DmaInsideSlot
    <3>1. CASE i = Len(chan) + 1
      BY <1>1, <2>1, <2>2, <3>1, AppendProperties
    <3>2. CASE i \in 1 .. Len(chan)
      BY <1>1, <2>1, <3>2, AppendProperties DEF SizeInv, DmaInsideSlot
    <3> QED BY <1>1, <3>1, <3>2
  <2> QED BY <2>1, <2>3 DEF SizeInv, NumEqFits
<1>4. CASE DmaEnd
  <2>1. chan # <<>> /\ chan' = Tail(chan) /\ UNCHANGED num_eq
    BY <1>4 DEF DmaEnd, TypeInv, WritingIsAsked, cfgVars
  <2> QED BY <1>1, <2>1, HeadTailProperties DEF SizeInv, NumEqFits, DmaInsideSlot
<1>5. ASSUME NEW f \in Files, NEW n \in NumEqArgs, SetNumEqBegin(f, n)
      PROVE  SizeInv'
  <2>1. num_eq' = n /\ NumEqAccepted(n) /\ UNCHANGED chan
    BY <1>5 DEF SetNumEqBegin, hwVars
  <2> QED BY <2>1 DEF FramesFit, SizeInv, NumEqFits, DmaInsideSlot
<1>6. \/ TransferArm \/ DmaEnd \/ UNCHANGED <<chan, num_eq>>
      \/ \E f \in Files, n \in NumEqArgs : SetNumEqBegin(f, n)
  <2> USE DEF hwVars, plVars, cfgVars
  <2>1. ASSUME Kthread  PROVE TransferArm \/ UNCHANGED <<chan, num_eq>>
    BY <2>1 DEF Kthread, LoopHead, PrepFails, SubmitFails, TransferTrigger,
                WaitDone, WaitTimeout, Advance, Publish, WakePollers, ThreadExit
  <2>2. ASSUME DmaBegin \/ RemoveBegin \/ RemoveEnd
        PROVE  UNCHANGED <<chan, num_eq>>
    BY <2>2 DEF DmaBegin, RemoveBegin, RemoveEnd
  <2>3. ASSUME NEW f \in Files, FileOp(f)
        PROVE  \/ UNCHANGED <<chan, num_eq>>
               \/ \E n \in NumEqArgs : SetNumEqBegin(f, n)
    <3>1. UNCHANGED chan
      BY <2>3, FileOpLeavesEngine
    <3>2. ASSUME Open(f) \/ Release(f) \/ Start(f) \/ Stop(f)
          PROVE  UNCHANGED num_eq
      BY <3>2 DEF Open, Release, Start, Stop, SetRunning
    <3>3. ASSUME SetNumEqReg(f) \/ SetNumEqEnd(f) \/ Poll(f)
          PROVE  UNCHANGED num_eq
      BY <3>3 DEF SetNumEqReg, SetNumEqEnd, Poll, PollQueue, PollReady,
                  PollSleep, PollWoken, PollExpire, PollNothing, PollInterrupted
    <3> QED BY <2>3, <3>1, <3>2, <3>3 DEF FileOp
  <2>4. ASSUME UNCHANGED vars  PROVE UNCHANGED <<chan, num_eq>>
    BY <2>4 DEF vars
  <2> QED BY <2>1, <2>2, <2>3, <2>4 DEF Next
<1> QED BY <1>2, <1>3, <1>4, <1>5, <1>6

(* When a slot holds a frame of the initial num_eq and of every accepted   *)
(* one, no descriptor is ever larger than a slot.                          *)
LEMMA TransfersFit == ASSUME FramesFit  PROVE Spec => []DmaInsideSlot
<1>1. Init => SizeInv
  BY SizeInit
<1>2. TypeInv /\ SizeInv /\ [Next]_vars => SizeInv'
  BY SizeStep
<1>3. SizeInv => DmaInsideSlot
  BY DEF SizeInv
<1> QED BY TypeInit, TypeStep, <1>1, <1>2, <1>3, PTL DEF Spec

(* A transfer of at most a slot ends in the slot it began in.              *)
LEMMA LandsInOneSlot ==
  ASSUME TypeInv, DmaInsideSlot, DmaEnd
  PROVE  slots' = [slots EXCEPT ![Head(chan).slot].tail = tsf]
<1>1. chan \in Seq(Desc) /\ chan # <<>> /\ pl \in Seq(Nat) /\ pl # <<>>
  BY DEF TypeInv, TypeOK, WritingIsAsked, DmaEnd
<1>2. Head(chan) \in Desc /\ Head(pl) \in Nat
  BY <1>1, HeadTailProperties
<1>3. Head(chan).slot \in Slots /\ Head(chan).len \in Nat
  BY <1>2 DEF Desc
<1>4. Head(chan).len <= SlotSize
  <2>1. 1 \in DOMAIN chan /\ Head(chan) = chan[1]
    BY <1>1
  <2> QED BY <2>1 DEF DmaInsideSlot
<1>5. TransferBytes \in Nat /\ TransferBytes <= SlotSize
  BY <1>2, <1>3, <1>4, RingAssumption DEF TransferBytes, MinOf, SymbolBytes
<1>6. ASSUME NEW t \in Slots, t \in Overrun(Head(chan).slot, TransferBytes)
      PROVE  FALSE
  <2>1. /\ t - Head(chan).slot \in Nat /\ t - Head(chan).slot >= 1
        /\ TransferBytes > (t - Head(chan).slot) * SlotSize
    BY <1>3, <1>6, RingAssumption DEF Overrun, Slots
  <2>2. (t - Head(chan).slot) * SlotSize >= SlotSize
    <3> HIDE DEF Slots
    <3> DEFINE m == t - Head(chan).slot
    <3>1. m \in Nat /\ m >= 1 /\ SlotSize \in Nat
      BY <2>1, RingAssumption
    <3>2. m * SlotSize >= SlotSize
      <4> HIDE DEF m
      <4>1. m - 1 \in Nat
        BY <3>1
      <4>2. (m - 1) * SlotSize \in Nat
        BY <3>1, <4>1
      <4>3. m * SlotSize = (m - 1) * SlotSize + SlotSize
        BY <3>1
      <4> QED BY <3>1, <4>2, <4>3
    <3> QED BY <3>2 DEF m
  <2>3. (t - Head(chan).slot) * SlotSize \in Nat
    BY <2>1, RingAssumption
  <2> QED BY <1>5, <2>1, <2>2, <2>3, RingAssumption
<1>7. slots \in [Slots -> Slot]
  BY DEF TypeInv, TypeOK
<1>8. slots' = [t \in Slots |-> IF t = Head(chan).slot
                                THEN [slots[t] EXCEPT !.tail = tsf]
                                ELSE slots[t]]
  BY <1>6 DEF DmaEnd
<1> QED BY <1>3, <1>7, <1>8

-----------------------------------------------------------------------------
(* While every transfer finds its frame in time, at most one descriptor    *)
(* and one request are ever under way, and all of the ring is accounted    *)
(* for.                                                                    *)

(* What the hardware holds follows from where the kthread is; memory is    *)
(* freed only after the kthread has left.                                  *)
OneTransfer ==
  /\ pc = "armed" => cmp = 0 /\ Len(chan) = 1 /\ pl = <<>> /\ ~writing
  /\ pc = "waiting" => \/ cmp = 0 /\ Len(chan) = 1 /\ Len(pl) = 1
                       \/ cmp = 1 /\ chan = <<>> /\ pl = <<>> /\ ~writing
  /\ pc \notin {"armed", "waiting"} =>
       cmp = 0 /\ chan = <<>> /\ pl = <<>> /\ ~writing
  /\ freed => pc = "exited"

(* The descriptor under way is for the slot the driver will announce.      *)
DescIsNext == chan # <<>> => Head(chan).slot = SlotOf(producer_idx)

(* A frame was streamed that is not published yet.                         *)
Unpublished == writing \/ cmp = 1 \/ pc = "advance"

(* The ring index is the number of published frames, and at most one frame *)
(* was streamed beyond them.                                               *)
StreamCount ==
  /\ producer_idx = frame_seq % U32
  /\ tsf = frame_seq + (IF Unpublished THEN 1 ELSE 0)

(* The frame that is not published yet is in the next slot, its tail too   *)
(* as soon as the engine is done.                                          *)
NextSlotFilled ==
  Unpublished => LET s == slots[SlotOf(producer_idx)]
                 IN  s.head = tsf /\ (writing \/ s.tail = tsf)

PipeInv == OneTransfer /\ DescIsNext /\ StreamCount

SteadyInv == SizeInv /\ PipeInv /\ NextSlotFilled /\ RingHoldsLastFrames

LEMMA OneElement ==
  ASSUME NEW S, NEW s \in Seq(S), Len(s) = 1
  PROVE  s # <<>> /\ Tail(s) = <<>>
<1>1. s # <<>>
  OBVIOUS
<1>2. Tail(s) \in Seq(S) /\ Len(Tail(s)) = 0
  BY <1>1, HeadTailProperties
<1> QED BY <1>1, <1>2, EmptySeq

LEMMA FirstElement ==
  ASSUME NEW S, NEW e \in S
  PROVE  /\ Append(<<>>, e) \in Seq(S)
         /\ Len(Append(<<>>, e)) = 1
         /\ Head(Append(<<>>, e)) = e
  OBVIOUS

LEMMA ControlStep ==
  ASSUME ~MayTimeout, TypeInv, OneTransfer, [Next]_vars
  PROVE  OneTransfer'
<1>1. /\ chan \in Seq(Desc) /\ pl \in Seq(Nat) /\ cmp \in Nat
      /\ pc \in KthreadPcs
  BY DEF TypeInv, TypeOK
<1> USE DEF OneTransfer, KthreadPcs, thrVars, cfgVars, fileVars, hwVars, rmVars,
           idxVars, pollVars, plVars
<1>2. CASE TransferArm
  <2>1. chan = <<>> /\ pl = <<>> /\ ~writing /\ ~freed
    BY <1>2 DEF TransferArm
  <2>2. Len(chan') = 1
    BY <1>2, <2>1, DescriptorAppended, FirstElement DEF TransferArm, TypeInv
  <2>3. pc' = "armed" /\ cmp' = 0 /\ UNCHANGED <<pl, writing, freed>>
    BY <1>2 DEF TransferArm
  <2> QED BY <2>1, <2>2, <2>3
<1>3. CASE LoopHead \/ PrepFails \/ SubmitFails
  BY <1>3 DEF LoopHead, PrepFails, SubmitFails
<1>4. CASE TransferTrigger
  <2>1. FrameSymbols(num_eq) \in Nat
    BY FrameSizeType DEF TypeInv, TypeOK
  <2>2. Len(pl') = 1
    BY <1>4, <2>1, FirstElement DEF TransferTrigger
  <2>3. /\ pc = "armed" /\ pc' = "waiting"
        /\ UNCHANGED <<cmp, chan, writing, freed>>
    BY <1>4 DEF TransferTrigger
  <2> QED BY <2>2, <2>3
<1>5. CASE WaitDone
  BY <1>1, <1>5 DEF WaitDone
<1>6. CASE WaitTimeout
  BY <1>6 DEF WaitTimeout
<1>7. CASE Advance \/ Publish \/ WakePollers \/ ThreadExit
  BY <1>7 DEF Advance, Publish, WakePollers, ThreadExit
<1>8. CASE DmaBegin
  <2>1. pc = "waiting" /\ cmp = 0 /\ Len(chan) = 1 /\ Len(pl) = 1
    BY <1>1, <1>8 DEF DmaBegin
  <2>2. UNCHANGED <<pc, cmp, chan, pl, freed>>
    BY <1>8 DEF DmaBegin
  <2> QED BY <2>1, <2>2
<1>9. CASE DmaEnd
  <2>1. pc = "waiting" /\ cmp = 0 /\ Len(chan) = 1 /\ Len(pl) = 1
    BY <1>1, <1>9 DEF DmaEnd
  <2>2. chan' = <<>> /\ pl' = <<>>
    BY <1>1, <1>9, <2>1, OneElement DEF DmaEnd
  <2>3. ~writing' /\ cmp' = cmp + 1 /\ UNCHANGED <<pc, freed>>
    BY <1>9 DEF DmaEnd
  <2> QED BY <2>1, <2>2, <2>3
<1>10. ASSUME NEW f \in Files, FileOp(f)  PROVE OneTransfer'
  BY <1>10, FileOpLeavesEngine
<1>11. CASE RemoveBegin
  BY <1>11 DEF RemoveBegin
<1>12. CASE RemoveEnd
  BY <1>12 DEF RemoveEnd
<1>13. CASE UNCHANGED vars
  BY <1>13 DEF vars
<1> QED
  BY <1>2, <1>3, <1>4, <1>5, <1>6, <1>7, <1>8, <1>9, <1>10, <1>11, <1>12,
     <1>13 DEF Next, Kthread

(* The steps that move a frame along; all the others leave the stream and  *)
(* the ring alone.                                                         *)
LEMMA StreamSteps ==
  ASSUME ~MayTimeout, TypeInv, OneTransfer, [Next]_vars
  PROVE  \/ TransferArm \/ WaitDone \/ Advance \/ DmaBegin \/ DmaEnd
         \/ /\ UNCHANGED <<cmp, producer_idx, frame_seq, chan, writing, tsf, slots>>
            /\ pc' = "advance" <=> pc = "advance"
<1> DEFINE Quiet ==
      /\ UNCHANGED <<cmp, producer_idx, frame_seq, chan, writing, tsf, slots>>
      /\ pc' = "advance" <=> pc = "advance"
<1> USE DEF thrVars, cfgVars, fileVars, hwVars, rmVars, idxVars, pollVars, plVars
<1>1. CASE LoopHead \/ PrepFails \/ SubmitFails \/ TransferTrigger
  BY <1>1 DEF LoopHead, PrepFails, SubmitFails, TransferTrigger, OneTransfer
<1>2. CASE WaitTimeout \/ Publish \/ WakePollers \/ ThreadExit
  BY <1>2 DEF WaitTimeout, Publish, WakePollers, ThreadExit
<1>3. ASSUME NEW f \in Files, FileOp(f)  PROVE Quiet
  BY <1>3, FileOpLeavesEngine
<1>4. CASE RemoveBegin \/ RemoveEnd
  BY <1>4 DEF RemoveBegin, RemoveEnd
<1>5. CASE UNCHANGED vars
  BY <1>5 DEF vars
<1> QED
  BY <1>1, <1>2, <1>3, <1>4, <1>5 DEF Next, Kthread

LEMMA CountStep ==
  ASSUME ~MayTimeout, TypeInv, OneTransfer, DescIsNext, StreamCount, [Next]_vars
  PROVE  DescIsNext' /\ StreamCount'
<1>1. /\ frame_seq \in Nat /\ tsf \in Nat /\ cmp \in Nat
      /\ chan \in Seq(Desc) /\ pl \in Seq(Nat)
  BY DEF TypeInv, TypeOK
<1> USE DEF StreamCount, DescIsNext, Unpublished, idxVars, plVars
<1>2. CASE TransferArm
  <2>1. /\ pc = "transfer" /\ cmp = 0 /\ ~writing /\ chan = <<>>
        /\ pc' = "armed" /\ cmp' = 0 /\ chan' = Append(chan, NextDesc)
        /\ UNCHANGED <<producer_idx, frame_seq, writing, tsf>>
    BY <1>2 DEF TransferArm, OneTransfer
  <2>2. Head(chan') = NextDesc
    BY <2>1, DescriptorAppended, FirstElement DEF TypeInv
  <2>3. DescIsNext'
    BY <2>1, <2>2 DEF NextDesc
  <2> QED BY <1>1, <2>1, <2>3
<1>3. CASE WaitDone
  <2>1. /\ cmp = 1 /\ ~writing /\ pc = "waiting" /\ pc' = "advance" /\ cmp' = 0
        /\ UNCHANGED <<producer_idx, frame_seq, chan, writing, tsf>>
    BY <1>1, <1>3 DEF WaitDone, OneTransfer, hwVars
  <2> QED BY <1>1, <2>1
<1>4. CASE Advance
  <2>1. /\ cmp = 0 /\ ~writing /\ chan = <<>>
        /\ pc = "advance" /\ pc' = "publish"
        /\ producer_idx' = NextIdx(producer_idx) /\ frame_seq' = frame_seq + 1
        /\ UNCHANGED <<cmp, chan, writing, tsf>>
    BY <1>4 DEF Advance, OneTransfer, hwVars
  <2>2. producer_idx' = frame_seq' % U32
    BY <1>1, <2>1, NextIdxOfFrame
  <2> QED BY <1>1, <2>1, <2>2
<1>5. CASE DmaBegin
  <2>1. /\ pc = "waiting" /\ cmp = 0 /\ ~writing /\ writing' /\ tsf' = tsf + 1
        /\ UNCHANGED <<pc, cmp, producer_idx, frame_seq, chan>>
    BY <1>5 DEF DmaBegin, OneTransfer, thrVars
  <2> QED BY <1>1, <2>1
<1>6. CASE DmaEnd
  <2>1. pc = "waiting" /\ cmp = 0 /\ Len(chan) = 1 /\ writing
    BY <1>1, <1>6 DEF DmaEnd, OneTransfer, KthreadPcs
  <2>2. chan' = <<>>
    BY <1>1, <1>6, <2>1, OneElement DEF DmaEnd
  <2>3. ~writing' /\ cmp' = 1 /\ UNCHANGED <<pc, producer_idx, frame_seq, tsf>>
    BY <1>6, <2>1 DEF DmaEnd
  <2> QED BY <1>1, <2>1, <2>2, <2>3
<1>7. CASE /\ UNCHANGED <<cmp, producer_idx, frame_seq, chan, writing, tsf, slots>>
           /\ pc' = "advance" <=> pc = "advance"
  BY <1>7
<1> QED BY <1>2, <1>3, <1>4, <1>5, <1>6, <1>7, StreamSteps

(* Writing into slot s leaves the published frames of other slots alone.   *)
LEMMA PublishedUntouched ==
  ASSUME TypeInv, StreamCount, RingHoldsLastFrames, UNCHANGED frame_seq,
         \A s \in Slots : s # SlotOf(producer_idx) => slots'[s] = slots[s]
  PROVE  RingHoldsLastFrames'
<1>1. frame_seq \in Nat
  BY DEF TypeInv, TypeOK
<1> SUFFICES ASSUME NEW k \in 0 .. frame_seq - 1, frame_seq - k < NumSlots
             PROVE  LET s == slots'[SlotOf(k % U32)]
                    IN  s.head = k + 1 /\ s.tail = k + 1
  BY DEF RingHoldsLastFrames
<1>2. SlotOf(k % U32) # SlotOf(producer_idx)
  BY <1>1, RecentFramesApart DEF StreamCount
<1>3. SlotOf(k % U32) \in Slots
  <2>1. k % U32 \in Nat
    BY <1>1, RingAssumption
  <2> QED BY <2>1, SlotOfType
<1>4. slots'[SlotOf(k % U32)] = slots[SlotOf(k % U32)]
  BY <1>2, <1>3
<1> QED BY <1>4 DEF RingHoldsLastFrames

LEMMA ContentStep ==
  ASSUME ~MayTimeout, TypeInv, SteadyInv, [Next]_vars
  PROVE  NextSlotFilled' /\ RingHoldsLastFrames'
<1>1. /\ frame_seq \in Nat /\ tsf \in Nat /\ cmp \in Nat
      /\ chan \in Seq(Desc) /\ slots \in [Slots -> Slot]
  BY DEF TypeInv, TypeOK
<1>2. OneTransfer /\ DescIsNext /\ StreamCount /\ NextSlotFilled
        /\ RingHoldsLastFrames
  BY DEF SteadyInv, PipeInv
<1>3. SlotOf(producer_idx) \in Slots
  <2>1. producer_idx \in Nat
    BY RingAssumption DEF TypeInv, TypeOK
  <2> QED BY <2>1, SlotOfType
<1> USE DEF Unpublished, idxVars, plVars
<1>4. CASE TransferArm
  <2>1. /\ pc' = "armed" /\ cmp' = 0 /\ ~writing
        /\ UNCHANGED <<producer_idx, frame_seq, writing, tsf, slots>>
    BY <1>2, <1>4 DEF TransferArm, OneTransfer
  <2> QED BY <1>2, <2>1 DEF NextSlotFilled, RingHoldsLastFrames
<1>5. CASE WaitDone
  <2>1. /\ cmp = 1 /\ ~writing
        /\ UNCHANGED <<producer_idx, frame_seq, writing, tsf, slots>>
    BY <1>1, <1>2, <1>5 DEF WaitDone, OneTransfer, hwVars
  <2> QED BY <1>2, <2>1 DEF NextSlotFilled, RingHoldsLastFrames
<1>6. CASE Advance
  <2>1. /\ cmp = 0 /\ ~writing /\ pc = "advance" /\ pc' = "publish"
        /\ frame_seq' = frame_seq + 1
        /\ UNCHANGED <<cmp, writing, tsf, slots>>
    BY <1>2, <1>6 DEF Advance, OneTransfer, hwVars
  <2>2. LET s == slots[SlotOf(frame_seq % U32)]
        IN  s.head = frame_seq + 1 /\ s.tail = frame_seq + 1
    BY <1>1, <1>2, <2>1 DEF NextSlotFilled, StreamCount
  <2>3. RingHoldsLastFrames'
    <3> SUFFICES ASSUME NEW k \in 0 .. frame_seq, frame_seq + 1 - k < NumSlots
                 PROVE  LET s == slots[SlotOf(k % U32)]
                        IN  s.head = k + 1 /\ s.tail = k + 1
      BY <1>1, <2>1 DEF RingHoldsLastFrames
    <3>1. CASE k = frame_seq
      BY <2>2, <3>1
    <3>2. CASE k # frame_seq
      <4>1. k \in 0 .. frame_seq - 1 /\ frame_seq - k < NumSlots
        BY <1>1, <3>2, RingAssumption
      <4> QED BY <1>2, <4>1 DEF RingHoldsLastFrames
    <3> QED BY <3>1, <3>2
  <2>4. NextSlotFilled'
    BY <2>1 DEF NextSlotFilled
  <2> QED BY <2>3, <2>4
<1>7. CASE DmaBegin
  <2>1. /\ chan # <<>> /\ writing' /\ tsf' = tsf + 1
        /\ UNCHANGED <<producer_idx, frame_seq>>
    BY <1>7 DEF DmaBegin, thrVars
  <2>2. Head(chan).slot = SlotOf(producer_idx)
    BY <1>2, <2>1 DEF DescIsNext
  <2>3. slots'[SlotOf(producer_idx)].head = tsf'
    BY <1>1, <1>3, <1>7, <2>1, <2>2 DEF DmaBegin
  <2>4. \A s \in Slots : s # SlotOf(producer_idx) => slots'[s] = slots[s]
    BY <1>1, <1>7, <2>2 DEF DmaBegin
  <2>5. RingHoldsLastFrames'
    BY <1>2, <2>1, <2>4, PublishedUntouched
  <2> QED BY <2>1, <2>3, <2>5 DEF NextSlotFilled
<1>8. CASE DmaEnd
  <2>1. chan # <<>> /\ writing /\ UNCHANGED <<producer_idx, frame_seq, tsf>>
    BY <1>8 DEF DmaEnd, TypeInv, WritingIsAsked
  <2>2. Head(chan).slot = SlotOf(producer_idx)
    BY <1>2, <2>1 DEF DescIsNext
  <2>3. slots'[SlotOf(producer_idx)] =
          [slots[SlotOf(producer_idx)] EXCEPT !.tail = tsf]
    BY <1>1, <1>3, <1>8, <2>2, LandsInOneSlot DEF SteadyInv, SizeInv
  <2>4. slots[SlotOf(producer_idx)].head = tsf
    BY <1>2, <2>1 DEF NextSlotFilled
  <2>5. slots[SlotOf(producer_idx)] \in Slot
    BY <1>1, <1>3
  <2>6. /\ slots'[SlotOf(producer_idx)].head = tsf
        /\ slots'[SlotOf(producer_idx)].tail = tsf
    BY <2>3, <2>4, <2>5 DEF Slot
  <2>7. \A s \in Slots : s # SlotOf(producer_idx) => slots'[s] = slots[s]
    BY <1>1, <1>8, <2>2, LandsInOneSlot DEF SteadyInv, SizeInv
  <2>8. RingHoldsLastFrames'
    BY <1>2, <2>1, <2>7, PublishedUntouched
  <2> QED BY <2>1, <2>6, <2>8 DEF NextSlotFilled
<1>9. CASE /\ UNCHANGED <<cmp, producer_idx, frame_seq, chan, writing, tsf, slots>>
           /\ pc' = "advance" <=> pc = "advance"
  BY <1>2, <1>9 DEF NextSlotFilled, RingHoldsLastFrames
<1> QED BY <1>2, <1>4, <1>5, <1>6, <1>7, <1>8, <1>9, StreamSteps

LEMMA PipeInit == Init => PipeInv
<1> SUFFICES ASSUME Init  PROVE PipeInv
  OBVIOUS
<1>1. StreamCount
  BY RingAssumption DEF Init, StreamCount, Unpublished
<1> QED BY <1>1 DEF Init, PipeInv, OneTransfer, DescIsNext

LEMMA PipeStep == ~MayTimeout => (TypeInv /\ PipeInv /\ [Next]_vars => PipeInv')
BY ControlStep, CountStep DEF PipeInv

LEMMA SteadyInit == FramesFit /\ Init => SteadyInv
BY SizeInit, PipeInit
DEF Init, SteadyInv, NextSlotFilled, Unpublished, RingHoldsLastFrames

LEMMA SteadyStep ==
  ~MayTimeout /\ FramesFit => (TypeInv /\ SteadyInv /\ [Next]_vars => SteadyInv')
BY SizeStep, PipeStep, ContentStep DEF SteadyInv

-----------------------------------------------------------------------------
(* More than RingHoldsLastFrames: until the next frame begins to come, the *)
(* ring holds NumSlots frames, the oldest one in the slot that is written  *)
(* next.                                                                   *)
RingHoldsLap ==
  \A k \in 0 .. frame_seq - 1 :
    tsf - k <= NumSlots =>
      LET s == slots[SlotOf(k % U32)]
      IN  s.head = k + 1 /\ s.tail = k + 1

(* However long ago frame k was published: its slot holds it, or a frame   *)
(* that is a number of whole laps later, or parts of two such frames.      *)
Since(k, f) == f >= k + 1 /\ (f - k - 1) % NumSlots = 0

SlotsAgeInLaps ==
  \A k \in 0 .. frame_seq - 1 :
    LET s == slots[SlotOf(k % U32)]
    IN  Since(k, s.head) /\ Since(k, s.tail)

(* The slot that is written is that of no frame published less than        *)
(* NumSlots ago, and of those whole laps ago.                              *)
LEMMA SlotReused ==
  ASSUME TypeInv, StreamCount, NEW k \in 0 .. frame_seq - 1
  PROVE  /\ SlotOf(k % U32) \in Slots
         /\ frame_seq - k < NumSlots => SlotOf(k % U32) # SlotOf(producer_idx)
         /\ SlotOf(k % U32) = SlotOf(producer_idx) => Since(k, frame_seq + 1)
<1>1. frame_seq \in Nat /\ k \in Nat /\ k < frame_seq
  BY DEF TypeInv, TypeOK
<1>2. k % U32 \in Nat
  BY <1>1, RingAssumption
<1>3. SlotOf(k % U32) = SlotOf(producer_idx) => (frame_seq - k) % NumSlots = 0
  BY <1>1, FramesLapsApart DEF StreamCount
<1> QED
  BY <1>1, <1>2, <1>3, SlotOfType, RecentFramesApart DEF StreamCount, Since

(* What a step of the engine does to the ring.                             *)
LEMMA EngineWrites ==
  ASSUME TypeInv, DmaInsideSlot, DescIsNext, DmaBegin \/ DmaEnd
  PROVE  /\ \A s \in Slots : s # SlotOf(producer_idx) => slots'[s] = slots[s]
         /\ DmaBegin => /\ slots'[SlotOf(producer_idx)].head = tsf + 1
                        /\ slots'[SlotOf(producer_idx)].tail
                             = slots[SlotOf(producer_idx)].tail
         /\ DmaEnd => /\ slots'[SlotOf(producer_idx)].head
                           = slots[SlotOf(producer_idx)].head
                      /\ slots'[SlotOf(producer_idx)].tail = tsf
<1>1. /\ slots \in [Slots -> Slot] /\ tsf \in Nat
      /\ producer_idx \in Nat
  BY RingAssumption DEF TypeInv, TypeOK
<1>2. SlotOf(producer_idx) \in Slots /\ slots[SlotOf(producer_idx)] \in Slot
  BY <1>1, SlotOfType
<1>3. chan # <<>>
  BY DEF DmaBegin, DmaEnd, TypeInv, WritingIsAsked
<1>4. Head(chan).slot = SlotOf(producer_idx)
  BY <1>3 DEF DescIsNext
<1>5. CASE DmaBegin
  <2>1. ~DmaEnd
    BY <1>5 DEF DmaBegin, DmaEnd
  <2>2. slots' = [slots EXCEPT ![SlotOf(producer_idx)] =
                    [head  |-> tsf + 1,
                     tail  |-> slots[SlotOf(producer_idx)].tail,
                     numEq |-> reg_num_eq,
                     bytes |-> TransferBytes]]
    BY <1>4, <1>5 DEF DmaBegin
  <2> QED BY <1>1, <1>2, <2>1, <2>2
<1>6. CASE DmaEnd
  <2>1. ~DmaBegin
    BY <1>6 DEF DmaBegin, DmaEnd
  <2>2. slots' = [slots EXCEPT ![SlotOf(producer_idx)].tail = tsf]
    BY <1>4, <1>6, LandsInOneSlot
  <2>3. slots'[SlotOf(producer_idx)] =
          [slots[SlotOf(producer_idx)] EXCEPT !.tail = tsf]
    BY <1>1, <1>2, <2>2
  <2> QED BY <1>1, <1>2, <2>1, <2>2, <2>3 DEF Slot
<1> QED BY <1>5, <1>6

LEMMA LapStep ==
  ASSUME ~MayTimeout, TypeInv, SteadyInv, RingHoldsLap, [Next]_vars
  PROVE  RingHoldsLap'
<1>1. frame_seq \in Nat /\ tsf \in Nat
  BY DEF TypeInv, TypeOK
<1>2. OneTransfer /\ DescIsNext /\ StreamCount /\ NextSlotFilled /\ DmaInsideSlot
  BY DEF SteadyInv, PipeInv, SizeInv
<1>3. CASE TransferArm \/ WaitDone
  <2>1. UNCHANGED <<frame_seq, tsf, slots>>
    BY <1>3 DEF TransferArm, WaitDone, idxVars, plVars, hwVars
  <2> QED BY <2>1 DEF RingHoldsLap
<1>4. CASE Advance
  <2>1. /\ ~writing /\ pc = "advance"
        /\ frame_seq' = frame_seq + 1
        /\ UNCHANGED <<tsf, slots>>
    BY <1>2, <1>4 DEF Advance, OneTransfer, hwVars
  <2>2. LET s == slots[SlotOf(frame_seq % U32)]
        IN  s.head = frame_seq + 1 /\ s.tail = frame_seq + 1
    BY <1>1, <1>2, <2>1 DEF NextSlotFilled, StreamCount, Unpublished
  <2> SUFFICES ASSUME NEW k \in 0 .. frame_seq, tsf - k <= NumSlots
               PROVE  LET s == slots[SlotOf(k % U32)]
                      IN  s.head = k + 1 /\ s.tail = k + 1
    BY <1>1, <2>1 DEF RingHoldsLap
  <2>3. k = frame_seq \/ k \in 0 .. frame_seq - 1
    BY <1>1
  <2> QED BY <2>2, <2>3 DEF RingHoldsLap
<1>5. CASE DmaBegin \/ DmaEnd
  <2>1. tsf' = frame_seq + 1 /\ frame_seq' = frame_seq /\ tsf' >= tsf
    <3>1. CASE DmaBegin
      <4>1. ~Unpublished
        BY <1>2, <3>1 DEF DmaBegin, OneTransfer, Unpublished
      <4> QED BY <1>1, <1>2, <3>1, <4>1 DEF DmaBegin, StreamCount, thrVars
    <3>2. CASE DmaEnd
      BY <1>1, <1>2, <3>2 DEF DmaEnd, StreamCount, Unpublished, idxVars
    <3> QED BY <1>5, <3>1, <3>2
  <2> SUFFICES ASSUME NEW k \in 0 .. frame_seq - 1, frame_seq + 1 - k <= NumSlots
               PROVE  LET s == slots'[SlotOf(k % U32)]
                      IN  s.head = k + 1 /\ s.tail = k + 1
    BY <1>1, <2>1 DEF RingHoldsLap
  <2>2. tsf - k <= NumSlots /\ frame_seq - k < NumSlots
    BY <1>1, <2>1, RingAssumption
  <2>3. slots'[SlotOf(k % U32)] = slots[SlotOf(k % U32)]
    BY <1>2, <1>5, <2>2, SlotReused, EngineWrites
  <2> QED BY <2>2, <2>3 DEF RingHoldsLap
<1>6. CASE /\ UNCHANGED <<cmp, producer_idx, frame_seq, chan, writing, tsf, slots>>
           /\ pc' = "advance" <=> pc = "advance"
  BY <1>6 DEF RingHoldsLap
<1> QED BY <1>2, <1>3, <1>4, <1>5, <1>6, StreamSteps

LEMMA AgeStep ==
  ASSUME ~MayTimeout, TypeInv, SteadyInv, SlotsAgeInLaps, [Next]_vars
  PROVE  SlotsAgeInLaps'
<1>1. frame_seq \in Nat /\ tsf \in Nat
  BY DEF TypeInv, TypeOK
<1>2. OneTransfer /\ DescIsNext /\ StreamCount /\ NextSlotFilled /\ DmaInsideSlot
  BY DEF SteadyInv, PipeInv, SizeInv
<1>3. CASE TransferArm \/ WaitDone
  <2>1. UNCHANGED <<frame_seq, tsf, slots>>
    BY <1>3 DEF TransferArm, WaitDone, idxVars, plVars, hwVars
  <2> QED BY <2>1 DEF SlotsAgeInLaps
<1>4. CASE Advance
  <2>1. /\ ~writing /\ pc = "advance"
        /\ frame_seq' = frame_seq + 1
        /\ UNCHANGED <<tsf, slots>>
    BY <1>2, <1>4 DEF Advance, OneTransfer, hwVars
  <2>2. LET s == slots[SlotOf(frame_seq % U32)]
        IN  s.head = frame_seq + 1 /\ s.tail = frame_seq + 1
    BY <1>1, <1>2, <2>1 DEF NextSlotFilled, StreamCount, Unpublished
  <2>3. Since(frame_seq, frame_seq + 1)
    BY <1>1, RingAssumption DEF Since
  <2> SUFFICES ASSUME NEW k \in 0 .. frame_seq
               PROVE  LET s == slots[SlotOf(k % U32)]
                      IN  Since(k, s.head) /\ Since(k, s.tail)
    BY <1>1, <2>1 DEF SlotsAgeInLaps
  <2>4. k = frame_seq \/ k \in 0 .. frame_seq - 1
    BY <1>1
  <2> QED BY <2>2, <2>3, <2>4 DEF SlotsAgeInLaps
<1>5. CASE DmaBegin \/ DmaEnd
  <2>1. /\ frame_seq' = frame_seq
        /\ DmaBegin => tsf + 1 = frame_seq + 1
        /\ DmaEnd => tsf = frame_seq + 1
    <3>1. CASE DmaBegin
      <4>1. ~Unpublished /\ ~DmaEnd
        BY <1>2, <3>1 DEF DmaBegin, DmaEnd, OneTransfer, Unpublished
      <4> QED BY <1>1, <1>2, <3>1, <4>1 DEF DmaBegin, StreamCount, thrVars
    <3>2. CASE DmaEnd
      BY <1>1, <1>2, <3>2 DEF DmaBegin, DmaEnd, StreamCount, Unpublished, idxVars
    <3> QED BY <1>5, <3>1, <3>2
  <2> SUFFICES ASSUME NEW k \in 0 .. frame_seq - 1
               PROVE  LET s == slots'[SlotOf(k % U32)]
                      IN  Since(k, s.head) /\ Since(k, s.tail)
    BY <1>1, <2>1 DEF SlotsAgeInLaps
  <2>2. LET s == slots[SlotOf(k % U32)]
        IN  Since(k, s.head) /\ Since(k, s.tail)
    BY DEF SlotsAgeInLaps
  <2>3. CASE SlotOf(k % U32) # SlotOf(producer_idx)
    BY <1>2, <1>5, <2>2, <2>3, SlotReused, EngineWrites
  <2>4. CASE SlotOf(k % U32) = SlotOf(producer_idx)
    <3>1. Since(k, frame_seq + 1)
      BY <1>2, <2>4, SlotReused
    <3> QED BY <1>2, <1>5, <2>1, <2>2, <2>4, <3>1, EngineWrites
  <2> QED BY <2>3, <2>4
<1>6. CASE /\ UNCHANGED <<cmp, producer_idx, frame_seq, chan, writing, tsf, slots>>
           /\ pc' = "advance" <=> pc = "advance"
  BY <1>6 DEF SlotsAgeInLaps
<1> QED BY <1>2, <1>3, <1>4, <1>5, <1>6, StreamSteps

LEMMA RingInit == Init => RingHoldsLap /\ SlotsAgeInLaps
BY DEF Init, RingHoldsLap, SlotsAgeInLaps

(* Index and number of frames go together, in the device and in the header,*)
(* which is one frame behind between Advance and Publish.                  *)
IndexIsCount ==
  /\ producer_idx = frame_seq % U32
  /\ meta.producer_idx = meta.frame_seq % U32
  /\ frame_seq = meta.frame_seq + (IF pc = "publish" THEN 1 ELSE 0)

(* Of the header a system call writes num_eq only.                         *)
LEMMA FileOpLeavesCounts ==
  ASSUME TypeInv, NEW f \in Files, FileOp(f)
  PROVE  /\ meta'.frame_seq = meta.frame_seq
         /\ meta'.producer_idx = meta.producer_idx
<1>1. CASE Open(f) \/ Release(f) \/ Start(f) \/ Stop(f)
  BY <1>1 DEF Open, Release, Start, Stop, SetRunning
<1>2. ASSUME NEW n \in NumEqArgs, SetNumEqBegin(f, n)  PROVE UNCHANGED meta
  BY <1>2 DEF SetNumEqBegin
<1>3. CASE Poll(f)
  BY <1>3 DEF Poll, PollQueue, PollReady, PollSleep, PollWoken, PollExpire,
              PollNothing, PollInterrupted
<1>4. CASE SetNumEqEnd(f)
  <2>1. meta \in [producer_idx : 0 .. U32 - 1, frame_seq : Nat,
                  dma_err_count : 0 .. U32 - 1, num_eq : Nat]
    BY DEF TypeInv, TypeOK
  <2> QED BY <1>4, <2>1 DEF SetNumEqEnd
<1>5. CASE SetNumEqReg(f)
  BY <1>5 DEF SetNumEqReg
<1> QED BY <1>1, <1>2, <1>3, <1>4, <1>5 DEF FileOp

LEMMA IndexInit == Init => IndexIsCount
BY RingAssumption DEF Init, IndexIsCount

LEMMA IndexStep ==
  ASSUME TypeInv, IndexIsCount, [Next]_vars
  PROVE  IndexIsCount'
<1>1. /\ meta \in [producer_idx : 0 .. U32 - 1, frame_seq : Nat,
                   dma_err_count : 0 .. U32 - 1, num_eq : Nat]
      /\ frame_seq \in Nat
  BY DEF TypeInv, TypeOK
<1> USE DEF IndexIsCount, thrVars, cfgVars, fileVars, hwVars, rmVars, idxVars,
           pollVars, plVars
<1>2. CASE LoopHead \/ TransferArm \/ PrepFails \/ SubmitFails \/ TransferTrigger
  BY <1>2 DEF LoopHead, TransferArm, PrepFails, SubmitFails, TransferTrigger
<1>3. CASE WaitDone \/ WaitTimeout \/ WakePollers \/ ThreadExit
  BY <1>3 DEF WaitDone, WaitTimeout, WakePollers, ThreadExit
<1>4. CASE Advance
  <2>1. NextIdx(frame_seq % U32) = (frame_seq + 1) % U32
    BY <1>1, NextIdxOfFrame
  <2> QED BY <1>1, <1>4, <2>1 DEF Advance
<1>5. CASE Publish
  BY <1>1, <1>5 DEF Publish
<1>6. CASE DmaBegin \/ DmaEnd
  BY <1>6 DEF DmaBegin, DmaEnd
<1>7. ASSUME NEW f \in Files, FileOp(f)  PROVE IndexIsCount'
  BY <1>7, FileOpLeavesEngine, FileOpLeavesCounts
<1>8. CASE RemoveBegin \/ RemoveEnd
  BY <1>8 DEF RemoveBegin, RemoveEnd
<1>9. CASE UNCHANGED vars
  BY <1>9 DEF vars
<1> QED
  BY <1>2, <1>3, <1>4, <1>5, <1>6, <1>7, <1>8, <1>9 DEF Next, Kthread

-----------------------------------------------------------------------------
(* With no timeout, the engine only ever writes into the slot the driver   *)
(* announces next.                                                         *)
THEOREM WritesAreAhead == ASSUME ~MayTimeout  PROVE Spec => []WritesOnlyNextSlot
<1>1. TypeInv /\ PipeInv /\ [Next]_vars => PipeInv'
  BY PipeStep
<1>2. TypeInv /\ PipeInv => WritesOnlyNextSlot
  BY DEF TypeInv, WritingIsAsked, PipeInv, DescIsNext, WritesOnlyNextSlot
<1> QED BY TypeInit, TypeStep, PipeInit, <1>1, <1>2, PTL DEF Spec

(* With no timeout, and slots that hold a frame, the last NumSlots - 1     *)
(* published frames are whole and in their slots, however long the stream  *)
(* runs, the indices wrap and SET_NUM_EQ resizes the frame under way.      *)
THEOREM RingIsAWindow ==
  ASSUME ~MayTimeout, FramesFit  PROVE Spec => []RingHoldsLastFrames
<1>1. Init => SteadyInv
  BY SteadyInit
<1>2. TypeInv /\ SteadyInv /\ [Next]_vars => SteadyInv'
  BY SteadyStep
<1>3. TypeInv /\ SteadyInv => RingHoldsLastFrames
  BY DEF SteadyInv
<1> QED BY TypeInit, TypeStep, <1>1, <1>2, <1>3, PTL DEF Spec

(* With no timeout, unloading the module leaves no transfer behind that    *)
(* could write into the memory it frees.                                   *)
THEOREM RemovalIsSafe == ASSUME ~MayTimeout  PROVE Spec => []FreedRingIsQuiet
<1>1. TypeInv /\ PipeInv /\ [Next]_vars => PipeInv'
  BY PipeStep
<1>2. TypeInv /\ PipeInv => FreedRingIsQuiet
  BY DEF PipeInv, OneTransfer, FreedRingIsQuiet
<1> QED BY TypeInit, TypeStep, PipeInit, <1>1, <1>2, PTL DEF Spec
=============================================================================
