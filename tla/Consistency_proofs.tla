------------------------- MODULE Consistency_proofs -------------------------
(***************************************************************************)
(* What the dump of a csi_bench can hold, and what the classifier of       *)
(* csi_consistency.py may conclude from it, for every size of the ring and *)
(* however late the capture is.                                            *)
(***************************************************************************)
EXTENDS Consistency, CsiBench_proofs, FiniteSetTheorems

Half        == Nat \union {Mixed}
DumpedFrame == [tsf : Nat, a : Half, b : Half]

LEMMA ConsStepIsBenchStep == [ConsNext]_consVars => [BenchNext]_allVars
BY DEF ConsNext, consVars

(* A copied frame is made of what is in the slot and of the frame whose    *)
(* TSF was read from it.                                                   *)
LEMMA CopiesParts ==
  ASSUME TypeInv, BenchTypeInv, NEW p \in Files, NEW f \in Copies(p)
  PROVE  /\ f \in DumpedFrame
         /\ Parts(f) \subseteq {SlotRead(p).head, SlotRead(p).tail, prev_tsf[p]}
<1> DEFINE s == SlotRead(p)
<1>1. NextRead(p) \in Nat
  BY RingAssumption DEF NextRead, BenchTypeInv, BenchTypeOK
<1>2. s \in Slot /\ prev_tsf[p] \in Nat
  BY <1>1, SlotOfType DEF SlotRead, TypeInv, TypeOK, BenchTypeInv, BenchTypeOK
<1>3. s.head \in Nat /\ s.tail \in Nat
  BY <1>2 DEF Slot
<1> HIDE DEF s
<1>4. ASSUME NEW h \in Nat, NEW t \in Nat, f \in AtOnce(h, t)
      PROVE  f \in DumpedFrame /\ Parts(f) \subseteq {h, t}
  <2>1. CASE h = t
    BY <1>4, <2>1 DEF AtOnce, DumpedFrame, Half, Parts
  <2>2. CASE h # t
    BY <1>4, <2>2 DEF AtOnce, DumpedFrame, Half, Parts
  <2> QED BY <2>1, <2>2
<1>5. ASSUME NEW h \in Nat, NEW t \in Nat, f \in Overtaken(h, t)
      PROVE  f \in DumpedFrame /\ Parts(f) \subseteq {h, t}
  <2>1. CASE h = t
    BY <1>5, <2>1 DEF Overtaken, DumpedFrame, Half, Parts
  <2>2. CASE h # t
    BY <1>5, <2>2 DEF Overtaken, DumpedFrame, Half, Parts
  <2> QED BY <2>1, <2>2
<1>6. f \in AtOnce(s.head, s.tail) \/ f \in Overtaken(prev_tsf[p], s.tail)
  BY DEF Copies, s
<1> QED
  BY <1>2, <1>3, <1>4, <1>5, <1>6 DEF s

(* The dump is written by Zc alone, when it opens the file and with each   *)
(* slot it copies.                                                         *)
LEMMA DumpSteps ==
  ASSUME BenchTypeOK, [ConsNext]_consVars
  PROVE  \/ /\ StartStream(Zc) /\ at[Zc] = "start" /\ at'[Zc] = "poll"
            /\ dump' = <<>>
         \/ /\ CopySlot(Zc) /\ at[Zc] = "copy_slot" /\ at'[Zc] = "read_slots"
            /\ \E f \in Copies(Zc) : dump' = Append(dump, f)
         \/ /\ UNCHANGED dump
            /\ OpenDev(Zc) \/ Run(Zc) \/ Kill(Zc)
            /\ ~StartStream(Zc) /\ ~CopySlot(Zc)
         \/ /\ UNCHANGED dump /\ UNCHANGED View(Zc)
<1>1. Zc \in Files
  BY ConsistencyAssumption
<1>2. CASE UNCHANGED consVars
  BY <1>2 DEF consVars, allVars, benchVars, readVars, View
<1>3. CASE DumpStep /\ (DriverStep \/ FrameArrives)
  BY <1>3, DriverLeavesBenches DEF DumpStep, benchVars, readVars, View
<1>4. ASSUME NEW q \in Files, q # Zc, OpenDev(q) \/ Run(q) \/ Kill(q), DumpStep
      PROVE  UNCHANGED dump /\ UNCHANGED View(Zc)
  <2>1. UNCHANGED View(Zc)
    BY <1>1, <1>4, OthersStand
  <2> QED BY <1>4, <2>1 DEF DumpStep, View
<1>5. CASE DumpStep /\ StartStream(Zc)
  BY <1>1, <1>5 DEF DumpStep, StartStream, Goto, BenchTypeOK
<1>6. CASE DumpStep /\ CopySlot(Zc)
  BY <1>1, <1>6 DEF DumpStep, CopySlot, Goto, BenchTypeOK
<1>7. ASSUME DumpStep, OpenDev(Zc) \/ Run(Zc) \/ Kill(Zc),
             ~StartStream(Zc), ~CopySlot(Zc)
      PROVE  UNCHANGED dump
  <2>1. at[Zc] = "start" => at'[Zc] # "poll"
    <3> SUFFICES ASSUME at[Zc] = "start"  PROVE at'[Zc] # "poll"
      OBVIOUS
    <3>1. OutputFails(Zc) \/ Kill(Zc)
      BY <1>7 DEF Run, OpenDev, SetNumEq, SetNumEqReturns, MapRing, MapFails,
        PollDev, PollFails, ReadIndex, ReadTsf, ReadAll, KeepPolling,
        DurationOver, StopStream, CloseDev
    <3> QED BY <1>1, <3>1 DEF OutputFails, Kill, Goto, BenchTypeOK
  <2>2. at[Zc] = "copy_slot" => at'[Zc] # "read_slots"
    <3> SUFFICES ASSUME at[Zc] = "copy_slot"  PROVE at'[Zc] # "read_slots"
      OBVIOUS
    <3>1. Kill(Zc)
      BY <1>7 DEF Run, OpenDev, SetNumEq, SetNumEqReturns, MapRing, MapFails,
        OutputFails, PollDev, PollFails, ReadIndex, ReadTsf, ReadAll,
        KeepPolling, DurationOver, StopStream, CloseDev
    <3> QED BY <1>1, <3>1 DEF Kill, Goto, BenchTypeOK
  <2> QED BY <1>7, <2>1, <2>2 DEF DumpStep
<1> QED
  BY <1>1, <1>2, <1>3, <1>4, <1>5, <1>6, <1>7 DEF ConsNext, BenchNext

(* The dump has the frames that are done.                                  *)
DumpOK ==
  /\ dump \in Seq(DumpedFrame)
  /\ at[Zc] \in Capture => Len(dump) = Done(Zc) - first[Zc]

ConsTyped == TypeInv /\ BenchTypeInv /\ CountInv /\ DumpOK

(* A capture's own steps other than START and the copy of a slot add       *)
(* nothing to what is done, and only ReadTsf gets it to the copy.          *)
LEMMA DumpStands ==
  ASSUME ConsTyped, OpenDev(Zc) \/ Run(Zc) \/ Kill(Zc),
         ~StartStream(Zc), ~CopySlot(Zc)
  PROVE  /\ Dumping' => Dumping /\ first'[Zc] = first[Zc]
         /\ at'[Zc] \in Capture => at[Zc] \in Capture /\ Done(Zc)' = Done(Zc)
         /\ at'[Zc] = "copy_slot" => ReadTsf(Zc)
<1>1. Zc \in Files /\ BenchTypeOK
  BY ConsistencyAssumption DEF ConsTyped, BenchTypeInv
<1>2. /\ at \in [Files -> {"idle"} \union Setup \union Capture \union Finish]
      /\ total \in [Files -> Nat] /\ first \in [Files -> Nat]
  BY <1>1 DEF BenchTypeOK
<1> USE DEF readVars, Goto
<1>3. CASE MapRing(Zc)
  <2>1. at'[Zc] = "start"
    BY <1>1, <1>2, <1>3 DEF MapRing
  <2> QED BY <2>1 DEF Dumping, Capture
<1>4. CASE ReadTsf(Zc)
  <2>1. /\ at[Zc] = "read_slots" /\ at'[Zc] = "copy_slot"
        /\ total'[Zc] = total[Zc] + 1 /\ first'[Zc] = first[Zc]
    BY <1>1, <1>2, <1>4 DEF ReadTsf
  <2>2. Done(Zc)' = Done(Zc)
    BY <1>1, <1>2, <2>1 DEF Done
  <2> QED BY <1>4, <2>1, <2>2 DEF Dumping, Capture
<1>5. CASE at'[Zc] = "stop"
  <2>1. DurationOver(Zc) \/ PollFails(Zc)
    BY <1>1, <1>2, <1>5 DEF Run, OpenDev, SetNumEq, SetNumEqReturns, MapRing,
      MapFails, OutputFails, PollDev, PollReturns, ReadIndex, ReadTsf,
      ReadAll, KeepPolling, StopStream, CloseDev, Kill
  <2>2. at[Zc] \in Capture /\ UNCHANGED readVars
    BY <2>1 DEF DurationOver, PollFails, Capture
  <2> QED BY <1>5, <2>2 DEF Dumping, Capture
<1>6. CASE at'[Zc] \notin Following /\ at'[Zc] # "stop"
  BY <1>6 DEF Dumping, Following, Capture
<1>7. CASE /\ at[Zc] \in Following \ {"copy_slot"}
           /\ at'[Zc] \in Capture \ {"copy_slot"}
           /\ at[Zc] # "start"
           /\ total'[Zc] = total[Zc] /\ first'[Zc] = first[Zc]
  <2>1. at[Zc] \in Capture /\ Done(Zc)' = Done(Zc)
    BY <1>7 DEF Following, Done
  <2> QED BY <1>7, <2>1 DEF Dumping
<1>8. at[Zc] = "start" => at'[Zc] # "poll"
  <2> SUFFICES ASSUME at[Zc] = "start"  PROVE at'[Zc] # "poll"
    OBVIOUS
  <2>1. OutputFails(Zc) \/ Kill(Zc)
    BY DEF Run, OpenDev, SetNumEq, SetNumEqReturns, MapRing, MapFails,
      PollDev, PollFails, ReadIndex, ReadTsf, ReadAll, KeepPolling,
      DurationOver, StopStream, CloseDev
  <2> QED BY <1>1, <1>2, <2>1 DEF OutputFails, Kill
<1> QED
  BY <1>1, <1>3, <1>4, <1>5, <1>6, <1>7, <1>8, OwnProgress

(* With START the dump is empty, and nothing is counted.                   *)
LEMMA DumpStarts ==
  ASSUME ConsTyped, StartStream(Zc), at[Zc] = "start", dump' = <<>>
  PROVE  /\ dump' \in Seq(DumpedFrame) /\ Len(dump') = 0
         /\ DOMAIN dump' = {}
         /\ Done(Zc)' = first'[Zc] /\ first'[Zc] \in Nat
<1>1. Zc \in Files /\ BenchTypeOK /\ IndicesAreCounts(Zc)
  BY ConsistencyAssumption DEF ConsTyped, BenchTypeInv, CountInv
<1>2. /\ total[Zc] = 0 /\ first[Zc] \in Nat /\ UNCHANGED <<total, first>>
      /\ at'[Zc] = "poll"
  BY <1>1 DEF IndicesAreCounts, Following, StartStream, readVars, Goto,
    BenchTypeOK
<1>3. Done(Zc)' = first[Zc]
  BY <1>2 DEF Done
<1> QED BY <1>2, <1>3, EmptySeq

(* The copy of a slot adds the frame that was owed next.                   *)
LEMMA DumpGrows ==
  ASSUME ConsTyped, CopySlot(Zc), at[Zc] = "copy_slot", at'[Zc] = "read_slots",
         NEW f \in Copies(Zc), dump' = Append(dump, f)
  PROVE  /\ at[Zc] \in Capture
         /\ UNCHANGED <<total, first, prev_tsf>>
         /\ offset[Zc] < IdxDiff(prod[Zc], last[Zc])
         /\ f \in DumpedFrame
         /\ Parts(f) \subseteq
              {SlotRead(Zc).head, SlotRead(Zc).tail, prev_tsf[Zc]}
         /\ first[Zc] \in Nat /\ Done(Zc) \in Nat
         /\ Done(Zc) = first[Zc] + total[Zc] - 1 /\ Done(Zc)' = Done(Zc) + 1
         /\ Len(dump) \in Nat /\ Len(dump) = Done(Zc) - first[Zc]
         /\ dump' \in Seq(DumpedFrame) /\ Len(dump') = Len(dump) + 1
         /\ dump'[Len(dump) + 1] = f
         /\ \A i \in 1 .. Len(dump) : dump'[i] = dump[i]
<1>1. /\ Zc \in Files /\ TypeInv /\ BenchTypeInv /\ BenchTypeOK
      /\ dump \in Seq(DumpedFrame) /\ IndicesAreCounts(Zc)
  BY ConsistencyAssumption DEF ConsTyped, DumpOK, BenchTypeInv, CountInv
<1>2. /\ total \in [Files -> Nat] /\ first \in [Files -> Nat]
      /\ at[Zc] \in Capture
  BY <1>1 DEF BenchTypeOK, Capture
<1>3. /\ offset[Zc] < IdxDiff(prod[Zc], last[Zc])
      /\ UNCHANGED <<total, first, prev_tsf>>
  BY <1>1 DEF CopySlot, BenchTypeInv, CopiesNewFrame
<1>4. /\ f \in DumpedFrame
      /\ Parts(f) \subseteq {SlotRead(Zc).head, SlotRead(Zc).tail, prev_tsf[Zc]}
  BY <1>1, CopiesParts
<1>5. /\ Done(Zc) \in Nat /\ Done(Zc)' = Done(Zc) + 1
      /\ Done(Zc) = first[Zc] + total[Zc] - 1
  <2>1. offset[Zc] \in Nat /\ offset[Zc] <= Done(Zc) - first[Zc]
    <3>1. at[Zc] \in Following
      BY <1>2 DEF Following
    <3>2. offset[Zc] <= Done(Zc) - first[Zc]
      BY <1>1, <3>1 DEF IndicesAreCounts
    <3>3. offset[Zc] \in 0 .. U32 - 1
      BY <1>1 DEF BenchTypeOK
    <3> QED BY <3>2, <3>3, RingAssumption
  <2>2. /\ Done(Zc) = first[Zc] + total[Zc] - 1
        /\ Done(Zc)' = first[Zc] + total[Zc]
    BY <1>1, <1>2, <1>3 DEF Done
  <2>3. first[Zc] \in Nat /\ total[Zc] \in Nat
    BY <1>1, <1>2
  <2>4. \A a, t, o \in Nat :
          o <= (a + t - 1) - a => a + t - 1 \in Nat /\ a + t = (a + t - 1) + 1
    OBVIOUS
  <2>5. offset[Zc] <= (first[Zc] + total[Zc] - 1) - first[Zc]
    BY <2>1, <2>2
  <2> QED BY <2>1, <2>2, <2>3, <2>4, <2>5
<1>6. Len(dump) = Done(Zc) - first[Zc]
  BY <1>2 DEF ConsTyped, DumpOK
<1>7. /\ dump' \in Seq(DumpedFrame) /\ Len(dump') = Len(dump) + 1
      /\ dump'[Len(dump) + 1] = f
      /\ \A i \in 1 .. Len(dump) : dump'[i] = dump[i]
  BY <1>1, <1>4, AppendProperties
<1> QED BY <1>1, <1>2, <1>3, <1>4, <1>5, <1>6, <1>7

LEMMA DumpOKStep == ConsTyped /\ [ConsNext]_consVars => DumpOK'
<1> SUFFICES ASSUME ConsTyped, [ConsNext]_consVars  PROVE DumpOK'
  OBVIOUS
<1>1. BenchTypeOK /\ DumpOK
  BY DEF ConsTyped, BenchTypeInv
<1>2. CASE StartStream(Zc) /\ at[Zc] = "start" /\ dump' = <<>>
  BY <1>2, DumpStarts DEF DumpOK
<1>3. ASSUME CopySlot(Zc), at[Zc] = "copy_slot", at'[Zc] = "read_slots",
             NEW f \in Copies(Zc), dump' = Append(dump, f)
      PROVE  DumpOK'
  BY <1>3, DumpGrows DEF DumpOK
<1>4. CASE /\ UNCHANGED dump /\ ~StartStream(Zc) /\ ~CopySlot(Zc)
           /\ OpenDev(Zc) \/ Run(Zc) \/ Kill(Zc)
  BY <1>1, <1>4, DumpStands DEF DumpOK, Dumping
<1>5. CASE UNCHANGED dump /\ UNCHANGED View(Zc)
  BY <1>1, <1>5 DEF View, DumpOK, Done
<1> QED BY <1>1, <1>2, <1>3, <1>4, <1>5, DumpSteps

LEMMA ConsTypedInit == ConsInit => ConsTyped
<1> SUFFICES ASSUME ConsInit  PROVE ConsTyped
  OBVIOUS
<1>1. at[Zc] = "idle" /\ dump = <<>>
  BY ConsistencyAssumption DEF ConsInit, BenchInit
<1>2. DumpOK
  BY <1>1, EmptySeq DEF DumpOK, Capture
<1> QED BY <1>2, BenchTypeInit, CountInit DEF ConsInit, ConsTyped

LEMMA ConsTypedStep == ConsTyped /\ [ConsNext]_consVars => ConsTyped'
BY ConsStepIsBenchStep, BenchTypeStep, CountInvStep, DumpOKStep DEF ConsTyped

-----------------------------------------------------------------------------
(* The dump of a capture, however late.                                    *)

(* A TSF that was counted is of the frame that was owed or of a later one  *)
(* of its slot.                                                            *)
TakenOwedOrLater == at[Zc] = "copy_slot" => Since(Done(Zc), prev_tsf[Zc])

LateInv == SteadyInv /\ SlotsAgeInLaps /\ TakenOwedOrLater /\ PartsOwedOrLater

(* A frame that is read was published.                                     *)
LEMMA SlotOfNewFrame ==
  ASSUME TypeInv, BenchTypeInv, CountInv, SteadyInv, NEW p \in Files,
         at[p] \in {"read_slots", "copy_slot"},
         offset[p] < IdxDiff(prod[p], last[p])
  PROVE  /\ Done(p) \in 0 .. frame_seq - 1
         /\ SlotRead(p) = slots[SlotOf(Done(p) % U32)]
<1>1. at[p] \in Following /\ BenchTypeOK /\ IndexIsCount
      /\ OneTransfer /\ StreamCount /\ IndicesAreCounts(p)
  BY DEF Following, Capture, BenchTypeInv, CountInv, SteadyInv, PipeInv
<1>2. Done(p) \in Nat /\ NextRead(p) = Done(p) % U32
  BY <1>1, NextReadIsDone
<1>3. Done(p) < meta.frame_seq
  BY <1>1, DoneIsPublished
<1>4. /\ meta.frame_seq \in Nat /\ frame_seq \in Nat
      /\ meta.frame_seq <= frame_seq
  BY <1>1, HeaderIsClose
<1> QED BY <1>2, <1>3, <1>4 DEF SlotRead

LEMMA LateStep ==
  ASSUME ~MayTimeout, FramesFit, ConsTyped, LateInv, [ConsNext]_consVars
  PROVE  LateInv'
<1>1. /\ Zc \in Files /\ TypeInv /\ BenchTypeInv /\ BenchTypeOK /\ CountInv
      /\ SteadyInv /\ SlotsAgeInLaps /\ TakenOwedOrLater /\ PartsOwedOrLater
      /\ dump \in Seq(DumpedFrame)
  BY ConsistencyAssumption DEF ConsTyped, DumpOK, LateInv, BenchTypeInv
<1>2. SteadyInv' /\ SlotsAgeInLaps'
  BY <1>1, ConsStepIsBenchStep, BenchStepIsDriverStep, SteadyStep, AgeStep
<1> SUFFICES TakenOwedOrLater' /\ PartsOwedOrLater'
  BY <1>2 DEF LateInv
<1>3. CASE StartStream(Zc) /\ at[Zc] = "start" /\ at'[Zc] = "poll" /\ dump' = <<>>
  BY <1>3, DumpStarts DEF TakenOwedOrLater, PartsOwedOrLater
<1>4. ASSUME CopySlot(Zc), at[Zc] = "copy_slot", at'[Zc] = "read_slots",
             NEW f \in Copies(Zc), dump' = Append(dump, f)
      PROVE  TakenOwedOrLater' /\ PartsOwedOrLater'
  <2>1. /\ Since(Done(Zc), SlotRead(Zc).head)
        /\ Since(Done(Zc), SlotRead(Zc).tail)
        /\ Since(Done(Zc), prev_tsf[Zc])
    BY <1>1, <1>4, DumpGrows, SlotOfNewFrame DEF SlotsAgeInLaps, TakenOwedOrLater
  <2>2. ASSUME NEW i \in 1 .. Len(dump) + 1, NEW k \in Parts(dump'[i])
        PROVE  k >= first[Zc] + i /\ (k - first[Zc] - i) % NumSlots = 0
    <3>1. CASE i \in 1 .. Len(dump)
      <4>1. k \in Parts(dump[i]) /\ i \in DOMAIN dump
        BY <1>1, <1>4, <2>2, <3>1, DumpGrows
      <4>2. Dumping
        BY <1>4 DEF Dumping, Capture
      <4> QED BY <1>1, <4>1, <4>2 DEF PartsOwedOrLater
    <3>2. CASE i = Len(dump) + 1
      <4>1. k \in Parts(f)
        BY <1>4, <2>2, <3>2, DumpGrows
      <4>2. Since(Done(Zc), k)
        BY <1>4, <2>1, <4>1, DumpGrows
      <4>3. k \in Int
        BY <1>4, <4>1, DumpGrows DEF Parts, DumpedFrame, Half
      <4>4. first[Zc] + i = Done(Zc) + 1 /\ first[Zc] \in Nat /\ Done(Zc) \in Nat
        <5>1. /\ first[Zc] \in Nat /\ Done(Zc) \in Nat /\ Len(dump) \in Nat
              /\ Len(dump) = Done(Zc) - first[Zc]
          BY <1>4, DumpGrows
        <5> QED BY <3>2, <5>1
      <4>5. k - first[Zc] - i = k - Done(Zc) - 1
        BY <2>2, <4>3, <4>4
      <4> QED BY <4>2, <4>4, <4>5 DEF Since
    <3>3. Len(dump) \in Nat
      BY <1>4, DumpGrows
    <3> QED BY <2>2, <3>1, <3>2, <3>3
  <2>3. DOMAIN dump' = 1 .. Len(dump) + 1 /\ UNCHANGED first
    BY <1>4, DumpGrows
  <2> QED BY <1>4, <2>2, <2>3 DEF TakenOwedOrLater, PartsOwedOrLater
<1>5. CASE /\ UNCHANGED dump /\ ~StartStream(Zc) /\ ~CopySlot(Zc)
           /\ OpenDev(Zc) \/ Run(Zc) \/ Kill(Zc)
  <2>1. PartsOwedOrLater'
    BY <1>1, <1>5, DumpStands DEF PartsOwedOrLater
  <2>2. ASSUME at'[Zc] = "copy_slot"  PROVE Since(Done(Zc)', prev_tsf'[Zc])
    <3>1. ReadTsf(Zc) /\ Done(Zc)' = Done(Zc)
      BY <1>5, <2>2, DumpStands DEF Capture
    <3>2. /\ at[Zc] = "read_slots" /\ offset[Zc] < IdxDiff(prod[Zc], last[Zc])
          /\ prev_tsf'[Zc] = SlotRead(Zc).head
      BY <1>1, <3>1 DEF ReadTsf, BenchTypeOK
    <3>3. Since(Done(Zc), SlotRead(Zc).head)
      BY <1>1, <3>2, SlotOfNewFrame DEF SlotsAgeInLaps
    <3> QED BY <3>1, <3>2, <3>3
  <2> QED BY <2>1, <2>2 DEF TakenOwedOrLater, Since
<1>6. CASE UNCHANGED dump /\ UNCHANGED View(Zc)
  BY <1>1, <1>6 DEF View, TakenOwedOrLater, PartsOwedOrLater, Dumping, Done
<1> QED BY <1>1, <1>3, <1>4, <1>5, <1>6, DumpSteps

(* With no timeout and slots that hold a frame, however late the capture   *)
(* is: the nth frame of the dump is made of the nth frame since its start  *)
(* or of frames whole laps later, never of an earlier one or of one of     *)
(* another slot.                                                           *)
THEOREM DumpIsOwedOrLater ==
  ASSUME ~MayTimeout, FramesFit  PROVE ConsSpec => []PartsOwedOrLater
<1>1. ConsInit => LateInv
  <2> SUFFICES ASSUME ConsInit  PROVE LateInv
    OBVIOUS
  <2>1. SteadyInv /\ SlotsAgeInLaps
    BY SteadyInit, RingInit DEF ConsInit, BenchInit
  <2>2. at[Zc] = "idle"
    BY ConsistencyAssumption DEF ConsInit, BenchInit
  <2> QED BY <2>1, <2>2
          DEF LateInv, TakenOwedOrLater, PartsOwedOrLater, Dumping, Capture
<1>2. ConsTyped /\ LateInv /\ [ConsNext]_consVars => LateInv'
  BY LateStep
<1>3. LateInv => PartsOwedOrLater
  BY DEF LateInv
<1> QED BY ConsTypedInit, ConsTypedStep, <1>1, <1>2, <1>3, PTL DEF ConsSpec

-----------------------------------------------------------------------------
(* The dump of a capture that keeps up.                                    *)

(* The nth frame of the dump is the nth since the start, whole.            *)
DumpIsExact ==
  Dumping => \A i \in DOMAIN dump : LET k == first[Zc] + i
                                    IN  dump[i] = [tsf |-> k, a |-> k, b |-> k]

LEMMA ExactStep ==
  ASSUME ConsTyped, StreamInv, DumpIsExact, [ConsNext]_consVars
  PROVE  DumpIsExact'
<1>1. /\ Zc \in Files /\ TypeInv /\ BenchTypeInv /\ BenchTypeOK /\ CountInv
      /\ OneTransfer /\ StreamCount /\ RingHoldsLap
      /\ NotLapped(Zc) /\ ReadsInOrder(Zc)
  BY ConsistencyAssumption DEF ConsTyped, BenchTypeInv, StreamInv, SteadyInv,
    PipeInv
<1>2. CASE StartStream(Zc) /\ at[Zc] = "start" /\ dump' = <<>>
  BY <1>2, DumpStarts DEF DumpIsExact
<1>3. ASSUME CopySlot(Zc), at[Zc] = "copy_slot", at'[Zc] = "read_slots",
             NEW f \in Copies(Zc), dump' = Append(dump, f)
      PROVE  DumpIsExact'
  <2> DEFINE k == Done(Zc) + 1
  <2>1. SlotRead(Zc).head = k /\ SlotRead(Zc).tail = k
    BY <1>1, <1>3, DumpGrows, ReadsItsFrame
  <2>2. prev_tsf[Zc] = k
    <3>1. /\ Done(Zc) = first[Zc] + total[Zc] - 1 /\ Done(Zc) \in Nat
          /\ first[Zc] \in Nat /\ total[Zc] \in Nat
      BY <1>1, <1>3, DumpGrows DEF BenchTypeOK
    <3>2. at[Zc] \in Following
      BY <1>3 DEF Following, Capture
    <3>3. prev_tsf[Zc] = IF total[Zc] = 0 THEN 0 ELSE first[Zc] + total[Zc]
      BY <1>1, <3>2 DEF ReadsInOrder
    <3>4. total[Zc] # 0
      <4>1. offset[Zc] \in Nat /\ offset[Zc] <= Done(Zc) - first[Zc]
        BY <1>1, <3>2, RingAssumption DEF CountInv, IndicesAreCounts, BenchTypeOK
      <4> QED BY <3>1, <4>1
    <3> QED BY <3>1, <3>3, <3>4
  <2> HIDE DEF k
  <2>3. f = [tsf |-> k, a |-> k, b |-> k]
    BY <1>3, <2>1, <2>2 DEF Copies, AtOnce
  <2>4. k = first[Zc] + (Len(dump) + 1)
    <3>1. /\ first[Zc] \in Nat /\ Done(Zc) \in Nat /\ Len(dump) \in Nat
          /\ Len(dump) = Done(Zc) - first[Zc]
      BY <1>3, DumpGrows
    <3> QED BY <3>1 DEF k
  <2>5. DOMAIN dump' = 1 .. Len(dump) + 1 /\ UNCHANGED first /\ Len(dump) \in Nat
        /\ dump'[Len(dump) + 1] = f /\ \A i \in 1 .. Len(dump) : dump'[i] = dump[i]
        /\ DOMAIN dump = 1 .. Len(dump)
    BY <1>3, DumpGrows DEF ConsTyped, DumpOK
  <2>6. Dumping
    BY <1>3 DEF Dumping, Capture
  <2>7. ASSUME NEW i \in 1 .. Len(dump) + 1
        PROVE  LET j == first[Zc] + i
               IN  dump'[i] = [tsf |-> j, a |-> j, b |-> j]
    <3>1. CASE i = Len(dump) + 1
      BY <2>3, <2>4, <2>5, <3>1
    <3>2. CASE i \in 1 .. Len(dump)
      BY <2>5, <2>6, <3>2 DEF DumpIsExact
    <3> QED BY <2>5, <2>7, <3>1, <3>2
  <2> QED BY <2>5, <2>7 DEF DumpIsExact
<1>4. CASE /\ UNCHANGED dump /\ ~StartStream(Zc) /\ ~CopySlot(Zc)
           /\ OpenDev(Zc) \/ Run(Zc) \/ Kill(Zc)
  BY <1>4, DumpStands DEF DumpIsExact
<1>5. CASE UNCHANGED dump /\ UNCHANGED View(Zc)
  BY <1>5 DEF View, DumpIsExact, Dumping
<1> QED BY <1>1, <1>2, <1>3, <1>4, <1>5, DumpSteps

(* With no timeout, slots that hold a frame and captures less than NumSlots*)
(* frames behind, the dump is the stream of frames since the start: each   *)
(* once, in order and whole.                                               *)
THEOREM DumpIsTheStream ==
  ASSUME ~MayTimeout, FramesFit, MaxBacklog < NumSlots
  PROVE  ConsSpec => []DumpIsExact
<1>1. ConsInit => DumpIsExact /\ StreamInv
  <2> SUFFICES ASSUME ConsInit  PROVE DumpIsExact /\ StreamInv
    OBVIOUS
  <2>1. at[Zc] = "idle"
    BY ConsistencyAssumption DEF ConsInit, BenchInit
  <2> QED BY <2>1, StreamInvInit DEF ConsInit, DumpIsExact, Dumping, Capture
<1>2. ConsTyped /\ StreamInv /\ [ConsNext]_consVars => StreamInv'
  BY ConsStepIsBenchStep, StreamInvStep DEF ConsTyped
<1>3. ConsTyped /\ StreamInv /\ DumpIsExact /\ [ConsNext]_consVars => DumpIsExact'
  BY ExactStep
<1> QED BY ConsTypedInit, ConsTypedStep, <1>1, <1>2, <1>3, PTL DEF ConsSpec

-----------------------------------------------------------------------------
(* The classifier.                                                         *)

(* In whole frames both halves are found in the same places.               *)
LEMMA WholeFramesAreNotTorn ==
  ASSUME NEW frames \in Seq(DumpedFrame),
         \A i \in 1 .. Len(frames) : ~TornFrame(frames[i]),
         NEW i \in 1 .. Len(frames)
  PROVE  ~IsTorn(frames, i)
<1>1. \A j \in 1 .. Len(frames) : frames[j].a = frames[j].b
  BY DEF TornFrame
<1>2. SrcA(frames, i) = SrcB(frames, i)
  BY <1>1 DEF SrcA, SrcB, SameHalf, Nearby
<1> QED BY <1>2 DEF IsTorn

LEMMA LoadedFrames ==
  ASSUME NEW file \in Seq(DumpedFrame), NEW n \in 1 .. Len(file)
  PROVE  /\ load_frames(file, n) \in Seq(DumpedFrame)
         /\ Len(load_frames(file, n)) = n
         /\ \A i \in 1 .. n : load_frames(file, n)[i] = file[i]
<1>1. load_frames(file, n) = SubSeq(file, 1, n)
  <2>1. Len(file) \in Nat
    OBVIOUS
  <2> QED BY <2>1 DEF load_frames
<1> QED BY <1>1, SubSeqProperties

(* Whatever was dumped: the report of a torn frame is never made of whole  *)
(* ones, stale or repeated as they may be.                                 *)
THEOREM TornReportsAreSound == ConsSpec => []AlarmsAreSound
<1>1. ConsTyped => AlarmsAreSound
  <2> SUFFICES ASSUME dump \in Seq(DumpedFrame), NEW n \in 1 .. Len(dump),
                      \A i \in 1 .. n : ~TornFrame(dump[i])
               PROVE  ~(classify_violations(load_frames(dump, n)).torn > 0)
    BY DEF ConsTyped, DumpOK, AlarmsAreSound
  <2> DEFINE frames == load_frames(dump, n)
  <2>1. /\ frames \in Seq(DumpedFrame) /\ Len(frames) = n
        /\ \A i \in 1 .. n : frames[i] = dump[i]
    BY LoadedFrames
  <2> HIDE DEF frames
  <2>2. {i \in Regressions(frames) : IsTorn(frames, i)} = {}
    <3> SUFFICES ASSUME NEW i \in Regressions(frames)  PROVE ~IsTorn(frames, i)
      OBVIOUS
    <3>1. i \in 1 .. Len(frames)
      BY <2>1 DEF Regressions
    <3>2. \A j \in 1 .. Len(frames) : ~TornFrame(frames[j])
      BY <2>1 DEF TornFrame
    <3> QED BY <2>1, <3>1, <3>2, WholeFramesAreNotTorn
  <2>3. classify_violations(frames).torn = 0
    BY <2>2, FS_EmptySet DEF classify_violations
  <2> QED BY <2>3 DEF frames
<1> QED BY ConsTypedInit, ConsTypedStep, <1>1, PTL DEF ConsSpec
=============================================================================

