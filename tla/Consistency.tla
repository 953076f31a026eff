---------------------------- MODULE Consistency ----------------------------
(***************************************************************************)
(* csi_consistency.py on the raw dump of a csi_bench: the TSFs of the dump *)
(* and the classification of its regressions, composed with the driver and *)
(* the capture that make the dump, whose speed nothing bounds.             *)
(*                                                                         *)
(* The payload of a dumped frame is two halves, as the classifier cuts it. *)
(* A half is named by the frame all its bytes are from; Mixed is a half    *)
(* the writer was in the middle of.  Halves of different frames differ     *)
(* (noise), halves with a cut equal no other.                              *)
(***************************************************************************)
EXTENDS CsiBench, FiniteSetsExt

CONSTANTS
  Zc,      \* the csi_bench with --dump
  Window,  \* window of classify_violations, 16 in the code
  Mixed    \* a half from two frames

ASSUME ConsistencyAssumption ==
  /\ Zc \in Files
  /\ Window \in Nat
  /\ Mixed \notin Nat

VARIABLE dump  \* frames of the dump file, oldest first

consVars == <<allVars, dump>>

ConsInit == BenchInit /\ dump = <<>>

-----------------------------------------------------------------------------
(* The dump.                                                               *)

(* The slot as it is now: head in front of the writer, tail behind.        *)
AtOnce(head, tail) ==
  IF head = tail
  THEN {[tsf |-> head, a |-> head, b |-> head]}
  ELSE {[tsf |-> head, a |-> h[1], b |-> h[2]] :
          h \in {<<tail, tail>>, <<Mixed, tail>>, <<head, tail>>, <<head, Mixed>>}}

(* fwrite() began with frame old in the slot and the writer overtook it.   *)
Overtaken(old, tail) ==
  IF old = tail
  THEN {[tsf |-> old, a |-> old, b |-> old]}
  ELSE {[tsf |-> old, a |-> h[1], b |-> h[2]] :
          h \in {<<old, old>>, <<old, Mixed>>, <<old, tail>>, <<Mixed, tail>>,
                 <<tail, tail>>}}

(* What fwrite() may copy between the reading of the TSF and now.          *)
Copies(p) ==
  AtOnce(SlotRead(p).head, SlotRead(p).tail)
    \union (IF prev_tsf[p] = SlotRead(p).head THEN {}
            ELSE Overtaken(prev_tsf[p], SlotRead(p).tail))

(* fopen(dump, "wb") before START, one fwrite() for each slot.             *)
DumpStep ==
  LET from == at[Zc]
      to   == at'[Zc]
  IN  \/ /\ from = "start" /\ to = "poll"
         /\ dump' = <<>>
      \/ /\ from = "copy_slot" /\ to = "read_slots"
         /\ \E f \in Copies(Zc) : dump' = Append(dump, f)
      \/ /\ <<from, to>> \notin {<<"start", "poll">>, <<"copy_slot", "read_slots">>}
         /\ UNCHANGED dump

ConsNext == BenchNext /\ DumpStep
ConsSpec == ConsInit /\ [][ConsNext]_consVars

-----------------------------------------------------------------------------
(* The check.                                                              *)

load_frames(file, maxFrames) ==
  SubSeq(file, 1, IF Len(file) < maxFrames THEN Len(file) ELSE maxFrames)

(* Frames whose TSF is not later than the one before.                      *)
Regressions(frames) == {i \in 2 .. Len(frames) : frames[i].tsf <= frames[i - 1].tsf}

tsf_monotonicity(frames) == Cardinality(Regressions(frames))

Nearby(frames, i) ==
  {j \in 1 .. Len(frames) : j # i /\ j \in i - Window .. i + Window}

SameHalf(x, y) == x = y /\ x # Mixed

SrcA(frames, i) == {j \in Nearby(frames, i) : SameHalf(frames[j].a, frames[i].a)}
SrcB(frames, i) == {j \in Nearby(frames, i) : SameHalf(frames[j].b, frames[i].b)}

IsDup(frames, i) == SrcA(frames, i) \intersect SrcB(frames, i) # {}

\* mutant: halves found nearby are enough, whole frames are not set aside
IsTorn_NoDup(frames, i) ==
  /\ SrcA(frames, i) # {}
  /\ SrcB(frames, i) # {}

IsTorn(frames, i) ==
  /\ ~IsDup(frames, i)
  /\ SrcA(frames, i) # {}
  /\ SrcB(frames, i) # {}
  /\ SrcA(frames, i) # SrcB(frames, i)

classify_violations(frames) ==
  [dup  |-> Cardinality({i \in Regressions(frames) : IsDup(frames, i)}),
   torn |-> Cardinality({i \in Regressions(frames) : IsTorn(frames, i)})]

(* corr > 0.99.  In a static channel every frame has the same profile, and *)
(* so has the mean of frames put together from parts of them; without      *)
(* equalizer symbols pearson() is 0.                                       *)
Correlates == num_eq > 0

(* main, for a reference dump with refFrames frames.                       *)
Verdict(file, refFrames, maxFrames) ==
  LET zc == load_frames(load_frames(file, maxFrames), refFrames)
  IN  IF Len(zc) = 0 THEN "ERROR"
      ELSE IF Correlates /\ classify_violations(zc).torn = 0 THEN "PASS"
      ELSE "FAIL"

-----------------------------------------------------------------------------
(* Properties, of the dump of a capture.                                   *)

Dumping == at[Zc] \in Capture \union {"stop"}

TornFrame(f) == f.a # f.tsf \/ f.b # f.tsf

Parts(f) == {f.tsf, f.a, f.b} \ {Mixed}

(* However late the capture is, the nth frame of the dump is made of the   *)
(* nth frame since its start or of later ones of the same slot.            *)
PartsOwedOrLater ==
  Dumping => \A i \in DOMAIN dump : \A k \in Parts(dump[i]) :
    /\ k >= first[Zc] + i
    /\ (k - first[Zc] - i) % NumSlots = 0

(* A frame is reported torn only if the dump has a torn frame: stale slots *)
(* that were read again are no alarm (csi_consistency.py lines 87-88).     *)
AlarmsAreSound ==
  at[Zc] = "stop" =>
    \A n \in 1 .. Len(dump) :
      classify_violations(load_frames(dump, n)).torn > 0
        => \E i \in 1 .. n : TornFrame(dump[i])

(* "PASS (no dirty read)" (line 194), for every number of reference frames.*)
NoDirtyReadPassed ==
  at[Zc] = "stop" =>
    \A n \in 1 .. Len(dump) :
      Verdict(dump, n, MaxFrames) = "PASS" => \A i \in 1 .. n : ~TornFrame(dump[i])
=============================================================================
