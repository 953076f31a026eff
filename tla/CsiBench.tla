------------------------------ MODULE CsiBench ------------------------------
(***************************************************************************)
(* csi_bench (user_space/csi_bench.c) on top of the csi_dma driver: each   *)
(* process opens the device, sets num_eq, maps the ring, starts the        *)
(* stream, follows producer_idx in the mapped header and reads the slots,  *)
(* stops the stream and closes.  A process is identified with its file.    *)
(*                                                                         *)
(* The driver's actions are used as they are; the system calls of a        *)
(* process happen where its program makes them.                            *)
(***************************************************************************)
EXTENDS CsiDma

CONSTANTS
  PageSize,    \* bytes of a page
  MaxBacklog,  \* published frames a capturing process may be behind
  MayKill      \* TRUE: a process may be killed

ASSUME BenchAssumption ==
  /\ PageSize \in Nat \ {0}
  /\ MaxBacklog \in Nat
  /\ MayKill \in BOOLEAN

VARIABLES
  at,        \* at[p]: where process p is in main
  last,      \* last[p]: ring index up to which the slots were read
  prod,      \* prod[p]: ring index read from the header
  offset,    \* offset[p]: i of the read loop
  total,     \* total[p]: frames counted
  prev_tsf,  \* prev_tsf[p]: frame the last counted TSF came from
  copied,    \* copied[p]: frame the end of the last forwarded slot came from
  first,     \* first[p]: frame_seq when p read its first producer_idx
  \* history, which no step depends on
  abandoned, \* TRUE: the stream is left on by nobody who will stop it
  late       \* frames the PL began since the stream was stopped

readVars  == <<last, prod, offset, total, prev_tsf, copied, first>>
benchVars == <<at, readVars>>
histVars  == <<abandoned, late>>
allVars   == <<vars, benchVars, histVars>>

(* Steps of main: before the stream, the capture loop, after it.           *)
Setup   == {"set_num_eq", "setting", "map", "start"}
Capture == {"poll", "read_index", "read_slots", "copy_slot", "elapsed"}
Finish  == {"stop", "close"}

BenchTypeOK ==
  /\ at \in [Files -> {"idle"} \union Setup \union Capture \union Finish]
  /\ last \in [Files -> 0 .. U32 - 1]
  /\ prod \in [Files -> 0 .. U32 - 1]
  /\ offset \in [Files -> 0 .. U32 - 1]
  /\ total \in [Files -> Nat]
  /\ prev_tsf \in [Files -> Nat]
  /\ copied \in [Files -> Nat]
  /\ first \in [Files -> Nat]
  /\ abandoned \in BOOLEAN
  /\ late \in Nat
  /\ files = {p \in Files : at[p] # "idle"}

BenchInit ==
  /\ Init
  /\ at = [p \in Files |-> "idle"]
  /\ last = [p \in Files |-> 0]
  /\ prod = [p \in Files |-> 0]
  /\ offset = [p \in Files |-> 0]
  /\ total = [p \in Files |-> 0]
  /\ prev_tsf = [p \in Files |-> 0]
  /\ copied = [p \in Files |-> 0]
  /\ first = [p \in Files |-> 0]
  /\ abandoned = AutoStart
  /\ late = 0

Goto(p, step) == at' = [at EXCEPT ![p] = step]

-----------------------------------------------------------------------------
(* Before the stream.                                                      *)

OpenDev(p) ==
  /\ at[p] = "idle"
  /\ Open(p)
  /\ Goto(p, "set_num_eq")
  /\ UNCHANGED <<readVars, histVars>>

(* -n outside 0..8 never gets here: main returns before it opens.          *)
SetNumEq(p) ==
  /\ at[p] = "set_num_eq"
  /\ \E numEq \in NumEqArgs \intersect 0 .. MaxNumEq : SetNumEqBegin(p, numEq)
  /\ Goto(p, "setting")
  /\ UNCHANGED <<readVars, histVars>>

SetNumEqReturns(p) ==
  /\ at[p] = "setting"
  /\ \/ SetNumEqReg(p) /\ UNCHANGED at
     \/ SetNumEqEnd(p) /\ Goto(p, "map")
  /\ UNCHANGED <<readVars, histVars>>

(* The kernel rounds the length of the mapping up to whole pages, and      *)
(* csi_dma_mmap refuses a mapping longer than the buffer.                  *)
PageUp(n) == ((n + PageSize - 1) \div PageSize) * PageSize
MapAccepted == PageUp(DmaBufSize) <= DmaBufSize

\* mutant: the capture starts at ring index 0
MapRing_FromZero(p) ==
  /\ at[p] = "map"
  /\ MapAccepted
  /\ last' = [last EXCEPT ![p] = 0]
  /\ first' = [first EXCEPT ![p] = meta.frame_seq]
  /\ total' = [total EXCEPT ![p] = 0]
  /\ prev_tsf' = [prev_tsf EXCEPT ![p] = 0]
  /\ copied' = [copied EXCEPT ![p] = 0]
  /\ offset' = [offset EXCEPT ![p] = 0]
  /\ Goto(p, "start")
  /\ UNCHANGED <<vars, prod, histVars>>

MapRing(p) ==
  /\ at[p] = "map"
  /\ MapAccepted
  /\ last' = [last EXCEPT ![p] = meta.producer_idx]
  /\ first' = [first EXCEPT ![p] = meta.frame_seq]
  /\ total' = [total EXCEPT ![p] = 0]
  /\ prev_tsf' = [prev_tsf EXCEPT ![p] = 0]
  /\ copied' = [copied EXCEPT ![p] = 0]
  /\ offset' = [offset EXCEPT ![p] = 0]
  /\ Goto(p, "start")
  /\ UNCHANGED <<vars, prod, histVars>>

(* A geometry that is refused always fails; mapping may also run out of    *)
(* memory.                                                                 *)
MapFails(p) ==
  /\ at[p] = "map"
  /\ Goto(p, "close")
  /\ UNCHANGED <<vars, readVars, histVars>>

(* The UDP socket, the dump, the interval file or the JSON cannot be       *)
(* opened: goto out.                                                       *)
OutputFails(p) ==
  /\ at[p] = "start"
  /\ Goto(p, "close")
  /\ UNCHANGED <<vars, readVars, histVars>>

StartStream(p) ==
  /\ at[p] = "start"
  /\ Start(p)
  /\ late' = 0
  /\ Goto(p, "poll")
  /\ UNCHANGED <<readVars, abandoned>>

-----------------------------------------------------------------------------
(* The capture loop.                                                       *)

PollReturns(p) ==
  \/ PollReady(p) /\ Goto(p, "read_index")
  \/ PollNothing(p) /\ Goto(p, "elapsed")

(* No signal makes poll() return EINTR here: that takes a handler, and     *)
(* csi_bench installs none.                                                *)
PollDev(p) ==
  /\ at[p] = "poll"
  /\ \/ PollReturns(p)
     \/ /\ PollQueue(p) \/ PollSleep(p) \/ PollWoken(p) \/ PollExpire(p)
        /\ UNCHANGED at
  /\ UNCHANGED <<readVars, histVars>>

(* poll() returned an error (no memory): the capture is over.              *)
PollFails(p) ==
  /\ at[p] = "poll"
  /\ poll_st[p] = "none"
  /\ Goto(p, "stop")
  /\ UNCHANGED <<vars, readVars, histVars>>

(* prod = m->producer_idx, from the mapped header.                         *)
ReadIndex(p) ==
  /\ at[p] = "read_index"
  /\ prod' = [prod EXCEPT ![p] = meta.producer_idx]
  /\ offset' = [offset EXCEPT ![p] = 0]
  /\ Goto(p, IF meta.producer_idx # last[p] THEN "read_slots" ELSE "elapsed")
  /\ UNCHANGED <<vars, last, total, prev_tsf, copied, first, histVars>>

(* Ring index and slot of the next frame to read.                          *)
NextRead(p) == (last[p] + offset[p]) % U32
SlotRead_Previous(p) == slots[SlotOf(NextRead(p) + U32 - 1)]  \* mutant: off by one
SlotRead(p) == slots[SlotOf(NextRead(p))]

(* memcpy of the TSF, the first bytes of the slot; the frame is counted.   *)
ReadTsf(p) ==
  /\ at[p] = "read_slots"
  /\ offset[p] < IdxDiff(prod[p], last[p])
  /\ prev_tsf' = [prev_tsf EXCEPT ![p] = SlotRead(p).head]
  /\ total' = [total EXCEPT ![p] = @ + 1]
  /\ Goto(p, "copy_slot")
  /\ UNCHANGED <<vars, last, prod, offset, copied, first, histVars>>

(* sendto and fwrite read the rest of the slot some time later.            *)
CopySlot(p) ==
  /\ at[p] = "copy_slot"
  /\ copied' = [copied EXCEPT ![p] = SlotRead(p).tail]
  /\ offset' = [offset EXCEPT ![p] = @ + 1]
  /\ Goto(p, "read_slots")
  /\ UNCHANGED <<vars, last, prod, total, prev_tsf, first, histVars>>

\* mutant: the index is read again, frames published meanwhile are skipped
ReadAll_Rereads(p) ==
  /\ at[p] = "read_slots"
  /\ ~(offset[p] < IdxDiff(prod[p], last[p]))
  /\ last' = [last EXCEPT ![p] = meta.producer_idx]
  /\ offset' = [offset EXCEPT ![p] = 0]
  /\ Goto(p, "elapsed")
  /\ UNCHANGED <<vars, prod, total, prev_tsf, copied, first, histVars>>

(* All of new_frames were read: last = prod.                               *)
ReadAll(p) ==
  /\ at[p] = "read_slots"
  /\ ~(offset[p] < IdxDiff(prod[p], last[p]))
  /\ last' = [last EXCEPT ![p] = prod[p]]
  /\ offset' = [offset EXCEPT ![p] = 0]
  /\ Goto(p, "elapsed")
  /\ UNCHANGED <<vars, prod, total, prev_tsf, copied, first, histVars>>

(* t_end - t_start against the duration.                                   *)
KeepPolling(p) ==
  /\ at[p] = "elapsed"
  /\ Goto(p, "poll")
  /\ UNCHANGED <<vars, readVars, histVars>>

DurationOver(p) ==
  /\ at[p] = "elapsed"
  /\ Goto(p, "stop")
  /\ UNCHANGED <<vars, readVars, histVars>>

-----------------------------------------------------------------------------
(* After the stream.                                                       *)

(* STOP; the statistics and the report that follow read nothing that       *)
(* another actor waits for.                                                *)
StopStream(p) ==
  /\ at[p] = "stop"
  /\ Stop(p)
  /\ abandoned' = FALSE
  /\ late' = 0
  /\ Goto(p, "close")
  /\ UNCHANGED readVars

(* The process exits: what it knew is gone.                                *)
CloseDev(p) ==
  /\ at[p] = "close"
  /\ Release(p)
  /\ Goto(p, "idle")
  /\ last' = [last EXCEPT ![p] = 0]
  /\ prod' = [prod EXCEPT ![p] = 0]
  /\ offset' = [offset EXCEPT ![p] = 0]
  /\ total' = [total EXCEPT ![p] = 0]
  /\ prev_tsf' = [prev_tsf EXCEPT ![p] = 0]
  /\ copied' = [copied EXCEPT ![p] = 0]
  /\ UNCHANGED <<first, histVars>>

(* A signal ends the process between two system calls or asleep in poll(): *)
(* csi_bench has no handler, and the kernel closes its file.               *)
Kill(p) ==
  /\ MayKill
  /\ at[p] \in Setup \union Capture \union {"stop"}
  /\ lock # p
  /\ \/ poll_st[p] = "none" /\ UNCHANGED vars
     \/ PollInterrupted(p)
  /\ abandoned' = (abandoned \/ at[p] \in Capture \union {"stop"})
  /\ Goto(p, "close")
  /\ UNCHANGED <<readVars, late>>

Run(p) ==
  \/ SetNumEq(p) \/ SetNumEqReturns(p)
  \/ MapRing(p) \/ MapFails(p) \/ OutputFails(p) \/ StartStream(p)
  \/ PollDev(p) \/ PollFails(p) \/ ReadIndex(p) \/ ReadTsf(p) \/ CopySlot(p) \/ ReadAll(p)
  \/ KeepPolling(p) \/ DurationOver(p)
  \/ StopStream(p) \/ CloseDev(p)

-----------------------------------------------------------------------------
(* The frames published and not read to the end by p.                      *)
Backlog(p) == IdxDiff(producer_idx, NextRead(p))

(* The driver has no flow control: a frame comes when the PL streams one.  *)
(* MaxBacklog is the assumption that the processes are fast enough; with   *)
(* MaxBacklog = U32 there is none.                                         *)
(* Nor do 2^32 frames come between two polls of a file, or its opening and *)
(* the first one: poll() would take them for none.                         *)
FrameArrives ==
  /\ DmaBegin
  /\ \A p \in files :
       /\ IdxDiff(producer_idx, last_producer_idx[p]) < U32 - 1
       /\ at[p] \in Capture \union {"start"} => Backlog(p) <= MaxBacklog
  /\ late' = IF running THEN 0 ELSE late + 1
  /\ UNCHANGED <<benchVars, abandoned>>

DriverStep ==
  /\ Kthread \/ DmaEnd \/ RemoveBegin \/ RemoveEnd
  /\ UNCHANGED <<benchVars, histVars>>

BenchNext ==
  \/ DriverStep
  \/ FrameArrives
  \/ \E p \in Files : OpenDev(p) \/ Run(p) \/ Kill(p)

(* The scheduler runs the kthread, a frame under way lands and a process   *)
(* runs on.  Captures go on as long as they like.                          *)
LoopFairness ==
  /\ WF_allVars(Kthread /\ UNCHANGED <<benchVars, histVars>>)
  /\ WF_allVars(DmaEnd /\ UNCHANGED <<benchVars, histVars>>)
  /\ \A p \in Files : WF_allVars(Run(p))

BenchSpec     == BenchInit /\ [][BenchNext]_allVars
LoopBenchSpec == BenchSpec /\ LoopFairness
-----------------------------------------------------------------------------
(* Properties.                                                             *)

(* A capture, from the mapping of the ring to STOP.                        *)
InStream(p) == at[p] \in Capture \union {"start", "stop"}

(* As long as no capture is NumSlots frames behind, and no transfer times  *)
(* out, the ring is a reliable stream for each of them.                    *)
Stream == INSTANCE CsiStream WITH
  Readers   <- Files,
  published <- meta.frame_seq,
  active    <- {p \in Files : InStream(p)},
  pos       <- [p \in Files |-> IF ~InStream(p) THEN 0
                                ELSE IF total[p] = 0 THEN first[p] ELSE prev_tsf[p]],
  out       <- [p \in Files |-> IF ~InStream(p) THEN 0
                                ELSE IF copied[p] = 0 THEN first[p] ELSE copied[p]]

ReliableStream == Stream!Spec

(* The nth frame a capture counts is the nth frame published since it read *)
(* its first index: none is skipped, none read twice, none out of order,   *)
(* whatever the interleaving of the kthread's two updates, poll and the    *)
(* two reads of the index.                                                 *)
ReadsFollowTheStream ==
  \A p \in Files : at[p] \in Capture /\ total[p] > 0 => prev_tsf[p] = first[p] + total[p]

(* What was forwarded and dumped of a slot is the frame whose TSF was      *)
(* counted ("no dirty reads", docs/paper.md).                              *)
NoDirtyReads ==
  \A p \in Files : at[p] \in Capture \ {"copy_slot"} => copied[p] = prev_tsf[p]

(* The hardware streams on demand ("demand-driven via csi_bench ioctl",    *)
(* board_kit/bench_up.sh): when nobody captures, and the last capture that *)
(* was killed was followed by a STOP, the transfer that STOP found under   *)
(* way brings at most one more frame.                                      *)
StreamsOnDemand ==
  (\A p \in Files : at[p] \notin Capture \union {"stop"}) /\ ~abandoned
    => ~running /\ late <= 1

(* A published frame is read by the capture it was published to, or the    *)
(* capture ends.                                                           *)
Unread(p, k) == at[p] \in Capture /\ first[p] < k /\ meta.frame_seq >= k
Counted(p, k) == first[p] + total[p] >= k

EveryFrameIsRead ==
  \A p \in Files, k \in 1 .. MaxFrames :
    Unread(p, k) ~> (Counted(p, k) \/ at[p] \notin Capture)

(* A frame is read at the latest after the next one is published.          *)
ReadWithTheNext ==
  \A p \in Files, k \in 1 .. MaxFrames :
    (Unread(p, k) /\ meta.frame_seq > k) ~> (Counted(p, k) \/ at[p] \notin Capture)

(* A csi_bench whose clock reaches the duration after finitely many rounds *)
(* of the loop ends, also when no frame ever comes (poll returns after     *)
(* 200 ms) and also when it is refused or killed.                          *)
EveryRunEnds ==
  \A p \in Files :
    SF_allVars(DurationOver(p)) => ((at[p] # "idle") ~> (at[p] = "idle"))
=============================================================================
