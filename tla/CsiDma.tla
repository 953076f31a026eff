------------------------------- MODULE CsiDma -------------------------------
(***************************************************************************)
(* The csi_dma driver (driver/csi_dma.c): the streaming kthread that keeps *)
(* one AXI DMA transfer armed, the coherent ring it publishes frames in,   *)
(* the file operations of /dev/csi_dma and module removal.                 *)
(*                                                                         *)
(* Actors that interleave: the kthread (one action per stretch of          *)
(* csi_dma_transfer between two accesses to state another actor sees), the *)
(* PL and its DMA channel (external), the processes holding the device     *)
(* open (system calls), and rmmod.                                         *)
(*                                                                         *)
(* frame_symbols and frame_bytes are only ever assigned together with      *)
(* num_eq, so they are FrameSymbols(num_eq) and FrameBytes(num_eq).        *)
(***************************************************************************)
EXTENDS CsiRing, Sequences, FiniteSets

CONSTANTS
  Files,       \* struct file instances of /dev/csi_dma
  NoFile,      \* the holder of dev->lock when it is free
  NumEqArgs,   \* arguments tried with SET_NUM_EQ
  AutoStart,   \* module parameter auto_start
  MayTimeout,  \* TRUE: a transfer may find no frame for CSI_DMA_TIMEOUT_MS
  MayFail,     \* TRUE: preparing or submitting a descriptor may fail
  MaxDescs,    \* descriptors the DMA engine can hold
  MaxFrames    \* bound: frames the PL delivers

ASSUME DmaAssumption ==
  /\ NoFile \notin Files
  /\ NumEqArgs \subseteq Nat
  /\ AutoStart \in BOOLEAN
  /\ MayTimeout \in BOOLEAN
  /\ MayFail \in BOOLEAN
  /\ MaxDescs \in Nat \ {0}
  /\ MaxFrames \in Nat

VARIABLES
  \* struct csi_dma_dev and the kthread
  pc,                 \* where the kthread is in csi_dma_thread/transfer
  cmp,                \* dma_cmp.done, the counter of the struct completion
  running,
  num_eq,
  producer_idx,       \* __u32, wraps at U32
  frame_seq,          \* kept unwrapped: nothing computes with it
  dma_err_count,      \* __u32, wraps at U32
  meta,               \* struct csi_ring_meta in the mapped header page
  \* open files
  files,              \* open instances
  last_producer_idx,  \* csi_dma_file.last_producer_idx
  poll_st,            \* progress of a poll() call on the file
  poll_wq,            \* pollers queued on poll_wq and not yet woken
  lock,               \* holder of dev->lock
  \* PL, DMA engine and coherent memory
  chan,               \* descriptors submitted and not completed, oldest first
  pl,                 \* NUM_DMA_SYMBOL writes not served, oldest first
  reg_num_eq,         \* register NUM_EQ
  writing,            \* a frame is being written into the slot of Head(chan)
  tsf,                \* number of the newest frame the PL streamed
  slots,              \* the ring memory
  \* removal
  stopping,           \* kthread_stop was called
  freed               \* the ring memory was freed

thrVars  == <<pc, cmp, producer_idx, frame_seq, dma_err_count>>
cfgVars  == <<running, num_eq, reg_num_eq, lock>>
fileVars == <<files, last_producer_idx, poll_st, poll_wq>>
hwVars   == <<chan, pl, writing, tsf, slots>>
rmVars   == <<stopping, freed>>
vars     == <<thrVars, cfgVars, meta, fileVars, hwVars, rmVars>>

\* parts of thrVars, fileVars and hwVars
idxVars  == <<producer_idx, frame_seq>>
pollVars == <<last_producer_idx, poll_st, poll_wq>>
plVars   == <<pl, writing, tsf, slots>>

-----------------------------------------------------------------------------
(* What is in memory.  A frame is written front to back: head is the frame *)
(* its first bytes (the TSF symbol) came from, tail the frame its last     *)
(* bytes came from, numEq the layout the PL gave it, bytes what the        *)
(* transfer moved.                                                         *)
Slot  == [head : Nat, tail : Nat, numEq : Nat, bytes : Nat]
Empty == [head |-> 0, tail |-> 0, numEq |-> 0, bytes |-> 0]

Desc  == [slot : Slots, len : Nat]

KthreadPcs == {"loop", "transfer", "armed", "waiting", "advance", "publish",
               "wake", "exited"}
PollStates == {"none", "queued", "asleep", "expired"}

FlagsOK ==
  /\ running \in BOOLEAN
  /\ writing \in BOOLEAN
  /\ stopping \in BOOLEAN
  /\ freed \in BOOLEAN

TypeOK ==
  /\ FlagsOK
  /\ pc \in KthreadPcs
  /\ cmp \in Nat
  /\ num_eq \in Nat
  /\ producer_idx \in 0 .. U32 - 1
  /\ frame_seq \in Nat
  /\ dma_err_count \in 0 .. U32 - 1
  /\ meta \in [producer_idx : 0 .. U32 - 1, frame_seq : Nat,
               dma_err_count : 0 .. U32 - 1, num_eq : Nat]
  /\ files \subseteq Files
  /\ last_producer_idx \in [Files -> 0 .. U32 - 1]
  /\ poll_st \in [Files -> PollStates]
  /\ poll_wq \subseteq files
  /\ lock \in files \union {NoFile}
  /\ chan \in Seq(Desc)
  /\ pl \in Seq(Nat)
  /\ reg_num_eq \in Nat
  /\ tsf \in Nat
  /\ slots \in [Slots -> Slot]

(* csi_dma_probe, once it has returned 0.                                  *)
Init ==
  /\ pc = "loop"
  /\ cmp = 0
  /\ running = AutoStart
  /\ num_eq = InitNumEq
  /\ producer_idx = 0
  /\ frame_seq = 0
  /\ dma_err_count = 0
  /\ meta = [producer_idx |-> 0, frame_seq |-> 0, dma_err_count |-> 0,
             num_eq |-> InitNumEq]
  /\ files = {}
  /\ last_producer_idx = [f \in Files |-> 0]
  /\ poll_st = [f \in Files |-> "none"]
  /\ poll_wq = {}
  /\ lock = NoFile
  /\ chan = <<>>
  /\ pl = <<>>
  /\ reg_num_eq = InitNumEq
  /\ writing = FALSE
  /\ tsf = 0
  /\ slots = [s \in Slots |-> Empty]
  /\ stopping = FALSE
  /\ freed = FALSE

-----------------------------------------------------------------------------
(* The streaming kthread.                                                  *)

(* The loop head: not to stop, and running.  With running = FALSE the      *)
(* thread sleeps and looks again, which changes nothing.  A STOP that      *)
(* comes now does not keep the thread from one more transfer.              *)
LoopHead ==
  /\ pc = "loop"
  /\ ~stopping
  /\ running
  /\ pc' = "transfer"
  /\ UNCHANGED <<cmp, dma_err_count, meta, idxVars, cfgVars, fileVars, hwVars,
                 rmVars>>

CountError == dma_err_count' = NextIdx(dma_err_count)

\* mutant: the slot after the one the header will announce
NextDesc_Ahead ==
  [slot |-> SlotOf(NextIdx(producer_idx)), len |-> FrameBytes(num_eq)]

NextDesc == [slot |-> SlotOf(producer_idx), len |-> FrameBytes(num_eq)]

(* csi_dma_transfer up to dma_async_issue_pending: a descriptor for the    *)
(* next slot, as long as num_eq asks now, on the channel's queue.  The     *)
(* completion is reset first: what an older descriptor signalled before    *)
(* this point is forgotten, what it signals later is not.                  *)
TransferArm ==
  /\ pc = "transfer"
  /\ Len(chan) < MaxDescs
  /\ cmp' = 0
  /\ chan' = Append(chan, NextDesc)
  /\ pc' = "armed"
  /\ UNCHANGED <<dma_err_count, meta, idxVars, cfgVars, fileVars, plVars,
                 rmVars>>

(* device_prep_slave_sg returned NULL: -EIO, and the loop tries again.     *)
PrepFails ==
  /\ pc = "transfer"
  /\ MayFail \/ Len(chan) >= MaxDescs
  /\ CountError
  /\ pc' = "loop"
  /\ UNCHANGED <<cmp, meta, idxVars, cfgVars, fileVars, hwVars, rmVars>>

\* mutant: the error return is missing
SubmitFails_FallsThrough ==
  /\ pc = "transfer"
  /\ MayFail
  /\ cmp' = 0
  /\ CountError
  /\ pc' = "armed"
  /\ UNCHANGED <<meta, idxVars, cfgVars, fileVars, hwVars, rmVars>>

(* tx_submit returned an error cookie, after the completion was reset.     *)
SubmitFails ==
  /\ pc = "transfer"
  /\ MayFail
  /\ cmp' = 0
  /\ CountError
  /\ pc' = "loop"
  /\ UNCHANGED <<meta, idxVars, cfgVars, fileVars, hwVars, rmVars>>

(* The write of NUM_DMA_SYMBOL asks the PL for one frame of frame_symbols  *)
(* symbols; num_eq is read again here, without dev->lock.                  *)
TransferTrigger ==
  /\ pc = "armed"
  /\ pl' = Append(pl, FrameSymbols(num_eq))
  /\ pc' = "waiting"
  /\ UNCHANGED <<cmp, dma_err_count, meta, chan, writing, tsf, slots, idxVars,
                 cfgVars, fileVars, rmVars>>

\* mutant: the return value of the wait is not tested
WaitDone_Unchecked ==
  /\ pc = "waiting"
  /\ cmp' = IF cmp > 0 THEN cmp - 1 ELSE 0
  /\ pc' = "advance"
  /\ UNCHANGED <<dma_err_count, meta, idxVars, cfgVars, fileVars, hwVars,
                 rmVars>>

\* mutant: a frame that lands after STOP is thrown away
WaitDone_Stopped ==
  /\ pc = "waiting"
  /\ cmp > 0
  /\ cmp' = cmp - 1
  /\ pc' = IF running THEN "advance" ELSE "loop"
  /\ UNCHANGED <<dma_err_count, meta, idxVars, cfgVars, fileVars, hwVars,
                 rmVars>>

(* wait_for_completion_timeout returned a positive number of jiffies.      *)
WaitDone ==
  /\ pc = "waiting"
  /\ cmp > 0
  /\ cmp' = cmp - 1
  /\ pc' = "advance"
  /\ UNCHANGED <<dma_err_count, meta, idxVars, cfgVars, fileVars, hwVars,
                 rmVars>>

\* mutant: wait_for_completion, without a timeout
WaitTimeout_Never == FALSE

\* mutant: the return is missing, the timeout counts as a frame
WaitTimeout_FallsThrough ==
  /\ pc = "waiting"
  /\ cmp = 0
  /\ MayTimeout
  /\ CountError
  /\ pc' = "advance"
  /\ UNCHANGED <<cmp, meta, idxVars, cfgVars, fileVars, hwVars, rmVars>>

(* It returned 0: the error is counted in dev only, the descriptor and the *)
(* request stay with the hardware, and the loop goes on after msleep(50).  *)
WaitTimeout ==
  /\ pc = "waiting"
  /\ cmp = 0
  /\ MayTimeout
  /\ CountError
  /\ pc' = "loop"
  /\ UNCHANGED <<cmp, meta, idxVars, cfgVars, fileVars, hwVars, rmVars>>

(* dev->producer_idx++, dev->frame_seq++: what poll() compares.            *)
Advance ==
  /\ pc = "advance"
  /\ producer_idx' = NextIdx(producer_idx)
  /\ frame_seq' = frame_seq + 1
  /\ pc' = "publish"
  /\ UNCHANGED <<cmp, dma_err_count, meta, cfgVars, fileVars, hwVars, rmVars>>

\* mutant: the pollers are not woken
Publish_Silent ==
  /\ pc = "publish"
  /\ meta' = [meta EXCEPT !.producer_idx = producer_idx,
                          !.frame_seq = frame_seq,
                          !.dma_err_count = dma_err_count]
  /\ pc' = "loop"
  /\ UNCHANGED <<cmp, dma_err_count, idxVars, cfgVars, fileVars, hwVars,
                 rmVars>>

(* The header page: what the mapped consumer compares.                     *)
Publish ==
  /\ pc = "publish"
  /\ meta' = [meta EXCEPT !.producer_idx = producer_idx,
                          !.frame_seq = frame_seq,
                          !.dma_err_count = dma_err_count]
  /\ pc' = "wake"
  /\ UNCHANGED <<cmp, dma_err_count, idxVars, cfgVars, fileVars, hwVars,
                 rmVars>>

\* mutant: the thread does not look at running again
WakePollers_Streams ==
  /\ pc = "wake"
  /\ poll_wq' = {}
  /\ pc' = IF stopping THEN "loop" ELSE "transfer"
  /\ UNCHANGED <<cmp, dma_err_count, meta, files, last_producer_idx, poll_st,
                 idxVars, cfgVars, hwVars, rmVars>>

(* wake_up_all(&dev->poll_wq), and back to the loop.                       *)
WakePollers ==
  /\ pc = "wake"
  /\ poll_wq' = {}
  /\ pc' = "loop"
  /\ UNCHANGED <<cmp, dma_err_count, meta, files, last_producer_idx, poll_st,
                 idxVars, cfgVars, hwVars, rmVars>>

\* mutant: the thread leaves its loop when the stream is stopped
ThreadExit_OnStop ==
  /\ pc = "loop"
  /\ stopping \/ ~running
  /\ pc' = "exited"
  /\ UNCHANGED <<cmp, dma_err_count, meta, idxVars, cfgVars, fileVars, hwVars,
                 rmVars>>

(* kthread_should_stop() is true at the loop head.                         *)
ThreadExit ==
  /\ pc = "loop"
  /\ stopping
  /\ pc' = "exited"
  /\ UNCHANGED <<cmp, dma_err_count, meta, idxVars, cfgVars, fileVars, hwVars,
                 rmVars>>

Kthread ==
  \/ LoopHead \/ TransferArm \/ PrepFails \/ SubmitFails \/ TransferTrigger
  \/ WaitDone \/ WaitTimeout
  \/ Advance \/ Publish \/ WakePollers
  \/ ThreadExit

-----------------------------------------------------------------------------
(* The PL and the AXI DMA channel.  A request streams the next CSI frame   *)
(* into the oldest descriptor of the channel; the engine finishes one      *)
(* descriptor before it starts the next.                                   *)

MinOf(a, b) == IF a < b THEN a ELSE b

(* Bytes moved by the transfer of the oldest descriptor.                   *)
TransferBytes == MinOf(Head(chan).len, Head(pl) * SymbolBytes)

(* The slots behind slot s that n bytes written from its start run into.   *)
(* Nothing but the length of the descriptor keeps the engine in its slot.  *)
Overrun(s, n) == {t \in Slots : t > s /\ n > (t - s) * SlotSize}

DmaBegin ==
  /\ ~writing
  /\ chan # <<>>
  /\ pl # <<>>
  /\ tsf < MaxFrames
  /\ tsf' = tsf + 1
  /\ writing' = TRUE
  /\ slots' = [slots EXCEPT ![Head(chan).slot] =
                 [head  |-> tsf + 1,
                  tail  |-> @.tail,
                  numEq |-> reg_num_eq,
                  bytes |-> TransferBytes]]
  /\ UNCHANGED <<meta, chan, pl, thrVars, cfgVars, fileVars, rmVars>>

(* The last byte landed, in slots behind this one if it was too long; the  *)
(* callback of the descriptor completes dma_cmp, whichever transfer the    *)
(* kthread is waiting for by now.                                          *)
DmaEnd ==
  /\ writing
  /\ writing' = FALSE
  /\ slots' = [t \in Slots |->
                 IF t = Head(chan).slot THEN [slots[t] EXCEPT !.tail = tsf]
                 ELSE IF t \in Overrun(Head(chan).slot, TransferBytes)
                 THEN [slots[t] EXCEPT !.head = tsf]
                 ELSE slots[t]]
  /\ chan' = Tail(chan)
  /\ pl' = Tail(pl)
  /\ cmp' = cmp + 1
  /\ UNCHANGED <<pc, dma_err_count, meta, tsf, idxVars, cfgVars, fileVars,
                 rmVars>>

-----------------------------------------------------------------------------
(* File operations, each by the process that holds f open.                 *)

Open(f) ==
  /\ f \notin files
  /\ ~stopping                 \* the module of a file being opened is alive
  /\ files' = files \union {f}
  /\ last_producer_idx' = [last_producer_idx EXCEPT ![f] = producer_idx]
  /\ UNCHANGED <<meta, poll_st, poll_wq, thrVars, cfgVars, hwVars, rmVars>>

Release(f) ==
  /\ f \in files
  /\ poll_st[f] = "none"
  /\ lock # f
  /\ files' = files \ {f}
  /\ UNCHANGED <<meta, thrVars, cfgVars, pollVars, hwVars, rmVars>>

SetRunning(f, value) ==
  /\ f \in files
  /\ lock = NoFile
  /\ running' = value
  /\ UNCHANGED <<num_eq, reg_num_eq, lock, meta, thrVars, fileVars, hwVars,
                 rmVars>>

Start(f) == SetRunning(f, TRUE)
Stop(f)  == SetRunning(f, FALSE)

(* SET_NUM_EQ refuses a num_eq above 8.                                    *)
NumEqAccepted_OneMore(numEq) == numEq <= MaxNumEq + 1     \* mutant: > 9
NumEqAccepted(numEq)         == numEq <= MaxNumEq

(* SET_NUM_EQ under dev->lock, in the stretches that the lock-free kthread,*)
(* the PL and the mapped header can tell apart.                            *)
SetNumEqBegin(f, numEq) ==
  /\ f \in files
  /\ lock = NoFile
  /\ NumEqAccepted(numEq)
  /\ lock' = f
  /\ num_eq' = numEq
  /\ UNCHANGED <<running, reg_num_eq, meta, thrVars, fileVars, hwVars,
                 rmVars>>

(* A write of the value the register has already changes nothing.          *)
SetNumEqReg(f) ==
  /\ lock = f
  /\ f \in files
  /\ reg_num_eq # num_eq
  /\ reg_num_eq' = num_eq
  /\ UNCHANGED <<running, num_eq, lock, meta, thrVars, fileVars, hwVars,
                 rmVars>>

\* mutant: the header keeps the old num_eq
SetNumEqEnd_NoMeta(f) ==
  /\ lock = f
  /\ f \in files
  /\ reg_num_eq = num_eq
  /\ lock' = NoFile
  /\ UNCHANGED <<running, num_eq, reg_num_eq, meta, thrVars, fileVars, hwVars,
                 rmVars>>

SetNumEqEnd(f) ==
  /\ lock = f
  /\ f \in files
  /\ reg_num_eq = num_eq
  /\ lock' = NoFile
  /\ meta' = [meta EXCEPT !.num_eq = num_eq]
  /\ UNCHANGED <<running, num_eq, reg_num_eq, thrVars, fileVars, hwVars,
                 rmVars>>

(* poll(2) on f.  The kernel calls csi_dma_poll, which queues the caller   *)
(* on poll_wq and then compares; with nothing new the caller sleeps until  *)
(* it is woken, or until its timeout and one last comparison.              *)
HasNews(f) == producer_idx # last_producer_idx[f]

PollQueue(f) ==
  /\ f \in files
  /\ poll_st[f] = "none"
  /\ poll_st' = [poll_st EXCEPT ![f] = "queued"]
  /\ poll_wq' = poll_wq \union {f}
  /\ UNCHANGED <<meta, files, last_producer_idx, thrVars, cfgVars, hwVars,
                 rmVars>>

PollReady(f) ==
  /\ poll_st[f] \in {"queued", "expired"}
  /\ HasNews(f)
  /\ last_producer_idx' = [last_producer_idx EXCEPT ![f] = producer_idx]
  /\ poll_st' = [poll_st EXCEPT ![f] = "none"]
  /\ poll_wq' = poll_wq \ {f}
  /\ UNCHANGED <<meta, files, thrVars, cfgVars, hwVars, rmVars>>

PollSleep(f) ==
  /\ poll_st[f] = "queued"
  /\ ~HasNews(f)
  /\ poll_st' = [poll_st EXCEPT ![f] = "asleep"]
  /\ UNCHANGED <<meta, files, last_producer_idx, poll_wq, thrVars, cfgVars,
                 hwVars, rmVars>>

PollWoken(f) ==
  /\ f \in files
  /\ poll_st[f] = "asleep"
  /\ f \notin poll_wq
  /\ poll_st' = [poll_st EXCEPT ![f] = "queued"]
  /\ poll_wq' = poll_wq \union {f}
  /\ UNCHANGED <<meta, files, last_producer_idx, thrVars, cfgVars, hwVars,
                 rmVars>>

\* mutant: poll() without a timeout
PollExpire_Never(f) == FALSE

PollExpire(f) ==
  /\ poll_st[f] = "asleep"
  /\ poll_st' = [poll_st EXCEPT ![f] = "expired"]
  /\ UNCHANGED <<meta, files, last_producer_idx, poll_wq, thrVars, cfgVars,
                 hwVars, rmVars>>

PollNothing(f) ==
  /\ poll_st[f] = "expired"
  /\ ~HasNews(f)
  /\ poll_st' = [poll_st EXCEPT ![f] = "none"]
  /\ poll_wq' = poll_wq \ {f}
  /\ UNCHANGED <<meta, files, last_producer_idx, thrVars, cfgVars, hwVars,
                 rmVars>>

(* A signal ends the sleep, and poll() with EINTR.                         *)
PollInterrupted(f) ==
  /\ poll_st[f] = "asleep"
  /\ poll_st' = [poll_st EXCEPT ![f] = "none"]
  /\ poll_wq' = poll_wq \ {f}
  /\ UNCHANGED <<meta, files, last_producer_idx, thrVars, cfgVars, hwVars,
                 rmVars>>

Poll(f) ==
  \/ PollQueue(f) \/ PollReady(f) \/ PollSleep(f) \/ PollWoken(f)
  \/ PollExpire(f) \/ PollNothing(f) \/ PollInterrupted(f)

-----------------------------------------------------------------------------
(* rmmod.  The module cannot go while a file is open (fops.owner); removal *)
(* stops the kthread, waits for it, and frees the ring without terminating *)
(* the channel, which it shares with the openwifi TX path.                 *)

RemoveBegin ==
  /\ ~stopping
  /\ files = {}
  /\ stopping' = TRUE
  /\ UNCHANGED <<meta, freed, thrVars, cfgVars, fileVars, hwVars>>

\* mutant: the ring is freed without waiting for the kthread
RemoveEnd_NoWait ==
  /\ stopping
  /\ ~freed
  /\ freed' = TRUE
  /\ UNCHANGED <<meta, stopping, thrVars, cfgVars, fileVars, hwVars>>

RemoveEnd ==
  /\ stopping
  /\ pc = "exited"
  /\ ~freed
  /\ freed' = TRUE
  /\ UNCHANGED <<meta, stopping, thrVars, cfgVars, fileVars, hwVars>>

-----------------------------------------------------------------------------
(* A system call on f.                                                     *)
FileOp(f) ==
  \/ Open(f) \/ Release(f)
  \/ Start(f) \/ Stop(f)
  \/ \E numEq \in NumEqArgs : SetNumEqBegin(f, numEq)
  \/ SetNumEqReg(f) \/ SetNumEqEnd(f)
  \/ Poll(f)

Next ==
  \/ Kthread
  \/ DmaBegin
  \/ DmaEnd
  \/ \E f \in Files : FileOp(f)
  \/ RemoveBegin
  \/ RemoveEnd

(* The scheduler runs the kthread and the tail of every kernel operation;  *)
(* a frame under way lands.  Frames need not arrive, processes need not    *)
(* call, and nobody has to unload the module.                              *)
Fairness ==
  /\ WF_vars(Kthread)
  /\ WF_vars(DmaEnd)
  /\ WF_vars(RemoveEnd)

Spec     == Init /\ [][Next]_vars
FairSpec == Spec /\ Fairness
-----------------------------------------------------------------------------
(* Properties.                                                             *)

(* Frames whose last byte has landed.                                      *)
Landed == IF writing THEN tsf - 1 ELSE tsf

(* The hardware writes into the slot the next frame will be published in,  *)
(* never into one the header already offers to userspace: "the driver      *)
(* writes frames into slot[producer_idx % N] and then advances" (csi_ring.h*)
(* lines 19-20).                                                           *)
WritesOnlyNextSlot == writing => Head(chan).slot = SlotOf(producer_idx)

(* The ring is a window on the stream: for every ring index k published    *)
(* less than NumSlots ago, its slot holds the frame published under that   *)
(* index, whole, and no frame was skipped or published twice.              *)
RingHoldsLastFrames ==
  \A k \in 0 .. frame_seq - 1 :
    frame_seq - k < NumSlots =>
      LET s == slots[SlotOf(k % U32)]
      IN  s.head = k + 1 /\ s.tail = k + 1

(* Only frames that landed are published, whatever timed out or failed in  *)
(* between (csi_dma_transfer advances only on a completion it consumed).   *)
NoInventedFrames == frame_seq <= Landed

(* Every descriptor the engine holds was followed by one request to the    *)
(* PL: the engine never waits for data nobody asked for, and the PL never  *)
(* streams into nothing.                                                   *)
EveryDescRequested ==
  Len(chan) = Len(pl) + (IF pc = "armed" THEN 1 ELSE 0)

(* "bytes per ring slot (must hold one frame)": a slot holds a frame of    *)
(* the num_eq the module was loaded with and of every one SET_NUM_EQ will  *)
(* accept.  Probe and ioctl do not check it.                               *)
FramesFit ==
  \A n \in {InitNumEq} \union {m \in NumEqArgs : NumEqAccepted(m)} :
    FrameBytes(n) <= SlotSize

(* A descriptor never moves more than a slot holds, or the frame would run *)
(* into the next slot and, in the last slot, out of the buffer: whatever   *)
(* SET_NUM_EQ does between the two reads of the frame's size.              *)
DmaInsideSlot == \A i \in DOMAIN chan : chan[i].len <= SlotSize

(* What the mapped header says agrees with the device: the indices trail   *)
(* by exactly the one step between Advance and Publish, and num_eq agrees  *)
(* with dev and with the PL register whenever nobody is inside SET_NUM_EQ. *)
HeaderAgrees ==
  /\ IF pc = "publish"
     THEN producer_idx = NextIdx(meta.producer_idx)
     ELSE producer_idx = meta.producer_idx
  /\ lock = NoFile => meta.num_eq = num_eq /\ reg_num_eq = num_eq

(* A poller asleep on the wait queue although there is news for it is      *)
(* about to be woken: csi_dma_poll queues before it compares and the       *)
(* kthread wakes after it advances.                                        *)
NoLostWakeup ==
  \A f \in poll_wq :
    poll_st[f] = "asleep" /\ HasNews(f) => pc \in {"publish", "wake"}

(* After removal no DMA is left that could write into the freed ring: the  *)
(* kthread leaves only between transfers and remove waits for it.          *)
FreedRingIsQuiet == freed => chan = <<>> /\ ~writing

(* Every frame the PL streams is published, also when STOP or rmmod comes  *)
(* while its transfer is under way.                                        *)
FramesArePublished ==
  \A k \in 1 .. MaxFrames : (tsf >= k) ~> (frame_seq >= k)

(* rmmod ends: kthread_stop waits for a transfer, and a transfer waits no  *)
(* longer than CSI_DMA_TIMEOUT_MS.                                         *)
RemovalEnds == stopping ~> freed

(* running is one flag for all open files, and the kthread looks at it only*)
(* between two transfers.  Whatever STARTs, STOPs, timeouts and errors came*)
(* before, and wherever they found the thread: as long as the stream is on,*)
(* it prepares one transfer after another, until a STOP or rmmod.          *)
StreamGoesOn == running ~> (pc = "transfer" \/ ~running \/ stopping)
=============================================================================
