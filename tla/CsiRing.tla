------------------------------ MODULE CsiRing ------------------------------
(***************************************************************************)
(* The ABI shared by the csi_dma driver and its userspace consumers        *)
(* (include/csi_ring.h): the size of a CSI frame, the geometry of the      *)
(* coherent ring buffer and the arithmetic of the free-running __u32 ring  *)
(* indices.  Pure definitions, no state.                                   *)
(***************************************************************************)
EXTENDS Integers

CONSTANTS
  NumSlots,   \* num_slots_init: slots of the ring
  SlotSize,   \* slot_size_init: bytes of a slot
  InitNumEq,  \* num_eq_init: equalizer blocks of a frame at load time
  U32         \* 2^32 in the code: the modulus of every __u32 counter

(* A configuration that runs at all: with no slot the driver divides by 0. *)
(* The indices wrap at a multiple of the number of slots, which holds for  *)
(* the default 16 and any power of two; num_slots_init is an int, smaller  *)
(* than they.  The size of a slot and the initial num_eq are as the module *)
(* parameters say, fitting or not: probe checks neither.                   *)
ASSUME RingAssumption ==
  /\ NumSlots \in Nat \ {0}
  /\ U32 \in Nat \ {0}
  /\ U32 % NumSlots = 0
  /\ NumSlots < U32
  /\ InitNumEq \in Nat
  /\ SlotSize \in Nat

SymbolBytes    == 8
HeaderLen      == 2
CsiLen         == 56
EqualizerLen   == 52
RingHeaderSize == 4096
MaxNumEq       == 8      \* the largest num_eq SET_NUM_EQ accepts

FrameSymbols(numEq) == HeaderLen + CsiLen + numEq * EqualizerLen
FrameBytes(numEq)   == FrameSymbols(numEq) * SymbolBytes

Slots == 0 .. NumSlots - 1

(* The slot of a ring index, its place in the buffer, and the whole size.  *)
SlotOf(idx)     == idx % NumSlots
SlotOffset(s)   == RingHeaderSize + s * SlotSize
DmaBufSize      == RingHeaderSize + NumSlots * SlotSize

(* idx++ and a - b on __u32.                                               *)
NextIdx_Wide(idx) == idx + 1                 \* mutant: a counter wider than u32
NextIdx(idx)    == (idx + 1) % U32
IdxDiff_Signed(a, b) == a - b                \* mutant: no unsigned wrap
IdxDiff(a, b)   == (a - b) % U32
=============================================================================
