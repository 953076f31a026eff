\* Every frame comes within the timeout. The indices wrap (U32 = 6) over a
\* ring of three slots, SET_NUM_EQ is tried with a legal and an illegal argument.
\* rmmod ends the system: no deadlock check.
CONSTANTS
  NumSlots = 3
  SlotSize = 4096
  InitNumEq = 8
  U32 = 6
  Files = {f1}
  NoFile = NoFile
  NumEqArgs = {0, 9}
  AutoStart = TRUE
  MayTimeout = FALSE
  MayFail = FALSE
  MaxDescs = 1
  MaxFrames = 7
SPECIFICATION FairSpec
INVARIANTS
  TypeOK
  HeaderAgrees
  WritesOnlyNextSlot
  RingHoldsLastFrames
  DmaInsideSlot
  FreedRingIsQuiet
PROPERTY FramesArePublished
CHECK_DEADLOCK FALSE
