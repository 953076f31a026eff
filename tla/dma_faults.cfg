\* Transfers time out and descriptors fail at any moment, up to three descriptors
\* are left with the hardware. rmmod ends the system: no deadlock check.
CONSTANTS
  NumSlots = 2
  SlotSize = 4096
  InitNumEq = 8
  U32 = 4
  Files = {f1}
  NoFile = NoFile
  NumEqArgs = {8}
  AutoStart = FALSE
  MayTimeout = TRUE
  MayFail = TRUE
  MaxDescs = 3
  MaxFrames = 3
SPECIFICATION FairSpec
INVARIANTS
  NoInventedFrames
  EveryDescRequested
  NoLostWakeup
PROPERTIES
  RemovalEnds
  StreamGoesOn
CHECK_DEADLOCK FALSE
