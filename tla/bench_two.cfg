\* Two csi_bench processes share the driver and stop it under each other, over
\* the wrap of the indices.  rmmod ends the system: no deadlock check.
CONSTANTS
  NumSlots = 2
  SlotSize = 4096
  InitNumEq = 8
  U32 = 4
  Files = {p1, p2}
  NoFile = NoFile
  NumEqArgs = {8}
  AutoStart = FALSE
  MayTimeout = FALSE
  MayFail = FALSE
  MaxDescs = 1
  MaxFrames = 4
  PageSize = 4096
  MaxBacklog = 1
  MayKill = FALSE
SPECIFICATION BenchSpec
INVARIANTS
  ReadsFollowTheStream
  NoDirtyReads
SYMMETRY FileSymmetry
CHECK_DEADLOCK FALSE
