\* One late frame is enough: a descriptor that timed out is still the first to be filled.
CONSTANTS
  NumSlots = 2
  SlotSize = 4096
  InitNumEq = 8
  U32 = 4
  Files = {f1}
  NoFile = NoFile
  NumEqArgs = {8}
  AutoStart = TRUE
  MayTimeout = TRUE
  MayFail = FALSE
  MaxDescs = 3
  MaxFrames = 3
SPECIFICATION Spec
INVARIANT WritesOnlyNextSlot
CHECK_DEADLOCK FALSE
