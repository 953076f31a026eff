\* The last frame of a burst.
CONSTANTS
  NumSlots = 2
  SlotSize = 4096
  InitNumEq = 8
  U32 = 4
  Files = {p1}
  NoFile = NoFile
  NumEqArgs = {8}
  AutoStart = FALSE
  MayTimeout = FALSE
  MayFail = FALSE
  MaxDescs = 1
  MaxFrames = 2
  PageSize = 4096
  MaxBacklog = 1
  MayKill = FALSE
SPECIFICATION LoopBenchSpec
PROPERTY EveryFrameIsRead
CHECK_DEADLOCK FALSE
