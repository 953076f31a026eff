\* One csi_bench after another, killed at any point, up to NumSlots - 1 frames behind; the ring
\* indices wrap.  rmmod ends the system: no deadlock check.
CONSTANTS
  NumSlots = 3
  SlotSize = 4096
  InitNumEq = 8
  U32 = 6
  Files = {p1}
  NoFile = NoFile
  NumEqArgs = {8}
  AutoStart = FALSE
  MayTimeout = FALSE
  MayFail = FALSE
  MaxDescs = 1
  MaxFrames = 7
  PageSize = 4096
  MaxBacklog = 2
  MayKill = TRUE
SPECIFICATION LoopBenchSpec
INVARIANTS
  BenchTypeOK
  StreamsOnDemand
PROPERTIES
  EveryRunEnds
  ReadWithTheNext
  ReliableStream
CHECK_DEADLOCK FALSE
