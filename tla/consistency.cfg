\* One capture that the driver may lap, two slots, two laps.
CONSTANTS
  NumSlots = 2
  SlotSize = 4096
  InitNumEq = 8
  U32 = 8
  Files = {p1}
  NoFile = NoFile
  NumEqArgs = {8}
  AutoStart = FALSE
  MayTimeout = FALSE
  MayFail = FALSE
  MaxDescs = 1
  MaxFrames = 5
  PageSize = 4096
  MaxBacklog = 8
  MayKill = FALSE
  Zc = p1
  Window = 2
  Mixed = Mixed
SPECIFICATION ConsSpec
INVARIANTS
  PartsOwedOrLater
  AlarmsAreSound
\* The PL may stop streaming and the module may be removed.
CHECK_DEADLOCK FALSE
