\* Two points of the mmap sweep, stalled and good rounds.
SPECIFICATION ExpSpec
CONSTANTS
  Groups <- MmapGroups
  NumRounds = 3
  Fps = {1, 4}
  MinFps = 3
  MaxCalls = 2
  Missing = Missing
  Torn = Torn
INVARIANTS
  ExpTypeOK
  RoundsOnEnough
  StallsAreFlagged
  SanityFindsStalls
  RefInRange
PROPERTY
  ScriptEnds
\* The calls end.
CHECK_DEADLOCK FALSE
