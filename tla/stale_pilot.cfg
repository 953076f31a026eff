\* A second call of the script for the same point, whose pilot fails.
SPECIFICATION ExpSpec
CONSTANTS
  Groups <- MmapGroups
  NumRounds = 3
  Fps = {1, 4}
  MinFps = 3
  MaxCalls = 2
  Missing = Missing
  Torn = Torn
INVARIANT RoundsAfterPilot
CHECK_DEADLOCK FALSE
