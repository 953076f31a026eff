\* Rounds of run_baseline.py, which may leave no file.
SPECIFICATION ExpSpec
CONSTANTS
  Groups <- BaseGroup
  NumRounds = 3
  Fps = {1, 4}
  MinFps = 3
  MaxCalls = 1
  Missing = Missing
  Torn = Torn
INVARIANT SuspectsAreRounds
CHECK_DEADLOCK FALSE
