\* Two calls of the runner, up to four frames each.
SPECIFICATION BaselineSpec
CONSTANTS
  U64 = 1024
  Period = 2
  OffBeats <- MCOffBeats
  MaxMissed = 1
  MaxPerDgram = 2
  MaxFrames = 4
  MaxRuns = 2
INVARIANTS
  BaselineTypeOK
  TicksAreReadable
  ReportOfThisRun
  NothingLeftRunning
  EstimatorsAgree
  LossIsExact
  FiguresAgree
PROPERTY
  RunnerEnds
\* The calls end.
CHECK_DEADLOCK FALSE
