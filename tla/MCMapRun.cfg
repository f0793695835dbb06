SPECIFICATION MCSpec
CONSTANTS
  Executors = {e1, e2}
  NoExecutor = NoExecutor
  Plans <- MCPlans
  Options <- MCControls
  Concurrency = 2
  WaveTasks = 3
  MaxRepetitions = 2
INVARIANTS
  ReleasedStatusMatchesTasks
  WavesAreLayers
PROPERTIES
  NoBlindReplay
  FreshResumeKeepsPassed
  EveryRunEnds
CHECK_DEADLOCK FALSE
