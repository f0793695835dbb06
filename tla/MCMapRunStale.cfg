SPECIFICATION MCSpec
CONSTANTS
  Executors = {e1, e2}
  NoExecutor = NoExecutor
  Plans <- MCOneCase
  Options <- MCResume
  Concurrency = 2
  WaveTasks = 1
  MaxRepetitions = 0
PROPERTY ResumeKeepsPassed
CHECK_DEADLOCK FALSE
