SPECIFICATION FairSpec
CONSTANTS
  CaseCount = 2
  Readers = {r1}
INVARIANTS
  PassedIsEarned
  OneLateWrite
  MemoryIsBacked
PROPERTIES
  BatchEnds
CHECK_DEADLOCK FALSE
