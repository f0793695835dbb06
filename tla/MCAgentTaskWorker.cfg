SPECIFICATION Spec
CONSTANTS
  Workers = {w1, w2}
  Commands = {c1, c2}
  Interval = 1
  MaxClock = 3
  MaxClaims = 2
SYMMETRY Symmetry
PROPERTIES
  NoAutomaticReplay
  CompletedIntervalIsKept
  ImplementsFencedOwnership
CHECK_DEADLOCK FALSE
