SPECIFICATION Spec
CONSTANTS
  Executors = {e1, e2}
  NoExecutor = NoExecutor
  LeaseDuration = 2
  HeartbeatInterval = 1
  MaxClock = 4
  Healthy = FALSE
SYMMETRY Symmetry
INVARIANTS
  HeldLeaseIsStored
  OwnedPlanIsRunning
PROPERTY
  ImplementsFencedOwnership
CHECK_DEADLOCK FALSE
