SPECIFICATION MCSpec
CONSTANTS
  Cases <- MCCases
  Workflows <- MCWorkflows
  Interface <- MCInterface
  Kind <- MCKind
  Family <- MCFamily
  Catalogs <- MCCatalogs
  Filters <- MCFilters
  Clients = {"a", "b"}
  Ops <- MCOps
  Versions = {"v1"}
  MaxCommands = 3
  MaxPlans = 1
  MaxRan = 2
INVARIANTS
  EditsKeepReferences
  StoredGraphAcyclic
  PlansReplayFirst
  PreflightSuffices
  SavedPlanRunsWhatItPlanned
CHECK_DEADLOCK FALSE
