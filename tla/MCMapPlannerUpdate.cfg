SPECIFICATION MCSpec
CONSTANTS
  Cases <- MCCases
  Workflows <- MCWorkflows
  Interface <- MCInterface
  Kind <- MCKind
  Family <- MCFamily
  Catalogs <- MCCatalogs
  Filters <- MCFilters
  Clients = {"a", "b"}
  Ops <- UpdateOps
  Versions = {"v1"}
  MaxCommands = 3
  MaxPlans = 0
  MaxRan = 0
PROPERTY UpdatePreservesGraph
CHECK_DEADLOCK FALSE
