SPECIFICATION MCSpec
CONSTANTS
  c1 = c1
  c2 = c2
  s1 = s1
  s2 = s2
  Calls = {c1, c2}
  Saves = {w1}
  Steps = {s1, s2}
  CaseKind <- MCCaseKind
  Requests <- MCRequests
  GraphQL = TRUE
  Attempts = 1
  StoreFaults = 1
  Sessions = {"s"}
  Maps <- MCMaps
  CaseRuns <- MCCaseRuns
  Focuses <- MCFocuses
  Args <- MCArgs
  Tools = {"map.read", "evidence.read"}
  ToolCalls = 2
  Starts = 1
  Edits = 2
  RequestFaults = 1
INVARIANTS
  PageShowsTrace
  CompletedFromOneMap
PROPERTIES
  AnalysisEnds
CHECK_DEADLOCK FALSE
