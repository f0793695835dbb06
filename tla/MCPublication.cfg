SPECIFICATION MCSpec
CONSTANTS
  j1 = j1
  j2 = j2
  Jobs = {j1, j2}
  Requests <- MCRequests
  Disk <- MCDisk
  Profiles = {"p", "q"}
  ProfileOf <- MCProfileOf
  Versions = {3}
  Unclean = {3}
  Refused = {"q"}
  ModelKeys = {"nodes"}
  CheckedKeys = {"nodes"}
  Together = 2
  Edits = 1
  Faults = 1
  Openers = {o1, o2}
  Starts <- MCStarts
  Attempts = 2
  request = request
  block = block
  Items = {request, block}
  Nodes = {"pay"}
  NodeOf <- MCNodeOf
  Derived = {request}
  Blocks = {block}
  Scenes = {}
  Contents = {1, 2}
  Keystrokes = 1
  Events = 2
  p1 = p1
  Catalogs <- MCCatalogs
  Bundle <- MCBundle
  Runs <- MCRuns
  Graphs <- MCGraphs
  Publishers = {p1, p2}
  Publications = 2
  CatalogEdits = 1
  Recorded = 2
  p2 = p2
  CaseIDs = {1, 2, 3}
  Suites <- MCSuites
  SuitePackages <- MCSuites
  Gated = {"e"}
  Commands <- MCCommands
  Histories <- MCHistories
  Asked = 2
  Disturbed = 1
INVARIANTS
  CompletedPublicationIsWhole
  OpenedStoreIsComplete
  PagesShowThePublication
  SuiteKeepsItsWord
CHECK_DEADLOCK FALSE
PROPERTIES
  NoSilentOverwrite
