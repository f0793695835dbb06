SPECIFICATION MCSpec
CONSTANTS
  d1 = d1
  d2 = d2
  d3 = d3
  web = web
  base = base
  seed = seed
  c1 = c1
  c2 = c2
  m1 = m1
  m2 = m2
  s1 = s1
  s2 = s2
  Environments <- MCEnvironments
  Options <- Flags
  Dirs <- MCDirs
  Items <- MCItems
  Foreign <- MCForeign
  Commits = 2
  GitFaults = 1
  Edits = 1
  Clients <- MCClients
  Ids <- MCIds
  Versions <- MCVersions
  Contents <- MCContents
  Guarded <- MCGuarded
  Bootstraps <- MCBootstraps
  Overrides = {3}
  Adds = 2
  Commands = 2
  Faults = 1
INVARIANTS
  DockerGuarded
  OKMeansDone
  HistoryIsTrue
  BootstrapSQLOnce
PROPERTIES
  LocalWorkSurvives
  PhaseEnds
CHECK_DEADLOCK FALSE
