CONSTANTS
  w1 = w1
  w2 = w2
  r1 = r1
  r2 = r2
  f1 = f1
  Commands = {c1, c2}
  ComposeFiles = {f1, f2}
  EnvFiles = {}
  Contents = {g1}
  Services = {s1}
  Checks = {}
  Registrations <- MCRegistrations
  LegacyItems = {f2, s1}
  Workflows = {w1, w2}
  Runs = {r1, r2}
  RunWorkflow <- MCRunWorkflow
  Accepted = {r1, r2}
  Traced = {r1}
  URLs = {"a", "b"}
  Names = {"team"}
  Admins = {"operator"}
  Environments = {"e", "f"}
  Entries = {"list", "gen", "api", "api2", "db", "probe", "probe0"}
  Kind <- MCKind
  Key <- MCKey
  Sig <- MCSig
  Structured <- MCStructured
  Parts = {"component", "asset"}
  Components = {"component"}
  Catalogs = {"c1", "c2"}
  Profiles = {"p"}
  ConfigVersions = {"v1"}
  ProfileOf <- MCProfileOf
  Flows = {w1, w2}
  Starts <- MCStarts
  Configured <- MCConfigured
  Active = {"team"}
  References <- MCReferences
  NewEnvironments <- MCNewEnvironments
  Requirements <- MCRequirements
  Copies = 2
  Events = 2
SPECIFICATION MCSpec
SYMMETRY MCSymmetry
CHECK_DEADLOCK FALSE
INVARIANTS
  VerifiedRunAccepted
  CopiedStateIsWhole
PROPERTIES
  UndisturbedKeepsItems
