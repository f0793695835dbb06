CONSTANTS
  CliWriters = {c1}
  Editors = {e1}
  Adapters = {a1}
  Replacers = {r1}
  Seeds <- MCSeeds
  Bundles <- MCBundles
  MaxRevision = 3
SPECIFICATION Spec
INVARIANTS
  EditsBuildOnPredecessor
  ExpectedRevisionIsReplaced
  ReferencesResolve
