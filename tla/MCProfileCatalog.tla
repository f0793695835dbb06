-------------------------- MODULE MCProfileCatalog --------------------------
EXTENDS ProfileCatalog, TLC

Bare == {"service", "interface"}
Built == {"service", "interface", "case", "workflow", "binding", "step config"}
Grouped == Built \cup {"source", "active", "group", "block"}
MCSeeds == {Built, Grouped}
MCBundles == {Bare}
MCSymmetry == Permutations(CliWriters)
=============================================================================
