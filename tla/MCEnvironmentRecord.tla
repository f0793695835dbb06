------------------------ MODULE MCEnvironmentRecord ------------------------
(***************************************************************************)
(* A behaviour is about the items of one environment, without acceptance   *)
(* runs, about its runs, without items (nothing the code does to one       *)
(* depends on the other), or about copies of whole Stores.  To the items   *)
(* restart and restore do what stop does: write back the row they read.    *)
(***************************************************************************)
EXTENDS EnvironmentRecord, StoreCopy, TLC

CONSTANTS w1, w2, r1, r2, f1

VARIABLE part

\* r1 was accepted for w1, r2 for w2.
MCRegistrations == {{}, {f1}}
MCRunWorkflow == [r \in Runs |-> IF r = r2 THEN w2 ELSE w1]
MCSymmetry == Permutations(Commands)

(* Two Stores: one with an environment of an older version, whose items are *)
(* all JSON entries, or with an empty catalog, and one with rows and        *)
(* entries. "api2" is the service "api" with another repository, "probe0"   *)
(* the check "probe" as an entry without an id.                             *)
CopyItems == {"list", "gen", "api", "api2", "db", "probe", "probe0"}
MCKind ==
  [i \in CopyItems |-> CASE i = "list" -> "list"
                         [] i = "gen" -> "content"
                         [] i \in {"probe", "probe0"} -> "check"
                         [] OTHER -> "service"]
Env(j, r, w, v) == {[json |-> j, rows |-> r, workflow |-> w, verified |-> v]}
Holds(c, i, v, e, f, g) ==
  [catalog |-> c, index |-> i, config |-> v, models |-> {},
   environments |-> [x \in {"e", "f"} |-> IF x = "e" THEN e ELSE f],
   graphs |-> [x \in {"e", "f"} |-> IF x = "e" THEN g ELSE {}]]
Older == Holds({"c1"}, {"p"}, {"v1"}, Env({"list", "gen", "api", "db", "probe0"}, {}, w1, FALSE),
               {}, {"component", "asset"})
Mixed == Holds({"c2"}, {}, {}, Env({"db", "probe0"}, {"list", "gen", "api2"}, w2, TRUE),
               Env({}, {"db"}, w1, FALSE), {"component"})
Empty == Holds({}, {}, {}, {}, Env({"list"}, {"probe"}, w1, TRUE), {})
Stores(x, y) == [u \in {"a", "b"} |-> IF u = "a" THEN x ELSE y]
Required == {[environment |-> {"e"}, workflow |-> {w2}, verified |-> TRUE, components |-> 1,
              assets |-> 0]}
MCKey == [i \in CopyItems |-> CASE i = "api2" -> "api" [] i = "probe0" -> "" [] OTHER -> i]
MCSig == [i \in CopyItems |-> IF i \in {"probe", "probe0"} THEN "url" ELSE ""]
MCStructured == [i \in CopyItems |-> IF i = "probe0" THEN "probe" ELSE i]
MCProfileOf == [c \in {"c1", "c2"} |-> "p"]
MCStarts == {Stores(Older, Mixed), Stores(Mixed, Empty)}
MCConfigured == [n \in {"team"} |-> {"b"}]
MCReferences == {<<"a", "b">>, <<"a", "a">>, <<"team", "">>}
MCNewEnvironments == Env({"list", "api", "probe0"}, {}, w1, FALSE)
MCRequirements == {{}, Required}

MCInit ==
  /\ part \in {"items", "runs", "copy"}
  /\ Init /\ CopyInit
  /\ part # "items" => View = {}
  /\ part # "copy" => store = Stores(Older, Mixed)

MCNext ==
  /\ UNCHANGED part
  /\ \/ /\ part # "copy"
        /\ Next
        /\ \A c \in Commands :
             IF part = "items"
             THEN /\ command'[c].copy.run = {} /\ command'[c].copy.workflow = AnyWorkflow
                  /\ command'[c].op \notin {"restart", "restore"}
             ELSE command'[c].new = {} /\ rows' = {}
        /\ UNCHANGED copyVars
     \/ part = "copy" /\ CopyNext /\ UNCHANGED vars

MCSpec == MCInit /\ [][MCNext]_<<vars, copyVars, part>>

=============================================================================
