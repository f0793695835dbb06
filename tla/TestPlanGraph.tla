--------------------------- MODULE TestPlanGraph ---------------------------
(***************************************************************************)
(* The test plan map: the graph of case nodes, workflow paths and replay   *)
(* checkpoints that `map import-workflows` builds from the profile catalog *)
(* (internal/domain/plangraph/import.go), and the CLI commands that edit   *)
(* it.  Every command reads the graph from the Store, changes its copy and *)
(* replaces the stored one.  The read is six selects outside a             *)
(* transaction; the replacement is one transaction.                        *)
(*                                                                         *)
(* A case and the node that stands for it share their id, as in the code.  *)
(***************************************************************************)
EXTENDS Integers, Sequences, FiniteSets

CONSTANTS
  Cases,        \* ids of the API cases; their order is the sort order
  Workflows,    \* ids of the workflows, numbers below PrimaryPath(c)
  Interface,    \* [Cases -> interface node]
  Kind,         \* [Cases -> {"plain", "diff", "negative"}]
  Catalogs,     \* the catalog versions the profile goes through
  Filters,      \* the --workflow selections used; {} is no filter
  Clients,      \* CLI processes
  Ops,          \* the commands the instance issues
  Versions,     \* version labels
  MaxCommands   \* bound on commands started

VARIABLES
  catalog,   \* the active profile catalog
  stored,    \* the graph rows of the map in the Store
  versions,  \* [Versions -> {} or {graph}], test_map_versions
  cli,       \* [Clients -> the command a process is in, and the graph it read]
  started    \* commands started so far

vars == <<catalog, stored, versions, cli, started>>

PrimaryPath(c) == 100 + c
PathIds == Workflows \cup {PrimaryPath(c) : c \in Cases}

(* The ids of workflows and of promoted cases' own paths differ; a catalog *)
(* binds a sequence of cases to each workflow, and a checkpoint has a name *)
(* (stringDefault makes up a missing one).                                 *)
ASSUME PlanGraphAssumption ==
  /\ IsFiniteSet(Cases) /\ Cases \subseteq Nat
  /\ IsFiniteSet(Workflows) /\ Workflows \subseteq Nat \ {0}
  /\ \A w \in Workflows, c \in Cases : w < PrimaryPath(c)
  /\ \A cat \in Catalogs :
       /\ cat.active \subseteq Cases
       /\ cat.bind \in [Workflows -> Seq([case : Cases, req : BOOLEAN])]
       /\ \A f \in cat.fixtures : f.id # ""

NoNode == [role |-> "none", anchor |-> {}]
NoGraph == [map |-> "none", nodes |-> [c \in Cases |-> NoNode], edges |-> {},
            paths |-> [p \in PathIds |-> 0], steps |-> [p \in PathIds |-> <<>>],
            mats |-> {}]
NodesOf(g) == {c \in Cases : g.nodes[c].role # "none"}
PathsOf(g) == {p \in PathIds : g.paths[p] > 0}

(***************************************************************************)
(* ImportCatalog: from the catalog to a graph.  W is the workflow filter.  *)
(***************************************************************************)
BoundPaths(cat, W) == {w \in Workflows : cat.bind[w] # <<>> /\ (W = {} \/ w \in W)}
boundCaseIDs(cat, W) ==
  UNION {{cat.bind[w][i].case : i \in DOMAIN cat.bind[w]} : w \in BoundPaths(cat, W)}

caseNeedsValidationRole(c, inPath) ==
  Kind[c] = "negative" \/ (~inPath /\ Kind[c] = "diff")

(* The case a validation case shares its precondition with: a bound case  *)
(* of the same interface first, then the first in sort order.             *)
baseCaseFor(cat, W, c) ==
  LET bound == boundCaseIDs(cat, W)
      candidates == {d \in cat.active \ {c} :
                       /\ Interface[d] = Interface[c]
                       /\ ~caseNeedsValidationRole(d, d \in bound)}
      preferred == IF candidates \cap bound # {} THEN candidates \cap bound ELSE candidates
  IN {d \in preferred : \A e \in preferred : d <= e}

upsertCaseNode(cat, W, c, inPath) ==
  IF caseNeedsValidationRole(c, inPath)
  THEN [role |-> "validation", anchor |-> baseCaseFor(cat, W, c)]
  ELSE [role |-> "primary", anchor |-> {}]

(* The steps of a path: its bindings in order, without the inactive cases. *)
PathNodes(cat, w) ==
  LET bind == cat.bind[w]
      upTo[i \in 0..Len(bind)] ==
        IF i = 0 THEN <<>>
        ELSE IF bind[i].case \in cat.active THEN Append(upTo[i - 1], bind[i].case)
        ELSE upTo[i - 1]
  IN upTo[Len(bind)]

ImportFails(cat, W) ==
  \/ W # {} /\ BoundPaths(cat, W) = {}
  \/ \E w \in BoundPaths(cat, W) : \E i \in DOMAIN cat.bind[w] :
       cat.bind[w][i].req /\ cat.bind[w][i].case \notin cat.active

ControlEdge(w, i, from, to) ==
  [id |-> <<w, i, from, to>>, kind |-> "control", from |-> from, to |-> to,
   path |-> w, mat |-> "", req |-> TRUE]
importPaths(cat, w) ==
  LET nodes == PathNodes(cat, w)
  IN {ControlEdge(w, i, nodes[i], nodes[i + 1]) : i \in 1..(Len(nodes) - 1)}

importValidationCases(cat, W) ==
  {c \in cat.active \ boundCaseIDs(cat, W) :
     /\ caseNeedsValidationRole(c, FALSE)
     /\ W # {} => baseCaseFor(cat, W, c) \cap boundCaseIDs(cat, W) # {}}

(* A workflow_prefix fixture becomes a materialization when the step it    *)
(* ends at is bound; a dependency on one becomes a fixture edge.           *)
importMaterializations(cat, W) ==
  {[id |-> f.id, path |-> f.wf, until |-> cat.bind[f.wf][f.until].case] :
     f \in {x \in cat.fixtures : x.wf \in BoundPaths(cat, W)
                                 /\ x.until \in DOMAIN cat.bind[x.wf]}}
FixtureEdges(cat, mats) ==
  {[id |-> <<d.id>>, kind |-> "fixture",
    from |-> (CHOOSE m \in mats : m.id = d.fix).until, to |-> d.case,
    path |-> 0, mat |-> d.fix, req |-> d.req] :
     d \in {x \in cat.deps : x.case \in cat.active /\ \E m \in mats : m.id = x.fix}}

(* ValidateDAG: the depth-first search finds a cycle exactly when some set *)
(* of nodes has an edge of the graph into each of its members.             *)
ValidateDAG(g) ==
  \A S \in (SUBSET Cases) \ {{}} : \E c \in S : ~\E e \in g.edges : e.from \in S /\ e.to = c

finalize(cat, W) ==
  LET bound == BoundPaths(cat, W)
      onPath == UNION {{PathNodes(cat, w)[i] : i \in DOMAIN PathNodes(cat, w)} : w \in bound}
      members == onPath \cup importValidationCases(cat, W)
                 \cup ({d.case : d \in cat.deps} \cap cat.active)
      mats == importMaterializations(cat, W)
  IN [map |-> "active",
      nodes |-> [c \in Cases |->
                   IF c \in members THEN upsertCaseNode(cat, W, c, c \in onPath) ELSE NoNode],
      edges |-> (UNION {importPaths(cat, w) : w \in bound}) \cup FixtureEdges(cat, mats),
      paths |-> [p \in PathIds |->
                   IF p \in bound THEN Cardinality({q \in bound : q <= p}) ELSE 0],
      steps |-> [p \in PathIds |-> IF p \in bound THEN PathNodes(cat, p) ELSE <<>>],
      mats |-> mats]

(* The graph, or {} when the import is refused. *)
ImportCatalog(cat, W) ==
  {g \in {finalize(cat, W)} : ~ImportFails(cat, W) /\ ValidateDAG(g)}

(***************************************************************************)
(* map import-workflows --append: the imported paths replace the existing  *)
(* paths of the same id, with their edges and the checkpoints they feed.   *)
(***************************************************************************)
removeMapMaterializationsForPaths(mats, P) == {m \in mats : m.path \notin P}

(* Mutant of removeMapEdgesForPathsAndMaterializations: edges of a dropped *)
(* checkpoint survive it.                                                  *)
KeepFixtureEdges(edges, P, gone) == {e \in edges : e.path \notin P}
removeMapEdgesForPathsAndMaterializations(edges, P, gone) ==
  {e \in edges : e.path \notin P /\ e.mat \notin gone}

upsertById(existing, incoming) ==
  {x \in existing : \A y \in incoming : y.id # x.id} \cup incoming

replaceMapPathSteps(old, new, P) ==
  [p \in PathIds |-> IF p \in P THEN new[p] ELSE old[p]]

appendImportedMapGraph(old, new) ==
  LET P == PathsOf(new)
      kept == removeMapMaterializationsForPaths(old.mats, P)
      gone == {m.id : m \in old.mats \ kept}
  IN [map |-> old.map,
      nodes |-> [c \in Cases |-> IF c \in NodesOf(new) THEN new.nodes[c] ELSE old.nodes[c]],
      edges |-> upsertById(removeMapEdgesForPathsAndMaterializations(old.edges, P, gone),
                           new.edges),
      paths |-> [p \in PathIds |-> IF p \in P THEN new.paths[p] ELSE old.paths[p]],
      steps |-> replaceMapPathSteps(old.steps, new.steps, P),
      mats |-> upsertById(kept, new.mats)]

(***************************************************************************)
(* Reading the graph: paths in their stored order, and the replay a case   *)
(* needs (plangraph/explain.go).                                           *)
(***************************************************************************)
Before(g, p, q) == g.paths[p] < g.paths[q] \/ (g.paths[p] = g.paths[q] /\ p < q)
FirstPathWith(g, c) ==
  LET on == {p \in PathsOf(g) : \E i \in DOMAIN g.steps[p] : g.steps[p][i] = c}
  IN {p \in on : \A q \in on \ {p} : Before(g, p, q)}
IndexOn(g, p, c) ==
  CHOOSE i \in DOMAIN g.steps[p] :
    g.steps[p][i] = c /\ \A j \in 1..(i - 1) : g.steps[p][j] # c

mapPathPrefixBeforeNode(g, p, c) == SubSeq(g.steps[p], 1, IndexOn(g, p, c) - 1)
(* Mutant of mapPathPrefixBeforeNode: the anchor itself is replayed too. *)
PrefixWithAnchor(g, p, c) == SubSeq(g.steps[p], 1, IndexOn(g, p, c))

(* An edge is only as good as the checkpoint it names; the first edge in   *)
(* stored order is taken, which the model leaves open among several.       *)
materializationForTarget(g, c) ==
  {m \in g.mats : \E e \in g.edges :
     e.to = c /\ e.kind = "fixture" /\ e.req /\ e.mat = m.id}

mapValidationNodeForAttach(g, c, anchor) ==
  [g EXCEPT !.nodes[c] = [role |-> "validation", anchor |-> {anchor}]]

mapPromotedPrimaryIsReachable(g, c) ==
  \/ \E p \in PathIds : \E i \in DOMAIN g.steps[p] : g.steps[p][i] = c
  \/ materializationForTarget(g, c) # {}

nextPromotedPrimaryPathSortOrder(g) ==
  1 + CHOOSE n \in {g.paths[p] : p \in PathIds} : \A p \in PathIds : g.paths[p] <= n

WithPrimaryPath(g, c, prefix) ==
  [g EXCEPT !.paths[PrimaryPath(c)] = nextPromotedPrimaryPathSortOrder(g),
            !.steps[PrimaryPath(c)] = Append(prefix, c)]

upsertAnchoredPromotedPrimaryPath(g, c, a) ==
  LET p == CHOOSE q \in FirstPathWith(g, a) : TRUE
  IN WithPrimaryPath(g, c, mapPathPrefixBeforeNode(g, p, a))

(* The graph after promotion, or {} when the anchor is on no path. *)
ensurePromotedPrimaryReachable(g, c, anchor) ==
  IF mapPromotedPrimaryIsReachable(g, c) THEN {g}
  ELSE IF anchor = {} THEN {WithPrimaryPath(g, c, <<>>)}
  ELSE LET a == CHOOSE x \in anchor : TRUE
       IN IF FirstPathWith(g, a) = {} THEN {}
          ELSE {upsertAnchoredPromotedPrimaryPath(g, c, a)}

promoteMapNodeToPrimary(g, c) == [g EXCEPT !.nodes[c] = [role |-> "primary", anchor |-> {}]]
Promoted(g, c) ==
  ensurePromotedPrimaryReachable(promoteMapNodeToPrimary(g, c), c, g.nodes[c].anchor)

(***************************************************************************)
(* map doctor: the reference checks, by the name of the check.             *)
(***************************************************************************)
DoctorIssues(g) ==
  LET matIds == {m.id : m \in g.mats}
      Issue(name, found) == IF found THEN {name} ELSE {}
  IN  Issue("dag", ~ValidateDAG(g))
      \cup Issue("path-step.path", \E p \in PathIds : g.steps[p] # <<>> /\ p \notin PathsOf(g))
      \cup Issue("path-step.node", \E p \in PathIds : \E i \in DOMAIN g.steps[p] :
                                     g.steps[p][i] \notin NodesOf(g))
      \cup Issue("edge.from-node", \E e \in g.edges : e.from \notin NodesOf(g))
      \cup Issue("edge.to-node", \E e \in g.edges : e.to \notin NodesOf(g))
      \cup Issue("edge.path", \E e \in g.edges : e.path # 0 /\ e.path \notin PathsOf(g))
      \cup Issue("edge.materialization", \E e \in g.edges : e.mat # "" /\ e.mat \notin matIds)
      \cup Issue("materialization.source-path", \E m \in g.mats : m.path \notin PathsOf(g))
      \cup Issue("materialization.until-node", \E m \in g.mats : m.until \notin NodesOf(g))
      \cup Issue("validation.anchor", \E c \in NodesOf(g) :
             g.nodes[c].role = "validation"
             /\ (g.nodes[c].anchor = {} \/ ~(g.nodes[c].anchor \subseteq NodesOf(g))))

(***************************************************************************)
(* The commands.  op is the command, at the number of selects done.        *)
(***************************************************************************)
Sections == <<"map", "nodes", "edges", "paths", "steps", "mats">>
Idle == [op |-> [k |-> "none"], at |-> 0, got |-> NoGraph]

Init ==
  /\ catalog \in Catalogs
  /\ stored = NoGraph
  /\ versions = [v \in Versions |-> {}]
  /\ cli = [p \in Clients |-> Idle]
  /\ started = 0

(* The profile catalog is published again under the map. *)
PublishCatalog ==
  /\ started < MaxCommands
  /\ \E next \in Catalogs \ {catalog} : catalog' = next
  /\ UNCHANGED <<stored, versions, cli, started>>

Start(p, op, at) ==
  /\ started < MaxCommands
  /\ cli[p].op.k = "none"
  /\ cli' = [cli EXCEPT ![p] = [op |-> op, at |-> at, got |-> NoGraph]]
  /\ started' = started + 1
  /\ UNCHANGED <<catalog, stored, versions>>

(* map import-workflows: reads the catalog and builds the graph; only an   *)
(* append to a map that exists reads the stored graph.                     *)
StartImport(p) ==
  /\ "import" \in Ops
  /\ \E W \in Filters, append \in BOOLEAN : \E graph \in ImportCatalog(catalog, W) :
       LET merge == append /\ stored.map # "none"
       IN Start(p, [k |-> "import", graph |-> graph, merge |-> merge],
                IF merge THEN 0 ELSE Len(Sections))

StartUpdate(p) ==
  /\ "update" \in Ops
  /\ \E status \in {"active", "review"} : Start(p, [k |-> "update", status |-> status], 0)
StartSnapshot(p) ==
  /\ "snapshot" \in Ops
  /\ \E v \in Versions : Start(p, [k |-> "snapshot", v |-> v], 0)
StartPublish(p) ==
  /\ "publish" \in Ops
  /\ \E v \in Versions : Start(p, [k |-> "publish", v |-> v], 0)
StartAttach(p) ==
  /\ "attach" \in Ops
  /\ \E c, anchor \in Cases : Start(p, [k |-> "attach", c |-> c, anchor |-> anchor], 0)
StartPromote(p) ==
  /\ "promote" \in Ops
  /\ \E c \in Cases : Start(p, [k |-> "promote", c |-> c], 0)

(* One select of GetTestPlanGraph; a missing map row ends the command. *)
ReadSection(p) ==
  LET s == Sections[cli[p].at + 1]
  IN /\ cli[p].op.k # "none" /\ cli[p].at < Len(Sections)
     /\ cli' = [cli EXCEPT ![p] =
                  IF s = "map" /\ stored.map = "none" THEN Idle
                  ELSE [cli[p] EXCEPT !.at = cli[p].at + 1, !.got[s] = stored[s]]]
     /\ UNCHANGED <<catalog, stored, versions, started>>

ReadDone(p, k) == cli[p].op.k = k /\ cli[p].at = Len(Sections)
Done(p) == cli' = [cli EXCEPT ![p] = Idle]

ReplaceTestPlanGraph(graph) == stored' = graph

SaveTestPlanMapVersion(v, graph) == versions' = [versions EXCEPT ![v] = {graph}]

(* Mutant of MergedImport: an append is stored without checking the        *)
(* merged graph.                                                           *)
UncheckedImport(op, got) ==
  IF op.merge THEN {appendImportedMapGraph(got, op.graph)} ELSE {op.graph}
(* The graph an import stores, or {} when the merged graph has a cycle. *)
MergedImport(op, got) ==
  {g \in {IF op.merge THEN appendImportedMapGraph(got, op.graph) ELSE op.graph} :
     ValidateDAG(g)}

runMapImportWorkflows(p) ==
  LET merged == MergedImport(cli[p].op, cli[p].got)
  IN /\ ReadDone(p, "import")
     /\ \/ merged = {} /\ UNCHANGED stored
        \/ \E g \in merged : ReplaceTestPlanGraph(g)
     /\ Done(p)
     /\ UNCHANGED <<catalog, versions, started>>

runMapUpdate(p) ==
  /\ ReadDone(p, "update")
  /\ ReplaceTestPlanGraph([cli[p].got EXCEPT !.map = cli[p].op.status])
  /\ Done(p)
  /\ UNCHANGED <<catalog, versions, started>>

runMapSnapshot(p) ==
  /\ ReadDone(p, "snapshot")
  /\ SaveTestPlanMapVersion(cli[p].op.v, cli[p].got)
  /\ Done(p)
  /\ UNCHANGED <<catalog, stored, started>>

(* map publish replaces the graph, then records the version. *)
runMapPublish(p) ==
  LET graph == [cli[p].got EXCEPT !.map = "active"]
  IN /\ ReadDone(p, "publish")
     /\ ReplaceTestPlanGraph(graph)
     /\ cli' = [cli EXCEPT ![p].op = [k |-> "version", v |-> cli[p].op.v], ![p].got = graph]
     /\ UNCHANGED <<catalog, versions, started>>
PublishVersion(p) ==
  /\ ReadDone(p, "version")
  /\ SaveTestPlanMapVersion(cli[p].op.v, cli[p].got)
  /\ Done(p)
  /\ UNCHANGED <<catalog, stored, started>>

(* map validation attach: an existing node changes role; another is made   *)
(* from the catalog when the catalog lists it.                             *)
runMapValidationAttach(p) ==
  LET op == cli[p].op  got == cli[p].got
  IN /\ ReadDone(p, "attach")
     /\ IF op.anchor \in NodesOf(got) /\ (op.c \in NodesOf(got) \/ op.c \in catalog.cases)
           /\ ValidateDAG(got)
        THEN ReplaceTestPlanGraph(mapValidationNodeForAttach(got, op.c, op.anchor))
        ELSE UNCHANGED stored
     /\ Done(p)
     /\ UNCHANGED <<catalog, versions, started>>

runMapValidationPromote(p) ==
  LET op == cli[p].op  got == cli[p].got
      found == op.c \in NodesOf(got) \/ op.c \in catalog.cases
      promoted == IF found THEN {g \in Promoted(got, op.c) : ValidateDAG(g)} ELSE {}
  IN /\ ReadDone(p, "promote")
     /\ \/ promoted = {} /\ UNCHANGED stored
        \/ \E g \in promoted : ReplaceTestPlanGraph(g)
     /\ Done(p)
     /\ UNCHANGED <<catalog, versions, started>>

(* A process is killed between two Store calls. *)
Kill(p) ==
  /\ cli[p].op.k # "none"
  /\ Done(p)
  /\ UNCHANGED <<catalog, stored, versions, started>>

Next ==
  \/ PublishCatalog
  \/ \E p \in Clients :
       \/ StartImport(p) \/ StartUpdate(p) \/ StartSnapshot(p) \/ StartPublish(p)
       \/ StartAttach(p) \/ StartPromote(p)
       \/ ReadSection(p)
       \/ runMapImportWorkflows(p) \/ runMapUpdate(p) \/ runMapSnapshot(p)
       \/ runMapPublish(p) \/ PublishVersion(p)
       \/ runMapValidationAttach(p) \/ runMapValidationPromote(p)
       \/ Kill(p)

Spec == Init /\ [][Next]_vars

-----------------------------------------------------------------------------
(* No sequence of imports, appends, edits and publications by concurrent   *)
(* processes stores a graph with a cycle, although update and publish      *)
(* write back what they read without checking it: a torn read still takes  *)
(* all its edges from one stored graph.                                    *)
StoredGraphAcyclic == ValidateDAG(stored)

(* With one process at a time the only reference problems map doctor can   *)
(* find are the ones an import may leave by itself: a checkpoint that ends *)
(* at an inactive case, and an anchor that is not on the map.  After any   *)
(* number of imports and appends of changing workflows there is no edge to *)
(* a checkpoint that is gone and no step of a missing path or node, and    *)
(* the control edges of a workflow path are exactly the consecutive pairs  *)
(* of its steps.                                                           *)
ReferencesIntact ==
  /\ DoctorIssues(stored)
       \subseteq {"edge.from-node", "materialization.until-node", "validation.anchor"}
  /\ \A w \in Workflows :
       {<<e.from, e.to>> : e \in {x \in stored.edges : x.path = w}}
         = {<<stored.steps[w][i], stored.steps[w][i + 1]>> : i \in 1..(Len(stored.steps[w]) - 1)}

(* docs/test-plan-maps.md on map update: "The command preserves nodes,     *)
(* edges, paths, path steps, and materializations".                        *)
UpdatePreservesGraph ==
  [][\A p \in Clients :
       runMapUpdate(p) => stored' = [stored EXCEPT !.map = cli[p].op.status]]_vars
=============================================================================
