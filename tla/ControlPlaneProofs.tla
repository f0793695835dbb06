------------------------- MODULE ControlPlaneProofs -------------------------
(***************************************************************************)
(* Proofs about what the control plane and its clients make of the stored  *)
(* data: the map and the plans made of it, for any cases, workflows,       *)
(* catalogs and processes; the workflow runs and the pages read of them,   *)
(* for any calls, saves and steps; the assistant sessions, for any maps,   *)
(* selections, tools and numbers of analyses, edits and faults.            *)
(***************************************************************************)
EXTENDS MapEditing, WorkflowRuns, AssistantSession,
        FiniteSetTheorems, WellFoundedInduction, TLAPS

GraphRecord(g) ==
  g = [map |-> g.map, nodes |-> g.nodes, edges |-> g.edges, paths |-> g.paths,
       steps |-> g.steps, mats |-> g.mats]

-----------------------------------------------------------------------------
(* The map and its plans: the inductive invariant                           *)

(* Whatever a process has read, it has the edges of one stored graph or     *)
(* none: the graph it builds from them is checked, or has the same edges.   *)
ReadInv ==
  \A p \in Clients :
    /\ cli[p] = [op |-> cli[p].op, at |-> cli[p].at, got |-> cli[p].got]
    /\ GraphRecord(cli[p].got) /\ ValidateDAG(cli[p].got)
    /\ cli[p].op.k = "import" => GraphRecord(cli[p].op.graph)

GraphInv ==
  /\ GraphRecord(stored) /\ ValidateDAG(stored)
  /\ cli = [p \in Clients |-> cli[p]] /\ ReadInv
  /\ versions = [v \in Versions |-> versions[v]]
  /\ \A v \in Versions : \A g \in versions[v] : ValidateDAG(g)

PlanRecord(plan) ==
  plan = [tasks |-> plan.tasks, edges |-> plan.edges, fingerprint |-> plan.fingerprint,
          steps |-> plan.steps, run |-> plan.run, ran |-> plan.ran]
BoundLost(t) == t.kind = "run_path_prefix" /\ t.until = {}

(* The fingerprint of a saved plan has the path steps its tasks were        *)
(* planned to run, and still run where the bound of a prefix is left; a run *)
(* has them too; and what was run are they.                                 *)
TasksAsPlanned(plan) ==
  \A i \in DOMAIN plan.tasks :
    BoundLost(plan.tasks[i]) \/ stepsForTask(plan.fingerprint, plan.tasks[i]) = plan.steps[i]
RunAsPlanned(plan) == plan.run # NotRunning => plan.run.steps = plan.fingerprint.steps
RanAsPlanned(plan) ==
  \A r \in plan.ran :
    /\ r.task \in DOMAIN plan.tasks
    /\ r.steps = IF plan.tasks[r.task].kind = "run_path_prefix" /\ r.until = {}
                   THEN <<>> ELSE plan.steps[r.task]
PlanInv(plan) ==
  /\ PlanRecord(plan)
  /\ plan.fingerprint # NoFingerprint => TasksAsPlanned(plan) /\ RunAsPlanned(plan) /\ RanAsPlanned(plan)
PlansInv == \A plan \in plans : PlanInv(plan)

PlannerInv == GraphInv /\ PlansInv

-----------------------------------------------------------------------------
(* The map and its plans: lemmas about the operators                        *)

(* Only the edges matter to ValidateDAG.                                    *)
LEMMA EdgesDecide ==
  ASSUME NEW g, NEW h, h.edges = g.edges, ValidateDAG(g)
  PROVE  ValidateDAG(h)
BY DEF ValidateDAG

(* A graph without edges has no cycle.                                      *)
LEMMA NoGraphIsAcyclic == GraphRecord(NoGraph) /\ ValidateDAG(NoGraph)
<1>1. NoGraph.edges = {}
  BY DEF NoGraph
<1>2. ASSUME NEW m, NEW n, NEW e, NEW a, NEW s, NEW r
      PROVE  GraphRecord([map |-> m, nodes |-> n, edges |-> e, paths |-> a, steps |-> s, mats |-> r])
  BY DEF GraphRecord
<1>3. GraphRecord(NoGraph)
  BY <1>2 DEF NoGraph
<1>4. ASSUME NEW S \in (SUBSET Cases) \ {{}}
      PROVE  \E c \in S : ~\E e \in NoGraph.edges : e.from \in S /\ e.to = c
  <2>1. PICK c : c \in S
    BY <1>4
  <2> QED BY <1>1, <2>1
<1> QED BY <1>3, <1>4 DEF ValidateDAG

(* What a task runs is decided by the steps of the graph's paths.           *)
LEMMA StepsDecide ==
  ASSUME NEW g, NEW h, NEW t, h.steps = g.steps
  PROVE  stepsForTask(h, t) = stepsForTask(g, t)
BY DEF stepsForTask, PrefixUntil, IndexOn

(* The graphs that are built have the fields of a graph.                    *)
LEMMA BuiltGraphs ==
  /\ \A cat, W : \A g \in ImportCatalog(cat, W) : GraphRecord(g)
  /\ \A old, new : GraphRecord(appendImportedMapGraph(old, new))
<1>1. ASSUME NEW cat, NEW W, NEW g \in ImportCatalog(cat, W) PROVE GraphRecord(g)
  <2>1. g = finalize(cat, W)
    BY DEF ImportCatalog
  <2> QED BY <2>1 DEF finalize, GraphRecord
<1>2. ASSUME NEW old, NEW new PROVE GraphRecord(appendImportedMapGraph(old, new))
  BY DEF appendImportedMapGraph, GraphRecord
<1> QED BY <1>1, <1>2

(* A change of a role or a status leaves the rest of a graph alone.         *)
LEMMA ChangedGraphs ==
  ASSUME NEW g, GraphRecord(g), NEW x
  PROVE  /\ GraphRecord([g EXCEPT !.nodes = x]) /\ [g EXCEPT !.nodes = x].edges = g.edges
         /\ GraphRecord([g EXCEPT !.map = x]) /\ [g EXCEPT !.map = x].edges = g.edges
<1> DEFINE r == [map |-> g.map, nodes |-> g.nodes, edges |-> g.edges, paths |-> g.paths,
                 steps |-> g.steps, mats |-> g.mats]
<1>1. g = r
  BY DEF GraphRecord
<1>2. [r EXCEPT !.nodes = x] =
        [map |-> g.map, nodes |-> x, edges |-> g.edges, paths |-> g.paths,
         steps |-> g.steps, mats |-> g.mats]
  OBVIOUS
<1>3. [r EXCEPT !.map = x] =
        [map |-> x, nodes |-> g.nodes, edges |-> g.edges, paths |-> g.paths,
         steps |-> g.steps, mats |-> g.mats]
  OBVIOUS
<1>4. GraphRecord([r EXCEPT !.nodes = x]) /\ [r EXCEPT !.nodes = x].edges = g.edges
  BY <1>2 DEF GraphRecord
<1>5. GraphRecord([r EXCEPT !.map = x]) /\ [r EXCEPT !.map = x].edges = g.edges
  BY <1>3 DEF GraphRecord
<1> HIDE DEF r
<1> QED BY <1>1, <1>4, <1>5

(* So does another path.                                                    *)
LEMMA ChangedPaths ==
  ASSUME NEW g, GraphRecord(g), NEW x, NEW y
  PROVE  GraphRecord([g EXCEPT !.paths = x, !.steps = y])
<1> DEFINE h == [g EXCEPT !.paths = x, !.steps = y]
<1>1. g = [map |-> g.map, nodes |-> g.nodes, edges |-> g.edges, paths |-> g.paths,
           steps |-> g.steps, mats |-> g.mats]
  BY DEF GraphRecord
<1>2. DOMAIN g = {"map", "nodes", "edges", "paths", "steps", "mats"}
  BY <1>1
<1>3. h = [f \in DOMAIN g |-> IF f = "steps" THEN y ELSE IF f = "paths" THEN x ELSE g[f]]
  OBVIOUS
<1>4. h = [map |-> g.map, nodes |-> g.nodes, edges |-> g.edges, paths |-> x,
           steps |-> y, mats |-> g.mats]
  BY <1>2, <1>3
<1> HIDE DEF h
<1>5. GraphRecord(h)
  BY <1>4 DEF GraphRecord
<1> QED BY <1>5 DEF h

(* A promoted node's graph is a graph.                                      *)
LEMMA PromotedGraphs ==
  ASSUME NEW g, GraphRecord(g), NEW c, NEW h \in Promoted(g, c)
  PROVE  GraphRecord(h)
<1> DEFINE p == promoteMapNodeToPrimary(g, c)
<1>1. GraphRecord(p)
  <2> DEFINE nodes == [g.nodes EXCEPT ![c] = [role |-> "primary", anchor |-> {}]]
  <2>1. p = [g EXCEPT !.nodes = nodes]
    BY DEF promoteMapNodeToPrimary
  <2> HIDE DEF p, nodes
  <2> QED BY <2>1, ChangedGraphs
<1>2. h = p \/ \E prefix : h = WithPrimaryPath(p, c, prefix)
  BY DEF Promoted, ensurePromotedPrimaryReachable, upsertAnchoredPromotedPrimaryPath
<1> HIDE DEF p
<1>3. ASSUME NEW prefix PROVE GraphRecord(WithPrimaryPath(p, c, prefix))
  <2> DEFINE paths == [p.paths EXCEPT ![PrimaryPath(c)] = nextPromotedPrimaryPathSortOrder(p)]
             steps == [p.steps EXCEPT ![PrimaryPath(c)] = Append(prefix, c)]
  <2>1. WithPrimaryPath(p, c, prefix) = [p EXCEPT !.paths = paths, !.steps = steps]
    BY DEF WithPrimaryPath
  <2> HIDE DEF paths, steps
  <2>2. GraphRecord([p EXCEPT !.paths = paths, !.steps = steps])
    BY <1>1, ChangedPaths, Zenon
  <2> QED BY <2>1, <2>2
<1> QED BY <1>1, <1>2, <1>3
-----------------------------------------------------------------------------
(* The map and its plans: the steps                                         *)

(* One process goes on with a graph whose edges have no cycle.              *)
LEMMA CliStep ==
  ASSUME GraphInv, NEW p \in Clients, NEW op, NEW at, NEW got,
         GraphRecord(got), ValidateDAG(got), op.k = "import" => GraphRecord(op.graph),
         cli' = [cli EXCEPT ![p] = [op |-> op, at |-> at, got |-> got]]
  PROVE  cli' = [q \in Clients |-> cli'[q]] /\ ReadInv'
<1> DEFINE x == [op |-> op, at |-> at, got |-> got]
<1>1. x.op = op /\ x.at = at /\ x.got = got
  OBVIOUS
<1>2. x = [op |-> x.op, at |-> x.at, got |-> x.got]
  BY <1>1
<1> HIDE DEF x
<1>3. cli = [q \in Clients |-> cli[q]] /\ cli' = [cli EXCEPT ![p] = x]
  BY DEF GraphInv, x
<1>4. cli' = [q \in Clients |-> cli'[q]]
  BY <1>3
<1>5. ASSUME NEW q \in Clients
      PROVE  /\ cli'[q] = [op |-> cli'[q].op, at |-> cli'[q].at, got |-> cli'[q].got]
             /\ GraphRecord(cli'[q].got) /\ ValidateDAG(cli'[q].got)
             /\ cli'[q].op.k = "import" => GraphRecord(cli'[q].op.graph)
  <2>1. CASE q = p
    <3>1. cli'[q] = x
      BY <1>3, <2>1
    <3> QED BY <1>1, <1>2, <3>1
  <2>2. CASE q # p
    <3>1. cli'[q] = cli[q]
      BY <1>3, <2>2
    <3> QED BY <3>1 DEF GraphInv, ReadInv
  <2> QED BY <2>1, <2>2
<1>6. ReadInv'
  BY <1>5 DEF ReadInv
<1> QED BY <1>4, <1>6

(* A command that is over, or killed.                                       *)
LEMMA DoneStep ==
  ASSUME GraphInv, NEW p \in Clients, Done(p)
  PROVE  cli' = [q \in Clients |-> cli'[q]] /\ ReadInv'
<1>1. cli' = [cli EXCEPT ![p] = [op |-> [k |-> "none"], at |-> 0, got |-> NoGraph]]
  BY DEF Done, Idle
<1>2. [k |-> "none"].k # "import"
  OBVIOUS
<1> QED BY <1>1, <1>2, CliStep, NoGraphIsAcyclic

(* A command that starts.                                                   *)
LEMMA StartStep ==
  ASSUME GraphInv, NEW p \in Clients, NEW op, NEW at, Start(p, op, at),
         op.k = "import" => GraphRecord(op.graph)
  PROVE  GraphInv'
<1>1. cli' = [cli EXCEPT ![p] = [op |-> op, at |-> at, got |-> NoGraph]]
      /\ stored' = stored /\ versions' = versions
  BY DEF Start
<1>2. cli' = [q \in Clients |-> cli'[q]] /\ ReadInv'
  BY <1>1, CliStep, NoGraphIsAcyclic
<1> QED BY <1>1, <1>2 DEF GraphInv

(* The commands that start, each with its own parameters.                   *)
LEMMA StartSteps ==
  ASSUME GraphInv, NEW p \in Clients,
         \/ StartImport(p) \/ StartUpdate(p) \/ StartSnapshot(p) \/ StartPublish(p)
         \/ StartAttach(p) \/ StartPromote(p)
  PROVE  GraphInv'
<1>1. CASE StartImport(p)
  <2>1. PICK W \in Filters, append \in BOOLEAN : \E g \in ImportCatalog(catalog, W) :
          LET merge == append /\ stored.map # "none"
          IN Start(p, [k |-> "import", graph |-> g, merge |-> merge],
                   IF merge THEN 0 ELSE Len(Sections))
    BY <1>1 DEF StartImport
  <2>5. PICK g \in ImportCatalog(catalog, W) :
          LET merge == append /\ stored.map # "none"
          IN Start(p, [k |-> "import", graph |-> g, merge |-> merge],
                   IF merge THEN 0 ELSE Len(Sections))
    BY <2>1
  <2> DEFINE merge == append /\ stored.map # "none"
             op == [k |-> "import", graph |-> g, merge |-> merge]
             at == IF merge THEN 0 ELSE Len(Sections)
  <2>2. Start(p, op, at)
    BY <2>5
  <2>3. op.graph = g
    OBVIOUS
  <2>4. GraphRecord(g)
    BY BuiltGraphs
  <2> HIDE DEF op, at
  <2> QED BY <2>2, <2>3, <2>4, StartStep
<1>2. CASE \/ StartUpdate(p) \/ StartSnapshot(p) \/ StartPublish(p)
           \/ StartAttach(p) \/ StartPromote(p)
  <2>1. PICK op : Start(p, op, 0) /\ op.k # "import"
    <3>1. CASE StartUpdate(p)
      <4>1. PICK status : Start(p, [k |-> "update", status |-> status], 0)
        BY <3>1 DEF StartUpdate
      <4> QED BY <4>1
    <3>2. CASE StartSnapshot(p)
      <4>1. PICK v : Start(p, [k |-> "snapshot", v |-> v], 0)
        BY <3>2 DEF StartSnapshot
      <4> QED BY <4>1
    <3>3. CASE StartPublish(p)
      <4>1. PICK v : Start(p, [k |-> "publish", v |-> v], 0)
        BY <3>3 DEF StartPublish
      <4> QED BY <4>1
    <3>4. CASE StartAttach(p)
      <4>1. PICK c, anchor : Start(p, [k |-> "attach", c |-> c, anchor |-> anchor], 0)
        BY <3>4 DEF StartAttach
      <4> QED BY <4>1
    <3>5. CASE StartPromote(p)
      <4>1. PICK c : Start(p, [k |-> "promote", c |-> c], 0)
        BY <3>5 DEF StartPromote
      <4> QED BY <4>1
    <3> QED BY <1>2, <3>1, <3>2, <3>3, <3>4, <3>5
  <2> QED BY <2>1, StartStep
<1> QED BY <1>1, <1>2

(* One select: the edges that are read are all of one stored graph.         *)
LEMMA ReadStep ==
  ASSUME GraphInv, NEW p \in Clients, ReadSection(p)
  PROVE  GraphInv'
<1> DEFINE s == Sections[cli[p].at + 1]
           got == [cli[p].got EXCEPT ![s] = stored[s]]
<1>1. stored' = stored /\ versions' = versions /\ cli[p].op.k # "none"
  BY DEF ReadSection
<1>2. CASE cli' = [cli EXCEPT ![p] = Idle]
  <2>1. Done(p)
    BY <1>2 DEF Done
  <2> QED BY <1>1, <2>1, DoneStep DEF GraphInv
<1>3. CASE cli' = [cli EXCEPT ![p] = [cli[p] EXCEPT !.at = cli[p].at + 1, !.got[s] = stored[s]]]
  <2>1. /\ cli[p] = [op |-> cli[p].op, at |-> cli[p].at, got |-> cli[p].got]
        /\ GraphRecord(cli[p].got) /\ ValidateDAG(cli[p].got)
        /\ cli[p].op.k = "import" => GraphRecord(cli[p].op.graph)
        /\ GraphRecord(stored) /\ ValidateDAG(stored)
    BY DEF GraphInv, ReadInv
  <2>2. cli' = [cli EXCEPT ![p] = [op |-> cli[p].op, at |-> cli[p].at + 1, got |-> got]]
    <3> DEFINE x == cli[p]
    <3>1. x = [op |-> x.op, at |-> x.at, got |-> x.got]
      BY <2>1
    <3>2. cli' = [cli EXCEPT ![p] = [x EXCEPT !.at = x.at + 1, !.got = got]]
      BY <1>3
    <3> HIDE DEF x, got
    <3>3. [x EXCEPT !.at = x.at + 1, !.got = got] = [op |-> x.op, at |-> x.at + 1, got |-> got]
      <4> DEFINE n == x.at + 1
      <4>1. DOMAIN x = {"op", "at", "got"}
        BY <3>1
      <4>2. [x EXCEPT !.at = n, !.got = got]
              = [f \in DOMAIN x |-> IF f = "got" THEN got ELSE IF f = "at" THEN n ELSE x[f]]
        OBVIOUS
      <4> HIDE DEF n
      <4>3. [f \in DOMAIN x |-> IF f = "got" THEN got ELSE IF f = "at" THEN n ELSE x[f]]
              = [op |-> x.op, at |-> n, got |-> got]
        BY <4>1
      <4> QED BY <4>2, <4>3 DEF n
    <3> QED BY <3>2, <3>3 DEF x
  <2>3. DOMAIN cli[p].got = {"map", "nodes", "edges", "paths", "steps", "mats"}
    BY <2>1 DEF GraphRecord
  <2>4. got = [f \in DOMAIN cli[p].got |-> IF f = s THEN stored[s] ELSE cli[p].got[f]]
    OBVIOUS
  <2>5. GraphRecord(got)
    BY <2>3, <2>4 DEF GraphRecord
  <2>6. got.edges = cli[p].got.edges \/ got.edges = stored.edges
    BY <2>3, <2>4
  <2> HIDE DEF got
  <2>7. ValidateDAG(got)
    BY <2>1, <2>6, EdgesDecide
  <2>8. cli' = [q \in Clients |-> cli'[q]] /\ ReadInv'
    BY <2>1, <2>2, <2>5, <2>7, CliStep
  <2> QED BY <1>1, <2>8 DEF GraphInv
<1> QED BY <1>2, <1>3 DEF ReadSection
(* The command ends, and what it stores, if anything, is a graph without a  *)
(* cycle.                                                                   *)
LEMMA WriteStep ==
  ASSUME GraphInv, NEW p \in Clients, Done(p), versions' = versions,
         stored' = stored \/ (GraphRecord(stored') /\ ValidateDAG(stored'))
  PROVE  GraphInv'
<1>1. cli' = [q \in Clients |-> cli'[q]] /\ ReadInv'
  BY DoneStep
<1> QED BY <1>1 DEF GraphInv

(* An import checks what it stores, merged or not.                          *)
LEMMA ImportStep ==
  ASSUME GraphInv, NEW p \in Clients, runMapImportWorkflows(p)
  PROVE  GraphInv'
<1>1. GraphRecord(cli[p].op.graph)
  BY DEF GraphInv, ReadInv, runMapImportWorkflows, ReadDone
<1>2. \A g \in MergedImport(cli[p].op, cli[p].got) : GraphRecord(g) /\ ValidateDAG(g)
  BY <1>1, BuiltGraphs DEF MergedImport
<1>3. stored' = stored \/ (GraphRecord(stored') /\ ValidateDAG(stored'))
  BY <1>2 DEF runMapImportWorkflows, ReplaceTestPlanGraph
<1> QED BY <1>3, WriteStep DEF runMapImportWorkflows

(* An update stores the edges it has read.                                  *)
LEMMA UpdateStep ==
  ASSUME GraphInv, NEW p \in Clients, runMapUpdate(p)
  PROVE  GraphInv'
<1> DEFINE got == cli[p].got
           status == cli[p].op.status
<1>1. GraphRecord(got) /\ ValidateDAG(got)
  BY DEF GraphInv, ReadInv
<1>2. stored' = [got EXCEPT !.map = status] /\ Done(p) /\ versions' = versions
  BY DEF runMapUpdate, ReplaceTestPlanGraph
<1> HIDE DEF got, status
<1>3. GraphRecord(stored') /\ ValidateDAG(stored')
  BY <1>1, <1>2, ChangedGraphs, EdgesDecide
<1> QED BY <1>2, <1>3, WriteStep

(* A version records the edges that were read.                              *)
LEMMA VersionStep ==
  ASSUME GraphInv, NEW p \in Clients, runMapSnapshot(p) \/ PublishVersion(p)
  PROVE  GraphInv'
<1> DEFINE v == cli[p].op.v
           got == cli[p].got
<1>1. versions' = [versions EXCEPT ![v] = {got}] /\ stored' = stored /\ Done(p)
  BY DEF runMapSnapshot, PublishVersion, SaveTestPlanMapVersion
<1>2. ValidateDAG(got) /\ versions = [w \in Versions |-> versions[w]]
      /\ \A w \in Versions : \A g \in versions[w] : ValidateDAG(g)
  BY DEF GraphInv, ReadInv
<1> HIDE DEF v, got
<1>3. /\ versions' = [w \in Versions |-> versions'[w]]
      /\ \A w \in Versions : \A g \in versions'[w] : ValidateDAG(g)
  BY <1>1, <1>2
<1>4. cli' = [q \in Clients |-> cli'[q]] /\ ReadInv'
  BY <1>1, DoneStep
<1> QED BY <1>1, <1>3, <1>4 DEF GraphInv

(* A publication stores the edges it has read, and keeps them for the       *)
(* version.                                                                 *)
LEMMA PublishStep ==
  ASSUME GraphInv, NEW p \in Clients, runMapPublish(p)
  PROVE  GraphInv'
<1> DEFINE got == cli[p].got
           g == [got EXCEPT !.map = "active"]
           op == [k |-> "version", v |-> cli[p].op.v]
<1>1. GraphRecord(got) /\ ValidateDAG(got)
      /\ cli[p] = [op |-> cli[p].op, at |-> cli[p].at, got |-> cli[p].got]
  BY DEF GraphInv, ReadInv
<1>2. /\ stored' = g /\ versions' = versions
      /\ cli' = [cli EXCEPT ![p].op = op, ![p].got = g]
  BY DEF runMapPublish, ReplaceTestPlanGraph
<1>3. op.k # "import"
  OBVIOUS
<1>4. GraphRecord(g) /\ ValidateDAG(g)
  <2> HIDE DEF got
  <2> QED BY <1>1, ChangedGraphs, EdgesDecide
<1> HIDE DEF g, op
<1>5. cli' = [cli EXCEPT ![p] = [op |-> op, at |-> cli[p].at, got |-> g]]
  <2> DEFINE x == cli[p]
             y == [op |-> op, at |-> x.at, got |-> x.got]
             z == [op |-> op, at |-> x.at, got |-> g]
  <2>1. cli = [q \in Clients |-> cli[q]]
    BY DEF GraphInv
  <2>2. [x EXCEPT !.op = op] = y
    BY <1>1
  <2>3. [y EXCEPT !.got = g] = z
    OBVIOUS
  <2>4. cli' = [[cli EXCEPT ![p] = [x EXCEPT !.op = op]] EXCEPT ![p] = [[cli EXCEPT ![p] = [x EXCEPT !.op = op]][p] EXCEPT !.got = g]]
    BY <1>2
  <2>5. [cli EXCEPT ![p] = [x EXCEPT !.op = op]][p] = y
    BY <2>1, <2>2
  <2> HIDE DEF x, y, z
  <2>6. cli' = [[cli EXCEPT ![p] = y] EXCEPT ![p] = z]
    BY <2>2, <2>3, <2>4, <2>5
  <2>7. cli' = [cli EXCEPT ![p] = z]
    BY <2>1, <2>6
  <2> QED BY <2>7 DEF x, z
<1>6. cli' = [q \in Clients |-> cli'[q]] /\ ReadInv'
  BY <1>3, <1>4, <1>5, CliStep
<1> QED BY <1>2, <1>4, <1>6 DEF GraphInv

(* An attached validation checks the g it has read, whose edges it      *)
(* keeps; a promotion checks the g it has made.                         *)
LEMMA ValidationStep ==
  ASSUME GraphInv, NEW p \in Clients, runMapValidationAttach(p) \/ runMapValidationPromote(p)
  PROVE  GraphInv'
<1> DEFINE got == cli[p].got
           op == cli[p].op
<1>1. GraphRecord(got) /\ ValidateDAG(got)
  BY DEF GraphInv, ReadInv
<1>2. Done(p) /\ versions' = versions
  BY DEF runMapValidationAttach, runMapValidationPromote
<1>3. CASE runMapValidationAttach(p)
  <2>1. stored' = stored \/ stored' = mapValidationNodeForAttach(got, op.c, op.anchor)
    BY <1>3 DEF runMapValidationAttach, ReplaceTestPlanGraph
  <2> DEFINE nodes == [got.nodes EXCEPT ![op.c] = [role |-> "validation", anchor |-> {op.anchor}]]
  <2>2. mapValidationNodeForAttach(got, op.c, op.anchor) = [got EXCEPT !.nodes = nodes]
    BY DEF mapValidationNodeForAttach
  <2> HIDE DEF nodes, got, op
  <2>3. stored' = stored \/ (GraphRecord(stored') /\ ValidateDAG(stored'))
    <3> DEFINE h == [got EXCEPT !.nodes = nodes]
    <3>1. GraphRecord(h) /\ h.edges = got.edges
      BY <1>1, ChangedGraphs
    <3> HIDE DEF h
    <3>2. ValidateDAG(h)
      BY <1>1, <3>1, EdgesDecide
    <3> QED BY <2>1, <2>2, <3>1, <3>2 DEF h
  <2> QED BY <1>2, <2>3, WriteStep
<1>4. CASE runMapValidationPromote(p)
  <2>1. stored' = stored \/ \E g \in Promoted(got, op.c) : ValidateDAG(g) /\ stored' = g
    BY <1>4 DEF runMapValidationPromote, ReplaceTestPlanGraph
  <2> HIDE DEF got, op
  <2>2. stored' = stored \/ (GraphRecord(stored') /\ ValidateDAG(stored'))
    BY <1>1, <2>1, PromotedGraphs
  <2> QED BY <1>2, <2>2, WriteStep
<1> QED BY <1>3, <1>4

(* Every step of a process, and of the catalog under the map.               *)
LEMMA StepOfTheGraph == GraphInv /\ [Next]_vars => GraphInv'
<1> SUFFICES ASSUME GraphInv, [Next]_vars PROVE GraphInv'
  OBVIOUS
<1>1. CASE stored' = stored /\ versions' = versions /\ cli' = cli
  BY <1>1 DEF GraphInv, ReadInv
<1>2. CASE PublishCatalog \/ UNCHANGED vars
  BY <1>1, <1>2 DEF PublishCatalog, vars
<1>3. ASSUME NEW p \in Clients, Kill(p) PROVE GraphInv'
  BY <1>3, WriteStep DEF Kill
<1> QED
  BY <1>2, <1>3, StartSteps, ReadStep, ImportStep, UpdateStep, VersionStep, PublishStep, ValidationStep
  DEF Next

(* A prefix without its bound runs nothing, and any other task runs after   *)
(* finishTask what it ran before.                                           *)
LEMMA NothingWithoutABound ==
  ASSUME NEW g, NEW t, BoundLost(t) PROVE stepsForTask(g, t) = <<>>
<1>1. PrefixUntil(g, t.path, {}) = {}
  BY DEF PrefixUntil
<1> QED BY <1>1 DEF BoundLost, stepsForTask, TheOrEmpty

LEMMA FinishedTask ==
  ASSUME NEW g, NEW t, t.kind # "run_path_prefix"
  PROVE  stepsForTask(g, finishTask(t)) = stepsForTask(g, t)
<1>1. /\ finishTask(t).kind = t.kind /\ finishTask(t).path = t.path /\ finishTask(t).case = t.case
  BY DEF finishTask
<1> QED BY <1>1 DEF stepsForTask

(* A new plan is planned from the graph it has the fingerprint of.          *)
LEMMA ExplainStep == PlansInv /\ runMapExplain => PlansInv'
<1> SUFFICES ASSUME PlansInv, runMapExplain PROVE PlansInv'
  OBVIOUS
<1>1. PICK plan \in UNION {Explain(stored, r) : r \in Queries},
           fingerprint \in {GraphFingerprint(stored), NoFingerprint} :
        plans' = plans \cup {[tasks |-> plan.tasks, edges |-> plan.edges, fingerprint |-> fingerprint,
                              steps |-> [i \in DOMAIN plan.tasks |-> stepsForTask(stored, plan.tasks[i])],
                              run |-> NotRunning, ran |-> {}]}
  BY DEF runMapExplain
<1> DEFINE saved == [tasks |-> plan.tasks, edges |-> plan.edges, fingerprint |-> fingerprint,
                     steps |-> [i \in DOMAIN plan.tasks |-> stepsForTask(stored, plan.tasks[i])],
                     run |-> NotRunning, ran |-> {}]
<1>2. /\ saved.fingerprint = fingerprint /\ saved.tasks = plan.tasks
      /\ saved.steps = [j \in DOMAIN plan.tasks |-> stepsForTask(stored, plan.tasks[j])]
      /\ saved.run = NotRunning /\ saved.ran = {} /\ PlanRecord(saved)
  BY DEF PlanRecord
<1>3. GraphFingerprint(stored).steps = stored.steps
  BY DEF GraphFingerprint
<1>4. plans' = plans \cup {saved}
  BY <1>1
<1> HIDE DEF saved
<1>5. ASSUME saved.fingerprint # NoFingerprint, NEW i \in DOMAIN saved.tasks
      PROVE  stepsForTask(saved.fingerprint, saved.tasks[i]) = saved.steps[i]
  <2>1. saved.steps[i] = stepsForTask(stored, saved.tasks[i])
    BY <1>2
  <2>2. stepsForTask(GraphFingerprint(stored), saved.tasks[i]) = stepsForTask(stored, saved.tasks[i])
    BY <1>3, StepsDecide
  <2>3. saved.fingerprint = GraphFingerprint(stored)
    BY <1>2, <1>5
  <2> QED BY <2>1, <2>2, <2>3
<1>6. PlanInv(saved)
  BY <1>2, <1>5 DEF PlanInv, TasksAsPlanned, RunAsPlanned, RanAsPlanned
<1> QED BY <1>4, <1>6 DEF PlansInv

(* A run starts with the graph whose fingerprint the plan has, or ends.     *)
LEMMA RunStep ==
  ASSUME PlansInv, NEW plan \in plans, runMapRun(plan) \/ endRun(plan)
  PROVE  PlansInv'
<1> DEFINE ofRun == IF runMapRun(plan) THEN stored ELSE NotRunning
           next == [plan EXCEPT !.run = ofRun]
<1>1. plans' = (plans \ {plan}) \cup {next}
  BY DEF runMapRun, endRun
<1>2. PlanInv(plan)
  BY DEF PlansInv
<1>3. runMapRun(plan) /\ plan.fingerprint # NoFingerprint => stored.steps = plan.fingerprint.steps
  <2>1. GraphFingerprint(stored).steps = stored.steps
    BY DEF GraphFingerprint
  <2> QED BY <2>1 DEF runMapRun, validateMapRunPlanGraph
<1>4. ofRun # NotRunning /\ plan.fingerprint # NoFingerprint => ofRun.steps = plan.fingerprint.steps
  BY <1>3
<1> HIDE DEF ofRun
<1>5. PlanRecord(plan)
  BY <1>2 DEF PlanInv
<1>6. next = [tasks |-> plan.tasks, edges |-> plan.edges, fingerprint |-> plan.fingerprint,
              steps |-> plan.steps, run |-> ofRun, ran |-> plan.ran]
  BY <1>5 DEF PlanRecord
<1> HIDE DEF next
<1>7. /\ PlanRecord(next) /\ next.tasks = plan.tasks /\ next.fingerprint = plan.fingerprint
      /\ next.steps = plan.steps /\ next.run = ofRun /\ next.ran = plan.ran
  BY <1>6 DEF PlanRecord
<1>8. PlanInv(next)
  BY <1>2, <1>4, <1>7 DEF PlanInv, TasksAsPlanned, RunAsPlanned, RanAsPlanned
<1> QED BY <1>1, <1>8 DEF PlansInv

(* A task runs what it was planned to run, or nothing without its bound.    *)
LEMMA TaskStep ==
  ASSUME PlansInv, NEW plan \in plans, NEW i \in DOMAIN plan.tasks, executeTask(plan, i)
  PROVE  PlansInv'
<1> DEFINE t == plan.tasks[i]
           done == [task |-> i, until |-> t.until, steps |-> stepsForTask(plan.run, t)]
<1>1. PICK now \in {plan.ran, plan.ran \cup {done}} :
        plans' = (plans \ {plan}) \cup {[plan EXCEPT !.tasks = [@ EXCEPT ![i] = finishTask(t)], !.ran = now]}
  BY DEF executeTask
<1> DEFINE tasks == [plan.tasks EXCEPT ![i] = finishTask(t)]
           next == [tasks |-> tasks, edges |-> plan.edges, fingerprint |-> plan.fingerprint,
                    steps |-> plan.steps, run |-> plan.run, ran |-> now]
<1>2. PlanInv(plan) /\ plan.run # NotRunning
  BY DEF PlansInv, executeTask
<1>3. [plan EXCEPT !.tasks = [@ EXCEPT ![i] = finishTask(t)], !.ran = now] = next
  <2>1. plan = [tasks |-> plan.tasks, edges |-> plan.edges, fingerprint |-> plan.fingerprint,
                steps |-> plan.steps, run |-> plan.run, ran |-> plan.ran]
    BY <1>2 DEF PlanInv, PlanRecord
  <2>2. [plan EXCEPT !.tasks = [@ EXCEPT ![i] = finishTask(t)], !.ran = now]
          = [plan EXCEPT !.tasks = tasks, !.ran = now]
    OBVIOUS
  <2>3. ASSUME NEW s, NEW n
        PROVE  [plan EXCEPT !.tasks = s, !.ran = n]
                 = [tasks |-> s, edges |-> plan.edges, fingerprint |-> plan.fingerprint,
                    steps |-> plan.steps, run |-> plan.run, ran |-> n]
    <3> DEFINE half == [tasks |-> s, edges |-> plan.edges, fingerprint |-> plan.fingerprint,
                        steps |-> plan.steps, run |-> plan.run, ran |-> plan.ran]
    <3>1. [plan EXCEPT !.tasks = s] = half
      BY <2>1
    <3>2. [half EXCEPT !.ran = n] = [tasks |-> s, edges |-> plan.edges, fingerprint |-> plan.fingerprint,
                                     steps |-> plan.steps, run |-> plan.run, ran |-> n]
      OBVIOUS
    <3>3. [plan EXCEPT !.tasks = s, !.ran = n] = [[plan EXCEPT !.tasks = s] EXCEPT !.ran = n]
      OBVIOUS
    <3> HIDE DEF half
    <3> QED BY <3>1, <3>2, <3>3
  <2>4. [plan EXCEPT !.tasks = tasks, !.ran = now] = next
    BY <2>3
  <2> QED BY <2>2, <2>4, Zenon
<1>4. /\ DOMAIN tasks = DOMAIN plan.tasks
      /\ \A j \in DOMAIN plan.tasks : tasks[j] = IF j = i THEN finishTask(t) ELSE plan.tasks[j]
  OBVIOUS
<1>5. finishTask(t).kind = t.kind /\ finishTask(t).until = {}
  BY DEF finishTask
<1>6. done.task = i /\ done.until = t.until /\ done.steps = stepsForTask(plan.run, t)
  OBVIOUS
<1>7. /\ PlanRecord(next) /\ next.tasks = tasks /\ next.fingerprint = plan.fingerprint
      /\ next.steps = plan.steps /\ next.run = plan.run /\ next.ran = now
  BY DEF PlanRecord
<1> HIDE DEF next, done, tasks
<1>8. ASSUME plan.fingerprint # NoFingerprint
      PROVE  TasksAsPlanned(next) /\ RunAsPlanned(next) /\ RanAsPlanned(next)
  <2>1. TasksAsPlanned(plan) /\ RunAsPlanned(plan) /\ RanAsPlanned(plan)
    BY <1>2, <1>8 DEF PlanInv
  <2>2. TasksAsPlanned(next)
    <3> SUFFICES ASSUME NEW j \in DOMAIN plan.tasks
                 PROVE  BoundLost(tasks[j]) \/ stepsForTask(plan.fingerprint, tasks[j]) = plan.steps[j]
      BY <1>4, <1>7 DEF TasksAsPlanned
    <3>1. BoundLost(plan.tasks[j]) \/ stepsForTask(plan.fingerprint, plan.tasks[j]) = plan.steps[j]
      BY <2>1 DEF TasksAsPlanned
    <3>2. CASE j # i
      BY <1>4, <3>1, <3>2
    <3>3. CASE j = i /\ t.kind = "run_path_prefix"
      BY <1>4, <1>5, <3>3 DEF BoundLost
    <3>4. CASE j = i /\ t.kind # "run_path_prefix"
      <4>1. stepsForTask(plan.fingerprint, finishTask(t)) = stepsForTask(plan.fingerprint, t)
        BY <3>4, FinishedTask
      <4>2. ~BoundLost(t)
        BY <3>4 DEF BoundLost
      <4> QED BY <1>4, <3>1, <3>4, <4>1, <4>2
    <3> QED BY <3>2, <3>3, <3>4
  <2>3. stepsForTask(plan.run, t) = stepsForTask(plan.fingerprint, t)
    BY <1>2, <2>1, StepsDecide DEF RunAsPlanned
  <2>4. done.steps = IF t.kind = "run_path_prefix" /\ done.until = {} THEN <<>> ELSE plan.steps[i]
    <3>1. CASE BoundLost(t)
      BY <1>6, <3>1, NothingWithoutABound DEF BoundLost
    <3>2. CASE ~BoundLost(t)
      BY <1>6, <2>1, <2>3, <3>2 DEF BoundLost, TasksAsPlanned
    <3> QED BY <3>1, <3>2
  <2>5. RanAsPlanned(next)
    <3> SUFFICES ASSUME NEW r \in now
                 PROVE  /\ r.task \in DOMAIN plan.tasks
                        /\ r.steps = IF tasks[r.task].kind = "run_path_prefix" /\ r.until = {}
                                     THEN <<>> ELSE plan.steps[r.task]
      BY <1>4, <1>7 DEF RanAsPlanned
    <3>1. \A j \in DOMAIN plan.tasks : tasks[j].kind = plan.tasks[j].kind
      BY <1>4, <1>5
    <3>2. CASE r = done
      BY <1>6, <2>4, <3>1, <3>2
    <3>3. CASE r \in plan.ran
      BY <2>1, <3>1, <3>3 DEF RanAsPlanned
    <3> QED BY <3>2, <3>3
  <2> QED BY <1>7, <2>1, <2>2, <2>5 DEF RunAsPlanned
<1>9. PlanInv(next)
  BY <1>7, <1>8 DEF PlanInv
<1> QED BY <1>1, <1>3, <1>9 DEF PlansInv

(* Every step of the planner, a run, and of the map under them.             *)
LEMMA StepOfThePlans == PlansInv /\ [PlannerNext]_planVars => PlansInv'
<1> SUFFICES ASSUME PlansInv, [PlannerNext]_planVars PROVE PlansInv'
  OBVIOUS
<1>1. CASE plans' = plans
  BY <1>1 DEF PlansInv
<1>2. CASE PlanStep
  BY <1>2, ExplainStep, RunStep, TaskStep DEF PlanStep
<1> QED BY <1>1, <1>2 DEF PlannerNext, planVars

(* A step of the planner leaves the map alone.                              *)
LEMMA PlansApart == PlanStep => UNCHANGED vars
<1>1. runMapExplain => UNCHANGED vars
  BY DEF runMapExplain
<1>2. ASSUME NEW plan, runMapRun(plan) \/ endRun(plan) PROVE UNCHANGED vars
  BY <1>2 DEF runMapRun, endRun
<1>3. ASSUME NEW plan, NEW i, executeTask(plan, i) PROVE UNCHANGED vars
  BY <1>3 DEF executeTask
<1> QED BY <1>1, <1>2, <1>3, Zenon DEF PlanStep

(* The start: nothing is stored, planned or read.                           *)
LEMMA StartOfTheMap == Init => GraphInv
<1> SUFFICES ASSUME Init PROVE GraphInv
  OBVIOUS
<1>1. [k |-> "none"].k # "import"
  OBVIOUS
<1>2. Idle.op = [k |-> "none"] /\ Idle.got = NoGraph /\ Idle = [op |-> Idle.op, at |-> Idle.at, got |-> Idle.got]
  BY DEF Idle
<1>3. ReadInv
  BY <1>1, <1>2, NoGraphIsAcyclic DEF Init, ReadInv
<1> QED BY <1>3, NoGraphIsAcyclic DEF Init, GraphInv

-----------------------------------------------------------------------------
(* The map and its plans: the theorems                                      *)

(* The invariant holds in every behaviour of the map, its editors and its   *)
(* planner.                                                                 *)
THEOREM PlannerInvariant == PlannerSpec => []PlannerInv
<1>1. PlannerInit => PlannerInv
  BY StartOfTheMap DEF PlannerInit, PlannerInv, PlansInv
<1>2. PlannerInv /\ [PlannerNext]_planVars => PlannerInv'
  <2>1. [PlannerNext]_planVars => [Next]_vars
    BY PlansApart DEF PlannerNext, planVars, vars
  <2> QED BY <2>1, StepOfTheGraph, StepOfThePlans DEF PlannerInv
<1> QED BY <1>1, <1>2, PTL DEF PlannerSpec

(* The commands of `agent-testbench map` never store a graph with a cycle,  *)
(* whatever imports, appends, edits and publications race: update and       *)
(* publish write back without a check what they read in six selects, and    *)
(* the edges are one of the six.                                            *)
THEOREM StoredMapIsAcyclic == Spec => []StoredGraphAcyclic
<1>1. GraphInv => StoredGraphAcyclic
  BY DEF GraphInv, StoredGraphAcyclic
<1> QED BY <1>1, StartOfTheMap, StepOfTheGraph, PTL DEF Spec

(* validateMapRunPlanGraph: the runs of a plan saved with a fingerprint run *)
(* the steps it was planned to run, or nothing for a prefix whose bound an  *)
(* earlier run has overwritten.                                             *)
THEOREM FingerprintFixesThePlan == PlannerSpec => []SavedPlanRunsWhatItPlanned
<1>1. PlannerInv => SavedPlanRunsWhatItPlanned
  BY DEF PlannerInv, PlansInv, PlanInv, RanAsPlanned, SavedPlanRunsWhatItPlanned
<1> QED BY <1>1, PlannerInvariant, PTL

(* inspectTask against the executor: a task of any plan that the preflight  *)
(* has no complaint about runs only cases the catalog lists, and replays    *)
(* only a checkpoint the map has of a fixture the catalog has.  A whole     *)
(* path has no target, which is how the planner makes it.                   *)
THEOREM InspectedTaskIsRunnable ==
  ASSUME NEW g, NEW cat, NEW t, t.kind = "run_path" => t.until = {},
         inspectTask(g, cat, t) = {}
  PROVE  /\ ToSet(stepsForTask(g, t)) \subseteq cat.cases
         /\ t.kind = "reuse_materialization" =>
              \E m \in g.mats, f \in cat.fixtures : m.id = t.mat /\ f.id = t.mat
<1>0. ASSUME NEW what, NEW names, NEW known, Missing(what, names, known) = {}
      PROVE  names \subseteq known
  BY <1>0 DEF Missing
<1>1. ToSet(<<>>) = {}
  BY DEF ToSet
<1>2. CASE t.kind = "run_path"
  <2>1. PrefixUntil(g, t.path, t.until) = {}
    BY <1>2 DEF PrefixUntil
  <2>2. stepsForTask(g, t) = preflightSteps(g, t)
    BY <1>2, <2>1 DEF stepsForTask, preflightSteps
  <2>3. Missing("case", ToSet(preflightSteps(g, t)), cat.cases) = {}
    BY <1>2 DEF inspectTask
  <2> QED BY <1>0, <1>2, <2>2, <2>3
<1>3. CASE t.kind = "run_path_prefix"
  <2>1. Missing("case", ToSet(preflightSteps(g, t)), cat.cases) = {}
    BY <1>3 DEF inspectTask
  <2>2. stepsForTask(g, t) = preflightSteps(g, t) \/ stepsForTask(g, t) = <<>>
    BY <1>3 DEF stepsForTask, preflightSteps, TheOrEmpty
  <2> QED BY <1>0, <1>1, <1>3, <2>1, <2>2
<1>4. CASE t.kind = "run_case"
  <2>1. Missing("case", {t.case}, cat.cases) = {}
    BY <1>4 DEF inspectTask
  <2>2. ToSet(<<t.case>>) = {t.case}
    BY DEF ToSet
  <2> QED BY <1>0, <1>4, <2>1, <2>2 DEF stepsForTask
<1>5. CASE t.kind = "reuse_materialization"
  <2>1. stepsForTask(g, t) = <<>>
    BY <1>5 DEF stepsForTask
  <2>2. \E m \in g.mats : m.id = t.mat
    BY <1>5 DEF inspectTask
  <2>3. Missing("fixture", {t.mat}, {x.id : x \in cat.fixtures}) = {}
    BY <1>5, <2>2 DEF inspectTask
  <2>4. {t.mat} \subseteq {x.id : x \in cat.fixtures}
    BY <1>0, <2>3
  <2> QED BY <1>1, <2>1, <2>2, <2>4
<1>6. CASE t.kind \notin {"run_path", "run_path_prefix", "run_case", "reuse_materialization"}
  BY <1>1, <1>6 DEF stepsForTask
<1> QED BY <1>2, <1>3, <1>4, <1>5, <1>6

-----------------------------------------------------------------------------
(* The map edited one command at a time: lemmas about numbers and sequences *)

(* A set of numbers that is not empty has a least one.                      *)
LEMMA LeastOf ==
  ASSUME NEW S \in SUBSET Nat, S # {}
  PROVE  \E n \in S : \A m \in S : n <= m
<1> DEFINE R == {ss \in Nat \X Nat : ss[1] < ss[2]}
<1>1. IsWellFoundedOn(R, Nat)
  BY NatLessThanWellFounded, Zenon DEF OpToRel
<1> HIDE DEF R
<1>2. PICK n \in S : \A m \in S : ~(<<m, n>> \in R)
  BY <1>1, WFMin
<1>3. \A m \in S : ~(m < n)
  BY <1>2 DEF R
<1> QED BY <1>3

(* A function from 1..n to numbers is bounded.                              *)
LEMMA BoundOf ==
  ASSUME NEW n \in Nat, NEW f \in [1..n -> Nat]
  PROVE  \E b \in Nat : \A i \in 1..n : f[i] <= b
<1> DEFINE Bounded(k) == \E b \in Nat : \A i \in 1..k : f[i] <= b
           S == {k \in 0..n : ~Bounded(k)}
<1>1. n \in 0..n /\ (n \notin S => Bounded(n))
  OBVIOUS
<1>2. SUFFICES ASSUME S # {} PROVE FALSE
  <2> HIDE DEF S
  <2> QED BY <1>1
<1>3. PICK k \in S : \A m \in S : k <= m
  <2>1. S \in SUBSET Nat
    OBVIOUS
  <2> HIDE DEF S
  <2> QED BY <1>2, <2>1, LeastOf
<1>4. k \in 0..n /\ ~Bounded(k)
  OBVIOUS
<1>5. k # 0
  BY <1>4
<1>6. Bounded(k - 1)
  <2>1. k - 1 \in 0..n
    BY <1>4, <1>5
  <2>2. k - 1 \notin S
    <3> HIDE DEF S
    <3> QED BY <1>3, <1>4
  <2> QED BY <2>1, <2>2
<1>7. PICK b \in Nat : \A i \in 1..(k - 1) : f[i] <= b
  BY <1>6
<1>8. f[k] \in Nat
  BY <1>4, <1>5
<1>9. CASE f[k] <= b
  BY <1>4, <1>5, <1>7, <1>9
<1>10. CASE b <= f[k]
  <2>1. \A i \in 1..k : f[i] <= f[k]
    BY <1>4, <1>5, <1>7, <1>8, <1>10
  <2> QED BY <1>4, <1>8, <2>1
<1> QED BY <1>8, <1>9, <1>10

(* A finite set of numbers that is not empty has a greatest one.            *)
LEMMA GreatestOf ==
  ASSUME NEW S \in SUBSET Nat, IsFiniteSet(S), S # {}
  PROVE  \E n \in S : \A m \in S : m <= n
<1> DEFINE B == {b \in Nat : \A m \in S : m <= b}
<1>1. PICK n \in Nat : ExistsSurjection(1..n, S)
  BY FS_NatSurjection
<1>2. PICK g : g \in Surjection(1..n, S)
  BY <1>1 DEF ExistsSurjection
<1>3. g \in [1..n -> S] /\ \A m \in S : \E i \in 1..n : g[i] = m
  BY <1>2 DEF Surjection
<1>4. g \in [1..n -> Nat]
  BY <1>3
<1>5. PICK b \in Nat : \A i \in 1..n : g[i] <= b
  BY <1>1, <1>4, BoundOf
<1>6. b \in B
  BY <1>3, <1>5
<1>7. PICK k \in B : \A m \in B : k <= m
  <2>1. B \in SUBSET Nat /\ B # {}
    BY <1>6
  <2> HIDE DEF B
  <2> QED BY <2>1, LeastOf
<1>8. k \in Nat /\ \A m \in S : m <= k
  OBVIOUS
<1>9. CASE k \in S
  BY <1>8, <1>9
<1>10. CASE k \notin S
  <2>1. \A m \in S : m < k
    BY <1>8, <1>10
  <2>2. k - 1 \in Nat
    <3>1. PICK m \in S : m < k
      BY <2>1
    <3> QED BY <1>8, <3>1
  <2>3. k - 1 \in B
    BY <1>8, <2>1, <2>2
  <2> QED BY <1>7, <1>8, <2>3
<1> QED BY <1>9, <1>10

(* The recursion of PathNodes, up to a binding.                             *)
KeptUpTo(bind, active, n, f) ==
  f = [i \in 0..n |->
         IF i = 0 THEN <<>>
         ELSE IF bind[i].case \in active THEN Append(f[i - 1], bind[i].case)
         ELSE f[i - 1]]

LEMMA KeptExists ==
  ASSUME NEW bind, NEW active, NEW n \in Nat
  PROVE  \E f : KeptUpTo(bind, active, n, f)
<1> DEFINE S == {k \in Nat : ~\E f : KeptUpTo(bind, active, k, f)}
<1>1. SUFFICES ASSUME S # {} PROVE FALSE
  OBVIOUS
<1>2. PICK k \in S : \A m \in S : k <= m
  <2>1. S \in SUBSET Nat
    OBVIOUS
  <2> HIDE DEF S
  <2> QED BY <1>1, <2>1, LeastOf
<1>3. CASE k = 0
  <2>1. KeptUpTo(bind, active, 0, [i \in 0..0 |-> <<>>])
    BY DEF KeptUpTo
  <2> QED BY <1>3, <2>1
<1>4. CASE k # 0
  <2>1. k \in Nat /\ k - 1 \in Nat /\ k - 1 \notin S
    BY <1>2, <1>4
  <2>2. PICK f : KeptUpTo(bind, active, k - 1, f)
    BY <2>1
  <2> DEFINE g == [i \in 0..k |->
                     IF i < k THEN f[i]
                     ELSE IF bind[k].case \in active THEN Append(f[k - 1], bind[k].case)
                     ELSE f[k - 1]]
  <2>3. ASSUME NEW i \in 0..k
        PROVE  g[i] = IF i = 0 THEN <<>>
                      ELSE IF bind[i].case \in active THEN Append(g[i - 1], bind[i].case)
                      ELSE g[i - 1]
    <3>1. CASE i < k
      <4>1. f[i] = IF i = 0 THEN <<>>
                   ELSE IF bind[i].case \in active THEN Append(f[i - 1], bind[i].case)
                   ELSE f[i - 1]
        <5>1. i \in 0..(k - 1)
          BY <2>1, <3>1
        <5> HIDE DEF g
        <5> QED BY <2>2, <5>1 DEF KeptUpTo
      <4>2. g[i] = f[i] /\ (i # 0 => g[i - 1] = f[i - 1])
        BY <3>1
      <4> HIDE DEF g
      <4> QED BY <4>1, <4>2
    <3>2. CASE i = k
      <4>1. g[k - 1] = f[k - 1] /\ g[k] = IF bind[k].case \in active THEN Append(f[k - 1], bind[k].case) ELSE f[k - 1]
        BY <1>4, <2>1
      <4> HIDE DEF g
      <4> QED BY <1>4, <3>2, <4>1
    <3> QED BY <3>1, <3>2
  <2>4. g = [i \in 0..k |-> g[i]]
    OBVIOUS
  <2> HIDE DEF g
  <2>5. KeptUpTo(bind, active, k, g)
    BY <2>3, <2>4 DEF KeptUpTo
  <2> QED BY <2>5
<1> QED BY <1>3, <1>4

LEMMA KeptAreActive ==
  ASSUME NEW bind, NEW active, NEW n \in Nat, NEW f, KeptUpTo(bind, active, n, f)
  PROVE  f[n] \in Seq(active)
<1> DEFINE S == {k \in 0..n : f[k] \notin Seq(active)}
<1>1. SUFFICES ASSUME S # {} PROVE FALSE
  OBVIOUS
<1>2. PICK k \in S : \A m \in S : k <= m
  <2>1. S \in SUBSET Nat
    OBVIOUS
  <2> HIDE DEF S
  <2> QED BY <1>1, <2>1, LeastOf
<1>6. k \in 0..n /\ f[k] \notin Seq(active)
  OBVIOUS
<1>3. f[k] = IF k = 0 THEN <<>>
             ELSE IF bind[k].case \in active THEN Append(f[k - 1], bind[k].case)
             ELSE f[k - 1]
  BY DEF KeptUpTo
<1>4. CASE k = 0
  <2>1. f[k] = <<>>
    BY <1>3, <1>4
  <2> QED BY <1>6, <2>1
<1>5. CASE k # 0
  <2>1. k - 1 \in 0..n /\ k - 1 \notin S
    BY <1>2, <1>5
  <2>2. f[k - 1] \in Seq(active)
    BY <2>1
  <2>3. f[k] \in Seq(active)
    BY <1>3, <1>5, <2>2
  <2> QED BY <2>3
<1> QED BY <1>4, <1>5

(* What the proofs use of the ids and of a catalog.                         *)
LEMMA IdsOfTheMap ==
  /\ IsFiniteSet(Cases) /\ IsFiniteSet(Workflows)
  /\ Cases \subseteq Nat /\ Workflows \subseteq Nat \ {0}
  /\ \A w \in Workflows, c \in Cases : w < PrimaryPath(c)
BY PlanGraphAssumption, Zenon

LEMMA CatalogsAreWellFormed ==
  ASSUME NEW cat \in Catalogs
  PROVE  /\ cat.active \subseteq Cases
         /\ \A w \in Workflows : cat.bind[w] \in Seq([case : Cases, req : BOOLEAN])
         /\ \A f \in cat.fixtures : f.id # ""
<1>1. /\ cat.active \subseteq Cases
      /\ cat.bind \in [Workflows -> Seq([case : Cases, req : BOOLEAN])]
      /\ \A f \in cat.fixtures : f.id # ""
  BY PlanGraphAssumption, Zenon
<1>2. ASSUME NEW S, cat.bind \in [Workflows -> S] PROVE \A w \in Workflows : cat.bind[w] \in S
  BY <1>2
<1> QED BY <1>1, <1>2

(* The steps of a path are active cases of the catalog.                     *)
LEMMA PathNodesType ==
  ASSUME NEW cat \in Catalogs, NEW w \in Workflows
  PROVE  PathNodes(cat, w) \in Seq(Cases)
<1> DEFINE bind == cat.bind[w]
<1>0. bind \in Seq([case : Cases, req : BOOLEAN])
  BY CatalogsAreWellFormed
<1>1. Len(bind) \in Nat /\ cat.active \subseteq Cases
  <2>1. cat.active \subseteq Cases
    BY CatalogsAreWellFormed
  <2>2. \A R : bind \in Seq(R) => Len(bind) \in Nat
    OBVIOUS
  <2> QED BY <1>0, <2>1, <2>2
<1>2. \E f : KeptUpTo(bind, cat.active, Len(bind), f)
  BY <1>1, KeptExists
<1>3. \E f : KeptUpTo(bind, cat.active, Len(bind), f) /\ PathNodes(cat, w) = f[Len(bind)]
  BY <1>2 DEF PathNodes, KeptUpTo
<1>4. PathNodes(cat, w) \in Seq(cat.active)
  BY <1>1, <1>3, KeptAreActive
<1> QED BY <1>1, <1>4

-----------------------------------------------------------------------------
(* The map edited one command at a time: what a stored graph keeps          *)

GraphShape(g) ==
  /\ g.nodes = [c \in Cases |-> g.nodes[c]]
  /\ g.paths \in [PathIds -> Nat]
  /\ g.steps \in [PathIds -> Seq(Cases)]

(* A control edge has its workflow in its id, a fixture edge its dependency.*)
EdgeShape(g) ==
  \A e \in g.edges :
    \/ e.path \in Workflows /\ e.mat = "" /\ \E i, from, to : e.id = <<e.path, i, from, to>>
    \/ e.path = 0 /\ \E d : e.id = <<d>>

StepsResolve(g) ==
  \A p \in PathIds :
    /\ g.steps[p] # <<>> => g.paths[p] > 0
    /\ \A i \in DOMAIN g.steps[p] : g.steps[p][i] \in NodesOf(g)

EdgesResolve(g) ==
  \A e \in g.edges :
    /\ e.to \in NodesOf(g)
    /\ e.path # 0 => e.path \in PathsOf(g)
    /\ e.mat # "" => \E m \in g.mats : m.id = e.mat

CheckpointsResolve(g) == \A m \in g.mats : m.path \in PathsOf(g) /\ m.id # ""

PairsOf(edges, w) == {<<e.from, e.to>> : e \in {x \in edges : x.path = w}}
Successive(s) == {<<s[i], s[i + 1]>> : i \in 1..(Len(s) - 1)}
EdgesFollowSteps(g) == \A w \in Workflows : PairsOf(g.edges, w) = Successive(g.steps[w])

Sound(g) ==
  /\ GraphRecord(g) /\ GraphShape(g) /\ EdgeShape(g)
  /\ StepsResolve(g) /\ EdgesResolve(g) /\ CheckpointsResolve(g)
  /\ EdgesFollowSteps(g)

(* What map doctor checks follows from it.                                  *)
LEMMA SoundIsIntact ==
  ASSUME Sound(stored), ValidateDAG(stored)
  PROVE  ReferencesIntact
<1> DEFINE ok == {"edge.from-node", "materialization.until-node", "validation.anchor"}
<1>1. ~\E p \in PathIds : stored.steps[p] # <<>> /\ p \notin PathsOf(stored)
  BY DEF Sound, StepsResolve, PathsOf
<1>2. ~\E p \in PathIds : \E i \in DOMAIN stored.steps[p] : stored.steps[p][i] \notin NodesOf(stored)
  BY DEF Sound, StepsResolve
<1>3. /\ ~\E e \in stored.edges : e.to \notin NodesOf(stored)
      /\ ~\E e \in stored.edges : e.path # 0 /\ e.path \notin PathsOf(stored)
  BY DEF Sound, EdgesResolve
<1>4. ~\E e \in stored.edges : e.mat # "" /\ e.mat \notin {m.id : m \in stored.mats}
  BY DEF Sound, EdgesResolve
<1>5. ~\E m \in stored.mats : m.path \notin PathsOf(stored)
  BY DEF Sound, CheckpointsResolve
<1>6. DoctorIssues(stored) \subseteq ok
  BY <1>1, <1>2, <1>3, <1>4, <1>5 DEF DoctorIssues
<1>7. \A w \in Workflows : PairsOf(stored.edges, w) = Successive(stored.steps[w])
  BY DEF Sound, EdgesFollowSteps
<1> QED BY <1>6, <1>7 DEF ReferencesIntact, PairsOf, Successive

(* A path's position in the import is positive.                             *)
LEMMA PositionOnImport ==
  ASSUME NEW B \in SUBSET Workflows, NEW p \in B
  PROVE  Cardinality({q \in B : q <= p}) \in Nat \ {0}
<1> DEFINE S == {q \in B : q <= p}
<1>1. IsFiniteSet(S)
  BY IdsOfTheMap, FS_Subset
<1>2. p \in S
  BY IdsOfTheMap
<1> HIDE DEF S
<1>3. S # {} /\ Cardinality(S) \in Nat /\ (Cardinality(S) = 0 <=> S = {})
  BY <1>1, <1>2, FS_CardinalityType, FS_EmptySet
<1> QED BY <1>3 DEF S

LEMMA ImportIsSound ==
  ASSUME NEW cat \in Catalogs, NEW W, NEW g \in ImportCatalog(cat, W)
  PROVE  Sound(g)
<1> DEFINE B == BoundPaths(cat, W)
           onPath == UNION {{PathNodes(cat, w)[i] : i \in DOMAIN PathNodes(cat, w)} : w \in B}
           members == onPath \cup importValidationCases(cat, W)
                      \cup ({d.case : d \in cat.deps} \cap cat.active)
           mats == importMaterializations(cat, W)
           controls == UNION {importPaths(cat, w) : w \in B}
           nodes == [c \in Cases |->
                       IF c \in members THEN upsertCaseNode(cat, W, c, c \in onPath) ELSE NoNode]
           paths == [p \in PathIds |-> IF p \in B THEN Cardinality({q \in B : q <= p}) ELSE 0]
           steps == [p \in PathIds |-> IF p \in B THEN PathNodes(cat, p) ELSE <<>>]
<1>1. g = finalize(cat, W)
  BY DEF ImportCatalog
<1>2. /\ GraphRecord(g)
      /\ g.nodes = nodes /\ g.paths = paths /\ g.steps = steps /\ g.mats = mats
      /\ g.edges = controls \cup FixtureEdges(cat, mats)
  BY <1>1, BuiltGraphs DEF finalize
<1>3. B \subseteq Workflows /\ Workflows \subseteq PathIds
  BY DEF BoundPaths, PathIds
<1>4. \A w \in B : PathNodes(cat, w) \in Seq(Cases)
  BY <1>3, PathNodesType
<1>5. \A w \in B : \A i \in DOMAIN PathNodes(cat, w) : PathNodes(cat, w)[i] \in onPath
  OBVIOUS
<1>6. \A c \in members \cap Cases : c \in NodesOf(g)
  <2> SUFFICES ASSUME NEW c \in members \cap Cases PROVE c \in NodesOf(g)
    OBVIOUS
  <2>1. nodes[c] = upsertCaseNode(cat, W, c, c \in onPath)
    OBVIOUS
  <2>2. nodes[c].role # "none"
    BY <2>1 DEF upsertCaseNode
  <2> HIDE DEF nodes
  <2> QED BY <1>2, <2>2 DEF NodesOf
<1>7. \A w \in B : \A i \in DOMAIN PathNodes(cat, w) : PathNodes(cat, w)[i] \in NodesOf(g)
  <2> SUFFICES ASSUME NEW w \in B, NEW i \in DOMAIN PathNodes(cat, w)
               PROVE  PathNodes(cat, w)[i] \in NodesOf(g)
    OBVIOUS
  <2>1. PathNodes(cat, w)[i] \in onPath /\ PathNodes(cat, w)[i] \in Cases
    BY <1>4, <1>5
  <2>2. onPath \subseteq members
    OBVIOUS
  <2> HIDE DEF onPath, members
  <2> QED BY <1>6, <2>1, <2>2
<1>8. \A w \in B : g.paths[w] \in Nat \ {0} /\ w \in PathsOf(g)
  <2> SUFFICES ASSUME NEW w \in B PROVE g.paths[w] \in Nat \ {0} /\ w \in PathsOf(g)
    OBVIOUS
  <2>1. g.paths[w] = Cardinality({q \in B : q <= w}) /\ w \in PathIds
    BY <1>2, <1>3
  <2>2. g.paths[w] \in Nat \ {0}
    BY <1>3, <2>1, PositionOnImport
  <2> QED BY <2>1, <2>2 DEF PathsOf
<1>9. GraphShape(g)
  <2>1. g.nodes = [c \in Cases |-> g.nodes[c]]
    BY <1>2
  <2>2. g.paths \in [PathIds -> Nat]
    <3>1. \A p \in PathIds : paths[p] = 0 \/ p \in B
      OBVIOUS
    <3>2. \A p \in PathIds : g.paths[p] \in Nat
      <4> HIDE DEF paths
      <4> QED BY <1>2, <1>8, <3>1
    <3> QED BY <1>2, <3>2
  <2>3. g.steps \in [PathIds -> Seq(Cases)]
    BY <1>2, <1>4
  <2> QED BY <2>1, <2>2, <2>3 DEF GraphShape
<1>10. \A e \in controls : \E w \in B : \E i \in 1..(Len(PathNodes(cat, w)) - 1) :
         e = ControlEdge(w, i, PathNodes(cat, w)[i], PathNodes(cat, w)[i + 1])
  BY DEF importPaths
<1>11. \A e \in FixtureEdges(cat, mats) :
         /\ e.path = 0 /\ \E d : e.id = <<d>>
         /\ e.to \in members \cap Cases
         /\ \E m \in mats : m.id = e.mat
  <2>1. ASSUME NEW d \in cat.deps, d.case \in cat.active, \E m \in mats : m.id = d.fix,
               NEW e, e = [id |-> <<d.id>>, kind |-> "fixture",
                           from |-> (CHOOSE m \in mats : m.id = d.fix).until, to |-> d.case,
                           path |-> 0, mat |-> d.fix, req |-> d.req]
        PROVE  /\ e.path = 0 /\ \E x : e.id = <<x>>
               /\ e.to \in members \cap Cases
               /\ \E m \in mats : m.id = e.mat
    <3>1. e.path = 0 /\ e.id = <<d.id>> /\ e.to = d.case /\ e.mat = d.fix
      BY <2>1
    <3>2. d.case \in Cases
      BY <2>1, CatalogsAreWellFormed
    <3>3. d.case \in members
      BY <2>1
    <3> HIDE DEF members, mats
    <3> QED BY <2>1, <3>1, <3>2, <3>3
  <2> HIDE DEF members, mats
  <2> QED BY <2>1 DEF FixtureEdges
<1> HIDE DEF B, onPath, members, mats, controls, nodes, paths, steps
<1>12. ASSUME NEW e \in controls
       PROVE  /\ e.path \in B /\ \E i, from, to : e.id = <<e.path, i, from, to>>
              /\ e.to \in NodesOf(g) /\ e.mat = ""
  <2>4. PICK w \in B : \E i \in 1..(Len(PathNodes(cat, w)) - 1) :
          e = ControlEdge(w, i, PathNodes(cat, w)[i], PathNodes(cat, w)[i + 1])
    BY <1>10
  <2>1. PICK i \in 1..(Len(PathNodes(cat, w)) - 1) :
          e = ControlEdge(w, i, PathNodes(cat, w)[i], PathNodes(cat, w)[i + 1])
    BY <2>4
  <2>2. e.path = w /\ e.id = <<w, i, PathNodes(cat, w)[i], PathNodes(cat, w)[i + 1]>>
        /\ e.to = PathNodes(cat, w)[i + 1] /\ e.mat = ""
    BY <2>1 DEF ControlEdge
  <2>3. i + 1 \in DOMAIN PathNodes(cat, w)
    BY <1>4
  <2> QED BY <1>7, <2>2, <2>3
<1>13. EdgeShape(g)
  BY <1>2, <1>3, <1>11, <1>12 DEF EdgeShape
<1>14. StepsResolve(g)
  <2> SUFFICES ASSUME NEW p \in PathIds
               PROVE  /\ g.steps[p] # <<>> => g.paths[p] > 0
                      /\ \A i \in DOMAIN g.steps[p] : g.steps[p][i] \in NodesOf(g)
    BY DEF StepsResolve
  <2>1. CASE p \in B
    <3>1. g.steps[p] = PathNodes(cat, p)
      BY <1>2, <2>1 DEF steps
    <3> QED BY <1>7, <1>8, <2>1, <3>1
  <2>2. CASE p \notin B
    <3>1. g.steps[p] = <<>>
      BY <1>2, <2>2 DEF steps
    <3> QED BY <3>1
  <2> QED BY <2>1, <2>2
<1>15. EdgesResolve(g)
  <2> SUFFICES ASSUME NEW e \in g.edges
               PROVE  /\ e.to \in NodesOf(g)
                      /\ e.path # 0 => e.path \in PathsOf(g)
                      /\ e.mat # "" => \E m \in g.mats : m.id = e.mat
    BY DEF EdgesResolve
  <2>1. CASE e \in controls
    BY <1>8, <1>12, <2>1
  <2>2. CASE e \in FixtureEdges(cat, mats)
    BY <1>2, <1>6, <1>11, <2>2
  <2> QED BY <1>2, <2>1, <2>2
<1>16. CheckpointsResolve(g)
  <2>1. \A m \in mats : m.path \in B /\ m.id # ""
    <3>1. \A f \in cat.fixtures : f.id # ""
      BY CatalogsAreWellFormed
    <3>2. \A m \in mats : \E f \in cat.fixtures :
            f.wf \in B /\ m = [id |-> f.id, path |-> f.wf, until |-> cat.bind[f.wf][f.until].case]
      BY DEF mats, importMaterializations, B
    <3> SUFFICES ASSUME NEW m \in mats PROVE m.path \in B /\ m.id # ""
      OBVIOUS
    <3>3. PICK f \in cat.fixtures :
            f.wf \in B /\ m = [id |-> f.id, path |-> f.wf, until |-> cat.bind[f.wf][f.until].case]
      BY <3>2
    <3>4. m.id = f.id /\ m.path = f.wf
      BY <3>3
    <3> QED BY <3>1, <3>3, <3>4
  <2> QED BY <1>2, <1>8, <2>1 DEF CheckpointsResolve
<1>17. EdgesFollowSteps(g)
  <2> SUFFICES ASSUME NEW w \in Workflows
               PROVE  PairsOf(g.edges, w) = Successive(g.steps[w])
    BY DEF EdgesFollowSteps
  <2>1. w # 0
    BY IdsOfTheMap
  <2>2. {x \in g.edges : x.path = w} = {x \in controls : x.path = w}
    BY <1>2, <1>11, <2>1
  <2>3. CASE w \in B
    <3> DEFINE s == PathNodes(cat, w)
    <3>1. g.steps[w] = s
      BY <1>2, <1>3, <2>3 DEF steps
    <3>2. {x \in controls : x.path = w} = importPaths(cat, w)
      <4>1. importPaths(cat, w) \subseteq controls
        BY <2>3 DEF controls
      <4>2. \A v \in B : \A x \in importPaths(cat, v) : x.path = v
        <5> SUFFICES ASSUME NEW v \in B, NEW x \in importPaths(cat, v) PROVE x.path = v
          OBVIOUS
        <5>1. \E i : x = ControlEdge(v, i, PathNodes(cat, v)[i], PathNodes(cat, v)[i + 1])
          BY DEF importPaths
        <5>2. \A i, from, to : ControlEdge(v, i, from, to).path = v
          BY DEF ControlEdge
        <5> QED BY <5>1, <5>2
      <4>3. \A x \in controls : \E v \in B : x \in importPaths(cat, v)
        BY DEF controls
      <4> QED BY <2>3, <4>1, <4>2, <4>3
    <3>3. {<<e.from, e.to>> : e \in importPaths(cat, w)} = {<<s[i], s[i + 1]>> : i \in 1..(Len(s) - 1)}
      <4> DEFINE E(i) == ControlEdge(w, i, s[i], s[i + 1])
                 I == 1..(Len(s) - 1)
      <4>1. \A i \in I : <<E(i).from, E(i).to>> = <<s[i], s[i + 1]>>
        BY DEF ControlEdge
      <4>2. importPaths(cat, w) = {E(i) : i \in I}
        BY DEF importPaths
      <4> HIDE DEF s, E, I
      <4>3. {<<e.from, e.to>> : e \in importPaths(cat, w)} = {<<E(i).from, E(i).to>> : i \in I}
        BY <4>2
      <4>4. {<<E(i).from, E(i).to>> : i \in I} = {<<s[i], s[i + 1]>> : i \in I}
        BY <4>1
      <4> QED BY <4>3, <4>4 DEF I
    <3> QED BY <2>2, <3>1, <3>2, <3>3 DEF PairsOf, Successive
  <2>4. CASE w \notin B
    <3>1. g.steps[w] = <<>>
      BY <1>2, <1>3, <2>4 DEF steps
    <3>2. {x \in controls : x.path = w} = {}
      BY <1>12, <2>4
    <3>3. 1..(Len(<<>>) - 1) = {}
      OBVIOUS
    <3> QED BY <2>2, <3>1, <3>2, <3>3 DEF PairsOf, Successive
  <2> QED BY <2>3, <2>4
<1> QED BY <1>2, <1>9, <1>13, <1>14, <1>15, <1>16, <1>17 DEF Sound

(* An append replaces the paths it brings, with their edges and the         *)
(* checkpoints they feed, and keeps what the others refer to.               *)
LEMMA AppendIsSound ==
  ASSUME NEW old, NEW new, Sound(old), Sound(new)
  PROVE  Sound(appendImportedMapGraph(old, new))
<1> DEFINE g == appendImportedMapGraph(old, new)
           P == PathsOf(new)
           kept == {m \in old.mats : m.path \notin P}
           gone == {m.id : m \in old.mats \ kept}
           rest == {e \in old.edges : e.path \notin P /\ e.mat \notin gone}
           oldEdges == {x \in rest : \A y \in new.edges : y.id # x.id}
           oldMats == {x \in kept : \A y \in new.mats : y.id # x.id}
<1>1. /\ GraphRecord(g)
      /\ g.nodes = [c \in Cases |-> IF c \in NodesOf(new) THEN new.nodes[c] ELSE old.nodes[c]]
      /\ g.edges = oldEdges \cup new.edges
      /\ g.paths = [p \in PathIds |-> IF p \in P THEN new.paths[p] ELSE old.paths[p]]
      /\ g.steps = [p \in PathIds |-> IF p \in P THEN new.steps[p] ELSE old.steps[p]]
      /\ g.mats = oldMats \cup new.mats
  <2>1. GraphRecord(g)
    BY BuiltGraphs
  <2>2. g.nodes = [c \in Cases |-> IF c \in NodesOf(new) THEN new.nodes[c] ELSE old.nodes[c]]
    BY DEF appendImportedMapGraph
  <2>3. g.edges = oldEdges \cup new.edges
    BY DEF appendImportedMapGraph, upsertById, removeMapEdgesForPathsAndMaterializations,
           removeMapMaterializationsForPaths
  <2>4. g.paths = [p \in PathIds |-> IF p \in P THEN new.paths[p] ELSE old.paths[p]]
    BY DEF appendImportedMapGraph
  <2>5. g.steps = [p \in PathIds |-> IF p \in P THEN new.steps[p] ELSE old.steps[p]]
    BY DEF appendImportedMapGraph, replaceMapPathSteps
  <2>6. g.mats = oldMats \cup new.mats
    BY DEF appendImportedMapGraph, upsertById, removeMapMaterializationsForPaths
  <2> QED BY <2>1, <2>2, <2>3, <2>4, <2>5, <2>6
<1>2. oldMats \subseteq kept /\ kept \subseteq old.mats /\ oldEdges \subseteq rest /\ rest \subseteq old.edges
  OBVIOUS
<1>3. \A m \in kept : m.path \notin P
  OBVIOUS
<1>4. \A m \in old.mats : m \in kept \/ m.id \in gone
  OBVIOUS
<1>5. \A m \in kept : m \in oldMats \/ \E y \in new.mats : y.id = m.id
  OBVIOUS
<1>6. \A e \in rest : e.path \notin P /\ e.mat \notin gone
  OBVIOUS
<1>7. \A e \in old.edges : (e.path \notin P /\ e.mat \notin gone) => e \in rest
  OBVIOUS
<1>8. \A e \in rest : e \in oldEdges \/ \E y \in new.edges : y.id = e.id
  OBVIOUS
<1> HIDE DEF g, kept, gone, rest, oldEdges, oldMats
<1>9. NodesOf(g) = NodesOf(old) \cup NodesOf(new)
  BY <1>1 DEF NodesOf
<1>10. PathsOf(g) = PathsOf(old) \cup PathsOf(new)
  BY <1>1 DEF PathsOf
<1>11. GraphShape(g)
  <2>1. GraphShape(old) /\ GraphShape(new)
    BY DEF Sound
  <2>2. g.nodes = [c \in Cases |-> g.nodes[c]]
    BY <1>1
  <2>3. g.paths \in [PathIds -> Nat]
    BY <1>1, <2>1 DEF GraphShape
  <2>4. g.steps \in [PathIds -> Seq(Cases)]
    BY <1>1, <2>1 DEF GraphShape
  <2> QED BY <2>2, <2>3, <2>4 DEF GraphShape
<1>12. EdgeShape(g)
  BY <1>1, <1>2 DEF Sound, EdgeShape
<1>13. StepsResolve(g)
  <2> SUFFICES ASSUME NEW p \in PathIds
               PROVE  /\ g.steps[p] # <<>> => g.paths[p] > 0
                      /\ \A i \in DOMAIN g.steps[p] : g.steps[p][i] \in NodesOf(g)
    BY DEF StepsResolve
  <2>1. CASE p \in P
    <3>1. g.steps[p] = new.steps[p] /\ g.paths[p] = new.paths[p]
      BY <1>1, <2>1
    <3> QED BY <1>9, <3>1 DEF Sound, StepsResolve
  <2>2. CASE p \notin P
    <3>1. g.steps[p] = old.steps[p] /\ g.paths[p] = old.paths[p]
      BY <1>1, <2>2
    <3> QED BY <1>9, <3>1 DEF Sound, StepsResolve
  <2> QED BY <2>1, <2>2
<1>14. EdgesResolve(g)
  <2> SUFFICES ASSUME NEW e \in g.edges
               PROVE  /\ e.to \in NodesOf(g)
                      /\ e.path # 0 => e.path \in PathsOf(g)
                      /\ e.mat # "" => \E m \in g.mats : m.id = e.mat
    BY DEF EdgesResolve
  <2>1. CASE e \in new.edges
    BY <1>1, <1>9, <1>10, <2>1 DEF Sound, EdgesResolve
  <2>2. CASE e \in oldEdges
    <3>1. e \in old.edges /\ e.mat \notin gone
      BY <1>2, <1>6, <2>2
    <3>2. e.to \in NodesOf(old) /\ (e.path # 0 => e.path \in PathsOf(old))
          /\ (e.mat # "" => \E m \in old.mats : m.id = e.mat)
      BY <3>1 DEF Sound, EdgesResolve
    <3>3. ASSUME e.mat # "" PROVE \E m \in g.mats : m.id = e.mat
      <4>1. PICK m \in old.mats : m.id = e.mat
        BY <3>2, <3>3
      <4>2. m \in kept
        BY <1>4, <3>1, <4>1
      <4> QED BY <1>1, <1>5, <4>1, <4>2
    <3> QED BY <1>9, <1>10, <3>2, <3>3
  <2> QED BY <1>1, <2>1, <2>2
<1>15. CheckpointsResolve(g)
  BY <1>1, <1>2, <1>10 DEF Sound, CheckpointsResolve
<1>16. EdgesFollowSteps(g)
  <2> SUFFICES ASSUME NEW w \in Workflows
               PROVE  PairsOf(g.edges, w) = Successive(g.steps[w])
    BY DEF EdgesFollowSteps
  <2>1. w \in PathIds /\ w # 0
    BY IdsOfTheMap DEF PathIds
  <2>2. CASE w \in P
    <3>1. g.steps[w] = new.steps[w]
      BY <1>1, <2>1, <2>2
    <3>2. {x \in g.edges : x.path = w} = {x \in new.edges : x.path = w}
      BY <1>1, <1>2, <1>6, <2>2
    <3>3. PairsOf(new.edges, w) = Successive(new.steps[w])
      BY DEF Sound, EdgesFollowSteps
    <3> QED BY <3>1, <3>2, <3>3 DEF PairsOf
  <2>3. CASE w \notin P
    <3>1. g.steps[w] = old.steps[w]
      BY <1>1, <2>1, <2>3
    <3>2. \A x \in new.edges : x.path # w
      BY <2>1, <2>3 DEF Sound, EdgesResolve
    <3>3. ASSUME NEW x \in old.edges, x.path = w PROVE x \in oldEdges
      <4>1. x.mat = "" /\ \E i, from, to : x.id = <<w, i, from, to>>
        BY <2>1, <3>3 DEF Sound, EdgeShape
      <4>2. x.mat \notin gone
        BY <4>1 DEF gone, Sound, CheckpointsResolve
      <4>3. x \in rest
        BY <1>7, <2>3, <3>3, <4>2
      <4>4. ASSUME NEW y \in new.edges, y.id = x.id PROVE FALSE
        <5>1. PICK i, from, to : x.id = <<w, i, from, to>>
          BY <4>1
        <5>2. CASE \E d : y.id = <<d>>
          <6>1. PICK d : y.id = <<d>>
            BY <5>2
          <6>2. Len(<<d>>) = 1 /\ Len(<<w, i, from, to>>) = 4
            OBVIOUS
          <6> QED BY <4>4, <5>1, <6>1, <6>2
        <5>3. CASE \E j, f, t : y.id = <<y.path, j, f, t>>
          <6>1. PICK j, f, t : y.id = <<y.path, j, f, t>>
            BY <5>3
          <6>2. y.path = w
            BY <4>4, <5>1, <6>1
          <6> QED BY <3>2, <6>2
        <5> QED BY <5>2, <5>3 DEF Sound, EdgeShape
      <4> QED BY <1>8, <4>3, <4>4
    <3>4. {x \in g.edges : x.path = w} = {x \in old.edges : x.path = w}
      BY <1>1, <1>2, <3>2, <3>3
    <3>5. PairsOf(old.edges, w) = Successive(old.steps[w])
      BY DEF Sound, EdgesFollowSteps
    <3> QED BY <3>1, <3>4, <3>5 DEF PairsOf
  <2> QED BY <2>2, <2>3
<1>17. Sound(g)
  BY <1>1, <1>11, <1>12, <1>13, <1>14, <1>15, <1>16 DEF Sound
<1> QED BY <1>17 DEF g

(* A change of the status leaves the rest of a graph alone.                 *)
LEMMA StatusIsSound ==
  ASSUME NEW g, Sound(g), NEW x
  PROVE  Sound([g EXCEPT !.map = x])
<1> DEFINE h == [g EXCEPT !.map = x]
<1>1. GraphRecord(g)
  BY DEF Sound
<1>2. GraphRecord(h)
  BY <1>1, ChangedGraphs
<1>3. DOMAIN g = {"map", "nodes", "edges", "paths", "steps", "mats"}
  BY <1>1 DEF GraphRecord
<1>4. /\ h.nodes = g.nodes /\ h.edges = g.edges /\ h.paths = g.paths
      /\ h.steps = g.steps /\ h.mats = g.mats
  BY <1>3
<1> HIDE DEF h
<1>5. NodesOf(h) = NodesOf(g) /\ PathsOf(h) = PathsOf(g)
  BY <1>4 DEF NodesOf, PathsOf
<1>6. Sound(h)
  BY <1>2, <1>4, <1>5
  DEF Sound, GraphShape, EdgeShape, StepsResolve, EdgesResolve, CheckpointsResolve, EdgesFollowSteps
<1> QED BY <1>6 DEF h

(* A case that gets a role stays on the map, or comes to it.                *)
LEMMA RoleIsSound ==
  ASSUME NEW g, Sound(g), NEW c \in Cases, NEW role, NEW anchor, role # "none"
  PROVE  /\ Sound([g EXCEPT !.nodes[c] = [role |-> role, anchor |-> anchor]])
         /\ c \in NodesOf([g EXCEPT !.nodes[c] = [role |-> role, anchor |-> anchor]])
<1> DEFINE node == [role |-> role, anchor |-> anchor]
           nodes == [g.nodes EXCEPT ![c] = node]
           h == [g EXCEPT !.nodes = nodes]
<1>1. GraphRecord(g)
  BY DEF Sound
<1>2. GraphRecord(h)
  <2> HIDE DEF nodes
  <2> QED BY <1>1, ChangedGraphs
<1>3. DOMAIN g = {"map", "nodes", "edges", "paths", "steps", "mats"}
  BY <1>1 DEF GraphRecord
<1>4. /\ h.nodes = nodes /\ h.edges = g.edges /\ h.paths = g.paths
      /\ h.steps = g.steps /\ h.mats = g.mats
  <2> HIDE DEF nodes
  <2> QED BY <1>3
<1>5. node.role # "none"
  OBVIOUS
<1>6. g.nodes = [d \in Cases |-> g.nodes[d]]
  BY DEF Sound, GraphShape
<1> HIDE DEF h, node
<1>7. /\ h.nodes = [d \in Cases |-> h.nodes[d]]
      /\ h.nodes[c] = node /\ \A d \in Cases \ {c} : h.nodes[d] = g.nodes[d]
  BY <1>4, <1>6
<1> HIDE DEF nodes
<1>8. NodesOf(g) \subseteq NodesOf(h) /\ c \in NodesOf(h) /\ PathsOf(h) = PathsOf(g)
  BY <1>4, <1>5, <1>7 DEF NodesOf, PathsOf
<1>9. GraphShape(h)
  BY <1>4, <1>7 DEF Sound, GraphShape
<1>10. StepsResolve(h)
  BY <1>4, <1>8 DEF Sound, StepsResolve
<1>11. EdgesResolve(h)
  BY <1>4, <1>8 DEF Sound, EdgesResolve
<1>12. EdgeShape(h) /\ CheckpointsResolve(h) /\ EdgesFollowSteps(h)
  BY <1>4, <1>8 DEF Sound, EdgeShape, CheckpointsResolve, EdgesFollowSteps
<1>13. Sound(h) /\ c \in NodesOf(h)
  BY <1>2, <1>8, <1>9, <1>10, <1>11, <1>12 DEF Sound
<1>14. [g EXCEPT !.nodes[c] = node] = h
  BY DEF h, nodes
<1> QED BY <1>13, <1>14 DEF node

(* The position of a promoted case's path is a number above all others.     *)
LEMMA NextPositionType ==
  ASSUME NEW g, Sound(g), NEW c \in Cases
  PROVE  nextPromotedPrimaryPathSortOrder(g) \in Nat \ {0}
<1> DEFINE S == {g.paths[p] : p \in PathIds}
           top == CHOOSE n \in S : \A p \in PathIds : g.paths[p] <= n
<1>1. IsFiniteSet(PathIds)
  <2> DEFINE T == {PrimaryPath(d) : d \in Cases}
             f == [d \in Cases |-> PrimaryPath(d)]
  <2>2. f \in Surjection(Cases, T)
    BY DEF Surjection
  <2>1. IsFiniteSet(T)
    <3> HIDE DEF f, T
    <3> QED BY <2>2, IdsOfTheMap, FS_Surjection DEF ExistsSurjection
  <2> QED BY <2>1, IdsOfTheMap, FS_Union DEF PathIds
<1>2. PrimaryPath(c) \in PathIds
  BY DEF PathIds
<1>3. g.paths \in [PathIds -> Nat]
  BY DEF Sound, GraphShape
<1>4. S \in SUBSET Nat /\ S # {}
  BY <1>2, <1>3
<1>5. IsFiniteSet(S)
  <2>1. g.paths \in Surjection(PathIds, S)
    BY <1>3 DEF Surjection
  <2> HIDE DEF S
  <2> QED BY <1>1, <2>1, FS_Surjection DEF ExistsSurjection
<1>6. \E n \in S : \A m \in S : m <= n
  <2> HIDE DEF S
  <2> QED BY <1>4, <1>5, GreatestOf
<1>7. \E n \in S : \A p \in PathIds : g.paths[p] <= n
  BY <1>6
<1>8. top \in S
  BY <1>7
<1>9. top \in Nat
  <2> HIDE DEF S, top
  <2> QED BY <1>4, <1>8
<1>10. nextPromotedPrimaryPathSortOrder(g) = 1 + top
  BY DEF nextPromotedPrimaryPathSortOrder
<1> HIDE DEF top
<1> QED BY <1>9, <1>10

(* A promoted case's own path: steps of the map, then the case.             *)
LEMMA PrimaryPathIsSound ==
  ASSUME NEW g, Sound(g), NEW c \in NodesOf(g), NEW prefix \in Seq(NodesOf(g))
  PROVE  Sound(WithPrimaryPath(g, c, prefix))
<1> DEFINE q == PrimaryPath(c)
           next == nextPromotedPrimaryPathSortOrder(g)
           own == Append(prefix, c)
           paths == [g.paths EXCEPT ![q] = next]
           steps == [g.steps EXCEPT ![q] = own]
           h == WithPrimaryPath(g, c, prefix)
<1>1. GraphRecord(g) /\ GraphShape(g)
  BY DEF Sound
<1>2. DOMAIN g = {"map", "nodes", "edges", "paths", "steps", "mats"}
  BY <1>1 DEF GraphRecord
<1>3. h = [g EXCEPT !.paths = paths, !.steps = steps]
  BY DEF WithPrimaryPath
<1>4. c \in Cases
  BY DEF NodesOf
<1>5. q \in PathIds /\ q \notin Workflows
  BY <1>4, IdsOfTheMap DEF PathIds, PrimaryPath
<1>6. next \in Nat \ {0}
  BY <1>4, NextPositionType
<1>7. own \in Seq(NodesOf(g)) /\ own \in Seq(Cases) /\ \A i \in DOMAIN own : own[i] \in NodesOf(g)
  <2>1. own \in Seq(NodesOf(g))
    OBVIOUS
  <2>2. NodesOf(g) \subseteq Cases
    BY DEF NodesOf
  <2> HIDE DEF own
  <2> QED BY <2>1, <2>2
<1> HIDE DEF q, next, own
<1>8. /\ paths \in [PathIds -> Nat] /\ paths[q] > 0
      /\ \A p \in PathIds \ {q} : paths[p] = g.paths[p]
  BY <1>1, <1>5, <1>6 DEF GraphShape
<1>9. /\ steps \in [PathIds -> Seq(Cases)] /\ steps[q] = own
      /\ \A p \in PathIds \ {q} : steps[p] = g.steps[p]
  BY <1>1, <1>5, <1>7 DEF GraphShape
<1> HIDE DEF paths, steps, h
<1>10. GraphRecord(h)
  BY <1>1, <1>3, ChangedPaths
<1>11. /\ h.nodes = g.nodes /\ h.edges = g.edges /\ h.paths = paths
       /\ h.steps = steps /\ h.mats = g.mats
  BY <1>2, <1>3
<1>12. NodesOf(h) = NodesOf(g)
  BY <1>11 DEF NodesOf
<1>13. PathsOf(g) \subseteq PathsOf(h)
  BY <1>8, <1>11 DEF PathsOf
<1>14. GraphShape(h)
  BY <1>1, <1>8, <1>9, <1>11 DEF GraphShape
<1>15. StepsResolve(h)
  <2> SUFFICES ASSUME NEW p \in PathIds
               PROVE  /\ h.steps[p] # <<>> => h.paths[p] > 0
                      /\ \A i \in DOMAIN h.steps[p] : h.steps[p][i] \in NodesOf(h)
    BY DEF StepsResolve
  <2>1. CASE p = q
    BY <1>7, <1>8, <1>9, <1>11, <1>12, <2>1
  <2>2. CASE p # q
    BY <1>8, <1>9, <1>11, <1>12, <2>2 DEF Sound, StepsResolve
  <2> QED BY <2>1, <2>2
<1>16. EdgesResolve(h) /\ CheckpointsResolve(h)
  BY <1>11, <1>12, <1>13 DEF Sound, EdgesResolve, CheckpointsResolve
<1>17. EdgesFollowSteps(h)
  <2>1. \A w \in Workflows : w \in PathIds \ {q}
    BY <1>5 DEF PathIds
  <2> QED BY <1>9, <1>11, <2>1 DEF Sound, EdgesFollowSteps
<1>18. EdgeShape(h)
  BY <1>11 DEF Sound, EdgeShape
<1>19. Sound(h)
  BY <1>10, <1>14, <1>15, <1>16, <1>17, <1>18 DEF Sound
<1> QED BY <1>19 DEF h

(* What precedes a step of a path are cases of the map.                     *)
LEMMA PrefixIsOnTheMap ==
  ASSUME NEW g, Sound(g), NEW p \in PathIds, NEW c, \E i \in DOMAIN g.steps[p] : g.steps[p][i] = c
  PROVE  mapPathPrefixBeforeNode(g, p, c) \in Seq(NodesOf(g))
<1> DEFINE s == g.steps[p]
           On == {i \in DOMAIN s : s[i] = c}
           First(i) == s[i] = c /\ \A j \in 1..(i - 1) : s[j] # c
           k == IndexOn(g, p, c)
<1>1. s \in Seq(Cases) /\ \A i \in DOMAIN s : s[i] \in NodesOf(g)
  BY DEF Sound, GraphShape, StepsResolve
<1>2. Len(s) \in Nat /\ DOMAIN s = 1..Len(s)
  <2> HIDE DEF s
  <2> QED BY <1>1
<1>3. On \in SUBSET Nat /\ On # {}
  BY <1>2
<1>4. PICK n \in On : \A m \in On : n <= m
  <2> HIDE DEF On
  <2> QED BY <1>3, LeastOf
<1>5. n \in DOMAIN s /\ First(n)
  <2>1. n \in DOMAIN s /\ s[n] = c
    BY <1>4
  <2>2. ASSUME NEW j \in 1..(n - 1), s[j] = c PROVE FALSE
    <3>1. j \in On
      <4> HIDE DEF s
      <4> QED BY <1>2, <2>1, <2>2
    <3> HIDE DEF On, s
    <3> QED BY <1>2, <1>4, <2>1, <2>2, <3>1
  <2> QED BY <2>1, <2>2
<1>6. k \in DOMAIN s
  BY <1>5 DEF IndexOn
<1>7. mapPathPrefixBeforeNode(g, p, c) = SubSeq(s, 1, k - 1)
  BY DEF mapPathPrefixBeforeNode
<1> HIDE DEF s, k
<1>8. s \in Seq(NodesOf(g))
  BY <1>1, <1>2
<1> QED BY <1>2, <1>6, <1>7, <1>8

LEMMA PromotedIsSound ==
  ASSUME NEW g, Sound(g), NEW c \in Cases, NEW h \in Promoted(g, c)
  PROVE  Sound(h)
<1> DEFINE r == promoteMapNodeToPrimary(g, c)
           anchor == g.nodes[c].anchor
           a == CHOOSE x \in anchor : TRUE
           p == CHOOSE q \in FirstPathWith(r, a) : TRUE
<1>1. Sound(r) /\ c \in NodesOf(r)
  <2>1. "primary" # "none"
    OBVIOUS
  <2> QED BY <2>1, RoleIsSound DEF promoteMapNodeToPrimary
<1>2. \/ h = r
      \/ h = WithPrimaryPath(r, c, <<>>)
      \/ /\ FirstPathWith(r, a) # {}
         /\ h = WithPrimaryPath(r, c, mapPathPrefixBeforeNode(r, p, a))
  BY DEF Promoted, ensurePromotedPrimaryReachable, upsertAnchoredPromotedPrimaryPath
<1> HIDE DEF r
<1>3. CASE h = WithPrimaryPath(r, c, <<>>)
  <2>1. <<>> \in Seq(NodesOf(r))
    OBVIOUS
  <2> QED BY <1>1, <1>3, <2>1, PrimaryPathIsSound
<1>4. CASE FirstPathWith(r, a) # {} /\ h = WithPrimaryPath(r, c, mapPathPrefixBeforeNode(r, p, a))
  <2>1. p \in FirstPathWith(r, a)
    BY <1>4
  <2> HIDE DEF a, p
  <2>2. p \in PathIds /\ \E i \in DOMAIN r.steps[p] : r.steps[p][i] = a
    BY <2>1 DEF FirstPathWith, PathsOf
  <2>3. mapPathPrefixBeforeNode(r, p, a) \in Seq(NodesOf(r))
    BY <1>1, <2>2, PrefixIsOnTheMap
  <2> QED BY <1>1, <1>4, <2>3, PrimaryPathIsSound
<1> QED BY <1>1, <1>2, <1>3, <1>4

-----------------------------------------------------------------------------
(* The map edited one command at a time: the inductive invariant and steps  *)

(* A command has what it needs of its arguments: the graph it imports, the  *)
(* case it edits.  It is read of any state x of a process.                  *)
ArgumentsOK(x) ==
  /\ x.op.k = "import" => Sound(x.op.graph)
  /\ x.op.k \in {"attach", "promote"} => x.op.c \in Cases

(* What a command has read is what is stored.                               *)
UpToDate(x, g) ==
  \/ x.op.k = "none"
  \/ x.op.k = "import" /\ ~x.op.merge
  \/ x.at \in 0..6 /\ \A j \in 1..x.at : x.got[Sections[j]] = g[Sections[j]]

EditsInv ==
  /\ GraphInv /\ catalog \in Catalogs
  /\ \A p \in Clients : ArgumentsOK(cli[p])
  /\ alone =>
       /\ Sound(stored) /\ OneAtATime
       /\ \A p \in Clients : UpToDate(cli[p], stored)

(* When all six sections are read, the graph is.                            *)
LEMMA AllIsRead ==
  ASSUME EditsInv, alone, NEW p \in Clients, cli[p].at = Len(Sections), cli[p].op.k # "none",
         cli[p].op.k = "import" => cli[p].op.merge
  PROVE  cli[p].got = stored
<1> DEFINE got == cli[p].got
<1>1. Len(Sections) = 6
  BY DEF Sections
<1>2. \A j \in 1..6 : got[Sections[j]] = stored[Sections[j]]
  BY <1>1 DEF EditsInv, UpToDate
<1>3. /\ got["map"] = stored["map"] /\ got["nodes"] = stored["nodes"]
      /\ got["edges"] = stored["edges"] /\ got["paths"] = stored["paths"]
      /\ got["steps"] = stored["steps"] /\ got["mats"] = stored["mats"]
  BY <1>2 DEF Sections
<1>4. GraphRecord(got) /\ GraphRecord(stored)
  BY DEF EditsInv, GraphInv, ReadInv
<1> HIDE DEF got
<1>5. got = stored
  BY <1>3, <1>4 DEF GraphRecord
<1> QED BY <1>5 DEF got

(* A step of one process, which may replace the graph when it is under way. *)
LEMMA EditStep ==
  ASSUME EditsInv, [Next]_vars, alone' = (alone /\ OneAtATime'), NEW p \in Clients,
         catalog' = catalog, \A q \in Clients \ {p} : cli'[q] = cli[q],
         stored' = stored \/ cli[p].op.k # "none",
         ArgumentsOK(cli'[p]),
         alone => Sound(stored') /\ UpToDate(cli'[p], stored')
  PROVE  EditsInv'
<1>1. GraphInv'
  BY StepOfTheGraph DEF EditsInv
<1>2. \A q \in Clients : ArgumentsOK(cli'[q])
  BY DEF EditsInv
<1>3. ASSUME alone', NEW q \in Clients PROVE UpToDate(cli'[q], stored')
  <2>1. alone /\ OneAtATime
    BY <1>3 DEF EditsInv
  <2>2. CASE q = p
    BY <2>1, <2>2
  <2>3. CASE q # p
    <3>1. cli'[q] = cli[q] /\ UpToDate(cli[q], stored)
      BY <2>1, <2>3 DEF EditsInv
    <3>2. CASE stored' = stored
      BY <3>1, <3>2
    <3>3. CASE cli[p].op.k # "none"
      <4>1. cli[q].op.k = "none"
        BY <2>1, <2>3, <3>3 DEF OneAtATime
      <4> QED BY <3>1, <4>1 DEF UpToDate
    <3> QED BY <3>2, <3>3
  <2> QED BY <2>2, <2>3
<1>4. alone' => Sound(stored') /\ OneAtATime' /\ \A q \in Clients : UpToDate(cli'[q], stored')
  BY <1>3
<1>5. catalog' \in Catalogs
  BY DEF EditsInv
<1> QED BY <1>1, <1>2, <1>4, <1>5 DEF EditsInv

(* The command ends.                                                        *)
LEMMA EndStep ==
  ASSUME EditsInv, [Next]_vars, alone' = (alone /\ OneAtATime'), NEW p \in Clients,
         catalog' = catalog, Done(p), cli[p].op.k # "none",
         alone => Sound(stored')
  PROVE  EditsInv'
<1>1. cli = [q \in Clients |-> cli[q]]
  BY DEF EditsInv, GraphInv
<1>2. cli'[p] = Idle /\ \A q \in Clients \ {p} : cli'[q] = cli[q]
  BY <1>1 DEF Done
<1>3. Idle.op.k = "none"
  BY DEF Idle
<1>4. ArgumentsOK(cli'[p])
  BY <1>2, <1>3 DEF ArgumentsOK
<1>5. UpToDate(cli'[p], stored')
  BY <1>2, <1>3 DEF UpToDate
<1> QED BY <1>2, <1>4, <1>5, EditStep

(* A command starts, and has read nothing.                                  *)
LEMMA BeginStep ==
  ASSUME EditsInv, [Next]_vars, alone' = (alone /\ OneAtATime'), NEW p \in Clients,
         NEW op, NEW at, Start(p, op, at),
         op.k = "import" => Sound(op.graph), op.k \in {"attach", "promote"} => op.c \in Cases,
         at = 0 \/ (op.k = "import" /\ ~op.merge)
  PROVE  EditsInv'
<1> DEFINE x == [op |-> op, at |-> at, got |-> NoGraph]
<1>1. cli = [q \in Clients |-> cli[q]]
  BY DEF EditsInv, GraphInv
<1>2. cli'[p] = x /\ (\A q \in Clients \ {p} : cli'[q] = cli[q])
      /\ stored' = stored /\ catalog' = catalog
  BY <1>1 DEF Start
<1>3. x.op = op /\ x.at = at
  OBVIOUS
<1> HIDE DEF x
<1>4. ArgumentsOK(x)
  BY <1>3 DEF ArgumentsOK
<1>5. UpToDate(x, stored')
  <2>1. CASE at = 0
    <3>1. x.at \in 0..6 /\ \A j \in 1..x.at : x.got[Sections[j]] = stored'[Sections[j]]
      BY <1>3, <2>1
    <3> QED BY <3>1 DEF UpToDate
  <2>2. CASE op.k = "import" /\ ~op.merge
    BY <1>3, <2>2 DEF UpToDate
  <2> QED BY <2>1, <2>2
<1>6. alone => Sound(stored')
  BY <1>2 DEF EditsInv
<1> QED BY <1>2, <1>4, <1>5, <1>6, EditStep

LEMMA BeginSteps ==
  ASSUME EditsInv, [Next]_vars, alone' = (alone /\ OneAtATime'), NEW p \in Clients,
         \/ StartImport(p) \/ StartUpdate(p) \/ StartSnapshot(p) \/ StartPublish(p)
         \/ StartAttach(p) \/ StartPromote(p)
  PROVE  EditsInv'
<1>1. CASE StartImport(p)
  <2>1. PICK W \in Filters, append \in BOOLEAN : \E g \in ImportCatalog(catalog, W) :
          LET merge == append /\ stored.map # "none"
          IN Start(p, [k |-> "import", graph |-> g, merge |-> merge],
                   IF merge THEN 0 ELSE Len(Sections))
    BY <1>1 DEF StartImport
  <2>2. PICK g \in ImportCatalog(catalog, W) :
          LET merge == append /\ stored.map # "none"
          IN Start(p, [k |-> "import", graph |-> g, merge |-> merge],
                   IF merge THEN 0 ELSE Len(Sections))
    BY <2>1
  <2> DEFINE merge == append /\ stored.map # "none"
             op == [k |-> "import", graph |-> g, merge |-> merge]
             at == IF merge THEN 0 ELSE Len(Sections)
  <2>3. Start(p, op, at)
    BY <2>2
  <2>4. op.graph = g /\ op.k = "import" /\ op.merge = merge
    OBVIOUS
  <2>5. Sound(g)
    BY ImportIsSound DEF EditsInv
  <2>6. at = 0 \/ ~merge
    OBVIOUS
  <2> HIDE DEF op, at, merge
  <2>7. at = 0 \/ (op.k = "import" /\ ~op.merge)
    BY <2>4, <2>6
  <2>8. (op.k = "import" => Sound(op.graph)) /\ (op.k \in {"attach", "promote"} => op.c \in Cases)
    BY <2>4, <2>5
  <2> QED BY <2>3, <2>7, <2>8, BeginStep
<1>2. CASE \/ StartUpdate(p) \/ StartSnapshot(p) \/ StartPublish(p)
           \/ StartAttach(p) \/ StartPromote(p)
  <2>1. PICK op : /\ Start(p, op, 0) /\ op.k # "import"
                  /\ op.k \in {"attach", "promote"} => op.c \in Cases
    <3>1. CASE StartUpdate(p)
      <4>1. PICK status : Start(p, [k |-> "update", status |-> status], 0)
        BY <3>1 DEF StartUpdate
      <4> QED BY <4>1
    <3>2. CASE StartSnapshot(p)
      <4>1. PICK v : Start(p, [k |-> "snapshot", v |-> v], 0)
        BY <3>2 DEF StartSnapshot
      <4> QED BY <4>1
    <3>3. CASE StartPublish(p)
      <4>1. PICK v : Start(p, [k |-> "publish", v |-> v], 0)
        BY <3>3 DEF StartPublish
      <4> QED BY <4>1
    <3>4. CASE StartAttach(p)
      <4>1. PICK c \in Cases, anchor \in Cases : Start(p, [k |-> "attach", c |-> c, anchor |-> anchor], 0)
        BY <3>4 DEF StartAttach
      <4> QED BY <4>1
    <3>5. CASE StartPromote(p)
      <4>1. PICK c \in Cases : Start(p, [k |-> "promote", c |-> c], 0)
        BY <3>5 DEF StartPromote
      <4> QED BY <4>1
    <3> QED BY <1>2, <3>1, <3>2, <3>3, <3>4, <3>5
  <2> QED BY <2>1, BeginStep
<1> QED BY <1>1, <1>2

(* One select: one more section is what is stored.                          *)
LEMMA SelectStep ==
  ASSUME EditsInv, [Next]_vars, alone' = (alone /\ OneAtATime'), NEW p \in Clients, ReadSection(p)
  PROVE  EditsInv'
<1> DEFINE x == cli[p]
           s == Sections[x.at + 1]
           got == [x.got EXCEPT ![s] = stored[s]]
           y == [x EXCEPT !.at = x.at + 1, !.got[s] = stored[s]]
<1>1. /\ stored' = stored /\ catalog' = catalog
      /\ x.op.k # "none" /\ x.at < Len(Sections)
  BY DEF ReadSection
<1>2. alone => Sound(stored')
  BY <1>1 DEF EditsInv
<1>3. CASE cli' = [cli EXCEPT ![p] = Idle]
  <2>1. Done(p)
    BY <1>3 DEF Done
  <2> QED BY <1>1, <1>2, <2>1, EndStep
<1>4. CASE cli' = [cli EXCEPT ![p] = y]
  <2>1. x = [op |-> x.op, at |-> x.at, got |-> x.got] /\ GraphRecord(x.got)
        /\ cli = [q \in Clients |-> cli[q]]
    BY DEF EditsInv, GraphInv, ReadInv
  <2>2. y.op = x.op /\ y.at = x.at + 1 /\ y.got = got
    <3>1. DOMAIN x = {"op", "at", "got"}
      BY <2>1
    <3> HIDE DEF x
    <3> QED BY <3>1
  <2>3. cli'[p] = y /\ \A q \in Clients \ {p} : cli'[q] = cli[q]
    <3> HIDE DEF y
    <3> QED BY <1>4, <2>1
  <2>4. ArgumentsOK(y)
    <3>1. ArgumentsOK(x)
      BY DEF EditsInv
    <3> HIDE DEF x, y
    <3> QED BY <2>2, <3>1 DEF ArgumentsOK
  <2>5. ASSUME alone PROVE UpToDate(y, stored)
    <3>1. UpToDate(x, stored)
      BY <2>5 DEF EditsInv
    <3>2. CASE x.op.k = "import" /\ ~x.op.merge
      <4> HIDE DEF x, y
      <4> QED BY <2>2, <3>2 DEF UpToDate
    <3>3. CASE x.at \in 0..6 /\ \A j \in 1..x.at : x.got[Sections[j]] = stored[Sections[j]]
      <4>1. Len(Sections) = 6
        BY DEF Sections
      <4>2. y.at \in 0..6
        <5> HIDE DEF x, y
        <5> QED BY <1>1, <2>2, <3>3, <4>1
      <4>3. DOMAIN x.got = {"map", "nodes", "edges", "paths", "steps", "mats"}
        BY <2>1 DEF GraphRecord
      <4>4. \A j \in 1..6 : Sections[j] \in {"map", "nodes", "edges", "paths", "steps", "mats"}
        BY DEF Sections
      <4> HIDE DEF x, y
      <4>5. ASSUME NEW j \in 1..(x.at + 1) PROVE got[Sections[j]] = stored[Sections[j]]
        <5>1. x.at + 1 \in 1..6 /\ j \in 1..6
          BY <2>2, <3>3, <4>2
        <5>2. CASE Sections[j] = s
          BY <4>3, <4>4, <5>1, <5>2
        <5>3. CASE Sections[j] # s
          <6>1. j \in 1..x.at
            BY <3>3, <5>3
          <6> QED BY <3>3, <4>3, <4>4, <5>1, <5>3, <6>1
        <5> QED BY <5>2, <5>3
      <4> HIDE DEF got
      <4> QED BY <2>2, <4>2, <4>5 DEF UpToDate
    <3> QED BY <1>1, <3>1, <3>2, <3>3 DEF UpToDate
  <2> HIDE DEF y
  <2> QED BY <1>1, <1>2, <2>3, <2>4, <2>5, EditStep
<1> QED BY <1>3, <1>4 DEF ReadSection

(* What the commands store of a graph that is as it should be.              *)
LEMMA StoreSteps ==
  ASSUME EditsInv, [Next]_vars, alone' = (alone /\ OneAtATime'), NEW p \in Clients,
         \/ runMapImportWorkflows(p) \/ runMapUpdate(p)
         \/ runMapValidationAttach(p) \/ runMapValidationPromote(p)
  PROVE  EditsInv'
<1> DEFINE op == cli[p].op
           got == cli[p].got
<1>1. /\ Done(p) /\ catalog' = catalog
      /\ op.k \in {"import", "update", "attach", "promote"} /\ cli[p].at = Len(Sections)
  BY DEF runMapImportWorkflows, runMapUpdate, runMapValidationAttach, runMapValidationPromote, ReadDone
<1>2. /\ op.k = "import" => Sound(op.graph)
      /\ op.k \in {"attach", "promote"} => op.c \in Cases
  BY DEF EditsInv, ArgumentsOK
<1>3. alone => Sound(stored)
  BY DEF EditsInv
<1>4. ASSUME alone, op.k = "import" => op.merge PROVE Sound(got)
  BY <1>1, <1>3, <1>4, AllIsRead
<1>5. SUFFICES ASSUME alone PROVE Sound(stored')
  BY <1>1, EndStep
<1>6. CASE runMapImportWorkflows(p)
  <2>1. op.k = "import"
    BY <1>6 DEF runMapImportWorkflows, ReadDone
  <2>2. stored' = stored \/ stored' \in MergedImport(op, got)
    BY <1>6 DEF runMapImportWorkflows, ReplaceTestPlanGraph
  <2> HIDE DEF op, got
  <2>3. \A g \in MergedImport(op, got) :
          (op.merge /\ g = appendImportedMapGraph(got, op.graph)) \/ g = op.graph
    BY DEF MergedImport
  <2>4. op.merge => Sound(appendImportedMapGraph(got, op.graph))
    BY <1>2, <1>4, <1>5, <2>1, AppendIsSound
  <2> QED BY <1>2, <1>3, <1>5, <2>1, <2>2, <2>3, <2>4
<1>7. CASE runMapUpdate(p)
  <2>1. op.k = "update" /\ stored' = [got EXCEPT !.map = op.status]
    BY <1>7 DEF runMapUpdate, ReadDone, ReplaceTestPlanGraph
  <2> DEFINE status == op.status
  <2>2. stored' = [got EXCEPT !.map = status]
    BY <2>1
  <2> HIDE DEF op, got, status
  <2> QED BY <1>4, <1>5, <2>1, <2>2, StatusIsSound
<1>8. CASE runMapValidationAttach(p)
  <2>1. op.k = "attach"
    BY <1>8 DEF runMapValidationAttach, ReadDone
  <2>2. stored' = stored \/ stored' = mapValidationNodeForAttach(got, op.c, op.anchor)
    BY <1>8 DEF runMapValidationAttach, ReplaceTestPlanGraph
  <2> HIDE DEF op, got
  <2>3. Sound(got) /\ op.c \in Cases
    BY <1>2, <1>4, <1>5, <2>1
  <2>4. "validation" # "none"
    OBVIOUS
  <2>5. ASSUME NEW c \in Cases, NEW a PROVE Sound(mapValidationNodeForAttach(got, c, a))
    BY <2>3, <2>4, RoleIsSound DEF mapValidationNodeForAttach
  <2> QED BY <1>3, <1>5, <2>2, <2>3, <2>5
<1>9. CASE runMapValidationPromote(p)
  <2>1. op.k = "promote"
    BY <1>9 DEF runMapValidationPromote, ReadDone
  <2>2. stored' = stored \/ stored' \in Promoted(got, op.c)
    BY <1>9 DEF runMapValidationPromote, ReplaceTestPlanGraph
  <2> HIDE DEF op, got
  <2>3. Sound(got) /\ op.c \in Cases
    BY <1>2, <1>4, <1>5, <2>1
  <2> QED BY <1>3, <1>5, <2>2, <2>3, PromotedIsSound
<1> QED BY <1>6, <1>7, <1>8, <1>9

(* A publication goes on with the graph it has stored.                      *)
LEMMA PublicationStep ==
  ASSUME EditsInv, [Next]_vars, alone' = (alone /\ OneAtATime'), NEW p \in Clients, runMapPublish(p)
  PROVE  EditsInv'
<1> DEFINE x == cli[p]
           g == [x.got EXCEPT !.map = "active"]
           op == [k |-> "version", v |-> x.op.v]
<1>1. /\ x = [op |-> x.op, at |-> x.at, got |-> x.got] /\ GraphRecord(x.got)
      /\ cli = [q \in Clients |-> cli[q]]
  BY DEF EditsInv, GraphInv, ReadInv
<1>2. /\ stored' = g /\ catalog' = catalog /\ x.op.k = "publish" /\ x.at = Len(Sections)
      /\ cli' = [cli EXCEPT ![p].op = op, ![p].got = g]
  BY DEF runMapPublish, ReplaceTestPlanGraph, ReadDone
<1>3. op.k = "version" /\ Len(Sections) = 6
  BY DEF Sections
<1>4. ASSUME alone PROVE Sound(g)
  <2>1. x.got = stored
    BY <1>2, <1>4, AllIsRead
  <2>2. Sound(x.got)
    BY <1>4, <2>1 DEF EditsInv
  <2> HIDE DEF x
  <2> QED BY <2>2, StatusIsSound
<1> HIDE DEF g, op
<1>5. /\ \A q \in Clients \ {p} : cli'[q] = cli[q]
      /\ cli'[p] = [[x EXCEPT !.op = op] EXCEPT !.got = g]
  BY <1>1, <1>2
<1>6. cli'[p] = [op |-> op, at |-> x.at, got |-> g]
  <2> DEFINE y == [op |-> op, at |-> x.at, got |-> x.got]
             z == [op |-> op, at |-> x.at, got |-> g]
  <2>1. [x EXCEPT !.op = op] = y
    BY <1>1
  <2>2. [y EXCEPT !.got = g] = z
    OBVIOUS
  <2> HIDE DEF y, z, x
  <2>3. cli'[p] = z
    BY <1>5, <2>1, <2>2
  <2> QED BY <2>3 DEF z
<1>7. cli'[p].op = op /\ cli'[p].at = 6 /\ cli'[p].got = g
  <2> DEFINE z == [op |-> op, at |-> x.at, got |-> g]
  <2>1. z.op = op /\ z.at = x.at /\ z.got = g
    OBVIOUS
  <2>2. cli'[p] = z
    BY <1>6
  <2>3. x.at = 6
    BY <1>2, <1>3
  <2> HIDE DEF x, z
  <2> QED BY <2>1, <2>2, <2>3
<1>8. ArgumentsOK(cli'[p])
  BY <1>3, <1>7 DEF ArgumentsOK
<1>9. UpToDate(cli'[p], stored')
  <2>1. /\ cli'[p].at \in 0..6
        /\ \A j \in 1..cli'[p].at : cli'[p].got[Sections[j]] = stored'[Sections[j]]
    <3>1. cli'[p].at = 6 /\ cli'[p].got = stored'
      BY <1>2, <1>7
    <3> HIDE DEF x
    <3> QED BY <3>1, Zenon, SMT
  <2> QED BY <2>1 DEF UpToDate
<1>10. cli[p].op.k # "none" /\ (alone => Sound(stored'))
  BY <1>2, <1>4
<1> HIDE DEF x
<1> QED BY <1>2, <1>5, <1>8, <1>9, <1>10, EditStep

(* Every step.                                                              *)
LEMMA StepOfTheEdits == EditsInv /\ [EditingNext]_editVars => EditsInv'
<1> SUFFICES ASSUME EditsInv, [EditingNext]_editVars PROVE EditsInv'
  OBVIOUS
<1>1. [Next]_vars
  BY PlansApart DEF EditingNext, PlannerNext, editVars, planVars, vars
<1>2. CASE UNCHANGED <<vars, alone>>
  <2>1. GraphInv'
    BY <1>1, StepOfTheGraph DEF EditsInv
  <2>2. cli' = cli /\ stored' = stored /\ catalog' = catalog /\ alone' = alone
    BY <1>2 DEF vars
  <2> QED BY <2>1, <2>2 DEF EditsInv, OneAtATime
<1>3. CASE EditingNext
  <2>1. alone' = (alone /\ OneAtATime')
    BY <1>3 DEF EditingNext
  <2>2. CASE cli' = cli /\ stored' = stored /\ catalog' \in Catalogs
    <3>1. GraphInv'
      BY <1>1, StepOfTheGraph DEF EditsInv
    <3> QED BY <2>1, <2>2, <3>1 DEF EditsInv
  <2>3. CASE PublishCatalog \/ UNCHANGED vars
    <3>1. cli' = cli /\ stored' = stored /\ catalog' \in Catalogs
      BY <2>3 DEF PublishCatalog, vars, EditsInv
    <3> QED BY <2>2, <3>1
  <2>4. ASSUME NEW p \in Clients, Kill(p) \/ runMapSnapshot(p) \/ PublishVersion(p)
        PROVE  EditsInv'
    <3>1. Done(p) /\ stored' = stored /\ catalog' = catalog /\ cli[p].op.k # "none"
      BY <2>4 DEF Kill, runMapSnapshot, PublishVersion, ReadDone
    <3>2. alone => Sound(stored')
      BY <3>1 DEF EditsInv
    <3> QED BY <1>1, <2>1, <3>1, <3>2, EndStep
  <2>5. Next \/ UNCHANGED vars
    BY <1>3 DEF EditingNext, PlannerNext, PlanStep, runMapExplain, runMapRun, endRun, executeTask
  <2> QED BY <1>1, <2>1, <2>3, <2>4, <2>5, BeginSteps, SelectStep, StoreSteps, PublicationStep DEF Next
<1> QED BY <1>2, <1>3 DEF editVars, planVars

LEMMA StartOfTheEdits == EditingInit => EditsInv
<1> SUFFICES ASSUME EditingInit PROVE EditsInv
  OBVIOUS
<1>1. Init
  BY DEF EditingInit, PlannerInit
<1>2. GraphInv
  BY <1>1, StartOfTheMap
<1>3. stored = NoGraph /\ catalog \in Catalogs /\ \A p \in Clients : cli[p] = Idle
  BY <1>1 DEF Init
<1>4. Idle.op.k = "none"
  BY DEF Idle
<1>5. \A p \in Clients : ArgumentsOK(cli[p]) /\ UpToDate(cli[p], stored)
  BY <1>3, <1>4 DEF ArgumentsOK, UpToDate
<1>6. OneAtATime
  BY <1>3, <1>4 DEF OneAtATime
<1>7. Sound(NoGraph)
  <2>1. /\ NoGraph.nodes = [c \in Cases |-> NoNode] /\ NoGraph.edges = {}
        /\ NoGraph.paths = [p \in PathIds |-> 0] /\ NoGraph.steps = [p \in PathIds |-> <<>>]
        /\ NoGraph.mats = {}
    BY DEF NoGraph
  <2>2. GraphRecord(NoGraph)
    BY NoGraphIsAcyclic
  <2> HIDE DEF NoGraph
  <2>3. GraphShape(NoGraph)
    <3>1. <<>> \in Seq(Cases) /\ 0 \in Nat
      OBVIOUS
    <3> QED BY <2>1, <3>1 DEF GraphShape
  <2>4. StepsResolve(NoGraph)
    <3>1. DOMAIN <<>> = {}
      OBVIOUS
    <3> QED BY <2>1, <3>1 DEF StepsResolve
  <2>5. EdgeShape(NoGraph) /\ EdgesResolve(NoGraph) /\ CheckpointsResolve(NoGraph)
    BY <2>1 DEF EdgeShape, EdgesResolve, CheckpointsResolve
  <2>6. EdgesFollowSteps(NoGraph)
    <3> SUFFICES ASSUME NEW w \in Workflows
                 PROVE  PairsOf(NoGraph.edges, w) = Successive(NoGraph.steps[w])
      BY DEF EdgesFollowSteps
    <3>1. NoGraph.steps[w] = <<>>
      BY <2>1 DEF PathIds
    <3>2. 1..(Len(<<>>) - 1) = {}
      OBVIOUS
    <3> QED BY <2>1, <3>1, <3>2 DEF PairsOf, Successive
  <2> QED BY <2>2, <2>3, <2>4, <2>5, <2>6 DEF Sound
<1> QED BY <1>2, <1>3, <1>5, <1>6, <1>7 DEF EditsInv

-----------------------------------------------------------------------------
(* The map edited one command at a time: the theorems                       *)

(* The invariant holds in every behaviour of the map and its commands.      *)
THEOREM EditingInvariant == EditingSpec => []EditsInv
BY StartOfTheEdits, StepOfTheEdits, PTL DEF EditingSpec

(* runMapImportWorkflows, runMapUpdate, runMapPublish, and the attach and   *)
(* promote commands: as long as no two of them have run at once, whatever   *)
(* was imported, appended, edited, published and killed, and however the    *)
(* catalog changed under the map, map doctor finds no reference to a path,  *)
(* a node or a checkpoint that is gone but the ones an import may leave,    *)
(* and the control edges of a workflow are the consecutive pairs of its     *)
(* steps.                                                                   *)
THEOREM UndisturbedEditsKeepReferences == EditingSpec => []EditsKeepReferences
<1>1. EditsInv => EditsKeepReferences
  BY SoundIsIntact DEF EditsInv, GraphInv, EditsKeepReferences
<1> QED BY <1>1, EditingInvariant, PTL

-----------------------------------------------------------------------------
(* The plans of the map: two kinds of induction                             *)

(* Induction up to n, for a property given as the set P of the numbers that *)
(* have it.                                                                 *)
LEMMA InductionUpTo ==
  ASSUME NEW n \in Nat, NEW P, 0 \in P, \A k \in 1..n : k - 1 \in P => k \in P
  PROVE  \A k \in 0..n : k \in P
<1> DEFINE S == {k \in 0..n : k \notin P}
<1>1. SUFFICES ASSUME S # {} PROVE FALSE
  OBVIOUS
<1>2. S \in SUBSET Nat
  OBVIOUS
<1>3. PICK k \in S : \A m \in S : k <= m
  <2> HIDE DEF S
  <2> QED BY <1>1, <1>2, LeastOf
<1>4. k \in 0..n /\ k \notin P
  OBVIOUS
<1>5. k # 0 /\ k - 1 \in 0..n
  BY <1>4
<1>6. k - 1 \notin S
  <2> HIDE DEF S
  <2> QED BY <1>3, <1>4
<1>7. k - 1 \in P
  BY <1>5, <1>6
<1> QED BY <1>4, <1>5, <1>7

Recursion(n, X, a, G, f) ==
  f \in [0..n -> X] /\ f[0] = a /\ \A k \in 1..n : f[k] = G[k][f[k - 1]]

(* A recursion over 1..n with the steps G has a solution.                   *)
LEMMA RecursionExists ==
  ASSUME NEW n \in Nat, NEW X, NEW a \in X, NEW G \in [1..n -> [X -> X]]
  PROVE  \E f : Recursion(n, X, a, G, f)
<1> DEFINE Upto(k, f) == f[0] = a /\ \A i \in 1..k : f[i] = G[i][f[i - 1]]
           P == {k \in 0..n : \E f \in [0..n -> X] : Upto(k, f)}
<1>1. 0 \in P
  <2> DEFINE f == [i \in 0..n |-> a]
  <2>1. f \in [0..n -> X] /\ f[0] = a
    OBVIOUS
  <2> HIDE DEF f
  <2>2. Upto(0, f)
    BY <2>1
  <2>3. \E g \in [0..n -> X] : Upto(0, g)
    <3> HIDE DEF Upto
    <3> QED BY <2>1, <2>2
  <2>4. 0 \in 0..n
    OBVIOUS
  <2> QED BY <2>3, <2>4
<1>2. ASSUME NEW k \in 1..n, k - 1 \in P PROVE k \in P
  <2>1. PICK f \in [0..n -> X] : Upto(k - 1, f)
    BY <1>2
  <2> DEFINE x == G[k][f[k - 1]]
             g == [f EXCEPT ![k] = x]
  <2>2. x \in X
    <3>1. f[k - 1] \in X
      OBVIOUS
    <3> QED BY <3>1
  <2> HIDE DEF x
  <2>3. g \in [0..n -> X] /\ g[k] = x /\ \A i \in 0..n : i # k => g[i] = f[i]
    BY <2>2
  <2> HIDE DEF g
  <2>4. g[0] = a
    BY <2>1, <2>3
  <2>5. ASSUME NEW i \in 1..k PROVE g[i] = G[i][g[i - 1]]
    <3>1. CASE i = k
      <4>1. g[k - 1] = f[k - 1]
        BY <2>3
      <4> QED BY <2>3, <3>1, <4>1 DEF x
    <3>2. CASE i # k
      <4>1. i \in 1..(k - 1)
        BY <3>2
      <4>2. g[i] = f[i] /\ g[i - 1] = f[i - 1]
        BY <2>3, <4>1
      <4> QED BY <2>1, <4>1, <4>2
    <3> QED BY <3>1, <3>2
  <2>6. Upto(k, g)
    BY <2>4, <2>5
  <2> QED BY <2>3, <2>6
<1>3. n \in P
  <2> HIDE DEF P
  <2>1. \A k \in 0..n : k \in P
    BY <1>1, <1>2, InductionUpTo
  <2> QED BY <2>1
<1>4. \E f \in [0..n -> X] : Upto(n, f)
  BY <1>3
<1> QED BY <1>4 DEF Recursion

-----------------------------------------------------------------------------
(* The plans of the map: what a plan is made of                             *)

ReplayTask(p, until, mat) == taskFromOperation(Replay(p, until, mat))
WaitsFor(edges, i) == {e[1] : e \in {x \in edges : x[2] = i}}

(* A whole path has no target.                                              *)
CaseTasks(g) == {taskFromOperation(OperationsOf(g, c)[i]) : c \in Cases, i \in 1..2}
PathTask(g, p) ==
  [kind |-> IF g.steps[p] = <<>> THEN "skip" ELSE "run_path", path |-> p,
   until |-> {}, mat |-> "", case |-> 0]
PathTasks(g) == {PathTask(g, InPathOrder(g, P)[i]) : P \in SUBSET PathIds, i \in Nat}
PlannedTasks(g) ==
  {t \in CaseTasks(g) \cup PathTasks(g) : t.kind = "run_path" => t.until = {}}

(* Task i runs a case and waits for the replay the case needs.              *)
HasItsReplay(g, tasks, edges, i) ==
  LET needed == OperationsOf(g, tasks[i].case)
  IN /\ ExplainCase(g, tasks[i].case) # {}
     /\ IF Len(needed) = 1 THEN WaitsFor(edges, i) = {}
        ELSE \E j \in 1..(i - 1) : WaitsFor(edges, i) = {j} /\ tasks[j] = taskFromOperation(needed[1])

(* A group names the task that replays its path up to its target.           *)
PlanOf(g, a) ==
  /\ a.prev \in 0..Len(a.tasks)
  /\ \A e \in a.edges : e[2] \in 1..Len(a.tasks)
  /\ \A i \in DOMAIN a.groups :
       /\ a.groups[i].task \in 1..Len(a.tasks)
       /\ a.tasks[a.groups[i].task]
            = ReplayTask(a.groups[i].key[4], a.groups[i].key[5], a.groups[i].key[6])
  /\ \A i \in DOMAIN a.tasks :
       a.tasks[i].kind = "run_case" => HasItsReplay(g, a.tasks, a.edges, i)

Groups(g) == [key : {replayGroupKey(g, c, t) : c \in Cases, t \in PlannedTasks(g)}, task : Nat]
Accumulators(g) ==
  {a \in [tasks : Seq(PlannedTasks(g)), edges : SUBSET (Nat \X Nat), groups : Seq(Groups(g)),
          prev : Nat] : PlanOf(g, a)}

(* A case needs a replay and itself, or one of them.                        *)
LEMMA OperationShapes ==
  ASSUME NEW g, NEW c, ExplainCase(g, c) # {}
  PROVE  \/ \E p, u, m : OperationsOf(g, c) = <<Replay(p, u, m), RunCase(c)>>
         \/ \E p, u, m : OperationsOf(g, c) = <<Replay(p, u, m)>>
         \/ OperationsOf(g, c) = <<RunCase(c)>>
<1> DEFINE ops == OperationsOf(g, c)
<1>1. ops \in ExplainCase(g, c)
  BY DEF OperationsOf
<1>2. ASSUME ops \in explainFixtureBackedCaseNode(g, c)
      PROVE  \E p, u, m : ops = <<Replay(p, u, m), RunCase(c)>>
  <2> HIDE DEF ops
  <2> QED BY <1>2 DEF explainFixtureBackedCaseNode
<1>3. ASSUME ops \in explainValidationNode(g, c)
      PROVE  (\E p, u, m : ops = <<Replay(p, u, m), RunCase(c)>>) \/ ops = <<RunCase(c)>>
  <2> HIDE DEF ops
  <2> QED BY <1>2, <1>3 DEF explainValidationNode
<1>4. ASSUME ops \in {<<Replay(p, {c}, "")>> : p \in FirstPathWith(g, c)}
      PROVE  \E p, u, m : ops = <<Replay(p, u, m)>>
  <2> HIDE DEF ops
  <2> QED BY <1>4
<1>5. \/ ops \in explainFixtureBackedCaseNode(g, c) \/ ops \in explainValidationNode(g, c)
      \/ ops \in {<<Replay(p, {c}, "")>> : p \in FirstPathWith(g, c)}
  <2> HIDE DEF ops
  <2> QED BY <1>1 DEF ExplainCase
<1> QED BY <1>2, <1>3, <1>4, <1>5

(* The tasks of the operations.                                             *)
LEMMA ReplayFields ==
  ASSUME NEW p, NEW u, NEW m
  PROVE  /\ ReplayTask(p, u, m).path = p
         /\ ReplayTask(p, u, m).until = u
         /\ ReplayTask(p, u, m).mat = m
         /\ ReplayTask(p, u, m).kind # "run_case" /\ ReplayTask(p, u, m).kind # "run_path"
<1> DEFINE r == [kind |-> "run_path_prefix", path |-> p, until |-> u, mat |-> m, case |-> 0]
           k == IF m # "" THEN "reuse_materialization" ELSE "run_path_prefix"
           t == ReplayTask(p, u, m)
<1>1. Replay(p, u, m) = r /\ r.kind = "run_path_prefix" /\ r.mat = m
  BY DEF Replay
<1>2. taskFromOperation(r) = [r EXCEPT !.kind = k]
  BY <1>1 DEF taskFromOperation
<1>4. k # "run_case" /\ k # "run_path"
  OBVIOUS
<1> HIDE DEF k
<1>3. [r EXCEPT !.kind = k] = [kind |-> k, path |-> p, until |-> u, mat |-> m, case |-> 0]
  OBVIOUS
<1>5. t = [kind |-> k, path |-> p, until |-> u, mat |-> m, case |-> 0]
  BY <1>1, <1>2, <1>3 DEF ReplayTask
<1> HIDE DEF t
<1>6. t.path = p /\ t.until = u /\ t.mat = m /\ t.kind = k
  BY <1>5
<1> QED BY <1>4, <1>6 DEF t

(* The replay of a checkpoint is a task of its own kind.                    *)
LEMMA CheckpointReplay ==
  ASSUME NEW p, NEW u, NEW m, m # ""
  PROVE  ReplayTask(p, u, m).kind = "reuse_materialization"
<1> DEFINE r == Replay(p, u, m)
<1>1. r.kind = "run_path_prefix" /\ r.mat = m
      /\ r = [kind |-> "run_path_prefix", path |-> p, until |-> u, mat |-> m, case |-> 0]
  BY DEF Replay
<1> HIDE DEF r
<1>2. taskFromOperation(r) = [r EXCEPT !.kind = "reuse_materialization"]
  BY <1>1 DEF taskFromOperation
<1>3. taskFromOperation(r).kind = "reuse_materialization"
  BY <1>1, <1>2
<1> QED BY <1>3 DEF ReplayTask, r

LEMMA CaseTask ==
  ASSUME NEW c
  PROVE  taskFromOperation(RunCase(c)) = RunCase(c) /\ RunCase(c).kind = "run_case" /\ RunCase(c).case = c
BY DEF taskFromOperation, RunCase

(* They are planned tasks.                                                  *)
LEMMA OperationsArePlanned ==
  ASSUME NEW g, NEW c \in Cases, NEW i \in 1..2, NEW t,
         t = taskFromOperation(OperationsOf(g, c)[i]), t.kind # "run_path"
  PROVE  t \in PlannedTasks(g)
<1>1. t \in CaseTasks(g)
  BY DEF CaseTasks
<1> QED BY <1>1 DEF PlannedTasks
-----------------------------------------------------------------------------
(* The plans of the map: one more task                                      *)

LEMMA AccumulatorFields ==
  ASSUME NEW g, NEW a \in Accumulators(g)
  PROVE  /\ a = [tasks |-> a.tasks, edges |-> a.edges, groups |-> a.groups, prev |-> a.prev]
         /\ a.tasks \in Seq(PlannedTasks(g)) /\ Len(a.tasks) \in Nat
         /\ DOMAIN a.tasks = 1..Len(a.tasks)
         /\ a.edges \in SUBSET (Nat \X Nat) /\ a.groups \in Seq(Groups(g)) /\ a.prev \in Nat
         /\ PlanOf(g, a)
<1>1. a \in [tasks : Seq(PlannedTasks(g)), edges : SUBSET (Nat \X Nat), groups : Seq(Groups(g)),
             prev : Nat] /\ PlanOf(g, a)
  BY DEF Accumulators
<1>2. a.tasks \in Seq(PlannedTasks(g))
  BY <1>1
<1>3. Len(a.tasks) \in Nat /\ DOMAIN a.tasks = 1..Len(a.tasks)
  BY <1>2
<1> QED BY <1>1, <1>2, <1>3

LEMMA AccumulatorOf ==
  ASSUME NEW g, NEW tasks \in Seq(PlannedTasks(g)), NEW edges \in SUBSET (Nat \X Nat),
         NEW groups \in Seq(Groups(g)), NEW prev \in Nat,
         PlanOf(g, [tasks |-> tasks, edges |-> edges, groups |-> groups, prev |-> prev])
  PROVE  [tasks |-> tasks, edges |-> edges, groups |-> groups, prev |-> prev] \in Accumulators(g)
BY DEF Accumulators

(* The edges when another task is planned.                                  *)
NewEdges(a) == a.edges \cup (IF a.prev = 0 THEN {} ELSE {<<a.prev, Len(a.tasks) + 1>>})

(* Another task leaves what the others wait for alone.                      *)
LEMMA TasksStay ==
  ASSUME NEW g, NEW a \in Accumulators(g), NEW t \in PlannedTasks(g), NEW E, E = NewEdges(a)
  PROVE  /\ Append(a.tasks, t) \in Seq(PlannedTasks(g))
         /\ Len(Append(a.tasks, t)) = Len(a.tasks) + 1
         /\ Append(a.tasks, t)[Len(a.tasks) + 1] = t
         /\ \A i \in 1..Len(a.tasks) : Append(a.tasks, t)[i] = a.tasks[i]
         /\ E \in SUBSET (Nat \X Nat)
         /\ \A e \in E : e[2] \in 1..(Len(a.tasks) + 1)
         /\ \A i \in 1..Len(a.tasks) :
              Append(a.tasks, t)[i].kind = "run_case" => HasItsReplay(g, Append(a.tasks, t), E, i)
         /\ WaitsFor(a.edges, Len(a.tasks) + 1) = {}
<1> DEFINE n == Len(a.tasks)
           ts == Append(a.tasks, t)
<1>1. /\ a.tasks \in Seq(PlannedTasks(g)) /\ n \in Nat /\ DOMAIN a.tasks = 1..n
      /\ a.edges \in SUBSET (Nat \X Nat) /\ PlanOf(g, a)
  BY AccumulatorFields
<1>2. ts \in Seq(PlannedTasks(g)) /\ Len(ts) = n + 1 /\ ts[n + 1] = t /\ \A i \in 1..n : ts[i] = a.tasks[i]
  BY <1>1
<1>3. \A e \in a.edges : e[2] \in 1..n
  BY <1>1 DEF PlanOf
<1>4. E \in SUBSET (Nat \X Nat) /\ \A e \in E : e[2] \in 1..(n + 1)
  <2>1. CASE E = a.edges
    BY <1>1, <1>3, <2>1
  <2>3. a.prev \in 0..n
    BY <1>1 DEF PlanOf
  <2>4. E = a.edges \/ (a.prev \in 1..n /\ E = a.edges \cup {<<a.prev, n + 1>>})
    BY <2>3 DEF NewEdges
  <2>2. ASSUME NEW j \in 1..n, E = a.edges \cup {<<j, n + 1>>}
        PROVE  E \in SUBSET (Nat \X Nat) /\ \A e \in E : e[2] \in 1..(n + 1)
    <3>1. <<j, n + 1>> \in Nat \X Nat /\ <<j, n + 1>>[2] \in 1..(n + 1)
      BY <1>1
    <3>2. \A e \in a.edges : e[2] \in 1..(n + 1)
      BY <1>1, <1>3
    <3> QED BY <1>1, <2>2, <3>1, <3>2
  <2> QED BY <2>1, <2>2, <2>4
<1>5. ASSUME NEW i \in 1..n PROVE WaitsFor(E, i) = WaitsFor(a.edges, i)
  <2>1. ASSUME NEW e \in E, e[2] = i PROVE e \in a.edges
    <3>1. \A j : <<j, n + 1>>[2] # i
      BY <1>1
    <3>2. e \in a.edges \/ e = <<a.prev, n + 1>>
      BY DEF NewEdges
    <3> QED BY <2>1, <3>1, <3>2
  <2>2. {x \in E : x[2] = i} = {x \in a.edges : x[2] = i}
    BY <2>1 DEF NewEdges
  <2> QED BY <2>2 DEF WaitsFor
<1>6. WaitsFor(a.edges, n + 1) = {}
  <2>1. {x \in a.edges : x[2] = n + 1} = {}
    BY <1>1, <1>3
  <2> QED BY <2>1 DEF WaitsFor
<1>7. ASSUME NEW i \in 1..n, ts[i].kind = "run_case" PROVE HasItsReplay(g, ts, E, i)
  <2>1. ts[i] = a.tasks[i] /\ WaitsFor(E, i) = WaitsFor(a.edges, i)
        /\ \A j \in 1..(i - 1) : ts[j] = a.tasks[j]
    BY <1>1, <1>2, <1>5
  <2>2. HasItsReplay(g, a.tasks, a.edges, i)
    BY <1>1, <1>7, <2>1 DEF PlanOf
  <2> HIDE DEF ts, n
  <2> QED BY <2>1, <2>2 DEF HasItsReplay
<1> QED BY <1>2, <1>4, <1>6, <1>7

(* The record appendCaseTask makes.                                         *)
LEMMA AppendedTask ==
  ASSUME NEW g, NEW c, NEW a, NEW op,
         prepareReplayGroup(g, c, taskFromOperation(op), a.groups) = {}
  PROVE  appendCaseTask(g, c, a, op) =
           [tasks |-> Append(a.tasks, taskFromOperation(op)),
            edges |-> NewEdges(a),
            groups |-> IF taskFromOperation(op).kind = "run_case" THEN a.groups
                       ELSE Append(a.groups,
                                   [key |-> replayGroupKey(g, c, taskFromOperation(op)),
                                    task |-> Len(a.tasks) + 1]),
            prev |-> Len(a.tasks) + 1]
BY DEF appendCaseTask, NewEdges

(* A replay is planned, or one of its group is there already.               *)
LEMMA ReplayIsPlanned ==
  ASSUME NEW g, NEW a \in Accumulators(g), a.prev = 0, NEW c \in Cases, NEW p, NEW u, NEW m,
         OperationsOf(g, c)[1] = Replay(p, u, m)
  PROVE  LET b == appendCaseTask(g, c, a, Replay(p, u, m))
         IN /\ b \in Accumulators(g)
            /\ b.prev \in 1..Len(b.tasks) /\ b.tasks[b.prev] = ReplayTask(p, u, m)
<1> DEFINE t == ReplayTask(p, u, m)
           n == Len(a.tasks)
           b == appendCaseTask(g, c, a, Replay(p, u, m))
           shared == prepareReplayGroup(g, c, t, a.groups)
<1>1. /\ a = [tasks |-> a.tasks, edges |-> a.edges, groups |-> a.groups, prev |-> a.prev]
      /\ a.tasks \in Seq(PlannedTasks(g)) /\ n \in Nat /\ DOMAIN a.tasks = 1..n
      /\ a.edges \in SUBSET (Nat \X Nat) /\ a.groups \in Seq(Groups(g)) /\ a.prev \in Nat
      /\ PlanOf(g, a)
  BY AccumulatorFields
<1>2. /\ t.path = p /\ t.until = u /\ t.mat = m /\ t.kind # "run_case" /\ t.kind # "run_path"
  BY ReplayFields
<1>3. t = taskFromOperation(Replay(p, u, m)) /\ t \in PlannedTasks(g)
  <2>1. t = taskFromOperation(Replay(p, u, m))
    BY DEF ReplayTask
  <2>2. t = taskFromOperation(OperationsOf(g, c)[1]) /\ 1 \in 1..2
    BY <2>1
  <2> HIDE DEF t
  <2>3. t \in PlannedTasks(g)
    BY <1>2, <2>2, OperationsArePlanned
  <2> QED BY <2>1, <2>3
<1>4. replayGroupKey(g, c, t)[4] = p /\ replayGroupKey(g, c, t)[5] = u /\ replayGroupKey(g, c, t)[6] = m
  <2> HIDE DEF t
  <2> QED BY <1>2 DEF replayGroupKey
<1> HIDE DEF t
<1>5. CASE shared # {}
  <2> DEFINE x == CHOOSE y \in shared : TRUE
  <2>1. x \in shared
    BY <1>5
  <2> HIDE DEF x
  <2>2. x \in ToSet(a.groups) /\ x.key = replayGroupKey(g, c, t)
    BY <2>1 DEF prepareReplayGroup
  <2>3. PICK i \in DOMAIN a.groups : a.groups[i] = x
    BY <2>2 DEF ToSet
  <2>4. x.task \in 1..n /\ a.tasks[x.task] = t
    BY <1>1, <1>4, <2>2, <2>3 DEF PlanOf, t
  <2>5. b = [a EXCEPT !.prev = x.task]
    BY <1>3, <1>5 DEF appendCaseTask, x
  <2>6. b = [tasks |-> a.tasks, edges |-> a.edges, groups |-> a.groups, prev |-> x.task]
    BY <1>1, <2>5
  <2> HIDE DEF b
  <2>7. PlanOf(g, b)
    <3>1. b.tasks = a.tasks /\ b.edges = a.edges /\ b.groups = a.groups /\ b.prev = x.task
      BY <2>6
    <3>2. x.task \in 0..n
      BY <1>1, <2>4
    <3>3. PlanOf(g, a)
      BY <1>1
    <3> QED BY <3>1, <3>2, <3>3 DEF PlanOf
  <2>8. x.task \in Nat
    BY <1>1, <2>4
  <2>9. b \in Accumulators(g)
    BY <1>1, <2>6, <2>7, <2>8, AccumulatorOf
  <2> QED BY <2>4, <2>6, <2>9 DEF b, t
<1>6. CASE shared = {}
  <2> DEFINE group == [key |-> replayGroupKey(g, c, t), task |-> n + 1]
             ts == Append(a.tasks, t)
             gs == Append(a.groups, group)
  <2>1. b = [tasks |-> ts, edges |-> a.edges, groups |-> gs, prev |-> n + 1]
    <3> DEFINE op == Replay(p, u, m)
    <3>1. taskFromOperation(op) = t
      BY <1>3
    <3> HIDE DEF op, n
    <3>2. prepareReplayGroup(g, c, taskFromOperation(op), a.groups) = {}
      BY <1>6, <3>1
    <3>3. b = [tasks |-> Append(a.tasks, taskFromOperation(op)), edges |-> NewEdges(a),
               groups |-> IF taskFromOperation(op).kind = "run_case" THEN a.groups
                          ELSE Append(a.groups,
                                      [key |-> replayGroupKey(g, c, taskFromOperation(op)),
                                       task |-> Len(a.tasks) + 1]),
               prev |-> Len(a.tasks) + 1]
      BY <3>2, AppendedTask DEF op
    <3>4. NewEdges(a) = a.edges
      BY DEF NewEdges
    <3> QED BY <1>2, <3>1, <3>3, <3>4 DEF n
  <2>2. /\ ts \in Seq(PlannedTasks(g)) /\ Len(ts) = n + 1 /\ ts[n + 1] = t
        /\ \A i \in 1..n : ts[i] = a.tasks[i]
        /\ \A e \in a.edges : e[2] \in 1..(n + 1)
        /\ \A i \in 1..n : ts[i].kind = "run_case" => HasItsReplay(g, ts, a.edges, i)
    <3>1. a.edges = NewEdges(a)
      BY DEF NewEdges
    <3> QED BY <1>3, <3>1, TasksStay
  <2>3. group \in Groups(g)
    BY <1>1, <1>3 DEF Groups
  <2>4. group.key = replayGroupKey(g, c, t) /\ group.task = n + 1
    OBVIOUS
  <2> HIDE DEF group, ts, b
  <2>5. gs \in Seq(Groups(g)) /\ DOMAIN gs = 1..(Len(a.groups) + 1) /\ Len(a.groups) \in Nat
        /\ gs[Len(a.groups) + 1] = group
        /\ \A i \in 1..Len(a.groups) : gs[i] = a.groups[i] /\ i \in DOMAIN a.groups
    BY <1>1, <2>3
  <2> HIDE DEF gs
  <2>6. \A i \in DOMAIN gs :
          /\ gs[i].task \in 1..(n + 1)
          /\ ts[gs[i].task] = ReplayTask(gs[i].key[4], gs[i].key[5], gs[i].key[6])
    <3>1. ASSUME NEW i \in 1..Len(a.groups)
          PROVE  /\ gs[i].task \in 1..(n + 1)
                 /\ ts[gs[i].task] = ReplayTask(gs[i].key[4], gs[i].key[5], gs[i].key[6])
      <4>1. /\ a.groups[i].task \in 1..n
            /\ a.tasks[a.groups[i].task]
                 = ReplayTask(a.groups[i].key[4], a.groups[i].key[5], a.groups[i].key[6])
        BY <1>1, <2>5 DEF PlanOf
      <4> QED BY <1>1, <2>2, <2>5, <4>1
    <3>2. /\ gs[Len(a.groups) + 1].task = n + 1
          /\ ts[n + 1] = ReplayTask(group.key[4], group.key[5], group.key[6])
      BY <1>4, <2>2, <2>4, <2>5 DEF t
    <3>3. n + 1 \in 1..(n + 1)
      BY <1>1
    <3>4. ASSUME NEW i \in DOMAIN gs PROVE i \in 1..Len(a.groups) \/ i = Len(a.groups) + 1
      BY <2>5
    <3> QED BY <2>5, <3>1, <3>2, <3>3, <3>4
  <2>7. \A i \in DOMAIN ts : ts[i].kind = "run_case" => HasItsReplay(g, ts, a.edges, i)
    <3>1. \A i \in DOMAIN ts : i \in 1..n \/ i = n + 1
      BY <1>1, <2>2
    <3> QED BY <1>2, <2>2, <3>1
  <2>8. PlanOf(g, b)
    <3>1. b.tasks = ts /\ b.edges = a.edges /\ b.groups = gs /\ b.prev = n + 1
      BY <2>1
    <3>2. n + 1 \in 0..(n + 1)
      BY <1>1
    <3> QED BY <2>2, <2>6, <2>7, <3>1, <3>2 DEF PlanOf
  <2>9. n + 1 \in Nat /\ n + 1 \in 1..(n + 1)
    BY <1>1
  <2>10. b \in Accumulators(g)
    BY <1>1, <2>1, <2>2, <2>5, <2>8, <2>9, AccumulatorOf
  <2> QED BY <2>1, <2>2, <2>9, <2>10 DEF b, t
<1> QED BY <1>5, <1>6
(* The task of the case itself, behind the replay it needs.                 *)
LEMMA CaseIsPlanned ==
  ASSUME NEW g, NEW a \in Accumulators(g), NEW c \in Cases, ExplainCase(g, c) # {},
         \/ OperationsOf(g, c) = <<RunCase(c)>> /\ a.prev = 0
         \/ /\ \E p, u, m : OperationsOf(g, c) = <<Replay(p, u, m), RunCase(c)>>
            /\ a.prev \in 1..Len(a.tasks)
            /\ a.tasks[a.prev] = taskFromOperation(OperationsOf(g, c)[1])
  PROVE  appendCaseTask(g, c, a, RunCase(c)) \in Accumulators(g)
<1> DEFINE t == RunCase(c)
           n == Len(a.tasks)
           ts == Append(a.tasks, t)
           E == NewEdges(a)
           b == [tasks |-> ts, edges |-> E, groups |-> a.groups, prev |-> n + 1]
           ops == OperationsOf(g, c)
<1>1. /\ a.tasks \in Seq(PlannedTasks(g)) /\ n \in Nat /\ DOMAIN a.tasks = 1..n
      /\ a.edges \in SUBSET (Nat \X Nat) /\ a.groups \in Seq(Groups(g)) /\ a.prev \in Nat
      /\ PlanOf(g, a)
  BY AccumulatorFields
<1>2. t.kind = "run_case" /\ t.case = c /\ taskFromOperation(t) = t
  BY CaseTask
<1>3. t \in PlannedTasks(g)
  <2>1. ops[1] = t \/ ops[2] = t
    BY DEF t
  <2>2. PICK i \in 1..2 : t = ops[i]
    BY <2>1
  <2>3. t = taskFromOperation(OperationsOf(g, c)[i]) /\ t.kind # "run_path"
    BY <1>2, <2>2
  <2> HIDE DEF t
  <2> QED BY <2>3, OperationsArePlanned
<1>4. prepareReplayGroup(g, c, taskFromOperation(t), a.groups) = {}
  <2> HIDE DEF t
  <2> QED BY <1>2 DEF prepareReplayGroup
<1>5. appendCaseTask(g, c, a, t) = b
  <2> HIDE DEF t
  <2>1. appendCaseTask(g, c, a, t) =
           [tasks |-> Append(a.tasks, taskFromOperation(t)),
            edges |-> NewEdges(a),
            groups |-> IF taskFromOperation(t).kind = "run_case" THEN a.groups
                       ELSE Append(a.groups,
                                   [key |-> replayGroupKey(g, c, taskFromOperation(t)),
                                    task |-> Len(a.tasks) + 1]),
            prev |-> Len(a.tasks) + 1]
    BY <1>4, AppendedTask
  <2> QED BY <1>2, <2>1
<1>6. /\ ts \in Seq(PlannedTasks(g)) /\ Len(ts) = n + 1 /\ ts[n + 1] = t
      /\ \A i \in 1..n : ts[i] = a.tasks[i]
      /\ E \in SUBSET (Nat \X Nat)
      /\ \A e \in E : e[2] \in 1..(n + 1)
      /\ \A i \in 1..n : ts[i].kind = "run_case" => HasItsReplay(g, ts, E, i)
      /\ WaitsFor(a.edges, n + 1) = {}
  <2>1. E = NewEdges(a)
    OBVIOUS
  <2> HIDE DEF t, E
  <2>2. /\ ts \in Seq(PlannedTasks(g)) /\ Len(ts) = n + 1 /\ ts[n + 1] = t
        /\ \A i \in 1..n : ts[i] = a.tasks[i]
    BY <1>3, <2>1, TasksStay
  <2>3. E \in SUBSET (Nat \X Nat) /\ \A e \in E : e[2] \in 1..(n + 1)
    BY <1>3, <2>1, TasksStay
  <2>4. \A i \in 1..n : ts[i].kind = "run_case" => HasItsReplay(g, ts, E, i)
    BY <1>3, <2>1, TasksStay
  <2>5. WaitsFor(a.edges, n + 1) = {}
    BY <1>3, TasksStay
  <2> QED BY <2>2, <2>3, <2>4, <2>5
<1> HIDE DEF t, ts
<1>7. HasItsReplay(g, ts, E, n + 1)
  <2>1. ts[n + 1].case = c
    BY <1>2, <1>6
  <2>2. CASE ops = <<RunCase(c)>> /\ a.prev = 0
    <3>1. Len(ops) = 1 /\ E = a.edges
      BY <2>2 DEF NewEdges
    <3> HIDE DEF ops, E
    <3> QED BY <1>6, <2>1, <3>1 DEF HasItsReplay, ops
  <2>3. CASE /\ \E p, u, m : ops = <<Replay(p, u, m), RunCase(c)>>
             /\ a.prev \in 1..n
             /\ a.tasks[a.prev] = taskFromOperation(ops[1])
    <3>1. Len(ops) = 2
      BY <2>3
    <3>2. E = a.edges \cup {<<a.prev, n + 1>>}
      BY <1>1, <2>3 DEF NewEdges
    <3>3. WaitsFor(E, n + 1) = {a.prev}
      <4> DEFINE last == <<a.prev, n + 1>>
      <4>1. last[1] = a.prev /\ last[2] = n + 1
        OBVIOUS
      <4>2. E = a.edges \cup {last}
        BY <3>2
      <4>3. \A x \in a.edges : x[2] # n + 1
        <5>1. WaitsFor(a.edges, n + 1) = {}
          BY <1>6
        <5>2. SUFFICES ASSUME NEW x \in a.edges, x[2] = n + 1 PROVE FALSE
          OBVIOUS
        <5>3. x[1] \in WaitsFor(a.edges, n + 1)
          BY <5>2 DEF WaitsFor
        <5> QED BY <5>1, <5>3
      <4> HIDE DEF E, last
      <4>4. {x \in E : x[2] = n + 1} = {last}
        BY <4>1, <4>2, <4>3
      <4> QED BY <4>1, <4>4 DEF WaitsFor
    <3>4. a.prev \in 1..((n + 1) - 1) /\ ts[a.prev] = taskFromOperation(ops[1])
      BY <1>1, <1>6, <2>3
    <3> HIDE DEF ops, E, n
    <3> QED BY <2>1, <3>1, <3>3, <3>4 DEF HasItsReplay, ops
  <2> QED BY <2>2, <2>3
<1> HIDE DEF E
<1>8. \A i \in DOMAIN ts : ts[i].kind = "run_case" => HasItsReplay(g, ts, E, i)
  <2>1. \A i \in DOMAIN ts : i \in 1..n \/ i = n + 1
    BY <1>1, <1>6
  <2> QED BY <1>6, <1>7, <2>1
<1>9. \A i \in DOMAIN a.groups :
        /\ a.groups[i].task \in 1..(n + 1)
        /\ ts[a.groups[i].task]
             = ReplayTask(a.groups[i].key[4], a.groups[i].key[5], a.groups[i].key[6])
  <2> SUFFICES ASSUME NEW i \in DOMAIN a.groups
               PROVE  /\ a.groups[i].task \in 1..(n + 1)
                      /\ ts[a.groups[i].task]
                           = ReplayTask(a.groups[i].key[4], a.groups[i].key[5], a.groups[i].key[6])
    OBVIOUS
  <2>1. /\ a.groups[i].task \in 1..n
        /\ a.tasks[a.groups[i].task]
             = ReplayTask(a.groups[i].key[4], a.groups[i].key[5], a.groups[i].key[6])
    BY <1>1 DEF PlanOf
  <2> QED BY <1>1, <1>6, <2>1
<1>10. n + 1 \in Nat /\ n + 1 \in 0..(n + 1)
  BY <1>1
<1>11. PlanOf(g, b)
  <2>1. b.tasks = ts /\ b.edges = E /\ b.groups = a.groups /\ b.prev = n + 1
    OBVIOUS
  <2> HIDE DEF b
  <2> QED BY <1>6, <1>8, <1>9, <1>10, <2>1 DEF PlanOf
<1>12. b \in Accumulators(g)
  BY <1>1, <1>6, <1>10, <1>11, AccumulatorOf
<1> QED BY <1>5, <1>12 DEF t

(* The tasks of one case.                                                   *)
LEMMA CaseNodeIsPlanned ==
  ASSUME NEW g, NEW a \in Accumulators(g), NEW c
  PROVE  planCaseNode(g, a, c) \in Accumulators(g)
<1> DEFINE ops == OperationsOf(g, c)
           fresh == [a EXCEPT !.prev = 0]
           first == appendCaseTask(g, c, fresh, ops[1])
<1>1. CASE ExplainCase(g, c) = {}
  BY <1>1 DEF planCaseNode
<1>2. CASE ExplainCase(g, c) # {}
  <2>1. c \in Cases
    BY <1>2 DEF ExplainCase, NodesOf
  <2>2. fresh \in Accumulators(g) /\ fresh.prev = 0
    <3>1. /\ a = [tasks |-> a.tasks, edges |-> a.edges, groups |-> a.groups, prev |-> a.prev]
          /\ a.tasks \in Seq(PlannedTasks(g)) /\ Len(a.tasks) \in Nat
          /\ a.edges \in SUBSET (Nat \X Nat) /\ a.groups \in Seq(Groups(g)) /\ PlanOf(g, a)
      BY AccumulatorFields
    <3> DEFINE s == [tasks |-> a.tasks, edges |-> a.edges, groups |-> a.groups, prev |-> 0]
    <3>2. fresh = s
      BY <3>1
    <3>3. s.tasks = a.tasks /\ s.edges = a.edges /\ s.groups = a.groups /\ s.prev = 0
      OBVIOUS
    <3>4. PlanOf(g, s)
      <4>1. 0 \in 0..Len(a.tasks) /\ PlanOf(g, a)
        BY <3>1
      <4> HIDE DEF s
      <4> QED BY <3>3, <4>1 DEF PlanOf
    <3>5. s \in Accumulators(g)
      BY <3>1, <3>4, AccumulatorOf
    <3> HIDE DEF s, fresh
    <3> QED BY <3>2, <3>3, <3>5
  <2>3. planCaseNode(g, a, c) = IF Len(ops) = 1 THEN first ELSE appendCaseTask(g, c, first, ops[2])
    BY <1>2 DEF planCaseNode
  <2> HIDE DEF fresh
  <2>4. CASE \E p, u, m : ops = <<Replay(p, u, m), RunCase(c)>>
    <3>1. PICK p, u, m : ops = <<Replay(p, u, m), RunCase(c)>>
      BY <2>4
    <3>2. OperationsOf(g, c)[1] = Replay(p, u, m) /\ Len(ops) = 2 /\ ops[2] = RunCase(c)
      BY <3>1
    <3>3. first = appendCaseTask(g, c, fresh, Replay(p, u, m))
      BY <3>2
    <3>4. /\ first \in Accumulators(g)
          /\ first.prev \in 1..Len(first.tasks) /\ first.tasks[first.prev] = ReplayTask(p, u, m)
      BY <2>1, <2>2, <3>2, <3>3, ReplayIsPlanned
    <3>5. first.tasks[first.prev] = taskFromOperation(OperationsOf(g, c)[1])
      BY <3>2, <3>4 DEF ReplayTask
    <3> HIDE DEF first
    <3>6. appendCaseTask(g, c, first, RunCase(c)) \in Accumulators(g)
      BY <1>2, <2>1, <2>4, <3>4, <3>5, CaseIsPlanned
    <3> QED BY <2>3, <3>2, <3>6
  <2>5. CASE \E p, u, m : ops = <<Replay(p, u, m)>>
    <3>1. PICK p, u, m : ops = <<Replay(p, u, m)>>
      BY <2>5
    <3>2. OperationsOf(g, c)[1] = Replay(p, u, m) /\ Len(ops) = 1
      BY <3>1
    <3>3. appendCaseTask(g, c, fresh, Replay(p, u, m)) \in Accumulators(g)
      BY <2>1, <2>2, <3>2, ReplayIsPlanned
    <3> QED BY <2>3, <3>2, <3>3
  <2>6. CASE ops = <<RunCase(c)>>
    <3>1. Len(ops) = 1 /\ ops[1] = RunCase(c)
      BY <2>6
    <3>2. appendCaseTask(g, c, fresh, RunCase(c)) \in Accumulators(g)
      BY <1>2, <2>1, <2>2, <2>6, CaseIsPlanned
    <3> QED BY <2>3, <3>1, <3>2
  <2> QED BY <1>2, <2>4, <2>5, <2>6, OperationShapes
<1> QED BY <1>1, <1>2
-----------------------------------------------------------------------------
(* The plans of the map: the scopes                                         *)

LEMMA PathIdsFinite == IsFiniteSet(PathIds)
<1> DEFINE T == {PrimaryPath(d) : d \in Cases}
           f == [d \in Cases |-> PrimaryPath(d)]
<1>1. f \in Surjection(Cases, T)
  BY DEF Surjection
<1>2. IsFiniteSet(T)
  <2> HIDE DEF f, T
  <2> QED BY <1>1, IdsOfTheMap, FS_Surjection DEF ExistsSurjection
<1> QED BY <1>2, IdsOfTheMap, FS_Union DEF PathIds

LEMMA EmptyIsPlanned == \A g : EmptyPlan \in Accumulators(g)
<1> SUFFICES ASSUME NEW g PROVE EmptyPlan \in Accumulators(g)
  OBVIOUS
<1> DEFINE e == [tasks |-> <<>>, edges |-> {}, groups |-> <<>>, prev |-> 0]
<1>1. e.tasks = <<>> /\ e.edges = {} /\ e.groups = <<>> /\ e.prev = 0
  OBVIOUS
<1>2. DOMAIN <<>> = {} /\ Len(<<>>) = 0 /\ \A S : <<>> \in Seq(S)
  OBVIOUS
<1>3. PlanOf(g, e)
  <2> HIDE DEF e
  <2> QED BY <1>1, <1>2 DEF PlanOf
<1>4. <<>> \in Seq(PlannedTasks(g)) /\ <<>> \in Seq(Groups(g)) /\ {} \in SUBSET (Nat \X Nat) /\ 0 \in Nat
  BY <1>2
<1>5. e \in Accumulators(g)
  BY <1>3, <1>4, AccumulatorOf
<1> QED BY <1>5 DEF EmptyPlan

(* Whole paths, one task each.                                              *)
LEMMA PathsArePlanned ==
  ASSUME NEW g, NEW P \in SUBSET PathIds
  PROVE  planWorkflowScope(g, P) \in Accumulators(g)
<1> DEFINE ordered == InPathOrder(g, P)
           n == Cardinality(P)
           ts == [i \in DOMAIN ordered |-> PathTask(g, ordered[i])]
           e == [tasks |-> ts, edges |-> {}, groups |-> <<>>, prev |-> 0]
<1>1. n \in Nat /\ DOMAIN ordered = 1..n
  <2>1. IsFiniteSet(P)
    BY PathIdsFinite, FS_Subset
  <2>2. n \in Nat
    BY <2>1, FS_CardinalityType
  <2> QED BY <2>2 DEF InPathOrder
<1>2. planWorkflowScope(g, P) = e
  <2>1. planWorkflowScope(g, P) = [EmptyPlan EXCEPT !.tasks = ts]
    BY DEF planWorkflowScope, PathTask
  <2> HIDE DEF ts
  <2> DEFINE r == EmptyPlan
             z == r.groups
             y == r.edges
  <2>2. r = [tasks |-> r.tasks, edges |-> y, groups |-> z, prev |-> 0]
    BY DEF EmptyPlan
  <2>5. y = {} /\ z = <<>>
    BY DEF EmptyPlan
  <2> HIDE DEF r, y, z, e
  <2>3. [r EXCEPT !.tasks = ts] = [tasks |-> ts, edges |-> y, groups |-> z, prev |-> 0]
    BY <2>2
  <2>4. [EmptyPlan EXCEPT !.tasks = ts] = e
    BY <2>3, <2>5 DEF r, e
  <2> QED BY <2>1, <2>4
<1>3. \A p : /\ PathTask(g, p).until = {}
             /\ PathTask(g, p).kind # "run_case"
  BY DEF PathTask
<1>4. \A i \in 1..n : PathTask(g, ordered[i]) \in PlannedTasks(g)
  BY <1>3 DEF PlannedTasks, PathTasks
<1> HIDE DEF ordered, n
<1>5. ts \in Seq(PlannedTasks(g)) /\ \A i \in DOMAIN ts : ts[i].kind # "run_case"
  BY <1>1, <1>3, <1>4
<1>6. Len(ts) \in Nat
  BY <1>5
<1> HIDE DEF ts
<1>7. PlanOf(g, e)
  <2>1. e.tasks = ts /\ e.edges = {} /\ e.groups = <<>> /\ e.prev = 0
    OBVIOUS
  <2>2. DOMAIN <<>> = {} /\ 0 \in 0..Len(ts)
    BY <1>6
  <2> HIDE DEF e
  <2> QED BY <1>5, <2>1, <2>2 DEF PlanOf
<1>8. <<>> \in Seq(Groups(g)) /\ {} \in SUBSET (Nat \X Nat) /\ 0 \in Nat
  OBVIOUS
<1>9. e \in Accumulators(g)
  BY <1>5, <1>7, <1>8, AccumulatorOf
<1> QED BY <1>2, <1>9

(* The recursion of planCaseScope, over the cases of a sequence.            *)
PlanUpTo(g, acc, order, n, f) ==
  f = [i \in 0..n |-> IF i = 0 THEN acc ELSE planCaseNode(g, f[i - 1], order[i])]

LEMMA PlanExists ==
  ASSUME NEW g, NEW acc \in Accumulators(g), NEW order, NEW n \in Nat
  PROVE  \E f : PlanUpTo(g, acc, order, n, f)
<1> DEFINE X == Accumulators(g)
           G == [k \in 1..n |-> [x \in X |-> planCaseNode(g, x, order[k])]]
<1>1. G \in [1..n -> [X -> X]]
  BY CaseNodeIsPlanned
<1>2. \E f : Recursion(n, X, acc, G, f)
  <2> HIDE DEF X, G
  <2>1. acc \in X
    BY DEF X
  <2> QED BY <1>1, <2>1, RecursionExists
<1>3. PICK f : Recursion(n, X, acc, G, f)
  BY <1>2
<1>4. f \in [0..n -> X] /\ f[0] = acc /\ \A k \in 1..n : f[k] = G[k][f[k - 1]]
  BY <1>3 DEF Recursion
<1>5. \A k \in 1..n : f[k] = planCaseNode(g, f[k - 1], order[k])
  <2> SUFFICES ASSUME NEW k \in 1..n PROVE f[k] = planCaseNode(g, f[k - 1], order[k])
    OBVIOUS
  <2>1. f[k - 1] \in X
    <3> HIDE DEF X
    <3> QED BY <1>4
  <2>2. G[k][f[k - 1]] = planCaseNode(g, f[k - 1], order[k])
    BY <2>1
  <2> QED BY <1>4, <2>2
<1> HIDE DEF X, G
<1>6. \A i \in 0..n : f[i] = IF i = 0 THEN acc ELSE planCaseNode(g, f[i - 1], order[i])
  BY <1>4, <1>5
<1>7. PlanUpTo(g, acc, order, n, f)
  BY <1>4, <1>6 DEF PlanUpTo
<1> QED BY <1>7

LEMMA PlannedUpTo ==
  ASSUME NEW g, NEW acc \in Accumulators(g), NEW order, NEW n \in Nat, NEW f,
         PlanUpTo(g, acc, order, n, f)
  PROVE  f[n] \in Accumulators(g)
<1> DEFINE P == {k \in 0..n : f[k] \in Accumulators(g)}
<1>1. \A i \in 0..n : f[i] = IF i = 0 THEN acc ELSE planCaseNode(g, f[i - 1], order[i])
  BY DEF PlanUpTo
<1>2. 0 \in P
  BY <1>1
<1>3. ASSUME NEW k \in 1..n, k - 1 \in P PROVE k \in P
  <2>1. f[k] = planCaseNode(g, f[k - 1], order[k]) /\ k \in 0..n
    BY <1>1
  <2>2. f[k - 1] \in Accumulators(g)
    BY <1>3
  <2> QED BY <2>1, <2>2, CaseNodeIsPlanned
<1>4. \A k \in 0..n : k \in P
  <2> HIDE DEF P
  <2> QED BY <1>2, <1>3, InductionUpTo
<1>5. n \in P
  <2> HIDE DEF P
  <2> QED BY <1>4
<1> QED BY <1>5

(* All validation cases.                                                    *)
LEMMA ScopeIsPlanned ==
  ASSUME NEW g, NEW acc \in Accumulators(g)
  PROVE  planCaseScope(g, acc) \in Accumulators(g)
<1> DEFINE S == {c \in NodesOf(g) : g.nodes[c].role = "validation"}
           order == InNodeOrder(S)
           n == Len(order)
<1>1. n \in Nat
  <2>1. IsFiniteSet(S)
    BY IdsOfTheMap, FS_Subset DEF NodesOf
  <2>2. Cardinality(S) \in Nat
    <3> HIDE DEF S
    <3> QED BY <2>1, FS_CardinalityType
  <2> HIDE DEF S
  <2> QED BY <2>2 DEF InNodeOrder
<1>2. \E f : PlanUpTo(g, acc, order, n, f)
  <2> HIDE DEF order, n
  <2> QED BY <1>1, PlanExists
<1>3. \E f : PlanUpTo(g, acc, order, n, f) /\ planCaseScope(g, acc) = f[n]
  BY <1>2 DEF planCaseScope, PlanUpTo
<1> HIDE DEF order, n
<1> QED BY <1>1, <1>3, PlannedUpTo

(* Every plan of every query.                                               *)
LEMMA PlansArePlanned ==
  ASSUME NEW g, NEW q \in Queries, NEW plan \in Explain(g, q)
  PROVE  plan \in Accumulators(g)
<1>1. PathsOf(g) \in SUBSET PathIds
  BY DEF PathsOf
<1>2. q.scope \in {"all", "cases", "case", "workflows"}
  BY DEF Queries
<1>3. CASE q.scope = "all"
  <2>1. plan = planCaseScope(g, planWorkflowScope(g, PathsOf(g)))
    BY <1>3 DEF Explain
  <2> QED BY <1>1, <2>1, PathsArePlanned, ScopeIsPlanned
<1>4. CASE q.scope = "cases"
  <2>1. plan = planCaseScope(g, EmptyPlan)
    BY <1>4 DEF Explain
  <2> QED BY <2>1, EmptyIsPlanned, ScopeIsPlanned
<1>5. CASE q.scope = "case"
  <2>1. plan = planCaseNode(g, EmptyPlan, q.target)
    BY <1>5 DEF Explain
  <2> QED BY <2>1, EmptyIsPlanned, CaseNodeIsPlanned
<1>6. CASE q.scope = "workflows"
  <2>1. q.target \in PathsOf(g) /\ plan = planWorkflowScope(g, {q.target})
    BY <1>6 DEF Explain
  <2> QED BY <1>1, <2>1, PathsArePlanned
<1> QED BY <1>2, <1>3, <1>4, <1>5, <1>6
-----------------------------------------------------------------------------
(* The plans of the map: what the preflight accepts can run                 *)

LEMMA PreflightCovers == PreflightCoversExecution
<1> SUFFICES ASSUME NEW q \in Queries, NEW plan \in Explain(stored, q),
                    validateMapRunCatalogPreflight(stored, catalog, plan) = {},
                    NEW i \in DOMAIN plan.tasks
             PROVE  /\ ToSet(stepsForTask(stored, plan.tasks[i])) \subseteq catalog.cases
                    /\ plan.tasks[i].kind = "reuse_materialization" =>
                         \E m \in stored.mats, f \in catalog.fixtures :
                           m.id = plan.tasks[i].mat /\ f.id = m.id
  BY DEF PreflightCoversExecution
<1> DEFINE t == plan.tasks[i]
<1>1. plan \in Accumulators(stored)
  BY PlansArePlanned
<1>2. t \in PlannedTasks(stored)
  <2>1. plan.tasks \in Seq(PlannedTasks(stored))
    BY <1>1, AccumulatorFields
  <2> QED BY <2>1
<1>3. inspectTask(stored, catalog, t) = {}
  BY DEF validateMapRunCatalogPreflight
<1> HIDE DEF t
<1>4. t.kind = "run_path" => t.until = {}
  BY <1>2 DEF PlannedTasks
<1>5. /\ ToSet(stepsForTask(stored, t)) \subseteq catalog.cases
      /\ t.kind = "reuse_materialization" =>
           \E m \in stored.mats, f \in catalog.fixtures : m.id = t.mat /\ f.id = t.mat
  BY <1>3, <1>4, InspectedTaskIsRunnable
<1> QED BY <1>5 DEF t

(* What map run --plan or map run checks before it starts is enough: a plan *)
(* of any scope that the preflight accepts sends no request for a case the  *)
(* catalog does not list, and replays no checkpoint or fixture that is gone *)
(* (validateMapRunCatalogPreflight, whatever the map and the catalog are).  *)
THEOREM AcceptedPlansAreRunnable ==
  PlannerSpec => []PreflightCoversExecution /\ []PreflightSuffices
<1>1. PreflightCoversExecution
  BY PreflightCovers
<1>2. PreflightSuffices
  BY <1>1 DEF PreflightSuffices
<1> QED BY <1>1, <1>2, PTL
-----------------------------------------------------------------------------
(* The plans of the map: what every stored graph keeps, however torn the    *)
(* reads of its editors are                                                 *)

NoRepeats(s) == \A i, j \in DOMAIN s : s[i] = s[j] => i = j

OneAnchor(nodes) ==
  /\ nodes = [c \in Cases |-> nodes[c]]
  /\ \A c \in Cases : \A a, b \in nodes[c].anchor : a = b
EachStepOnce(steps) ==
  /\ steps = [p \in PathIds |-> steps[p]]
  /\ \A p \in PathIds : steps[p] \in Seq(Cases) /\ NoRepeats(steps[p])
HaveNames(mats) == \A m \in mats : m.id # ""

(* A validation case has one anchor, a path has a case once, a checkpoint   *)
(* has a name.                                                              *)
Replayable(g) == OneAnchor(g.nodes) /\ EachStepOnce(g.steps) /\ HaveNames(g.mats)

LEMMA NoGraphIsReplayable == Replayable(NoGraph)
<1> DEFINE nodes == [c \in Cases |-> NoNode]
           steps == [p \in PathIds |-> <<>>]
<1>1. NoGraph.nodes = nodes /\ NoGraph.steps = steps /\ NoGraph.mats = {}
  BY DEF NoGraph
<1>2. NoNode.anchor = {}
  BY DEF NoNode
<1>3. OneAnchor(nodes)
  BY <1>2 DEF OneAnchor
<1>4. <<>> \in Seq(Cases) /\ NoRepeats(<<>>)
  BY DEF NoRepeats
<1>5. EachStepOnce(steps)
  BY <1>4 DEF EachStepOnce
<1>6. HaveNames({})
  BY DEF HaveNames
<1> HIDE DEF nodes, steps
<1> QED BY <1>1, <1>3, <1>5, <1>6 DEF Replayable

(* A case that is on an imported path twice would close a cycle of its      *)
(* edges, which the import refuses.                                         *)
LEMMA ImportedPathsRepeatNothing ==
  ASSUME NEW g, NEW s \in Seq(Cases), ValidateDAG(g),
         \A i \in 1..(Len(s) - 1) : \E e \in g.edges : e.from = s[i] /\ e.to = s[i + 1]
  PROVE  NoRepeats(s)
<1> SUFFICES ASSUME NEW i \in DOMAIN s, NEW j \in DOMAIN s, s[i] = s[j], i < j PROVE FALSE
  <2>1. DOMAIN s \subseteq Nat
    OBVIOUS
  <2> QED BY <2>1 DEF NoRepeats
<1> DEFINE S == {s[k] : k \in i..j}
<1>1. Len(s) \in Nat /\ DOMAIN s = 1..Len(s) /\ i \in 1..Len(s) /\ j \in 1..Len(s)
  OBVIOUS
<1>2. \A k \in i..j : s[k] \in Cases
  BY <1>1
<1>3. S \in (SUBSET Cases) \ {{}}
  <2>1. i \in i..j
    BY <1>1
  <2>2. s[i] \in S
    BY <2>1
  <2>3. S \subseteq Cases
    BY <1>2
  <2> HIDE DEF S
  <2> QED BY <2>2, <2>3
<1>4. PICK c \in S : ~\E e \in g.edges : e.from \in S /\ e.to = c
  <2> HIDE DEF S
  <2> QED BY <1>3 DEF ValidateDAG
<1>5. PICK k \in (i + 1)..j : s[k] = c
  <2>1. PICK k \in i..j : s[k] = c
    OBVIOUS
  <2>2. CASE k = i
    <3>1. j \in (i + 1)..j /\ s[j] = c
      BY <1>1, <2>1, <2>2
    <3> QED BY <3>1
  <2>3. CASE k # i
    <3>1. k \in (i + 1)..j
      BY <1>1, <2>3
    <3> QED BY <2>1, <3>1
  <2> QED BY <2>2, <2>3
<1>6. k - 1 \in 1..(Len(s) - 1) /\ k - 1 \in i..j /\ (k - 1) + 1 = k
  BY <1>1
<1>7. PICK e \in g.edges : e.from = s[k - 1] /\ e.to = s[(k - 1) + 1]
  BY <1>6
<1>8. e.from \in S /\ e.to = c
  BY <1>5, <1>6, <1>7
<1> QED BY <1>4, <1>8

LEMMA ImportIsReplayable ==
  ASSUME NEW cat \in Catalogs, NEW W, NEW g \in ImportCatalog(cat, W)
  PROVE  Replayable(g)
<1> DEFINE B == BoundPaths(cat, W)
           onPath == UNION {{PathNodes(cat, w)[i] : i \in DOMAIN PathNodes(cat, w)} : w \in B}
           members == onPath \cup importValidationCases(cat, W)
                      \cup ({d.case : d \in cat.deps} \cap cat.active)
           controls == UNION {importPaths(cat, w) : w \in B}
           nodes == [c \in Cases |->
                       IF c \in members THEN upsertCaseNode(cat, W, c, c \in onPath) ELSE NoNode]
           steps == [p \in PathIds |-> IF p \in B THEN PathNodes(cat, p) ELSE <<>>]
<1>1. g = finalize(cat, W) /\ ValidateDAG(g)
  BY DEF ImportCatalog
<1>2. /\ g.nodes = nodes /\ g.steps = steps
      /\ g.edges = controls \cup FixtureEdges(cat, importMaterializations(cat, W))
  BY <1>1 DEF finalize
<1>3. HaveNames(g.mats)
  <2>1. Sound(g)
    BY ImportIsSound
  <2> QED BY <2>1 DEF Sound, CheckpointsResolve, HaveNames
<1>4. B \subseteq Workflows /\ \A w \in B : PathNodes(cat, w) \in Seq(Cases)
  <2>1. B \subseteq Workflows
    BY DEF BoundPaths
  <2> QED BY <2>1, PathNodesType
<1>5. ASSUME NEW w \in B
      PROVE  \A i \in 1..(Len(PathNodes(cat, w)) - 1) :
               \E e \in g.edges : e.from = PathNodes(cat, w)[i] /\ e.to = PathNodes(cat, w)[i + 1]
  <2> SUFFICES ASSUME NEW i \in 1..(Len(PathNodes(cat, w)) - 1)
               PROVE  \E e \in g.edges :
                        e.from = PathNodes(cat, w)[i] /\ e.to = PathNodes(cat, w)[i + 1]
    OBVIOUS
  <2> DEFINE e == ControlEdge(w, i, PathNodes(cat, w)[i], PathNodes(cat, w)[i + 1])
  <2>1. e \in importPaths(cat, w)
    BY DEF importPaths
  <2>2. e \in g.edges
    BY <1>2, <2>1
  <2>3. e.from = PathNodes(cat, w)[i] /\ e.to = PathNodes(cat, w)[i + 1]
    BY DEF ControlEdge
  <2> HIDE DEF e
  <2> QED BY <2>2, <2>3
<1>6. EachStepOnce(g.steps)
  <2>1. ASSUME NEW w \in B PROVE NoRepeats(PathNodes(cat, w))
    BY <1>1, <1>4, <1>5, ImportedPathsRepeatNothing
  <2>2. <<>> \in Seq(Cases) /\ NoRepeats(<<>>)
    BY DEF NoRepeats
  <2> HIDE DEF B, nodes, controls
  <2>3. \A p \in PathIds : steps[p] \in Seq(Cases) /\ NoRepeats(steps[p])
    BY <1>4, <2>1, <2>2
  <2>4. steps = [p \in PathIds |-> steps[p]]
    OBVIOUS
  <2> HIDE DEF steps
  <2> QED BY <1>2, <2>3, <2>4 DEF EachStepOnce
<1>7. OneAnchor(g.nodes)
  <2>1. ASSUME NEW c \in Cases, NEW a \in baseCaseFor(cat, W, c), NEW b \in baseCaseFor(cat, W, c)
        PROVE  a = b
    <3>1. a \in cat.active /\ b \in cat.active /\ a <= b /\ b <= a
      BY DEF baseCaseFor
    <3>2. cat.active \subseteq Nat
      BY CatalogsAreWellFormed, IdsOfTheMap
    <3> QED BY <3>1, <3>2
  <2>2. ASSUME NEW c \in Cases, NEW inPath
        PROVE  \A a, b \in upsertCaseNode(cat, W, c, inPath).anchor : a = b
    <3>1. upsertCaseNode(cat, W, c, inPath).anchor = {}
          \/ upsertCaseNode(cat, W, c, inPath).anchor = baseCaseFor(cat, W, c)
      BY DEF upsertCaseNode
    <3> QED BY <2>1, <3>1
  <2>3. NoNode.anchor = {}
    BY DEF NoNode
  <2> HIDE DEF onPath, members
  <2>4. \A c \in Cases : \A a, b \in nodes[c].anchor : a = b
    BY <2>2, <2>3
  <2>5. nodes = [c \in Cases |-> nodes[c]]
    OBVIOUS
  <2> HIDE DEF nodes
  <2> QED BY <1>2, <2>4, <2>5 DEF OneAnchor
<1> QED BY <1>3, <1>6, <1>7 DEF Replayable

LEMMA AppendIsReplayable ==
  ASSUME NEW old, NEW new, Replayable(old), Replayable(new)
  PROVE  Replayable(appendImportedMapGraph(old, new))
<1> DEFINE g == appendImportedMapGraph(old, new)
           P == PathsOf(new)
           kept == removeMapMaterializationsForPaths(old.mats, P)
           nodes == [c \in Cases |-> IF c \in NodesOf(new) THEN new.nodes[c] ELSE old.nodes[c]]
           steps == [p \in PathIds |-> IF p \in P THEN new.steps[p] ELSE old.steps[p]]
           mats == upsertById(kept, new.mats)
<1>1. g.nodes = nodes /\ g.steps = steps /\ g.mats = mats
  BY DEF appendImportedMapGraph, replaceMapPathSteps
<1>2. OneAnchor(nodes)
  BY DEF OneAnchor, Replayable
<1>3. EachStepOnce(steps)
  BY DEF EachStepOnce, Replayable
<1>4. HaveNames(mats)
  BY DEF HaveNames, Replayable, upsertById, removeMapMaterializationsForPaths
<1> HIDE DEF g, nodes, steps, mats
<1>5. Replayable(g)
  BY <1>1, <1>2, <1>3, <1>4 DEF Replayable
<1> QED BY <1>5 DEF g
LEMMA StatusIsReplayable ==
  ASSUME NEW g, GraphRecord(g), Replayable(g), NEW x
  PROVE  Replayable([g EXCEPT !.map = x])
<1> DEFINE h == [g EXCEPT !.map = x]
<1>1. DOMAIN g = {"map", "nodes", "edges", "paths", "steps", "mats"}
  BY DEF GraphRecord
<1>2. h.nodes = g.nodes /\ h.steps = g.steps /\ h.mats = g.mats
  BY <1>1
<1> HIDE DEF h
<1>3. Replayable(h)
  BY <1>2 DEF Replayable
<1> QED BY <1>3 DEF h

(* A case that gets a role, with one anchor or none.                        *)
LEMMA RoleIsReplayable ==
  ASSUME NEW g, GraphRecord(g), Replayable(g), NEW c, NEW role, NEW anchor,
         \A a, b \in anchor : a = b
  PROVE  LET h == [g EXCEPT !.nodes[c] = [role |-> role, anchor |-> anchor]]
         IN GraphRecord(h) /\ Replayable(h) /\ h.steps = g.steps
<1> DEFINE node == [role |-> role, anchor |-> anchor]
           nodes == [g.nodes EXCEPT ![c] = node]
           h == [g EXCEPT !.nodes = nodes]
<1>1. DOMAIN g = {"map", "nodes", "edges", "paths", "steps", "mats"}
  BY DEF GraphRecord
<1>2. h.nodes = nodes /\ h.steps = g.steps /\ h.mats = g.mats /\ GraphRecord(h)
  <2> HIDE DEF nodes
  <2> QED BY <1>1, ChangedGraphs
<1>3. node.anchor = anchor
  OBVIOUS
<1>4. g.nodes = [d \in Cases |-> g.nodes[d]]
  BY DEF Replayable, OneAnchor
<1> HIDE DEF h, node
<1>5. nodes = [d \in Cases |-> nodes[d]] /\ \A d \in Cases : nodes[d] = IF d = c THEN node ELSE g.nodes[d]
  BY <1>4
<1> HIDE DEF nodes
<1>6. OneAnchor(nodes)
  <2>1. ASSUME NEW d \in Cases, NEW a \in nodes[d].anchor, NEW b \in nodes[d].anchor PROVE a = b
    <3>1. CASE d = c
      BY <1>3, <1>5, <3>1
    <3>2. CASE d # c
      BY <1>5, <3>2 DEF Replayable, OneAnchor
    <3> QED BY <3>1, <3>2
  <2> QED BY <1>5, <2>1 DEF OneAnchor
<1>7. Replayable(h)
  BY <1>2, <1>6 DEF Replayable
<1>8. [g EXCEPT !.nodes[c] = node] = h
  BY DEF h, nodes
<1> QED BY <1>2, <1>7, <1>8 DEF node

(* IndexOn is the first place a case has on a path.                         *)
LEMMA FirstPlace ==
  ASSUME NEW g, NEW p, g.steps[p] \in Seq(Cases), NEW c,
         \E i \in DOMAIN g.steps[p] : g.steps[p][i] = c
  PROVE  /\ IndexOn(g, p, c) \in 1..Len(g.steps[p])
         /\ g.steps[p][IndexOn(g, p, c)] = c
         /\ \A j \in 1..(IndexOn(g, p, c) - 1) : g.steps[p][j] # c
<1> DEFINE s == g.steps[p]
           On == {i \in DOMAIN s : s[i] = c}
           First(i) == s[i] = c /\ \A j \in 1..(i - 1) : s[j] # c
           k == IndexOn(g, p, c)
<1>2. Len(s) \in Nat /\ DOMAIN s = 1..Len(s)
  <2> HIDE DEF s
  <2> QED OBVIOUS
<1>3. On \in SUBSET Nat /\ On # {}
  BY <1>2
<1>4. PICK n \in On : \A m \in On : n <= m
  <2> HIDE DEF On
  <2> QED BY <1>3, LeastOf
<1>5. n \in DOMAIN s /\ First(n)
  <2>1. n \in DOMAIN s /\ s[n] = c
    BY <1>4
  <2>2. ASSUME NEW j \in 1..(n - 1), s[j] = c PROVE FALSE
    <3>1. j \in On
      <4> HIDE DEF s
      <4> QED BY <1>2, <2>1, <2>2
    <3> HIDE DEF On, s
    <3> QED BY <1>2, <1>4, <2>1, <2>2, <3>1
  <2> QED BY <2>1, <2>2
<1>6. k \in DOMAIN s /\ First(k)
  BY <1>5 DEF IndexOn
<1> QED BY <1>2, <1>6

(* A promoted case's own path has the steps before its anchor and the case, *)
(* which is on no path yet.                                                 *)
LEMMA OwnPathIsReplayable ==
  ASSUME NEW g, GraphRecord(g), Replayable(g), NEW c \in Cases, NEW prefix \in Seq(Cases),
         NoRepeats(prefix), \A i \in DOMAIN prefix : prefix[i] # c
  PROVE  Replayable(WithPrimaryPath(g, c, prefix))
<1> DEFINE q == PrimaryPath(c)
           own == Append(prefix, c)
           paths == [g.paths EXCEPT ![q] = nextPromotedPrimaryPathSortOrder(g)]
           steps == [g.steps EXCEPT ![q] = own]
           h == WithPrimaryPath(g, c, prefix)
<1>1. DOMAIN g = {"map", "nodes", "edges", "paths", "steps", "mats"}
  BY DEF GraphRecord
<1>2. h = [g EXCEPT !.paths = paths, !.steps = steps]
  BY DEF WithPrimaryPath
<1>3. own \in Seq(Cases) /\ NoRepeats(own)
  <2>1. Len(prefix) \in Nat /\ DOMAIN prefix = 1..Len(prefix)
    OBVIOUS
  <2>2. /\ own \in Seq(Cases) /\ DOMAIN own = 1..(Len(prefix) + 1)
        /\ own[Len(prefix) + 1] = c /\ \A i \in 1..Len(prefix) : own[i] = prefix[i]
    BY <2>1
  <2> HIDE DEF own
  <2>3. ASSUME NEW i \in DOMAIN own, NEW j \in DOMAIN own, own[i] = own[j] PROVE i = j
    <3>1. CASE i \in 1..Len(prefix) /\ j \in 1..Len(prefix)
      BY <2>1, <2>2, <2>3, <3>1 DEF NoRepeats
    <3>2. CASE i = Len(prefix) + 1 \/ j = Len(prefix) + 1
      BY <2>1, <2>2, <2>3, <3>2
    <3> QED BY <2>1, <2>2, <3>1, <3>2
  <2> QED BY <2>2, <2>3 DEF NoRepeats
<1> HIDE DEF own, q, paths
<1>4. EachStepOnce(steps)
  BY <1>3 DEF Replayable, EachStepOnce
<1> HIDE DEF steps, h
<1>5. h.nodes = g.nodes /\ h.steps = steps /\ h.mats = g.mats
  BY <1>1, <1>2
<1>6. Replayable(h)
  BY <1>4, <1>5 DEF Replayable
<1> QED BY <1>6 DEF h

LEMMA PromotedIsReplayable ==
  ASSUME NEW g, GraphRecord(g), Replayable(g), NEW c \in Cases, NEW h \in Promoted(g, c)
  PROVE  Replayable(h)
<1> DEFINE r == promoteMapNodeToPrimary(g, c)
           anchor == g.nodes[c].anchor
           a == CHOOSE x \in anchor : TRUE
           p == CHOOSE q \in FirstPathWith(r, a) : TRUE
<1>1. GraphRecord(r) /\ Replayable(r)
  BY RoleIsReplayable DEF promoteMapNodeToPrimary
<1>2. \/ h = r
      \/ /\ ~mapPromotedPrimaryIsReachable(r, c)
         /\ \/ h = WithPrimaryPath(r, c, <<>>)
            \/ /\ FirstPathWith(r, a) # {}
               /\ h = WithPrimaryPath(r, c, mapPathPrefixBeforeNode(r, p, a))
  BY DEF Promoted, ensurePromotedPrimaryReachable, upsertAnchoredPromotedPrimaryPath
<1> HIDE DEF r
<1>3. CASE h = WithPrimaryPath(r, c, <<>>)
  <2>1. <<>> \in Seq(Cases) /\ NoRepeats(<<>>) /\ DOMAIN <<>> = {}
    BY DEF NoRepeats
  <2> QED BY <1>1, <1>3, <2>1, OwnPathIsReplayable
<1>4. CASE /\ ~mapPromotedPrimaryIsReachable(r, c) /\ FirstPathWith(r, a) # {}
           /\ h = WithPrimaryPath(r, c, mapPathPrefixBeforeNode(r, p, a))
  <2>1. p \in FirstPathWith(r, a)
    BY <1>4
  <2> HIDE DEF a, p
  <2>2. p \in PathIds /\ \E i \in DOMAIN r.steps[p] : r.steps[p][i] = a
    BY <2>1 DEF FirstPathWith, PathsOf
  <2>3. r.steps[p] \in Seq(Cases) /\ NoRepeats(r.steps[p])
    BY <1>1, <2>2 DEF Replayable, EachStepOnce
  <2> DEFINE k == IndexOn(r, p, a)
             s == r.steps[p]
             prefix == mapPathPrefixBeforeNode(r, p, a)
  <2>4. k \in 1..Len(s)
    BY <2>2, <2>3, FirstPlace
  <2>5. \A i \in DOMAIN s : s[i] # c
    BY <1>4, <2>2 DEF mapPromotedPrimaryIsReachable
  <2>6. prefix = SubSeq(s, 1, k - 1)
    BY DEF mapPathPrefixBeforeNode
  <2> HIDE DEF k, s, prefix
  <2>7. /\ prefix \in Seq(Cases) /\ DOMAIN prefix \subseteq DOMAIN s
        /\ \A i \in DOMAIN prefix : prefix[i] = s[i]
    <3>1. s \in Seq(Cases) /\ Len(s) \in Nat
      BY <2>3 DEF s
    <3> QED BY <2>4, <2>6, <3>1
  <2>8. NoRepeats(prefix) /\ \A i \in DOMAIN prefix : prefix[i] # c
    BY <2>3, <2>5, <2>7 DEF NoRepeats, s
  <2> QED BY <1>1, <1>4, <2>7, <2>8, OwnPathIsReplayable DEF prefix
<1> QED BY <1>1, <1>2, <1>3, <1>4
-----------------------------------------------------------------------------
(* The plans of the map: the invariant and its steps                        *)

(* It is read of any state x of a process.                                  *)
CanReplay(x) ==
  /\ Replayable(x.got)
  /\ x.op.k = "import" => Replayable(x.op.graph)
  /\ x.op.k = "promote" => x.op.c \in Cases

ReplayInv ==
  /\ GraphInv /\ catalog \in Catalogs /\ Replayable(stored)
  /\ \A p \in Clients : CanReplay(cli[p])

LEMMA ClientMoves ==
  ASSUME ReplayInv, [Next]_vars, NEW p \in Clients, catalog' = catalog,
         \A q \in Clients \ {p} : cli'[q] = cli[q], CanReplay(cli'[p]), Replayable(stored')
  PROVE  ReplayInv'
<1>1. GraphInv'
  BY StepOfTheGraph DEF ReplayInv
<1>2. ASSUME NEW q \in Clients PROVE CanReplay(cli'[q])
  <2>1. CASE q = p
    BY <2>1
  <2>2. CASE q # p
    <3>1. cli'[q] = cli[q]
      BY <2>2
    <3> QED BY <3>1 DEF ReplayInv
  <2> QED BY <2>1, <2>2
<1> QED BY <1>1, <1>2 DEF ReplayInv, CanReplay

LEMMA ClientEnds ==
  ASSUME ReplayInv, [Next]_vars, NEW p \in Clients, catalog' = catalog, Done(p), Replayable(stored')
  PROVE  ReplayInv'
<1>1. cli' = [cli EXCEPT ![p] = Idle] /\ cli = [q \in Clients |-> cli[q]]
  BY DEF Done, ReplayInv, GraphInv
<1>2. \A q \in Clients \ {p} : cli'[q] = cli[q]
  BY <1>1
<1>3. cli'[p] = Idle
  BY <1>1
<1>4. Idle.got = NoGraph /\ Idle.op.k = "none"
  BY DEF Idle
<1>5. CanReplay(cli'[p])
  BY <1>3, <1>4, NoGraphIsReplayable DEF CanReplay
<1> QED BY <1>2, <1>5, ClientMoves

LEMMA ClientStarts ==
  ASSUME ReplayInv, [Next]_vars, NEW p \in Clients, NEW op, NEW at, Start(p, op, at),
         op.k = "import" => Replayable(op.graph), op.k = "promote" => op.c \in Cases
  PROVE  ReplayInv'
<1> DEFINE x == [op |-> op, at |-> at, got |-> NoGraph]
<1>1. /\ cli' = [cli EXCEPT ![p] = x] /\ cli = [q \in Clients |-> cli[q]]
      /\ stored' = stored /\ catalog' = catalog
  BY DEF Start, ReplayInv, GraphInv
<1>2. x.op = op /\ x.got = NoGraph
  OBVIOUS
<1> HIDE DEF x
<1>3. cli'[p] = x /\ \A q \in Clients \ {p} : cli'[q] = cli[q]
  BY <1>1
<1>4. CanReplay(cli'[p])
  BY <1>2, <1>3, NoGraphIsReplayable DEF CanReplay
<1>5. Replayable(stored')
  BY <1>1 DEF ReplayInv
<1> QED BY <1>1, <1>3, <1>4, <1>5, ClientMoves

LEMMA ClientsStart ==
  ASSUME ReplayInv, [Next]_vars, NEW p \in Clients,
         \/ StartImport(p) \/ StartUpdate(p) \/ StartSnapshot(p) \/ StartPublish(p)
         \/ StartAttach(p) \/ StartPromote(p)
  PROVE  ReplayInv'
<1>1. CASE StartImport(p)
  <2>1. PICK W \in Filters, append \in BOOLEAN : \E g \in ImportCatalog(catalog, W) :
          LET merge == append /\ stored.map # "none"
          IN Start(p, [k |-> "import", graph |-> g, merge |-> merge],
                   IF merge THEN 0 ELSE Len(Sections))
    BY <1>1 DEF StartImport
  <2>2. PICK g \in ImportCatalog(catalog, W) :
          LET merge == append /\ stored.map # "none"
          IN Start(p, [k |-> "import", graph |-> g, merge |-> merge],
                   IF merge THEN 0 ELSE Len(Sections))
    BY <2>1
  <2> DEFINE merge == append /\ stored.map # "none"
             op == [k |-> "import", graph |-> g, merge |-> merge]
             at == IF merge THEN 0 ELSE Len(Sections)
  <2>3. Start(p, op, at)
    BY <2>2
  <2>4. op.graph = g /\ op.k # "promote"
    OBVIOUS
  <2>5. Replayable(g)
    BY ImportIsReplayable DEF ReplayInv
  <2> HIDE DEF op, at
  <2> QED BY <2>3, <2>4, <2>5, ClientStarts
<1>2. CASE StartUpdate(p) \/ StartSnapshot(p) \/ StartPublish(p) \/ StartAttach(p)
  <2>1. PICK op : Start(p, op, 0) /\ op.k # "import" /\ op.k # "promote"
    <3>1. CASE StartUpdate(p)
      <4>1. PICK status : Start(p, [k |-> "update", status |-> status], 0)
        BY <3>1 DEF StartUpdate
      <4> QED BY <4>1
    <3>2. CASE StartSnapshot(p)
      <4>1. PICK v : Start(p, [k |-> "snapshot", v |-> v], 0)
        BY <3>2 DEF StartSnapshot
      <4> QED BY <4>1
    <3>3. CASE StartPublish(p)
      <4>1. PICK v : Start(p, [k |-> "publish", v |-> v], 0)
        BY <3>3 DEF StartPublish
      <4> QED BY <4>1
    <3>4. CASE StartAttach(p)
      <4>1. PICK c, anchor : Start(p, [k |-> "attach", c |-> c, anchor |-> anchor], 0)
        BY <3>4 DEF StartAttach
      <4> QED BY <4>1
    <3> QED BY <1>2, <3>1, <3>2, <3>3, <3>4
  <2> QED BY <2>1, ClientStarts
<1>3. CASE StartPromote(p)
  <2>1. PICK c \in Cases : Start(p, [k |-> "promote", c |-> c], 0)
    BY <1>3 DEF StartPromote
  <2> DEFINE op == [k |-> "promote", c |-> c]
  <2>2. op.k # "import" /\ op.c \in Cases
    OBVIOUS
  <2>3. Start(p, op, 0)
    BY <2>1
  <2> HIDE DEF op
  <2> QED BY <2>2, <2>3, ClientStarts
<1> QED BY <1>1, <1>2, <1>3

LEMMA ClientReads ==
  ASSUME ReplayInv, [Next]_vars, NEW p \in Clients, ReadSection(p)
  PROVE  ReplayInv'
<1> DEFINE s == Sections[cli[p].at + 1]
           got == [cli[p].got EXCEPT ![s] = stored[s]]
<1>1. stored' = stored /\ catalog' = catalog /\ Replayable(stored)
  BY DEF ReadSection, ReplayInv
<1>2. CASE cli' = [cli EXCEPT ![p] = Idle]
  BY <1>1, <1>2, ClientEnds DEF Done
<1>3. CASE cli' = [cli EXCEPT ![p] = [cli[p] EXCEPT !.at = cli[p].at + 1, !.got[s] = stored[s]]]
  <2> DEFINE x == cli[p]
             n == x.at + 1
             y == [x EXCEPT !.at = n, !.got = got]
  <2>1. x = [op |-> x.op, at |-> x.at, got |-> x.got] /\ GraphRecord(x.got) /\ GraphRecord(stored)
    BY DEF ReplayInv, GraphInv, ReadInv
  <2>2. CanReplay(x) /\ cli = [q \in Clients |-> cli[q]]
    BY DEF ReplayInv, GraphInv
  <2>3. cli' = [cli EXCEPT ![p] = y]
    BY <1>3
  <2>4. DOMAIN x.got = {"map", "nodes", "edges", "paths", "steps", "mats"}
    BY <2>1 DEF GraphRecord
  <2>5. /\ got.nodes = x.got.nodes \/ got.nodes = stored.nodes
        /\ got.steps = x.got.steps \/ got.steps = stored.steps
        /\ got.mats = x.got.mats \/ got.mats = stored.mats
    BY <2>4
  <2> HIDE DEF x, n, got
  <2>6. y.op = x.op /\ y.got = got
    BY <2>1
  <2>7. Replayable(got)
    BY <1>1, <2>2, <2>5 DEF Replayable, CanReplay
  <2>8. CanReplay(y)
    BY <2>2, <2>6, <2>7 DEF CanReplay
  <2> HIDE DEF y
  <2>9. cli'[p] = y /\ \A q \in Clients \ {p} : cli'[q] = cli[q]
    BY <2>2, <2>3
  <2> QED BY <1>1, <2>8, <2>9, ClientMoves
<1> QED BY <1>2, <1>3 DEF ReadSection

(* What a command writes.                                                   *)
LEMMA ClientWrites ==
  ASSUME ReplayInv, [Next]_vars, NEW p \in Clients,
         \/ runMapImportWorkflows(p) \/ runMapUpdate(p) \/ runMapSnapshot(p)
         \/ runMapPublish(p) \/ PublishVersion(p)
         \/ runMapValidationAttach(p) \/ runMapValidationPromote(p) \/ Kill(p)
  PROVE  ReplayInv'
<1> DEFINE got == cli[p].got
           op == cli[p].op
<1>1. /\ GraphRecord(got) /\ Replayable(got) /\ Replayable(stored)
      /\ op.k = "import" => Replayable(op.graph)
      /\ op.k = "promote" => op.c \in Cases
      /\ cli[p] = [op |-> cli[p].op, at |-> cli[p].at, got |-> cli[p].got]
      /\ cli = [q \in Clients |-> cli[q]]
  BY DEF ReplayInv, CanReplay, GraphInv, ReadInv
<1>2. CASE runMapImportWorkflows(p)
  <2>1. op.k = "import" /\ Done(p) /\ catalog' = catalog
        /\ (stored' = stored \/ stored' \in MergedImport(op, got))
    BY <1>2 DEF runMapImportWorkflows, ReadDone, ReplaceTestPlanGraph
  <2>2. stored' \in MergedImport(op, got) =>
          stored' = op.graph \/ stored' = appendImportedMapGraph(got, op.graph)
    BY DEF MergedImport
  <2>3. Replayable(stored')
    <3> HIDE DEF got, op
    <3> QED BY <1>1, <2>1, <2>2, AppendIsReplayable
  <2> QED BY <2>1, <2>3, ClientEnds
<1>3. CASE runMapUpdate(p)
  <2>1. stored' = [got EXCEPT !.map = op.status] /\ Done(p) /\ catalog' = catalog
    BY <1>3 DEF runMapUpdate, ReplaceTestPlanGraph
  <2>2. Replayable(stored')
    <3> HIDE DEF got, op
    <3> QED BY <1>1, <2>1, StatusIsReplayable
  <2> QED BY <2>1, <2>2, ClientEnds
<1>4. CASE runMapSnapshot(p) \/ PublishVersion(p) \/ Kill(p)
  <2>1. stored' = stored /\ Done(p) /\ catalog' = catalog
    BY <1>4 DEF runMapSnapshot, PublishVersion, Kill
  <2> QED BY <1>1, <2>1, ClientEnds
<1>5. CASE runMapPublish(p)
  <2> DEFINE g == [got EXCEPT !.map = "active"]
             next == [k |-> "version", v |-> op.v]
  <2>1. /\ stored' = g /\ catalog' = catalog
        /\ cli' = [cli EXCEPT ![p].op = next, ![p].got = g]
    BY <1>5 DEF runMapPublish, ReplaceTestPlanGraph
  <2>2. next.k # "import" /\ next.k # "promote"
    OBVIOUS
  <2>3. Replayable(g)
    <3> HIDE DEF got
    <3> QED BY <1>1, StatusIsReplayable
  <2> HIDE DEF g, next
  <2>4. cli'[p].op = next /\ cli'[p].got = g /\ \A q \in Clients \ {p} : cli'[q] = cli[q]
    BY <1>1, <2>1
  <2>5. CanReplay(cli'[p])
    BY <2>2, <2>3, <2>4 DEF CanReplay
  <2> QED BY <2>1, <2>3, <2>4, <2>5, ClientMoves
<1>6. CASE runMapValidationAttach(p)
  <2>1. Done(p) /\ catalog' = catalog
        /\ (stored' = stored \/ stored' = mapValidationNodeForAttach(got, op.c, op.anchor))
    BY <1>6 DEF runMapValidationAttach, ReplaceTestPlanGraph
  <2>2. \A a, b \in {op.anchor} : a = b
    OBVIOUS
  <2>3. Replayable(mapValidationNodeForAttach(got, op.c, op.anchor))
    <3> HIDE DEF got, op
    <3> QED BY <1>1, <2>2, RoleIsReplayable DEF mapValidationNodeForAttach
  <2> QED BY <1>1, <2>1, <2>3, ClientEnds
<1>7. CASE runMapValidationPromote(p)
  <2>1. op.k = "promote" /\ Done(p) /\ catalog' = catalog
        /\ (stored' = stored \/ stored' \in Promoted(got, op.c))
    BY <1>7 DEF runMapValidationPromote, ReadDone, ReplaceTestPlanGraph
  <2>2. Replayable(stored')
    <3> HIDE DEF got, op
    <3> QED BY <1>1, <2>1, PromotedIsReplayable
  <2> QED BY <2>1, <2>2, ClientEnds
<1> QED BY <1>2, <1>3, <1>4, <1>5, <1>6, <1>7

LEMMA StepOfTheReplays == ReplayInv /\ [Next]_vars => ReplayInv'
<1> SUFFICES ASSUME ReplayInv, [Next]_vars PROVE ReplayInv'
  OBVIOUS
<1>1. GraphInv'
  BY StepOfTheGraph DEF ReplayInv
<1>2. CASE UNCHANGED vars
  BY <1>1, <1>2 DEF ReplayInv, vars
<1>3. CASE PublishCatalog
  <2>1. catalog' \in Catalogs
    BY <1>3 DEF PublishCatalog
  <2>2. stored' = stored /\ cli' = cli
    BY <1>3 DEF PublishCatalog
  <2> QED BY <1>1, <2>1, <2>2 DEF ReplayInv
<1> QED BY <1>2, <1>3, ClientsStart, ClientReads, ClientWrites DEF Next

LEMMA StartOfTheReplays == Init => ReplayInv
<1> SUFFICES ASSUME Init PROVE ReplayInv
  OBVIOUS
<1>1. Idle.got = NoGraph /\ Idle.op.k = "none"
  BY DEF Idle
<1>2. CanReplay(Idle)
  BY <1>1, NoGraphIsReplayable DEF CanReplay
<1>3. GraphInv
  BY StartOfTheMap
<1> QED BY <1>2, <1>3, NoGraphIsReplayable DEF Init, ReplayInv
-----------------------------------------------------------------------------
(* The plans of the map: a case waits for its replay                        *)

(* Replaying up to the last step before the anchor replays all of them and  *)
(* no more; also when there is none.                                        *)
LEMMA PrefixIsReplayed ==
  ASSUME NEW g, Replayable(g), NEW p \in PathIds, NEW a,
         \E i \in DOMAIN g.steps[p] : g.steps[p][i] = a
  PROVE  TheOrEmpty(PrefixUntil(g, p, LastOf(mapPathPrefixBeforeNode(g, p, a))))
           = mapPathPrefixBeforeNode(g, p, a)
<1> DEFINE s == g.steps[p]
           k == IndexOn(g, p, a)
           before == mapPathPrefixBeforeNode(g, p, a)
<1>1. s \in Seq(Cases) /\ NoRepeats(s)
  BY DEF Replayable, EachStepOnce
<1>2. k \in 1..Len(s)
  BY <1>1, FirstPlace
<1>3. before = SubSeq(s, 1, k - 1) /\ Len(s) \in Nat /\ DOMAIN s = 1..Len(s)
  <2>1. before = SubSeq(s, 1, k - 1)
    BY DEF mapPathPrefixBeforeNode
  <2> HIDE DEF s, before, k
  <2> QED BY <1>1, <2>1
<1>4. CASE k = 1
  <2>1. before = <<>>
    <3> HIDE DEF s, k, before
    <3> QED BY <1>1, <1>3, <1>4
  <2> HIDE DEF before
  <2>2. LastOf(before) = {}
    BY <2>1 DEF LastOf
  <2>3. PrefixUntil(g, p, {}) = {}
    BY DEF PrefixUntil
  <2>4. TheOrEmpty({}) = <<>>
    BY DEF TheOrEmpty
  <2> QED BY <2>1, <2>2, <2>3, <2>4 DEF before
<1>5. CASE k # 1
  <2> DEFINE last == s[k - 1]
  <2>1. k - 1 \in 1..Len(s) /\ Len(before) = k - 1 /\ before # <<>> /\ before[k - 1] = last
    <3> HIDE DEF s, k, before
    <3> QED BY <1>1, <1>2, <1>3, <1>5
  <2>2. LastOf(before) = {last}
    <3> HIDE DEF before, last, k
    <3> QED BY <2>1 DEF LastOf
  <2>3. IndexOn(g, p, last) = k - 1
    <3>1. \E i \in DOMAIN g.steps[p] : g.steps[p][i] = last
      BY <1>3, <2>1
    <3> HIDE DEF k, last
    <3>2. IndexOn(g, p, last) \in 1..Len(s) /\ s[IndexOn(g, p, last)] = last
      BY <1>1, <3>1, FirstPlace
    <3> HIDE DEF s
    <3> QED BY <1>1, <1>3, <2>1, <3>2 DEF NoRepeats, last
  <2>4. last \in ToSet(g.steps[p])
    <3>1. k - 1 \in DOMAIN s
      BY <1>3, <2>1
    <3> QED BY <3>1 DEF ToSet
  <2> HIDE DEF last
  <2>5. {d \in {last} : d \in ToSet(g.steps[p])} = {last}
    BY <2>4
  <2>6. PrefixUntil(g, p, {last}) = {SubSeq(s, 1, IndexOn(g, p, last))}
    BY <2>5 DEF PrefixUntil
  <2> HIDE DEF s, k, before
  <2>7. PrefixUntil(g, p, {last}) = {before}
    BY <1>3, <2>3, <2>6
  <2>8. TheOrEmpty({before}) = before
    BY DEF TheOrEmpty
  <2> QED BY <2>2, <2>7, <2>8 DEF before
<1> QED BY <1>4, <1>5

(* The replay before a validation case stops before its anchor.             *)
LEMMA ReplayStopsBeforeAnchor ==
  ASSUME NEW g, Replayable(g), NEW c, ExplainCase(g, c) # {}, Len(OperationsOf(g, c)) # 1,
         NEW t, t = taskFromOperation(OperationsOf(g, c)[1]), t.kind = "run_path_prefix",
         NEW a \in g.nodes[c].anchor
  PROVE  stepsForTask(g, t) = mapPathPrefixBeforeNode(g, t.path, a)
<1> DEFINE ops == OperationsOf(g, c)
           anchored == UNION {FirstPathWith(g, x) : x \in g.nodes[c].anchor}
           before(p) == mapPathPrefixBeforeNode(g, p, CHOOSE x \in g.nodes[c].anchor : TRUE)
<1>1. ops \in ExplainCase(g, c) /\ c \in NodesOf(g) /\ c \in Cases
  <2>1. ops \in ExplainCase(g, c)
    BY DEF OperationsOf
  <2> QED BY <2>1 DEF ExplainCase, NodesOf
<1>2. \A x \in g.nodes[c].anchor : x = a
  BY <1>1 DEF Replayable, OneAnchor
<1>3. ops \notin explainFixtureBackedCaseNode(g, c)
  <2>1. SUFFICES ASSUME NEW m \in materializationForTarget(g, c),
                        ops = <<Replay(m.path, {m.until}, m.id), RunCase(c)>>
                 PROVE  FALSE
    <3> HIDE DEF ops
    <3> QED BY DEF explainFixtureBackedCaseNode
  <2>2. m.id # ""
    BY DEF Replayable, HaveNames, materializationForTarget
  <2>3. ops[1] = Replay(m.path, {m.until}, m.id)
    BY <2>1
  <2>4. t = ReplayTask(m.path, {m.until}, m.id)
    BY <2>3 DEF ReplayTask
  <2>5. ReplayTask(m.path, {m.until}, m.id).kind = "reuse_materialization"
    BY <2>2, CheckpointReplay
  <2> QED BY <2>4, <2>5
<1>4. \E p \in anchored : ops = <<Replay(p, LastOf(before(p)), ""), RunCase(c)>>
  <2>1. \A p : Len(<<Replay(p, {c}, "")>>) = 1
    OBVIOUS
  <2>2. ops \notin {<<Replay(p, {c}, "")>> : p \in FirstPathWith(g, c)}
    BY <2>1
  <2>3. ops # <<RunCase(c)>>
    OBVIOUS
  <2>4. ops \in explainValidationNode(g, c)
    <3> HIDE DEF ops
    <3> QED BY <1>1, <1>3, <2>2 DEF ExplainCase
  <2>5. ops \in {<<Replay(p, LastOf(before(p)), ""), RunCase(c)>> : p \in anchored}
    <3> HIDE DEF ops
    <3> QED BY <1>3, <2>3, <2>4 DEF explainValidationNode
  <2> HIDE DEF ops, anchored, before
  <2> QED BY <2>5
<1>5. PICK p \in anchored : ops = <<Replay(p, LastOf(before(p)), ""), RunCase(c)>>
  BY <1>4
<1>6. p \in FirstPathWith(g, a) /\ before(p) = mapPathPrefixBeforeNode(g, p, a)
  <2>1. PICK x \in g.nodes[c].anchor : p \in FirstPathWith(g, x)
    OBVIOUS
  <2>2. x = a /\ (CHOOSE y \in g.nodes[c].anchor : TRUE) = a
    BY <1>2
  <2> QED BY <2>1, <2>2
<1> DEFINE u == LastOf(mapPathPrefixBeforeNode(g, p, a))
<1>7. t = ReplayTask(p, u, "")
  <2>2. LastOf(before(p)) = u
    BY <1>6
  <2>3. ops = <<Replay(p, LastOf(before(p)), ""), RunCase(c)>>
    BY <1>5
  <2> HIDE DEF u, before, ops
  <2>1. ops[1] = Replay(p, u, "")
    BY <2>2, <2>3
  <2> USE DEF ops
  <2> QED BY <2>1 DEF ReplayTask
<1>8. t.path = p /\ t.until = u
  <2> HIDE DEF u
  <2>1. \A m : ReplayTask(p, u, m).path = p /\ ReplayTask(p, u, m).until = u
    BY ReplayFields
  <2> QED BY <1>7, <2>1
<1>9. p \in PathIds /\ \E i \in DOMAIN g.steps[p] : g.steps[p][i] = a
  BY <1>6 DEF FirstPathWith, PathsOf
<1>10. stepsForTask(g, t) = TheOrEmpty(PrefixUntil(g, p, u))
  <2> HIDE DEF u
  <2> QED BY <1>8 DEF stepsForTask
<1> QED BY <1>8, <1>9, <1>10, PrefixIsReplayed

LEMMA CasesWait == ReplayInv => CaseAfterItsReplay
<1> SUFFICES ASSUME ReplayInv, NEW q \in Queries, NEW plan \in Explain(stored, q),
                    NEW i \in DOMAIN plan.tasks, plan.tasks[i].kind = "run_case"
             PROVE  LET c == plan.tasks[i].case
                        needed == OperationsOf(stored, c)
                        waits == {e[1] : e \in {x \in plan.edges : x[2] = i}}
                    IN IF Len(needed) = 1 THEN waits = {}
                       ELSE \E j \in 1..(i - 1) :
                              /\ waits = {j}
                              /\ plan.tasks[j] = taskFromOperation(needed[1])
                              /\ plan.tasks[j].kind = "run_path_prefix" =>
                                   \A a \in stored.nodes[c].anchor :
                                     stepsForTask(stored, plan.tasks[j])
                                       = mapPathPrefixBeforeNode(stored, plan.tasks[j].path, a)
  BY DEF CaseAfterItsReplay
<1> DEFINE c == plan.tasks[i].case
           needed == OperationsOf(stored, c)
           waits == WaitsFor(plan.edges, i)
<1>1. plan \in Accumulators(stored)
  BY PlansArePlanned
<1>2. PlanOf(stored, plan)
  BY <1>1, AccumulatorFields
<1>3. HasItsReplay(stored, plan.tasks, plan.edges, i)
  BY <1>2 DEF PlanOf
<1>4. ExplainCase(stored, c) # {}
      /\ IF Len(needed) = 1 THEN waits = {}
         ELSE \E j \in 1..(i - 1) : waits = {j} /\ plan.tasks[j] = taskFromOperation(needed[1])
  BY <1>3 DEF HasItsReplay
<1>5. waits = {e[1] : e \in {x \in plan.edges : x[2] = i}}
  BY DEF WaitsFor
<1>6. Replayable(stored)
  BY DEF ReplayInv
<1> HIDE DEF waits, c
<1>7. CASE Len(needed) = 1
  BY <1>4, <1>5, <1>7 DEF c
<1>8. CASE Len(needed) # 1
  <2>1. PICK j \in 1..(i - 1) : waits = {j} /\ plan.tasks[j] = taskFromOperation(needed[1])
    BY <1>4, <1>8
  <2>2. ASSUME plan.tasks[j].kind = "run_path_prefix", NEW a \in stored.nodes[c].anchor
        PROVE  stepsForTask(stored, plan.tasks[j])
                 = mapPathPrefixBeforeNode(stored, plan.tasks[j].path, a)
    BY <1>4, <1>6, <1>8, <2>1, <2>2, ReplayStopsBeforeAnchor
  <2> QED BY <1>5, <1>8, <2>1, <2>2 DEF c
<1> QED BY <1>7, <1>8

(* The invariant of every behaviour of the map.                             *)
THEOREM ReplayInvariant == Spec => []ReplayInv
BY StartOfTheReplays, StepOfTheReplays, PTL DEF Spec

(* In every plan a case waits for exactly the replay it needs, planned      *)
(* before it, and the replay before a validation case never runs the case   *)
(* it validates (mapplanner.Explain on whatever map the commands, however   *)
(* their reads and writes interleave, have left in the Store).              *)
THEOREM CasesWaitForTheirReplay ==
  PlannerSpec => []CaseAfterItsReplay /\ []PlansReplayFirst
<1>1. PlannerInit => ReplayInv
  BY StartOfTheReplays DEF PlannerInit
<1>2. ReplayInv /\ [PlannerNext]_planVars => ReplayInv'
  <2>1. [PlannerNext]_planVars => [Next]_vars
    BY PlansApart DEF PlannerNext, planVars, vars
  <2> QED BY <2>1, StepOfTheReplays
<1>3. ReplayInv => PlansReplayFirst
  BY CasesWait DEF PlansReplayFirst
<1> QED BY <1>1, <1>2, <1>3, CasesWait, PTL DEF PlannerSpec

-----------------------------------------------------------------------------
(* Workflow runs: the inductive invariant                                   *)

CallType ==
  [pc : {"idle", "executing", "recording", "case", "evidence", "trace", "waiting", "answered", "error"},
   via : {"none", "public", "trusted", "batch"}, step : Steps \cup {"none"},
   out : {"none", "passed", "failed", "rejected"}]

(* The invariants are stated of any calls cl, to be read of the next ones.  *)
Begun(cl, c) == cl[c].pc # "idle"

(* A saved entry names a call that was made for its step.                   *)
EntryOK(cl, e) == \A c \in e.src : c \in Calls /\ Begun(cl, c) /\ cl[c].step = e.step

(* The entries of run r; the one a call records for itself has no sources.  *)
StepsOK(cl, r, es) ==
  /\ DOMAIN es \in {1..0, 1..1, 1..2}
  /\ \A i \in DOMAIN es : EntryOK(cl, es[i]) /\ (r \in Calls => es[i].src = {} /\ es[i].trace = {})

(* What the collection of a call has stored is about the call's step.       *)
TopologyOK(cl, t) ==
  t.run \in Calls =>
    /\ Begun(cl, t.run) /\ t.case = cl[t.run].step
    /\ t.step = IF cl[t.run].via = "trusted" THEN {cl[t.run].step} ELSE {}

RunsTypes ==
  /\ call \in [Calls -> CallType]
  /\ run = [r \in Runs |-> run[r]] /\ save = [w \in Saves |-> save[w]]
  /\ \A w \in Saves : save[w] = [pc |-> save[w].pc, steps |-> save[w].steps]
  /\ \A r \in Runs : run[r] = {} \/ \E x \in run[r] : run[r] = {x}

EntriesInv ==
  /\ \A c \in Calls : run[c] # {} => Begun(call, c)
  /\ \A r \in Runs : \A x \in run[r] : StepsOK(call, r, x.steps)
  /\ \A w \in Saves : save[w].pc # "idle" => StepsOK(call, w, save[w].steps)

TopologiesInv == \A t \in topo : TopologyOK(call, t)

RunsInv == RunsTypes /\ EntriesInv /\ TopologiesInv /\ PageShowsTrace

-----------------------------------------------------------------------------
(* Workflow runs: lemmas                                                    *)

(* A sequence of at most two entries has a first one for each of its steps. *)
LEMMA FirstEntry ==
  ASSUME NEW es, NEW s, DOMAIN es \in {1..0, 1..1, 1..2}, \E i \in DOMAIN es : es[i].step = s
  PROVE  \E i \in DOMAIN es : es[i].step = s /\ \A j \in 1..(i - 1) : es[j].step # s
<1>1. CASE 1 \in DOMAIN es /\ es[1].step = s
  <2>1. \A j \in 1..(1 - 1) : es[j].step # s
    OBVIOUS
  <2> QED BY <1>1, <2>1
<1>2. CASE ~(1 \in DOMAIN es /\ es[1].step = s)
  <2>1. PICK i \in DOMAIN es : es[i].step = s
    OBVIOUS
  <2>2. i = 2 /\ 1 \in DOMAIN es
    BY <1>2, <2>1
  <2>3. \A j \in 1..(2 - 1) : j = 1
    OBVIOUS
  <2> QED BY <1>2, <2>1, <2>2, <2>3
<1> QED BY <1>1, <1>2

(* The entry a page is read from.                                           *)
LEMMA PageEntry ==
  ASSUME RunsInv, NEW r \in Runs, NEW s, HasStep(r, s)
  PROVE  /\ EntryOK(call, workflowRunStep(r, s)) /\ workflowRunStep(r, s).step = s
         /\ r \in Calls => workflowRunStep(r, s).src = {} /\ workflowRunStep(r, s).trace = {}
<1>1. PICK x \in run[r] : \E i \in DOMAIN x.steps : x.steps[i].step = s
  BY DEF HasStep, StepsOf
<1>2. run[r] = {x}
  BY <1>1 DEF RunsInv, RunsTypes
<1>3. (CHOOSE y \in run[r] : TRUE) = x
  BY <1>2
<1>4. StepsOK(call, r, x.steps)
  BY <1>1 DEF RunsInv, EntriesInv
<1> DEFINE es == x.steps
           First(i) == es[i].step = s /\ \A j \in 1..(i - 1) : es[j].step # s
           i0 == CHOOSE i \in DOMAIN es : First(i)
<1>5. \E i \in DOMAIN es : First(i)
  BY <1>1, <1>4, FirstEntry DEF StepsOK
<1>6. i0 \in DOMAIN es /\ First(i0)
  <2> HIDE DEF First
  <2> QED BY <1>5
<1>7. workflowRunStep(r, s) = es[i0]
  BY <1>3 DEF workflowRunStep
<1>8. es[i0].step = s
  BY <1>6
<1> HIDE DEF es, i0
<1> QED BY <1>4, <1>6, <1>7, <1>8 DEF StepsOK, es

(* What a page was opened on is stored for a call its entry names, and      *)
(* about the entry's step: it is shown.                                     *)
LEMMA PageShows ==
  ASSUME RunsInv, NEW r \in Runs, NEW s, HasStep(r, s),
         NEW x \in topo, x.run \in workflowRunStep(r, s).src
  PROVE  workflowRunTraceTopologiesOrCopy(r, s) # {}
<1> DEFINE e == workflowRunStep(r, s)
<1>1. EntryOK(call, e) /\ e.step = s /\ (r \in Calls => e.src = {})
  BY PageEntry
<1>2. x.run \in Calls /\ call[x.run].step = s
  BY <1>1 DEF EntryOK
<1>3. x.step \subseteq {s} /\ x.case = s
  BY <1>2 DEF RunsInv, TopologiesInv, TopologyOK, StepOf
<1>4. x.run # r
  BY <1>1, <1>2
<1>5. x \in workflowStepSources(r, e, topo)
  BY <1>1, <1>3, <1>4 DEF workflowStepSources, Matches
<1>6. copyWorkflowStepTraceTopologiesFromSources(r, e) # {}
  BY <1>5 DEF copyWorkflowStepTraceTopologiesFromSources
<1> QED BY <1>6 DEF workflowRunTraceTopologiesOrCopy

-----------------------------------------------------------------------------
LEMMA RunsStart == RunsInit => RunsInv
<1> SUFFICES ASSUME RunsInit PROVE RunsInv
  OBVIOUS
<1>1. [pc |-> "idle", via |-> "none", step |-> "none", out |-> "none"] \in CallType
  BY DEF CallType
<1>2. RunsTypes
  BY <1>1 DEF RunsInit, RunsTypes
<1>3. EntriesInv /\ TopologiesInv
  BY DEF RunsInit, EntriesInv, TopologiesInv, Runs
<1>4. PageShowsTrace
  BY DEF RunsInit, NoPage, PageShowsTrace
<1> QED BY <1>2, <1>3, <1>4 DEF RunsInv

(* The calls that have begun are the ones they were.                        *)
SameCalls ==
  \A c \in Calls : Begun(call, c) =>
    Begun(call', c) /\ call'[c].step = call[c].step /\ call'[c].via = call[c].via

LEMMA KeptEntries ==
  ASSUME SameCalls
  PROVE  /\ \A r, es : StepsOK(call, r, es) => StepsOK(call', r, es)
         /\ \A t : TopologyOK(call, t) => TopologyOK(call', t)
<1>1. \A e : EntryOK(call, e) => EntryOK(call', e)
  BY DEF SameCalls, EntryOK
<1>2. \A r, es : StepsOK(call, r, es) => StepsOK(call', r, es)
  BY <1>1 DEF StepsOK
<1>3. \A t : TopologyOK(call, t) => TopologyOK(call', t)
  BY DEF SameCalls, TopologyOK
<1> QED BY <1>2, <1>3

(* What a step has to show: what it writes is as the invariant wants it.    *)
NewRun(cl, r, S) ==
  \E x : S = {x} /\ StepsOK(cl, r, x.steps) /\ (r \in Calls => Begun(cl, r))

LEMMA Keeps ==
  ASSUME RunsInv, call' \in [Calls -> CallType], SameCalls,
         run' = [r \in Runs |-> run'[r]],
         \A r \in Runs : run'[r] = run[r] \/ NewRun(call', r, run'[r]),
         save' = [w \in Saves |-> save'[w]],
         \A w \in Saves :
           \/ save'[w] = save[w]
           \/ /\ save'[w] = [pc |-> save'[w].pc, steps |-> save'[w].steps]
              /\ StepsOK(call', w, save'[w].steps),
         \A t \in topo' : t \in topo \/ TopologyOK(call', t),
         PageShowsTrace'
  PROVE  RunsInv'
<1>1. RunsTypes'
  <2>1. ASSUME NEW r \in Runs PROVE run'[r] = {} \/ \E x \in run'[r] : run'[r] = {x}
    BY DEF RunsInv, RunsTypes, NewRun
  <2>2. ASSUME NEW w \in Saves PROVE save'[w] = [pc |-> save'[w].pc, steps |-> save'[w].steps]
    BY DEF RunsInv, RunsTypes
  <2> QED BY <2>1, <2>2 DEF RunsTypes
<1>2. EntriesInv'
  <2>1. ASSUME NEW c \in Calls, run'[c] # {} PROVE Begun(call', c)
    BY <2>1 DEF RunsInv, EntriesInv, Runs, NewRun, SameCalls
  <2>2. ASSUME NEW r \in Runs, NEW x \in run'[r] PROVE StepsOK(call', r, x.steps)
    BY KeptEntries DEF RunsInv, EntriesInv, NewRun
  <2>3. ASSUME NEW w \in Saves, save'[w].pc # "idle" PROVE StepsOK(call', w, save'[w].steps)
    BY <2>3, KeptEntries DEF RunsInv, EntriesInv
  <2> QED BY <2>1, <2>2, <2>3 DEF EntriesInv
<1>3. TopologiesInv'
  BY KeptEntries DEF RunsInv, TopologiesInv
<1> QED BY <1>1, <1>2, <1>3 DEF RunsInv

(* A step of a call, which does not start over.                             *)
LEMMA CallMoves ==
  ASSUME RunsInv, NEW c \in Calls, NEW k \in CallType, call' = [call EXCEPT ![c] = k],
         Begun(call, c) => k.pc # "idle" /\ k.step = call[c].step /\ k.via = call[c].via
  PROVE  /\ call' \in [Calls -> CallType] /\ SameCalls /\ call'[c] = k
         /\ UNCHANGED <<run, save, topo, page>> => RunsInv'
<1>1. call \in [Calls -> CallType]
  BY DEF RunsInv, RunsTypes
<1>2. call' \in [Calls -> CallType] /\ call'[c] = k /\ \A d \in Calls : d # c => call'[d] = call[d]
  BY <1>1
<1>3. SameCalls
  BY <1>2 DEF SameCalls, Begun
<1>4. ASSUME UNCHANGED <<run, save, topo, page>> PROVE RunsInv'
  <2>1. PageShowsTrace' /\ run' = [r \in Runs |-> run'[r]] /\ save' = [w \in Saves |-> save'[w]]
    BY <1>4 DEF RunsInv, RunsTypes, PageShowsTrace
  <2> QED BY <1>2, <1>3, <1>4, <2>1, Keeps
<1> QED BY <1>2, <1>3, <1>4

(* Nothing happens to the calls and what the save has made of them.         *)
LEMMA CallsStay ==
  ASSUME RunsInv, UNCHANGED call
  PROVE  /\ call' \in [Calls -> CallType] /\ SameCalls
         /\ run = [r \in Runs |-> run[r]] /\ save = [w \in Saves |-> save[w]]
BY DEF RunsInv, RunsTypes, SameCalls, Begun

LEMMA StepQuiet ==
  ASSUME RunsInv, UNCHANGED <<call, run, save, topo, page>>
  PROVE  RunsInv'
<1>1. PageShowsTrace'
  BY DEF RunsInv, PageShowsTrace
<1> QED BY <1>1, CallsStay, Keeps

-----------------------------------------------------------------------------
(* Workflow runs: executing a case and collecting its trace                 *)

LEMMA StepBegin ==
  ASSUME RunsInv, NEW c \in Calls, NEW q \in Requests, q[1] = c, Begin(c, q[2], q[3])
  PROVE  RunsInv'
<1>1. q[2] \in {"public", "trusted", "batch"} /\ q[3] \in Steps
  BY RunsAssumption
<1> DEFINE k == [pc |-> "executing", via |-> q[2], step |-> q[3], out |-> "none"]
<1>2. k \in CallType
  BY <1>1 DEF CallType
<1>3. call' = [call EXCEPT ![c] = k] /\ ~Begun(call, c) /\ UNCHANGED <<run, save, topo, page>>
  BY DEF Begin, Begun, rows
<1> QED BY <1>2, <1>3, CallMoves

(* A call that goes on to its next statement.                               *)
LEMMA NextStatement ==
  ASSUME RunsInv, NEW c \in Calls, Begun(call, c),
         NEW pc \in {"recording", "case", "evidence", "trace", "waiting", "answered", "error"}
  PROVE  /\ [call[c] EXCEPT !.pc = pc] \in CallType
         /\ [call[c] EXCEPT !.pc = pc].pc = pc
         /\ [call[c] EXCEPT !.pc = pc].step = call[c].step
         /\ [call[c] EXCEPT !.pc = pc].via = call[c].via
<1>1. call[c] \in CallType
  BY DEF RunsInv, RunsTypes
<1> QED BY <1>1 DEF CallType

LEMMA StepResult ==
  ASSUME RunsInv, NEW c \in Calls, testKitCaseResult(c)
  PROVE  RunsInv'
<1>1. PICK out \in executeTestKitCase(call[c].step) :
        call' = [call EXCEPT
          ![c].out = IF out = "rejected" /\ call[c].via = "batch" THEN "failed" ELSE out,
          ![c].pc = IF out = "rejected" /\ call[c].via # "batch" THEN "answered" ELSE "recording"]
  BY DEF testKitCaseResult
<1>2. call \in [Calls -> CallType] /\ call[c] \in CallType
  BY DEF RunsInv, RunsTypes
<1>3. out \in {"passed", "failed", "rejected"}
  BY DEF executeTestKitCase
<1> DEFINE o == IF out = "rejected" /\ call[c].via = "batch" THEN "failed" ELSE out
           p == IF out = "rejected" /\ call[c].via # "batch" THEN "answered" ELSE "recording"
           k == [call[c] EXCEPT !.out = o, !.pc = p]
<1>4. o \in {"passed", "failed", "rejected"} /\ p \in {"answered", "recording"}
  BY <1>3
<1>5. call' = [call EXCEPT ![c] = k]
  BY <1>1, <1>2
<1> HIDE DEF o, p
<1>6. k \in CallType /\ k.pc = p /\ k.step = call[c].step /\ k.via = call[c].via
  BY <1>2, <1>4 DEF CallType
<1> HIDE DEF k
<1>7. UNCHANGED <<run, save, topo, page>>
  BY DEF testKitCaseResult, rows
<1> QED BY <1>4, <1>5, <1>6, <1>7, CallMoves

(* The next statement of a call that writes no run.                         *)
LEMMA CallGoesOn ==
  ASSUME RunsInv, NEW c \in Calls, Begun(call, c), UNCHANGED <<run, save, topo, page>>,
         NEW pc \in {"recording", "case", "evidence", "trace", "waiting", "answered", "error"},
         call' = [call EXCEPT ![c].pc = pc]
  PROVE  RunsInv'
<1>1. call \in [Calls -> CallType]
  BY DEF RunsInv, RunsTypes
<1> DEFINE k == [call[c] EXCEPT !.pc = pc]
<1>2. call' = [call EXCEPT ![c] = k]
  BY <1>1
<1>3. k \in CallType /\ k.pc = pc /\ k.step = call[c].step /\ k.via = call[c].via
  BY NextStatement
<1> HIDE DEF k
<1> QED BY <1>2, <1>3, CallMoves

LEMMA StepRecording ==
  ASSUME RunsInv, NEW c \in Calls,
         RecordAPICaseRun(c) \/ recordAPICaseEvidenceRecords(c) \/ RecordFails(c) \/ StartTrace(c)
  PROVE  RunsInv'
<1>1. CASE RecordAPICaseRun(c)
  BY <1>1, CallGoesOn DEF RecordAPICaseRun, Begun
<1>2. CASE recordAPICaseEvidenceRecords(c)
  BY <1>2, CallGoesOn DEF recordAPICaseEvidenceRecords, Begun
<1>3. CASE RecordFails(c)
  BY <1>3, CallGoesOn DEF RecordFails, Begun, rows
<1>4. CASE StartTrace(c)
  <2>1. PICK pc \in {"waiting", "answered"} : call' = [call EXCEPT ![c].pc = pc]
    BY <1>4 DEF StartTrace
  <2>2. Begun(call, c) /\ UNCHANGED <<run, save, topo, page>>
    BY <1>4 DEF StartTrace, Begun
  <2> QED BY <2>1, <2>2, CallGoesOn
<1> QED BY <1>1, <1>2, <1>3, <1>4

LEMMA StepCreateCaseRun ==
  ASSUME RunsInv, NEW c \in Calls, CreateCaseRun(c)
  PROVE  RunsInv'
<1>1. Begun(call, c) /\ UNCHANGED <<save, topo, page>>
  BY DEF CreateCaseRun, Begun
<1>2. CASE ~takeTestKitAPICaseRunResult(c)
  BY <1>1, <1>2, CallGoesOn DEF CreateCaseRun
<1>3. CASE takeTestKitAPICaseRunResult(c)
  <2> DEFINE es == IF call[c].via = "trusted"
                   THEN <<Entry(call[c].step, {}, call[c].out, {})>> ELSE <<>>
             k == [call[c] EXCEPT !.pc = "case"]
             x == [kind |-> "apiCase", status |-> call[c].out, steps |-> es]
  <2>1. run' = [run EXCEPT ![c] = {x}] /\ call' = [call EXCEPT ![c].pc = "case"]
    BY <1>3 DEF CreateCaseRun, RunRow
  <2>2. call \in [Calls -> CallType] /\ run = [r \in Runs |-> run[r]] /\ c \in Runs
        /\ save = [w \in Saves |-> save[w]]
    BY DEF RunsInv, RunsTypes, Runs
  <2>3. call' = [call EXCEPT ![c] = k]
    BY <2>1, <2>2
  <2>4. k \in CallType /\ k.pc = "case" /\ k.step = call[c].step /\ k.via = call[c].via
    BY <1>1, NextStatement
  <2> HIDE DEF k
  <2>5. call' \in [Calls -> CallType] /\ SameCalls /\ call'[c] = k
    BY <2>3, <2>4, CallMoves
  <2>6. StepsOK(call', c, es)
    <3>1. CASE call[c].via = "trusted"
      <4>1. es = <<Entry(call[c].step, {}, call[c].out, {})>>
        BY <3>1
      <4>2. DOMAIN es = 1..1 /\ es[1].src = {} /\ es[1].trace = {}
        BY <4>1 DEF Entry
      <4> HIDE DEF es
      <4> QED BY <4>2 DEF StepsOK, EntryOK
    <3>2. CASE call[c].via # "trusted"
      <4>1. es = <<>>
        BY <3>2
      <4>2. DOMAIN es = 1..0
        BY <4>1
      <4> HIDE DEF es
      <4> QED BY <4>2 DEF StepsOK
    <3> QED BY <3>1, <3>2
  <2>7. NewRun(call', c, {x})
    <3>1. x.steps = es /\ Begun(call', c)
      BY <2>4, <2>5 DEF Begun
    <3> HIDE DEF x, es
    <3> QED BY <2>6, <3>1 DEF NewRun
  <2> HIDE DEF x
  <2>8. run' = [r \in Runs |-> run'[r]] /\ run'[c] = {x} /\ \A r \in Runs : r # c => run'[r] = run[r]
    BY <2>1, <2>2
  <2>9. \A r \in Runs : run'[r] = run[r] \/ NewRun(call', r, run'[r])
    BY <2>7, <2>8
  <2>10. PageShowsTrace'
    BY <1>1 DEF RunsInv, PageShowsTrace
  <2> QED BY <1>1, <2>2, <2>5, <2>8, <2>9, <2>10, Keeps
<1> QED BY <1>2, <1>3
(* A topology is stored for a call that has recorded its run.               *)
LEMMA Collected ==
  ASSUME RunsInv, NEW c \in Calls, collectTraceTopology(c), UNCHANGED <<call, run, save, page>>
  PROVE  RunsInv'
<1>1. Begun(call, c)
  BY DEF collectTraceTopology, RunsInv, EntriesInv
<1>2. TopologyOK(call, Topology(c, StepOf(c), c, c))
  BY <1>1 DEF TopologyOK, Topology, StepOf
<1>3. \A t \in topo' : t \in topo \/ TopologyOK(call, t)
  BY <1>2 DEF collectTraceTopology
<1>4. PageShowsTrace'
  BY DEF RunsInv, PageShowsTrace
<1> QED BY <1>3, <1>4, CallsStay, Keeps

LEMMA StepCollect ==
  ASSUME RunsInv, NEW c \in Calls,
         \/ Index(c) \/ collectTraceTopologyWithRetry(c) \/ CollectCancelled(c)
         \/ recordTestKitTraceTopologyTask(c) \/ CollectTraceTopologyPayload(c)
  PROVE  RunsInv'
<1>1. CASE Index(c) \/ CollectCancelled(c)
  BY <1>1, StepQuiet DEF Index, CollectCancelled, rows
<1>2. CASE collectTraceTopologyWithRetry(c)
  BY <1>2, Collected, StepQuiet DEF collectTraceTopologyWithRetry
<1>3. CASE CollectTraceTopologyPayload(c)
  <2>1. UNCHANGED <<call, run, save, page>> /\ (collectTraceTopology(c) \/ UNCHANGED topo)
    BY <1>3 DEF CollectTraceTopologyPayload
  <2> QED BY <2>1, Collected, StepQuiet
<1>4. CASE recordTestKitTraceTopologyTask(c)
  <2>1. UNCHANGED <<run, save, topo, page>>
    BY <1>4 DEF recordTestKitTraceTopologyTask
  <2>2. call \in [Calls -> CallType] /\ call[c] \in CallType
    BY DEF RunsInv, RunsTypes
  <2>3. CASE call[c].pc = "waiting"
    <3>1. call' = [call EXCEPT ![c].pc = "answered"]
      BY <1>4, <2>3 DEF recordTestKitTraceTopologyTask
    <3> QED BY <2>1, <2>3, <3>1, CallGoesOn DEF Begun
  <2>4. CASE call[c].pc # "waiting"
    <3>1. call' = [call EXCEPT ![c].pc = call[c].pc]
      BY <1>4, <2>4 DEF recordTestKitTraceTopologyTask
    <3>2. [call[c] EXCEPT !.pc = call[c].pc] = call[c]
      BY <2>2 DEF CallType
    <3>3. call' = call
      BY <2>2, <3>1, <3>2
    <3> QED BY <2>1, <3>3, StepQuiet
  <2> QED BY <2>3, <2>4
<1> QED BY <1>1, <1>2, <1>3, <1>4

-----------------------------------------------------------------------------
(* Workflow runs: saving one                                                *)

LEMMA ResultIsOK ==
  ASSUME RunsInv, NEW c \in Answered
  PROVE  EntryOK(call, ResultOf(c))
<1>1. c \in Calls /\ Begun(call, c)
  BY DEF Answered, Begun
<1> QED BY <1>1 DEF ResultOf, Entry, EntryOK

LEMMA PayloadIsOK ==
  ASSUME RunsInv, NEW w \in Saves, NEW es \in Payloads
  PROVE  StepsOK(call, w, es)
<1>1. w \notin Calls
  BY RunsAssumption
<1>2. CASE \E c \in Answered : es = <<ResultOf(c)>>
  <2>1. PICK e : es = <<e>> /\ EntryOK(call, e)
    BY <1>2, ResultIsOK
  <2>2. DOMAIN es = 1..1 /\ es[1] = e
    BY <2>1
  <2> QED BY <1>1, <2>1, <2>2 DEF StepsOK
<1>3. CASE \E p \in Answered \X Answered : es = <<ResultOf(p[1]), ResultOf(p[2])>>
  <2>1. PICK p \in Answered \X Answered : es = <<ResultOf(p[1]), ResultOf(p[2])>>
    BY <1>3
  <2>2. p[1] \in Answered /\ p[2] \in Answered
    BY <2>1
  <2>3. PICK d, e : es = <<d, e>> /\ EntryOK(call, d) /\ EntryOK(call, e)
    BY <2>1, <2>2, ResultIsOK
  <2>4. DOMAIN es = 1..2 /\ es[1] = d /\ es[2] = e
    BY <2>3
  <2>5. \A i \in 1..2 : i = 1 \/ i = 2
    OBVIOUS
  <2> QED BY <1>1, <2>3, <2>4, <2>5 DEF StepsOK
<1> QED BY <1>2, <1>3 DEF Payloads

LEMMA StepSaveRun ==
  ASSUME RunsInv, NEW w \in Saves, NEW es \in Payloads, SaveRun(w, es)
  PROVE  RunsInv'
<1> DEFINE x == [kind |-> "workflow", status |-> workflowRunStatus(es), steps |-> es]
           v == [pc |-> "cases", steps |-> es]
<1>1. run' = [run EXCEPT ![w] = {x}] /\ save' = [save EXCEPT ![w] = v]
      /\ UNCHANGED <<call, topo, page>>
  BY DEF SaveRun, RunRow
<1>2. call' \in [Calls -> CallType] /\ SameCalls
      /\ run = [r \in Runs |-> run[r]] /\ save = [u \in Saves |-> save[u]]
  BY <1>1, CallsStay
<1>3. w \in Runs /\ w \notin Calls
  BY RunsAssumption DEF Runs
<1>4. StepsOK(call', w, es)
  BY <1>1, PayloadIsOK
<1>5. x.steps = es /\ v.steps = es /\ v = [pc |-> v.pc, steps |-> v.steps]
  OBVIOUS
<1> HIDE DEF x, v
<1>6. NewRun(call', w, {x})
  BY <1>3, <1>4, <1>5 DEF NewRun
<1>7. /\ run' = [r \in Runs |-> run'[r]] /\ run'[w] = {x} /\ \A r \in Runs : r # w => run'[r] = run[r]
      /\ save' = [u \in Saves |-> save'[u]] /\ save'[w] = v
      /\ \A u \in Saves : u # w => save'[u] = save[u]
  BY <1>1, <1>2, <1>3
<1>8. \A r \in Runs : run'[r] = run[r] \/ NewRun(call', r, run'[r])
  BY <1>6, <1>7
<1>9. ASSUME NEW u \in Saves
      PROVE  \/ save'[u] = save[u]
             \/ save'[u] = [pc |-> save'[u].pc, steps |-> save'[u].steps]
                /\ StepsOK(call', u, save'[u].steps)
  BY <1>4, <1>5, <1>7
<1>10. PageShowsTrace'
  BY <1>1 DEF RunsInv, PageShowsTrace
<1> QED BY <1>1, <1>2, <1>7, <1>8, <1>9, <1>10, Keeps

(* The next statement of a save, which copies topologies to its own run.    *)
LEMMA SaveGoesOn ==
  ASSUME RunsInv, NEW w \in Saves, save[w].pc # "idle", NEW pc,
         save' = [save EXCEPT ![w].pc = pc], UNCHANGED <<call, run, page>>,
         \A t \in topo' : t \in topo \/ t.run = w
  PROVE  RunsInv'
<1>1. call' \in [Calls -> CallType] /\ SameCalls
      /\ run = [r \in Runs |-> run[r]] /\ save = [u \in Saves |-> save[u]]
  BY CallsStay
<1>2. save[w] = [pc |-> save[w].pc, steps |-> save[w].steps] /\ StepsOK(call, w, save[w].steps)
  BY DEF RunsInv, RunsTypes, EntriesInv
<1> DEFINE v == [pc |-> pc, steps |-> save[w].steps]
<1>3. [save[w] EXCEPT !.pc = pc] = v
  BY <1>2
<1>4. save' = [u \in Saves |-> save'[u]] /\ save'[w] = v /\ \A u \in Saves : u # w => save'[u] = save[u]
  BY <1>1, <1>3
<1>5. v.steps = save[w].steps /\ v = [pc |-> v.pc, steps |-> v.steps]
  OBVIOUS
<1> HIDE DEF v
<1>6. ASSUME NEW u \in Saves
      PROVE  \/ save'[u] = save[u]
             \/ save'[u] = [pc |-> save'[u].pc, steps |-> save'[u].steps]
                /\ StepsOK(call', u, save'[u].steps)
  BY <1>2, <1>4, <1>5
<1>7. \A t \in topo' : t \in topo \/ TopologyOK(call', t)
  BY RunsAssumption DEF TopologyOK
<1>8. PageShowsTrace'
  BY DEF RunsInv, PageShowsTrace
<1> QED BY <1>1, <1>4, <1>6, <1>7, <1>8, Keeps

LEMMA CopiesAreTheRuns ==
  ASSUME NEW r, NEW e, NEW t \in copyWorkflowStepTraceTopologiesFromSources(r, e)
  PROVE  t.run = r
BY DEF copyWorkflowStepTraceTopologiesFromSources

LEMMA StepSave ==
  ASSUME RunsInv, NEW w \in Saves,
         \/ recordWorkflowRunStepCases(w) \/ copyWorkflowRunStepEvidence(w)
         \/ copyWorkflowRunStepTraceTopologies(w) \/ copyWorkflowRunStepPostProcessTasks(w)
         \/ SaveFails(w)
  PROVE  RunsInv'
<1>1. save[w].pc # "idle" /\ UNCHANGED <<call, run, page>>
  BY DEF recordWorkflowRunStepCases, copyWorkflowRunStepEvidence,
         copyWorkflowRunStepTraceTopologies, copyWorkflowRunStepPostProcessTasks, SaveFails, rows
<1>2. \E pc : save' = [save EXCEPT ![w].pc = pc]
  BY DEF recordWorkflowRunStepCases, copyWorkflowRunStepEvidence,
         copyWorkflowRunStepTraceTopologies, copyWorkflowRunStepPostProcessTasks, SaveFails
<1>3. \A t \in topo' : t \in topo \/ t.run = w
  BY CopiesAreTheRuns
     DEF recordWorkflowRunStepCases, copyWorkflowRunStepEvidence,
         copyWorkflowRunStepTraceTopologies, copyWorkflowRunStepPostProcessTasks, SaveFails, rows
<1> QED BY <1>1, <1>2, <1>3, SaveGoesOn

-----------------------------------------------------------------------------
(* Workflow runs: reading a page                                            *)

LEMMA StepReadTopologies ==
  ASSUME RunsInv, NEW r \in Runs, NEW s, ReadTopologies(r, s)
  PROVE  RunsInv'
<1> DEFINE shown == workflowRunTraceTopologiesOrCopy(r, s)
           e == workflowRunStep(r, s)
<1>1. HasStep(r, s) /\ topo' = topo \cup shown /\ UNCHANGED <<call, run, save>>
      /\ page' = [run |-> r, step |-> {s}, topo |-> {t.trace : t \in shown},
                  before |-> {t.trace : t \in {x \in topo : x.run \in e.src}}]
  BY DEF ReadTopologies
<1>2. r \in Calls => e.src = {} /\ e.trace = {}
  BY <1>1, PageEntry
<1>3. ASSUME NEW t \in shown PROVE t \in topo \/ TopologyOK(call, t)
  <2>1. t \in topo \/ t \in copyWorkflowStepTraceTopologiesFromSources(r, e)
    BY <1>3 DEF workflowRunTraceTopologiesOrCopy
  <2>2. ASSUME t \in copyWorkflowStepTraceTopologiesFromSources(r, e), r \in Calls PROVE FALSE
    BY <1>2, <2>2 DEF copyWorkflowStepTraceTopologiesFromSources, workflowStepSources
  <2>3. t \in copyWorkflowStepTraceTopologiesFromSources(r, e) => t.run = r
    BY CopiesAreTheRuns
  <2> QED BY <2>1, <2>2, <2>3 DEF TopologyOK
<1>4. (\E x \in topo : x.run \in e.src) => shown # {}
  BY <1>1, PageShows
<1>5. PageShowsTrace'
  <2>1. page'.before = {t.trace : t \in {x \in topo : x.run \in e.src}}
        /\ page'.topo = {t.trace : t \in shown}
    BY <1>1
  <2> HIDE DEF shown, e
  <2> QED BY <1>4, <2>1 DEF PageShowsTrace
<1>6. \A t \in topo' : t \in topo \/ TopologyOK(call', t)
  BY <1>1, <1>3
<1> QED BY <1>1, <1>5, <1>6, CallsStay, Keeps

LEMMA StepRead ==
  ASSUME RunsInv, handleWorkflowStepRun \/ handleLatestWorkflowStepRun \/ ReadTasks
  PROVE  RunsInv'
<1>1. CASE handleWorkflowStepRun
  BY <1>1, StepReadTopologies DEF handleWorkflowStepRun, Runs
<1>2. CASE handleLatestWorkflowStepRun
  <2>1. PICK s \in Steps : \E r \in LatestWorkflowStepRun(s) : ReadTopologies(r, s)
    BY <1>2 DEF handleLatestWorkflowStepRun
  <2>2. LatestWorkflowStepRun(s) \subseteq Runs
    BY DEF LatestWorkflowStepRun
  <2> QED BY <2>1, <2>2, StepReadTopologies
<1>3. CASE ReadTasks
  <2>1. page' = NoPage /\ UNCHANGED <<call, run, save, topo>>
    BY <1>3 DEF ReadTasks
  <2>2. PageShowsTrace'
    BY <2>1 DEF NoPage, PageShowsTrace
  <2> QED BY <2>1, <2>2, CallsStay, Keeps
<1> QED BY <1>1, <1>2, <1>3

LEMMA RunsStep == RunsInv /\ [RunsNext]_runsVars => RunsInv'
<1> SUFFICES ASSUME RunsInv, [RunsNext]_runsVars PROVE RunsInv'
  OBVIOUS
<1>1. CASE UNCHANGED runsVars
  BY <1>1, StepQuiet DEF runsVars
<1>2. ASSUME NEW c \in Calls,
             \/ \E q \in Requests : q[1] = c /\ Begin(c, q[2], q[3])
             \/ testKitCaseResult(c) \/ CreateCaseRun(c) \/ RecordAPICaseRun(c)
             \/ recordAPICaseEvidenceRecords(c) \/ RecordFails(c) \/ StartTrace(c) \/ Index(c)
             \/ collectTraceTopologyWithRetry(c) \/ CollectCancelled(c)
             \/ recordTestKitTraceTopologyTask(c) \/ CollectTraceTopologyPayload(c)
      PROVE  RunsInv'
  BY <1>2, StepBegin, StepResult, StepCreateCaseRun, StepRecording, StepCollect
<1>3. ASSUME NEW w \in Saves,
             \/ \E es \in Payloads : SaveRun(w, es)
             \/ recordWorkflowRunStepCases(w) \/ copyWorkflowRunStepEvidence(w)
             \/ copyWorkflowRunStepTraceTopologies(w) \/ copyWorkflowRunStepPostProcessTasks(w)
             \/ SaveFails(w)
      PROVE  RunsInv'
  BY <1>3, StepSaveRun, StepSave
<1>4. CASE handleWorkflowStepRun \/ handleLatestWorkflowStepRun \/ ReadTasks
  BY <1>4, StepRead
<1> QED BY <1>1, <1>2, <1>3, <1>4 DEF RunsNext

(* Whatever a collection stored and a saved entry names is about one step:  *)
(* that of the call behind both.                                            *)
THEOREM RunsInvariant == RunsSpec => []RunsInv
<1>1. RunsInit => RunsInv
  BY RunsStart
<1>2. RunsInv /\ [RunsNext]_runsVars => RunsInv'
  BY RunsStep
<1> QED BY <1>1, <1>2, PTL DEF RunsSpec

(* A page opened after the collection for its step had stored a topology    *)
(* shows one, wherever the save stood or stopped.                           *)
THEOREM PagesShowTraces == RunsSpec => []PageShowsTrace
<1>1. RunsInv => PageShowsTrace
  BY DEF RunsInv
<1> QED BY <1>1, RunsInvariant, PTL

-----------------------------------------------------------------------------
(* Assistant sessions: the inductive invariant                              *)

Cited == UNION {AllReferences(g) : g \in Maps}
Selections == Focuses \cup {Everything}
RowType ==
  [rev : Nat, status : Ended \cup {"idle", "running"}, fp : SUBSET Maps,
   receipts : SUBSET Cited, focus : Selections, profile : {g.profile : g \in Maps}]
RequestType ==
  [id : Sessions, rev : Nat, status : Ended \cup {"running"}, receipts : SUBSET Cited,
   focus : Selections, begins : BOOLEAN, fp : SUBSET Maps,
   step : {"sent", "read", "ready", "ok", "refused"}]
JobType ==
  [pc : {"open", "mark", "opened", "begin", "active", "closing", "saving"}, id : Sessions,
   focus : Focuses, rev : Nat, queue : Seq({"event"} \cup Tools), cancelled : BOOLEAN,
   status : Ended \cup {"running"}, receipts : SUBSET Cited]
WorkerType ==
  [state : {"none", "thinking", "waiting"}, calls : Nat, refs : SUBSET Cited, read : BOOLEAN]

AtMostOne(S, T) == S = {} \/ \E x \in S : S = {x} /\ x \in T

SessionTypes ==
  /\ graph \in Maps
  /\ row = [s \in Sessions |-> row[s]] /\ \A s \in Sessions : AtMostOne(row[s], RowType)
  /\ put = [w \in Writers |-> put[w]] /\ \A w \in Writers : AtMostOne(put[w], RequestType)
  /\ job = NoJob \/ job \in JobType
  /\ worker \in WorkerType
  /\ AtMostOne(view, [id : Sessions, seen : RowType])
  /\ \A t \in tool : t = [action |-> t.action, args |-> t.args, seen |-> t.seen] /\ t.action \in Tools
                     /\ AtMostOne(t.seen, RowType)

(* What a request knows of the row r it is about: nothing newer than r; and *)
(* as long as r is what its handler has read, whether it begins an          *)
(* analysis and, if not, r's fingerprint.                                   *)
RequestOK(p, r) ==
  /\ p.rev <= r.rev
  /\ p.begins => p.status = "running"
  /\ p.step \in {"read", "ready"} /\ p.rev = r.rev =>
       IF p.status = "running" /\ r.status # "running" THEN p.begins
       ELSE ~p.begins /\ p.fp = r.fp
  /\ p.step = "ready" /\ p.begins => \E g \in Maps : p.fp = {g}
  /\ p.step = "ok" => p.rev < r.rev /\ (r.rev = p.rev + 1 => r.status = p.status)

Active == {"active", "closing", "saving"}

(* What an analysis under way holds was read from the one map its row       *)
(* names.                                                                   *)
FromOneMap(j, refs, r) ==
  \E g \in Maps :
    /\ r.fp = {g}
    /\ refs \subseteq AllReferences(g)
    /\ j.status = "completed" => j.receipts \subseteq AllReferences(g)

(* A job and the row r of its session: a row of the revision the job knows  *)
(* has not begun before the job begins it, and is running from then on.     *)
JobOK(j, refs, r) ==
  /\ j.rev <= r.rev
  /\ j.pc \in {"opened", "begin"} /\ r.rev = j.rev => r.status # "running"
  /\ IF j.pc \in {"closing", "saving"} THEN j.status \in Ended ELSE j.status = "running"
  /\ j.pc \in Active => (r.rev = j.rev => r.status = "running") /\ FromOneMap(j, refs, r)

(* The owner's request p is the job's.                                      *)
OwnerOK(j, p) ==
  /\ j.pc \in {"mark", "begin"} \cup Active
  /\ p.id = j.id /\ p.rev = j.rev
  /\ j.pc = "mark" => p.status = "interrupted"
  /\ j.pc \in {"begin", "active", "closing"} => p.status = "running"
  /\ j.pc = "saving" =>
       p.status # "running" /\ (p.status = "completed" => j.status = "completed" /\ p.receipts = j.receipts)

(* The request that begins an analysis leaves a map in the row.             *)
BegunOK(j, p, r) == j.pc = "begin" /\ p.step = "ok" => \E g \in Maps : r.fp = {g}

CompletedOK(r) == r.status = "completed" => \E g \in r.fp : r.receipts \subseteq AllReferences(g)

RowsInv == \A s \in Sessions : \A r \in row[s] : CompletedOK(r)
RequestsInv == \A w \in Writers : \A p \in put[w] : \E r \in row[p.id] : RequestOK(p, r)
ViewInv ==
  /\ \A p \in put["viewer"] : p.status = "interrupted"
  /\ \A v \in view : \E r \in row[v.id] : v.seen.rev <= r.rev
JobInv ==
  /\ job.pc = "open" => job.status = "running"
  /\ job.pc \notin {"none", "open"} => \E r \in row[job.id] : JobOK(job, worker.refs, r)
  /\ \A p \in put["owner"] : OwnerOK(job, p) /\ \A r \in row[p.id] : BegunOK(job, p, r)
ToolInv ==
  \A t \in tool :
    /\ job.pc \in {"active", "closing"}
    /\ job.queue # <<>> /\ Head(job.queue) = t.action
    /\ \A x \in t.seen : \A r \in row[job.id] : x.fp = r.fp

SessionInv == SessionTypes /\ RowsInv /\ RequestsInv /\ ViewInv /\ JobInv /\ ToolInv

-----------------------------------------------------------------------------
(* Assistant sessions: lemmas                                               *)

(* What a tool shows of a map is of the map, or of a run of its cases.      *)
LEMMA RunsShownAreOfTheMap ==
  ASSUME NEW g \in Maps, NEW f, NEW run0, NEW detail
  PROVE  assistantCaseEvidence(g, f, run0, detail) \subseteq AllReferences(g)
<1> DEFINE nodes == {n \in g.nodes :
             /\ f.node \in {"", n.id}
             /\ f.path = "" \/ {n.id, n.anchor} \cap FocusNodes(g, f) # {}}
           shown == {r \in CaseRuns : r.profile = g.profile /\ r.case \in CasesOf(nodes) /\ run0 \in {"", r.id}}
<1>1. CasesOf(nodes) \subseteq CasesOf(g.nodes)
  BY DEF CasesOf
<1>2. shown \subseteq RunsOf(g)
  BY <1>1 DEF RunsOf
<1>3. assistantCaseEvidence(g, f, run0, detail)
        = References("run", {r.id : r \in shown}) \cup References("ran", {r.node : r \in shown} \ {""})
            \cup References("evidence", IF detail THEN UNION {r.evidence : r \in shown} ELSE {})
  BY DEF assistantCaseEvidence
<1> HIDE DEF shown
<1>4. References("run", {r.id : r \in shown}) \subseteq References("run", {r.id : r \in RunsOf(g)})
  BY <1>2 DEF References
<1>5. References("ran", {r.node : r \in shown} \ {""}) \subseteq References("ran", {r.node : r \in RunsOf(g)} \ {""})
  BY <1>2 DEF References
<1>6. References("evidence", IF detail THEN UNION {r.evidence : r \in shown} ELSE {})
        \subseteq References("evidence", UNION {r.evidence : r \in RunsOf(g)})
  BY <1>2 DEF References
<1> QED BY <1>3, <1>4, <1>5, <1>6, Zenon DEF AllReferences

LEMMA ToolDataIsCited ==
  ASSUME NEW g \in Maps, NEW f, NEW a \in Tools, NEW args
  PROVE  ToolData(a, g, f, args) \subseteq AllReferences(g)
<1>1. assistantMapContext(g, f, args.query)
        \subseteq References("node", NodeIds(g)) \cup References("path", DOMAIN g.paths)
  BY DEF assistantMapContext, References, NodeIds
<1>2. assistantMapContext(g, f, args.query) \subseteq AllReferences(g)
  BY <1>1, Zenon DEF AllReferences
<1>3. PlanPreview(g) \subseteq AllReferences(g)
  BY Zenon DEF PlanPreview, AllReferences
<1>4. a \in {"map.read", "runs.list", "evidence.read", "plan.explain", "node.explain"}
  BY SessionAssumption
<1> QED BY <1>2, <1>3, <1>4, RunsShownAreOfTheMap DEF ToolData

LEMMA ChangedRequest ==
  ASSUME NEW p \in RequestType, NEW b \in BOOLEAN, NEW fp \in SUBSET Maps,
         NEW st \in {"sent", "read", "ready", "ok", "refused"}
  PROVE  /\ [p EXCEPT !.step = st] \in RequestType
         /\ [p EXCEPT !.step = st, !.fp = fp] \in RequestType
         /\ [p EXCEPT !.step = st, !.begins = b, !.fp = fp] \in RequestType
BY DEF RequestType

-----------------------------------------------------------------------------
LEMMA SessionStart == SessionInit => SessionInv
<1> SUFFICES ASSUME SessionInit PROVE SessionInv
  OBVIOUS
<1>1. NoWorker \in WorkerType
  BY DEF NoWorker, WorkerType
<1>2. ASSUME NEW g \in Maps PROVE Killed(g) \in RowType /\ CompletedOK(Killed(g))
  BY DEF Killed, RowType, Selections, CompletedOK
<1>3. \A s \in Sessions : row[s] = {} \/ \E g \in Maps : row[s] = {Killed(g)}
  BY DEF SessionInit
<1>4. row = [s \in Sessions |-> row[s]]
  BY DEF SessionInit
<1>5. \A s \in Sessions : AtMostOne(row[s], RowType)
  BY <1>2, <1>3 DEF AtMostOne
<1>6. put = [w \in Writers |-> {}] /\ job = NoJob /\ view = {} /\ tool = {}
  BY DEF SessionInit, NoPut
<1>7. SessionTypes
  BY <1>1, <1>4, <1>5, <1>6 DEF SessionTypes, SessionInit, AtMostOne
<1>8. RowsInv
  BY <1>2, <1>3 DEF RowsInv
<1>9. job.pc = "none"
  BY <1>6 DEF NoJob
<1> QED BY <1>6, <1>7, <1>8, <1>9 DEF SessionInv, RequestsInv, ViewInv, JobInv, ToolInv, Writers

(* Without an analysis under way there is no request of its owner.          *)
LEMMA Quiet ==
  ASSUME SessionInv
  PROVE  /\ job.pc \notin {"mark", "begin"} \cup Active => put["owner"] = {}
         /\ job.pc \notin {"active", "closing"} => tool = {}
BY DEF SessionInv, JobInv, ToolInv, OwnerOK, Active

(* An analysis has a session with a row from its begin on.                  *)
LEMMA RowOfJob ==
  ASSUME SessionInv, job.pc \notin {"none", "open"}
  PROVE  /\ job \in JobType /\ job.id \in Sessions
         /\ \E r \in RowType : row[job.id] = {r} /\ JobOK(job, worker.refs, r)
<1>1. job \in JobType
  BY DEF SessionInv, SessionTypes, NoJob
<1>2. job.id \in Sessions
  BY <1>1 DEF JobType
<1>3. PICK r \in row[job.id] : JobOK(job, worker.refs, r)
  BY DEF SessionInv, JobInv
<1>4. AtMostOne(row[job.id], RowType)
  BY <1>2 DEF SessionInv, SessionTypes
<1>5. row[job.id] = {r} /\ r \in RowType
  BY <1>3, <1>4 DEF AtMostOne
<1> QED BY <1>1, <1>2, <1>3, <1>5

(* A writer's request, and the row it is about.                             *)
LEMMA RowOfRequest ==
  ASSUME SessionInv, NEW w \in Writers, put[w] # {}
  PROVE  /\ put[w] = {Request(w)} /\ Request(w) \in RequestType /\ Request(w).id \in Sessions
         /\ TheRow(Request(w).id) \in RowType
         /\ row[Request(w).id] = {TheRow(Request(w).id)}
         /\ RequestOK(Request(w), TheRow(Request(w).id))
<1>1. AtMostOne(put[w], RequestType)
  BY DEF SessionInv, SessionTypes
<1>2. PICK p : put[w] = {p} /\ p \in RequestType
  BY <1>1 DEF AtMostOne
<1>3. Request(w) = p
  BY <1>2 DEF Request
<1>4. p.id \in Sessions
  BY <1>2 DEF RequestType
<1>5. PICK r \in row[p.id] : RequestOK(p, r)
  BY <1>2 DEF SessionInv, RequestsInv
<1>6. AtMostOne(row[p.id], RowType)
  BY <1>4 DEF SessionInv, SessionTypes
<1>7. row[p.id] = {r} /\ r \in RowType
  BY <1>5, <1>6 DEF AtMostOne
<1>8. TheRow(p.id) = r
  BY <1>7 DEF TheRow
<1> QED BY <1>2, <1>3, <1>4, <1>5, <1>7, <1>8

(* The request persist sends.                                               *)
NewRequest(s, n, status, receipts, focus) ==
  [id |-> s, rev |-> n, status |-> status, receipts |-> receipts, focus |-> focus,
   begins |-> FALSE, fp |-> {}, step |-> "sent"]

LEMMA NewRequestIsOK ==
  ASSUME NEW s \in Sessions, NEW n \in Nat, NEW status \in Ended \cup {"running"},
         NEW receipts \in SUBSET Cited, NEW focus \in Selections, NEW r, n <= r.rev
  PROVE  /\ NewRequest(s, n, status, receipts, focus) \in RequestType
         /\ RequestOK(NewRequest(s, n, status, receipts, focus), r)
<1>1. NewRequest(s, n, status, receipts, focus) \in RequestType
  BY DEF NewRequest, RequestType
<1> QED BY <1>1 DEF NewRequest, RequestOK

LEMMA Persisted ==
  ASSUME NEW w, NEW s, NEW n, NEW status, NEW receipts, NEW focus,
         persist(w, s, n, status, receipts, focus)
  PROVE  put[w] = {} /\ put' = [put EXCEPT ![w] = {NewRequest(s, n, status, receipts, focus)}]
BY DEF persist, NewRequest

(* Only writer w's request has changed.                                     *)
LEMMA OneRequest ==
  ASSUME SessionInv, NEW w \in Writers, row' = row, NEW S, put' = [put EXCEPT ![w] = S],
         AtMostOne(S, RequestType), \A p \in S : \E r \in row[p.id] : RequestOK(p, r)
  PROVE  /\ put' = [v \in Writers |-> put'[v]] /\ put'[w] = S
         /\ \A v \in Writers : v # w => put'[v] = put[v]
         /\ RequestsInv'
         /\ \A v \in Writers : AtMostOne(put'[v], RequestType)
<1>1. put = [v \in Writers |-> put[v]]
  BY DEF SessionInv, SessionTypes
<1>2. /\ put' = [v \in Writers |-> put'[v]] /\ put'[w] = S
      /\ \A v \in Writers : v # w => put'[v] = put[v]
  BY <1>1
<1>3. \A v \in Writers : AtMostOne(put[v], RequestType) /\ \A p \in put[v] : \E r \in row[p.id] : RequestOK(p, r)
  BY DEF SessionInv, SessionTypes, RequestsInv
<1> QED BY <1>2, <1>3 DEF RequestsInv

-----------------------------------------------------------------------------
(* Assistant sessions: the analysis, the rows and the requests staying      *)

(* The job moves on within an analysis, and its requests stay its own.      *)
LEMMA JobMoves ==
  ASSUME SessionInv, job.pc \in Active, job' \in JobType, worker' \in WorkerType,
         UNCHANGED <<graph, row, put, view>>,
         job'.pc \in Active, job'.pc = "saving" => job.pc = "saving",
         job.pc = "saving" => job' = job,
         job'.id = job.id, job'.rev = job.rev, 
         IF job'.pc = "active" THEN job'.status = job.status /\ job.pc = "active" ELSE job'.status \in Ended,
         \A g \in Maps : worker.refs \subseteq AllReferences(g) /\ row[job.id] # {}
           /\ (\A r \in row[job.id] : r.fp = {g}) =>
           worker'.refs \subseteq AllReferences(g),
         job'.status = "completed" =>
           \/ job.status = "completed" /\ job'.receipts = job.receipts
           \/ job'.receipts \subseteq worker.refs
  PROVE  RowsInv' /\ RequestsInv' /\ ViewInv' /\ JobInv'
<1>1. PICK r \in RowType : row[job.id] = {r} /\ JobOK(job, worker.refs, r)
  BY RowOfJob DEF Active
<1>2. PICK g \in Maps : /\ r.fp = {g} /\ worker.refs \subseteq AllReferences(g)
                        /\ job.status = "completed" => job.receipts \subseteq AllReferences(g)
  BY <1>1 DEF JobOK, FromOneMap
<1>3. worker'.refs \subseteq AllReferences(g)
  BY <1>1, <1>2
<1>4. FromOneMap(job', worker'.refs, r)
  BY <1>2, <1>3 DEF FromOneMap
<1>5. JobOK(job', worker'.refs, r)
  BY <1>1, <1>4 DEF JobOK, Active
<1>6. ASSUME NEW p \in put["owner"] PROVE OwnerOK(job', p)
  <2>1. OwnerOK(job, p)
    BY <1>6 DEF SessionInv, JobInv
  <2> QED BY <2>1 DEF OwnerOK, Active
<1>7. JobInv'
  BY <1>1, <1>5, <1>6 DEF JobInv, BegunOK, Active
<1> QED BY <1>7 DEF SessionInv, RowsInv, RequestsInv, ViewInv

LEMMA Finished ==
  ASSUME SessionInv, job.pc = "active", NEW status \in Ended, NEW receipts \in SUBSET Cited,
         status = "completed" => receipts \subseteq worker.refs,
         finish(status, receipts), UNCHANGED <<graph, row, put, tool, view>>
  PROVE  SessionInv'
<1>1. job \in JobType /\ job.id \in Sessions
  BY RowOfJob
<1>2. job' \in JobType /\ job'.pc = "closing" /\ job'.id = job.id /\ job'.rev = job.rev
      /\ job'.status = status /\ job'.receipts = receipts /\ job'.queue = job.queue
  BY <1>1 DEF finish, JobType
<1>3. worker' \in WorkerType /\ worker'.refs = {}
  BY DEF finish, NoWorker, WorkerType
<1>4. RowsInv' /\ RequestsInv' /\ ViewInv' /\ JobInv'
  BY <1>2, <1>3, JobMoves DEF Active
<1>5. ToolInv'
  BY <1>2 DEF SessionInv, ToolInv
<1>6. SessionTypes'
  BY <1>2, <1>3 DEF SessionInv, SessionTypes
<1> QED BY <1>4, <1>5, <1>6 DEF SessionInv

LEMMA StepWorkerEnds ==
  ASSUME SessionInv, WorkerDone \/ WorkerError \/ WorkerExit \/ TimerFires
  PROVE  SessionInv'
<1>1. worker.refs \in SUBSET Cited
  BY DEF SessionInv, SessionTypes, WorkerType
<1>2. {} \in SUBSET Cited
  OBVIOUS
<1>3. {"completed", "failed", "interrupted"} \subseteq Ended
  BY DEF Ended
<1>4. CASE WorkerDone
  BY <1>1, <1>3, <1>4, Finished DEF WorkerDone
<1>5. CASE WorkerError
  BY <1>2, <1>3, <1>5, Finished DEF WorkerError
<1>6. CASE WorkerExit
  BY <1>2, <1>3, <1>6, Finished DEF WorkerExit
<1>7. CASE TimerFires
  BY <1>2, <1>3, <1>7, Finished DEF TimerFires
<1> QED BY <1>4, <1>5, <1>6, <1>7

LEMMA StepCancel ==
  ASSUME SessionInv, cancel
  PROVE  SessionInv'
<1>1. job \in JobType /\ job.id \in Sessions
  BY RowOfJob DEF cancel
<1>2. job' \in JobType /\ job'.pc = "closing" /\ job'.id = job.id /\ job'.rev = job.rev
      /\ job'.receipts = job.receipts /\ job'.queue = job.queue
      /\ (job'.status = "completed" => job.status = "completed") /\ job'.status \in Ended
  <2>1. job.pc = "closing" => job.status \in Ended
    BY RowOfJob DEF JobOK
  <2> QED BY <1>1, <2>1 DEF cancel, JobType, Ended
<1>3. worker' \in WorkerType /\ (worker'.refs = {} \/ worker' = worker)
  <2>1. NoWorker \in WorkerType /\ NoWorker.refs = {}
    BY DEF NoWorker, WorkerType
  <2>2. worker' \in {worker, NoWorker}
    BY DEF cancel
  <2> QED BY <2>1, <2>2 DEF SessionInv, SessionTypes
<1>4. UNCHANGED <<graph, row, put, tool, view>> /\ job.pc \in {"active", "closing"}
  BY DEF cancel
<1>5. RowsInv' /\ RequestsInv' /\ ViewInv' /\ JobInv'
  BY <1>2, <1>3, <1>4, JobMoves DEF Active
<1>6. ToolInv'
  BY <1>2, <1>4 DEF SessionInv, ToolInv
<1>7. SessionTypes'
  BY <1>2, <1>3, <1>4 DEF SessionInv, SessionTypes
<1> QED BY <1>5, <1>6, <1>7 DEF SessionInv

LEMMA StepCallTool ==
  ASSUME SessionInv, NEW a \in Tools, CallTool(a)
  PROVE  SessionInv'
<1>1. job \in JobType /\ job.id \in Sessions
  BY RowOfJob DEF CallTool
<1>2. <<"event", a>> \in Seq({"event"} \cup Tools) /\ job.queue \in Seq({"event"} \cup Tools)
  BY <1>1 DEF JobType
<1>3. job.queue \o <<"event", a>> \in Seq({"event"} \cup Tools)
  BY <1>2
<1>4. job' \in JobType /\ job'.pc = job.pc /\ job'.id = job.id /\ job'.rev = job.rev
      /\ job'.receipts = job.receipts /\ job'.status = job.status
      /\ job'.queue = job.queue \o <<"event", a>>
  BY <1>1, <1>3 DEF CallTool, JobType
<1>5. worker' \in WorkerType /\ worker'.refs = worker.refs
  <2>1. worker \in WorkerType /\ worker' = [worker EXCEPT !.state = "waiting", !.calls = @ + 1]
    BY DEF CallTool, SessionInv, SessionTypes
  <2>2. worker.calls + 1 \in Nat
    BY <2>1 DEF WorkerType
  <2> QED BY <2>1, <2>2 DEF WorkerType
<1>6. UNCHANGED <<graph, row, put, tool, view>> /\ job.pc = "active"
  BY DEF CallTool
<1>7. RowsInv' /\ RequestsInv' /\ ViewInv' /\ JobInv'
  BY <1>4, <1>5, <1>6, JobMoves DEF Active
<1>8. ToolInv'
  <2>1. job.queue # <<>> => Head(job'.queue) = Head(job.queue) /\ job'.queue # <<>>
    BY <1>2, <1>4
  <2> QED BY <1>4, <1>6, <2>1 DEF SessionInv, ToolInv
<1>9. SessionTypes'
  BY <1>4, <1>5, <1>6 DEF SessionInv, SessionTypes
<1> QED BY <1>7, <1>8, <1>9 DEF SessionInv

LEMMA StepToolRead ==
  ASSUME SessionInv, ToolRead
  PROVE  SessionInv'
<1>1. job.pc \in {"active", "closing"}
  BY DEF ToolRead, SessionInv, ToolInv
<1>2. job.id \in Sessions /\ AtMostOne(row[job.id], RowType)
      /\ \E r \in RowType : row[job.id] = {r}
  BY <1>1, RowOfJob DEF AtMostOne
<1>3. ASSUME NEW t \in tool'
      PROVE  /\ t = [action |-> t.action, args |-> t.args, seen |-> t.seen] /\ t.action \in Tools
             /\ t.seen = row[job.id] /\ job.queue # <<>> /\ Head(job.queue) = t.action
  <2>1. PICK u \in tool : t = [u EXCEPT !.seen = row[job.id]]
    BY <1>3 DEF ToolRead
  <2>2. u = [action |-> u.action, args |-> u.args, seen |-> u.seen] /\ u.action \in Tools
        /\ job.queue # <<>> /\ Head(job.queue) = u.action
    BY <2>1 DEF SessionInv, SessionTypes, ToolInv
  <2> QED BY <2>1, <2>2
<1>4. ToolInv'
  BY <1>1, <1>2, <1>3 DEF ToolInv, ToolRead
<1>5. SessionTypes'
  BY <1>2, <1>3 DEF SessionInv, SessionTypes, ToolRead
<1> QED BY <1>4, <1>5 DEF ToolRead, SessionInv, RowsInv, RequestsInv, ViewInv, JobInv

LEMMA StepToolAnswer ==
  ASSUME SessionInv, ToolAnswer
  PROVE  SessionInv'
<1>1. PICK t \in tool :
        LET seen == CHOOSE r \in t.seen : TRUE
            ok == ToolAllowed(seen, t.args)
            data == ToolData(t.action, graph, Selected(seen.focus, t.args), t.args)
        IN /\ t.seen # {}
           /\ IF worker.state = "waiting"
              THEN /\ job' = [job EXCEPT !.queue = Tail(@) \o <<"event">>]
                   /\ worker' = [worker EXCEPT
                        !.state = "thinking",
                        !.refs = @ \cup (IF ok THEN data ELSE {}),
                        !.read = @ \/ (ok /\ t.action = "map.read")]
              ELSE job' = [job EXCEPT !.queue = Tail(@)] /\ UNCHANGED worker
  BY DEF ToolAnswer
<1> DEFINE seen == CHOOSE r \in t.seen : TRUE
           ok == ToolAllowed(seen, t.args)
           data == IF ok THEN ToolData(t.action, graph, Selected(seen.focus, t.args), t.args) ELSE {}
<1>2. job.pc \in {"active", "closing"} /\ t.action \in Tools
  BY DEF SessionInv, ToolInv, SessionTypes
<1>3. job \in JobType /\ job.id \in Sessions
  BY <1>2, RowOfJob
<1>4. PICK r \in RowType : row[job.id] = {r} /\ JobOK(job, worker.refs, r)
  BY <1>2, RowOfJob
<1>5. PICK g \in Maps : r.fp = {g}
  BY <1>2, <1>4 DEF JobOK, FromOneMap, Active
<1>6. seen \in t.seen
  BY <1>1
<1>7. seen.fp = {g}
  BY <1>4, <1>5, <1>6 DEF SessionInv, ToolInv
<1>8. data \subseteq AllReferences(g)
  <2>1. CASE ok
    <3>1. graph = g
      BY <1>7, <2>1 DEF ToolAllowed
    <3> QED BY <1>2, <3>1, ToolDataIsCited
  <2>2. CASE ~ok
    BY <2>2
  <2> QED BY <2>1, <2>2
<1>9. data \subseteq Cited
  BY <1>8 DEF Cited
<1>10. worker \in WorkerType
  BY DEF SessionInv, SessionTypes
<1>11. worker' \in WorkerType /\ worker'.refs \subseteq worker.refs \cup data
  <2>1. CASE worker.state = "waiting"
    <3>1. worker' = [worker EXCEPT !.state = "thinking", !.refs = @ \cup data,
                                   !.read = @ \/ (ok /\ t.action = "map.read")]
      BY <1>1, <2>1
    <3>2. worker.refs \cup data \in SUBSET Cited
      BY <1>9, <1>10 DEF WorkerType
    <3>3. (worker.read \/ (ok /\ t.action = "map.read")) \in BOOLEAN
      OBVIOUS
    <3> HIDE DEF data, ok
    <3> QED BY <3>1, <3>2, <3>3, <1>10 DEF WorkerType
  <2>2. CASE worker.state # "waiting"
    <3>1. worker' = worker
      BY <1>1, <2>2
    <3> QED BY <3>1, <1>10
  <2> QED BY <2>1, <2>2
<1> HIDE DEF data, ok, seen
<1>12. job.queue \in Seq({"event"} \cup Tools) /\ job.queue # <<>>
  BY <1>3 DEF JobType, SessionInv, ToolInv
<1>13. PICK q : job' = [job EXCEPT !.queue = q] /\ q \in {Tail(job.queue), Tail(job.queue) \o <<"event">>}
  BY <1>1
<1>14. q \in Seq({"event"} \cup Tools)
  <2>1. Tail(job.queue) \in Seq({"event"} \cup Tools)
    BY <1>12
  <2>2. Tail(job.queue) \o <<"event">> \in Seq({"event"} \cup Tools)
    BY <2>1
  <2> QED BY <1>13, <2>1, <2>2
<1>15. job' \in JobType /\ job'.pc = job.pc /\ job'.id = job.id /\ job'.rev = job.rev
       /\ job'.receipts = job.receipts /\ job'.status = job.status
  BY <1>3, <1>13, <1>14 DEF JobType
<1>16. UNCHANGED <<graph, row, put, view>> /\ tool' = {}
  BY DEF ToolAnswer
<1>17. ASSUME NEW h \in Maps, worker.refs \subseteq AllReferences(h), \A x \in row[job.id] : x.fp = {h}
       PROVE  worker'.refs \subseteq AllReferences(h)
  <2>1. h = g
    BY <1>4, <1>5, <1>17
  <2> QED BY <1>8, <1>11, <1>17, <2>1
<1>18. RowsInv' /\ RequestsInv' /\ ViewInv' /\ JobInv'
  <2>1. job.pc = "closing" => job.status \in Ended
    BY <1>4 DEF JobOK
  <2> QED BY <2>1, <1>2, <1>11, <1>15, <1>16, <1>17, JobMoves DEF Active
<1>19. ToolInv'
  BY <1>16 DEF ToolInv
<1>20. SessionTypes'
  BY <1>11, <1>15, <1>16 DEF SessionInv, SessionTypes
<1> QED BY <1>18, <1>19, <1>20 DEF SessionInv
-----------------------------------------------------------------------------
(* Assistant sessions: the requests of the controller and of the panel      *)

LEMMA StepStart ==
  ASSUME SessionInv, NEW s \in Sessions, NEW f \in Focuses, start(s, f)
  PROVE  SessionInv'
<1>1. put["owner"] = {} /\ tool = {}
  BY Quiet DEF start, Active
<1>2. <<>> \in Seq({"event"} \cup Tools)
  OBVIOUS
<1>3. job' \in JobType /\ job'.pc = "open" /\ job'.status = "running"
  BY <1>2 DEF start, JobType
<1>4. SessionTypes'
  BY <1>3 DEF start, SessionInv, SessionTypes
<1> QED BY <1>1, <1>3, <1>4
      DEF start, SessionInv, RowsInv, RequestsInv, ViewInv, JobInv, ToolInv

(* The job waits for the answer of a request it has just sent.              *)
LEMMA JobSends ==
  ASSUME SessionInv, job \in JobType, NEW r \in RowType, row[job.id] = {r},
         NEW n \in Nat, n = job'.rev, n <= r.rev,
         NEW status \in Ended \cup {"running"}, NEW receipts \in SUBSET Cited,
         NEW focus \in Selections,
         persist("owner", job.id, n, status, receipts, focus),
         job' \in JobType, job'.id = job.id, JobOK(job', worker.refs, r),
         \A p : p.id = job.id /\ p.rev = n /\ p.status = status /\ p.receipts = receipts
                => OwnerOK(job', p),
         tool = {}, UNCHANGED <<graph, row, worker, tool, view>>
  PROVE  SessionInv'
<1> DEFINE p == NewRequest(job.id, n, status, receipts, focus)
<1>1. job.id \in Sessions /\ "owner" \in Writers /\ "viewer" \in Writers
  BY DEF JobType, Writers
<1>2. put["owner"] = {} /\ put' = [put EXCEPT !["owner"] = {p}]
  BY Persisted
<1>3. /\ p \in RequestType /\ p.id = job.id /\ p.rev = n /\ p.status = status
      /\ p.receipts = receipts /\ p.step = "sent" /\ RequestOK(p, r)
  <2>1. p \in RequestType /\ RequestOK(p, r)
    BY <1>1, NewRequestIsOK
  <2> QED BY <2>1 DEF NewRequest
<1> HIDE DEF p
<1>4. AtMostOne({p}, RequestType) /\ \A q \in {p} : \E x \in row[q.id] : RequestOK(q, x)
  BY <1>3 DEF AtMostOne
<1>5. /\ put' = [v \in Writers |-> put'[v]] /\ put'["owner"] = {p}
      /\ \A v \in Writers : v # "owner" => put'[v] = put[v]
      /\ RequestsInv'
      /\ \A v \in Writers : AtMostOne(put'[v], RequestType)
  BY <1>1, <1>2, <1>4, OneRequest
<1>6. SessionTypes'
  BY <1>5 DEF SessionInv, SessionTypes
<1>7. OwnerOK(job', p)
  BY <1>3
<1>8. JobInv'
  <2>1. job'.pc # "open"
    BY <1>7 DEF OwnerOK, Active
  <2> QED BY <2>1, <1>3, <1>5, <1>7 DEF JobInv, BegunOK
<1>9. ViewInv'
  BY <1>1, <1>5 DEF SessionInv, ViewInv
<1> QED BY <1>5, <1>6, <1>8, <1>9 DEF SessionInv, RowsInv, ToolInv

(* The job goes on, with no request waiting.                                *)
LEMMA JobGoesOn ==
  ASSUME SessionInv, job' \in JobType, worker' \in WorkerType, put["owner"] = {}, put' = put,
         tool = {}, job'.pc # "open", \E r \in row[job'.id] : JobOK(job', worker'.refs, r),
         UNCHANGED <<graph, row, tool, view>>
  PROVE  SessionInv'
<1>1. SessionTypes'
  BY DEF SessionInv, SessionTypes
<1>2. JobInv'
  BY DEF JobInv
<1> QED BY <1>1, <1>2 DEF SessionInv, RowsInv, RequestsInv, ViewInv, ToolInv

LEMMA StepOpenSession ==
  ASSUME SessionInv, OpenSession
  PROVE  SessionInv'
<1>1. job.pc = "open" /\ row[job.id] # {} /\ UNCHANGED <<graph, row, worker, tool, view>>
  BY DEF OpenSession
<1>2. job \in JobType
  BY <1>1 DEF SessionInv, SessionTypes, NoJob
<1>3. job.id \in Sessions
  BY <1>2 DEF JobType
<1>4. PICK r \in RowType : row[job.id] = {r}
  BY <1>1, <1>3 DEF SessionInv, SessionTypes, AtMostOne
<1>5. TheRow(job.id) = r
  BY <1>4 DEF TheRow
<1>6. put["owner"] = {} /\ tool = {}
  BY <1>1, Quiet DEF Active
<1>7. r.rev \in Nat /\ r.receipts \in SUBSET Cited /\ r.focus \in Selections
      /\ r.status \in Ended \cup {"idle", "running"}
  BY <1>4 DEF RowType
<1>8. job.status = "running"
  BY <1>1 DEF SessionInv, JobInv
<1>9. CASE r.status = "running"
  <2>1. job' = [job EXCEPT !.pc = "mark", !.rev = r.rev]
        /\ persist("owner", job.id, r.rev, "interrupted", r.receipts, r.focus)
    BY <1>5, <1>9 DEF OpenSession
  <2>2. job' \in JobType /\ job'.pc = "mark" /\ job'.rev = r.rev /\ job'.id = job.id
        /\ job'.status = "running"
    BY <1>2, <1>7, <1>8, <2>1 DEF JobType
  <2>3. JobOK(job', worker.refs, r)
    BY <1>7, <2>2 DEF JobOK, Active
  <2>4. \A p : p.id = job.id /\ p.rev = r.rev /\ p.status = "interrupted" /\ p.receipts = r.receipts
               => OwnerOK(job', p)
    BY <2>2 DEF OwnerOK, Active
  <2>5. "interrupted" \in Ended \cup {"running"}
    BY DEF Ended
  <2> QED BY <1>1, <1>2, <1>4, <1>6, <1>7, <2>1, <2>2, <2>3, <2>4, <2>5, JobSends
<1>10. CASE r.status # "running"
  <2>1. job' = [job EXCEPT !.pc = "opened", !.rev = r.rev] /\ put' = put
    BY <1>5, <1>10 DEF OpenSession
  <2>2. job' \in JobType /\ job'.pc = "opened" /\ job'.rev = r.rev /\ job'.id = job.id
        /\ job'.status = "running"
    BY <1>2, <1>7, <1>8, <2>1 DEF JobType
  <2>3. JobOK(job', worker'.refs, r)
    BY <1>7, <1>10, <2>2 DEF JobOK, Active
  <2>4. worker' \in WorkerType
    BY <1>1 DEF SessionInv, SessionTypes
  <2> QED BY <1>1, <1>4, <1>6, <2>1, <2>2, <2>3, <2>4, JobGoesOn
<1> QED BY <1>9, <1>10
LEMMA StepPersistRunning ==
  ASSUME SessionInv, PersistRunning
  PROVE  SessionInv'
<1>1. job.pc = "opened" /\ UNCHANGED <<graph, row, worker, tool, view>>
      /\ persist("owner", job.id, job.rev, "running", {}, job.focus)
      /\ job' = [job EXCEPT !.pc = "begin"]
  BY DEF PersistRunning
<1>2. job \in JobType /\ \E r \in RowType : row[job.id] = {r} /\ JobOK(job, worker.refs, r)
  BY <1>1, RowOfJob
<1>3. PICK r \in RowType : row[job.id] = {r} /\ JobOK(job, worker.refs, r)
  BY <1>2
<1>4. tool = {}
  BY <1>1, Quiet
<1>5. job' \in JobType /\ job'.pc = "begin" /\ job'.rev = job.rev /\ job'.id = job.id
  BY <1>1, <1>2 DEF JobType
<1>6. JobOK(job', worker.refs, r)
  BY <1>1, <1>3, <1>5 DEF JobOK, Active
<1>7. \A p : p.id = job.id /\ p.rev = job.rev /\ p.status = "running" /\ p.receipts = {}
             => OwnerOK(job', p)
  BY <1>5 DEF OwnerOK, Active
<1>8. job.rev \in Nat /\ job.focus \in Selections /\ {} \in SUBSET Cited
      /\ "running" \in Ended \cup {"running"} /\ job.rev <= r.rev
  BY <1>2, <1>3 DEF JobType, Selections, JobOK
<1> QED BY <1>1, <1>2, <1>3, <1>4, <1>5, <1>6, <1>7, <1>8, JobSends

LEMMA StepPersistOutcome ==
  ASSUME SessionInv, PersistOutcome
  PROVE  SessionInv'
<1> DEFINE status == IF job.cancelled THEN "cancelled" ELSE job.status
           receipts == IF status = "completed" THEN job.receipts ELSE {}
<1>1. job.pc = "closing" /\ UNCHANGED <<graph, row, worker, tool, view>> /\ tool = {}
      /\ persist("owner", job.id, job.rev, status, receipts, job.focus)
      /\ job' = [job EXCEPT !.pc = "saving"]
  BY DEF PersistOutcome
<1>2. job \in JobType /\ \E r \in RowType : row[job.id] = {r} /\ JobOK(job, worker.refs, r)
  BY <1>1, RowOfJob
<1>3. PICK r \in RowType : row[job.id] = {r} /\ JobOK(job, worker.refs, r)
  BY <1>2
<1>4. job' \in JobType /\ job'.pc = "saving" /\ job'.rev = job.rev /\ job'.id = job.id
      /\ job'.status = job.status /\ job'.receipts = job.receipts
  BY <1>1, <1>2 DEF JobType
<1>5. JobOK(job', worker.refs, r)
  BY <1>1, <1>3, <1>4 DEF JobOK, Active, FromOneMap
<1>6. /\ status \in Ended /\ status \in Ended \cup {"running"} /\ status # "running"
      /\ receipts \in SUBSET Cited
      /\ status = "completed" => job.status = "completed" /\ receipts = job.receipts
  <2>1. job.status \in Ended /\ "cancelled" \in Ended /\ "running" \notin Ended
    BY <1>1, <1>3 DEF JobOK, Ended
  <2>2. job.receipts \in SUBSET Cited
    BY <1>2 DEF JobType
  <2> QED BY <2>1, <2>2
<1> HIDE DEF status, receipts
<1>7. \A p : p.id = job.id /\ p.rev = job.rev /\ p.status = status /\ p.receipts = receipts
             => OwnerOK(job', p)
  BY <1>4, <1>6 DEF OwnerOK, Active
<1>8. job.rev \in Nat /\ job.focus \in Selections /\ job.rev <= r.rev
  BY <1>2, <1>3 DEF JobType, Selections, JobOK
<1> QED BY <1>1, <1>2, <1>3, <1>4, <1>5, <1>6, <1>7, <1>8, JobSends

LEMMA StepRunQueue ==
  ASSUME SessionInv, RunQueue
  PROVE  SessionInv'
<1>1. job.pc \in {"active", "closing"} /\ job.queue # <<>> /\ put["owner"] = {} /\ tool = {}
      /\ UNCHANGED <<graph, row, job, worker, view>>
  BY DEF RunQueue, enqueued
<1>2. job \in JobType /\ \E r \in RowType : row[job.id] = {r} /\ JobOK(job, worker.refs, r)
  BY <1>1, RowOfJob
<1>3. PICK r \in RowType : row[job.id] = {r} /\ JobOK(job, worker.refs, r)
  BY <1>2
<1>4. CASE Head(job.queue) = "event"
  <2>1. persist("owner", job.id, job.rev, "running", {}, job.focus) /\ tool' = tool
    BY <1>4 DEF RunQueue
  <2>2. \A p : p.id = job.id /\ p.rev = job.rev /\ p.status = "running" /\ p.receipts = {}
               => OwnerOK(job', p)
    BY <1>1 DEF OwnerOK, Active
  <2>3. job.rev \in Nat /\ job.focus \in Selections /\ job.rev <= r.rev
        /\ {} \in SUBSET Cited /\ "running" \in Ended \cup {"running"}
    BY <1>2, <1>3 DEF JobType, Selections, JobOK
  <2> QED BY <1>1, <1>2, <1>3, <2>1, <2>2, <2>3, JobSends
<1>5. CASE Head(job.queue) # "event"
  <2>1. PICK args \in Args :
          tool' = {[action |-> Head(job.queue), args |-> args, seen |-> {}]} /\ put' = put
    BY <1>5 DEF RunQueue
  <2>2. Head(job.queue) \in Tools
    <3>1. job.queue \in Seq({"event"} \cup Tools)
      BY <1>2 DEF JobType
    <3>2. Head(job.queue) \in {"event"} \cup Tools
      BY <1>1, <3>1
    <3> QED BY <1>5, <3>2
  <2>3. ToolInv'
    BY <1>1, <2>1 DEF ToolInv
  <2>4. SessionTypes'
    BY <1>1, <2>1, <2>2 DEF SessionInv, SessionTypes, AtMostOne
  <2> QED BY <1>1, <2>1, <2>3, <2>4 DEF SessionInv, RowsInv, RequestsInv, ViewInv, JobInv
<1> QED BY <1>4, <1>5
(* The answer of the owner's request has been taken.                        *)
LEMMA JobAnswered ==
  ASSUME SessionInv, put' = [put EXCEPT !["owner"] = {}], worker' \in WorkerType,
         \/ job' = NoJob
         \/ /\ job' \in JobType /\ job'.pc # "open"
            /\ \E r \in row[job'.id] : JobOK(job', worker'.refs, r),
         ToolInv', UNCHANGED <<graph, row, tool, view>>
  PROVE  SessionInv'
<1>1. "owner" \in Writers /\ AtMostOne({}, RequestType)
  BY DEF Writers, AtMostOne
<1>2. /\ put' = [v \in Writers |-> put'[v]] /\ put'["owner"] = {}
      /\ \A v \in Writers : v # "owner" => put'[v] = put[v]
      /\ RequestsInv'
      /\ \A v \in Writers : AtMostOne(put'[v], RequestType)
  BY <1>1, OneRequest
<1>3. SessionTypes'
  BY <1>2 DEF SessionInv, SessionTypes
<1>4. JobInv'
  BY <1>2 DEF JobInv, NoJob
<1>5. ViewInv'
  BY <1>2 DEF SessionInv, ViewInv, Writers
<1> QED BY <1>2, <1>3, <1>4, <1>5 DEF SessionInv, RowsInv

LEMMA StepBeginAnswer ==
  ASSUME SessionInv, BeginAnswer
  PROVE  SessionInv'
<1>1. job.pc \in {"mark", "begin"} /\ HasAnswer("owner") /\ UNCHANGED <<graph, row, tool, view>>
      /\ put' = [put EXCEPT !["owner"] = {}] /\ tool = {}
  BY Quiet DEF BeginAnswer, Active
<1>2. job \in JobType /\ \E r \in RowType : row[job.id] = {r} /\ JobOK(job, worker.refs, r)
  BY <1>1, RowOfJob
<1>3. PICK r \in RowType : row[job.id] = {r} /\ JobOK(job, worker.refs, r)
  BY <1>2
<1>4. worker \in WorkerType /\ ToolInv'
  BY <1>1 DEF SessionInv, SessionTypes, ToolInv
<1>5. CASE ~AtStep("owner", "ok")
  <2>1. job' = NoJob /\ worker' = worker
    BY <1>5 DEF BeginAnswer
  <2> QED BY <1>1, <1>4, <2>1, JobAnswered
<1> DEFINE p == Request("owner")
<1>6. CASE AtStep("owner", "ok")
  <2>1. put["owner"] = {p} /\ p.step = "ok" /\ p \in RequestType
    BY <1>6, RowOfRequest DEF AtStep, Writers
  <2>2. OwnerOK(job, p) /\ BegunOK(job, p, r) /\ RequestOK(p, r)
    <3>1. OwnerOK(job, p) /\ \A x \in row[p.id] : BegunOK(job, p, x)
      BY <2>1 DEF SessionInv, JobInv
    <3>2. p.id = job.id
      BY <3>1 DEF OwnerOK
    <3>3. \E x \in row[p.id] : RequestOK(p, x)
      BY <2>1 DEF SessionInv, RequestsInv, Writers
    <3> QED BY <1>3, <3>1, <3>2, <3>3
  <2>3. job.rev \in Nat /\ r.rev \in Nat /\ p.rev = job.rev
    BY <1>2, <1>3, <2>2 DEF JobType, RowType, OwnerOK
  <2> HIDE DEF p
  <2>4. job.rev + 1 <= r.rev /\ (r.rev = job.rev + 1 => r.status = p.status)
    BY <2>1, <2>2, <2>3 DEF RequestOK
  <2>5. CASE job.pc = "mark"
    <3>1. job' = [job EXCEPT !.pc = "opened", !.rev = @ + 1] /\ worker' = worker
      BY <1>6, <2>5 DEF BeginAnswer
    <3>2. job' \in JobType /\ job'.pc = "opened" /\ job'.id = job.id /\ job'.rev = job.rev + 1
          /\ job'.status = job.status
      <4>1. PICK n \in Nat : n = job.rev + 1
        BY <2>3
      <4>2. job' = [job EXCEPT !.pc = "opened", !.rev = n]
        BY <3>1, <4>1
      <4>3. job' \in JobType /\ job'.pc = "opened" /\ job'.id = job.id /\ job'.rev = n
            /\ job'.status = job.status
        BY <1>2, <4>2 DEF JobType
      <4> QED BY <4>1, <4>3
    <3>3. job.status = "running" /\ p.status = "interrupted"
      BY <1>3, <2>2, <2>5 DEF JobOK, OwnerOK
    <3>4. JobOK(job', worker'.refs, r)
      BY <2>4, <3>2, <3>3 DEF JobOK, Active
    <3> QED BY <1>1, <1>3, <1>4, <3>1, <3>2, <3>4, JobAnswered
  <2>6. CASE job.pc = "begin"
    <3>1. job' = [job EXCEPT !.pc = "active", !.rev = @ + 1]
          /\ worker' = [NoWorker EXCEPT !.state = "thinking"]
      BY <1>6, <2>6 DEF BeginAnswer
    <3>2. job' \in JobType /\ job'.pc = "active" /\ job'.id = job.id /\ job'.rev = job.rev + 1
          /\ job'.status = job.status
      <4>1. PICK n \in Nat : n = job.rev + 1
        BY <2>3
      <4>2. job' = [job EXCEPT !.pc = "active", !.rev = n]
        BY <3>1, <4>1
      <4>3. job' \in JobType /\ job'.pc = "active" /\ job'.id = job.id /\ job'.rev = n
            /\ job'.status = job.status
        BY <1>2, <4>2 DEF JobType
      <4> QED BY <4>1, <4>3
    <3>3. worker' \in WorkerType /\ worker'.refs = {}
      BY <3>1 DEF NoWorker, WorkerType
    <3>4. job.status = "running" /\ p.status = "running"
      BY <1>3, <2>2, <2>6 DEF JobOK, OwnerOK
    <3>5. FromOneMap(job', worker'.refs, r)
      BY <2>1, <2>2, <2>6, <3>2, <3>3, <3>4 DEF BegunOK, FromOneMap
    <3>6. JobOK(job', worker'.refs, r)
      BY <2>4, <3>2, <3>4, <3>5 DEF JobOK, Active
    <3> QED BY <1>1, <1>3, <1>4, <3>2, <3>3, <3>6, JobAnswered
  <2> QED BY <1>1, <2>5, <2>6
<1> QED BY <1>5, <1>6

LEMMA StepEventAnswer ==
  ASSUME SessionInv, EventAnswer
  PROVE  SessionInv'
<1>1. job.pc \in {"active", "closing"} /\ UNCHANGED <<graph, row, tool, view>>
      /\ job.queue # <<>> /\ Head(job.queue) = "event" /\ put' = [put EXCEPT !["owner"] = {}]
  BY DEF EventAnswer, enqueued
<1>2. job \in JobType /\ \E r \in RowType : row[job.id] = {r} /\ JobOK(job, worker.refs, r)
  BY <1>1, RowOfJob
<1>3. PICK r \in RowType : row[job.id] = {r} /\ JobOK(job, worker.refs, r)
  BY <1>2
<1>4. tool = {}
  <2>1. "event" \notin Tools
    BY SessionAssumption
  <2> QED BY <1>1, <2>1 DEF SessionInv, ToolInv, SessionTypes
<1>5. worker \in WorkerType /\ NoWorker \in WorkerType /\ NoWorker.refs = {} /\ ToolInv'
  BY <1>1, <1>4 DEF SessionInv, SessionTypes, ToolInv, NoWorker, WorkerType
<1> DEFINE p == Request("owner")
<1>6. CASE AtStep("owner", "ok")
  <2>1. put["owner"] = {p} /\ p.step = "ok" /\ p \in RequestType
    BY <1>6, RowOfRequest DEF AtStep, Writers
  <2>2. OwnerOK(job, p) /\ RequestOK(p, r)
    <3>1. OwnerOK(job, p)
      BY <2>1 DEF SessionInv, JobInv
    <3>2. p.id = job.id
      BY <3>1 DEF OwnerOK
    <3>3. \E x \in row[p.id] : RequestOK(p, x)
      BY <2>1 DEF SessionInv, RequestsInv, Writers
    <3> QED BY <1>3, <3>1, <3>2, <3>3
  <2>3. job.rev \in Nat /\ r.rev \in Nat /\ p.rev = job.rev /\ p.status = "running"
    BY <1>1, <1>2, <1>3, <2>2 DEF JobType, RowType, OwnerOK
  <2> HIDE DEF p
  <2>4. job.rev + 1 <= r.rev /\ (r.rev = job.rev + 1 => r.status = "running")
    BY <2>1, <2>2, <2>3 DEF RequestOK
  <2>5. job' = [job EXCEPT !.rev = @ + 1, !.queue = Tail(@)] /\ worker' = worker
    BY <1>6 DEF EventAnswer
  <2>6. Tail(job.queue) \in Seq({"event"} \cup Tools)
    BY <1>1, <1>2 DEF JobType
  <2>7. job' \in JobType /\ job'.pc = job.pc /\ job'.id = job.id /\ job'.rev = job.rev + 1
        /\ job'.status = job.status /\ job'.receipts = job.receipts
    <3>1. PICK n \in Nat : n = job.rev + 1
      BY <2>3
    <3>2. job' = [job EXCEPT !.rev = n, !.queue = Tail(job.queue)]
      BY <2>5, <3>1
    <3>3. job' \in JobType /\ job'.pc = job.pc /\ job'.id = job.id /\ job'.rev = n
          /\ job'.status = job.status /\ job'.receipts = job.receipts
      BY <1>2, <2>6, <3>2 DEF JobType
    <3> QED BY <3>1, <3>3
  <2>8. JobOK(job', worker'.refs, r)
    BY <1>1, <1>3, <2>4, <2>5, <2>7 DEF JobOK, Active, FromOneMap
  <2> QED BY <1>1, <1>3, <1>5, <2>5, <2>7, <2>8, JobAnswered
<1>7. CASE ~AtStep("owner", "ok")
  <2>1. job' = [job EXCEPT !.queue = <<>>, !.pc = "closing",
                           !.status = IF job.pc = "active" THEN "failed" ELSE @]
        /\ worker' = NoWorker
    BY <1>7 DEF EventAnswer
  <2>2. <<>> \in Seq({"event"} \cup Tools)
    OBVIOUS
  <2>3. job' \in JobType /\ job'.pc = "closing" /\ job'.id = job.id /\ job'.rev = job.rev
        /\ job'.status = (IF job.pc = "active" THEN "failed" ELSE job.status)
        /\ job'.receipts = job.receipts
    BY <1>2, <2>1, <2>2 DEF JobType, Ended
  <2>4. job'.status \in Ended /\ (job'.status = "completed" => job.status = "completed")
    BY <1>1, <1>3, <2>3 DEF JobOK, Ended
  <2>5. JobOK(job', worker'.refs, r)
    BY <1>1, <1>3, <1>5, <2>1, <2>3, <2>4 DEF JobOK, Active, FromOneMap
  <2> QED BY <1>1, <1>3, <1>5, <2>1, <2>3, <2>5, JobAnswered
<1> QED BY <1>6, <1>7

LEMMA StepOutcomeAnswer ==
  ASSUME SessionInv, OutcomeAnswer
  PROVE  SessionInv'
<1>1. job.pc = "saving" /\ put' = [put EXCEPT !["owner"] = {}] /\ job' = NoJob
      /\ UNCHANGED <<graph, row, worker, tool, view>>
  BY DEF OutcomeAnswer
<1>2. tool = {} /\ worker \in WorkerType
  BY <1>1, Quiet DEF SessionInv, SessionTypes
<1>3. ToolInv'
  BY <1>1, <1>2 DEF ToolInv
<1> QED BY <1>1, <1>2, <1>3, JobAnswered
-----------------------------------------------------------------------------
(* Assistant sessions: the control plane                                    *)

(* A handler goes on with writer w's request, which says the same.          *)
LEMMA RequestAdvances ==
  ASSUME SessionInv, NEW w \in Writers, put[w] # {}, NEW q \in RequestType,
         Advance(w, q), q.id = Request(w).id, q.rev = Request(w).rev,
         q.status = Request(w).status, q.receipts = Request(w).receipts,
         q.step = "ok" => Request(w).step = "ok",
         RequestOK(q, TheRow(Request(w).id)),
         UNCHANGED <<graph, row, job, worker, tool, view>>
  PROVE  SessionInv'
<1> DEFINE p == Request(w)
           r == TheRow(p.id)
<1>1. put[w] = {p} /\ row[p.id] = {r}
  BY RowOfRequest
<1>2. put' = [put EXCEPT ![w] = {q}]
  BY DEF Advance
<1>3. AtMostOne({q}, RequestType) /\ \A x \in {q} : \E y \in row[x.id] : RequestOK(x, y)
  BY <1>1 DEF AtMostOne
<1>4. /\ put' = [v \in Writers |-> put'[v]] /\ put'[w] = {q}
      /\ \A v \in Writers : v # w => put'[v] = put[v]
      /\ RequestsInv'
      /\ \A v \in Writers : AtMostOne(put'[v], RequestType)
  BY <1>2, <1>3, OneRequest
<1>5. SessionTypes'
  BY <1>4 DEF SessionInv, SessionTypes
<1> HIDE DEF p, r
<1>6. q.id = p.id /\ q.rev = p.rev /\ q.status = p.status /\ q.receipts = p.receipts
      /\ (q.step = "ok" => p.step = "ok")
  BY DEF p
<1>7. ViewInv'
  <2>1. p \in put["viewer"] => p.status = "interrupted"
    BY DEF SessionInv, ViewInv
  <2>2. \A x \in put'["viewer"] : x.status = "interrupted"
    BY <1>1, <1>4, <1>6, <2>1 DEF SessionInv, ViewInv, Writers
  <2> QED BY <2>2 DEF SessionInv, ViewInv
<1>8. ASSUME NEW x \in put'["owner"]
      PROVE  OwnerOK(job, x) /\ \A y \in row[x.id] : BegunOK(job, x, y)
  <2>1. CASE w = "owner"
    <3>1. x = q
      BY <1>4, <1>8, <2>1
    <3>2. OwnerOK(job, p) /\ \A y \in row[p.id] : BegunOK(job, p, y)
      BY <1>1, <2>1 DEF SessionInv, JobInv
    <3> QED BY <1>6, <3>1, <3>2 DEF OwnerOK, BegunOK
  <2>2. CASE w # "owner"
    <3>1. x \in put["owner"]
      BY <1>4, <1>8, <2>2 DEF Writers
    <3> QED BY <3>1 DEF SessionInv, JobInv
  <2> QED BY <2>1, <2>2
<1>9. JobInv'
  BY <1>8 DEF SessionInv, JobInv
<1> QED BY <1>4, <1>5, <1>7, <1>9 DEF SessionInv, RowsInv, ToolInv

LEMMA StepPutRead ==
  ASSUME SessionInv, NEW w \in Writers, PutRead(w)
  PROVE  SessionInv'
<1> DEFINE p == Request(w)
           r == TheRow(p.id)
           step == IF p.status = "completed" \/ Begins(p, r) THEN "read" ELSE "ready"
           q == [p EXCEPT !.step = step, !.begins = Begins(p, r), !.fp = r.fp]
<1>1. AtStep(w, "sent") /\ Advance(w, q) /\ UNCHANGED <<graph, row, job, worker, tool, view>>
  BY DEF PutRead
<1>2. put[w] # {} /\ p.step = "sent"
  BY <1>1 DEF AtStep
<1>3. p \in RequestType /\ r \in RowType /\ RequestOK(p, r)
  BY <1>2, RowOfRequest
<1>4. Begins(p, r) = (p.status = "running" /\ r.status # "running")
  BY DEF Begins
<1>5. PICK b \in BOOLEAN : b = Begins(p, r)
  BY DEF Begins
<1>6. PICK st \in {"read", "ready"} : st = step /\ (st = "ready" => ~b)
  BY <1>5
<1>7. q = [p EXCEPT !.step = st, !.begins = b, !.fp = r.fp]
  BY <1>5, <1>6
<1> HIDE DEF q, step, p, r
<1>8. r.fp \in SUBSET Maps
  BY <1>3 DEF RowType
<1>9. q \in RequestType /\ q.id = p.id /\ q.rev = p.rev /\ q.status = p.status
      /\ q.receipts = p.receipts /\ q.step = st /\ q.fp = r.fp
  <2>1. q \in RequestType
    BY <1>3, <1>7, <1>8, ChangedRequest
  <2> QED BY <1>3, <1>7, <2>1 DEF RequestType
<1>10. q.begins = b
  BY <1>3, <1>7 DEF RequestType
<1>11. RequestOK(q, r)
  BY <1>3, <1>4, <1>5, <1>6, <1>9, <1>10 DEF RequestOK
<1> QED BY <1>1, <1>2, <1>6, <1>9, <1>11, RequestAdvances DEF p, r

LEMMA StepPutCheck ==
  ASSUME SessionInv, NEW w \in Writers, PutCheck(w)
  PROVE  SessionInv'
<1> DEFINE p == Request(w)
           r == TheRow(p.id)
           fp == IF p.begins THEN {graph} ELSE p.fp
           refused == \/ p.begins /\ graph.profile # r.profile
                      \/ p.status = "completed" /\ fp # {graph}
           q == [p EXCEPT !.step = IF refused THEN "refused" ELSE "ready", !.fp = fp]
<1>1. AtStep(w, "read") /\ Advance(w, q) /\ UNCHANGED <<graph, row, job, worker, tool, view>>
  BY DEF PutCheck
<1>2. put[w] # {} /\ p.step = "read"
  BY <1>1 DEF AtStep
<1>3. p \in RequestType /\ r \in RowType /\ RequestOK(p, r)
  BY <1>2, RowOfRequest
<1>4. PICK st \in {"refused", "ready"} : q = [p EXCEPT !.step = st, !.fp = fp]
  OBVIOUS
<1>5. graph \in Maps /\ p.fp \in SUBSET Maps
  BY <1>3 DEF SessionInv, SessionTypes, RequestType
<1>6. fp \in SUBSET Maps /\ (p.begins => fp = {graph}) /\ (~p.begins => fp = p.fp)
  BY <1>5
<1> HIDE DEF q, p, r, fp, refused
<1>7. q \in RequestType /\ q.id = p.id /\ q.rev = p.rev /\ q.status = p.status
      /\ q.receipts = p.receipts /\ q.step = st /\ q.fp = fp
  <2>1. q \in RequestType
    BY <1>3, <1>4, <1>6, ChangedRequest
  <2> QED BY <1>3, <1>4, <2>1 DEF RequestType
<1>8. q.begins = p.begins
  BY <1>3, <1>4 DEF RequestType
<1>9. RequestOK(q, r)
  BY <1>2, <1>3, <1>5, <1>6, <1>7, <1>8 DEF RequestOK
<1> QED BY <1>1, <1>2, <1>7, <1>9, RequestAdvances DEF p, r

(* A request that is refused, or whose answer is lost.                      *)
LEMMA Refused ==
  ASSUME SessionInv, NEW w \in Writers, put[w] # {},
         Advance(w, [Request(w) EXCEPT !.step = "refused"]),
         UNCHANGED <<graph, row, job, worker, tool, view>>
  PROVE  SessionInv'
<1> DEFINE p == Request(w)
           r == TheRow(p.id)
           q == [p EXCEPT !.step = "refused"]
<1>1. p \in RequestType /\ RequestOK(p, r)
  BY RowOfRequest
<1>2. q \in RequestType
  BY <1>1, ChangedRequest, "refused" \in {"sent", "read", "ready", "ok", "refused"}
<1>3. q.id = p.id /\ q.rev = p.rev /\ q.status = p.status /\ q.receipts = p.receipts
      /\ q.step = "refused" /\ q.begins = p.begins
  BY <1>1 DEF RequestType
<1> HIDE DEF q, p, r
<1>4. RequestOK(q, r)
  BY <1>1, <1>3 DEF RequestOK
<1> QED BY <1>2, <1>3, <1>4, RequestAdvances DEF p, q, r
(* A row of the next revision is news to everyone who knows the old one.    *)
LEMMA NewerRow ==
  ASSUME NEW p \in RequestType, NEW r \in RowType, NEW x \in RowType, RequestOK(p, r),
         x.rev = r.rev + 1
  PROVE  RequestOK(p, x)
<1>1. p.rev \in Nat /\ r.rev \in Nat
  BY DEF RequestType, RowType
<1> QED BY <1>1 DEF RequestOK

LEMMA Written ==
  ASSUME SessionInv, NEW w \in Writers, PutWrite(w),
         Request(w).rev = TheRow(Request(w).id).rev
  PROVE  SessionInv'
<1> DEFINE p == Request(w)
           r == TheRow(p.id)
           q == [p EXCEPT !.step = "ok"]
           x == [rev |-> p.rev + 1, status |-> p.status, fp |-> p.fp, receipts |-> p.receipts,
                 focus |-> p.focus, profile |-> r.profile]
<1>1. /\ put[w] = {p} /\ p \in RequestType /\ p.id \in Sessions /\ p.step = "ready"
      /\ row[p.id] = {r} /\ r \in RowType /\ RequestOK(p, r) /\ p.rev = r.rev
  <2>1. put[w] # {} /\ p.step = "ready"
    BY DEF PutWrite, AtStep
  <2> QED BY <2>1, RowOfRequest
<1>2. row' = [row EXCEPT ![p.id] = {x}] /\ UNCHANGED <<graph, job, worker, tool, view>>
  BY <1>1 DEF PutWrite, UpdateAssistantSession
<1>3. x \in RowType /\ x.rev = r.rev + 1
  <2>1. p.rev + 1 \in Nat /\ p.status \in Ended \cup {"idle", "running"} /\ p.fp \in SUBSET Maps
        /\ p.receipts \in SUBSET Cited /\ p.focus \in Selections
    BY <1>1 DEF RequestType
  <2>2. r.profile \in {g.profile : g \in Maps}
    BY <1>1 DEF RowType
  <2> HIDE DEF p, r
  <2> QED BY <1>1, <2>1, <2>2 DEF RowType
<1>4. x.status = p.status /\ x.fp = p.fp /\ x.receipts = p.receipts
  OBVIOUS
<1> HIDE DEF x
<1>5. row = [s \in Sessions |-> row[s]] /\ put = [v \in Writers |-> put[v]]
  BY DEF SessionInv, SessionTypes
<1>6. row'[p.id] = {x} /\ (\A s \in Sessions : s # p.id => row'[s] = row[s])
      /\ row' = [s \in Sessions |-> row'[s]]
  BY <1>1, <1>2, <1>5
<1>7. put' = [put EXCEPT ![w] = {q}]
  <2>1. row' # row
    <3>1. r.rev \in Nat
      BY <1>1 DEF RowType
    <3>2. x # r
      BY <1>3, <3>1
    <3> QED BY <1>1, <1>6, <3>2
  <2> QED BY <2>1 DEF PutWrite, Advance
<1>8. put'[w] = {q} /\ (\A v \in Writers : v # w => put'[v] = put[v])
      /\ put' = [v \in Writers |-> put'[v]]
  BY <1>5, <1>7
<1>9. q \in RequestType /\ q.id = p.id /\ q.rev = p.rev /\ q.status = p.status
      /\ q.receipts = p.receipts /\ q.step = "ok" /\ q.begins = p.begins
  BY <1>1 DEF RequestType
<1> HIDE DEF q, p, r
<1>10. w = "viewer" => p.status = "interrupted"
  BY <1>1 DEF SessionInv, ViewInv
<1>11. w = "owner" => OwnerOK(job, p)
  BY <1>1 DEF SessionInv, JobInv
<1>12. job.pc \notin {"none", "open"} /\ job.id = p.id => JobOK(job, worker.refs, r)
  BY <1>1 DEF SessionInv, JobInv
\* The row keeps its fingerprint, unless it is the owner's begin.
<1>13. \/ ~p.begins /\ x.fp = r.fp
       \/ w = "owner" /\ job.pc = "begin" /\ p.status = "running" /\ \E g \in Maps : x.fp = {g}
  <2>1. CASE p.begins
    <3>1. p.status = "running" /\ r.status # "running" /\ \E g \in Maps : p.fp = {g}
      BY <1>1, <2>1 DEF RequestOK
    <3>2. w = "owner"
      BY <1>10, <3>1 DEF Writers
    <3>3. OwnerOK(job, p) /\ job.pc \notin {"none", "open"} /\ job.id = p.id /\ job.rev = r.rev
      BY <1>1, <1>11, <3>2 DEF OwnerOK, Active
    <3>4. job.pc \notin Active
      BY <1>12, <3>1, <3>3 DEF JobOK
    <3>5. job.pc = "begin"
      BY <3>1, <3>3, <3>4 DEF OwnerOK
    <3> QED BY <1>4, <3>1, <3>2, <3>5
  <2>2. CASE ~p.begins
    BY <1>1, <1>4, <2>2 DEF RequestOK
  <2> QED BY <2>1, <2>2
<1>14. SessionTypes'
  <2>1. \A s \in Sessions : AtMostOne(row'[s], RowType)
    BY <1>3, <1>6 DEF SessionInv, SessionTypes, AtMostOne
  <2>2. \A v \in Writers : AtMostOne(put'[v], RequestType)
    BY <1>8, <1>9 DEF SessionInv, SessionTypes, AtMostOne
  <2> QED BY <1>2, <1>6, <1>8, <2>1, <2>2 DEF SessionInv, SessionTypes
<1>15. CompletedOK(x)
  <2> SUFFICES ASSUME p.status = "completed"
               PROVE  \E g \in x.fp : x.receipts \subseteq AllReferences(g)
    BY <1>4 DEF CompletedOK
  <2>1. w = "owner"
    BY <1>10 DEF Writers
  <2>2. job.pc = "saving" /\ job.id = p.id /\ job.status = "completed" /\ p.receipts = job.receipts
    BY <1>11, <2>1 DEF OwnerOK, Active
  <2>3. FromOneMap(job, worker.refs, r) /\ x.fp = r.fp
    BY <1>12, <1>13, <2>2 DEF JobOK, Active
  <2> QED BY <1>4, <2>2, <2>3 DEF FromOneMap
<1>16. RowsInv'
  BY <1>6, <1>15 DEF SessionInv, RowsInv
<1>17. RequestsInv'
  <2> SUFFICES ASSUME NEW v \in Writers, NEW y \in put'[v]
               PROVE  \E z \in row'[y.id] : RequestOK(y, z)
    BY DEF RequestsInv
  <2>1. CASE v = w
    <3>1. y = q /\ p.rev \in Nat
      BY <1>1, <1>8, <2>1 DEF RequestType
    <3>2. RequestOK(q, x)
      BY <1>1, <1>3, <1>4, <1>9, <3>1 DEF RequestOK
    <3> QED BY <1>6, <1>9, <3>1, <3>2
  <2>2. CASE v # w
    <3>1. y \in put[v] /\ y \in RequestType
      BY <1>8, <2>2 DEF SessionInv, SessionTypes, AtMostOne
    <3>2. PICK z \in row[y.id] : RequestOK(y, z)
      BY <3>1 DEF SessionInv, RequestsInv
    <3>3. CASE y.id = p.id
      <4>1. z = r
        BY <1>1, <3>2, <3>3
      <4>2. RequestOK(y, x)
        BY <1>1, <1>3, <3>1, <3>2, <4>1, NewerRow
      <4> QED BY <1>6, <3>3, <4>2
    <3>4. CASE y.id # p.id
      BY <1>6, <3>1, <3>2, <3>4 DEF RequestType
    <3> QED BY <3>3, <3>4
  <2> QED BY <2>1, <2>2
<1>18. ViewInv'
  <2>1. \A y \in put'["viewer"] : y.status = "interrupted"
    BY <1>8, <1>9, <1>10 DEF SessionInv, ViewInv, Writers
  <2>2. ASSUME NEW v \in view PROVE \E z \in row'[v.id] : v.seen.rev <= z.rev
    <3>1. v.id \in Sessions /\ v.seen.rev \in Nat /\ r.rev \in Nat
      BY <1>1 DEF SessionInv, SessionTypes, AtMostOne, RowType
    <3>2. PICK z \in row[v.id] : v.seen.rev <= z.rev
      BY DEF SessionInv, ViewInv
    <3> QED BY <1>1, <1>3, <1>6, <3>1, <3>2
  <2> QED BY <1>2, <2>1, <2>2 DEF ViewInv
<1>19. JobInv'
  <2>1. job.pc \notin {"none", "open"} => \E z \in row'[job.id] : JobOK(job, worker.refs, z)
    <3> SUFFICES ASSUME job.pc \notin {"none", "open"}
                 PROVE  \E z \in row'[job.id] : JobOK(job, worker.refs, z)
      OBVIOUS
    <3>1. CASE job.id = p.id
      <4>1. JobOK(job, worker.refs, r)
        BY <1>12, <3>1
      <4>2. job.rev \in Nat /\ r.rev \in Nat
        BY <1>1, RowOfJob DEF JobType, RowType
      <4>3. job.pc \in Active => FromOneMap(job, worker.refs, x)
        BY <1>13, <4>1 DEF JobOK, FromOneMap, Active
      <4>4. JobOK(job, worker.refs, x)
        BY <1>3, <4>1, <4>2, <4>3 DEF JobOK
      <4> QED BY <1>6, <3>1, <4>4
    <3>2. CASE job.id # p.id
      BY <1>6, <3>2, RowOfJob
    <3> QED BY <3>1, <3>2
  <2>2. ASSUME NEW y \in put'["owner"]
        PROVE  OwnerOK(job, y) /\ \A z \in row'[y.id] : BegunOK(job, y, z)
    <3>1. CASE w = "owner"
      <4>1. y = q /\ OwnerOK(job, q)
        BY <1>8, <1>9, <1>11, <3>1 DEF OwnerOK
      <4>2. BegunOK(job, q, x)
        <5> SUFFICES ASSUME job.pc = "begin" PROVE \E g \in Maps : x.fp = {g}
          BY DEF BegunOK
        <5>1. OwnerOK(job, p) /\ JobOK(job, worker.refs, r)
          BY <1>11, <1>12, <3>1 DEF OwnerOK
        <5>2. p.status = "running" /\ r.status # "running"
          BY <1>1, <5>1 DEF OwnerOK, JobOK
        <5>3. p.begins
          BY <1>1, <5>2 DEF RequestOK
        <5> QED BY <1>13, <5>3
      <4> QED BY <1>6, <1>9, <4>1, <4>2
    <3>2. CASE w # "owner"
      <4>1. y \in put["owner"] /\ y \in RequestType
        BY <1>8, <3>2 DEF SessionInv, SessionTypes, AtMostOne, Writers
      <4>2. OwnerOK(job, y) /\ \A z \in row[y.id] : BegunOK(job, y, z)
        BY <4>1 DEF SessionInv, JobInv
      <4>3. x.fp = r.fp
        BY <1>13, <3>2
      <4>4. BegunOK(job, y, r) => BegunOK(job, y, x)
        BY <4>3 DEF BegunOK
      <4> QED BY <1>1, <1>6, <4>1, <4>2, <4>4 DEF RequestType
    <3> QED BY <3>1, <3>2
  <2> QED BY <1>2, <2>1, <2>2 DEF SessionInv, JobInv
<1>20. ToolInv'
  <2> SUFFICES ASSUME NEW t \in tool, NEW y \in t.seen, NEW z \in row'[job.id]
               PROVE  y.fp = z.fp
    BY <1>2 DEF SessionInv, ToolInv
  <2>1. job.pc \in {"active", "closing"} /\ \A u \in row[job.id] : y.fp = u.fp
    BY DEF SessionInv, ToolInv
  <2>2. x.fp = r.fp
    BY <1>13, <2>1
  <2>3. job.id \in Sessions
    BY <2>1, RowOfJob
  <2> QED BY <1>1, <1>6, <2>1, <2>2, <2>3
<1> QED BY <1>14, <1>16, <1>17, <1>18, <1>19, <1>20 DEF SessionInv

LEMMA StepPutWrite ==
  ASSUME SessionInv, NEW w \in Writers, PutWrite(w)
  PROVE  SessionInv'
<1>1. put[w] # {}
  BY DEF PutWrite, AtStep
<1>2. CASE Request(w).rev = TheRow(Request(w).id).rev
  BY <1>2, Written
<1>3. CASE Request(w).rev # TheRow(Request(w).id).rev
  <2>1. row' = row
    BY <1>3 DEF PutWrite, UpdateAssistantSession
  <2>2. Advance(w, [Request(w) EXCEPT !.step = "refused"])
    BY <2>1 DEF PutWrite
  <2> QED BY <1>1, <2>1, <2>2, Refused DEF PutWrite
<1> QED BY <1>2, <1>3

LEMMA StepPutLost ==
  ASSUME SessionInv, NEW w \in Writers, PutLost(w)
  PROVE  SessionInv'
BY Refused DEF PutLost, AtStep
LEMMA StepCreate ==
  ASSUME SessionInv, createAssistantSession
  PROVE  SessionInv'
<1> DEFINE x == [rev |-> 1, status |-> "idle", fp |-> {}, receipts |-> {},
                 focus |-> Everything, profile |-> graph.profile]
<1>1. job.pc = "open" /\ row[job.id] = {} /\ row' = [row EXCEPT ![job.id] = {x}]
      /\ job' = [job EXCEPT !.pc = "opened", !.rev = 1]
      /\ UNCHANGED <<graph, worker, put, tool, view>>
  BY DEF createAssistantSession
<1>2. job \in JobType /\ job.status = "running" /\ put["owner"] = {} /\ tool = {}
  BY <1>1, Quiet DEF SessionInv, SessionTypes, NoJob, JobInv, Active
<1>3. job.id \in Sessions
  BY <1>2 DEF JobType
<1>4. x \in RowType /\ x.rev = 1 /\ x.status = "idle"
  <2>1. graph \in Maps /\ Everything \in Selections
    BY DEF SessionInv, SessionTypes, Selections
  <2> QED BY <2>1 DEF RowType
<1> HIDE DEF x
<1>5. row = [s \in Sessions |-> row[s]]
  BY DEF SessionInv, SessionTypes
<1>6. row'[job.id] = {x} /\ (\A s \in Sessions : s # job.id => row'[s] = row[s])
      /\ row' = [s \in Sessions |-> row'[s]]
  BY <1>1, <1>3, <1>5
<1>7. job' \in JobType /\ job'.pc = "opened" /\ job'.id = job.id /\ job'.rev = 1
      /\ job'.status = "running"
  BY <1>1, <1>2 DEF JobType
<1>8. SessionTypes'
  <2>1. \A s \in Sessions : AtMostOne(row'[s], RowType)
    BY <1>4, <1>6 DEF SessionInv, SessionTypes, AtMostOne
  <2> QED BY <1>1, <1>6, <1>7, <2>1 DEF SessionInv, SessionTypes
<1>9. RowsInv'
  BY <1>4, <1>6 DEF SessionInv, RowsInv, CompletedOK
<1>10. RequestsInv'
  <2> SUFFICES ASSUME NEW v \in Writers, NEW y \in put[v]
               PROVE  \E z \in row'[y.id] : RequestOK(y, z)
    BY <1>1 DEF RequestsInv
  <2>1. PICK z \in row[y.id] : RequestOK(y, z)
    BY DEF SessionInv, RequestsInv
  <2>2. y.id \in Sessions /\ y.id # job.id
    BY <1>1, <2>1 DEF SessionInv, SessionTypes, AtMostOne, RequestType
  <2> QED BY <1>6, <2>1, <2>2
<1>11. ViewInv'
  <2>1. ASSUME NEW v \in view PROVE \E z \in row'[v.id] : v.seen.rev <= z.rev
    <3>1. PICK z \in row[v.id] : v.seen.rev <= z.rev
      BY DEF SessionInv, ViewInv
    <3>2. v.id \in Sessions /\ v.id # job.id
      BY <1>1, <3>1 DEF SessionInv, SessionTypes, AtMostOne
    <3> QED BY <1>6, <3>1, <3>2
  <2> QED BY <1>1, <2>1 DEF SessionInv, ViewInv
<1>12. JobOK(job', worker.refs, x)
  BY <1>4, <1>7 DEF JobOK, Active
<1>13. JobInv'
  BY <1>1, <1>2, <1>6, <1>7, <1>12 DEF JobInv
<1>14. ToolInv'
  BY <1>1, <1>2 DEF ToolInv
<1> QED BY <1>8, <1>9, <1>10, <1>11, <1>13, <1>14 DEF SessionInv

-----------------------------------------------------------------------------
(* Assistant sessions: the panel, the map and the desktop                   *)

LEMMA StepViewRead ==
  ASSUME SessionInv, NEW s \in Sessions, ViewRead(s)
  PROVE  SessionInv'
<1>1. row[s] # {} /\ view' = {[id |-> s, seen |-> TheRow(s)]} /\ put["viewer"] = {}
      /\ UNCHANGED <<graph, row, job, worker, put, tool>>
  BY DEF ViewRead
<1>2. PICK r \in RowType : row[s] = {r}
  BY <1>1 DEF SessionInv, SessionTypes, AtMostOne
<1>3. TheRow(s) = r /\ r.rev \in Nat
  BY <1>2 DEF TheRow, RowType
<1>4. view' = {[id |-> s, seen |-> r]}
  BY <1>1, <1>3
<1>5. ViewInv'
  BY <1>1, <1>2, <1>3, <1>4 DEF ViewInv
<1>6. SessionTypes'
  <2>1. AtMostOne(view', [id : Sessions, seen : RowType])
    BY <1>4 DEF AtMostOne
  <2> QED BY <1>1, <2>1 DEF SessionInv, SessionTypes
<1> QED BY <1>1, <1>5, <1>6 DEF SessionInv, RowsInv, RequestsInv, JobInv, ToolInv

LEMMA StepSession ==
  ASSUME SessionInv, session
  PROVE  SessionInv'
<1>1. PICK v \in view :
        \/ put' = put
        \/ persist("viewer", v.id, v.seen.rev, "interrupted", v.seen.receipts, v.seen.focus)
  BY DEF session
<1>2. view' = {} /\ UNCHANGED <<graph, row, job, worker, tool>>
  BY DEF session
<1>3. v.id \in Sessions /\ v.seen \in RowType
  BY DEF SessionInv, SessionTypes, AtMostOne
<1>4. PICK r \in row[v.id] : v.seen.rev <= r.rev
  BY DEF SessionInv, ViewInv
<1>5. AtMostOne({}, [id : Sessions, seen : RowType])
  BY DEF AtMostOne
<1>6. CASE put' = put
  BY <1>2, <1>5, <1>6 DEF SessionInv, SessionTypes, RowsInv, RequestsInv, ViewInv, JobInv, ToolInv
<1>7. CASE persist("viewer", v.id, v.seen.rev, "interrupted", v.seen.receipts, v.seen.focus)
  <2> DEFINE p == NewRequest(v.id, v.seen.rev, "interrupted", v.seen.receipts, v.seen.focus)
  <2>1. put' = [put EXCEPT !["viewer"] = {p}]
    BY <1>7, Persisted
  <2>2. v.seen.rev \in Nat /\ v.seen.receipts \in SUBSET Cited /\ v.seen.focus \in Selections
        /\ "interrupted" \in Ended \cup {"running"} /\ "viewer" \in Writers
    BY <1>3 DEF RowType, Ended, Writers
  <2>3. p \in RequestType /\ RequestOK(p, r)
    BY <1>3, <1>4, <2>2, NewRequestIsOK
  <2>4. p.id = v.id /\ p.status = "interrupted"
    BY DEF NewRequest
  <2> HIDE DEF p
  <2>5. AtMostOne({p}, RequestType) /\ \A q \in {p} : \E z \in row[q.id] : RequestOK(q, z)
    BY <1>4, <2>3, <2>4 DEF AtMostOne
  <2>6. /\ put' = [w \in Writers |-> put'[w]] /\ put'["viewer"] = {p}
        /\ \A w \in Writers : w # "viewer" => put'[w] = put[w]
        /\ RequestsInv'
        /\ \A w \in Writers : AtMostOne(put'[w], RequestType)
    BY <1>2, <2>1, <2>2, <2>5, OneRequest
  <2>7. SessionTypes'
    BY <1>2, <1>5, <2>6 DEF SessionInv, SessionTypes
  <2>8. ViewInv'
    BY <1>2, <2>4, <2>6 DEF ViewInv
  <2>9. JobInv'
    BY <1>2, <2>6 DEF SessionInv, JobInv, Writers
  <2> QED BY <1>2, <2>6, <2>7, <2>8, <2>9 DEF SessionInv, RowsInv, ToolInv
<1> QED BY <1>1, <1>6, <1>7

LEMMA StepViewAnswer ==
  ASSUME SessionInv, ViewAnswer
  PROVE  SessionInv'
<1>1. put' = [put EXCEPT !["viewer"] = {}] /\ UNCHANGED <<graph, row, job, worker, tool, view>>
  BY DEF ViewAnswer
<1>2. "viewer" \in Writers /\ AtMostOne({}, RequestType)
  BY DEF Writers, AtMostOne
<1>3. /\ put' = [w \in Writers |-> put'[w]] /\ put'["viewer"] = {}
      /\ \A w \in Writers : w # "viewer" => put'[w] = put[w]
      /\ RequestsInv'
      /\ \A w \in Writers : AtMostOne(put'[w], RequestType)
  BY <1>1, <1>2, OneRequest
<1>4. SessionTypes'
  BY <1>1, <1>3 DEF SessionInv, SessionTypes
<1>5. ViewInv' /\ JobInv'
  BY <1>1, <1>3 DEF SessionInv, ViewInv, JobInv, Writers
<1> QED BY <1>1, <1>3, <1>4, <1>5 DEF SessionInv, RowsInv, ToolInv

LEMMA StepEditMap ==
  ASSUME SessionInv, NEW g \in Maps, EditMap(g)
  PROVE  SessionInv'
BY DEF EditMap, SessionInv, SessionTypes, RowsInv, RequestsInv, ViewInv, JobInv, ToolInv

LEMMA StepCrash ==
  ASSUME SessionInv, Crash
  PROVE  SessionInv'
<1>1. put' = [w \in Writers |-> {}] /\ tool' = {} /\ view' = {} /\ job' = NoJob
      /\ worker' = NoWorker /\ UNCHANGED <<graph, row>>
  BY DEF Crash, NoPut
<1>2. AtMostOne({}, RequestType) /\ AtMostOne({}, [id : Sessions, seen : RowType])
      /\ NoWorker \in WorkerType /\ NoJob.pc = "none"
  BY DEF AtMostOne, NoWorker, WorkerType, NoJob
<1>3. SessionTypes'
  BY <1>1, <1>2 DEF SessionInv, SessionTypes
<1> QED BY <1>1, <1>2, <1>3 DEF SessionInv, RowsInv, RequestsInv, ViewInv, JobInv, ToolInv, Writers

LEMMA SessionStep == SessionInv /\ [SessionNext]_sessionVars => SessionInv'
<1> SUFFICES ASSUME SessionInv, [SessionNext]_sessionVars PROVE SessionInv'
  OBVIOUS
<1>1. CASE UNCHANGED sessionVars
  BY <1>1 DEF sessionVars, SessionInv, SessionTypes, RowsInv, RequestsInv, ViewInv, JobInv, ToolInv
<1>2. CASE \E s \in Sessions, f \in Focuses : start(s, f)
  BY <1>2, StepStart
<1>3. CASE Controller
  BY <1>3, StepCreate, StepOpenSession, StepPersistRunning, StepBeginAnswer, StepRunQueue,
     StepEventAnswer, StepToolRead, StepToolAnswer, StepPersistOutcome, StepOutcomeAnswer
     DEF Controller
<1>4. CASE \E w \in Writers : Server(w) \/ PutLost(w)
  BY <1>4, StepPutRead, StepPutCheck, StepPutWrite, StepPutLost DEF Server
<1>5. CASE \E a \in Tools : CallTool(a)
  BY <1>5, StepCallTool
<1>6. CASE WorkerDone \/ WorkerError \/ WorkerExit \/ TimerFires \/ cancel
  BY <1>6, StepWorkerEnds, StepCancel
<1>7. CASE (\E s \in Sessions : ViewRead(s)) \/ session \/ ViewAnswer
  BY <1>7, StepViewRead, StepSession, StepViewAnswer
<1>8. CASE (\E g \in Maps : EditMap(g)) \/ Crash
  BY <1>8, StepEditMap, StepCrash
<1> QED BY <1>1, <1>2, <1>3, <1>4, <1>5, <1>6, <1>7, <1>8 DEF SessionNext

(* What a controller, its worker and a panel hold of a session is of the    *)
(* revision they know, and an analysis under way holds of the map only      *)
(* what the fingerprint in its row was taken from.                          *)
THEOREM SessionInvariant == SessionSpec => []SessionInv
<1>1. SessionInit => SessionInv
  BY SessionStart
<1>2. SessionInv /\ [SessionNext]_sessionVars => SessionInv'
  BY SessionStep
<1> QED BY <1>1, <1>2, PTL DEF SessionSpec

(* What a completed analysis cites is of the one map it names, however the  *)
(* map was edited and the session interrupted meanwhile.                    *)
THEOREM CompletedIsOfOneMap == SessionSpec => []CompletedFromOneMap
<1>1. SessionInv => CompletedFromOneMap
  BY DEF SessionInv, SessionTypes, RowsInv, CompletedOK, CompletedFromOneMap
<1> QED BY <1>1, SessionInvariant, PTL

=============================================================================
