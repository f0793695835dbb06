----------------------------- MODULE MapPlanner -----------------------------
(***************************************************************************)
(* The map planner (internal/domain/mapplanner) over the stored map: it    *)
(* lowers a scope of the map to a DAG of physical tasks, each with the     *)
(* replay its case needs; `map explain --save` stores the plan with a      *)
(* fingerprint of the graph, and `map run --plan` refuses a plan whose     *)
(* graph has changed and a plan the active catalog can no longer run. The  *)
(* lease, the statuses and the failures of a run are MapRun's subject.     *)
(***************************************************************************)
EXTENDS TestPlanGraph, SequencesExt

CONSTANTS
  Family,    \* [Cases -> validation family], read off the case's text
  MaxPlans,  \* bound on saved plans
  MaxRan     \* bound on the executions of their tasks

(* Saved plans: tasks, edges, fingerprint, the steps the tasks had when     *)
(* planned, the graph of the run under way and, as history, what was run.   *)
VARIABLE plans

planVars == <<vars, plans>>

(***************************************************************************)
(* plangraph.ExplainCase: the operations a case needs, {} for an error.    *)
(***************************************************************************)
Replay(p, until, mat) ==
  [kind |-> "run_path_prefix", path |-> p, until |-> until, mat |-> mat, case |-> 0]
RunCase(c) == [kind |-> "run_case", path |-> 0, until |-> {}, mat |-> "", case |-> c]

LastOf(s) == IF s = <<>> THEN {} ELSE {s[Len(s)]}

explainFixtureBackedCaseNode(g, c) ==
  {<<Replay(m.path, {m.until}, m.id), RunCase(c)>> : m \in materializationForTarget(g, c)}

(* Mutant of explainValidationNode: the replay stops after the anchor. *)
ReplayUpToAnchor(g, c) ==
  IF materializationForTarget(g, c) # {} THEN explainFixtureBackedCaseNode(g, c)
  ELSE {<<Replay(p, g.nodes[c].anchor, ""), RunCase(c)>> :
          p \in UNION {FirstPathWith(g, a) : a \in g.nodes[c].anchor}}
explainValidationNode(g, c) ==
  LET anchored == UNION {FirstPathWith(g, a) : a \in g.nodes[c].anchor}
      before(p) == mapPathPrefixBeforeNode(g, p, CHOOSE a \in g.nodes[c].anchor : TRUE)
  IN IF materializationForTarget(g, c) # {} THEN explainFixtureBackedCaseNode(g, c)
     ELSE IF anchored # {} THEN {<<Replay(p, LastOf(before(p)), ""), RunCase(c)>> : p \in anchored}
     ELSE {<<RunCase(c)>>}

ExplainCase(g, c) ==
  IF c \notin NodesOf(g) THEN {}
  ELSE IF g.nodes[c].role = "validation" THEN explainValidationNode(g, c)
  ELSE IF FirstPathWith(g, c) # {} THEN {<<Replay(p, {c}, "")>> : p \in FirstPathWith(g, c)}
  ELSE explainFixtureBackedCaseNode(g, c)

(***************************************************************************)
(* mapplanner.Explain: tasks in order, edges between their indices, and    *)
(* for each replay group the task that replays for it.                     *)
(***************************************************************************)
EmptyPlan == [tasks |-> <<>>, edges |-> {}, groups |-> <<>>, prev |-> 0]

taskFromOperation(op) ==
  [op EXCEPT !.kind = IF @ = "run_path_prefix" /\ op.mat # "" THEN "reuse_materialization" ELSE @]

(* Mutant of replayGroupKey: the checkpoint is left out of the key. *)
GroupWithoutCheckpoint(g, c, t) == <<Interface[c], g.nodes[c].anchor, Family[c], t.path>>
replayGroupKey(g, c, t) ==
  <<Interface[c], g.nodes[c].anchor, Family[c], t.path, t.until, t.mat>>

(* The task already planned for the operation's replay group; only a       *)
(* materialized replay is shared.                                          *)
prepareReplayGroup(g, c, t, groups) ==
  {x \in ToSet(groups) : t.kind = "reuse_materialization" /\ x.key = replayGroupKey(g, c, t)}

appendCaseTask(g, c, acc, op) ==
  LET t == taskFromOperation(op)
      shared == prepareReplayGroup(g, c, t, acc.groups)
      n == Len(acc.tasks) + 1
  IN IF shared # {} THEN [acc EXCEPT !.prev = (CHOOSE x \in shared : TRUE).task]
     ELSE [tasks |-> Append(acc.tasks, t),
           edges |-> acc.edges \cup (IF acc.prev = 0 THEN {} ELSE {<<acc.prev, n>>}),
           groups |-> IF t.kind = "run_case" THEN acc.groups
                      ELSE Append(acc.groups, [key |-> replayGroupKey(g, c, t), task |-> n]),
           prev |-> n]

(* A case has one operation or two. *)
OperationsOf(g, c) == CHOOSE ops \in ExplainCase(g, c) : TRUE
planCaseNode(g, acc, c) ==
  IF ExplainCase(g, c) = {} THEN acc
  ELSE LET ops == OperationsOf(g, c)
           first == appendCaseTask(g, c, [acc EXCEPT !.prev = 0], ops[1])
       IN IF Len(ops) = 1 THEN first ELSE appendCaseTask(g, c, first, ops[2])

InNodeOrder(S) ==
  [i \in 1..Cardinality(S) |-> CHOOSE c \in S : Cardinality({d \in S : d < c}) = i - 1]
InPathOrder(g, P) ==
  [i \in 1..Cardinality(P) |-> CHOOSE p \in P : Cardinality({q \in P : Before(g, q, p)}) = i - 1]

(* validationNodeMatchesFilters and isValidationNode. *)
planCaseScope(g, acc) ==
  LET validations == InNodeOrder({c \in NodesOf(g) : g.nodes[c].role = "validation"})
      upTo[i \in 0..Len(validations)] ==
        IF i = 0 THEN acc ELSE planCaseNode(g, upTo[i - 1], validations[i])
  IN upTo[Len(validations)]

planWorkflowScope(g, P) ==
  LET ordered == InPathOrder(g, P)
  IN [EmptyPlan EXCEPT !.tasks =
        [i \in DOMAIN ordered |->
           [kind |-> IF g.steps[ordered[i]] = <<>> THEN "skip" ELSE "run_path",
            path |-> ordered[i], until |-> {}, mat |-> "", case |-> 0]]]

Queries == [scope : {"all", "cases"}, target : {0}] \cup [scope : {"case"}, target : Cases]
           \cup [scope : {"workflows"}, target : PathIds]

(* The plan, or {} when the target is missing or cannot be reached. *)
Explain(g, q) ==
  CASE q.scope = "all" -> {planCaseScope(g, planWorkflowScope(g, PathsOf(g)))}
    [] q.scope = "cases" -> {planCaseScope(g, EmptyPlan)}
    [] q.scope = "workflows" -> IF q.target \in PathsOf(g)
                                THEN {planWorkflowScope(g, {q.target})} ELSE {}
    [] q.scope = "case" -> IF ExplainCase(g, q.target) = {} THEN {}
                           ELSE {planCaseNode(g, EmptyPlan, q.target)}

(***************************************************************************)
(* What map run does with a task: the steps the executor runs, and the     *)
(* steps the preflight looks up in the active catalog first.               *)
(***************************************************************************)
PrefixUntil(g, p, until) ==
  {SubSeq(g.steps[p], 1, IndexOn(g, p, c)) : c \in {d \in until : d \in ToSet(g.steps[p])}}
TheOrEmpty(S) == IF S = {} THEN <<>> ELSE CHOOSE s \in S : TRUE

stepsForTask(g, t) ==
  CASE t.kind = "run_path" -> g.steps[t.path]
    [] t.kind = "run_path_prefix" -> TheOrEmpty(PrefixUntil(g, t.path, t.until))
    [] t.kind = "run_case" -> <<t.case>>
    [] OTHER -> <<>>

(* Mutant of preflightSteps: the target of the prefix is not looked up. *)
PrefixWithoutTarget(g, t) ==
  IF t.until = {} THEN g.steps[t.path]
  ELSE LET s == TheOrEmpty(PrefixUntil(g, t.path, t.until)) IN SubSeq(s, 1, Len(s) - 1)
preflightSteps(g, t) ==
  IF PrefixUntil(g, t.path, t.until) = {} THEN g.steps[t.path]
  ELSE TheOrEmpty(PrefixUntil(g, t.path, t.until))

(* The names a task needs that the catalog or the map does not have. *)
Missing(what, names, known) == {<<what, n>> : n \in names \ known}
inspectTask(g, cat, t) ==
  CASE t.kind \in {"run_path", "run_path_prefix"} ->
         Missing("workflow", {t.path}, cat.flows)
           \cup Missing("case", ToSet(preflightSteps(g, t)), cat.cases)
    [] t.kind = "run_case" -> Missing("case", {t.case}, cat.cases)
    [] t.kind = "reuse_materialization" ->
         IF \A m \in g.mats : m.id # t.mat THEN {<<"fixture", t.mat>>}
         ELSE Missing("workflow", {m.path : m \in {x \in g.mats : x.id = t.mat}}, cat.flows)
              \cup Missing("fixture", {t.mat}, {x.id : x \in cat.fixtures})
    [] OTHER -> {}
validateMapRunCatalogPreflight(g, cat, plan) ==
  UNION {inspectTask(g, cat, plan.tasks[i]) : i \in DOMAIN plan.tasks}

(* Mutant of GraphFingerprint: the path steps are left out. *)
FingerprintWithoutSteps(g) == [g EXCEPT !.map = "", !.paths = PathsOf(g), !.steps = <<>>]
(* GraphFingerprint covers nodes, edges, paths, steps and materializations, *)
(* not the map row or the sort orders.                                      *)
GraphFingerprint(g) == [g EXCEPT !.map = "", !.paths = PathsOf(g)]

-----------------------------------------------------------------------------
PlannerInit == Init /\ plans = {}

(* A plan is saved with the fingerprint of its graph; older records have    *)
(* none.                                                                    *)
NoFingerprint == NoGraph
NotRunning == NoGraph

(* map explain --save, or the plan map run makes for itself. *)
runMapExplain ==
  /\ stored.map # "none" /\ Cardinality(plans) < MaxPlans
  /\ \E q \in Queries, fingerprint \in {GraphFingerprint(stored), NoFingerprint} :
       \E plan \in Explain(stored, q) :
         plans' = plans \cup {[tasks |-> plan.tasks, edges |-> plan.edges, fingerprint |-> fingerprint,
                               steps |-> [i \in DOMAIN plan.tasks |-> stepsForTask(stored, plan.tasks[i])],
                               run |-> NotRunning, ran |-> {}]}
  /\ UNCHANGED vars

(* validateMapRunPlanGraph lets a saved plan run. *)
validateMapRunPlanGraph(plan) == plan.fingerprint \in {NoFingerprint, GraphFingerprint(stored)}

(* Mutant of runMapRun: the fingerprint is not looked at. *)
RunAnyPlan(plan) ==
  /\ plan.run = NotRunning
  /\ validateMapRunCatalogPreflight(stored, catalog, plan) = {}
  /\ plans' = (plans \ {plan}) \cup {[plan EXCEPT !.run = stored]}
  /\ UNCHANGED vars
(* map run --plan: the graph is read and checked, and then run.             *)
runMapRun(plan) ==
  /\ plan.run = NotRunning
  /\ validateMapRunPlanGraph(plan)
  /\ validateMapRunCatalogPreflight(stored, catalog, plan) = {}
  /\ plans' = (plans \ {plan}) \cup {[plan EXCEPT !.run = stored]}
  /\ UNCHANGED vars

(* The new summary of a task keeps the planner's grouping and not the bound *)
(* of its prefix, which is nowhere else.                                    *)
finishTask(t) == [kind |-> t.kind, path |-> t.path, until |-> {}, mat |-> t.mat, case |-> t.case]

(* A task runs the steps it has now, or it is blocked or interrupted and    *)
(* only its summary is replaced.                                            *)
executeTask(plan, i) ==
  /\ plan.run # NotRunning /\ Cardinality(plan.ran) < MaxRan
  /\ LET t == plan.tasks[i]
         run == [task |-> i, until |-> t.until, steps |-> stepsForTask(plan.run, t)]
     IN /\ t.kind # "skip"
        /\ \E now \in {plan.ran, plan.ran \cup {run}} :
             plans' = (plans \ {plan})
                        \cup {[plan EXCEPT !.tasks = [@ EXCEPT ![i] = finishTask(t)], !.ran = now]}
  /\ UNCHANGED vars

(* The run ends, or its process is killed. *)
endRun(plan) ==
  /\ plan.run # NotRunning
  /\ plans' = (plans \ {plan}) \cup {[plan EXCEPT !.run = NotRunning]}
  /\ UNCHANGED vars

PlanStep ==
  \/ runMapExplain
  \/ \E plan \in plans : runMapRun(plan) \/ endRun(plan) \/ \E i \in DOMAIN plan.tasks : executeTask(plan, i)

PlannerNext == (Next /\ UNCHANGED plans) \/ PlanStep
PlannerSpec == PlannerInit /\ [][PlannerNext]_planVars

-----------------------------------------------------------------------------
(* In every plan of every scope, a case task waits for exactly the replay  *)
(* its case needs, planned before it: sharing a materialized replay        *)
(* between cases never hands a case another case's precondition: in the    *)
(* first run of the plan, see SavedPlanRunsWhatItPlanned.  And the         *)
(* replay before a validation case runs what precedes its anchor on the    *)
(* path and never the anchor: also when the anchor is the first step and   *)
(* the prefix is empty.                                                    *)
CaseAfterItsReplay ==
  stored.map # "none" =>
    \A q \in Queries : \A plan \in Explain(stored, q) : \A i \in DOMAIN plan.tasks :
      plan.tasks[i].kind = "run_case" =>
        LET c == plan.tasks[i].case
            needed == OperationsOf(stored, c)
            waits == {e[1] : e \in {x \in plan.edges : x[2] = i}}
        IN IF Len(needed) = 1 THEN waits = {}
           ELSE \E j \in 1..(i - 1) :
                  /\ waits = {j}
                  /\ plan.tasks[j] = taskFromOperation(needed[1])
                  /\ plan.tasks[j].kind = "run_path_prefix" =>
                       \A a \in stored.nodes[c].anchor :
                         stepsForTask(stored, plan.tasks[j])
                           = mapPathPrefixBeforeNode(stored, plan.tasks[j].path, a)

(* A plan the preflight accepts sends no request for a case the catalog    *)
(* does not list and replays no checkpoint or fixture that is gone.        *)
PreflightCoversExecution ==
  stored.map # "none" =>
    \A q \in Queries : \A plan \in Explain(stored, q) :
      validateMapRunCatalogPreflight(stored, catalog, plan) = {} =>
        \A i \in DOMAIN plan.tasks :
          /\ ToSet(stepsForTask(stored, plan.tasks[i])) \subseteq catalog.cases
          /\ plan.tasks[i].kind = "reuse_materialization" =>
               \E m \in stored.mats, f \in catalog.fixtures :
                 m.id = plan.tasks[i].mat /\ f.id = m.id

(* No command is in progress.  Whatever the Store has, it also has in such  *)
(* a state, because the commands in progress may all be killed.             *)
AtRest == \A p \in Clients : cli[p].op.k = "none"

(* The two properties, where they are checked: see CaseAfterItsReplay and   *)
(* PreflightCoversExecution.                                                *)
PlansReplayFirst == AtRest => CaseAfterItsReplay
PreflightSuffices == AtRest => PreflightCoversExecution

(* A plan saved with a fingerprint, however the map was edited and imported *)
(* since, runs the cases it was planned to run. A prefix task does so while *)
(* the record has the bound of its prefix: the first execution replaces it, *)
(* and a later run of the plan runs nothing for that task.                  *)
SavedPlanRunsWhatItPlanned ==
  \A plan \in plans : plan.fingerprint # NoFingerprint =>
    \A run \in plan.ran :
      run.steps = IF plan.tasks[run.task].kind = "run_path_prefix" /\ run.until = {}
                  THEN <<>> ELSE plan.steps[run.task]
=============================================================================
