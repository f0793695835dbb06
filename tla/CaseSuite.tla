------------------------------ MODULE CaseSuite ------------------------------
(***************************************************************************)
(* Case suites: the reports that select API cases of a catalog and say     *)
(* which of them are ready, covered, stable, impacted by a change or       *)
(* complete (internal/domain/casesuite), the batches that are started from *)
(* them (api_case_batch_plans.go) and the reports that run the selected    *)
(* cases themselves (case_suite_report.go, interface_node_report.go).      *)
(*                                                                         *)
(* A report is several reads of the Store: the catalog, the case runs, the *)
(* catalog again for the execution configs, the case runs again for the    *)
(* recent history; the planner of a batch reads the catalog once more for  *)
(* every case. Meanwhile others edit the catalog and record case runs.     *)
(*                                                                         *)
(* Cases and nodes are numbers, in the order of their identifiers; sort    *)
(* orders are equal. What a text matches (a filter, a signal of a change)  *)
(* is a set of cases, nodes and workflows. An open entry of a history is   *)
(* an execution under way: a run is ordered by the time it started.        *)
(***************************************************************************)
EXTENDS Naturals, Sequences, FiniteSets, SequencesExt

CONSTANTS
  CaseIDs,       \* identifiers of API cases
  Suites,        \* the catalogs the Store may come to hold
  SuitePackages, \* template packages a command may be pointed at instead
  Gated,         \* workflows that verify an environment
  Commands,      \* what users ask for, see Kinds
  Histories,     \* the case runs the Store may hold at the start
  Asked,         \* bound on the commands started
  Disturbed      \* bound on the edits and case runs of others and the failing calls

VARIABLES
  suite,       \* the catalog in the Store
  history,     \* [CaseIDs -> the statuses of the case's runs, oldest first]
  command,     \* the command under way or answered
  held,        \* the batch request of the last plan a client was given
  spare        \* what is left of the bounds

suiteVars == <<suite, history, command, held, spare>>

Plans == {"plan", "priority", "brief", "impact"}
Executions == {"report", "impact-report", "node-report", "kit"}
Batches == {"impact-run", "batch-cases", "batch-nodes", "batch-workflow", "batch-suite"}
Kinds == Plans \cup Executions \cup Batches
           \cup {"coverage", "inspect", "stability", "quality", "quality-plan", "incomplete"}

(* How a run of a case ends.                                                *)
Results == {"passed", "failed", "skipped"}

(* Catalogs know no other cases, and list their configs.                    *)
ASSUME SuiteAssumption ==
  /\ CaseIDs \subseteq Nat /\ IsFiniteSet(CaseIDs)
  /\ \A bundle \in Suites \cup SuitePackages :
       /\ DOMAIN bundle.cases \subseteq CaseIDs
       /\ bundle.configs \in Seq(ToSet(bundle.configs))
  /\ Histories \subseteq [CaseIDs -> Seq(Results)]
  /\ \A c \in Commands : c.kind \in Kinds
  /\ {Asked, Disturbed} \subseteq Nat

-----------------------------------------------------------------------------
(* Which cases a filter selects.                                            *)
IsExecutableCaseLifecycle(item) == item.lifecycle = "active"

CaseMatches(c, item, f) ==
  /\ f.node = 0 \/ item.node = f.node
  /\ f.status = "" \/ item.lifecycle = f.status
  /\ c \in f.text

SelectCases(bundle, f) == {c \in DOMAIN bundle.cases : CaseMatches(c, bundle.cases[c], f)}

(* Which cases a change may have broken: the ones its signals match, and    *)
(* what one pass over the bindings adds to nodes, workflows and cases.      *)
AddBinding(found, b) ==
  LET flows == IF b.node \in found.nodes THEN found.flows \cup {b.workflow} ELSE found.flows
  IN IF b.workflow \in flows
       THEN [nodes |-> found.nodes \cup ({b.node} \ {0}), flows |-> flows,
             cases |-> found.cases \cup ({b.case} \ {0})]
       ELSE [found EXCEPT !.flows = flows]

collectImpact(bundle, signal) ==
  LET found == FoldLeft(AddBinding, signal, bundle.bindings)
  IN found.cases \cup {c \in DOMAIN bundle.cases : bundle.cases[c].node \in found.nodes}

-----------------------------------------------------------------------------
(* What the recorded runs say of a case; at most one of them is under way.  *)
Finished(statuses) == RemoveFirst(statuses, "open")

StateByCase(h, c) ==
  LET latest == SelectLastInSeq(h[c], LAMBDA s : s # "open")
  IN IF latest = 0 THEN "not-run" ELSE h[c][latest]

(* The latest run decides; another status than passed counts as failed.     *)
Coverage(h, cases) == [ok |-> \A c \in cases : StateByCase(h, c) = "passed"]

RecentRuns == 10

stabilityItemForCase(h, c) ==
  LET all == Finished(h[c])
      first == IF Len(all) > RecentRuns THEN Len(all) - RecentRuns + 1 ELSE 1
      runs == SubSeq(all, first, Len(all))
  IN [known |-> runs # <<>>,
      unstable |-> {"passed", "failed"} \subseteq ToSet(runs)]

Stability(h, cases) ==
  [ok |-> \A c \in cases : LET row == stabilityItemForCase(h, c) IN row.known /\ ~row.unstable]

(* Cases without any passed run, for the page of incomplete batches.        *)
handleCaseIncompleteBatches(bundle, h) ==
  {c \in DOMAIN bundle.cases : "passed" \notin ToSet(h[c])}

-----------------------------------------------------------------------------
(* Which cases have an execution config, as the reports see it ...          *)
activeStatus(status) == status \in {"active", "Active"}

executionConfigCaseID(cfg) == IF cfg.named \/ cfg.scope = "case" THEN {cfg.case} ELSE {}

HasBody(catalog, cfg) ==
  \/ cfg.method # "POST" \/ cfg.body
  \/ cfg.case \in DOMAIN catalog.cases /\ catalog.cases[cfg.case].body = "patch"

(* Mutant of addExecutionTemplateConfig: configs of every status count.     *)
addAnyTemplateConfig(catalog, cfg) ==
  IF HasBody(catalog, cfg) THEN executionConfigCaseID(cfg) ELSE {}

addExecutionTemplateConfig(catalog, cfg) ==
  IF activeStatus(cfg.status) /\ HasBody(catalog, cfg) THEN executionConfigCaseID(cfg) ELSE {}

Configured(catalog) ==
  UNION {addExecutionTemplateConfig(catalog, cfg) : cfg \in ToSet(catalog.configs)}

ExecutionConfigSet(bundle, catalog) == Configured(bundle) \cup Configured(catalog)

(* ... and as execution finds it: the status is compared exactly, the scope *)
(* is not, all of the config has to decode, and a body is looked for later. *)
(* A config may ask for an input that nothing gives.                        *)
ExecutionConfigTargetsCase(cfg, c) == cfg.case = c /\ (cfg.named \/ cfg.scope \in {"case", "api-case"})

findCaseExecutionTemplateConfig(configs, c) ==
  LET first == SelectInSeq(configs,
                 LAMBDA cfg : /\ cfg.status = "active" /\ cfg.whole
                              /\ ExecutionConfigTargetsCase(cfg, c))
  IN IF first = 0 THEN {}
     ELSE {[method |-> configs[first].method, body |-> configs[first].body,
            asks |-> configs[first].asks]}

-----------------------------------------------------------------------------
(* The readiness of a case and what to do about it.                         *)
inspectCaseServiceReadiness(bundle, item) ==
  item.node \in DOMAIN bundle.nodes => bundle.nodes[item.node] \in {"none", "ready"}

Runnable(bundle, configs, c) == bundle.cases[c].path \/ c \in configs

Ready(bundle, configs, c) ==
  /\ IsExecutableCaseLifecycle(bundle.cases[c])
  /\ Runnable(bundle, configs, c)
  /\ inspectCaseServiceReadiness(bundle, bundle.cases[c])

SuggestedAction(bundle, configs, h, c) ==
  IF ~IsExecutableCaseLifecycle(bundle.cases[c]) THEN "review-status"
  ELSE IF ~Runnable(bundle, configs, c) THEN "add-runnable-case"
  ELSE CASE StateByCase(h, c) = "failed" -> "rerun"
         [] StateByCase(h, c) = "not-run" -> "run"
         [] OTHER -> "keep"

Inspect(bundle, configs, cases) ==
  [ok |-> cases # {} /\ \A c \in cases : Ready(bundle, configs, c)]

Plan(bundle, configs, h, cases, actions) ==
  {c \in cases : /\ Ready(bundle, configs, c)
                 /\ actions = {} \/ SuggestedAction(bundle, configs, h, c) \in actions}

(* The order in which cases deserve a run.                                  *)
priorityScore(impacted, latest, unstable, weight) ==
    (IF impacted THEN 100 ELSE 0)
  + (CASE latest = "failed" -> 60 [] latest = "not-run" -> 30 [] latest = "passed" -> 5
       [] OTHER -> 0)
  + (IF unstable THEN 40 ELSE 0) + weight

Precedes(bundle, score, c, d) ==
  LET p == bundle.cases[c] q == bundle.cases[d]
  IN \/ score[c] > score[d]
     \/ /\ score[c] = score[d]
        /\ \/ p.priority > q.priority
           \/ p.priority = q.priority /\ p.node < q.node
           \/ p.priority = q.priority /\ p.node = q.node /\ c < d

Priority(bundle, configs, h, recent, cases, signal, limit) ==
  LET ready == {c \in cases : Ready(bundle, configs, c)}
      score == [c \in ready |->
                  priorityScore(c \in collectImpact(bundle, signal), StateByCase(h, c),
                                stabilityItemForCase(recent, c).unstable, bundle.cases[c].priority)]
  IN IF limit = 0 THEN ready
     ELSE {c \in ready : Cardinality({d \in ready : Precedes(bundle, score, d, c)}) < limit}

-----------------------------------------------------------------------------
(* How complete the maintained cases are, and what is left to do.           *)
qualityCaseIssues(item, configured) ==
  UNION {IF item.source = "broken" THEN {"missing-executor"} ELSE {},
         IF IsExecutableCaseLifecycle(item) THEN {} ELSE {"lifecycle"},
         IF item.described THEN {} ELSE {"metadata"},
         IF item.path \/ item.source # "none" THEN {} ELSE {"runnable"},
         IF configured \/ item.source = "usable" THEN {} ELSE {"execution"}}

Uncovered(bundle, f, cases) ==
  {n \in DOMAIN bundle.nodes : /\ f.node = 0 \/ n = f.node
                               /\ \A c \in cases : bundle.cases[c].node # n}

Quality(bundle, configs, f, cases) ==
  [ok |-> /\ Uncovered(bundle, f, cases) = {}
          /\ \A c \in cases : qualityCaseIssues(bundle.cases[c], c \in configs) = {}]

QualityPlan(bundle, configs, f, cases) ==
  {<<"draft-case", n>> : n \in Uncovered(bundle, f, cases)}
  \cup UNION {{<<i, c>> : i \in qualityCaseIssues(bundle.cases[c], c \in configs)
                                \ {"missing-executor"}} : c \in cases}

-----------------------------------------------------------------------------
(* The configs a report of executed cases adds to the bundle: for the cases *)
(* of a node without one, the first config that names a case of the node,   *)
(* with the payload of the case merged into it. They come last.             *)
deriveInterfaceNodeCaseConfigs(bundle, c) ==
  LET node == bundle.cases[c].node
      ofNode == SelectSeq(bundle.configs,
                  LAMBDA cfg : /\ cfg.named /\ cfg.case \in DOMAIN bundle.cases
                               /\ bundle.cases[cfg.case].node = node)
      configured == \E cfg \in ToSet(bundle.configs) :
                      cfg.named /\ cfg.case = c /\ cfg.status = "active"
  IN IF configured \/ ofNode = <<>> \/ node \notin DOMAIN bundle.nodes THEN <<>>
     ELSE <<[ofNode[1] EXCEPT !.case = c, !.named = TRUE, !.scope = "case", !.status = "active",
                              !.node = node,
                              !.body = @ \/ bundle.cases[c].body # "none"]>>

deriveCaseSuiteConfigs(bundle, cases) ==
  LET one(configs, c) == configs \o deriveInterfaceNodeCaseConfigs(bundle, c)
  IN [bundle EXCEPT !.configs =
        FoldLeft(one, bundle.configs, SetToSortSeq(cases, LAMBDA c, d : c < d))]

(* The config execution falls back on: one of the same node, or the request *)
(* template of the case.                                                    *)
deriveCaseExecutionConfigFromCatalog(catalog, c) ==
  LET item == catalog.cases[c]
      siblings == SelectSeq(catalog.configs,
                    LAMBDA cfg : /\ cfg.status = "active" /\ cfg.whole
                                 /\ \/ cfg.node # 0 /\ cfg.node = item.node
                                    \/ /\ cfg.named /\ cfg.case \in DOMAIN catalog.cases
                                       /\ catalog.cases[cfg.case].node = item.node)
  IN IF siblings # <<>>
       THEN {[method |-> siblings[1].method, body |-> siblings[1].body, asks |-> FALSE]}
     ELSE IF item.template = "none" THEN {}
     ELSE {[method |-> item.template, body |-> item.template = "POST", asks |-> FALSE]}

findRunnableAPICase(bundle, catalog, c) ==
  LET own == findCaseExecutionTemplateConfig(bundle.configs, c)
      stored == findCaseExecutionTemplateConfig(catalog.configs, c)
      derived == IF c \in DOMAIN catalog.cases
                   THEN deriveCaseExecutionConfigFromCatalog(catalog, c) ELSE {}
  IN IF own # {} THEN own ELSE IF stored # {} THEN stored ELSE derived

(* The file of a case, the bundle's before the catalog's, unless the path   *)
(* is a reference to the record in the Store.                               *)
HasCaseFile(bundle, catalog, c) ==
  LET holders == SelectSeq(<<bundle, catalog>>,
                   LAMBDA k : c \in DOMAIN k.cases /\ k.cases[c].path)
  IN holders # <<>> /\ ~holders[1].cases[c].stored

(* What running a case may come to: passed or failed, or a failure that is  *)
(* certain. A refused case is one the test kit answers without a result.    *)
executeTestKitCase(bundle, catalog, c, timed) ==
  LET known == {k \in {bundle, catalog} : c \in DOMAIN k.cases}
      items == {k.cases[c] : k \in known}
      config == findRunnableAPICase(bundle, catalog, c)
      bodied == \A e \in config : e.method # "POST" \/ e.body \/ \E i \in items : i.body = "patch"
  IN IF known = {} THEN {"refused"}
     ELSE IF \E e \in config : e.asks THEN {"failed"}
     ELSE IF ~timed THEN {"refused"}
     ELSE IF HasCaseFile(bundle, catalog, c) THEN {"passed", "failed"}
     ELSE IF config # {} THEN IF bodied THEN {"passed", "failed"} ELSE {"failed"}
     ELSE IF \E i \in items : i.source # "none" THEN {"refused"}
     ELSE {"failed"}

-----------------------------------------------------------------------------
NoCommand ==
  [pc |-> "idle", ask |-> {}, bundle |-> {}, todo |-> <<>>, cases |-> {}, seen |-> {},
   selected |-> {}, left |-> {}, plans |-> {}, running |-> {}, failed |-> {},
   ok |-> FALSE, outcome |-> "", quiet |-> TRUE, alone |-> TRUE]

SuiteInit ==
  /\ suite \in Suites
  /\ history \in Histories
  /\ command = NoCommand
  /\ held = {}
  /\ spare = [commands |-> Asked, others |-> Disturbed]

TakeSpare(what) == spare[what] > 0 /\ spare' = [spare EXCEPT ![what] = @ - 1]

interfaceNodeReportCases(bundle, n) == {c \in DOMAIN bundle.cases : bundle.cases[c].node = n}

testKitCaseIDs == UNION {h.cases : h \in held}

(* The cases a request is about, among the ones of the bundle.              *)
Requested(ask, bundle) ==
  CASE ask.kind \in {"impact", "impact-run", "impact-report"} ->
         SelectCases(bundle, ask.filter) \cap collectImpact(bundle, ask.signal)
    [] ask.kind \in {"node-report", "batch-nodes"} ->
         interfaceNodeReportCases(bundle, ask.filter.node)
    [] ask.kind = "kit" -> testKitCaseIDs
    [] ask.kind = "batch-cases" -> testKitCaseIDs \cap DOMAIN bundle.cases
    [] ask.kind = "batch-workflow" ->
         {b.case : b \in {b \in ToSet(bundle.bindings) : b.workflow = ask.flow}}
           \cap DOMAIN bundle.cases
    [] OTHER -> SelectCases(bundle, ask.filter)

(* The reads of the Store that follow the one of the catalog, in order.     *)
Reads(ask) ==
  CASE ask.kind \in {"coverage", "incomplete"} -> <<"records">>
    [] ask.kind \in {"inspect", "plan", "impact", "impact-run", "impact-report"} ->
         <<"records", "configs">>
    [] ask.kind = "stability" -> <<"recent">>
    [] ask.kind = "priority" -> <<"records", "configs", "recent">>
    [] ask.kind = "brief" -> <<"coverage", "records", "configs", "recent">>
    [] ask.kind \in {"quality", "quality-plan"} -> <<"configs">>
    [] ask.kind = "batch-suite" /\ ask.states # {} -> <<"records">>
    [] OTHER -> <<>>

(* A request takes its snapshot of the catalog: a handler the one in the    *)
(* Store, a command line that one or a template package.                    *)
currentProfileBundleSnapshot(ask) == IF ask.package THEN SuitePackages ELSE {suite}

BeginCommand(ask) ==
  /\ command.pc \in {"idle", "done"} /\ TakeSpare("commands")
  /\ ask.kind \in {"kit", "batch-cases"} => held # {}
  /\ \E bundle \in currentProfileBundleSnapshot(ask) :
       command' = [NoCommand EXCEPT
         !.pc = "reading", !.ask = ask, !.bundle = bundle, !.todo = Reads(ask),
         !.cases = Requested(ask, bundle),
         !.seen = [r \in {"coverage", "records", "recent", "configs"} |->
                     IF r = "configs" THEN {} ELSE history],
         !.quiet = /\ bundle = suite
                   /\ ask.kind = "batch-cases" => \A h \in held : h.quiet /\ h.bundle = suite]
  /\ UNCHANGED <<suite, history, held>>

(* The next read: of the case runs, whose failure fails the request, or of  *)
(* the catalog's configs, whose failure leaves the ones of the snapshot.    *)
ReadStore ==
  /\ command.pc = "reading" /\ command.todo # <<>>
  /\ LET read == Head(command.todo)
         next == [command EXCEPT !.todo = Tail(@)]
     IN \/ /\ UNCHANGED spare
           /\ command' = [next EXCEPT !.seen[read] =
                IF read = "configs" THEN ExecutionConfigSet(command.bundle, suite) ELSE history]
        \/ /\ TakeSpare("others")
           /\ command' = IF read = "configs"
                THEN [next EXCEPT !.seen[read] = Configured(command.bundle)]
                ELSE [command EXCEPT !.pc = "done", !.outcome = "failed"]
  /\ UNCHANGED <<suite, history, held>>

Read == command.pc = "reading" /\ command.todo = <<>>

(* The reports that only tell.                                              *)
Answer ==
  LET b == command.bundle cs == command.cases seen == command.seen kind == command.ask.kind
      ok == CASE kind = "coverage" -> Coverage(seen.records, cs).ok
              [] kind = "incomplete" -> handleCaseIncompleteBatches(b, seen.records) = {}
              [] kind = "inspect" -> Inspect(b, seen.configs, cs).ok
              [] kind = "stability" -> Stability(seen.recent, cs).ok
              [] kind = "quality" -> Quality(b, seen.configs, command.ask.filter, cs).ok
              [] OTHER -> QualityPlan(b, seen.configs, command.ask.filter, cs) = {}
  IN /\ Read /\ kind \notin Plans \cup Executions \cup Batches
     /\ command' = [command EXCEPT !.pc = "done", !.outcome = "answered", !.ok = ok]
     /\ UNCHANGED <<suite, history, held, spare>>

Selected ==
  LET b == command.bundle cs == command.cases seen == command.seen ask == command.ask
  IN CASE ask.kind \in {"priority", "brief"} ->
            Priority(b, seen.configs, seen.records, seen.recent, cs, ask.signal, ask.limit)
       [] ask.kind = "batch-suite" /\ ask.states # {} ->
            {c \in cs : StateByCase(seen.records, c) \in ask.states}
       [] ask.kind \in {"plan", "impact", "impact-run", "impact-report"} ->
            Plan(b, seen.configs, seen.records, cs, ask.actions)
       [] OTHER -> cs

(* The reports whose batch request a client may post later.                 *)
AnswerPlan ==
  /\ Read /\ command.ask.kind \in Plans
  /\ command' = [command EXCEPT !.pc = "done", !.outcome = "answered", !.selected = Selected,
                                !.ok = IF command.ask.kind = "brief" THEN command.cases # {}
                                       ELSE Selected # {}]
  /\ held' = {[cases |-> Selected, bundle |-> command.bundle, quiet |-> command.quiet]}
  /\ UNCHANGED <<suite, history, spare>>

-----------------------------------------------------------------------------
(* A batch: gates, a plan of every case, and its start.                     *)
prepareAPICaseBatchRun ==
  LET gated == command.ask.kind = "batch-workflow" /\ command.ask.flow \in Gated
  IN /\ Read /\ command.ask.kind \in Batches
     /\ command' =
          IF gated \/ (command.ask.kind = "impact-run" /\ Selected = {})
            THEN [command EXCEPT !.pc = "done", !.outcome = "refused", !.selected = Selected]
            ELSE [command EXCEPT !.pc = "planning", !.selected = Selected, !.left = Selected]
     /\ UNCHANGED <<suite, history, held, spare>>

Least(s) == CHOOSE c \in s : \A d \in s : c <= d

(* The catalog is read for every case; a failing read finds no config, and  *)
(* a case with neither a file nor a config is left out without a word.      *)
apiCaseBatchPlanFromCase ==
  /\ command.pc = "planning" /\ command.left # {}
  /\ LET c == Least(command.left)
         next == [command EXCEPT !.left = @ \ {c}]
         file == command.bundle.cases[c].path
         with(found) == IF file \/ found THEN [next EXCEPT !.plans = @ \cup {c}] ELSE next
     IN \/ /\ command' = with(findCaseExecutionTemplateConfig(suite.configs, c) # {})
           /\ UNCHANGED spare
        \/ /\ TakeSpare("others") /\ command' = [with(FALSE) EXCEPT !.quiet = FALSE]
  /\ UNCHANGED <<suite, history, held>>

MaxTimeout == 600

selectedAPICaseBatchTimeoutSeconds(ask, item) ==
  IF ask.timeout # 0 THEN ask.timeout ELSE item.timeout

(* A batch of a workflow needs a plan for each case its steps require.      *)
apiCaseBatchWorkflowPlans(bundle, flow, plans) ==
  \A s \in ToSet(bundle.bindings) : s.workflow = flow /\ s.required => s.case \in plans

startAPICaseBatchRun ==
  LET b == command.bundle ask == command.ask
      refused == \/ command.plans = {}
                 \/ /\ ask.kind = "batch-workflow"
                    /\ ~apiCaseBatchWorkflowPlans(b, ask.flow, command.plans)
                 \/ \E c \in command.plans :
                      selectedAPICaseBatchTimeoutSeconds(ask, b.cases[c]) > MaxTimeout
  IN /\ command.pc = "planning" /\ command.left = {}
     /\ \/ refused /\ command' = [command EXCEPT !.pc = "done", !.outcome = "refused"]
           /\ UNCHANGED spare
        \/ ~refused /\ command' = [command EXCEPT !.pc = "done", !.outcome = "started"]
           /\ UNCHANGED spare
        \/ ~refused /\ TakeSpare("others")
           /\ command' = [command EXCEPT !.pc = "done", !.outcome = "failed"]
     /\ UNCHANGED <<suite, history, held>>

-----------------------------------------------------------------------------
(* A report that runs the cases it selects, one after the other.            *)
executeCaseSuiteReport ==
  /\ Read /\ command.ask.kind \in Executions
  /\ command' =
       IF Selected = {} THEN [command EXCEPT !.pc = "done", !.outcome = "failed"]
       ELSE [command EXCEPT !.pc = "executing", !.selected = Selected, !.left = Selected,
                            !.bundle = IF command.ask.kind = "kit" THEN @
                                       ELSE deriveCaseSuiteConfigs(@, Selected)]
  /\ UNCHANGED <<suite, history, held, spare>>

(* The case is looked up and its execution begins; how it ends is known to  *)
(* the service it calls. The test kit takes its timeout from the bundle.    *)
RunCase ==
  /\ command.pc = "executing" /\ command.left # {} /\ command.running = {}
  /\ LET c == Least(command.left)
         timed == \/ command.ask.kind # "kit" \/ c \notin DOMAIN command.bundle.cases
                  \/ command.bundle.cases[c].timeout <= MaxTimeout
     IN \E result \in executeTestKitCase(command.bundle, suite, c, timed) :
          /\ command' = [command EXCEPT !.running = {<<c, result>>}, !.left = @ \ {c}]
          /\ history' = [history EXCEPT ![c] = Append(@, "open")]
  /\ UNCHANGED <<suite, held, spare>>

(* A command line does not record a refused case, the batch of the test kit *)
(* records it as failed. A failing record ends the report, with or without  *)
(* the case run.                                                            *)
CloseRun(c, result) ==
  IF result = "refused" /\ command.ask.kind # "kit" THEN Finished(history[c])
  ELSE [i \in DOMAIN history[c] |->
          IF history[c][i] # "open" THEN history[c][i]
          ELSE IF result = "passed" THEN result ELSE "failed"]

recordTestKitRun ==
  /\ command.pc = "executing"
  /\ \E r \in command.running :
       LET c == r[1] result == r[2]
           recorded == [history EXCEPT ![c] = CloseRun(c, result)]
           lost == [history EXCEPT ![c] = Finished(@)]
       IN \/ /\ history' = recorded
             /\ command' = [command EXCEPT !.running = {},
                              !.failed = IF result = "passed" THEN @ ELSE @ \cup {c}]
             /\ UNCHANGED spare
          \/ /\ TakeSpare("others") /\ result # "refused"
             /\ history' \in {recorded, lost}
             /\ command' = [command EXCEPT !.pc = "done", !.running = {}, !.outcome = "failed"]
  /\ UNCHANGED <<suite, held>>

FinishReport ==
  /\ command.pc = "executing" /\ command.left = {} /\ command.running = {}
  /\ command' = [command EXCEPT !.pc = "done", !.outcome = "answered",
                                !.ok = command.failed = {}]
  /\ UNCHANGED <<suite, history, held, spare>>

(* The process of a report ends with a case under way.                      *)
Kill ==
  /\ command.pc = "executing" /\ command.running # {} /\ TakeSpare("others")
  /\ history' = [c \in CaseIDs |-> Finished(history[c])]
  /\ command' = NoCommand
  /\ UNCHANGED <<suite, held>>

-----------------------------------------------------------------------------
(* Others publish another catalog and record case runs: with a run that     *)
(* started last, or with one that started before the latest.                *)
EditSuite ==
  /\ TakeSpare("others")
  /\ suite' \in Suites \ {suite}
  /\ command' = [command EXCEPT !.quiet = @ /\ command.pc = "done"]
  /\ UNCHANGED <<history, held>>

OtherRun ==
  /\ TakeSpare("others")
  /\ \E c \in CaseIDs, status \in {"passed", "failed", "skipped"} :
       LET runs == history[c]
       IN history' \in {[history EXCEPT ![c] = Append(@, status)]}
            \cup IF runs = <<>> THEN {}
                 ELSE {[history EXCEPT ![c] = InsertAt(@, Len(runs), status)]}
  /\ command' = [command EXCEPT !.alone = FALSE]
  /\ UNCHANGED <<suite, held>>

SuiteNext ==
  \/ \E ask \in Commands : BeginCommand(ask)
  \/ ReadStore \/ Answer \/ AnswerPlan
  \/ prepareAPICaseBatchRun \/ apiCaseBatchPlanFromCase \/ startAPICaseBatchRun
  \/ executeCaseSuiteReport \/ RunCase \/ recordTestKitRun \/ FinishReport
  \/ Kill \/ EditSuite \/ OtherRun

SuiteSpec == SuiteInit /\ [][SuiteNext]_suiteVars

-----------------------------------------------------------------------------
(* Cases the reports may call ready although execution finds no config: the *)
(* status of one is spelled in another way than active, or one decodes only *)
(* as far as the reports read it.                                           *)
Misspelt(bundle) ==
  {c \in DOMAIN bundle.cases :
     LET own == {cfg \in ToSet(bundle.configs) : ExecutionConfigTargetsCase(cfg, c)}
     IN /\ ~bundle.cases[c].path
        /\ \E cfg \in own : activeStatus(cfg.status)
        /\ \A cfg \in own : cfg.status # "active" \/ ~cfg.whole}

(* A batch started from a selection that nobody disturbed runs exactly the  *)
(* selected cases, but for the misspelt ones, and is refused only when      *)
(* nothing is left of them or one has a timeout that no batch allows.       *)
BatchIsTheSelection ==
  (command.pc = "done" /\ command.quiet /\ command.ask.kind \in {"impact-run", "batch-cases"})
    => LET due == command.selected \ Misspelt(command.bundle)
       IN /\ command.outcome = "started" => command.plans = due
          /\ command.outcome = "refused" =>
               \/ due = {}
               \/ \E c \in due : selectedAPICaseBatchTimeoutSeconds(
                                 command.ask, command.bundle.cases[c]) > MaxTimeout

(* A report that ran its cases and says they passed is what the coverage    *)
(* report then says of them, unless others recorded a run meanwhile.        *)
ReportIsCovered ==
  (command.pc = "done" /\ command.alone /\ command.ok /\ command.ask.kind \in Executions)
    => command.selected # {} /\ Coverage(history, command.selected).ok

(* What the case suite tells its users is what happens: a selection is the  *)
(* batch it becomes, and a passed report is the coverage it leaves, across  *)
(* the lookups of the reports, the batch planner and the test kit.          *)
SuiteKeepsItsWord == BatchIsTheSelection /\ ReportIsCovered
=============================================================================
