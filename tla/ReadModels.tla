------------------------------ MODULE ReadModels ------------------------------
(***************************************************************************)
(* The pages of the control plane about a profile and what they are made   *)
(* of: the catalog in force, the read models of the last publications, and *)
(* the runs in the Store                                                   *)
(* (internal/server/controlplane: profile_read_models.go, catalog_runs.go, *)
(* interface_node_runs.go, interface_coverage.go, dashboard_read_model.go).*)
(*                                                                         *)
(* A publication replaces the catalog and then stores one read model after *)
(* another; an edit of the catalog leaves the read models as they are. A   *)
(* page takes its list from its read model when there is one, and what it  *)
(* says of passes and failures partly from that list, partly from the      *)
(* catalog in force. Pages are operators: a request changes nothing.       *)
(*                                                                         *)
(* A catalog is a record of                                                *)
(*   services  [id, active, external, url]  url: it has a health URL       *)
(*   nodes     [id, service, timed]  timed: a slow run exceeds its timeout *)
(*   cases     [id, node, active, required]                                *)
(*   workflows ids                                                         *)
(*   bindings  [workflow, step, node, case], step a number                 *)
(* and a recorded run of [workflow, apiCase, results], its results being   *)
(* a set of [case, status, slow].                                          *)
(***************************************************************************)
EXTENDS Naturals, Sequences, FiniteSets, SequencesExt, FiniteSetsExt

(* The timeout of a node that has one, and the base timeout of a workflow. *)
NodeTimeout == 2
BaseTimeout == 3

CONSTANTS
  Publishers,   \* processes that publish or copy a profile
  Catalogs,     \* the catalogs published and edited to
  Bundle,       \* the profile bundle the server was started with
  Runs,         \* the runs that may be recorded
  Graphs,       \* the component graphs of the environments, each a set of [id, url]
  Publications, CatalogEdits, Recorded   \* bounds

VARIABLES
  current,      \* the catalog in force, {} before the first
  stored,       \* read models: key :> payload
  publisher,    \* publisher :> read models still to store, in order
  runs,         \* recorded runs, oldest first
  undisturbed,  \* publishers no other writer of the catalog overlapped (history)
  left          \* what remains of the bounds

readVars == <<current, stored, publisher, runs, undisturbed, left>>

(* A catalog is finite, and its entries are stored by their identifiers.   *)
ASSUME ReadModelsAssumption ==
  /\ \A c \in Catalogs \cup {Bundle} :
       /\ \A items \in {c.services, c.nodes, c.cases} :
            /\ IsFiniteSet(items)
            /\ \A n, m \in items : n.id = m.id => n = m
       /\ IsFiniteSet(c.workflows) /\ IsFiniteSet(c.bindings)
  /\ {Publications, CatalogEdits, Recorded} \subseteq Nat

Ids(items) == {i.id : i \in items}
ById(items, id) == CHOOSE i \in items : i.id = id
-------------------------------------------------------------------------------
(* The runs of a case.                                                     *)

(* The results of a case among the runs of a context, oldest first.        *)
CaseRuns(c, context) ==
  [i \in {i \in DOMAIN runs : /\ i \in context
                              /\ \E r \in runs[i].results : r.case = c} |->
     CHOOSE r \in runs[i].results : r.case = c]

(* The status of a run once the timeout of its node is applied.            *)
evaluateLatestCaseStateTimeout(run, timed) ==
  IF run.slow /\ timed THEN "failed" ELSE run.status

(* The status of the newest run of a case, timeouts left aside.            *)
latestCaseStates(c) ==
  LET of == CaseRuns(c, DOMAIN runs)
  IN IF DOMAIN of = {} THEN "missing" ELSE of[Max(DOMAIN of)].status

(* Any run that passed in time is preferred to the newest one.             *)
preferredCaseStates(c, timed) ==
  LET of == CaseRuns(c, DOMAIN runs)
      Status(i) == evaluateLatestCaseStateTimeout(of[i], timed)
  IN IF DOMAIN of = {} THEN "missing"
     ELSE IF \E i \in DOMAIN of : Status(i) = "passed" THEN "passed"
     ELSE Status(Max(DOMAIN of))

(* What the node page keeps as the latest run of a case while it adds the  *)
(* runs newest first: the first one, until one that passed replaces it.    *)
interfaceNodeCaseStats(c, timed, context) ==
  LET of == CaseRuns(c, context)
      Newest(S) == IF S = {} THEN 0 ELSE Max(S)
      passed == Newest({i \in DOMAIN of :
                          evaluateLatestCaseStateTimeout(of[i], timed) = "passed"})
      latest == IF passed # 0 THEN passed ELSE Newest(DOMAIN of)
  IN IF latest = 0 THEN "missing" ELSE evaluateLatestCaseStateTimeout(of[latest], timed)
-------------------------------------------------------------------------------
(* What a publication stores, and what a page without a read model shows.  *)

catalogCasesForNode(c, n) == {k \in c.cases : k.node = n /\ k.active}
activeCatalogServices(c) == {s \in c.services : s.active}

casesForCatalogNode(c, n) ==
  {[id |-> k.id, required |-> k.required] : k \in catalogCasesForNode(c, n)}
interfaceNodeDetailPayloadFromCatalog(c, n) ==
  [timed |-> ById(c.nodes, n).timed, cases |-> casesForCatalogNode(c, n)]

interfaceNodesBasePayloadFromCatalog(c) ==
  {[id |-> n.id, service |-> n.service] : n \in c.nodes}

(* Until it is observed, an external service counts as ready and any other *)
(* one is missing.                                                         *)
dashboardPayloadFromCatalog(c) ==
  {[id |-> s.id, state |-> IF s.external THEN "external" ELSE "missing", ok |-> s.external] :
     s \in activeCatalogServices(c)}

(* All workflows when w is "".                                             *)
buildInterfaceNodeCoverageRows(c, w) ==
  {[step |-> b, mapped |-> b.node \in Ids(c.nodes), status |-> "pending"] :
     b \in {b \in c.bindings : w = "" \/ b.workflow = w}}

interfaceNodeCoverageGapsPayload(rows) == {r \in rows : ~r.mapped}

(* The workflows of the catalog page: the ones with steps, or all of them  *)
(* when none has a step.                                                   *)
catalogWorkflowIDs(c) ==
  LET bound == {b.workflow : b \in c.bindings} \ {""}
  IN IF bound # {} THEN bound ELSE c.workflows \ {""}

catalogServicesFromStore(c) == Ids(c.services) \cup {n.service : n \in c.nodes}

(* The step of a binding: a step whose node is not in the catalog has no   *)
(* service and no timeout of its own.                                      *)
catalogWorkflowStepFromStore(c, b) ==
  LET nodes == {n \in c.nodes : n.id = b.node}
  IN [binding |-> b, service |-> {n.service : n \in nodes},
      timeout |-> IF \E n \in nodes : n.timed THEN NodeTimeout ELSE 0]

(* Steps without a timeout of their own count with the base timeout.       *)
workflowBudgetMs(steps) ==
  MapThenSumSet(LAMBDA t : IF t.timeout > 0 THEN t.timeout ELSE BaseTimeout, steps)

catalogWorkflowFromStore(c, w) ==
  LET steps == {catalogWorkflowStepFromStore(c, b) : b \in {b \in c.bindings : b.workflow = w}}
  IN [id |-> w, steps |-> {t.binding : t \in steps},
      services |-> Cardinality(UNION {t.service : t \in steps}),
      timeout |-> workflowBudgetMs(steps)]

(* An edge for two steps of a workflow that follow each other, those of no *)
(* known service left out, and differ in their service.                    *)
catalogTopologyFromWorkflows(c) ==
  LET Steps(w) == {t \in {catalogWorkflowStepFromStore(c, b) : b \in c.bindings} :
                     t.binding.workflow = w /\ t.service # {}}
      Follows(t, u, w) == /\ t.binding.step < u.binding.step
                          /\ ~\E v \in Steps(w) : /\ t.binding.step < v.binding.step
                                                  /\ v.binding.step < u.binding.step
      Edges(w) == {<<e[1].service, e[2].service>> :
                     e \in {e \in Steps(w) \X Steps(w) :
                              Follows(e[1], e[2], w) /\ e[1].service # e[2].service}}
  IN UNION {Edges(w) : w \in catalogWorkflowIDs(c)}

catalogPayloadFromStoreCatalog(c) ==
  [services |-> catalogServicesFromStore(c),
   workflows |-> {catalogWorkflowFromStore(c, w) : w \in catalogWorkflowIDs(c)},
   topology |-> catalogTopologyFromWorkflows(c)]

(* The read models of a catalog.                                           *)
InterfaceNodesReadModel(c) ==
  [key |-> <<"interface-nodes">>, payload |-> interfaceNodesBasePayloadFromCatalog(c)]
CatalogReadModel(c) == [key |-> <<"catalog">>, payload |-> catalogPayloadFromStoreCatalog(c)]
DashboardReadModel(c) == [key |-> <<"dashboard">>, payload |-> dashboardPayloadFromCatalog(c)]
InterfaceNodeDetailReadModels(c) ==
  SetToSeq({[key |-> <<"interface-node", n>>,
             payload |-> interfaceNodeDetailPayloadFromCatalog(c, n)] : n \in Ids(c.nodes)})

interfaceNodeCoverageWorkflowIDs(c) ==
  (c.workflows \cup {b.workflow : b \in c.bindings}) \ {""}
InterfaceNodeCoverageReadModels(c) ==
  LET ids == SetToSeq(interfaceNodeCoverageWorkflowIDs(c))
  IN [i \in 1..(2 * Len(ids)) |->
        LET w == ids[(i + 1) \div 2]
            rows == buildInterfaceNodeCoverageRows(c, w)
        IN IF i % 2 = 1 THEN [key |-> <<"interface-node-coverage", w>>, payload |-> rows]
           ELSE [key |-> <<"interface-node-coverage-gaps", w>>,
                 payload |-> interfaceNodeCoverageGapsPayload(rows)]]

(* In the order in which they are stored.                                  *)
ProfileReadModels(c) ==
  <<InterfaceNodesReadModel(c), CatalogReadModel(c), DashboardReadModel(c)>>
  \o InterfaceNodeDetailReadModels(c) \o InterfaceNodeCoverageReadModels(c)
-------------------------------------------------------------------------------
(* The pages.                                                              *)

readModelPayload(key) == IF key \in DOMAIN stored THEN {stored[key]} ELSE {}

(* The payload of a read model, or what is computed without one.           *)
Preferred(key, fallback) ==
  LET model == readModelPayload(key)
  IN IF model # {} THEN CHOOSE p \in model : TRUE ELSE fallback

InForce == CHOOSE c \in current : TRUE

(* The runs the query of a page asks for: all, or those of one workflow.   *)
interfaceNodeRunContext(w) == {i \in DOMAIN runs : w = "" \/ runs[i].workflow = w}

(* Required cases without a pass block the admission, those that just have *)
(* not run included.                                                       *)
interfaceNodeAdmissionState(page, context) ==
  {k \in page.cases : /\ k.required
                      /\ interfaceNodeCaseStats(k.id, page.timed, context) # "passed"}

(* How many runs of the page's cases passed and failed.                    *)
interfaceNodeHistory(page, context) ==
  LET Ended(k, i, status) ==
        LET of == CaseRuns(k.id, context)
        IN i \in DOMAIN of /\ evaluateLatestCaseStateTimeout(of[i], page.timed) = status
      Count(status) == Cardinality({x \in page.cases \X context : Ended(x[1], x[2], status)})
  IN [passed |-> Count("passed"), failed |-> Count("failed")]

(* The page of a node with its admission; one without cases stays pending. *)
hydrateInterfaceNodeHistory(page, context) ==
  LET blockers == interfaceNodeAdmissionState(page, context)
  IN [cases |-> page.cases, history |-> interfaceNodeHistory(page, context),
      status |-> CASE blockers # {} -> "failed"
                   [] blockers = {} /\ (\E k \in page.cases : k.required) -> "passed"
                   [] OTHER -> "pending"]

(* The cases of a bundle are never required.                               *)
casesForNode(n) == {[id |-> k.id, required |-> FALSE] : k \in {k \in Bundle.cases : k.node = n}}
interfaceNodeDetailPayloadFromBundle(n) ==
  {[timed |-> m.timed, cases |-> casesForNode(n)] : m \in {m \in Bundle.nodes : m.id = n}}

(* The read model of a node, else the catalog, else the bundle. The model  *)
(* of a node outlives the node.                                            *)
interfaceNodeDetail(n) ==
  LET model == readModelPayload(<<"interface-node", n>>)
  IN CASE current # {} /\ model # {} -> model
       [] current # {} /\ model = {} /\ n \in Ids(InForce.nodes) ->
            {interfaceNodeDetailPayloadFromCatalog(InForce, n)}
       [] OTHER -> interfaceNodeDetailPayloadFromBundle(n)

interfaceNodePage(n, w) ==
  {hydrateInterfaceNodeHistory(page, interfaceNodeRunContext(w)) : page \in interfaceNodeDetail(n)}

(* The admission of a node by the catalog in force and the states of its   *)
(* required cases: as the directory and the coverage pages count it.       *)
interfaceNodeCoverageAdmission(n, states) ==
  LET required == {k \in catalogCasesForNode(InForce, n) : k.required}
  IN IF required # {} /\ (\A k \in required : states[k.id] = "passed") THEN "passed"
     ELSE IF \E k \in required : states[k.id] = "failed" THEN "failed" ELSE "pending"

(* The nodes of one service, or all when s is "".                          *)
OfService(items, s) == {item \in items : s = "" \/ item.service = s}

(* A node the catalog in force does not know has no required case.         *)
hydrateInterfaceNodesPayload(items) ==
  LET Timed(n) == \E m \in InForce.nodes : m.id = n /\ m.timed
      States(n) == [c \in Ids(InForce.cases) |-> preferredCaseStates(c, Timed(n))]
  IN {[id |-> item.id, status |-> interfaceNodeCoverageAdmission(item.id, States(item.id))] :
        item \in items}

interfaceNodesPayloadFromStore(s) ==
  hydrateInterfaceNodesPayload(
    OfService(Preferred(<<"interface-nodes">>, interfaceNodesBasePayloadFromCatalog(InForce)), s))
interfaceNodesPayloadFromBundle(s) ==
  {[id |-> n.id, status |-> "pending"] : n \in OfService(Bundle.nodes, s)}
interfaceNodesPage(s) ==
  IF current # {} /\ InForce.nodes # {}
  THEN interfaceNodesPayloadFromStore(s) ELSE interfaceNodesPayloadFromBundle(s)

(* The rows of a workflow's coverage, with the admission of each node.     *)
hydrateInterfaceNodeCoveragePayload(rows) ==
  LET states == [c \in Ids(InForce.cases) |-> latestCaseStates(c)]
  IN {[r EXCEPT !.status = interfaceNodeCoverageAdmission(r.step.node, states)] : r \in rows}

interfaceNodeCoverageSummary(rows) ==
  [mapped |-> Cardinality({r \in rows : r.mapped}),
   passed |-> Cardinality({r \in rows : r.status = "passed"})]

interfaceNodeCoveragePage(w) ==
  LET rows == IF current = {} THEN buildInterfaceNodeCoverageRows(Bundle, w)
              ELSE hydrateInterfaceNodeCoveragePayload(
                     Preferred(<<"interface-node-coverage", w>>,
                               buildInterfaceNodeCoverageRows(InForce, w)))
  IN [rows |-> rows, summary |-> interfaceNodeCoverageSummary(rows)]

interfaceNodeCoverageGapsPage(w) ==
  IF current = {} THEN interfaceNodeCoverageGapsPayload(buildInterfaceNodeCoverageRows(Bundle, w))
  ELSE Preferred(<<"interface-node-coverage-gaps", w>>,
                 interfaceNodeCoverageGapsPayload(buildInterfaceNodeCoverageRows(InForce, w)))

catalogHasAnyState(c) ==
  c.services # {} \/ c.nodes # {} \/ c.cases # {} \/ c.workflows # {} \/ c.bindings # {}

(* The runs of workflows: a run of a single case is not one.               *)
catalogWorkflowRuns(w) == {i \in DOMAIN runs : runs[i].workflow = w /\ ~runs[i].apiCase}

(* The newest run with at least the steps of the workflow, else the newest.*)
catalogWorkflowLatestRun(w) ==
  LET of == catalogWorkflowRuns(w.id)
      whole == {i \in of : Cardinality(runs[i].results) >= Cardinality(w.steps)}
  IN CASE whole # {} -> {Max(whole)}
       [] whole = {} /\ of # {} -> {Max(of)}
       [] OTHER -> {}

(* A bundle lists its workflows, with steps or not, and draws no topology. *)
catalogPayloadFromBundle ==
  [services |-> Ids(Bundle.services),
   workflows |-> {catalogWorkflowFromStore(Bundle, w) : w \in Bundle.workflows},
   topology |-> {}]

(* The catalog page is made from the catalog in force, not from its model. *)
catalogPage ==
  LET payload == IF current # {} /\ catalogHasAnyState(InForce)
                 THEN catalogPayloadFromStoreCatalog(InForce) ELSE catalogPayloadFromBundle
  IN [payload EXCEPT !.workflows =
        {[id |-> w.id, steps |-> w.steps, latest |-> catalogWorkflowLatestRun(w)] : w \in @}]

(* A service is ready when its health URL answers while its container runs *)
(* or it is external. Without a URL it is unchecked.                       *)
applyHTTPServiceHealth(id, state, url, answering) ==
  state \in {"running", "external"} /\ url /\ id \in answering

(* The environment whose graph knows most of the services gives their      *)
(* health URLs: the first one of those.                                    *)
dashboardComponentHealthURLByService(services) ==
  LET Score(e) == Cardinality({k \in Graphs[e] : k.id \in Ids(services)})
      best == {e \in DOMAIN Graphs : Score(e) > 0 /\ \A f \in DOMAIN Graphs : Score(f) <= Score(e)}
  IN IF best = {} THEN {} ELSE {k.id : k \in {k \in Graphs[Min(best)] : k.url}}

filterDashboardPayloadServices(payload, services) == {i \in payload : i.id \in Ids(services)}

(* The items of the services that are still active, observed now: the      *)
(* state of a service is that of its container, if it has one.             *)
hydrateDashboardRuntime(payload, observed, answering) ==
  LET services == activeCatalogServices(InForce)
      urls == dashboardComponentHealthURLByService(services)
      Observed(i) == IF i.id \in DOMAIN observed THEN observed[i.id] ELSE i.state
  IN {[id |-> i.id, state |-> Observed(i),
       ok |-> applyHTTPServiceHealth(i.id, Observed(i),
                i.id \in urls \/ ById(services, i.id).url, answering)] :
        i \in filterDashboardPayloadServices(payload, services)}

dashboardPayloadFromBundle(observed, answering) ==
  LET State(s) == IF s.id \in DOMAIN observed THEN observed[s.id]
                  ELSE IF s.external THEN "external" ELSE "missing"
  IN {[id |-> s.id, state |-> State(s),
       ok |-> applyHTTPServiceHealth(s.id, State(s), s.url, answering)] : s \in Bundle.services}

(* The dashboard, at a moment when some services have a container in a     *)
(* state (observed) and some answer.                                       *)
dashboardPage(observed, answering) ==
  IF current # {} /\ InForce.services # {}
  THEN hydrateDashboardRuntime(Preferred(<<"dashboard">>, dashboardPayloadFromCatalog(InForce)),
                               observed, answering)
  ELSE dashboardPayloadFromBundle(observed, answering)

dashboardSummaryForItems(items) ==
  [healthy |-> Cardinality({i \in items : i.ok}),
   missing |-> Cardinality({i \in items : ~i.ok /\ i.state = "missing"}),
   unhealthy |-> Cardinality({i \in items : ~i.ok /\ i.state # "missing"})]
-------------------------------------------------------------------------------
(* The writers.                                                            *)

PagesInit ==
  /\ current = {}
  /\ stored = [k \in {} |-> {}]
  /\ publisher = [p \in Publishers |-> <<>>]
  /\ runs = <<>>
  /\ undisturbed = {}
  /\ left = [publications |-> Publications, edits |-> CatalogEdits, runs |-> Recorded]

(* A publication, an import or a copy replaces the catalog and has the     *)
(* read models of it to store.                                             *)
PublishProfileCatalog(p, c) ==
  /\ left.publications > 0
  /\ publisher[p] = <<>>
  /\ left' = [left EXCEPT !.publications = @ - 1]
  /\ current' = {c}
  /\ publisher' = [publisher EXCEPT ![p] = ProfileReadModels(c)]
  /\ undisturbed' = IF \A q \in Publishers \ {p} : publisher[q] = <<>> THEN {p} ELSE {}
  /\ UNCHANGED <<stored, runs>>

(* Mutant of UpsertProfileReadModel: a model that is there is kept.        *)
InsertReadModel(model) ==
  IF model.key \in DOMAIN stored THEN stored
  ELSE [k \in DOMAIN stored \cup {model.key} |->
          IF k = model.key THEN model.payload ELSE stored[k]]

UpsertProfileReadModel(model) ==
  [k \in DOMAIN stored \cup {model.key} |->
     IF k = model.key THEN model.payload ELSE stored[k]]

(* One read model is stored; its owner goes on with the next one.          *)
UpsertProfileReadModels(p) ==
  /\ publisher[p] # <<>>
  /\ stored' = UpsertProfileReadModel(Head(publisher[p]))
  /\ publisher' = [publisher EXCEPT ![p] = Tail(@)]
  /\ UNCHANGED <<current, runs, undisturbed, left>>

(* A read model cannot be stored, or the process is killed: the models     *)
(* stored so far remain, and so does the catalog.                          *)
PublicationFails(p) ==
  /\ publisher[p] # <<>>
  /\ publisher' = [publisher EXCEPT ![p] = <<>>]
  /\ undisturbed' = undisturbed \ {p}
  /\ UNCHANGED <<current, stored, runs, left>>

(* An edit of the catalog by the control plane or the command line: no     *)
(* read model follows.                                                     *)
EditCatalog(c) ==
  /\ left.edits > 0
  /\ current \notin {{}, {c}}
  /\ left' = [left EXCEPT !.edits = @ - 1]
  /\ current' = {c}
  /\ undisturbed' = {}
  /\ UNCHANGED <<stored, publisher, runs>>

RecordRun(run) ==
  /\ left.runs > 0
  /\ left' = [left EXCEPT !.runs = @ - 1]
  /\ runs' = Append(runs, run)
  /\ UNCHANGED <<current, stored, publisher, undisturbed>>

PagesNext ==
  \/ \E p \in Publishers :
       \/ UpsertProfileReadModels(p) \/ PublicationFails(p)
       \/ \E c \in Catalogs : PublishProfileCatalog(p, c)
  \/ \E c \in Catalogs : EditCatalog(c)
  \/ \E run \in Runs : RecordRun(run)

PagesSpec == PagesInit /\ [][PagesNext]_readVars
-------------------------------------------------------------------------------
(* A publication nothing disturbed is over, and nothing was edited since.  *)
Settled == undisturbed # {} /\ \A p \in Publishers : publisher[p] = <<>>

AllNodes == UNION {Ids(c.nodes) : c \in Catalogs \cup {Bundle}}
AllWorkflows == (UNION {interfaceNodeCoverageWorkflowIDs(c) : c \in Catalogs}) \cup {""}

(* Once a publication that nothing disturbed is over, the pages show the   *)
(* catalog it published, whatever was published, edited or left half done  *)
(* before: the page of each node lists the node's active cases, it is      *)
(* passed exactly when the directory says so, the coverage of a workflow   *)
(* and its gaps are the steps the catalog page lists, and the dashboard    *)
(* counts every active service once, as healthy if all of them run, have   *)
(* a URL and answer. At any time, the page of a node in the context of one *)
(* workflow claims no pass that the page without it denies, and no page    *)
(* claims a pass without a run that passed.                                *)
PagesShowThePublication ==
  /\ \A n \in AllNodes : \A w \in AllWorkflows :
       \A page \in interfaceNodePage(n, w) : page.status = "passed" =>
         /\ page.history.passed > 0
         /\ \A whole \in interfaceNodePage(n, "") : whole.status = "passed"
  /\ \A w \in catalogPage.workflows : \A i \in w.latest : runs[i].workflow = w.id
  /\ Settled =>
       /\ \A n \in InForce.nodes : \A page \in interfaceNodePage(n.id, "") :
            /\ Ids(page.cases) = Ids(catalogCasesForNode(InForce, n.id))
            /\ \E item \in interfaceNodesPage("") :
                 item.id = n.id /\ (item.status = "passed" <=> page.status = "passed")
       /\ InForce.nodes # {} => Ids(interfaceNodesPage("")) = Ids(InForce.nodes)
       /\ catalogHasAnyState(InForce) => \A w \in catalogPage.workflows :
            LET page == interfaceNodeCoveragePage(w.id)
                gaps == interfaceNodeCoverageGapsPage(w.id)
            IN /\ {r.step : r \in page.rows} = w.steps
               /\ page.summary.mapped + Cardinality(gaps) = Cardinality(w.steps)
       /\ LET known == {s.id : s \in {s \in InForce.services : s.url}}
              all == Ids(activeCatalogServices(InForce))
              sum == dashboardSummaryForItems(dashboardPage([i \in all |-> "running"], all))
          IN InForce.services # {} =>
               /\ sum.healthy + sum.missing + sum.unhealthy = Cardinality(all)
               /\ all \subseteq known => sum.healthy = Cardinality(all)
===============================================================================
