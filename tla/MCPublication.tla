---------------------------- MODULE MCPublication ----------------------------
(***************************************************************************)
(* What brings a Store into being and fills it: a behaviour is about       *)
(* packages on their way into it, about processes that upgrade its schema, *)
(* about the drafts of a desktop that edits it among others, about the     *)
(* pages of the control plane over what was published, or about the suites *)
(* of API cases selected from it.                                          *)
(***************************************************************************)
EXTENDS StoreSchema, ProfilePublication, DesktopWorkspace, ReadModels, CaseSuite, TLC

CONSTANTS j1, j2, request, block, p1, p2

VARIABLE part

(* Two jobs at a time: an import, a pack, a reinstall or a restore, and a   *)
(* verify of the archive, an export over the package or an import of        *)
(* another profile's package, which the commands refuse.                    *)
R(k, s, f, a, h) ==
  [kind |-> k, source |-> s, force |-> f, audit |-> a, http |-> h, profile |-> "p"]
MCRequests ==
  j1 :> {R("import", "work", FALSE, FALSE, TRUE), R("pack", "work", TRUE, FALSE, FALSE),
         R("install", "home", TRUE, FALSE, FALSE), R("restore", "work", FALSE, FALSE, FALSE)}
  @@ j2 :> {R("verify", "archive", TRUE, FALSE, TRUE), R("export", "work", TRUE, FALSE, FALSE),
            R("import", "other", FALSE, TRUE, TRUE), R("import", "other", FALSE, FALSE, FALSE)}
Pkg(inline, file) == [manifest |-> {inline}, file |-> file]
MCDisk ==
  [s \in {"work", "archive", "home", "other"} |->
     IF s = "archive" THEN {Pkg(2, 0)} ELSE {Pkg(0, 1)}]
MCProfileOf ==
  [s \in {"work", "archive", "home", "other"} |-> IF s = "other" THEN "q" ELSE "p"]

(* A request that begins with what a case beside it is configured with, and *)
(* a step block.                                                            *)
MCNodeOf == [i \in Items |-> "pay"]

(* An empty database of each kind, databases of the versions at which a     *)
(* migration begins to apply, SQLite files with legacy tables, also without *)
(* the evidence's step, one that had them and one that never did.           *)
Database(d, v, h) == [dialect |-> d, version |-> v, has |-> h]
Old == {"runs", "api_case_runs", "evidence_records", "evidence step", "profile_config",
        "observability", "indexes"}
Catalogued == Old \cup {"environments", "components", "component_links"}
Mapped == Catalogued \cup {"environment_id", "wide", "agent_tasks", "test_maps", "map_contents"}
Planned == Mapped \cup {"catalog_versions", "map_versions", "plan_instances", "plan_tasks",
                        "environment_files", "environment_runtime", "run planner",
                        "case planner", "history"}
MCStarts ==
  {Database(d, 0, {}) : d \in {"mysql", "postgres", "sqlite"}}
  \cup {Database("mysql", 5, Catalogued), Database("mysql", 19, Planned),
        Database("postgres", 5, Catalogued \cup {"wide"}), Database("postgres", 15, Mapped),
        Database("sqlite", 15, Mapped), Database("sqlite", 14, Old \cup {"legacy"}),
        Database("sqlite", 14, (Old \ {"evidence step"}) \cup {"legacy"}),
        Database("sqlite", 1, {"runs", "api_case_runs", "evidence_records", "indexes", "wide"}),
        Database("sqlite", 23, Parts \ {"legacy", "history"}),
        Database("sqlite", 21, Old \cup {"legacy", "environment_id", "agent_tasks"})}

(* Two catalogs and the bundle of another profile. The second one adds a    *)
(* required case and a node to the first, drops a timeout and a service;    *)
(* the first has a step whose node is missing. A run that passed too late,  *)
(* one that failed, and a workflow run that passed.                         *)
Service(i, a, e) == [id |-> i, active |-> a, external |-> e, url |-> e]
Node(i, s, t) == [id |-> i, service |-> s, timed |-> t]
Case(i, n, a) == [id |-> i, node |-> n, active |-> a, required |-> TRUE]
Step(n, k, c) == [workflow |-> "flow", step |-> k, node |-> n, case |-> c]
First == [services |-> {Service("api", TRUE, FALSE)}, nodes |-> {Node("pay", "api", TRUE)},
          cases |-> {Case("ok", "pay", TRUE)}, workflows |-> {"flow"},
          bindings |-> {Step("pay", 1, "ok"), Step("ship", 2, "late")}]
Second == [services |-> {Service("api", FALSE, FALSE), Service("bank", TRUE, TRUE)},
           nodes |-> {Node("pay", "api", FALSE), Node("ship", "bank", TRUE)},
           cases |-> {Case("ok", "pay", TRUE), Case("late", "pay", TRUE), Case("old", "ship", FALSE)},
           workflows |-> {"flow"}, bindings |-> {Step("pay", 1, "ok"), Step("ship", 2, "late")}]
Started == [services |-> {}, nodes |-> {Node("home", "web", FALSE)},
            cases |-> {Case("ok", "home", TRUE)}, workflows |-> {}, bindings |-> {}]
Run(a, results) == [workflow |-> "flow", apiCase |-> a, results |-> results]
Result(c, s, late) == [case |-> c, status |-> s, slow |-> late]
MCRuns == {Run(TRUE, {Result("ok", "passed", TRUE)}), Run(TRUE, {Result("ok", "failed", FALSE)}),
           Run(FALSE, {Result("ok", "passed", FALSE), Result("late", "passed", FALSE)})}
MCCatalogs == {First, Second}
MCBundle == Started
MCGraphs == << {[id |-> "bank", url |-> FALSE]}, {[id |-> "api", url |-> TRUE]} >>

(* Three catalogs of three cases: with a file, a config that is switched    *)
(* off, a config without a body; with the status of a config misspelt and a *)
(* timeout out of range; with a draft case, a node whose service is down, a *)
(* template, a path into the Store, a config that half decodes and one that *)
(* asks for an input. Every kind of command, on the command line or over    *)
(* HTTP.                                                                    *)
Api(n, p, b, t, w) ==
  [node |-> n, lifecycle |-> "active", path |-> p, stored |-> FALSE, source |-> "none", body |-> b,
   timeout |-> t, priority |-> w, described |-> TRUE, template |-> "none"]
Config(c, named, scope, s, m, b) ==
  [case |-> c, named |-> named, scope |-> scope, status |-> s, method |-> m, body |-> b, node |-> 0,
   whole |-> TRUE, asks |-> FALSE]
Bind(w, n, c, r) == [workflow |-> w, node |-> n, case |-> c, required |-> r]
SuiteOne ==
  [cases |-> <<Api(1, TRUE, "none", 0, 10), Api(1, FALSE, "none", 5, 30), Api(2, FALSE, "patch", 0, 0)>>,
   nodes |-> <<"none", "ready">>,
   configs |-> <<Config(2, FALSE, "case", "off", "GET", FALSE),
                 Config(3, TRUE, "case", "active", "POST", FALSE)>>,
   bindings |-> <<Bind("w", 1, 1, TRUE), Bind("w", 2, 3, TRUE), Bind("e", 1, 2, FALSE)>>]
SuiteTwo ==
  [SuiteOne EXCEPT
     !.cases[2].source = "usable", !.cases[1].path = FALSE, !.cases[1].source = "broken",
     !.cases[3].timeout = 601,
     !.configs = <<Config(2, TRUE, "api-case", "Active", "POST", FALSE),
                   Config(2, TRUE, "case", "Active", "GET", FALSE),
                   Config(3, TRUE, "case", "active", "GET", FALSE)>>]
SuiteThree ==
  [SuiteOne EXCEPT
     !.cases[3].lifecycle = "draft", !.nodes[1] = "unready", !.cases[2].template = "POST",
     !.cases[1].body = "payload", !.cases[1].stored = TRUE,
     !.configs = <<Config(1, TRUE, "case", "active", "POST", FALSE),
                   [Config(2, TRUE, "case", "active", "GET", FALSE) EXCEPT !.whole = FALSE],
                   [Config(3, TRUE, "case", "active", "GET", FALSE) EXCEPT !.asks = TRUE]>>]
Ask(k) ==
  [kind |-> k, filter |-> [status |-> "active", node |-> 0, text |-> {1, 2, 3}], actions |-> {},
   signal |-> [nodes |-> {1}, flows |-> {}, cases |-> {}], limit |-> 0, states |-> {},
   flow |-> "w", package |-> FALSE, timeout |-> 0]
MCCommands ==
  {Ask(k) : k \in {"plan", "priority", "brief", "impact", "report", "impact-report", "kit",
                   "impact-run", "batch-cases", "batch-workflow", "batch-suite", "coverage",
                   "inspect", "stability", "quality", "quality-plan", "incomplete"}}
  \cup {[Ask("plan") EXCEPT !.actions = {"run", "rerun"}], [Ask("plan") EXCEPT !.package = TRUE],
        [Ask("priority") EXCEPT !.limit = 1],
        [Ask("batch-suite") EXCEPT !.states = {"failed"}],
        [Ask("batch-workflow") EXCEPT !.flow = "e"], [Ask("impact-run") EXCEPT !.timeout = 60],
        [Ask("report") EXCEPT !.package = TRUE],
        [Ask("batch-nodes") EXCEPT !.filter.node = 1], [Ask("node-report") EXCEPT !.filter.node = 1]}
MCSuites == {SuiteOne, SuiteTwo, SuiteThree}
MCHistories == {<< <<>>, <<"failed">>, <<"failed", "passed">> >>}

allVars == <<part, publicationVars, schemaVars, workspaceVars, readVars, suiteVars>>

MCInit ==
  /\ part \in {"publication", "schema", "desktop", "pages", "suites"}
  /\ PublicationInit /\ SchemaInit /\ WorkspaceInit /\ PagesInit /\ SuiteInit
  /\ part # "schema" => db = Database("mysql", 0, {})
  /\ part # "suites" => suite = SuiteOne

MCNext ==
  /\ UNCHANGED part
  /\ \/ part = "publication" /\ PublicationNext /\ UNCHANGED <<schemaVars, workspaceVars, readVars, suiteVars>>
     \/ part = "schema" /\ SchemaNext /\ UNCHANGED <<publicationVars, workspaceVars, readVars, suiteVars>>
     \/ part = "desktop" /\ WorkspaceNext /\ UNCHANGED <<publicationVars, schemaVars, readVars, suiteVars>>
     \/ part = "pages" /\ PagesNext /\ UNCHANGED <<publicationVars, schemaVars, workspaceVars, suiteVars>>
     \/ part = "suites" /\ SuiteNext /\ UNCHANGED <<publicationVars, schemaVars, workspaceVars, readVars>>

MCSpec == MCInit /\ [][MCNext]_allVars
==============================================================================
