# A TLA+ model of AgentTestBench

AgentTestBench runs API test cases, workflows and planned test maps against
real systems and keeps everything it knows in a shared SQL Store. Several
processes (CLI commands on different hosts, task workers, control planes, a
desktop and its assistant) work on the same rows, crash, stall, lose answers and
are started again by operators or agents. Running a test case has side effects,
and most of the rows are read, changed in memory and written back, so the
questions worth asking are: who may write this row at this moment, can a request
whose outcome nobody knows be sent twice, can a write undo what its author never
saw, and is what a report says what happened?

This directory models the code that answers those questions, checks the models
with TLC and proves eight of them, for every value of their constants, with TLAPS.

1. Inventory · 2. Modules · 3. Runs · 4. Bounds, fairness, deadlock, mutants ·
5. Findings · 6. Proofs · 7. Only model-checked, not modelled · 8. Plan

## 1. Inventory

| Component | State | Operations | What is hard | What makes it correct |
|---|---|---|---|---|
| **Map plan lease** `store_map_plan_leases.go`, `map_run_lease.go` | lease row (owner, token, expiry), plan status; the executor's copy of the lease, its mutex, its ticker | claim, replace expired, reset, checkpoint, fence, heartbeat, release | deadlines computed from old clock readings, takeover racing renewal, lost commit answers, crashes | whoever trusts its lease is the recorded owner; a replaced owner never writes again |
| **Map run execution** `map_run_commands.go`, `map_run_executor.go`, `map_run_report.go`, `mapplanner/records.go` | task rows, task records in memory, status by task, a goroutine per task | load, prepare, waves, running checkpoint, fence, request, step checkpoint, aggregate run, final checkpoint, release | records read before the claim, concurrent tasks, a checkpoint that fails between request and answer, four resume controls in any combination | no blind replay, `--resume` keeps what passed, the released status matches the rows, runs end |
| **Scheduled agent tasks** `task_worker.go`, `task_commands.go`, `store_tasks.go` | task row (status, revision, claim token), run history | poll, claim by revision, execute, record, release, recover, schedule, stop, run, watch | polls that are old when they claim, workers that die with a claim, operators that recover a live claim | no automatic replay, no claim of a completed interval, no release of another's claim |
| **API case batch runs, run revisions, case runner** `api_case_batch_*.go`, `store_runs.go`, `run_revision.go` | run row with the lease in its summary and a revision; the control plane's report in memory | start, fence, case update, heartbeat, finalization, read-side recovery | read, check and swap in three calls, a memory copy saved over newer facts | a passed batch has passed; at most one late write; memory never claims more than the row |
| **Profile catalog versions** `store_catalog_versions.go`, `catalog_mutation.go` and the handlers and commands that edit | version rows, head, file lock | publish, roll back, mutate, replace | two writers from one base revision, rollbacks, adapters that run for minutes between read and write | an edit builds on the revision before it, every revision is closed under references |
| **Test plan graph** `plangraph/`, `store_plan_graph*.go`, `map_commands.go`, `map_validation_commands.go` | graph and version rows | import, append, update, snapshot, publish, attach, promote | a read in six selects, a write of the whole graph, no revision | acyclic always; closed as long as one process edits at a time |
| **Map planner** `mapplanner/` | saved plans with a fingerprint | explain for every scope, replay groups, preflight | minimal prefixes, materializations that stand in for paths, plans that outlive the map | a case follows its replay; what the preflight accepts can run; a saved plan runs what it planned or nothing |
| **Environment catalog and acceptance** `store_environment.go`, `environment_catalog.go`, `environment_acceptance_commands.go` and others | environment row, rows of its files, services and checks, verification mark | register, add, stop, verify, accept, publish, restart, restore's write-back | the same item in the row's JSON and in a table; whole commands between read and write | verified names a run accepted for the workflow; no undisturbed command loses an item |
| **Environment restore** `environment_restore*.go`, `environment_migration*.go` | the report, what was done outside, checkouts, container health, migration history | plan, sources, Docker, cleanup, native assets, health, workflow, readiness, write-back | every stage optional, every stage may fail; kills; one deadline for all probes | removals are asked for and allowed; OK means done; local work survives; history is true, unless a migration is replaced while it is applied |
| **Store copy and configuration** `store_copy.go`, `store_config.go` | two Stores, the file of named Stores | copy, set, use, remove | a dozen calls, each its own transaction; a name that changes meaning | what it says it copied is whole |
| **Workflow runs, post-process tasks, traces** `test_kit*.go`, `trace_collect.go`, `workflow_run*.go` | runs, case runs, evidence, topologies, tasks | execute, collect with retry, save, open a page | a collection that outlives the call, a save that copies before or after it | an opened page shows the trace that was stored |
| **Assistant sessions** `assistant_sessions.go`, `assistant_tools.go`, `desktop/assistant*` | session rows, controller, worker, engine tools | begin, tools, finish, interrupt, fence | map, session and tools are read in separate calls; lost requests and answers | a completed analysis cites one content of the map and runs of its cases; every analysis ends |
| **Profile loading, import, publication** `profile_*_commands.go`, `profilehome/`, `profilepublish/`, `profile_import.go` | package directories, index, catalog, configs, read models | pack, install, export, verify, import, publish, restore | many file system walks and Store calls, kills in between | a publication that reports success is whole |
| **Read models** `profile_read_models.go`, `dashboard_read_model.go`, `catalog_runs.go`, `interface_*.go` | read models per publication | publish, pages | models, catalog and runs of different ages | the pages show the publication |
| **Case suites, audits, reports** `casesuite/`, `api_case_batch_plans.go`, `case_suite_*.go` | none; several reads of the Store | select, plan, cover, inspect, audit, report | the same question asked of differently aged reads, and by differently written filters | a selection is the batch it becomes, a report what it leaves |
| **Schema migrations** `sqlstore/migration*.go`, `sqlite/legacy_migration.go` | tables, columns, version row | create, upgrade, normalise | statements without a transaction, three dialects, two processes | an opened Store is complete, but for what no upgrade adds |
| **Desktop** `desktop/renderer/App.jsx`, `model.mjs`, `StepLibrary.jsx` | drafts with their ETag, refreshes under way | edit, refresh, save, import, connect | refreshes in parts, applied in any order; views that leave fields out | nothing a user could see is overwritten unseen |
| **Process runners, evidence import, redaction, releases** | processes, files | | I/O, parsing, text | unit tested |

How they interact: `map run` reads the plan graph and a plan the **planner**
saved, claims the **lease**, and the **executor** runs tasks through the case
runner; every write of task rows is one transaction with a renewal of the lease.
`task worker` executes CLI commands, `map run` among them, under its own claim.
The control plane's **batches** use a second lease that lives in the run row and
is guarded by the **run revision**; a passed batch is what **acceptance** of an
environment and **restore** ask for. Everything reads the **catalog**, which
publications replace and editors change; the **read models**, the **case
suites** and the desktop's **drafts** are views of it of different ages. Two
patterns recur: *claim with a fresh token, act only behind a check of the token,
treat anything unknown as a reason to stop* (stated once, in `FencedOwnership`),
and *read everything, change a copy, write it back*, with or without a check that
nothing changed meanwhile.

`PROJECT.json` lists the hazards line by line, the files of every part, and for
every definition the lines it models.

## 2. Modules

```
FencedOwnership           what every owner/token protocol promises
  ^ implemented by          ^ implemented by
MapPlanLease              AgentTaskWorker               ApiCaseBatch
MapRun <- MapRunWaves     TestPlanGraph <- MapPlanner <- MapEditing   ProfileCatalog
EnvironmentRecord + StoreCopy                        = MCEnvironmentRecord
EnvironmentRestore + EnvironmentCheckout + RestoreHealth
                   + EnvironmentMigration            = MCEnvironmentRestore
WorkflowRuns + AssistantSession                      = MCControlPlane
ProfilePublication + StoreSchema + DesktopWorkspace
                   + ReadModels + CaseSuite          = MCPublication
```

`M <- N`: M uses what N computes or extends it. The modules joined by `+` share an
MC module: the initial state chooses which of them (`part`) the behaviour is
about, the others stand still. Every `MC` module gives its constants their
values; the `Proofs` modules extend the modules they are about.

**FencedOwnership** The recorded `owner`, the `retired` owners and the `writer`
whose write the record shows. An owner/token pair acquires once, writes while it
owns, and releases or is revoked for good.

**MapPlanLease** One plan, any number of `map run` processes. `lease` and
`planStatus` are the rows; `held`, `err`, `tick`, `beat` are `mapRunLeaseState`
and the ticker. Every transaction takes the clock reading the code took earlier,
so `BeginCheckpoint`/`Checkpoint`, `BeginFence`/`fenceMapRunOwnership`,
`HeartbeatFires`/`HeartbeatRenews` and `Start`/`ClaimRead`/`ClaimCommit` are
separate steps and the clock may move between them. The mutex is the guard of
`HeartbeatRenews`: it cannot run inside a checkpoint or a release, but it can
between the halves of a fence, because the code reads the clock before it locks.
A transaction may fail, or commit and have its answer lost. The claim is two
steps although it is one transaction: the code asks for no isolation level, so
only the primary key and the `where` clause are relied on. Every other
transaction checks ownership by a conditional update of the lease row, which then
stays locked: one step. The constant `Healthy` restricts the same actions to a
system without failures, about which `HeartbeatSuffices` is stated.

**MapRun** The same processes at the level of tasks. Time is gone: the lease is
live or expired, `Expire` may happen at any moment. A process loads the record
and its controls, claims, resets the rows (`prepareExistingMapRunRecordAt`),
works through the waves and releases. Each task has a goroutine (`thread`) that
goes through `RunTask` (the durable running mark), `Fence`, `Answer`,
`StepCheckpoint`, `Aggregate`, `FinishTask`; `KeepTask` and `BlockTask` are the
early returns of `executeTask`. A task row is its status and two facts about its
summary (`interrupted-unknown-outcome`; the `untilNodeId` a path prefix needs).
Ghosts: `unresolved` (request sent, outcome neither stored nor reset by name),
`passedThen` (stored as passed at the claim), `stale` (a reset has written an
outdated record). **MapRunWaves** is the loop of `mapRunTaskExecutionWaves` as it
is; `MapRun` uses the layers it computes through their definition.

**AgentTaskWorker** One scheduled task, any number of workers and commands. A
worker reads the clock, lists, claims by revision, executes, records and
releases; any of it may fail or be followed by a crash. Commands overwrite the
row unless it is running, with the retry of `UpsertAgentTask`;
`RecoverScheduledAgentTask` is `task stop --recover-running-claim`. Two writers
never produce the same revision (microsecond timestamps): an assumption, not
something the code enforces.

**ApiCaseBatch** One batch: the row with its lease, the goroutine that runs the
cases, the heartbeat, the report in memory and the copy that is being stored.
Each durable write is fence (`FenceReads`, `FenceSwaps`) and checkpoint
(`CheckpointReads`, `CheckpointSwaps`, `Save`); `checkpointMu` orders the owner's
two goroutines, nothing orders the readers, who recover an abandoned batch by the
same compare-and-swap. Store calls may fail and may then have taken effect.
Environment acceptance, reports and the workflow parent are the `FinalSteps`.

**ProfileCatalog** The versions of one catalog and its four kinds of writers:
commands behind a file lock, editors that name an ETag, adapters that run a
process between read and write, replacers that name no revision. A catalog is the
set of things it holds for one service, interface, case, workflow and block;
`Result(op, c)` are the catalogs an operation may compute from the one it read.

**TestPlanGraph, MapPlanner** The graph, the commands that edit it (each reads in
six selects, changes its copy, replaces everything) and the pure functions
`ImportCatalog`, `appendImportedMapGraph`, `ValidateDAG`; then the plan of every
scope, the replay each case needs, the fingerprint and the preflight
(`inspectTask`). A saved plan is run like `map run --plan` does: it is accepted when it
has no fingerprint (`NoFingerprint`, older records) or the map's, each task runs the steps
it finds (`stepsForTask`), and `finishTask` replaces the task's summary, with which the
bound of a prefix is gone. Costs and rule traces are report text. **MapEditing** adds the history
variable `alone`: no two commands have been under way at once so far.

**EnvironmentRecord** One environment: the row, its items in JSON or in tables,
the commands between their read and their write. A reader sees, of the compose files,
the env files and the file contents, the rows alone as soon as one row exists, and the
row's JSON otherwise (`MergeEnvironmentFilesIntoComposeJSON`), while services and checks
of both are put together; the row may begin with items of both kinds. **StoreCopy** copies catalog and
environments between two Stores call by call and is repeated after failures.

**EnvironmentRestore** The stages of one restore under every command line and
environment, each stage one action with its gates and its report; what was done
outside is in `effects`. **EnvironmentCheckout** (git, a developer, kills),
**RestoreHealth** (probes against one deadline, time in polls of 250 ms) and
**EnvironmentMigration** (links, history table, bootstrap SQL, several commands)
are the stages with a life of their own. A health check is its kind, the key the kind is
given under, its target and its service: the loop passes over one that is no object, has
no target or is only typed, and such a check still stands for its service when the
effective checks are put together. Migrations are ordered by `--apply-order` or by the
position the command gives them; the write of the statuses at the end of `apply` and of a
restore goes by asset id to whatever the graph has under it by then, and the ghost
`raced` has the migrations replaced while a command worked on them.

**WorkflowRuns** Case runs, their traces collected in the call or behind it, saves
that copy evidence, topologies and tasks, and the page of a saved step.
**AssistantSession** The controller, the worker, the control plane's handlers with
one Store call per step, and the map that is edited meanwhile. The model's tool arguments
may select a node, a path or a run other than the session's focus (`Selected`); case
runs are those of the profile for the cases and base cases of the selection, with the
node they were stored with.

**ProfilePublication** Packages through pack, install, export, verify, import,
publish, restore, a step per directory walk and Store call; each profile has a catalog
revision of its own. **StoreSchema** The
upgrade statement by statement, three dialects, and the normalisation of a legacy SQLite
file, which adds tables and columns but no catalog history and records the current
version. **DesktopWorkspace** Drafts, ETags
and refreshes in parts. The desktop sees the `View` of a record: its text without the
masked secret and without the credentials of its URL, the service of the interface, and
an execution derived from the requests beside it when it has none; a save (`Written`)
keeps a secret that comes back masked, drops the credentials and rewrites the interface. **ReadModels** What a publication stores and the pages
computed from models, catalog, runs and the state of each service's container.
**CaseSuite** Selection, impact, coverage, readiness, quality, and the batches and reports
made of them; cases with a file, with a reference to the Store in its place, or without, and
configurations that decode in full or only as far as the reports read them, or that ask for
inputs nobody gives.

Each module's opening comment says what it abstracts; each definition is mapped to
its lines in `PROJECT.json`.

## 3. Runs

| Run | Instance | Shows |
|---|---|---|
| `map_plan_lease` | 2 executors, lease 2, heartbeat 1, clock to 4 | `HeldLeaseIsStored`: no takeover behind the back of an executor that may still act; `OwnedPlanIsRunning`: no late final write closes an owned plan; `ImplementsFencedOwnership` |
| `map_run` | 2 processes; a path with a case behind it, two cases in one wave, tasks without requests, a cycle; 3 combinations of controls; and the wave loop on every graph of 3 tasks, edges up to twice | `ReleasedStatusMatchesTasks`, `NoBlindReplay`, `FreshResumeKeepsPassed`, `EveryRunEnds`, `WavesAreLayers` |
| `agent_task_worker` | 2 workers, 2 commands, interval 1, clock to 3, 2 claims | `NoAutomaticReplay`, `CompletedIntervalIsKept`, `ImplementsFencedOwnership` |
| `api_case_batch` | 2 cases, 1 reader, a failing Store call or crash anywhere | `PassedIsEarned`, `OneLateWrite`, `MemoryIsBacked`, `BatchEnds` |
| `profile_catalog` | 1 writer of each kind, 3 revisions | `EditsBuildOnPredecessor`, `ExpectedRevisionIsReplaced`, `ReferencesResolve` |
| `environment_record` | 2 commands, 1 file, service and check, 2 workflows, 2 runs; copies of 2 Stores of 7 items | `VerifiedRunAccepted`, `UndisturbedKeepsItems`, `CopiedStateIsWhole` |
| `environment_restore` | all flags, environments within two defects of one in order; 4 sources in 3 directories; 3 services; 4 recorded and 3 component checks, three of which no probe can look at; 2 migrations, 2 commands at a time, `--apply-order` 3 | `DockerGuarded`, `OKMeansDone`, `LocalWorkSurvives`, `PhaseEnds`, `HistoryIsTrue`, `BootstrapSQLOnce` |
| `map_planner` | 4 cases, 2 workflows, 6 catalogs; one editor, two writers that may overlap, or saved plans of up to 2 tasks, run at most twice between 2 imports | `EditsKeepReferences`, `StoredGraphAcyclic`, `PlansReplayFirst`, `PreflightSuffices`, `SavedPlanRunsWhatItPlanned` |
| `control_plane` | 2 calls, 1 save, 1 fault; 1 analysis, 2 maps, 2 case runs, 2 tool calls, 2 edits, 1 fault | `PageShowsTrace`, `CompletedFromOneMap`, `AnalysisEnds` |
| `publication` | 2 jobs and 1 fault; 13 databases and 2 processes; a draft with 2 events; 2 publishers; 3 catalogs of 3 cases | `CompletedPublicationIsWhole`, `OpenedStoreIsComplete`, `NoSilentOverwrite`, `PagesShowThePublication`, `SuiteKeepsItsWord` |
| `map_run_stale_record` | 2 processes, one case, `--resume` | finding 1, `ResumeKeepsPassed` is violated |
| `plan_graph_update` | an import and an update | finding 2, `UpdatePreservesGraph` is violated |

## 4. Bounds, fairness, deadlock, mutants

**Bounds.** Two processes are enough for every race between a holder and a
claimant, a reader and a writer, a publisher and an editor; the theorems cover any
number. The clock of `map_plan_lease` runs for two lease durations: a lease can be
claimed, expire, be taken over and expire again while the first holder's
transactions are under way. `agent_task_worker` has room for a completed interval,
a second one and a poll older than both. Two cases make a batch with a passed and
a failed one in either order. Three revisions are an edit, a racing one and a
rollback. Two defects of an environment at a time (of the ten respects an
environment may differ in) let every gate be the first one that stops a restore,
and let one defect hide another. The health phase has five polls for probes of two,
so the deadline passes in the middle of one. Each part with faults allows one: a
second fault is a repeated command that fails again, which ends as the first did.
The catalogs, maps, plans, packages and databases of the MC modules are written
down there, with a comment on what each is for. `MaxRan` bounds the task executions of a
saved plan: the second one is the rerun that finds the bound of a prefix gone. Where no liveness is checked and
nothing tells them apart, processes are permuted by symmetry; in the migrations of
`environment_restore`, `Canonical` does the same for the clients and ids by hand.

**Fairness** is stated only for what is under way and can go on by itself.
`EveryRunEnds`: each process that runs keeps taking steps (requests carry timeouts,
Store calls answer or fail, nothing blocks on another process). `BatchEnds`: the
owner's goroutine and heartbeat step, a lease that is not renewed expires, readers
who began to recover go on; strong fairness for the reads that precede a swap
(`FenceReads`, `CheckpointReads`, `ReaderInterrupts`), because a swap that lost its
race is retried and its competitors run out. `PhaseEnds`: the prober probes.
`AnalysisEnds`: the controller and the owner's control plane step and the total
timer fires. The background collection of a trace goes on. Crashes, lease expiry in
`MapRun`, edits of others and users are never fair.

**Deadlock** is checked in `profile_catalog`, where writers can always go on. It is
not checked elsewhere: commands, jobs, batches and analyses end, and clocks and
faults are bounded. Where the end matters it is a liveness property.

**Mutants.** Each property of a passing run has a definition changed the way a
plausible bug would change it (a dropped guard, a swapped order, a missing reset),
under which TLC finds the property violated; the mutant stands before its
original, with a comment that says what it does.

## 5. Findings

Two disagreements with the documentation have a run:

1. **A resumed run can repeat passed tasks** (`map_run_stale_record`). The record
   that `map run --plan` resets the plan to is read before the claim. If another
   run finishes in between, its results are overwritten and its requests are sent
   again. `NoBlindReplay` and `FreshResumeKeepsPassed` are stated for as long as
   that has not happened.
2. **`map update` undoes an import** (`plan_graph_update`). It replaces the whole
   graph by the copy it read, so an import that commits in between is lost.

Met while modelling, without a run of their own (where a model contains the
behaviour, its properties are stated so as to leave it out, in words that say so):

* *Map runs.* `--rerun-task` on a fresh plan releases it with status `running`
  (`map_run_report.go:66`). Executing a path prefix loses
  `untilNodeId` (`map_run_executor.go:714`), so a second run of the plan replays nothing for
  it and goes on to the case behind it, where `docs/test-plan-maps.md:231-232` promises a full
  rerun; `SavedPlanRunsWhatItPlanned` says so. A process
  that stalls past its lease after its fence may have a request in flight while
  another owns the plan; nothing can recall it.
* *Agent tasks.* A worker whose claim the operator recovered still executes the
  command it was about to start. `task stop` writes back the definition it read
  (`task_commands.go:411`).
* *Maps.* Version labels are not immutable (`store_plan_graph_versions.go:20`); a
  snapshot can be torn (`store_plan_graph.go:62`); a promoted case can fail the
  preflight (`map_validation_commands.go:424`).
* *Catalog.* Sandbox registration overwrites what it did not read
  (`sandbox_state.go:176`); a studio save can leave an active case that cannot run
  (`workflow_studio_compile.go:33`).
* *Environments.* A stop can restore a verified mark (`environment_stop_commands.go:219`).
  A batch accepts its environment before it is stored as passed
  (`api_case_batch_state.go:124`).
* *Restore.* The topology counts as complete unseen (`environment_restore.go:556`); a
  probe may outlast the deadline (`environment_restore_docker_health.go:88`); a timed
  out attempt is not recorded (`environment_restore.go:180`); a one-shot service is
  taken for ready while it works (`environment_restore_docker_health.go:403`).
* *Migrations.* A restore executes them in link order, goes on after a failure and
  stores no statuses; two concurrent adds of one id lose one; SQL is executed again
  after a crash between it and its history row. A whole-graph write can put back
  another version of a migration that is being applied; the status write that follows goes
  by asset id and marks that version complete, though it was never executed. `HistoryIsTrue`
  leaves out the ids this happened to (`raced`) and no others.
* *Health checks.* A check without a target, an entry that is no object and a check that
  gives its kind as `type` are passed over without a word
  (`environment_restore_docker_health.go:21-55`); they still count as their service's check,
  so nothing else is derived for it, and a restore may be OK without having looked at it.
* *Environment rows.* As soon as one file has a row, the file lists in the row's JSON are not
  read any more (`internal/store/environment.go:354-360`); a command that read before the rows
  came takes their entries with it.
* *Store copy.* Items that are only JSON entries are lost when the target has rows
  for them (the property's `lost`); an empty source graph leaves the target's; the
  requirement flags without `--require-environment` refuse only after everything was
  written; environments are copied as verified by runs that are not copied.
* *Workflow runs.* Evidence ids are `run.step.kind`, so a repeated step ends a save
  halfway; the SQLite path of the latest-step query prefers runs of several steps.
* *Assistant.* Reading a session while `begin` persists "running" marks it
  interrupted; a finish that cannot be persisted leaves "running" until the next read;
  the fingerprint of the map leaves out profile and catalog. A case run may carry the node
  id of another map, which an analysis may cite (`assistant_tools.go:209`).
* *Publication.* Verify checks only the profile id of the catalog; activating a config
  is a reset and an insert without a transaction; `install --force` from the package's
  own home removes its source; case files survive an export and override it.
* *Schema.* A legacy SQLite file gets its catalog tables from the normalisation, which
  records version 23 (`sqlite/legacy_migration.go:44-98`), so the history of its catalogs is
  never backfilled. An upgrade from before version 16 (6) that was interrupted cannot be
  replayed on PostgreSQL and SQLite, where duplicate columns are not tolerated; the
  step columns of an evidence table older than they are are never added.
* *Desktop.* What the desktop is not shown it cannot keep: URL credentials are dropped by
  the next save, a newly typed secret replaces whatever another client set, and the interface's
  name and path follow the case that is saved (`request_editor_compile.go:53-70`). Edits typed while a save is in flight are dropped; `connect` checks for
  drafts before an await and clears them after it; a step block's reload renews its
  ETag under a dirty draft (`docs/desktop.md:71-73` promises a refusal).
* *Read models.* Edits never refresh them, so a node page can say passed while the
  directory says pending; overlapping publishers can leave the models of one catalog
  with the other in force; removed nodes keep their models.
* *Case suites.* Newest runs that are skipped or running count as failed in coverage,
  not run in the inspection, and are never planned again; the impact closure takes one
  pass; a configuration with status "Active" counts as ready and is dropped by the
  batch; one case with a timeout outside 0..600 refuses its whole batch.

## 6. Proofs

All theorems hold for every value of the constants that satisfies the named
assumptions: any number of processes, tasks, cases, readers, items, workflows,
catalogs, and any clock, claim and revision bound. No axioms; every leaf is checked.

| Module | Assumptions | Theorems (and the property of a run they state) |
|---|---|---|
| `MapPlanLeaseProofs` | `ExecutorsAssumption`, `TimingAssumption`, `HealthyAssumption` | `TypeCorrect`, `LeaseInvariant`, `TrustedLeaseIsStored` (`HeldLeaseIsStored`), `OwnedPlanStaysOpen` (`OwnedPlanIsRunning`), `LeaseRefinesOwnership` (`ImplementsFencedOwnership`), `HeartbeatSuffices` |
| `MapRunProofs` | `ExecutorsAssumption`, `PlanAssumption`, `ControlAssumption`; of the loop `WavesAssumption` | `TypeCorrect`, `Invariant`, `ReleasedPlanIsTrue` (`ReleasedStatusMatchesTasks`), `UnknownOutcomeIsNotRepeated` (`NoBlindReplay`), `PassedTasksAreKept` (`FreshResumeKeepsPassed`); of the wave loop: `WavesInvariant`, `LoopComputesTheLayers` (`WavesAreLayers`), `PlansRunInTheLoopsOrder` |
| `AgentTaskWorkerProofs` | `BoundsAssumption`, `CommandsAssumption` | `Invariant`, `NoReplay` (`NoAutomaticReplay`), `IntervalsAreKept` (`CompletedIntervalIsKept`), `TokenRefinesOwnership` (`ImplementsFencedOwnership`) |
| `ApiCaseBatchProofs` | `BatchAssumption`, `SuiteAssumption` | of the batch: `Invariant`, `PassedBatchIsEarned` (`PassedIsEarned`), `AtMostOneLateWrite` (`OneLateWrite`), `MemoryIsBackedByStore` (`MemoryIsBacked`); of the suites: `SuiteInvariant`, `SuitesKeepTheirWord` (`SuiteKeepsItsWord`) |
| `StoreProofs` | `CatalogAssumption`, `WritersAssumption`, `SchemaAssumption`, `PublicationAssumption`, `WorkspaceAssumption`, `ReadModelsAssumption` | of the catalog: `Invariant`, `NoLostEdit` (`EditsBuildOnPredecessor`), `ExpectationsAreMet` (`ExpectedRevisionIsReplaced`), `RevisionsResolve` (`ReferencesResolve`); of the schema: `SchemaInvariant`, `OpenedStoresAreComplete` (`OpenedStoreIsComplete`); of publications: `PublicationsInOrder`, `PublicationsAreWhole` (`CompletedPublicationIsWhole`); of drafts: `DraftsAreOfTheirETag`, `SavesReplaceWhatTheUserSaw` (`NoSilentOverwrite`); of the pages: `PagesInvariant`, `PagesShowWhatWasPublished` (`PagesShowThePublication`) |
| `EnvironmentRecordProofs` | `RecordAssumption`, `CopyAssumption` | of the record: `Invariant`, `VerifiedIsAccepted` (`VerifiedRunAccepted`), `UndisturbedIsWhole` (`UndisturbedKeepsItems`); of copies: `CopiesFollowTheirSource`, `CopiesAreWhole` (`CopiedStateIsWhole`) |
| `EnvironmentRestoreProofs` | `RestoreAssumption`, `CheckoutAssumption`, `MigrationAssumption` | of the stages: `Invariant`, `DockerIsGuarded` (`DockerGuarded`), `OKIsEarned` (`OKMeansDone`); of the checkouts: `CheckoutInvariant`, `LocalWorkIsKept` (`LocalWorkSurvives`); of the migrations: `MigrationInvariant`, `BootstrapRunsOnce` (`BootstrapSQLOnce`), `HistoryStaysTrue` (`HistoryIsTrue`) |
| `ControlPlaneProofs` | `PlanGraphAssumption` (for the edits and the plans of the map), `RunsAssumption`, `SessionAssumption` | of the map: `PlannerInvariant`, `StoredMapIsAcyclic` (`StoredGraphAcyclic`), `FingerprintFixesThePlan` (`SavedPlanRunsWhatItPlanned`), `InspectedTaskIsRunnable`, `EditingInvariant`, `UndisturbedEditsKeepReferences` (`EditsKeepReferences`); of its plans: `AcceptedPlansAreRunnable` (`PreflightSuffices`), `ReplayInvariant`, `CasesWaitForTheirReplay` (`PlansReplayFirst`); of the runs: `RunsInvariant`, `PagesShowTraces` (`PageShowsTrace`); of the assistant: `SessionInvariant`, `CompletedIsOfOneMap` (`CompletedFromOneMap`) |

The assumptions are about forms, not about behaviour: sets of processes are disjoint
and do not contain the value for "none", durations are positive and a heartbeat is
shorter than its lease, the tasks of a wave loop are finitely many, saved plans have the form `map explain` gives them, seeds and
bundles are catalogs whose references resolve (their import checks that), a run is of
one workflow, migration ids are finitely many, versions and orders positive numbers, run ids
of calls and of saves differ, the paths of a map are paths of its nodes, the
assistant's tools are the four there are, a directory holds at most one package, the cases suites select from are finitely
many and catalogs and histories know no others, the cases and workflows of a map are finitely many and a promoted case's path has an id
no workflow has, a catalog binds sequences of cases and names its checkpoints, a
Store at most one environment of an id, a graph has finitely many parts, the catalogs the
pages show are finite and have a service, a node and a case once, and a record of
the desktop can have some content. TLC evaluates them on every run of the modules.
The one about content is `LeftByOlder`, in `SchemaAssumption`: a database to begin with
is empty or what a program of its version left. Whatever its tables lack, an upgrade
from that version adds (`Introduced`), except for what no upgrade adds (`NeverAdded`): the
step columns of an evidence table that is older than they are, the environment column of the
runs in a SQLite file (a normalisation may add it), and the history of the catalogs in a SQLite
file that is normalised or says it is newer than the history. These
a Store is opened without, and `OpenedStoreIsComplete` says that it is these only.

Every module's invariant is proved the same way: a lemma for the initial states,
one for each action, one that puts the actions together, and lemmas about the
operators the actions share. None of the properties is inductive by itself:

* **MapPlanLease.** Whether a takeover is safe depends on what the claimant's clock
  reading can be (`ReadingsInThePast`: never ahead of the clock), on the claimant not
  having owned the plan before (`ClaimantsAreNew`, `OwnerNotRetired`), and on what a
  holder knows (`HoldersKnow`: unless it noted an error or was retired, the stored
  expiry is at least the one in its memory). With `Healthy`, `HealthyInv` keeps every
  holder's expiry beyond its next beat. For the refinement, `owner <- lease.owner`;
  `ClaimantsAreNew` gives the guard of `Acquire`.
* **MapRun.** What an owner does follows from its memory, so `MemoryIsStored`: as long
  as it owns the plan, its records are the rows. A task with an unanswered request shows
  it in its row (`UnresolvedMarked`) and is not begun by the owner (`UnresolvedHeld`);
  for `--resume`, what had passed at the claim is in the row until the reset
  (`ClaimKnowsPassed`) and is not begun after it (`ResumeHolds`). `PreparedRow` and
  `NotExecuted` are what the reset and the selection of tasks contribute. Those parts
  that need a record read after the last write say `~stale`: finding 1.
* **MapRunWaves.** After n iterations the waves are the first n layers less what earlier
  layers hold, `queued` is layer n, and a task's indegree counts its edges from outside it
  (`WavesInvariant`); so `ready` is the next layer's new tasks, however often an edge is
  repeated, and an empty one means that the layers have stopped growing.
  `PlansRunInTheLoopsOrder` says that the waves of `MapRun` are these layers.
* **AgentTaskWorker.** `RowInv` ties status, token and unresolved outcome together;
  `ClaimInv`: a claim has one worker; `RunInv`: run times only grow with the claims that
  were released; `PollInv`: nobody writes a revision twice, so a poll whose revision is
  still the row's was read an interval after every recorded run. The refinement maps
  `owner` to the token.
* **ApiCaseBatch.** The report in memory, the copy being stored and the row are three
  versions of one batch. `Shape` says which goal is pursued where, `Memory` and `Copy`
  what the two reports hold of the results so far (`Progress`), `Item` the result under
  way, `RowInv` that the row is only swapped while it runs and that a passed one is the
  goroutine's last, `LateInv` that no fence is passed any more once a reader has ended
  the row.
* **CaseSuite.** A report and the batch made of it decide in two places whether a case can
  run. `OfTheStore`: what an undisturbed command knows of configs is in the catalog of the Store,
  so the selected cases are `Usable`, also when a client holds them and posts them later
  (`HeldInv`); `UsableIsPlanned`: the planner makes a plan of a usable case unless its config is
  misspelt, so at every case the plans are the selected cases planned so far (`PlannedSoFar`).
  Of a report, `ExecutedSoFar`: the case under way is the open end of its history, and as long
  as none failed the ones before it ended as passed; by `LatestIsTheLast` that end is what the
  coverage report reads.
* **ProfileCatalog.** `Remembers`: what a writer read is a revision there is, and before
  it writes the one it expects. With the compare-and-swap, the head it replaces is the
  revision it computed from. For `RevisionsResolve` each operation is shown to keep a
  catalog closed (`EditsResolve`, `ReplacementsResolve`), and rollbacks return to a closed one.
* **StoreSchema.** The database alone does not say what a process that is half way
  through its upgrade will leave. `OpenersInv`: what is there and the rest of its
  statements make the database whole (`Suffices`: a part is there, is brought about, or
  comes with a table that is created), and the version is the last statement. It survives
  the other processes because parts are only added (`Grown`; the legacy tables only
  dropped), and a restart because what an interrupted upgrade leaves is again what a program of
  the recorded version may leave (`LeftByOlder` in `DbInv`). What is never added is fixed by the
  database the behaviour began with (`begun`).
* **ProfilePublication.** `PublicationInOrder`: nothing but the job's program counter
  says how far a publication has come, so for the job that nothing disturbed `PackageKept`
  follows the package from the archive through the half copied home into the job's memory,
  and `StoreFollows` says, from each step on, which of index, catalog, config versions and
  read models are its own. Another job cannot be at work meanwhile (`AtWork`), and what a
  crashed one left half done is overwritten, whatever it was.
* **DesktopWorkspace.** `WorkspaceIsPast`: an ETag vouches for the content it came with.
  Whoever holds a record, a draft, a save under way, the parts of a refresh that were read
  at different times, the step library, an import, holds what the catalog shows of it or an ETag
  the catalog will never have again (`Knows`, `Seen`). So a write that is accepted replaces what
  its user saw, and the property needs no ordering of the answers. A draft that was renewed
  to the newest ETag because the view is unchanged still says so of the view alone; that the
  secret behind an unchanged mask is kept is `Written`'s doing.
* **ReadModels.** A read model says nothing of the publication that stored it. `Publishes`:
  what an undisturbed publisher has not stored of the catalog in force it is about to store,
  and nobody else is about to store anything; so when it is done, every model is of that
  catalog, whatever older or half done publications had left. A model is determined by its key
  and the catalog (`ModelsOf`), so it does not matter which publisher stored it. The page of a
  node and the directory count runs in two ways, one in the order of the runs, one by the
  newest or any that passed; both say passed for the same runs (`PageOfACase`,
  `DirectoryOfACase`: some run passed in time), from which the agreement of the two pages,
  and that a workflow's page claims no pass the whole page denies, follow.
* **EnvironmentRecord.** `Backed` has to hold of the row and of every copy a command
  holds of it, because any copy may be written back. `Kept` follows the items of an
  undisturbed command through its copy, the row's JSON and the table rows it will leave;
  it is stated of the `View`, because an item that is in the JSON disappears from it when
  the first row of its kind is written.
* **StoreCopy.** `CopyFollows` says, for each statement of a copy, what the target has
  by then: `CatalogFollows`, and of the environments those behind (`Carried`), the one under
  way (`Arriving`: its entries, and the kinds of rows replaced so far) and those ahead
  (`Fresh`: still as they were listed). It is stated of a source and a target that may be one
  Store, where a write changes both. `NothingElseIsLost` is the lemma about the items: what
  was stripped and taken out is made up for by the rows, whatever entries match them.
* **EnvironmentRestore.** `StageInv` says, for every stage, what has been done and which
  flags led there; `OKInv` that an OK report has no failed stage behind it; `EarnedInv`
  what it has by the time it is stored.
* **EnvironmentCheckout.** `CheckoutInv`: only a git directory holds uncommitted work, a
  clone starts where nothing is, and whatever follows validation works in a checkout
  of the source's own remote. So no step that discards a directory meets work in it.
* **EnvironmentMigration.** `MigrationInv` has `GraphOK` for the stored graph and for
  every copy a command is about to write back, `HistoryRan` (what is recorded was
  executed), and `WorkOK` for each command: its list is a sorted rest, what is behind
  it is in the history, nothing in it was replaced but what is in `raced`. `Mounted` is what
  the bootstrap directory holds once the first start has run it. The run has two adds; the
  theorem any number.
* **MapPlanner.** `ReadInv`: whatever a process has read in its six selects has the edges
  of one stored graph, or none, and a graph is refused for its edges only; so what is
  written back unchecked was checked before. `PlansInv`: a plan's fingerprint contains the
  steps its tasks were planned with, and a task has the bound it was planned with or none
  (`RanAsPlanned`). `InspectedTaskIsRunnable` is the preflight task by
  task.
* **The planner's plans.** `PlanOf` holds of the plan after every operation lowered so far
  (`Accumulators`): a case already planned waits for the replay it needs and nothing
  else, and a replay group names an earlier task that replays just what its key says. So
  a case that shares a checkpoint waits for the right one, and every task is one the
  preflight looks at in full, since only a replayed prefix has a target
  (`AcceptedPlansAreRunnable`, of any map and catalog). The loop over the cases is a recursion:
  `RecursionExists` shows by hand that its plans exist, `InductionUpTo` that each is an
  accumulator. That a replay stops before the anchor (`ReplayStopsBeforeAnchor`) is
  about the map: `Replayable` says that a validation case has one anchor, a path has a case
  once and a checkpoint a name. An imported path has a case once because a repetition
  would be a cycle of its control edges, and an import is refused for a cycle; a promoted
  path is the steps before the anchor and then the case, which was on no path before. Its three parts are about one section of
  the graph each, so a command that reads the sections of different maps and writes them back
  cannot break it (`ReplayInv`): unlike the references above, it holds under overlapping commands.
* **MapEditing.** `Sound` is what a graph has to keep to have no dangling reference, and is
  more than map doctor looks at: an append that drops checkpoints may only keep the edges it
  keeps because a control edge has its workflow in its id and no checkpoint
  (`EdgeShape`), so that no fixture edge replaces it, and because no checkpoint is
  nameless. It is shown of an import (`ImportIsSound`), of an append to any such graph
  (`AppendIsSound`), of an attachment and of a promotion with its replayed prefix
  (`PromotedIsSound`). `UpToDate`: what a command has read so far is what is stored, as long
  as commands do not overlap (`alone`). The import's steps and the greatest path position are
  recursions over data; they are reached by minimal counterexample (`LeastOf`).
* **WorkflowRuns.** A page finds a topology by two things saved at different times: the
  entry of the run names calls, and the topology names its call and step.
  `EntriesInv`: an entry, stored or in a save under way, names calls made for its step;
  `TopologiesInv`: what a collection stored is about its call's step, also when the
  member's case file names another. So the fallback that asks the named calls finds
  what was there when the page was opened (`PageShows`), whatever the copy missed.
* **AssistantSession.** `JobInv` has `FromOneMap`: the row's fingerprint is one content
  of the map, and what the analysis holds was read from it, whichever selection the tool's arguments name. It survives a tool call
  because `ToolInv` ties the session row the handler read to the row that is stored, and
  survives writes because `RequestsInv` (`RequestOK`: no request knows a newer row than the
  stored one; with the row's revision it carries the row's fingerprint) and `OwnerOK`
  (the owner's request is the job's) leave the revision check nothing else to let through.

## 7. Only model-checked, not modelled

**Out of the prover's reach.** Liveness (`EveryRunEnds`, `BatchEnds`, `PhaseEnds`,
`AnalysisEnds`); they are checked by TLC on the runs above. Every invariant and every
action property of a passing run is a theorem. What a recursion computes is proved
of the wave loop and of the planner's loops: that the layers and the plans exist is
shown by hand, without the library's induction (what fails somewhere fails first at a
least number).

**Not modelled.** Direct and native process runners (operating system processes; their
outcome is a step of the modules that start them), evidence import and JUnit (parsing),
redaction and release tags (pure text). In part: the case runner (its fences, evidence
and recording are steps of `ApiCaseBatch`; the evaluation of a response is a verdict from
outside), the desktop (drafts and saves, not windows and panels). Docker, git, SQL
servers, the trace backend and the language model are external steps that succeed, fail
or time out. In `control_plane` the map never changes its profile, and a crash of the
desktop drops the requests in flight, because the engine is its child.

## 8. Plan

1. *(done)* The modules above, their runs, and the proofs of section 6.
