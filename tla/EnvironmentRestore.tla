------------------------- MODULE EnvironmentRestore -------------------------
(***************************************************************************)
(* One "environment restore" (environment_restore.go): the plan under a    *)
(* watchdog, the sources, the Docker stage with its gates, the acceptance  *)
(* workflow, the readiness report and the summary that is written back to  *)
(* the environment.  Every stage may fail; the flags and the recorded      *)
(* environment decide which stages run at all.                             *)
(*                                                                         *)
(* What a stage did outside the process is in "effects"; the details of    *)
(* the checkouts and of the health phase are in EnvironmentCheckout and    *)
(* RestoreHealth.                                                          *)
(***************************************************************************)
EXTENDS Naturals

CONSTANTS
  Environments,  \* the recorded environments
  Options        \* the flags of a command line

Issues == {"git", "docker", "bind", "image", "conflict", "asset"}

\* start: how Docker is started; remote: a PostgreSQL or MySQL Store, which takes
\* remote sources only; policy: the sources obey that; graph and files: the
\* component graph and the file projection; linked: the cleanup linkage holds;
\* issues: what a preflight may find; probes: the recorded health checks, "skipped" if
\* the loop finds nothing to probe in any of them (no target, no kind, no object);
\* services: the compose file defines the services the graph requires.
Environment ==
  [start : {"compose", "command", "none"}, remote : BOOLEAN, policy : BOOLEAN, package : BOOLEAN,
   graph : {"none", "ok", "broken"}, files : {"none", "ok", "missing"}, linked : BOOLEAN,
   issues : SUBSET Issues, probes : {"none", "skipped", "some"}, services : BOOLEAN]

Flags ==
  [execute : BOOLEAN, pull : BOOLEAN, prepareReposOnly : BOOLEAN, useExisting : BOOLEAN,
   assumeClean : BOOLEAN, clean : {"no", "state", "images"}, allowed : BOOLEAN,
   runWorkflow : BOOLEAN]

ASSUME RestoreAssumption == Environments \subseteq Environment /\ Options \subseteq Flags

VARIABLES
  pc,        \* the stage that is next
  opt, env,  \* this command's flags and environment
  rep,       \* the report
  effects,   \* what has been done outside: files, containers, images, workflow
  saved      \* {} or {what summary.lastRestore says}

vars == <<pc, opt, env, rep, effects, saved>>

Effects == {"checkout", "files", "backup", "down", "rmi", "rm", "sql-files", "pull", "build", "up",
            "start-command", "edge", "probe", "workflow"}

\* Flags that contradict each other are refused before anything is read.
validateEnvironmentRestoreCommandFlags(o) ==
  /\ o.runWorkflow \/ o.prepareReposOnly => o.execute
  /\ ~(o.prepareReposOnly /\ o.runWorkflow)
  /\ o.useExisting => o.clean = "no"
  /\ o.assumeClean => ~o.execute /\ ~o.useExisting /\ o.clean = "no"

Requested == opt.clean # "no"

\* Services, project, env injection and files are all accounted for by the Store.
environmentRestoreDockerCleanupLinkage == env.linked

Blank ==
  [ok |-> TRUE, preflight |-> TRUE, package |-> TRUE, repos |-> TRUE, docker |-> TRUE,
   action |-> "none", health |-> TRUE, workflow |-> TRUE, ran |-> FALSE, ready |-> TRUE,
   error |-> FALSE]

TypeOK ==
  /\ pc \in {"plan", "sources", "docker", "prepare", "cleanup", "downs", "native", "commands",
             "edge", "health", "workflow", "readiness", "persist", "done"}
  /\ opt \in Flags /\ env \in Environment
  /\ rep \in [ok : BOOLEAN, preflight : BOOLEAN, package : BOOLEAN, repos : BOOLEAN,
              docker : BOOLEAN, health : BOOLEAN, workflow : BOOLEAN, ran : BOOLEAN,
              ready : BOOLEAN, error : BOOLEAN,
              action : {"none", "plan", "run", "adopt", "prepared", "failed", "skipped"}]
  /\ effects \subseteq Effects
  /\ \A s \in saved : s.ok \in BOOLEAN

Init ==
  /\ opt \in {o \in Options : validateEnvironmentRestoreCommandFlags(o)}
  /\ env \in Environments
  /\ pc = "plan" /\ rep = Blank /\ effects = {} /\ saved = {}

Goto(stage) == pc' = stage /\ UNCHANGED <<opt, env, saved>>
Does(set) == effects' = effects \cup set

-----------------------------------------------------------------------------
(* The plan.                                                               *)

\* The issues that count under these flags.
environmentRestoreAddComposePreflight ==
  IF env.start # "compose" THEN {}
  ELSE {"docker", "bind"}
       \cup (IF opt.execute /\ opt.pull THEN {"image"} ELSE {})
       \cup (IF Requested \/ opt.assumeClean \/ opt.prepareReposOnly \/ opt.useExisting THEN {}
             ELSE {"conflict"})
       \cup (IF opt.prepareReposOnly \/ opt.useExisting THEN {} ELSE {"asset"})

environmentRestorePreflightReport ==
  env.issues \cap (environmentRestoreAddComposePreflight \cup {"git"}) = {}

\* What the report says before anything has been touched.
newEnvironmentRestoreReport ==
  [Blank EXCEPT !.preflight = environmentRestorePreflightReport,
                !.ok = /\ environmentRestorePreflightReport
                       /\ env.policy
                       /\ env.graph # "broken",
                !.workflow = ~opt.runWorkflow]

\* The plan is ready before the watchdog fires.
buildEnvironmentRestoreReportWithStructuredState ==
  /\ pc = "plan"
  /\ rep' = newEnvironmentRestoreReport
  /\ UNCHANGED effects
  /\ Goto("sources")

\* The watchdog fires, or the command is cancelled, while the plan is built: an
\* error report, and nothing else.
environmentRestoreBuildPlanAndReportWithWatchdog ==
  /\ pc = "plan"
  /\ rep' = [Blank EXCEPT !.ok = FALSE, !.workflow = FALSE, !.error = TRUE]
  /\ UNCHANGED effects
  /\ Goto("done")

environmentRestoreFileProjectionRequired == env.remote \/ opt.assumeClean \/ Requested

environmentRestoreFileProjectionReadyForDocker ==
  environmentRestoreFileProjectionRequired =>
    env.files = "ok" \/ (env.files = "none" /\ env.start = "command")

\* Package, repositories and remote assets, each attempted whatever the others
\* did; then the file gate before Docker.  A remote-only Store ignores the package.
environmentRestoreAddSourceReports ==
  /\ pc = "sources"
  /\ \E package, repos, assets \in BOOLEAN :
       /\ env.remote \/ ~env.package => package
       /\ rep' = [rep EXCEPT !.package = package, !.repos = repos,
                             !.ok = /\ rep.ok /\ package /\ repos /\ assets
                                    /\ environmentRestoreFileProjectionReadyForDocker,
                             !.error = ~environmentRestoreFileProjectionReadyForDocker]
  /\ IF opt.execute THEN Does({"checkout"}) ELSE UNCHANGED effects
  /\ Goto("docker")

-----------------------------------------------------------------------------
(* The Docker stage.                                                       *)

\* The end of the Docker stage: it failed, or it is done.
DockerFails(action) ==
  /\ rep' = [rep EXCEPT !.docker = FALSE, !.ok = FALSE, !.action = action]
  /\ Goto("workflow")
DockerOK(action) ==
  /\ rep' = [rep EXCEPT !.action = action]
  /\ Goto("workflow")

\* Something before Docker failed: it is skipped, and says why.
environmentRestoreSkippedDockerReport ==
  /\ pc = "docker" /\ ~rep.ok
  /\ DockerFails("skipped")
  /\ UNCHANGED effects

\* --prepare-repos-only: the Store's files are written, Docker is left alone.
environmentRestorePrepareReposOnlyDockerReport ==
  /\ pc = "docker" /\ rep.ok /\ opt.prepareReposOnly
  /\ Does({"files"})
  /\ DockerOK("prepared") \/ DockerFails("failed")

\* --use-existing-containers: no Compose command; edge assets and probes only.
environmentRestoreUseExistingContainers ==
  /\ pc = "docker" /\ rep.ok /\ ~opt.prepareReposOnly /\ opt.useExisting
  /\ IF ~opt.execute
     THEN /\ DockerOK("plan") \/ DockerFails("failed")
          /\ UNCHANGED effects
     ELSE /\ Does({"files"})
          /\ \/ DockerFails("failed")
             \/ rep' = [rep EXCEPT !.action = "adopt"] /\ Goto("edge")

\* Compose commands or a start command; a cleanup needs a compose file.
environmentRestoreDockerPlan ==
  /\ pc = "docker" /\ rep.ok /\ ~opt.prepareReposOnly /\ ~opt.useExisting
  /\ IF env.start = "none" \/ (env.start = "command" /\ Requested) THEN DockerFails("failed")
     ELSE IF ~opt.execute THEN DockerOK("plan") \/ DockerFails("failed")
     ELSE rep' = [rep EXCEPT !.action = "plan"] /\ Goto("prepare")
  /\ UNCHANGED effects

\* The workspace, the generated files and the env file, and then the compose
\* files must be there.
environmentRestorePrepareDockerExecution ==
  /\ pc = "prepare"
  /\ Does({"files"})
  /\ \/ DockerFails("failed")
     \/ UNCHANGED rep /\ Goto("cleanup")

(* Mutant of environmentRestoreRunCleanup: the linkage proof is not asked for. *)
CleanupWithoutLinkage ==
  /\ pc = "cleanup"
  /\ IF env.start # "compose" \/ ~Requested
     THEN UNCHANGED <<rep, effects>> /\ Goto("native")
     ELSE IF ~opt.allowed THEN DockerFails("plan") /\ UNCHANGED effects
     ELSE \/ DockerFails("plan") /\ UNCHANGED effects
          \/ Does({"backup"}) /\ UNCHANGED rep /\ Goto("downs")

\* A requested cleanup must be allowed and linked; the backups come first.
environmentRestoreRunCleanup ==
  /\ pc = "cleanup"
  /\ IF env.start # "compose" \/ ~Requested
     THEN UNCHANGED <<rep, effects>> /\ Goto("native")
     ELSE IF ~opt.allowed \/ ~environmentRestoreDockerCleanupLinkage THEN DockerFails("plan") /\ UNCHANGED effects
     ELSE \/ DockerFails("plan") /\ UNCHANGED effects
          \/ Does({"backup"}) /\ UNCHANGED rep /\ Goto("downs")

\* compose down, with the images if asked, and the fixed container names, each
\* of which may fail; a container that is not there is no failure.
environmentRestoreCleanupCommands ==
  LET down == {"down"} \cup (IF opt.clean = "images" THEN {"rmi"} ELSE {})
      rm == IF "conflict" \in env.issues THEN {"rm"} ELSE {}
  IN /\ pc = "downs"
     /\ \/ (UNCHANGED effects \/ Does(down)) /\ DockerFails("plan")
        \/ Does(down \cup rm) /\ UNCHANGED rep /\ Goto("native")

\* The MySQL init files of the graph are written before anything starts.
environmentRestoreProjectDockerNativeAssets ==
  /\ pc = "native"
  /\ Does({"sql-files"})
  /\ \/ DockerFails("failed")
     \/ rep' = [rep EXCEPT !.action = "run"] /\ Goto("commands")

\* pull, build and up, or the start command; the first failure ends the stage,
\* with what has been done so far.
environmentRestoreRunCommands ==
  /\ pc = "commands"
  /\ LET pull == IF opt.pull THEN {"pull"} ELSE {}
         all == IF env.start = "command" THEN {"start-command"} ELSE pull \cup {"build", "up"}
     IN \/ Does(all) /\ UNCHANGED rep /\ Goto("edge")
        \/ Does(all) /\ DockerFails("run")
        \/ env.start = "compose" /\ Does(all \ {"up"}) /\ DockerFails("run")
        \/ env.start = "compose" /\ Does(pull) /\ DockerFails("run")

\* Every edge asset is attempted; one that failed ends the stage.  A start
\* command has no Compose service to apply them to.
environmentRestoreApplyEdgeAssets ==
  /\ pc = "edge"
  /\ Does({"edge"})
  /\ \/ DockerFails(rep.action)
     \/ UNCHANGED rep /\ Goto("health")

(* Mutant of waitEnvironmentRestoreHealthChecks: a failed probe is only noted. *)
NoteHealth ==
  /\ pc = "health"
  /\ IF env.probes = "some" THEN Does({"probe"}) ELSE UNCHANGED effects
  /\ \E ok \in BOOLEAN : rep' = [rep EXCEPT !.health = ok]
  /\ Goto("workflow")

\* All checks with something to probe are probed; one that failed, or of a kind
\* nobody knows, fails the stage.  The others are passed over without a word.
waitEnvironmentRestoreHealthChecks ==
  /\ pc = "health"
  /\ \/ /\ IF env.probes = "some" THEN Does({"probe"}) ELSE UNCHANGED effects
        /\ DockerOK(rep.action)
     \/ /\ env.probes = "some"
        /\ Does({"probe"}) \/ UNCHANGED effects
        /\ rep' = [rep EXCEPT !.docker = FALSE, !.ok = FALSE, !.health = FALSE]
        /\ Goto("workflow")

-----------------------------------------------------------------------------
(* Acceptance, readiness and the summary.                                  *)

\* The acceptance run, only after everything before it was OK.
environmentRestoreMaybeRunWorkflow ==
  /\ pc = "workflow"
  /\ IF ~opt.runWorkflow \/ ~rep.ok THEN UNCHANGED <<rep, effects>>
     ELSE /\ Does({"workflow"})
          /\ \E ok \in BOOLEAN :
               rep' = [rep EXCEPT !.workflow = ok, !.ran = TRUE, !.ok = @ /\ ok]
  /\ Goto("readiness")

environmentRestoreDockerPlanReady == rep.docker /\ rep.action \in {"plan", "run", "adopt", "prepared"}

\* A requested cleanup was planned by the Docker stage, linked, and allowed if
\* this is no dry run.
environmentRestoreAddCleanupReadiness ==
  Requested => /\ env.start = "compose" /\ rep.action \in {"plan", "run"}
               /\ environmentRestoreDockerCleanupLinkage /\ (opt.execute => opt.allowed)

\* The required items of the readiness report.
environmentRestoreReadinessReport ==
  /\ env.graph = "ok" \/ (env.graph = "none" /\ ~env.remote)
  /\ "conflict" \in env.issues => "conflict" \notin environmentRestoreAddComposePreflight
  /\ env.remote => env.policy /\ (env.start = "command" \/ env.files = "ok")
  /\ env.package => rep.package
  /\ environmentRestoreFileProjectionReadyForDocker
  /\ "asset" \in env.issues => "asset" \notin environmentRestoreAddComposePreflight
  /\ rep.repos
  /\ environmentRestoreDockerPlanReady
  /\ env.start = "compose" => env.services
  /\ env.probes # "none"
  /\ environmentRestoreAddCleanupReadiness
  /\ rep.ran => rep.workflow

environmentRestoreReadiness ==
  /\ pc = "readiness"
  /\ rep' = [rep EXCEPT !.ready = environmentRestoreReadinessReport,
                        !.ok = @ /\ environmentRestoreReadinessReport,
                        !.error = @ \/ ~environmentRestoreReadinessReport]
  /\ UNCHANGED effects
  /\ Goto("persist")

\* The phase the summary names for a report: the first stage that is not OK.
environmentRestorePhase(r) ==
  IF r.ok THEN "completed"
  ELSE IF ~r.preflight THEN "preflight"
  ELSE IF ~r.package THEN "package"
  ELSE IF ~r.repos THEN "repository"
  ELSE IF ~r.docker THEN IF r.health THEN "docker" ELSE "health-check"
  ELSE IF ~r.ready THEN "readiness"
  ELSE IF r.error THEN "persist" ELSE "completed"

\* Migration statuses first, which may fail and make the report fail, then the
\* environment with its summary, on a dry run too.
environmentRestoreMaybePersist ==
  /\ pc = "persist"
  /\ \E statuses, stored \in BOOLEAN :
       /\ "edge" \notin effects => statuses
       /\ LET r == IF statuses THEN rep ELSE [rep EXCEPT !.ok = FALSE, !.error = TRUE] IN
            /\ saved' = IF stored
                        THEN {[ok |-> r.ok, phase |-> environmentRestorePhase(r), ran |-> r.ran]}
                        ELSE saved
            /\ rep' = IF stored THEN r ELSE [r EXCEPT !.ok = FALSE, !.error = TRUE]
  /\ pc' = "done"
  /\ UNCHANGED <<opt, env, effects>>

\* The command has returned.
Finished == pc = "done" /\ UNCHANGED vars

Next ==
  \/ buildEnvironmentRestoreReportWithStructuredState
  \/ environmentRestoreBuildPlanAndReportWithWatchdog
  \/ environmentRestoreAddSourceReports
  \/ environmentRestoreSkippedDockerReport \/ environmentRestorePrepareReposOnlyDockerReport
  \/ environmentRestoreUseExistingContainers \/ environmentRestoreDockerPlan
  \/ environmentRestorePrepareDockerExecution \/ environmentRestoreRunCleanup
  \/ environmentRestoreCleanupCommands \/ environmentRestoreProjectDockerNativeAssets
  \/ environmentRestoreRunCommands \/ environmentRestoreApplyEdgeAssets
  \/ waitEnvironmentRestoreHealthChecks
  \/ environmentRestoreMaybeRunWorkflow \/ environmentRestoreReadiness
  \/ environmentRestoreMaybePersist
  \/ Finished

Spec == Init /\ [][Next]_vars

-----------------------------------------------------------------------------
Destructive == {"down", "rmi", "rm"}

\* Containers and images are only removed when an executed command asked for it
\* and allowed it, of an environment whose services, project and files the Store
\* accounts for, after the backups; and images only when they were asked for.
CleanupIsGuarded ==
  effects \cap Destructive # {} =>
    /\ opt.execute /\ Requested /\ opt.allowed /\ env.linked /\ env.files = "ok"
    /\ "backup" \in effects
    /\ "rmi" \in effects => opt.clean = "images"

\* Nothing is started over a cleanup that was asked for and is not finished.
StartAfterCleanup ==
  effects \cap {"pull", "build", "up", "start-command"} # {} /\ Requested =>
    {"down"} \cup (IF "conflict" \in env.issues THEN {"rm"} ELSE {}) \subseteq effects

\* Docker is not touched at all by a dry run, by --prepare-repos-only, or when a
\* source or the preflight failed; adopted containers are never started or removed.
DockerUntouched ==
  /\ ~opt.execute => effects = {}
  /\ opt.prepareReposOnly \/ ~rep.preflight \/ ~rep.repos \/ ~rep.package
       => effects \subseteq {"checkout", "files"}
  /\ opt.useExisting => effects \subseteq {"checkout", "files", "edge", "probe", "workflow"}

\* The acceptance workflow runs against an environment whose sources, services
\* and probes were all OK.
WorkflowNeedsHealth ==
  "workflow" \in effects =>
    /\ rep.preflight /\ rep.repos /\ rep.package /\ rep.docker /\ rep.health
    /\ opt.useExisting \/ effects \cap {"up", "start-command"} # {}

\* Together: whatever combination of flags and findings a restore meets, Docker
\* is only touched as far as the command line and the gates before allow it.
DockerGuarded == CleanupIsGuarded /\ StartAfterCleanup /\ DockerUntouched /\ WorkflowNeedsHealth

\* A restore that reports OK has done what was asked for: it is the only thing
\* the exit code stands for.  Health checks are recorded, and every one the loop
\* finds something to probe in was probed and passed; where it finds nothing in
\* any of them, OK says nothing of the services' health.
OKMeansDone ==
  pc = "done" /\ rep.ok =>
    /\ rep.docker /\ rep.health /\ rep.ready
    /\ opt.runWorkflow => "workflow" \in effects /\ rep.workflow
    /\ env.probes # "none"
    /\ opt.execute /\ ~opt.prepareReposOnly /\ env.probes = "some" => "probe" \in effects
    /\ opt.execute /\ ~opt.prepareReposOnly /\ Requested => "down" \in effects
    /\ \E s \in saved : s.ok

=============================================================================
