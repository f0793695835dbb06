---------------------- MODULE EnvironmentRestoreProofs ----------------------
(***************************************************************************)
(* Proofs about a restore, for every recorded environment and command      *)
(* line, about its checkouts, for every list of sources, and about its     *)
(* migrations and bootstrap SQL, for any number of concurrent commands.    *)
(***************************************************************************)
EXTENDS EnvironmentRestore, EnvironmentCheckout, EnvironmentMigration, FiniteSetTheorems, TLAPS

Places == {"plan", "sources", "docker", "prepare", "cleanup", "downs", "native", "commands",
           "edge", "health", "workflow", "readiness", "persist", "done"}
ReportType ==
  [ok : BOOLEAN, preflight : BOOLEAN, package : BOOLEAN, repos : BOOLEAN,
   docker : BOOLEAN, health : BOOLEAN, workflow : BOOLEAN, ran : BOOLEAN,
   ready : BOOLEAN, error : BOOLEAN,
   action : {"none", "plan", "run", "adopt", "prepared", "failed", "skipped"}]

-----------------------------------------------------------------------------
(* The inductive invariant                                                  *)

(* A report that is still OK has no failed stage behind it, and the file    *)
(* gate has been passed when Docker is next.                                *)
OKInv ==
  /\ rep.ok => rep.preflight /\ rep.package /\ rep.repos /\ rep.docker /\ rep.health
  /\ rep.ok /\ pc \notin {"plan", "sources"} => environmentRestoreFileProjectionReadyForDocker

Removed == {"down"} \cup (IF "conflict" \in env.issues THEN {"rm"} ELSE {})
Started == {"pull", "build", "up", "start-command"}

(* The services the acceptance is about were started, after the cleanup     *)
(* that was asked for, or adopted.                                          *)
Running ==
  /\ opt.useExisting \/ effects \cap {"up", "start-command"} # {}
  /\ Requested => "down" \in effects

(* What has been done, and found, where the command is. *)
StageInv ==
  /\ pc \in {"plan", "sources"} => effects = {}
  /\ pc = "docker" => effects \subseteq {"checkout"}
  /\ pc \notin {"readiness", "persist", "done"} => "workflow" \notin effects
  /\ pc \in {"prepare", "cleanup", "downs", "native", "commands"} =>
       /\ rep.ok /\ opt.execute /\ ~opt.prepareReposOnly /\ ~opt.useExisting
       /\ Requested => env.start = "compose"
       /\ effects \cap Started = {}
  /\ pc \in {"prepare", "cleanup"} => effects \subseteq {"checkout", "files"}
  /\ pc = "downs" =>
       /\ Requested /\ opt.allowed /\ env.linked
       /\ "backup" \in effects /\ effects \subseteq {"checkout", "files", "backup"}
  /\ pc \in {"native", "commands"} => (Requested => Removed \subseteq effects)
  /\ pc \in {"edge", "health"} => rep.ok /\ opt.execute /\ ~opt.prepareReposOnly /\ Running
  /\ pc \in {"workflow", "readiness", "persist", "done"} /\ rep.ok /\ opt.execute
         /\ ~opt.prepareReposOnly =>
       Running /\ (env.probes = "some" => "probe" \in effects)

(* What the report has earned by the time it is stored. *)
EarnedInv ==
  /\ pc \in {"readiness", "persist", "done"} /\ rep.ok /\ opt.runWorkflow =>
       "workflow" \in effects /\ rep.workflow
  /\ pc \in {"persist", "done"} /\ rep.ok => rep.ready /\ env.probes # "none"
  /\ pc = "done" /\ rep.ok => \E s \in saved : s.ok

RestoreInv ==
  /\ TypeOK /\ validateEnvironmentRestoreCommandFlags(opt)
  /\ OKInv /\ StageInv /\ DockerGuarded /\ EarnedInv
-----------------------------------------------------------------------------
(* The steps                                                                *)

(* The ways the Docker stage ends: the report keeps its form, and a failure *)
(* is one that nothing after it takes back.                                 *)
LEMMA DockerEnds ==
  ASSUME rep \in ReportType,
         NEW action \in {"none", "plan", "run", "adopt", "prepared", "failed", "skipped"}
  PROVE  /\ DockerFails(action) =>
              /\ rep' \in ReportType /\ ~rep'.ok /\ ~rep'.docker
              /\ rep'.preflight = rep.preflight /\ rep'.package = rep.package
              /\ rep'.repos = rep.repos /\ rep'.health = rep.health
              /\ pc' = "workflow" /\ opt' = opt /\ env' = env /\ saved' = saved
         /\ DockerOK(action) =>
              /\ rep' \in ReportType /\ rep'.ok = rep.ok /\ rep'.docker = rep.docker
              /\ rep'.preflight = rep.preflight /\ rep'.package = rep.package
              /\ rep'.repos = rep.repos /\ rep'.health = rep.health
              /\ pc' = "workflow" /\ opt' = opt /\ env' = env /\ saved' = saved
BY DEF ReportType, DockerFails, DockerOK, Goto

(* The plan touches nothing.                                                *)
LEMMA PlanStep ==
  ASSUME RestoreInv,
         buildEnvironmentRestoreReportWithStructuredState
           \/ environmentRestoreBuildPlanAndReportWithWatchdog
  PROVE  RestoreInv'
<1>1. /\ pc' \in {"sources", "done"}
      /\ pc' = "done" => ~rep'.ok
      /\ effects = {} /\ effects' = {} /\ opt' = opt /\ env' = env /\ saved' = saved
  BY DEF RestoreInv, StageInv, buildEnvironmentRestoreReportWithStructuredState,
         environmentRestoreBuildPlanAndReportWithWatchdog, Goto, newEnvironmentRestoreReport, Blank
<1>2. /\ rep' \in ReportType
      /\ rep'.ok => rep'.preflight /\ rep'.package /\ rep'.repos /\ rep'.docker /\ rep'.health
  <2> DEFINE p == environmentRestorePreflightReport
  <2>1. p \in BOOLEAN
    BY DEF environmentRestorePreflightReport
  <2>2. opt.runWorkflow \in BOOLEAN
    BY DEF RestoreInv, TypeOK, Flags
  <2>3. env.policy \in BOOLEAN /\ env.graph \in {"none", "ok", "broken"}
    BY DEF RestoreInv, TypeOK, Environment
  <2>4. newEnvironmentRestoreReport =
          [Blank EXCEPT !.preflight = p, !.ok = p /\ env.policy /\ env.graph # "broken",
                        !.workflow = ~opt.runWorkflow]
    BY DEF newEnvironmentRestoreReport
  <2> HIDE DEF p
  <2>5. CASE buildEnvironmentRestoreReportWithStructuredState
    BY <2>1, <2>2, <2>3, <2>4, <2>5 DEF buildEnvironmentRestoreReportWithStructuredState, ReportType, Blank
  <2>6. CASE environmentRestoreBuildPlanAndReportWithWatchdog
    BY <2>6 DEF environmentRestoreBuildPlanAndReportWithWatchdog, ReportType, Blank
  <2> QED BY <2>5, <2>6
<1>3. TypeOK' /\ validateEnvironmentRestoreCommandFlags(opt)'
  BY <1>1, <1>2 DEF RestoreInv, TypeOK, ReportType, validateEnvironmentRestoreCommandFlags
<1>4. OKInv' /\ StageInv' /\ EarnedInv'
  BY <1>1, <1>2 DEF OKInv, StageInv, EarnedInv
<1>5. DockerGuarded'
  BY <1>1 DEF DockerGuarded, CleanupIsGuarded, StartAfterCleanup, DockerUntouched,
              WorkflowNeedsHealth, Destructive
<1> QED BY <1>3, <1>4, <1>5 DEF RestoreInv
(* The sources: a failed one leaves no OK report, and the file gate is      *)
(* passed or the report is not OK.                                          *)
LEMMA SourcesStep ==
  ASSUME RestoreInv, environmentRestoreAddSourceReports
  PROVE  RestoreInv'
<1>1. /\ pc = "sources" /\ pc' = "docker"
      /\ opt' = opt /\ env' = env /\ saved' = saved
      /\ effects' \subseteq {"checkout"}
      /\ ~opt.execute => effects' = {}
  BY DEF RestoreInv, StageInv, environmentRestoreAddSourceReports, Goto, Does
<1>2. /\ rep' \in ReportType
      /\ rep'.ok => /\ rep'.preflight /\ rep'.package /\ rep'.repos /\ rep'.docker /\ rep'.health
                    /\ environmentRestoreFileProjectionReadyForDocker
  <2> DEFINE gate == environmentRestoreFileProjectionReadyForDocker
  <2>1. gate \in BOOLEAN
    BY DEF environmentRestoreFileProjectionReadyForDocker
  <2>2. PICK package, repos, hasAssets \in BOOLEAN :
          rep' = [rep EXCEPT !.package = package, !.repos = repos,
                             !.ok = rep.ok /\ package /\ repos /\ hasAssets /\ gate,
                             !.error = ~gate]
    BY DEF environmentRestoreAddSourceReports
  <2>3. rep \in ReportType /\ (rep.ok => rep.preflight /\ rep.docker /\ rep.health)
    BY DEF RestoreInv, TypeOK, ReportType, OKInv
  <2> HIDE DEF gate
  <2>4. /\ rep' \in ReportType
        /\ rep'.ok => /\ rep'.preflight /\ rep'.package /\ rep'.repos /\ rep'.docker /\ rep'.health
                      /\ gate
    BY <2>1, <2>2, <2>3 DEF ReportType
  <2> QED BY <2>4 DEF gate
<1>3. TypeOK' /\ validateEnvironmentRestoreCommandFlags(opt)'
  BY <1>1, <1>2 DEF RestoreInv, TypeOK, ReportType, validateEnvironmentRestoreCommandFlags, Effects
<1>4. OKInv'
  BY <1>1, <1>2 DEF OKInv, environmentRestoreFileProjectionReadyForDocker,
                    environmentRestoreFileProjectionRequired, Requested
<1>5. StageInv' /\ EarnedInv'
  BY <1>1, <1>2 DEF StageInv, EarnedInv
<1>6. DockerGuarded'
  BY <1>1 DEF DockerGuarded, CleanupIsGuarded, StartAfterCleanup, DockerUntouched,
              WorkflowNeedsHealth, Destructive
<1> QED BY <1>3, <1>4, <1>5, <1>6 DEF RestoreInv

(* The end of the Docker stage: a failure needs effects within the gates,   *)
(* and an OK end needs the services running when Docker was executed.       *)
LEMMA EndOfDocker ==
  ASSUME RestoreInv, pc # "sources", pc # "plan",
         opt' = opt, env' = env, saved' = saved, pc' = "workflow",
         rep' \in ReportType, effects' \subseteq Effects, "workflow" \notin effects',
         rep'.preflight = rep.preflight, rep'.package = rep.package, rep'.repos = rep.repos,
         rep'.ok => /\ rep.ok /\ rep'.docker /\ rep'.health
                    /\ opt.execute /\ ~opt.prepareReposOnly =>
                         /\ opt.useExisting \/ effects' \cap {"up", "start-command"} # {}
                         /\ Requested => "down" \in effects'
                         /\ env.probes = "some" => "probe" \in effects',
         CleanupIsGuarded', StartAfterCleanup', DockerUntouched'
  PROVE  RestoreInv'
<1>1. TypeOK' /\ validateEnvironmentRestoreCommandFlags(opt)'
  BY DEF RestoreInv, TypeOK, ReportType, validateEnvironmentRestoreCommandFlags
<1>2. OKInv'
  BY DEF RestoreInv, OKInv, environmentRestoreFileProjectionReadyForDocker,
         environmentRestoreFileProjectionRequired, Requested
<1>3. StageInv' /\ EarnedInv'
  BY DEF StageInv, EarnedInv, Running, Requested
<1>4. DockerGuarded'
  BY DEF DockerGuarded, WorkflowNeedsHealth
<1> QED BY <1>1, <1>2, <1>3, <1>4 DEF RestoreInv

(* Where Docker is next, nothing but a checkout has been done, and a report *)
(* of an executed command that goes on has passed every gate.               *)
LEMMA DockerGates ==
  ASSUME RestoreInv, pc = "docker"
  PROVE  /\ effects \subseteq {"checkout"} /\ (~opt.execute => effects = {})
         /\ opt \in Flags /\ env \in Environment /\ rep \in ReportType
         /\ opt.prepareReposOnly => opt.execute
         /\ opt.useExisting => ~Requested
         /\ rep.ok => rep.preflight /\ rep.package /\ rep.repos /\ rep.docker /\ rep.health
BY DEF RestoreInv, StageInv, DockerGuarded, DockerUntouched, TypeOK, ReportType, OKInv,
       validateEnvironmentRestoreCommandFlags, Requested

(* A skipped stage has done nothing, and a prepared one only wrote files.   *)
LEMMA UntouchedStep ==
  ASSUME RestoreInv,
         environmentRestoreSkippedDockerReport \/ environmentRestorePrepareReposOnlyDockerReport
  PROVE  RestoreInv'
<1>1. pc = "docker"
  BY DEF environmentRestoreSkippedDockerReport, environmentRestorePrepareReposOnlyDockerReport
<1>2. /\ effects \subseteq {"checkout"} /\ (~opt.execute => effects = {})
      /\ rep \in ReportType /\ (opt.prepareReposOnly => opt.execute)
      /\ opt.useExisting => ~Requested
      /\ rep.ok => rep.preflight /\ rep.package /\ rep.repos /\ rep.docker /\ rep.health
  BY <1>1, DockerGates
<1>3. PICK action \in {"none", "plan", "run", "adopt", "prepared", "failed", "skipped"} :
        \/ DockerFails(action) /\ effects' = effects
        \/ (DockerFails(action) \/ DockerOK(action)) /\ rep.ok /\ opt.prepareReposOnly
             /\ effects' = effects \cup {"files"}
  BY DEF environmentRestoreSkippedDockerReport, environmentRestorePrepareReposOnlyDockerReport, Does
<1>4. /\ rep' \in ReportType /\ rep'.preflight = rep.preflight /\ rep'.package = rep.package
      /\ rep'.repos = rep.repos /\ rep'.health = rep.health
      /\ rep'.ok => rep.ok /\ rep'.docker /\ opt.prepareReposOnly
      /\ pc' = "workflow" /\ opt' = opt /\ env' = env /\ saved' = saved
  BY <1>2, <1>3, DockerEnds
<1>5. effects' \subseteq {"checkout", "files"} /\ (~opt.execute => effects' = {})
  BY <1>2, <1>3
<1>6. CleanupIsGuarded' /\ StartAfterCleanup' /\ DockerUntouched'
  BY <1>4, <1>5 DEF CleanupIsGuarded, StartAfterCleanup, DockerUntouched, Destructive
<1> QED BY <1>1, <1>2, <1>4, <1>5, <1>6, EndOfDocker DEF Effects
(* A step within the Docker stage leaves the findings of the report alone.  *)
LEMMA WithinDocker ==
  ASSUME RestoreInv, rep.ok, pc \notin {"plan", "sources"},
         pc' \in {"prepare", "cleanup", "downs", "native", "commands", "edge", "health"},
         opt' = opt, env' = env, saved' = saved,
         rep' \in ReportType, rep'.ok = rep.ok, rep'.preflight = rep.preflight,
         rep'.package = rep.package, rep'.repos = rep.repos, rep'.docker = rep.docker,
         rep'.health = rep.health,
         effects' \subseteq Effects, "workflow" \notin effects',
         StageInv', CleanupIsGuarded', StartAfterCleanup', DockerUntouched'
  PROVE  RestoreInv'
<1>1. TypeOK' /\ validateEnvironmentRestoreCommandFlags(opt)'
  BY DEF RestoreInv, TypeOK, ReportType, validateEnvironmentRestoreCommandFlags
<1>2. OKInv'
  BY DEF RestoreInv, OKInv, environmentRestoreFileProjectionReadyForDocker,
         environmentRestoreFileProjectionRequired, Requested
<1>3. EarnedInv'
  BY DEF EarnedInv
<1>4. DockerGuarded'
  BY DEF DockerGuarded, WorkflowNeedsHealth
<1> QED BY <1>1, <1>2, <1>3, <1>4 DEF RestoreInv

(* Adopted containers: files are written, nothing is started or removed.    *)
LEMMA AdoptStep ==
  ASSUME RestoreInv, environmentRestoreUseExistingContainers
  PROVE  RestoreInv'
<1>1. pc = "docker" /\ rep.ok /\ ~opt.prepareReposOnly /\ opt.useExisting
  BY DEF environmentRestoreUseExistingContainers
<1>2. /\ effects \subseteq {"checkout"} /\ (~opt.execute => effects = {})
      /\ rep \in ReportType /\ ~Requested
      /\ rep.ok => rep.preflight /\ rep.package /\ rep.repos /\ rep.docker /\ rep.health
  BY <1>1, DockerGates
<1>3. \/ (\E action \in {"plan", "failed"} :
            \/ DockerFails(action) /\ (effects' = effects \/ (opt.execute /\ effects' = effects \cup {"files"}))
            \/ DockerOK(action) /\ ~opt.execute /\ effects' = effects)
      \/ /\ opt.execute /\ effects' = effects \cup {"files"}
         /\ rep' = [rep EXCEPT !.action = "adopt"] /\ Goto("edge")
  BY DEF environmentRestoreUseExistingContainers, Does
<1>4. CASE \E action \in {"plan", "failed"} :
             \/ DockerFails(action) /\ (effects' = effects \/ (opt.execute /\ effects' = effects \cup {"files"}))
             \/ DockerOK(action) /\ ~opt.execute /\ effects' = effects
  <2>1. PICK action \in {"plan", "failed"} :
             \/ DockerFails(action) /\ (effects' = effects \/ (opt.execute /\ effects' = effects \cup {"files"}))
             \/ DockerOK(action) /\ ~opt.execute /\ effects' = effects
    BY <1>4
  <2>2. /\ rep' \in ReportType /\ rep'.preflight = rep.preflight /\ rep'.package = rep.package
        /\ rep'.repos = rep.repos /\ rep'.health = rep.health
        /\ rep'.ok => rep.ok /\ rep'.docker /\ ~opt.execute
        /\ pc' = "workflow" /\ opt' = opt /\ env' = env /\ saved' = saved
    BY <1>2, <2>1, DockerEnds
  <2>3. effects' \subseteq {"checkout", "files"} /\ (~opt.execute => effects' = {})
    BY <1>2, <2>1
  <2>4. CleanupIsGuarded' /\ StartAfterCleanup' /\ DockerUntouched'
    BY <2>2, <2>3 DEF CleanupIsGuarded, StartAfterCleanup, DockerUntouched, Destructive
  <2> QED BY <1>1, <1>2, <2>2, <2>3, <2>4, EndOfDocker DEF Effects
<1>5. CASE /\ opt.execute /\ effects' = effects \cup {"files"}
           /\ rep' = [rep EXCEPT !.action = "adopt"] /\ Goto("edge")
  <2>1. /\ rep' \in ReportType /\ rep'.ok = rep.ok /\ rep'.preflight = rep.preflight
        /\ rep'.package = rep.package /\ rep'.repos = rep.repos
        /\ rep'.docker = rep.docker /\ rep'.health = rep.health
    BY <1>2, <1>5 DEF ReportType
  <2>2. pc' = "edge" /\ opt' = opt /\ env' = env /\ saved' = saved
    BY <1>5 DEF Goto
  <2>3. effects' \subseteq {"checkout", "files"} /\ opt.execute
    BY <1>2, <1>5
  <2>4. ~Requested'
    BY <1>2, <2>2 DEF Requested
  <2>5. StageInv'
    BY <1>1, <2>1, <2>2, <2>3, <2>4 DEF StageInv, Running
  <2>6. CleanupIsGuarded' /\ StartAfterCleanup' /\ DockerUntouched'
    BY <1>1, <2>1, <2>2, <2>3 DEF CleanupIsGuarded, StartAfterCleanup, DockerUntouched, Destructive
  <2> QED BY <1>1, <2>1, <2>2, <2>3, <2>5, <2>6, WithinDocker DEF Effects
<1> QED BY <1>3, <1>4, <1>5

(* Docker is planned: a dry run stops here.                                 *)
LEMMA DockerPlanStep ==
  ASSUME RestoreInv, environmentRestoreDockerPlan
  PROVE  RestoreInv'
<1>1. pc = "docker" /\ rep.ok /\ ~opt.prepareReposOnly /\ ~opt.useExisting /\ effects' = effects
  BY DEF environmentRestoreDockerPlan
<1>2. /\ effects \subseteq {"checkout"} /\ (~opt.execute => effects = {})
      /\ rep \in ReportType
      /\ rep.ok => rep.preflight /\ rep.package /\ rep.repos /\ rep.docker /\ rep.health
  BY <1>1, DockerGates
<1>3. \/ DockerFails("failed")
      \/ DockerOK("plan") /\ ~opt.execute
      \/ /\ opt.execute /\ (Requested => env.start = "compose")
         /\ rep' = [rep EXCEPT !.action = "plan"] /\ Goto("prepare")
  <2>1. env.start \in {"compose", "command", "none"}
    BY DEF RestoreInv, TypeOK, Environment
  <2> QED BY <2>1 DEF environmentRestoreDockerPlan
<1>4. CASE DockerFails("failed") \/ (DockerOK("plan") /\ ~opt.execute)
  <2>1. /\ rep' \in ReportType /\ rep'.preflight = rep.preflight /\ rep'.package = rep.package
        /\ rep'.repos = rep.repos /\ rep'.health = rep.health
        /\ rep'.ok => rep.ok /\ rep'.docker /\ ~opt.execute
        /\ pc' = "workflow" /\ opt' = opt /\ env' = env /\ saved' = saved
    BY <1>2, <1>4, DockerEnds
  <2>2. CleanupIsGuarded' /\ StartAfterCleanup' /\ DockerUntouched'
    BY <1>1, <1>2, <2>1 DEF CleanupIsGuarded, StartAfterCleanup, DockerUntouched, Destructive
  <2> QED BY <1>1, <1>2, <2>1, <2>2, EndOfDocker DEF Effects
<1>5. CASE /\ opt.execute /\ (Requested => env.start = "compose")
           /\ rep' = [rep EXCEPT !.action = "plan"] /\ Goto("prepare")
  <2>1. /\ rep' \in ReportType /\ rep'.ok = rep.ok /\ rep'.preflight = rep.preflight
        /\ rep'.package = rep.package /\ rep'.repos = rep.repos
        /\ rep'.docker = rep.docker /\ rep'.health = rep.health
    BY <1>2, <1>5 DEF ReportType
  <2>2. pc' = "prepare" /\ opt' = opt /\ env' = env /\ saved' = saved
    BY <1>5 DEF Goto
  <2>3. Requested' => env.start = "compose"
    BY <1>5, <2>2 DEF Requested
  <2>4. StageInv'
    BY <1>1, <1>2, <1>5, <2>1, <2>2, <2>3 DEF StageInv, Started
  <2>5. CleanupIsGuarded' /\ StartAfterCleanup' /\ DockerUntouched'
    BY <1>1, <1>2, <1>5, <2>1, <2>2 DEF CleanupIsGuarded, StartAfterCleanup, DockerUntouched, Destructive
  <2> QED BY <1>1, <1>2, <2>1, <2>2, <2>4, <2>5, WithinDocker DEF Effects
<1> QED BY <1>3, <1>4, <1>5
(* Where Docker is being executed, every gate before it has been passed.    *)
LEMMA ExecutedGates ==
  ASSUME RestoreInv, pc \in {"prepare", "cleanup", "downs", "native", "commands", "edge", "health"}
  PROVE  /\ rep \in ReportType /\ opt \in Flags /\ env \in Environment
         /\ rep.ok /\ rep.preflight /\ rep.package /\ rep.repos /\ rep.docker /\ rep.health
         /\ opt.execute /\ ~opt.prepareReposOnly
         /\ opt.useExisting => ~Requested
         /\ effects \subseteq Effects /\ "workflow" \notin effects
         /\ pc \notin {"edge", "health"} =>
              /\ ~opt.useExisting /\ (Requested => env.start = "compose")
              /\ effects \cap Started = {}
         /\ Requested /\ env.start = "compose" => env.files = "ok"
BY DEF RestoreInv, StageInv, TypeOK, ReportType, OKInv, Environment, Requested,
       validateEnvironmentRestoreCommandFlags, environmentRestoreFileProjectionReadyForDocker,
       environmentRestoreFileProjectionRequired

(* The same of a stage that fails after touching Docker as far as allowed.  *)
LEMMA FailedStage ==
  ASSUME RestoreInv, pc \in {"prepare", "cleanup", "downs", "native", "commands", "edge", "health"},
         NEW action \in {"none", "plan", "run", "adopt", "prepared", "failed", "skipped"},
         DockerFails(action), effects' \subseteq Effects, "workflow" \notin effects',
         opt.useExisting => effects' \subseteq effects \cup {"files", "edge", "probe"},
         CleanupIsGuarded', StartAfterCleanup'
  PROVE  RestoreInv'
<1>1. /\ rep' \in ReportType /\ ~rep'.ok
      /\ rep'.preflight = rep.preflight /\ rep'.package = rep.package /\ rep'.repos = rep.repos
      /\ pc' = "workflow" /\ opt' = opt /\ env' = env /\ saved' = saved
  BY ExecutedGates, DockerEnds
<1>2. DockerUntouched'
  BY <1>1, ExecutedGates DEF RestoreInv, DockerGuarded, DockerUntouched
<1> QED BY <1>1, <1>2, EndOfDocker

(* The workspace and the generated files.                                   *)
LEMMA PrepareStep ==
  ASSUME RestoreInv, environmentRestorePrepareDockerExecution
  PROVE  RestoreInv'
<1>1. pc = "prepare" /\ effects' = effects \cup {"files"} /\ opt' = opt /\ env' = env
  BY DEF environmentRestorePrepareDockerExecution, Does, DockerFails, Goto
<1>2. /\ effects \subseteq {"checkout", "files"} /\ opt.execute /\ ~opt.prepareReposOnly
      /\ ~opt.useExisting /\ (Requested => env.start = "compose")
      /\ rep.ok /\ rep.preflight /\ rep.package /\ rep.repos /\ rep \in ReportType
  BY <1>1, ExecutedGates DEF RestoreInv, StageInv
<1>3. CleanupIsGuarded' /\ StartAfterCleanup'
  BY <1>1, <1>2 DEF CleanupIsGuarded, StartAfterCleanup, Destructive
<1>4. CASE DockerFails("failed")
  BY <1>1, <1>2, <1>3, <1>4, FailedStage DEF Effects
<1>5. CASE UNCHANGED rep /\ Goto("cleanup")
  <2>1. pc' = "cleanup" /\ rep' = rep /\ saved' = saved
    BY <1>5 DEF Goto
  <2>2. StageInv'
    BY <1>1, <1>2, <2>1 DEF StageInv, Started, Requested
  <2>3. DockerUntouched'
    BY <1>1, <1>2, <2>1 DEF DockerUntouched
  <2> QED BY <1>1, <1>2, <1>3, <2>1, <2>2, <2>3, WithinDocker DEF Effects
<1> QED BY <1>4, <1>5 DEF environmentRestorePrepareDockerExecution

(* The gates of a cleanup: it goes on to remove containers only if it was   *)
(* asked for, allowed and linked, and the backups are there.                *)
LEMMA CleanupStep ==
  ASSUME RestoreInv, environmentRestoreRunCleanup
  PROVE  RestoreInv'
<1>1. pc = "cleanup" /\ opt' = opt /\ env' = env /\ saved' = saved
  BY DEF environmentRestoreRunCleanup, DockerFails, Goto
<1>2. /\ effects \subseteq {"checkout", "files"} /\ opt.execute /\ ~opt.prepareReposOnly
      /\ ~opt.useExisting /\ (Requested => env.start = "compose")
      /\ rep.ok /\ rep.preflight /\ rep.package /\ rep.repos /\ rep \in ReportType
  BY <1>1, ExecutedGates DEF RestoreInv, StageInv
<1>3. \/ DockerFails("plan") /\ effects' = effects
      \/ ~Requested /\ UNCHANGED <<rep, effects>> /\ Goto("native")
      \/ /\ Requested /\ opt.allowed /\ env.linked
         /\ effects' = effects \cup {"backup"} /\ UNCHANGED rep /\ Goto("downs")
  BY <1>2 DEF environmentRestoreRunCleanup, environmentRestoreDockerCleanupLinkage, Does
<1>4. effects' \subseteq {"checkout", "files", "backup"}
  BY <1>2, <1>3
<1>5. CleanupIsGuarded' /\ StartAfterCleanup'
  BY <1>4 DEF CleanupIsGuarded, StartAfterCleanup, Destructive
<1>6. CASE DockerFails("plan") /\ effects' = effects
  BY <1>1, <1>2, <1>5, <1>6, FailedStage DEF Effects
<1>7. CASE ~Requested /\ UNCHANGED <<rep, effects>> /\ Goto("native")
  <2>1. pc' = "native" /\ rep' = rep /\ ~Requested'
    BY <1>1, <1>7 DEF Goto, Requested
  <2>2. StageInv'
    BY <1>1, <1>2, <1>4, <2>1 DEF StageInv, Started
  <2>3. DockerUntouched'
    BY <1>1, <1>2, <2>1 DEF DockerUntouched
  <2> QED BY <1>1, <1>2, <1>4, <1>5, <2>1, <2>2, <2>3, WithinDocker DEF Effects
<1>8. CASE /\ Requested /\ opt.allowed /\ env.linked
           /\ effects' = effects \cup {"backup"} /\ UNCHANGED rep /\ Goto("downs")
  <2>1. pc' = "downs" /\ rep' = rep /\ Requested'
    BY <1>1, <1>8 DEF Goto, Requested
  <2>2. StageInv'
    BY <1>1, <1>2, <1>4, <1>8, <2>1 DEF StageInv, Started
  <2>3. DockerUntouched'
    BY <1>1, <1>2, <2>1 DEF DockerUntouched
  <2> QED BY <1>1, <1>2, <1>4, <1>5, <2>1, <2>2, <2>3, WithinDocker DEF Effects
<1> QED BY <1>3, <1>6, <1>7, <1>8

(* The removals: every one of them is behind the gates of the cleanup.      *)
LEMMA DownsStep ==
  ASSUME RestoreInv, environmentRestoreCleanupCommands
  PROVE  RestoreInv'
<1> DEFINE down == {"down"} \cup (IF opt.clean = "images" THEN {"rmi"} ELSE {})
           rm == IF "conflict" \in env.issues THEN {"rm"} ELSE {}
<1>1. pc = "downs" /\ opt' = opt /\ env' = env /\ saved' = saved
  BY DEF environmentRestoreCleanupCommands, DockerFails, Goto
<1>2. /\ effects \subseteq {"checkout", "files", "backup"} /\ "backup" \in effects
      /\ Requested /\ opt.allowed /\ env.linked /\ env.files = "ok"
      /\ opt.execute /\ ~opt.prepareReposOnly /\ ~opt.useExisting /\ env.start = "compose"
      /\ rep.ok /\ rep.preflight /\ rep.package /\ rep.repos /\ rep \in ReportType
  BY <1>1, ExecutedGates DEF RestoreInv, StageInv
<1>3. \/ DockerFails("plan") /\ (effects' = effects \/ effects' = effects \cup down)
      \/ effects' = effects \cup (down \cup rm) /\ UNCHANGED rep /\ Goto("native")
  BY DEF environmentRestoreCleanupCommands, Does
<1>4. /\ effects' \subseteq {"checkout", "files", "backup", "down", "rmi", "rm"}
      /\ "backup" \in effects' /\ ("rmi" \in effects' => opt.clean = "images")
  BY <1>2, <1>3
<1>5. CleanupIsGuarded' /\ StartAfterCleanup'
  BY <1>1, <1>2, <1>4 DEF CleanupIsGuarded, StartAfterCleanup, Requested
<1>6. CASE DockerFails("plan")
  BY <1>1, <1>2, <1>4, <1>5, <1>6, FailedStage DEF Effects
<1>7. CASE effects' = effects \cup (down \cup rm) /\ UNCHANGED rep /\ Goto("native")
  <2>1. pc' = "native" /\ rep' = rep
    BY <1>7 DEF Goto
  <2>2. StageInv'
    BY <1>1, <1>2, <1>4, <1>7, <2>1 DEF StageInv, Started, Removed, Requested
  <2>3. DockerUntouched'
    BY <1>1, <1>2, <2>1 DEF DockerUntouched
  <2> QED BY <1>1, <1>2, <1>4, <1>5, <2>1, <2>2, <2>3, WithinDocker DEF Effects
<1> QED BY <1>3, <1>6, <1>7
(* The init files: nothing has been started yet.                            *)
LEMMA NativeStep ==
  ASSUME RestoreInv, environmentRestoreProjectDockerNativeAssets
  PROVE  RestoreInv'
<1>1. pc = "native" /\ effects' = effects \cup {"sql-files"} /\ opt' = opt /\ env' = env /\ saved' = saved
  BY DEF environmentRestoreProjectDockerNativeAssets, Does, DockerFails, Goto
<1>2. /\ opt.execute /\ ~opt.prepareReposOnly /\ ~opt.useExisting
      /\ Requested => env.start = "compose"
      /\ effects \subseteq Effects /\ "workflow" \notin effects /\ effects \cap Started = {}
      /\ rep.ok /\ rep.preflight /\ rep.package /\ rep.repos /\ rep \in ReportType
      /\ Requested => Removed \subseteq effects
  BY <1>1, ExecutedGates DEF RestoreInv, StageInv
<1>3. CleanupIsGuarded' /\ StartAfterCleanup'
  BY <1>1, <1>2 DEF RestoreInv, DockerGuarded, CleanupIsGuarded, StartAfterCleanup, Destructive,
                    Started, Requested
<1>4. CASE DockerFails("failed")
  BY <1>1, <1>2, <1>3, <1>4, FailedStage DEF Effects
<1>5. CASE rep' = [rep EXCEPT !.action = "run"] /\ Goto("commands")
  <2>1. pc' = "commands"
    BY <1>5 DEF Goto
  <2>2. /\ rep' \in ReportType /\ rep'.ok = rep.ok /\ rep'.preflight = rep.preflight
        /\ rep'.package = rep.package /\ rep'.repos = rep.repos
        /\ rep'.docker = rep.docker /\ rep'.health = rep.health
    BY <1>2, <1>5 DEF ReportType
  <2>3. effects' \cap Started = {} /\ (Requested => Removed \subseteq effects')
    BY <1>1, <1>2 DEF Started
  <2>4. StageInv'
    BY <1>1, <1>2, <2>1, <2>2, <2>3 DEF StageInv, Started, Requested, Removed
  <2>5. DockerUntouched'
    BY <1>1, <1>2, <2>2 DEF DockerUntouched
  <2> QED BY <1>1, <1>2, <1>3, <2>1, <2>2, <2>4, <2>5, WithinDocker DEF Effects
<1> QED BY <1>4, <1>5 DEF environmentRestoreProjectDockerNativeAssets

(* The start: the removals that were asked for are complete.                *)
LEMMA CommandsStep ==
  ASSUME RestoreInv, environmentRestoreRunCommands
  PROVE  RestoreInv'
<1>1. pc = "commands" /\ opt' = opt /\ env' = env /\ saved' = saved
  BY DEF environmentRestoreRunCommands, DockerFails, Goto
<1>2. /\ opt.execute /\ ~opt.prepareReposOnly /\ ~opt.useExisting
      /\ effects \subseteq Effects /\ "workflow" \notin effects
      /\ rep.ok /\ rep.preflight /\ rep.package /\ rep.repos /\ rep \in ReportType
      /\ Requested => Removed \subseteq effects
  BY <1>1, ExecutedGates DEF RestoreInv, StageInv
<1>3. /\ DockerFails("run")
           \/ /\ UNCHANGED rep /\ Goto("edge")
              /\ effects' \cap {"up", "start-command"} # {}
      /\ effects \subseteq effects' /\ effects' \subseteq effects \cup Started
  <2> DEFINE pull == IF opt.pull THEN {"pull"} ELSE {}
             all == IF env.start = "command" THEN {"start-command"} ELSE pull \cup {"build", "up"}
  <2>1. \/ Does(all) /\ UNCHANGED rep /\ Goto("edge")
        \/ (Does(all) \/ Does(all \ {"up"}) \/ Does(pull)) /\ DockerFails("run")
    BY DEF environmentRestoreRunCommands
  <2>2. all \subseteq Started /\ pull \subseteq Started /\ all \cap {"up", "start-command"} # {}
    BY DEF Started
  <2> HIDE DEF pull, all
  <2> QED BY <2>1, <2>2 DEF Does
<1>4. effects' \subseteq Effects /\ "workflow" \notin effects'
  BY <1>2, <1>3 DEF Effects, Started
<1>5. CleanupIsGuarded' /\ StartAfterCleanup'
  <2>1. CleanupIsGuarded'
    BY <1>1, <1>3 DEF RestoreInv, DockerGuarded, CleanupIsGuarded, Destructive, Started, Requested
  <2>2. StartAfterCleanup'
    BY <1>1, <1>2, <1>3 DEF StartAfterCleanup, Requested, Removed
  <2> QED BY <2>1, <2>2
<1>6. CASE DockerFails("run")
  BY <1>1, <1>2, <1>4, <1>5, <1>6, FailedStage
<1>7. CASE UNCHANGED rep /\ Goto("edge") /\ effects' \cap {"up", "start-command"} # {}
  <2>1. pc' = "edge" /\ rep' = rep
    BY <1>7 DEF Goto
  <2>2. Requested' => "down" \in effects'
    BY <1>1, <1>2, <1>3 DEF Requested, Removed
  <2>3. StageInv'
    BY <1>1, <1>2, <1>4, <1>7, <2>1, <2>2 DEF StageInv, Running
  <2>4. DockerUntouched'
    BY <1>1, <1>2, <2>1 DEF DockerUntouched
  <2> QED BY <1>1, <1>2, <1>4, <1>5, <2>1, <2>3, <2>4, WithinDocker
<1> QED BY <1>3, <1>6, <1>7

(* The edge assets: the services stay as they are.                          *)
LEMMA EdgeStep ==
  ASSUME RestoreInv, environmentRestoreApplyEdgeAssets
  PROVE  RestoreInv'
<1>1. pc = "edge" /\ effects' = effects \cup {"edge"} /\ opt' = opt /\ env' = env /\ saved' = saved
  BY DEF environmentRestoreApplyEdgeAssets, Does, DockerFails, Goto
<1>2. /\ opt.execute /\ ~opt.prepareReposOnly /\ Running
      /\ effects \subseteq Effects /\ "workflow" \notin effects
      /\ rep.ok /\ rep.preflight /\ rep.package /\ rep.repos /\ rep \in ReportType
      /\ DockerUntouched
  BY <1>1, ExecutedGates DEF RestoreInv, StageInv, DockerGuarded
<1>3. CleanupIsGuarded' /\ StartAfterCleanup'
  BY <1>1 DEF RestoreInv, DockerGuarded, CleanupIsGuarded, StartAfterCleanup, Destructive, Requested
<1>4. CASE DockerFails(rep.action)
  <2>1. rep.action \in {"none", "plan", "run", "adopt", "prepared", "failed", "skipped"}
    BY <1>2 DEF ReportType
  <2> QED BY <1>1, <1>2, <1>3, <1>4, <2>1, FailedStage DEF Effects
<1>5. CASE UNCHANGED rep /\ Goto("health")
  <2>1. pc' = "health" /\ rep' = rep
    BY <1>5 DEF Goto
  <2>2. Running'
    BY <1>1, <1>2 DEF Running, Requested
  <2>3. StageInv'
    BY <1>1, <1>2, <2>1, <2>2 DEF StageInv
  <2>4. DockerUntouched'
    BY <1>1, <1>2, <2>1 DEF DockerUntouched
  <2> QED BY <1>1, <1>2, <1>3, <2>1, <2>3, <2>4, WithinDocker DEF Effects
<1> QED BY <1>4, <1>5 DEF environmentRestoreApplyEdgeAssets

(* The probes: a stage that is still OK has run them.                       *)
LEMMA HealthStep ==
  ASSUME RestoreInv, waitEnvironmentRestoreHealthChecks
  PROVE  RestoreInv'
<1>1. /\ pc = "health" /\ pc' = "workflow" /\ opt' = opt /\ env' = env /\ saved' = saved
      /\ effects' = effects \/ effects' = effects \cup {"probe"}
  BY DEF waitEnvironmentRestoreHealthChecks, Does, DockerOK, Goto
<1>2. /\ opt.execute /\ ~opt.prepareReposOnly /\ Running
      /\ effects \subseteq Effects /\ "workflow" \notin effects
      /\ rep.ok /\ rep.preflight /\ rep.package /\ rep.repos /\ rep \in ReportType
      /\ rep.docker /\ rep.health /\ DockerUntouched
  BY <1>1, ExecutedGates DEF RestoreInv, StageInv, DockerGuarded
<1>3. /\ rep' \in ReportType /\ rep'.preflight = rep.preflight
      /\ rep'.package = rep.package /\ rep'.repos = rep.repos
      /\ rep'.ok => rep'.docker /\ rep'.health /\ (env.probes = "some" => "probe" \in effects')
  <2>1. \/ /\ rep' = [rep EXCEPT !.action = rep.action]
           /\ env.probes = "some" => "probe" \in effects'
        \/ rep' = [rep EXCEPT !.docker = FALSE, !.ok = FALSE, !.health = FALSE]
    BY DEF waitEnvironmentRestoreHealthChecks, DockerOK, Does
  <2> QED BY <1>2, <2>1 DEF ReportType
<1>4. CleanupIsGuarded' /\ StartAfterCleanup' /\ DockerUntouched'
  BY <1>1, <1>2, <1>3
  DEF RestoreInv, DockerGuarded, CleanupIsGuarded, StartAfterCleanup, DockerUntouched, Destructive, Requested
<1>5. /\ opt.useExisting \/ effects' \cap {"up", "start-command"} # {}
      /\ Requested => "down" \in effects'
  BY <1>1, <1>2 DEF Running
<1> QED BY <1>1, <1>2, <1>3, <1>4, <1>5, EndOfDocker DEF Effects
(* The acceptance workflow, only for a report that is still OK.             *)
LEMMA WorkflowStep ==
  ASSUME RestoreInv, environmentRestoreMaybeRunWorkflow
  PROVE  RestoreInv'
<1>1. pc = "workflow" /\ pc' = "readiness" /\ opt' = opt /\ env' = env /\ saved' = saved
  BY DEF environmentRestoreMaybeRunWorkflow, Goto
<1>2. /\ rep \in ReportType /\ opt \in Flags /\ env \in Environment
      /\ effects \subseteq Effects /\ "workflow" \notin effects
      /\ rep.ok => rep.preflight /\ rep.package /\ rep.repos /\ rep.docker /\ rep.health
      /\ opt.runWorkflow => opt.execute /\ ~opt.prepareReposOnly
      /\ rep.ok /\ opt.execute /\ ~opt.prepareReposOnly =>
           Running /\ (env.probes = "some" => "probe" \in effects)
      /\ CleanupIsGuarded /\ StartAfterCleanup /\ DockerUntouched
  BY <1>1 DEF RestoreInv, TypeOK, ReportType, OKInv, StageInv, validateEnvironmentRestoreCommandFlags,
              DockerGuarded
<1>3. \/ (~opt.runWorkflow \/ ~rep.ok) /\ rep' = rep /\ effects' = effects
      \/ /\ opt.runWorkflow /\ rep.ok /\ effects' = effects \cup {"workflow"}
         /\ \E ok \in BOOLEAN : rep' = [rep EXCEPT !.workflow = ok, !.ran = TRUE, !.ok = ok]
  <2>1. CASE ~opt.runWorkflow \/ ~rep.ok
    BY <2>1 DEF environmentRestoreMaybeRunWorkflow
  <2>2. CASE opt.runWorkflow /\ rep.ok
    <3>1. PICK ok \in BOOLEAN : rep' = [rep EXCEPT !.workflow = ok, !.ran = TRUE, !.ok = rep.ok /\ ok]
      BY <2>2, <1>2 DEF environmentRestoreMaybeRunWorkflow, ReportType
    <3>2. (rep.ok /\ ok) = ok
      BY <2>2
    <3>3. effects' = effects \cup {"workflow"}
      BY <2>2 DEF environmentRestoreMaybeRunWorkflow, Does
    <3> QED BY <2>2, <3>1, <3>2, <3>3
  <2> QED BY <2>1, <2>2
<1>4. /\ rep' \in ReportType /\ rep'.preflight = rep.preflight /\ rep'.package = rep.package
      /\ rep'.repos = rep.repos /\ rep'.docker = rep.docker /\ rep'.health = rep.health
      /\ rep'.ok => rep.ok /\ (opt.runWorkflow => "workflow" \in effects' /\ rep'.workflow)
      /\ "workflow" \in effects' => rep.ok /\ opt.runWorkflow
      /\ effects \subseteq effects' /\ effects' \subseteq effects \cup {"workflow"}
  <2>1. CASE (~opt.runWorkflow \/ ~rep.ok) /\ rep' = rep /\ effects' = effects
    BY <1>2, <2>1
  <2>2. CASE /\ opt.runWorkflow /\ rep.ok /\ effects' = effects \cup {"workflow"}
             /\ \E ok \in BOOLEAN : rep' = [rep EXCEPT !.workflow = ok, !.ran = TRUE, !.ok = ok]
    <3>1. PICK ok \in BOOLEAN : rep' = [rep EXCEPT !.workflow = ok, !.ran = TRUE, !.ok = ok]
      BY <2>2
    <3>2. /\ rep' \in ReportType /\ rep'.preflight = rep.preflight /\ rep'.package = rep.package
          /\ rep'.repos = rep.repos /\ rep'.docker = rep.docker /\ rep'.health = rep.health
          /\ rep'.ok => rep'.workflow
      BY <1>2, <3>1 DEF ReportType
    <3> QED BY <2>2, <3>2
  <2> QED BY <1>3, <2>1, <2>2
<1>5. TypeOK' /\ validateEnvironmentRestoreCommandFlags(opt)'
  BY <1>1, <1>2, <1>4 DEF RestoreInv, TypeOK, ReportType, Effects, validateEnvironmentRestoreCommandFlags
<1>6. OKInv'
  BY <1>1, <1>2, <1>4 DEF RestoreInv, OKInv, environmentRestoreFileProjectionReadyForDocker,
                          environmentRestoreFileProjectionRequired, Requested
<1>7. StageInv' /\ EarnedInv'
  BY <1>1, <1>2, <1>4 DEF StageInv, EarnedInv, Running, Requested
<1>8. CleanupIsGuarded' /\ StartAfterCleanup'
  BY <1>1, <1>2, <1>4 DEF CleanupIsGuarded, StartAfterCleanup, Destructive, Requested
<1>9. DockerUntouched'
  BY <1>1, <1>2, <1>4 DEF DockerUntouched
<1>10. WorkflowNeedsHealth'
  BY <1>1, <1>2, <1>4 DEF WorkflowNeedsHealth, Running
<1> QED BY <1>5, <1>6, <1>7, <1>8, <1>9, <1>10 DEF RestoreInv, DockerGuarded

(* After the workflow nothing is touched any more: a report that stays OK   *)
(* keeps all its findings, and what it has earned.                          *)
LEMMA AfterTheWorkflow ==
  ASSUME RestoreInv, pc \in {"readiness", "persist"}, pc' \in {"persist", "done"},
         opt' = opt, env' = env, effects' = effects,
         rep' \in ReportType, rep'.preflight = rep.preflight, rep'.package = rep.package,
         rep'.repos = rep.repos, rep'.docker = rep.docker, rep'.health = rep.health,
         rep'.ok => rep.ok /\ rep'.workflow = rep.workflow /\ rep'.ready /\ env.probes # "none",
         \A s \in saved' : s.ok \in BOOLEAN,
         pc' = "done" /\ rep'.ok => \E s \in saved' : s.ok
  PROVE  RestoreInv'
<1>1. TypeOK' /\ validateEnvironmentRestoreCommandFlags(opt)'
  BY DEF RestoreInv, TypeOK, ReportType, validateEnvironmentRestoreCommandFlags
<1>2. OKInv'
  BY DEF RestoreInv, OKInv, environmentRestoreFileProjectionReadyForDocker,
         environmentRestoreFileProjectionRequired, Requested
<1>3. StageInv'
  BY DEF RestoreInv, StageInv, Running, Requested
<1>4. EarnedInv'
  BY DEF RestoreInv, EarnedInv
<1>5. DockerGuarded'
  BY DEF RestoreInv, DockerGuarded, CleanupIsGuarded, StartAfterCleanup, DockerUntouched,
         WorkflowNeedsHealth, Destructive, Requested
<1> QED BY <1>1, <1>2, <1>3, <1>4, <1>5 DEF RestoreInv

(* Readiness: a report that is still OK passed every required item, the     *)
(* recorded probes among them.                                              *)
LEMMA ReadinessStep ==
  ASSUME RestoreInv, environmentRestoreReadiness
  PROVE  RestoreInv'
<1> DEFINE r == environmentRestoreReadinessReport
<1>1. pc = "readiness" /\ pc' = "persist" /\ effects' = effects
      /\ opt' = opt /\ env' = env /\ saved' = saved
  BY DEF environmentRestoreReadiness, Goto
<1>2. rep \in ReportType /\ (\A s \in saved : s.ok \in BOOLEAN)
  BY DEF RestoreInv, TypeOK, ReportType
<1>3. r \in BOOLEAN /\ (r => env.probes # "none")
  <2>1. r => env.probes # "none"
    BY DEF environmentRestoreReadinessReport
  <2>2. r \in BOOLEAN
    BY DEF environmentRestoreReadinessReport
  <2> QED BY <2>1, <2>2
<1>4. rep' = [rep EXCEPT !.ready = r, !.ok = rep.ok /\ r, !.error = rep.error \/ ~r]
  BY <1>2 DEF environmentRestoreReadiness, ReportType
<1> HIDE DEF r
<1>5. /\ rep' \in ReportType /\ rep'.preflight = rep.preflight /\ rep'.package = rep.package
      /\ rep'.repos = rep.repos /\ rep'.docker = rep.docker /\ rep'.health = rep.health
      /\ rep'.workflow = rep.workflow
      /\ rep'.ok => rep.ok /\ rep'.ready /\ r
  <2> DEFINE ok == rep.ok /\ r
             error == rep.error \/ ~r
  <2>1. ok \in BOOLEAN /\ error \in BOOLEAN /\ (ok => rep.ok /\ r)
    OBVIOUS
  <2>2. rep' = [rep EXCEPT !.ready = r, !.ok = ok, !.error = error]
    BY <1>4
  <2> HIDE DEF ok, error
  <2> QED BY <1>2, <1>3, <2>1, <2>2 DEF ReportType
<1> QED BY <1>1, <1>2, <1>3, <1>5, AfterTheWorkflow

(* The summary: an OK report has been stored as one.                        *)
LEMMA PersistStep ==
  ASSUME RestoreInv, environmentRestoreMaybePersist
  PROVE  RestoreInv'
<1>1. pc = "persist" /\ pc' = "done" /\ effects' = effects /\ opt' = opt /\ env' = env
  BY DEF environmentRestoreMaybePersist
<1>2. /\ rep \in ReportType /\ (\A s \in saved : s.ok \in BOOLEAN)
      /\ rep.ok => rep.ready /\ env.probes # "none"
  BY <1>1 DEF RestoreInv, TypeOK, ReportType, EarnedInv
<1>3. PICK statuses, stored \in BOOLEAN :
        LET r == IF statuses THEN rep ELSE [rep EXCEPT !.ok = FALSE, !.error = TRUE] IN
          /\ saved' = IF stored
                      THEN {[ok |-> r.ok, phase |-> environmentRestorePhase(r), ran |-> r.ran]}
                      ELSE saved
          /\ rep' = IF stored THEN r ELSE [r EXCEPT !.ok = FALSE, !.error = TRUE]
  BY DEF environmentRestoreMaybePersist
<1> DEFINE r == IF statuses THEN rep ELSE [rep EXCEPT !.ok = FALSE, !.error = TRUE]
<1>4. /\ r \in ReportType /\ r.preflight = rep.preflight /\ r.package = rep.package
      /\ r.repos = rep.repos /\ r.docker = rep.docker /\ r.health = rep.health
      /\ r.ok => rep.ok /\ r.workflow = rep.workflow /\ r.ready = rep.ready
  <2> DEFINE f == [rep EXCEPT !.ok = FALSE, !.error = TRUE]
  <2>1. /\ f \in ReportType /\ f.preflight = rep.preflight /\ f.package = rep.package
        /\ f.repos = rep.repos /\ f.docker = rep.docker /\ f.health = rep.health /\ ~f.ok
    BY <1>2 DEF ReportType
  <2> HIDE DEF f
  <2>2. r = IF statuses THEN rep ELSE f
    BY DEF f
  <2> HIDE DEF r
  <2> QED BY <1>2, <2>1, <2>2
<1>5. /\ saved' = IF stored
                  THEN {[ok |-> r.ok, phase |-> environmentRestorePhase(r), ran |-> r.ran]}
                  ELSE saved
      /\ rep' = IF stored THEN r ELSE [r EXCEPT !.ok = FALSE, !.error = TRUE]
  BY <1>3
<1> HIDE DEF r
<1>6. /\ rep' \in ReportType /\ rep'.preflight = rep.preflight /\ rep'.package = rep.package
      /\ rep'.repos = rep.repos /\ rep'.docker = rep.docker /\ rep'.health = rep.health
      /\ rep'.ok => rep.ok /\ rep'.workflow = rep.workflow /\ rep'.ready = rep.ready /\ stored
                      /\ r.ok
  BY <1>4, <1>5 DEF ReportType
<1>7. \A s \in saved' : s.ok \in BOOLEAN
  BY <1>2, <1>4, <1>5 DEF ReportType
<1>8. rep'.ok => \E s \in saved' : s.ok
  BY <1>5, <1>6
<1> QED BY <1>1, <1>2, <1>6, <1>7, <1>8, AfterTheWorkflow
-----------------------------------------------------------------------------
(* The theorems                                                             *)

(* A command starts with nothing done.                                      *)
LEMMA StartOfTheCommand == Init => RestoreInv
<1> SUFFICES ASSUME Init PROVE RestoreInv
  OBVIOUS
<1>1. TypeOK /\ validateEnvironmentRestoreCommandFlags(opt)
  BY RestoreAssumption DEF Init, TypeOK, Blank
<1>2. OKInv
  BY DEF Init, OKInv, Blank
<1>3. StageInv /\ EarnedInv
  BY DEF Init, StageInv, EarnedInv
<1>4. DockerGuarded
  BY DEF Init, DockerGuarded, CleanupIsGuarded, StartAfterCleanup, DockerUntouched,
         WorkflowNeedsHealth, Destructive
<1> QED BY <1>1, <1>2, <1>3, <1>4 DEF RestoreInv

(* Every stage, whatever it finds and wherever it fails, keeps the          *)
(* invariant.                                                               *)
LEMMA StepOfTheCommand == RestoreInv /\ [Next]_vars => RestoreInv'
<1> SUFFICES ASSUME RestoreInv, [Next]_vars PROVE RestoreInv'
  OBVIOUS
<1>1. CASE UNCHANGED vars
  BY <1>1
  DEF vars, RestoreInv, TypeOK, OKInv, StageInv, Running, Removed, Started, EarnedInv, DockerGuarded,
      CleanupIsGuarded, StartAfterCleanup, DockerUntouched, WorkflowNeedsHealth, Requested,
      validateEnvironmentRestoreCommandFlags, environmentRestoreFileProjectionReadyForDocker,
      environmentRestoreFileProjectionRequired
<1>2. CASE Next
  <2>1. CASE Finished
    BY <1>1, <2>1 DEF Finished
  <2> QED
    BY <1>2, <2>1, PlanStep, SourcesStep, UntouchedStep, AdoptStep, DockerPlanStep, PrepareStep,
       CleanupStep, DownsStep, NativeStep, CommandsStep, EdgeStep, HealthStep, WorkflowStep,
       ReadinessStep, PersistStep
    DEF Next
<1> QED BY <1>1, <1>2

(* The inductive invariant holds of every restore: of every recorded        *)
(* environment, every command line, and every failure of a stage.           *)
THEOREM Invariant == Spec => []RestoreInv
BY StartOfTheCommand, StepOfTheCommand, PTL DEF Spec

(* environmentRestoreRunCleanup and the gates before it: containers and     *)
(* images are only removed when it was asked for, allowed, linked and       *)
(* backed up, nothing starts over an unfinished cleanup, dry runs and       *)
(* failed sources leave Docker alone, and the acceptance workflow needs     *)
(* services that run and are healthy.                                       *)
THEOREM DockerIsGuarded == Spec => []DockerGuarded
<1>1. RestoreInv => DockerGuarded
  BY DEF RestoreInv
<1> QED BY <1>1, Invariant, PTL

(* A report that says OK, which is what the exit code says, has the probes  *)
(* of the checks that can be probed, the cleanup and the workflow that were *)
(* asked for behind it, and is what the Store's summary says.               *)
THEOREM OKIsEarned == Spec => []OKMeansDone
<1>1. RestoreInv => OKMeansDone
  <2> SUFFICES ASSUME RestoreInv, pc = "done", rep.ok
               PROVE  /\ rep.docker /\ rep.health /\ rep.ready
                      /\ opt.runWorkflow => "workflow" \in effects /\ rep.workflow
                      /\ env.probes # "none"
                      /\ opt.execute /\ ~opt.prepareReposOnly /\ env.probes = "some" => "probe" \in effects
                      /\ opt.execute /\ ~opt.prepareReposOnly /\ Requested => "down" \in effects
                      /\ \E s \in saved : s.ok
    BY DEF OKMeansDone
  <2> QED BY DEF RestoreInv, OKInv, StageInv, EarnedInv, Running
<1> QED BY <1>1, Invariant, PTL
-----------------------------------------------------------------------------
(* The checkouts                                                            *)

(* Only a checkout has uncommitted changes; a clone starts where there is   *)
(* none; and whatever comes after the validation finds a checkout, of the   *)
(* source's remote if it names one.                                         *)
Validated == {"ref", "pull", "fetch", "checkout"}
CheckoutInv ==
  /\ CheckoutTypeOK
  /\ \A d \in Dirs : disk[d].dirty => disk[d].kind = "git"
  /\ At("clone") => Dir.kind \in {"missing", "empty"}
  /\ at.i # 0 /\ at.step \in Validated => Dir.kind = "git" /\ (Item.url => Dir.ours)

(* The source that is being prepared is one of the sources, in a directory. *)
LEMMA CurrentSource ==
  ASSUME CheckoutTypeOK, at.i # 0
  PROVE  /\ at.i \in DOMAIN Items
         /\ Item \in SourceType
         /\ Item.dir \in Dirs /\ Dir \in DirType
<1>1. at.i \in DOMAIN Items
  BY CheckoutAssumption DEF CheckoutTypeOK
<1>2. Item \in SourceType
  BY <1>1, CheckoutAssumption DEF Item
<1>3. Item.dir \in Dirs
  BY <1>2 DEF SourceType
<1>. QED BY <1>1, <1>2, <1>3 DEF CheckoutTypeOK, Dir

(* The next source, if there is one. *)
LEMMA NextSourceType ==
  ASSUME CheckoutTypeOK
  PROVE  NextSource \in [i : 0 .. Len(Items), step : Steps] /\ NextSource.step = "stat"
<1>1. Len(Items) \in Nat
  BY CheckoutAssumption
<1>. QED BY <1>1 DEF CheckoutTypeOK, NextSource, Steps

(* After a report the source is read or the next one is looked at. *)
LEMMA Reported ==
  ASSUME CheckoutTypeOK, at.i # 0, NEW action \in Actions, NEW ok \in BOOLEAN, Report(action, ok)
  PROVE  /\ at' \in [i : 0 .. Len(Items), step : Steps]
         /\ at'.step \in {"stat", "materialize"}
         /\ result' \in [DOMAIN Items -> [action : Actions, ok : BOOLEAN]]
         /\ UNCHANGED <<gitOpt, written>>
<1>1. at.i \in DOMAIN Items
  BY CurrentSource
<1>2. result' \in [DOMAIN Items -> [action : Actions, ok : BOOLEAN]]
  BY <1>1 DEF Report, CheckoutTypeOK
<1>3. at' = [at EXCEPT !.step = "materialize"] \/ at' = NextSource
  BY DEF Report
<1>. QED BY <1>2, <1>3, NextSourceType DEF Report, CheckoutTypeOK, Steps

(* In the first state nothing is being prepared and nothing is edited. *)
LEMMA CheckoutInitInv == CheckoutInit => CheckoutInv
<1> SUFFICES ASSUME CheckoutInit PROVE CheckoutInv
  OBVIOUS
<1>1. Missing \in DirType
  BY CheckoutAssumption DEF Missing, DirType
<1>2. /\ [Missing EXCEPT !.kind = "git", !.have = 1, !.head = 1] \in DirType
      /\ ~[Missing EXCEPT !.kind = "git", !.have = 1, !.head = 1].dirty
  <2>1. 0 \in 0 .. Commits /\ 1 \in 0 .. Commits
    BY CheckoutAssumption
  <2>2. ~Missing.dirty
    BY DEF Missing
  <2>. QED BY <1>1, <2>1, <2>2 DEF DirType
<1>3. disk \in [Dirs -> DirType] /\ \A d \in Dirs : ~disk[d].dirty
  BY <1>1, <1>2 DEF CheckoutInit, Missing
<1>4. Len(Items) \in Nat
  BY CheckoutAssumption
<1>. QED BY <1>3, <1>4, CheckoutAssumption
  DEF CheckoutInit, CheckoutInv, CheckoutTypeOK, NoResult, Actions, Steps, At
(* A source that is reported leaves nothing to come before or after the     *)
(* validation: what is left to show is the directories.                     *)
LEMMA ReportKeepsInv ==
  ASSUME CheckoutInv, at.i # 0, NEW action \in Actions, NEW ok \in BOOLEAN, Report(action, ok),
         disk' \in [Dirs -> DirType], \A d \in Dirs : disk'[d].dirty => disk'[d].kind = "git",
         tip' \in 1 .. Commits, faults' \in 0 .. GitFaults, edits' \in 0 .. Edits
  PROVE  CheckoutInv'
<1>1. CheckoutTypeOK
  BY DEF CheckoutInv
<1>2. /\ at' \in [i : 0 .. Len(Items), step : Steps]
      /\ at'.step \in {"stat", "materialize"}
      /\ result' \in [DOMAIN Items -> [action : Actions, ok : BOOLEAN]]
      /\ UNCHANGED <<gitOpt, written>>
  BY <1>1, Reported
<1>3. CheckoutTypeOK'
  BY <1>1, <1>2 DEF CheckoutTypeOK
<1>. QED BY <1>2, <1>3 DEF CheckoutInv, At, Validated

(* The next command of a source that stays where it is. *)
LEMMA GoToKeepsInv ==
  ASSUME CheckoutInv, at.i # 0, NEW step \in Steps, GoTo(step), UNCHANGED disk, Unharmed,
         step = "clone" => Dir.kind \in {"missing", "empty"},
         step \in Validated => Dir.kind = "git" /\ (Item.url => Dir.ours)
  PROVE  CheckoutInv'
<1>1. at' \in [i : 0 .. Len(Items), step : Steps] /\ at'.i = at.i /\ at'.step = step
  BY DEF CheckoutInv, CheckoutTypeOK, GoTo
<1>2. CheckoutTypeOK'
  BY <1>1 DEF CheckoutInv, CheckoutTypeOK, GoTo, Unharmed
<1>3. Item' = Item /\ Dir' = Dir
  BY <1>1 DEF Item, Dir
<1>. QED BY <1>1, <1>2, <1>3 DEF CheckoutInv, At

(* What a directory of the workspace becomes when one field of it changes.  *)
LEMMA ChangedDir ==
  ASSUME CheckoutInv, NEW dir \in Dirs, NEW new \in DirType, new.dirty => new.kind = "git",
         disk' = [disk EXCEPT ![dir] = new]
  PROVE  /\ disk' \in [Dirs -> DirType]
         /\ \A d \in Dirs : disk'[d].dirty => disk'[d].kind = "git"
         /\ disk'[dir] = new
BY DEF CheckoutInv, CheckoutTypeOK

(* A look at the directory decides on a clone only where there is nothing.  *)
LEMMA RepoInv == CheckoutInv /\ environmentRestoreRepo => CheckoutInv'
<1> SUFFICES ASSUME CheckoutInv, environmentRestoreRepo PROVE CheckoutInv'
  OBVIOUS
<1>1. CheckoutTypeOK /\ at.i # 0 /\ at.step = "stat" /\ UNCHANGED disk /\ Unharmed
  BY DEF CheckoutInv, environmentRestoreRepo, At
<1>2. \/ Report("missing-repo-url", FALSE)
      \/ Dir.kind \in {"missing", "empty"} /\ GoTo("clone")
      \/ Report("clone", TRUE)
      \/ GoTo("validate")
      \/ Report("use-existing-checkout", TRUE)
  BY DEF environmentRestoreRepo
<1>3. ASSUME NEW action \in Actions, NEW ok \in BOOLEAN, Report(action, ok) PROVE CheckoutInv'
  BY <1>1, <1>3, ReportKeepsInv DEF CheckoutInv, CheckoutTypeOK, Unharmed
<1>4. CASE Dir.kind \in {"missing", "empty"} /\ GoTo("clone")
  BY <1>1, <1>4, GoToKeepsInv DEF Steps, Validated
<1>5. CASE GoTo("validate")
  BY <1>1, <1>5, GoToKeepsInv DEF Steps, Validated
<1>. QED BY <1>2, <1>3, <1>4, <1>5 DEF Actions

(* The validation lets only a checkout of the source's remote go on.        *)
LEMMA ValidateInv == CheckoutInv /\ environmentRestoreValidateCheckout => CheckoutInv'
<1> SUFFICES ASSUME CheckoutInv, environmentRestoreValidateCheckout PROVE CheckoutInv'
  OBVIOUS
<1>1. CheckoutTypeOK /\ at.i # 0 /\ UNCHANGED disk /\ Unharmed
  BY DEF CheckoutInv, environmentRestoreValidateCheckout, At
<1>2. \/ Report("invalid-existing-checkout", FALSE)
      \/ ValidCheckout /\ (GoTo("ref") \/ GoTo("pull"))
      \/ Report("use-existing-checkout", TRUE)
  BY DEF environmentRestoreValidateCheckout
<1>3. ASSUME NEW action \in Actions, NEW ok \in BOOLEAN, Report(action, ok) PROVE CheckoutInv'
  BY <1>1, <1>3, ReportKeepsInv DEF CheckoutInv, CheckoutTypeOK, Unharmed
<1>4. ASSUME ValidCheckout, NEW step \in {"ref", "pull"}, GoTo(step) PROVE CheckoutInv'
  BY <1>1, <1>4, GoToKeepsInv DEF Steps, ValidCheckout
<1>. QED BY <1>2, <1>3, <1>4 DEF Actions

LEMMA ExistingRefInv == CheckoutInv /\ environmentRestoreExistingRef => CheckoutInv'
<1> SUFFICES ASSUME CheckoutInv, environmentRestoreExistingRef PROVE CheckoutInv'
  OBVIOUS
<1>1. /\ CheckoutTypeOK /\ at.i # 0 /\ UNCHANGED disk /\ Unharmed
      /\ Dir.kind = "git" /\ (Item.url => Dir.ours)
  BY DEF CheckoutInv, environmentRestoreExistingRef, At, Validated
<1>2. \/ Report("use-existing-checkout", TRUE)
      \/ Report("checkout-existing-ref", TRUE)
      \/ GoTo("fetch") \/ GoTo("checkout")
  BY DEF environmentRestoreExistingRef
<1>3. ASSUME NEW action \in Actions, NEW ok \in BOOLEAN, Report(action, ok) PROVE CheckoutInv'
  BY <1>1, <1>3, ReportKeepsInv DEF CheckoutInv, CheckoutTypeOK, Unharmed
<1>4. ASSUME NEW step \in {"fetch", "checkout"}, GoTo(step) PROVE CheckoutInv'
  BY <1>1, <1>4, GoToKeepsInv DEF Steps
<1>. QED BY <1>2, <1>3, <1>4 DEF Actions
(* A finished clone is a clean checkout of the source's remote.             *)
LEMMA CloneInv == CheckoutInv /\ environmentRestoreCloneIntoCheckout => CheckoutInv'
<1> SUFFICES ASSUME CheckoutInv, environmentRestoreCloneIntoCheckout PROVE CheckoutInv'
  OBVIOUS
<1> DEFINE new == [kind |-> "git", ours |-> TRUE, have |-> tip, head |-> tip, detached |-> FALSE,
                   dirty |-> FALSE]
<1>1. CheckoutTypeOK /\ at.i # 0 /\ Unharmed /\ disk' = [disk EXCEPT ![Item.dir] = new]
  BY DEF CheckoutInv, environmentRestoreCloneIntoCheckout, At
<1>2. new \in DirType /\ new.kind = "git" /\ new.ours
  BY <1>1, CheckoutAssumption DEF CheckoutTypeOK, DirType
<1>3. at.i \in DOMAIN Items /\ Item.dir \in Dirs
  BY <1>1, CurrentSource
<1> HIDE DEF new
<1>4. /\ disk' \in [Dirs -> DirType]
      /\ \A d \in Dirs : disk'[d].dirty => disk'[d].kind = "git"
      /\ disk'[Item.dir] = new
  BY <1>1, <1>2, <1>3, ChangedDir
<1>5. CASE Report("clone", TRUE)
  BY <1>1, <1>4, <1>5, ReportKeepsInv DEF Unharmed, CheckoutTypeOK, Actions
<1>6. CASE /\ result' = [result EXCEPT ![at.i].action = "clone"]
           /\ at' = [at EXCEPT !.step = "checkout"]
           /\ UNCHANGED <<gitOpt, written>>
  <2>1. at' \in [i : 0 .. Len(Items), step : Steps] /\ at'.i = at.i /\ at'.step = "checkout"
    BY <1>1, <1>6 DEF CheckoutTypeOK, Steps
  <2>2. result' \in [DOMAIN Items -> [action : Actions, ok : BOOLEAN]]
    BY <1>1, <1>3, <1>6 DEF CheckoutTypeOK, Actions
  <2>3. CheckoutTypeOK'
    BY <1>1, <1>4, <1>6, <2>1, <2>2 DEF CheckoutTypeOK, Unharmed
  <2>4. Item' = Item /\ Dir' = new
    BY <1>4, <2>1 DEF Item, Dir
  <2>. QED BY <1>2, <1>4, <2>1, <2>3, <2>4 DEF CheckoutInv, At
<1>. QED BY <1>5, <1>6 DEF environmentRestoreCloneIntoCheckout, new

(* A pull moves a clean checkout.                                           *)
LEMMA PullInv == CheckoutInv /\ environmentRestorePullExisting => CheckoutInv'
<1> SUFFICES ASSUME CheckoutInv, environmentRestorePullExisting PROVE CheckoutInv'
  OBVIOUS
<1> DEFINE ok == Dir.kind = "git" /\ ~Dir.detached /\ ~Dir.dirty
           new == IF ok THEN [Dir EXCEPT !.have = tip, !.head = tip] ELSE Dir
<1>1. CheckoutTypeOK /\ at.i # 0 /\ Unharmed /\ Dir.kind = "git"
  BY DEF CheckoutInv, environmentRestorePullExisting, At, Validated
<1>2. Item.dir \in Dirs /\ Dir \in DirType
  BY <1>1, CurrentSource
<1>3. disk' = [disk EXCEPT ![Item.dir] = new] /\ Report("pull-existing-checkout", ok)
  BY <1>2 DEF environmentRestorePullExisting, CheckoutTypeOK, Dir
<1>4. new \in DirType /\ (new.dirty => new.kind = "git")
  <2>1. tip \in 0 .. Commits
    BY <1>1, CheckoutAssumption DEF CheckoutTypeOK
  <2>. QED BY <1>1, <1>2, <2>1 DEF DirType
<1>5. ok \in BOOLEAN
  OBVIOUS
<1> HIDE DEF new, ok
<1>6. disk' \in [Dirs -> DirType] /\ \A d \in Dirs : disk'[d].dirty => disk'[d].kind = "git"
  BY <1>2, <1>3, <1>4, ChangedDir
<1>. QED BY <1>1, <1>3, <1>5, <1>6, ReportKeepsInv DEF Unharmed, CheckoutTypeOK, Actions

(* A fetch leaves a checkout where it is.                                   *)
LEMMA FetchInv == CheckoutInv /\ FetchTags => CheckoutInv'
<1> SUFFICES ASSUME CheckoutInv, FetchTags PROVE CheckoutInv'
  OBVIOUS
<1> DEFINE new == [Dir EXCEPT !.have = tip]
<1>1. /\ CheckoutTypeOK /\ at.i # 0 /\ Unharmed
      /\ Dir.kind = "git" /\ (Item.url => Dir.ours)
  BY DEF CheckoutInv, FetchTags, At, Validated
<1>2. Item.dir \in Dirs /\ Dir \in DirType
  BY <1>1, CurrentSource
<1>3. disk' = [disk EXCEPT ![Item.dir] = new]
  BY <1>2 DEF FetchTags, CheckoutTypeOK, Dir
<1>4. new \in DirType /\ new.kind = "git" /\ (Item.url => new.ours)
  <2>1. tip \in 0 .. Commits
    BY <1>1, CheckoutAssumption DEF CheckoutTypeOK
  <2>. QED BY <1>1, <1>2, <2>1 DEF DirType
<1> HIDE DEF new
<1>5. /\ disk' \in [Dirs -> DirType]
      /\ \A d \in Dirs : disk'[d].dirty => disk'[d].kind = "git"
      /\ disk'[Item.dir] = new
  BY <1>2, <1>3, <1>4, ChangedDir
<1>6. at' \in [i : 0 .. Len(Items), step : Steps] /\ at'.i = at.i /\ at'.step = "checkout"
  BY <1>1 DEF CheckoutTypeOK, FetchTags, GoTo, Steps
<1>7. CheckoutTypeOK'
  BY <1>1, <1>5, <1>6 DEF CheckoutTypeOK, Unharmed, FetchTags, GoTo
<1>8. Item' = Item /\ Dir' = new
  BY <1>5, <1>6 DEF Item, Dir
<1>. QED BY <1>4, <1>5, <1>6, <1>7, <1>8 DEF CheckoutInv, At

(* A checkout of a ref carries local changes along.                         *)
LEMMA CheckoutRefInv == CheckoutInv /\ environmentRestoreExistingRefCommands => CheckoutInv'
<1> SUFFICES ASSUME CheckoutInv, environmentRestoreExistingRefCommands PROVE CheckoutInv'
  OBVIOUS
<1>1. CheckoutTypeOK /\ at.i # 0 /\ Unharmed /\ Dir.kind = "git"
  BY DEF CheckoutInv, environmentRestoreExistingRefCommands, At, Validated
<1>2. Item.dir \in Dirs /\ Dir \in DirType /\ Item.ref \in NoRef .. Commits
  BY <1>1, CurrentSource DEF SourceType
<1> DEFINE new(ok) == IF ok THEN [Dir EXCEPT !.head = Item.ref, !.detached = TRUE] ELSE Dir
           action == IF result[at.i].action = "none" THEN "checkout-existing-ref" ELSE "clone"
<1>3. PICK ok \in BOOLEAN : disk' = [disk EXCEPT ![Item.dir] = new(ok)] /\ Report(action, ok)
  BY <1>2 DEF environmentRestoreExistingRefCommands, CheckoutTypeOK, Dir
<1>4. new(ok) \in DirType /\ (new(ok).dirty => new(ok).kind = "git") /\ action \in Actions
  BY <1>1, <1>2 DEF DirType, Actions, NoRef
<1> HIDE DEF new, action
<1>5. disk' \in [Dirs -> DirType] /\ \A d \in Dirs : disk'[d].dirty => disk'[d].kind = "git"
  BY <1>2, <1>3, <1>4, ChangedDir
<1>. QED BY <1>1, <1>3, <1>4, <1>5, ReportKeepsInv DEF Unharmed, CheckoutTypeOK

LEMMA MaterializeInv == CheckoutInv /\ environmentRestoreRemoteComponentAssets => CheckoutInv'
<1> SUFFICES ASSUME CheckoutInv, environmentRestoreRemoteComponentAssets PROVE CheckoutInv'
  OBVIOUS
<1>1. CheckoutTypeOK /\ at.i # 0
  BY DEF CheckoutInv, environmentRestoreRemoteComponentAssets, At
<1>2. at.i \in DOMAIN Items /\ Dir.head \in 0 .. Commits
  BY <1>1, CurrentSource DEF DirType
<1>3. at' \in [i : 0 .. Len(Items), step : Steps] /\ at'.step = "stat"
  BY <1>1, NextSourceType DEF environmentRestoreRemoteComponentAssets
<1>4. written' \in [DOMAIN Items -> 0 .. Commits]
  BY <1>1, <1>2 DEF CheckoutTypeOK, environmentRestoreRemoteComponentAssets
<1>5. CheckoutTypeOK'
  BY <1>1, <1>3, <1>4 DEF CheckoutTypeOK, environmentRestoreRemoteComponentAssets, Unharmed
<1>. QED BY <1>3, <1>5
  DEF CheckoutInv, At, Validated, environmentRestoreRemoteComponentAssets
(* A git command that fails changes no directory. *)
LEMMA GitFailsInv == CheckoutInv /\ GitFails => CheckoutInv'
<1> SUFFICES ASSUME CheckoutInv, GitFails PROVE CheckoutInv'
  OBVIOUS
<1>1. CheckoutTypeOK /\ at.i # 0 /\ UNCHANGED <<disk, tip, edits>> /\ faults' \in 0 .. GitFaults
  BY CheckoutAssumption DEF CheckoutInv, GitFails, CheckoutTypeOK
<1>2. PICK action \in Actions : Report(action, FALSE)
  BY DEF GitFails, Actions
<1>. QED BY <1>1, <1>2, ReportKeepsInv DEF CheckoutInv, CheckoutTypeOK

(* A kill ends the command; what it leaves of a clone is not a checkout.    *)
LEMMA KilledInv == CheckoutInv /\ Killed => CheckoutInv'
<1> SUFFICES ASSUME CheckoutInv, Killed PROVE CheckoutInv'
  OBVIOUS
<1>1. CheckoutTypeOK /\ at.i # 0
  BY DEF CheckoutInv, Killed
<1>2. Item.dir \in Dirs /\ Dir \in DirType
  BY <1>1, CurrentSource
<1>3. PICK k \in IF at.step = "clone" THEN {Dir.kind, "empty", "plain"} ELSE {Dir.kind} :
        disk' = [disk EXCEPT ![Item.dir].kind = k]
  BY DEF Killed
<1> DEFINE new == [Dir EXCEPT !.kind = k]
<1>4. disk' = [disk EXCEPT ![Item.dir] = new]
  BY <1>2, <1>3 DEF CheckoutTypeOK, Dir
<1>5. new \in DirType
  BY <1>2, <1>3 DEF DirType
<1>6. new.dirty => new.kind = "git"
  <2>1. Dir.dirty => Dir.kind = "git"
    BY <1>2 DEF CheckoutInv, Dir
  <2>2. at.step = "clone" => ~Dir.dirty
    BY <1>1, <2>1 DEF CheckoutInv, At
  <2>. QED BY <1>2, <1>3, <2>1, <2>2 DEF DirType
<1> HIDE DEF new
<1>7. disk' \in [Dirs -> DirType] /\ \A d \in Dirs : disk'[d].dirty => disk'[d].kind = "git"
  BY <1>2, <1>4, <1>5, <1>6, ChangedDir
<1>8. at' = [i |-> 0, step |-> "stat"] /\ 0 \in 0 .. Len(Items)
  BY CheckoutAssumption DEF Killed
<1>9. CheckoutTypeOK'
  BY <1>1, <1>7, <1>8, CheckoutAssumption DEF CheckoutTypeOK, Killed, Steps
<1>. QED BY <1>7, <1>8, <1>9 DEF CheckoutInv, At

(* The developer works in checkouts only and does not change their remote.  *)
LEMMA DeveloperInv ==
  ASSUME CheckoutInv, NEW dir \in Dirs, Edit(dir) \/ Switch(dir)
  PROVE  CheckoutInv'
<1> DEFINE new == IF Edit(dir) THEN [disk[dir] EXCEPT !.dirty = ~@]
                  ELSE [disk[dir] EXCEPT !.detached = FALSE, !.head = disk[dir].have]
<1>1. CheckoutTypeOK /\ disk[dir] \in DirType /\ disk[dir].kind = "git"
  BY DEF CheckoutInv, CheckoutTypeOK, Edit, Switch
<1>2. new \in DirType /\ new.kind = "git" /\ new.ours = disk[dir].ours
  BY <1>1 DEF DirType
<1>3. disk' = [disk EXCEPT ![dir] = new]
  BY <1>1 DEF Edit, Switch, CheckoutTypeOK
<1>4. UNCHANGED <<tip, at, gitOpt, result, written, faults>> /\ edits' \in 0 .. Edits
  BY <1>1, CheckoutAssumption DEF Edit, Switch, CheckoutTypeOK
<1> HIDE DEF new
<1>5. /\ disk' \in [Dirs -> DirType]
      /\ \A d \in Dirs : disk'[d].dirty => disk'[d].kind = "git"
      /\ disk'[dir] = new
  BY <1>2, <1>3, ChangedDir
<1>6. CheckoutTypeOK'
  BY <1>1, <1>4, <1>5 DEF CheckoutTypeOK
<1>7. \A d \in Dirs : disk'[d].kind = disk[d].kind /\ disk'[d].ours = disk[d].ours
  BY <1>1, <1>2, <1>3 DEF CheckoutTypeOK
<1>8. Item' = Item /\ Dir' = disk'[Item.dir]
  BY <1>4 DEF Item, Dir
<1>9. at.i # 0 => Dir'.kind = Dir.kind /\ Dir'.ours = Dir.ours
  BY <1>1, <1>7, <1>8, CurrentSource DEF Dir
<1>. QED BY <1>4, <1>5, <1>6, <1>8, <1>9 DEF CheckoutInv, At

(* Every step keeps the invariant. *)
LEMMA CheckoutStepInv == CheckoutInv /\ [CheckoutNext]_checkoutVars => CheckoutInv'
<1> SUFFICES ASSUME CheckoutInv, [CheckoutNext]_checkoutVars PROVE CheckoutInv'
  OBVIOUS
<1>1. CASE PrepareSources
  <2>1. CheckoutTypeOK
    BY DEF CheckoutInv
  <2>2. at' \in [i : 0 .. Len(Items), step : Steps] /\ at'.step = "stat"
    BY <1>1, <2>1, NextSourceType DEF PrepareSources
  <2>3. CheckoutTypeOK'
    BY <1>1, <2>1, <2>2 DEF CheckoutTypeOK, PrepareSources, NoResult, Actions
  <2>. QED BY <1>1, <2>2, <2>3 DEF CheckoutInv, PrepareSources, At, Validated
<1>2. CASE Restore
  BY <1>2, RepoInv, ValidateInv, ExistingRefInv, CloneInv, PullInv, FetchInv, CheckoutRefInv,
     MaterializeInv DEF Restore
<1>3. CASE Push
  <2>1. CheckoutTypeOK'
    BY <1>3, CheckoutAssumption DEF CheckoutInv, CheckoutTypeOK, Push
  <2>. QED BY <1>3, <2>1 DEF CheckoutInv, Push, At, Item, Dir
<1>4. CASE UNCHANGED checkoutVars
  BY <1>4 DEF CheckoutInv, CheckoutTypeOK, checkoutVars, At, Item, Dir
<1>. QED BY <1>1, <1>2, <1>3, <1>4, GitFailsInv, KilledInv, DeveloperInv DEF CheckoutNext

(* What a git command of a restore may do to the directories. *)
LEMMA RestoreStepKeepsWork ==
  ASSUME CheckoutInv, Restore \/ GitFails
  PROVE  /\ \A d \in Dirs : disk[d].dirty => disk'[d].dirty
         /\ Item.url /\ Dir.kind = "git" /\ ~Dir.ours => disk' = disk
<1>1. at.i # 0
  BY DEF Restore, GitFails, environmentRestoreRepo, environmentRestoreValidateCheckout,
     environmentRestoreExistingRef, environmentRestoreCloneIntoCheckout,
     environmentRestorePullExisting, FetchTags, environmentRestoreExistingRefCommands,
     environmentRestoreRemoteComponentAssets, At
<1>2. disk \in [Dirs -> DirType] /\ Item.dir \in Dirs /\ Dir \in DirType
  BY <1>1, CurrentSource DEF CheckoutInv, CheckoutTypeOK
<1>3. CASE environmentRestoreCloneIntoCheckout
  <2>1. Dir.kind # "git" /\ ~Dir.dirty
    BY <1>2, <1>3 DEF environmentRestoreCloneIntoCheckout, CheckoutInv, At, Dir
  <2>. QED BY <1>2, <1>3, <2>1 DEF environmentRestoreCloneIntoCheckout, Dir
<1>4. CASE environmentRestorePullExisting
  <2>1. Item.url => Dir.ours
    BY <1>1, <1>4 DEF environmentRestorePullExisting, CheckoutInv, At, Validated
  <2>. QED BY <1>2, <1>4, <2>1 DEF environmentRestorePullExisting, Dir, DirType
<1>5. CASE FetchTags
  <2>1. Item.url => Dir.ours
    BY <1>1, <1>5 DEF FetchTags, CheckoutInv, At, Validated
  <2>. QED BY <1>2, <1>5, <2>1 DEF FetchTags, Dir, DirType
<1>6. CASE environmentRestoreExistingRefCommands
  <2>1. Item.url => Dir.ours
    BY <1>1, <1>6 DEF environmentRestoreExistingRefCommands, CheckoutInv, At, Validated
  <2>. QED BY <1>2, <1>6, <2>1 DEF environmentRestoreExistingRefCommands, Dir, DirType
<1>7. CASE UNCHANGED disk
  BY <1>7
<1>. QED BY <1>3, <1>4, <1>5, <1>6, <1>7 DEF Restore, GitFails, environmentRestoreRepo,
     environmentRestoreValidateCheckout, environmentRestoreExistingRef,
     environmentRestoreRemoteComponentAssets

(* The checkouts' variables keep their types, only a checkout carries       *)
(* uncommitted changes, and a command after the validation works in a       *)
(* checkout of the source's own remote, whatever a developer, a kill or a   *)
(* push does in between (environment_restore_sources.go).                   *)
THEOREM CheckoutInvariant == CheckoutSpec => []CheckoutInv
BY CheckoutInitInv, CheckoutStepInv, PTL DEF CheckoutSpec

(* LocalWorkSurvives: no git command of a restore loses uncommitted changes *)
(* or moves a checkout of another remote for a source that names a remote,  *)
(* for every list of sources, shared checkout directories included.         *)
THEOREM LocalWorkIsKept == CheckoutSpec => LocalWorkSurvives
<1>1. CheckoutInv /\ [CheckoutNext]_checkoutVars =>
        [Restore \/ GitFails =>
           /\ \A d \in Dirs : disk[d].dirty => disk'[d].dirty
           /\ Item.url /\ Dir.kind = "git" /\ ~Dir.ours => disk' = disk]_checkoutVars
  BY RestoreStepKeepsWork
<1>. QED BY <1>1, CheckoutInvariant, PTL DEF CheckoutSpec, LocalWorkSurvives
-----------------------------------------------------------------------------
(* The migrations                                                           *)

Orders == Versions \cup Overrides
AssetType ==
  {NoAsset} \cup [version : Versions, content : Contents, order : Orders, complete : BOOLEAN]
ItemType == [id : Ids, version : Versions, content : Contents, order : Orders]
TodoType == ItemType \cup [seed : Nat]
RowType == {NoRow} \cup [content : Contents, applied : BOOLEAN]
DBType ==
  [exists : BOOLEAN, history : [Versions -> RowType], ran : [Contents -> Nat],
   seeded : [1 .. Len(boot) -> Nat], recreated : BOOLEAN]

WriteType == [op : {"add"}, assets : [Ids -> AssetType], links : Seq(Ids)]
WorkType ==
  [op : {"apply", "baseline", "restore"}, at : {"project", "query", "run", "insert"}, todo : Seq(TodoType),
   items : SUBSET ItemType, done : SUBSET Ids, adopt : BOOLEAN]
CmdType == {Idle} \cup WriteType \cup WorkType

MigrationTypeOK ==
  /\ boot \in Bootstraps
  /\ assets \in [Ids -> AssetType]
  /\ links \in Seq(Ids)
  /\ db \in DBType
  /\ cmd \in [Clients -> CmdType]
  /\ raced \subseteq Ids

(* A complete status stands for a history row, in the graph and in every    *)
(* copy of it that is about to be written, of every migration that was not  *)
(* replaced under a command; what is linked is there.                       *)
InHistory(d, i) == d.history[i.version].content = i.content
GraphOK(x, d, as, ls) ==
  /\ \A id \in Ids \ x : as[id].complete /\ ~d.recreated => InHistory(d, as[id])
  /\ \A k \in DOMAIN ls : as[ls[k]] # NoAsset

(* A migration whose history row comes next has run. A command that is to   *)
(* mark migrations complete has them in the history, and the graph does not *)
(* have others under their names unless they were replaced meanwhile. What  *)
(* is left to apply is sorted, and what                                     *)
(* is not left is in the history.                                           *)
Undisturbed(as, i) ==
  as[i.id] # NoAsset => as[i.id].version = i.version /\ as[i.id].content = i.content
WorkOK(x, d, as, r) ==
  /\ r.at \in {"run", "insert"} => r.todo # <<>> /\ Head(r.todo) \in ItemType
  /\ r.at = "insert" /\ r.op # "baseline" => d.ran[Head(r.todo).content] > 0
  /\ \A k \in DOMAIN r.todo : r.todo[k] \in r.items \cup [seed : Nat]
  /\ \A id \in r.done : \E i \in r.items : i.id = id /\ InHistory(d, i)
  /\ \A i \in r.items : i.id \in x \/ Undisturbed(as, i)
  /\ r.op = "apply" /\ r.todo # <<>> =>
       /\ \A k, l \in DOMAIN r.todo : k < l => r.todo[k].order <= r.todo[l].order
       /\ \A i \in r.items : InHistory(d, i) \/ \E k \in DOMAIN r.todo : r.todo[k] = i

(* A restore that started the services found its SQL mounted.               *)
Mounted == \A i \in SQLAssets : boot[i].mounted
CommandOK(x, d, as, r) ==
  /\ r \in WriteType => GraphOK(x, d, r.assets, r.links)
  /\ r \in WorkType => WorkOK(x, d, as, r) /\ (r.op = "restore" /\ ~r.adopt /\ r.at # "project" => Mounted)

HistoryRan(d) == \A v \in Versions : d.history[v].applied => d.ran[d.history[v].content] > 0

MigrationInv ==
  /\ MigrationTypeOK
  /\ GraphOK(raced, db, assets, links)
  /\ \A c \in Clients : CommandOK(raced, db, assets, cmd[c])
  /\ HistoryRan(db)
  /\ \A i \in SQLAssets : db.seeded[i] <= 1

(* What an operation says about the record of a command. *)
LEMMA CommandKinds ==
  ASSUME NEW r \in CmdType
  PROVE  /\ r.op = "add" => r \in WriteType
         /\ r.op \in {"apply", "baseline", "restore"} => r \in WorkType
         /\ r \in WorkType => r.op # "add" /\ r.op # "idle"
<1>1. CASE r = Idle
  BY <1>1 DEF Idle, WorkType
<1>2. CASE r \in WriteType
  BY <1>2 DEF WriteType, WorkType
<1>3. CASE r \in WorkType
  BY <1>3 DEF WorkType
<1>. QED BY <1>1, <1>2, <1>3 DEF CmdType

(* A bootstrap asset is no migration. *)
LEMMA SeedIsNoItem == ASSUME NEW i \in ItemType PROVE i \notin [seed : Nat]
<1>1. "id" \in DOMAIN i
  BY DEF ItemType
<1>. QED BY <1>1

(* A database in which rows stay and what ran has run.                      *)
Grows(d, e) ==
  /\ e.recreated = d.recreated
  /\ \A v \in Versions : d.history[v] # NoRow => e.history[v] = d.history[v]
  /\ \A s \in Contents : d.ran[s] > 0 => e.ran[s] > 0

(* No asset has no status. *)
LEMMA Nothing == ~NoAsset.complete /\ NoAsset \in AssetType /\ ~NoRow.applied /\ NoRow \in RowType
BY DEF NoAsset, AssetType, NoRow, RowType

(* A row of the history stays, and so does what it says of a migration.     *)
LEMMA HistoryGrows ==
  ASSUME NEW d, NEW e, Grows(d, e),
         NEW i, i.version \in Versions, i.content \in Contents, InHistory(d, i)
  PROVE  InHistory(e, i)
<1>1. i.content # "none"
  BY MigrationAssumption
<1>2. d.history[i.version] # NoRow
  BY <1>1 DEF NoRow, InHistory
<1>. QED BY <1>2 DEF InHistory, Grows

(* The same for the graphs and for the commands.                            *)
LEMMA GraphKept ==
  ASSUME NEW d, NEW e, Grows(d, e), NEW x, NEW as \in [Ids -> AssetType], NEW ls, GraphOK(x, d, as, ls)
  PROVE  GraphOK(x, e, as, ls)
<1>1. ASSUME NEW id \in Ids \ x, as[id].complete, ~e.recreated
      PROVE  InHistory(e, as[id])
  <2>1. InHistory(d, as[id])
    BY <1>1 DEF GraphOK, Grows
  <2>2. as[id].version \in Versions /\ as[id].content \in Contents
    <3>1. as[id] # NoAsset
      BY <1>1, Nothing
    <3>2. as[id] \in [version : Versions, content : Contents, order : Orders, complete : BOOLEAN]
      BY <3>1 DEF AssetType
    <3>. QED BY <3>2
  <2>. QED BY <2>1, <2>2, HistoryGrows
<1>. QED BY <1>1 DEF GraphOK

LEMMA CommandKept ==
  ASSUME NEW d, NEW e, Grows(d, e), NEW x, NEW as, NEW r \in CmdType, CommandOK(x, d, as, r)
  PROVE  CommandOK(x, e, as, r)
<1>1. ASSUME r \in WriteType PROVE GraphOK(x, e, r.assets, r.links)
  BY <1>1, GraphKept DEF CommandOK, WriteType
<1>2. ASSUME r \in WorkType PROVE WorkOK(x, e, as, r)
  <2>1. WorkOK(x, d, as, r) /\ r.items \subseteq ItemType
    BY <1>2 DEF CommandOK, WorkType
  <2>2. \A i \in r.items : InHistory(d, i) => InHistory(e, i)
    BY <2>1, HistoryGrows DEF ItemType
  <2>3. r.at \in {"run", "insert"} => Head(r.todo).content \in Contents
    BY <2>1 DEF WorkOK, ItemType
  <2>. QED BY <2>1, <2>2, <2>3 DEF WorkOK, Grows
<1>. QED BY <1>1, <1>2 DEF CommandOK

(* A command that changes nothing but itself and, at most, the database.    *)
LEMMA CommandStep ==
  ASSUME MigrationInv, NEW c \in Clients, NEW r \in CmdType, cmd' = [cmd EXCEPT ![c] = r],
         UNCHANGED <<assets, links, boot, raced>>, db' \in DBType, Grows(db, db'), HistoryRan(db'),
         \A i \in SQLAssets : db'.seeded[i] <= 1,
         CommandOK(raced, db', assets, r)
  PROVE  MigrationInv'
<1>1. MigrationTypeOK'
  BY DEF MigrationInv, MigrationTypeOK, DBType
<1>2. GraphOK(raced, db', assets', links')
  BY GraphKept DEF MigrationInv, MigrationTypeOK
<1>3. ASSUME NEW d \in Clients PROVE CommandOK(raced, db', assets, cmd'[d])
  BY CommandKept DEF MigrationInv, MigrationTypeOK
<1>4. Mounted' = Mounted
  BY DEF Mounted, SQLAssets
<1>5. (\A i \in SQLAssets : db.seeded[i] <= 1)' /\ HistoryRan(db)'
  BY DEF SQLAssets, HistoryRan
<1>6. (\A d \in Clients : CommandOK(raced, db, assets, cmd[d]))'
  BY <1>3, <1>4 DEF CommandOK, GraphOK, WorkOK, InHistory, Undisturbed
<1>. QED BY <1>1, <1>2, <1>5, <1>6 DEF MigrationInv, GraphOK, InHistory

(* A command that changes nothing but itself. *)
LEMMA CommandOnly ==
  ASSUME MigrationInv, NEW c \in Clients, NEW r \in CmdType, cmd' = [cmd EXCEPT ![c] = r],
         UNCHANGED <<assets, links, boot, db, raced>>, CommandOK(raced, db, assets, r)
  PROVE  MigrationInv'
<1>1. Grows(db, db') /\ HistoryRan(db')
  BY DEF Grows, MigrationInv, HistoryRan
<1>2. db' \in DBType /\ \A i \in SQLAssets : db'.seeded[i] <= 1
  BY DEF MigrationInv, MigrationTypeOK
<1>. QED BY <1>1, <1>2, CommandStep DEF MigrationInv
(* A new database, and one whose server has started. *)
LEMMA NewDatabase ==
  ASSUME boot \in Bootstraps, NEW again \in BOOLEAN
  PROVE  /\ FreshDB(again) \in DBType
         /\ FreshDB(again).recreated = again
         /\ HistoryRan(FreshDB(again))
         /\ \A i \in SQLAssets : FreshDB(again).seeded[i] <= 1
<1>1. DOMAIN boot = 1 .. Len(boot)
  BY MigrationAssumption
<1>2. FreshDB(again) \in DBType
  BY Nothing DEF FreshDB, DBType
<1>3. HistoryRan(FreshDB(again))
  BY Nothing DEF FreshDB, HistoryRan
<1>. QED BY <1>1, <1>2, <1>3 DEF FreshDB, SQLAssets

LEMMA StartedDatabase ==
  ASSUME boot \in Bootstraps, NEW d \in DBType, HistoryRan(d), \A i \in SQLAssets : d.seeded[i] <= 1
  PROVE  /\ StartedDB(d) \in DBType
         /\ Grows(d, StartedDB(d))
         /\ HistoryRan(StartedDB(d))
         /\ \A i \in SQLAssets : StartedDB(d).seeded[i] <= 1
<1> DEFINE seeded == [i \in DOMAIN boot |->
                        IF boot[i].kind = "sql" /\ boot[i].mounted THEN 1 ELSE d.seeded[i]]
<1>1. DOMAIN boot = 1 .. Len(boot)
  BY MigrationAssumption
<1>2. /\ seeded \in [1 .. Len(boot) -> Nat]
      /\ \A i \in SQLAssets : seeded[i] <= 1
  BY <1>1 DEF DBType, SQLAssets
<1>3. StartedDB(d) = [d EXCEPT !.exists = TRUE, !.seeded = seeded]
  BY DEF StartedDB
<1> HIDE DEF seeded
<1>4. /\ StartedDB(d) \in DBType
      /\ StartedDB(d).history = d.history /\ StartedDB(d).ran = d.ran
      /\ StartedDB(d).recreated = d.recreated /\ StartedDB(d).seeded = seeded
  BY <1>2, <1>3 DEF DBType
<1>. QED BY <1>2, <1>4 DEF Grows, HistoryRan

LEMMA MigrationInitInv == MigrationInit => MigrationInv
<1> SUFFICES ASSUME MigrationInit PROVE MigrationInv
  OBVIOUS
<1>1. boot \in Bootstraps /\ db \in {FreshDB(FALSE), StartedDB(FreshDB(FALSE))}
  BY DEF MigrationInit
<1>2. db \in DBType /\ HistoryRan(db) /\ \A i \in SQLAssets : db.seeded[i] <= 1
  BY <1>1, NewDatabase, StartedDatabase
<1>3. assets \in [Ids -> AssetType] /\ links \in Seq(Ids) /\ GraphOK(raced, db, assets, links)
  BY Nothing DEF MigrationInit, GraphOK
<1>4. \A c \in Clients : cmd[c] = Idle
  BY DEF MigrationInit
<1>5. cmd \in [Clients -> CmdType] /\ Idle \notin WriteType /\ Idle \notin WorkType
  BY DEF MigrationInit, CmdType, Idle, WriteType, WorkType
<1>6. raced \subseteq Ids
  BY DEF MigrationInit
<1>. QED BY <1>1, <1>2, <1>3, <1>4, <1>5, <1>6 DEF MigrationInv, MigrationTypeOK, CommandOK

(* An idle command promises nothing. *)
LEMMA IdleOK == ASSUME NEW x, NEW d, NEW as PROVE Idle \in CmdType /\ CommandOK(x, d, as, Idle)
BY DEF CmdType, CommandOK, Idle, WriteType, WorkType

(* A migration is added to a copy of the graph. *)
LEMMA AddInv ==
  ASSUME MigrationInv, NEW c \in Clients, NEW id \in Ids, NEW version \in Versions,
         NEW content \in Contents, NEW order \in Orders,
         addEnvironmentMigrationToStore(c, id, version, content, order)
  PROVE  MigrationInv'
<1> DEFINE asset == [version |-> version, content |-> content, order |-> order, complete |-> FALSE]
           as == [assets EXCEPT ![id] = asset]
           ls == IF id \in Range(links) THEN links ELSE Append(links, id)
           new == [op |-> "add", assets |-> as, links |-> ls]
<1>1. assets \in [Ids -> AssetType] /\ links \in Seq(Ids)
  BY DEF MigrationInv, MigrationTypeOK
<1>2. asset \in AssetType /\ ~asset.complete /\ asset # NoAsset
  <2>1. asset.version # NoAsset.version
    BY MigrationAssumption DEF NoAsset
  <2>. QED BY <2>1 DEF AssetType
<1> HIDE DEF asset
<1>3. as \in [Ids -> AssetType] /\ ls \in Seq(Ids)
  BY <1>1, <1>2
<1>4. GraphOK(raced, db, as, ls)
  <2>1. \A i \in Ids : as[i].complete => as[i] = assets[i]
    BY <1>1, <1>2
  <2>2. \A i \in Ids \ raced : as[i].complete /\ ~db.recreated => InHistory(db, as[i])
    BY <2>1 DEF MigrationInv, GraphOK
  <2>3. \A k \in DOMAIN ls : ls[k] = id \/ (k \in DOMAIN links /\ ls[k] = links[k])
    BY <1>1
  <2>4. \A k \in DOMAIN links : assets[links[k]] # NoAsset
    BY DEF MigrationInv, GraphOK
  <2>5. \A k \in DOMAIN ls : ls[k] \in Ids
    BY <1>3
  <2>6. \A k \in DOMAIN ls : as[ls[k]] # NoAsset
    BY <1>1, <1>2, <2>3, <2>4, <2>5
  <2>. QED BY <2>2, <2>6 DEF GraphOK
<1> HIDE DEF as, ls
<1>5. new \in CmdType /\ CommandOK(raced, db, assets, new)
  BY <1>3, <1>4 DEF CmdType, WriteType, WorkType, CommandOK
<1>6. cmd' = [cmd EXCEPT ![c] = new] /\ UNCHANGED <<assets, links, boot, db, raced>>
  BY DEF addEnvironmentMigrationToStore, as, ls, asset
<1>. QED BY <1>5, <1>6, CommandOnly

(* The copy becomes the graph; what has another version in it while it is   *)
(* being applied is remembered.                                             *)
LEMMA ReplaceInv ==
  ASSUME MigrationInv, NEW c \in Clients, ReplaceEnvironmentComponentGraph(c)
  PROVE  MigrationInv'
<1>1. cmd[c] \in WriteType /\ GraphOK(raced, db, cmd[c].assets, cmd[c].links)
  BY CommandKinds DEF MigrationInv, MigrationTypeOK, CommandOK, ReplaceEnvironmentComponentGraph
<1>2. /\ assets' = cmd[c].assets /\ links' = cmd[c].links
      /\ cmd' = [cmd EXCEPT ![c] = Idle] /\ UNCHANGED <<boot, db>>
  BY DEF ReplaceEnvironmentComponentGraph
<1>3. raced' = raced \cup UNION {Disturbed(assets', d) : d \in Clients}
  BY <1>2 DEF ReplaceEnvironmentComponentGraph
<1>4. raced \subseteq raced' /\ raced' \subseteq Ids
  <2>1. \A d \in Clients : Disturbed(assets', d) \subseteq Ids
    BY DEF Disturbed
  <2>. QED BY <1>3, <2>1 DEF MigrationInv, MigrationTypeOK
<1>5. MigrationTypeOK'
  BY <1>1, <1>2, <1>4, IdleOK DEF MigrationInv, MigrationTypeOK, WriteType, DBType
<1>6. ASSUME NEW d \in Clients PROVE CommandOK(raced', db, assets', cmd'[d])
  <2>1. CASE d = c
    BY <1>2, <2>1, IdleOK DEF MigrationInv, MigrationTypeOK
  <2>2. CASE d # c
    <3> DEFINE r == cmd[d]
    <3>1. cmd'[d] = r /\ r \in CmdType /\ CommandOK(raced, db, assets, r)
      BY <1>2, <2>2 DEF MigrationInv, MigrationTypeOK
    <3>2. ASSUME r \in WriteType PROVE GraphOK(raced', db, r.assets, r.links)
      BY <1>4, <3>1, <3>2 DEF CommandOK, GraphOK
    <3>3. ASSUME r \in WorkType, NEW i \in r.items PROVE i.id \in raced' \/ Undisturbed(assets', i)
      <4>1. i.id \in Ids /\ r.op \in {"apply", "baseline", "restore"}
        BY <3>3 DEF WorkType, ItemType
      <4>2. CASE Undisturbed(assets', i)
        BY <4>2
      <4>3. CASE ~Undisturbed(assets', i)
        <5>1. i.id \in Disturbed(assets', d)
          BY <3>3, <4>1, <4>3 DEF Disturbed, Undisturbed
        <5>. QED BY <1>3, <5>1
      <4>. QED BY <4>2, <4>3
    <3>4. ASSUME r \in WorkType PROVE WorkOK(raced', db, assets', r)
      BY <3>1, <3>3, <3>4 DEF CommandOK, WorkOK
    <3>. QED BY <3>1, <3>2, <3>4 DEF CommandOK
  <2>. QED BY <2>1, <2>2
<1>7. Mounted' = Mounted /\ SQLAssets' = SQLAssets
  BY <1>2 DEF Mounted, SQLAssets
<1>8. (\A d \in Clients : CommandOK(raced, db, assets, cmd[d]))'
  BY <1>2, <1>6, <1>7 DEF CommandOK, GraphOK, WorkOK, InHistory, Undisturbed
<1>9. GraphOK(raced, db, assets, links)'
  BY <1>1, <1>2, <1>4 DEF GraphOK, InHistory
<1>. QED BY <1>2, <1>5, <1>7, <1>8, <1>9 DEF MigrationInv, HistoryRan

(* The migrations of the graph, in their apply order. *)
LEMMA ApplyOrder ==
  ASSUME MigrationTypeOK, NEW through, NEW todo \in ApplyOrders(environmentMigrationItems(through))
  PROVE  /\ todo \in Seq(ItemType)
         /\ Range(todo) \subseteq ItemType
         /\ \A i \in Range(todo) : Undisturbed(assets, i)
         /\ \A k \in DOMAIN todo : todo[k] \in Range(todo)
         /\ \A k, l \in DOMAIN todo : k < l => todo[k].order <= todo[l].order
<1> DEFINE items == environmentMigrationItems(through)
           linked == {id \in Ids : assets[id] # NoAsset}
           itemOf == [id \in linked |-> MigrationItem(id)]
           all == {MigrationItem(id) : id \in linked}
<1>1. ASSUME NEW id \in linked PROVE MigrationItem(id) \in ItemType /\ Undisturbed(assets, MigrationItem(id))
  <2>1. assets[id] \in [version : Versions, content : Contents, order : Orders, complete : BOOLEAN]
    BY DEF MigrationTypeOK, AssetType
  <2>. QED BY <2>1 DEF MigrationItem, ItemType, Undisturbed
<1>2. items \subseteq all
  BY DEF environmentMigrationItems, LinkedItems, MigrationTypeOK, Range
<1>3. Cardinality(items) \in Nat
  <2>1. IsFiniteSet(linked)
    BY MigrationAssumption, FS_Subset
  <2>2. itemOf \in Surjection(linked, all)
    BY DEF Surjection
  <2>3. IsFiniteSet(all)
    BY <2>1, <2>2, FS_Surjection
  <2>. QED BY <1>2, <2>3, FS_Subset, FS_CardinalityType
<1>4. items \subseteq ItemType /\ \A i \in items : Undisturbed(assets, i)
  BY <1>1, <1>2
<1> HIDE DEF items
<1>5. /\ todo \in [1 .. Cardinality(items) -> items] /\ Range(todo) = items
      /\ \A k, l \in DOMAIN todo : k < l => compareEnvironmentMigrationItems(todo[k], todo[l])
  BY DEF ApplyOrders, items
<1>6. \A k, l \in DOMAIN todo : k < l => todo[k].order <= todo[l].order
  <2>1. ASSUME NEW k \in DOMAIN todo, NEW l \in DOMAIN todo, k < l
        PROVE  todo[k].order <= todo[l].order
    <3>1. todo[k].order \in Nat /\ todo[l].order \in Nat
      <4>1. todo[k] \in ItemType /\ todo[l] \in ItemType
        BY <1>4, <1>5
      <4>. QED BY <4>1, MigrationAssumption DEF ItemType, Orders
    <3>. QED BY <1>5, <2>1, <3>1 DEF compareEnvironmentMigrationItems
  <2>. QED BY <2>1
<1>7. todo \in Seq(ItemType)
  BY <1>3, <1>4, <1>5
<1>. QED BY <1>4, <1>5, <1>6, <1>7 DEF Range

(* A command starts with the migrations of the graph as it is. *)
LEMMA PrepareInv ==
  ASSUME MigrationInv, NEW c \in Clients, NEW op \in {"apply", "baseline"}, NEW through,
         prepareEnvironmentMigrationTarget(c, op, through)
  PROVE  MigrationInv'
<1>1. PICK todo \in ApplyOrders(environmentMigrationItems(through)) :
        cmd' = [cmd EXCEPT ![c] = [op |-> op, at |-> "query", todo |-> todo, items |-> Range(todo),
                                   done |-> {}, adopt |-> FALSE]]
  BY DEF prepareEnvironmentMigrationTarget
<1> DEFINE new == [op |-> op, at |-> "query", todo |-> todo, items |-> Range(todo),
                   done |-> {}, adopt |-> FALSE]
<1>2. /\ todo \in Seq(ItemType)
      /\ Range(todo) \subseteq ItemType
      /\ \A i \in Range(todo) : Undisturbed(assets, i)
      /\ \A k \in DOMAIN todo : todo[k] \in Range(todo)
      /\ \A k, l \in DOMAIN todo : k < l => todo[k].order <= todo[l].order
  BY ApplyOrder DEF MigrationInv
<1>3. todo \in Seq(TodoType)
  BY <1>2 DEF TodoType
<1>4. new \in WorkType
  BY <1>2, <1>3 DEF WorkType
<1>5. \A i \in Range(todo) : \E k \in DOMAIN todo : todo[k] = i
  BY DEF Range
<1>6. WorkOK(raced, db, assets, new)
  BY <1>2, <1>5 DEF WorkOK
<1>7. new \in CmdType /\ CommandOK(raced, db, assets, new)
  BY <1>4, <1>6 DEF CmdType, CommandOK, WriteType
<1>8. UNCHANGED <<assets, links, boot, db, raced>>
  BY DEF prepareEnvironmentMigrationTarget
<1>. QED BY <1>1, <1>7, <1>8, CommandOnly

(* The head and the tail of a list. *)
LEMMA HeadAndTail ==
  ASSUME NEW S, NEW s \in Seq(S), s # <<>>
  PROVE  /\ 1 \in DOMAIN s /\ Head(s) = s[1] /\ Head(s) \in S
         /\ Tail(s) \in Seq(S)
         /\ \A k \in DOMAIN Tail(s) : k \in Nat /\ k + 1 \in DOMAIN s /\ Tail(s)[k] = s[k + 1]
         /\ \A k \in DOMAIN s : k = 1 \/ (k - 1 \in DOMAIN Tail(s) /\ Tail(s)[k - 1] = s[k])
OBVIOUS

(* What is left of the list is of the items. *)
LEMMA TodoOfItems ==
  ASSUME NEW x, NEW d, NEW as, NEW r, WorkOK(x, d, as, r), NEW k, k \in DOMAIN r.todo
  PROVE  r.todo[k] \in r.items \cup [seed : Nat]
BY Zenon DEF WorkOK

(* A command that goes on has what is left of its list, and what it goes on *)
(* from is in the history; one that gives up has nothing left.              *)
LEMMA WorkGoesOn ==
  ASSUME NEW x, NEW d, NEW as, NEW r \in WorkType, WorkOK(x, d, as, r), r.todo # <<>>,
         NEW new \in WorkType, new.op = r.op, new.at = "query", new.items = r.items,
         \/ new.todo = <<>>
         \/ /\ new.todo = Tail(r.todo)
            /\ r.op = "apply" => InHistory(d, Head(r.todo)),
         \A id \in new.done : id \in r.done \/ \E i \in r.items : i.id = id /\ InHistory(d, i)
  PROVE  WorkOK(x, d, as, new)
<1> DEFINE old == r.todo
           rest == Tail(r.todo)
<1>1. /\ Head(old) = old[1] /\ 1 \in DOMAIN old
      /\ \A k \in DOMAIN rest : k \in Nat /\ k + 1 \in DOMAIN old /\ rest[k] = old[k + 1]
      /\ \A k \in DOMAIN old : k = 1 \/ (k - 1 \in DOMAIN rest /\ rest[k - 1] = old[k])
  <2>1. r.todo \in Seq(TodoType)
    BY DEF WorkType
  <2>. QED BY <2>1, HeadAndTail
<1>5. new.todo = <<>> \/ new.todo = rest
  OBVIOUS
<1> HIDE DEF rest
<1>2. ASSUME NEW k \in DOMAIN new.todo PROVE new.todo[k] \in r.items \cup [seed : Nat]
  <2>1. new.todo = rest
    BY <1>5, <1>2
  <2>2. k + 1 \in DOMAIN old /\ rest[k] = old[k + 1]
    BY <1>1, <1>2, <2>1
  <2>3. old[k + 1] \in r.items \cup [seed : Nat]
    BY <2>2, TodoOfItems, Zenon
  <2>. QED BY <2>1, <2>2, <2>3, Zenon
<1>3. ASSUME r.op = "apply", new.todo # <<>>,
             NEW k \in DOMAIN new.todo, NEW l \in DOMAIN new.todo, k < l
      PROVE  new.todo[k].order <= new.todo[l].order
  <2>1. new.todo = rest
    BY <1>5, <1>3
  <2>2. k + 1 \in DOMAIN old /\ l + 1 \in DOMAIN old /\ k + 1 < l + 1
    BY <1>1, <1>3, <2>1
  <2>3. old[k + 1].order <= old[l + 1].order
    BY <1>3, <2>2 DEF WorkOK
  <2>. QED BY <1>1, <1>3, <2>1, <2>3
<1>4. ASSUME r.op = "apply", new.todo # <<>>, NEW i \in r.items, ~InHistory(d, i)
      PROVE  \E k \in DOMAIN new.todo : new.todo[k] = i
  <2>1. new.todo = rest /\ InHistory(d, Head(old))
    BY <1>5, <1>4 DEF rest
  <2>2. PICK k \in DOMAIN old : old[k] = i
    BY <1>4 DEF WorkOK
  <2>3. k # 1
    BY <1>1, <1>4, <2>1, <2>2
  <2>. QED BY <1>1, <2>1, <2>2, <2>3
<1>. QED BY <1>2, <1>3, <1>4 DEF WorkOK

(* An item that is in the history is done. *)
LEMMA SucceedOK ==
  ASSUME NEW x, NEW d, NEW as, NEW r \in WorkType, CommandOK(x, d, as, r), r.at # "project", r.todo # <<>>,
         Head(r.todo) \in ItemType, InHistory(d, Head(r.todo)),
         NEW new,
         new = [r EXCEPT !.todo = Tail(@), !.at = "query", !.done = @ \cup {Head(r.todo).id}]
  PROVE  new \in CmdType /\ CommandOK(x, d, as, new)
<1>1. r.todo \in Seq(TodoType) /\ Tail(r.todo) \in Seq(TodoType) /\ Head(r.todo).id \in Ids
  BY HeadAndTail DEF WorkType, ItemType
<1>2. /\ new \in WorkType /\ new.op = r.op /\ new.at = "query" /\ new.items = r.items
      /\ new.todo = Tail(r.todo) /\ new.done = r.done \cup {Head(r.todo).id} /\ new.adopt = r.adopt
  BY <1>1 DEF WorkType
<1>3. WorkOK(x, d, as, r)
  BY DEF CommandOK
<1>4. Head(r.todo) \in r.items
  <2>1. 1 \in DOMAIN r.todo /\ Head(r.todo) = r.todo[1]
    BY <1>1, HeadAndTail
  <2>. QED BY <1>3, <2>1, TodoOfItems, SeedIsNoItem
<1>5. WorkOK(x, d, as, new)
  BY <1>2, <1>3, <1>4, WorkGoesOn
<1>6. new \notin WriteType
  BY <1>2 DEF WorkType, WriteType
<1>. QED BY <1>2, <1>5, <1>6 DEF CommandOK, CmdType

(* An item that failed ends apply and baseline. *)
LEMMA FailOK ==
  ASSUME NEW x, NEW d, NEW as, NEW r \in WorkType, CommandOK(x, d, as, r), r.at # "project", r.todo # <<>>,
         NEW new,
         new = [r EXCEPT !.todo = IF r.op = "restore" THEN Tail(@) ELSE <<>>, !.at = "query"]
  PROVE  new \in CmdType /\ CommandOK(x, d, as, new)
<1>1. r.todo \in Seq(TodoType) /\ Tail(r.todo) \in Seq(TodoType) /\ <<>> \in Seq(TodoType)
  BY HeadAndTail DEF WorkType
<1>2. /\ new \in WorkType /\ new.op = r.op /\ new.at = "query" /\ new.items = r.items
      /\ new.todo = (IF r.op = "restore" THEN Tail(r.todo) ELSE <<>>)
      /\ new.done = r.done /\ new.adopt = r.adopt
  BY <1>1 DEF WorkType
<1>3. WorkOK(x, d, as, new)
  BY <1>2, WorkGoesOn DEF CommandOK
<1>4. new \notin WriteType
  BY <1>2 DEF WorkType, WriteType
<1>. QED BY <1>2, <1>3, <1>4 DEF CommandOK, CmdType
(* What is known of a list does not depend on how far its first item is. *)
LEMMA SameWork ==
  ASSUME NEW x, NEW d, NEW as, NEW r, WorkOK(x, d, as, r), NEW new, new.op = r.op, new.todo = r.todo,
         new.items = r.items, new.done = r.done,
         new.todo # <<>> /\ Head(new.todo) \in ItemType,
         new.at = "insert" /\ new.op # "baseline" => d.ran[Head(new.todo).content] > 0
  PROVE  WorkOK(x, d, as, new)
<1>1. /\ \A k \in DOMAIN new.todo : new.todo[k] \in new.items \cup [seed : Nat]
      /\ \A id \in new.done : \E i \in new.items : i.id = id /\ InHistory(d, i)
      /\ \A i \in new.items : i.id \in x \/ Undisturbed(as, i)
  BY DEF WorkOK
<1>2. new.op = "apply" /\ new.todo # <<>> =>
        /\ \A k, l \in DOMAIN new.todo : k < l => new.todo[k].order <= new.todo[l].order
        /\ \A i \in new.items : InHistory(d, i) \/ \E k \in DOMAIN new.todo : new.todo[k] = i
  BY DEF WorkOK
<1>. QED BY <1>1, <1>2 DEF WorkOK

(* A command moves on with the item it is at. *)
LEMMA StepOnOK ==
  ASSUME NEW x, NEW d, NEW as, NEW r \in WorkType, CommandOK(x, d, as, r), r.at # "project", r.todo # <<>>,
         Head(r.todo) \in ItemType, NEW place \in {"run", "insert"},
         place = "insert" /\ r.op # "baseline" => d.ran[Head(r.todo).content] > 0,
         NEW new, new = [r EXCEPT !.at = place]
  PROVE  new \in CmdType /\ CommandOK(x, d, as, new)
<1>1. /\ new \in WorkType /\ new.op = r.op /\ new.at = place /\ new.items = r.items
      /\ new.todo = r.todo /\ new.done = r.done /\ new.adopt = r.adopt
  BY DEF WorkType
<1>2. WorkOK(x, d, as, new)
  <2>1. new.todo # <<>> /\ Head(new.todo) \in ItemType
    BY <1>1
  <2>2. new.at = "insert" /\ new.op # "baseline" => d.ran[Head(new.todo).content] > 0
    BY <1>1
  <2>3. WorkOK(x, d, as, r)
    BY DEF CommandOK
  <2>. QED BY <1>1, <2>1, <2>2, <2>3, SameWork
<1>3. new \notin WriteType
  BY <1>1 DEF WorkType, WriteType
<1>. QED BY <1>1, <1>2, <1>3 DEF CommandOK, CmdType

(* What a command that works on an item is. *)
LEMMA AtWork ==
  ASSUME MigrationInv, NEW c \in Clients, Working(c)
  PROVE  /\ cmd[c] \in WorkType /\ CommandOK(raced, db, assets, cmd[c])
         /\ WorkOK(raced, db, assets, cmd[c]) /\ cmd \in [Clients -> CmdType]
BY CommandKinds DEF MigrationInv, MigrationTypeOK, CommandOK, Working

LEMMA QueryInv ==
  ASSUME MigrationInv, NEW c \in Clients, runEnvironmentMigrationWithHistory(c)
  PROVE  MigrationInv'
<1> DEFINE r == cmd[c]
<1>1. r \in WorkType /\ CommandOK(raced, db, assets, r) /\ r.todo # <<>> /\ r.at = "query"
  BY AtWork DEF runEnvironmentMigrationWithHistory
<1>2. UNCHANGED <<assets, links, boot, db, raced>>
  BY DEF runEnvironmentMigrationWithHistory
<1>3. Head(r.todo) \in ItemType
  <2>1. Head(r.todo) \in TodoType
    BY <1>1, HeadAndTail DEF WorkType
  <2>2. "id" \in DOMAIN Head(r.todo)
    BY DEF runEnvironmentMigrationWithHistory, Current
  <2>. QED BY <2>1, <2>2 DEF TodoType
<1>4. \/ InHistory(db, Head(r.todo)) /\ cmd' = Succeed(c)
      \/ cmd' = Fail(c)
      \/ r.op = "baseline" /\ cmd' = [cmd EXCEPT ![c].at = "insert"]
      \/ cmd' = [cmd EXCEPT ![c].at = "run"]
  BY DEF runEnvironmentMigrationWithHistory, Current, InHistory
<1>5. CASE InHistory(db, Head(r.todo)) /\ cmd' = Succeed(c)
  BY <1>1, <1>2, <1>3, <1>5, SucceedOK, CommandOnly DEF Succeed, Current
<1>6. CASE cmd' = Fail(c)
  BY <1>1, <1>2, <1>6, FailOK, CommandOnly DEF Fail
<1>7. ASSUME NEW place \in {"run", "insert"}, place = "insert" => r.op = "baseline",
             cmd' = [cmd EXCEPT ![c].at = place]
      PROVE  MigrationInv'
  <2> DEFINE new == [r EXCEPT !.at = place]
  <2>1. new \in CmdType /\ CommandOK(raced, db, assets, new)
    BY <1>1, <1>3, <1>7, StepOnOK
  <2>2. cmd' = [cmd EXCEPT ![c] = new]
    BY <1>7 DEF MigrationInv, MigrationTypeOK
  <2>. QED BY <1>2, <2>1, <2>2, CommandOnly
<1>. QED BY <1>4, <1>5, <1>6, <1>7

(* The SQL of a migration has run once more. *)
LEMMA RanMore ==
  ASSUME db \in DBType, HistoryRan(db), NEW s \in Contents, NEW d,
         d = [db EXCEPT !.ran[s] = OnceMore(@)]
  PROVE  /\ d \in DBType /\ Grows(db, d) /\ HistoryRan(d) /\ d.seeded = db.seeded /\ d.ran[s] > 0
<1> DEFINE ran == [db.ran EXCEPT ![s] = OnceMore(@)]
<1>1. OnceMore(db.ran[s]) \in Nat /\ OnceMore(db.ran[s]) > 0
  BY DEF DBType, OnceMore
<1>2. /\ ran \in [Contents -> Nat] /\ ran[s] > 0
      /\ \A x \in Contents : db.ran[x] > 0 => ran[x] > 0
  BY <1>1 DEF DBType
<1>3. d = [db EXCEPT !.ran = ran]
  BY DEF DBType
<1> HIDE DEF ran
<1>4. /\ d \in DBType /\ d.ran = ran /\ d.history = db.history /\ d.seeded = db.seeded
      /\ d.recreated = db.recreated
  BY <1>2, <1>3 DEF DBType
<1>5. Grows(db, d)
  BY <1>2, <1>4 DEF Grows
<1>6. ASSUME NEW v \in Versions, db.history[v].applied PROVE db.history[v].content \in Contents
  <2>1. db.history[v] # NoRow
    BY <1>6, Nothing
  <2>. QED BY <2>1 DEF DBType, RowType
<1>. QED BY <1>2, <1>4, <1>5, <1>6 DEF HistoryRan

LEMMA RunInv ==
  ASSUME MigrationInv, NEW c \in Clients, environmentMigrationApplySQL(c)
  PROVE  MigrationInv'
<1> DEFINE r == cmd[c]
           new == [r EXCEPT !.at = "insert"]
<1>1. /\ r \in WorkType /\ r \in CmdType /\ CommandOK(raced, db, assets, r)
      /\ r.at # "project" /\ r.todo # <<>> /\ Head(r.todo) \in ItemType
  BY AtWork DEF environmentMigrationApplySQL, WorkOK, CmdType
<1>2. /\ UNCHANGED <<assets, links, boot, raced>>
      /\ cmd' = [cmd EXCEPT ![c] = new]
      /\ db' = [db EXCEPT !.ran[Head(r.todo).content] = OnceMore(@)]
  BY DEF environmentMigrationApplySQL, Current, MigrationInv, MigrationTypeOK
<1>3. Head(r.todo).content \in Contents
  BY <1>1 DEF ItemType
<1>4. /\ db' \in DBType /\ Grows(db, db') /\ HistoryRan(db') /\ db'.seeded = db.seeded
      /\ db'.ran[Head(r.todo).content] > 0
  BY <1>2, <1>3, RanMore DEF MigrationInv, MigrationTypeOK
<1>5. CommandOK(raced, db', assets, r)
  BY <1>1, <1>4, CommandKept
<1>6. new \in CmdType /\ CommandOK(raced, db', assets, new)
  BY <1>1, <1>4, <1>5, StepOnOK
<1>. QED BY <1>2, <1>4, <1>6, CommandStep DEF MigrationInv

(* A row is added to the history. *)
LEMMA NewRow ==
  ASSUME db \in DBType, HistoryRan(db), NEW v \in Versions, db.history[v] = NoRow,
         NEW content \in Contents, NEW applied \in BOOLEAN, applied => db.ran[content] > 0,
         db' = [db EXCEPT !.history[v] = [content |-> content, applied |-> applied]]
  PROVE  /\ db' \in DBType /\ Grows(db, db') /\ HistoryRan(db') /\ db'.seeded = db.seeded
         /\ db'.history[v].content = content
<1> DEFINE row == [content |-> content, applied |-> applied]
           history == [db.history EXCEPT ![v] = row]
<1>1. row \in RowType /\ row.content = content /\ row.applied = applied
  BY DEF RowType
<1> HIDE DEF row
<1>2. /\ history \in [Versions -> RowType] /\ history[v] = row
      /\ \A x \in Versions : x # v => history[x] = db.history[x]
  BY <1>1 DEF DBType
<1>3. db' = [db EXCEPT !.history = history]
  BY DEF DBType, row
<1> HIDE DEF history
<1>4. /\ db' \in DBType /\ db'.history = history /\ db'.ran = db.ran /\ db'.seeded = db.seeded
      /\ db'.recreated = db.recreated
  BY <1>2, <1>3 DEF DBType
<1>5. Grows(db, db')
  BY <1>2, <1>4 DEF Grows
<1>6. HistoryRan(db')
  BY <1>1, <1>2, <1>4 DEF HistoryRan
<1>. QED BY <1>1, <1>2, <1>4, <1>5, <1>6

LEMMA InsertInv ==
  ASSUME MigrationInv, NEW c \in Clients, environmentMigrationInsertHistorySQL(c)
  PROVE  MigrationInv'
<1> DEFINE r == cmd[c]
           item == Head(r.todo)
<1>1. /\ r \in WorkType /\ r \in CmdType /\ CommandOK(raced, db, assets, r)
      /\ r.at # "project" /\ r.todo # <<>> /\ item \in ItemType
      /\ r.op # "baseline" => db.ran[item.content] > 0
  BY AtWork DEF environmentMigrationInsertHistorySQL, WorkOK, CmdType
<1>2. UNCHANGED <<assets, links, boot, raced>>
  BY DEF environmentMigrationInsertHistorySQL
<1>3. CASE cmd' = Fail(c) /\ UNCHANGED db
  <2> DEFINE new == [r EXCEPT !.todo = IF r.op = "restore" THEN Tail(@) ELSE <<>>, !.at = "query"]
  <2>1. new \in CmdType /\ CommandOK(raced, db, assets, new)
    BY <1>1, FailOK
  <2>2. cmd' = [cmd EXCEPT ![c] = new]
    BY <1>3 DEF Fail
  <2>. QED BY <1>2, <1>3, <2>1, <2>2, CommandOnly
<1>4. CASE /\ db.history[item.version] = NoRow
           /\ db' = [db EXCEPT !.history[item.version] =
                       [content |-> item.content, applied |-> r.op # "baseline"]]
           /\ cmd' = Succeed(c)
  <2>1. item.version \in Versions /\ item.content \in Contents /\ (r.op # "baseline") \in BOOLEAN
    BY <1>1 DEF ItemType
  <2>2. /\ db' \in DBType /\ Grows(db, db') /\ HistoryRan(db') /\ db'.seeded = db.seeded
        /\ db'.history[item.version].content = item.content
    <3> DEFINE v == item.version
               content == item.content
               applied == r.op # "baseline"
    <3>1. /\ db \in DBType /\ HistoryRan(db) /\ applied \in BOOLEAN
          /\ applied => db.ran[content] > 0
          /\ v \in Versions /\ content \in Contents /\ db.history[v] = NoRow
          /\ db' = [db EXCEPT !.history[v] = [content |-> content, applied |-> applied]]
      BY <1>1, <1>4, <2>1 DEF MigrationInv, MigrationTypeOK
    <3> HIDE DEF applied, content, v
    <3>2. /\ db' \in DBType /\ Grows(db, db') /\ HistoryRan(db') /\ db'.seeded = db.seeded
          /\ db'.history[v].content = content
      BY <3>1, NewRow
    <3>. QED BY <3>2 DEF v, content
  <2>3. CommandOK(raced, db', assets, r) /\ InHistory(db', item)
    BY <1>1, <2>2, CommandKept DEF InHistory
  <2> DEFINE new == [r EXCEPT !.todo = Tail(@), !.at = "query", !.done = @ \cup {Head(r.todo).id}]
  <2>4. new \in CmdType /\ CommandOK(raced, db', assets, new)
    BY <1>1, <2>3, SucceedOK
  <2>5. cmd' = [cmd EXCEPT ![c] = new]
    BY <1>4 DEF Succeed, Current
  <2>. QED BY <1>2, <2>2, <2>4, <2>5, CommandStep DEF MigrationInv
<1>. QED BY <1>3, <1>4 DEF environmentMigrationInsertHistorySQL, Current

(* The input is sent again, or the item has failed. *)
LEMMA RetryInv ==
  ASSUME MigrationInv, NEW c \in Clients, runRestoreMySQLCommandWithInputRetry(c)
  PROVE  MigrationInv'
<1> DEFINE r == cmd[c]
           place == IF r.op = "baseline" THEN "insert" ELSE "run"
           new == [r EXCEPT !.at = place]
<1>1. /\ r \in WorkType /\ CommandOK(raced, db, assets, r) /\ r.todo # <<>> /\ Head(r.todo) \in ItemType
      /\ r.at # "project" /\ UNCHANGED <<assets, links, boot, db, raced>>
  BY AtWork DEF runRestoreMySQLCommandWithInputRetry, WorkOK
<1>2. CASE cmd' = Fail(c)
  BY <1>1, <1>2, FailOK, CommandOnly DEF Fail
<1>3. CASE cmd' = [cmd EXCEPT ![c].at = place]
  <2>1. new \in CmdType /\ CommandOK(raced, db, assets, new)
    BY <1>1, StepOnOK
  <2>2. cmd' = [cmd EXCEPT ![c] = new]
    BY <1>3 DEF MigrationInv, MigrationTypeOK
  <2>. QED BY <1>1, <2>1, <2>2, CommandOnly
<1>. QED BY <1>2, <1>3 DEF runRestoreMySQLCommandWithInputRetry
(* What was done is marked complete in a copy of the graph as it is.        *)
LEMMA PersistInv ==
  ASSUME MigrationInv, NEW c \in Clients, persistEnvironmentMigrationTargetStatuses(c)
  PROVE  MigrationInv'
<1> DEFINE r == cmd[c]
           hit == {id \in r.done : assets[id] # NoAsset}
           as == [id \in Ids |-> IF id \in hit THEN [assets[id] EXCEPT !.complete = TRUE]
                                 ELSE assets[id]]
           new == [op |-> "add", links |-> links, assets |-> as]
<1>1. /\ r \in WorkType /\ WorkOK(raced, db, assets, r)
      /\ UNCHANGED <<assets, links, boot, db, raced>>
      /\ assets \in [Ids -> AssetType] /\ links \in Seq(Ids) /\ GraphOK(raced, db, assets, links)
  BY CommandKinds DEF persistEnvironmentMigrationTargetStatuses, MigrationInv, MigrationTypeOK, CommandOK
<1>2. ASSUME NEW id \in hit, id \in Ids
      PROVE  /\ as[id] \in AssetType /\ as[id].version = assets[id].version
             /\ as[id].content = assets[id].content
  <2>1. assets[id] \in [version : Versions, content : Contents, order : Orders, complete : BOOLEAN]
    BY <1>1, <1>2 DEF AssetType
  <2>. QED BY <1>2, <2>1 DEF AssetType
<1>3. \A id \in Ids : id \notin hit => as[id] = assets[id]
  OBVIOUS
<1>4. as \in [Ids -> AssetType]
  BY <1>1, <1>2, <1>3
<1>5. ASSUME NEW id \in Ids \ raced, as[id].complete, ~db.recreated PROVE InHistory(db, as[id])
  <2>1. CASE id \notin hit
    BY <1>1, <1>3, <1>5, <2>1 DEF GraphOK
  <2>2. CASE id \in hit
    <3>1. PICK i \in r.items : i.id = id /\ InHistory(db, i)
      BY <1>1, <2>2 DEF WorkOK
    <3>2. Undisturbed(assets, i)
      BY <1>1, <1>5, <3>1 DEF WorkOK
    <3>3. assets[id].version = i.version /\ assets[id].content = i.content
      BY <2>2, <3>1, <3>2 DEF Undisturbed
    <3>. QED BY <1>2, <2>2, <3>1, <3>3 DEF InHistory
  <2>. QED BY <2>1, <2>2
<1>6. ASSUME NEW k \in DOMAIN links PROVE as[links[k]] # NoAsset
  <2>1. links[k] \in Ids /\ assets[links[k]] # NoAsset
    BY <1>1 DEF GraphOK
  <2>2. CASE links[k] \notin hit
    BY <1>3, <2>1, <2>2
  <2>3. CASE links[k] \in hit
    <3>1. as[links[k]].version \in Versions
      BY <1>1, <1>2, <2>1, <2>3 DEF AssetType
    <3>2. NoAsset.version \notin Versions
      BY MigrationAssumption DEF NoAsset
    <3>. QED BY <3>1, <3>2
  <2>. QED BY <2>2, <2>3
<1> HIDE DEF as
<1>7. GraphOK(raced, db, as, links)
  BY <1>5, <1>6 DEF GraphOK
<1>8. new \in CmdType /\ CommandOK(raced, db, assets, new)
  BY <1>1, <1>4, <1>7 DEF CmdType, WriteType, WorkType, CommandOK
<1>9. cmd' = [cmd EXCEPT ![c] = Idle] \/ cmd' = [cmd EXCEPT ![c] = new]
  BY DEF persistEnvironmentMigrationTargetStatuses, as
<1>. QED BY <1>1, <1>8, <1>9, IdleOK, CommandOnly

(* The assets of a restore, in their order. *)
LEMMA RestoreItemsType ==
  ASSUME MigrationInv
  PROVE  /\ RestoreItems \in Seq(TodoType)
         /\ {MigrationItem(id) : id \in Range(links)} \subseteq ItemType
         /\ \A i \in {MigrationItem(id) : id \in Range(links)} : Undisturbed(assets, i)
         /\ \A k \in DOMAIN RestoreItems :
              RestoreItems[k] \in {MigrationItem(id) : id \in Range(links)} \cup [seed : Nat]
<1> DEFINE seeds == [i \in DOMAIN boot |-> [seed |-> i]]
           migrations == [i \in DOMAIN links |-> MigrationItem(links[i])]
           items == {MigrationItem(id) : id \in Range(links)}
           either == items \cup [seed : Nat]
<1>1. DOMAIN boot = 1 .. Len(boot) /\ Len(boot) \in Nat
  BY MigrationAssumption DEF MigrationInv, MigrationTypeOK
<1>2. seeds \in Seq(either)
  <2>1. \A i \in 1 .. Len(boot) : [seed |-> i] \in either
    BY <1>1
  <2> HIDE DEF either
  <2>. QED BY <1>1, <2>1
<1>3. ASSUME NEW id \in Range(links) PROVE MigrationItem(id) \in ItemType /\ Undisturbed(assets, MigrationItem(id))
  <2>1. id \in Ids /\ assets[id] # NoAsset
    BY DEF MigrationInv, MigrationTypeOK, GraphOK, Range
  <2>2. assets[id] \in [version : Versions, content : Contents, order : Orders, complete : BOOLEAN]
    BY <2>1 DEF MigrationInv, MigrationTypeOK, AssetType
  <2>. QED BY <2>1, <2>2 DEF MigrationItem, ItemType, Undisturbed
<1>4. DOMAIN links = 1 .. Len(links) /\ Len(links) \in Nat
  BY DEF MigrationInv, MigrationTypeOK
<1>5. migrations \in Seq(either)
  <2>1. \A i \in 1 .. Len(links) : MigrationItem(links[i]) \in either
    BY <1>4 DEF Range
  <2> HIDE DEF either
  <2>. QED BY <1>4, <2>1
<1>6. items \subseteq ItemType /\ either \subseteq TodoType
  BY <1>3 DEF TodoType
<1>7. \A i \in items : Undisturbed(assets, i)
  BY <1>3
<1> HIDE DEF seeds, migrations, items, either
<1>8. seeds \o migrations \in Seq(either)
  BY <1>2, <1>5
<1>9. RestoreItems \in Seq(either)
  BY <1>8 DEF RestoreItems, seeds, migrations
<1>10. RestoreItems \in Seq(TodoType) /\ \A k \in DOMAIN RestoreItems : RestoreItems[k] \in either
  BY <1>6, <1>9
<1>. QED BY <1>6, <1>7, <1>10 DEF items, either

(* A restore that starts; at the assets its SQL is mounted unless it adopts *)
(* containers.                                                              *)
LEMMA RestoringOK ==
  ASSUME MigrationInv, NEW place \in {"project", "query"}, NEW adopt \in BOOLEAN,
         adopt \/ place = "project", NEW x, NEW d
  PROVE  Restoring(place, adopt) \in CmdType /\ CommandOK(x, d, assets, Restoring(place, adopt))
<1> DEFINE items == {MigrationItem(id) : id \in Range(links)}
           new == [op |-> "restore", at |-> place, todo |-> RestoreItems, items |-> items,
                   done |-> {}, adopt |-> adopt]
<1>1. /\ RestoreItems \in Seq(TodoType) /\ items \subseteq ItemType
      /\ \A i \in items : Undisturbed(assets, i)
      /\ \A k \in DOMAIN RestoreItems : RestoreItems[k] \in items \cup [seed : Nat]
  BY RestoreItemsType
<1>2. Restoring(place, adopt) = new
  BY DEF Restoring
<1> HIDE DEF items
<1>3. new \in WorkType /\ new \notin WriteType
  BY <1>1 DEF WorkType, WriteType
<1>4. WorkOK(x, d, assets, new)
  BY <1>1 DEF WorkOK
<1>. QED BY <1>2, <1>3, <1>4 DEF CmdType, CommandOK

(* A restore starts; a cleaned one starts over while nothing else runs.     *)
LEMMA DockerInv ==
  ASSUME MigrationInv, NEW c \in Clients, NEW clean \in BOOLEAN, environmentRestoreDocker(c, clean)
  PROVE  MigrationInv'
<1> DEFINE new == Restoring("project", FALSE)
<1>1. /\ cmd' = [cmd EXCEPT ![c] = new] /\ UNCHANGED <<assets, links, boot, raced>>
      /\ db' = IF clean THEN FreshDB(TRUE) ELSE db
  BY DEF environmentRestoreDocker
<1>2. new \in CmdType /\ CommandOK(raced, db, assets, new) /\ CommandOK(raced, db', assets, new)
  BY RestoringOK
<1> HIDE DEF new
<1>3. CASE ~clean
  BY <1>1, <1>2, <1>3, CommandOnly
<1>4. CASE clean
  <2>1. /\ db' \in DBType /\ db'.recreated /\ HistoryRan(db')
        /\ \A i \in SQLAssets : db'.seeded[i] <= 1
    BY <1>1, <1>4, NewDatabase DEF MigrationInv, MigrationTypeOK
  <2>2. \A d \in Clients : cmd'[d] = new \/ cmd'[d] = Idle
    BY <1>1, <1>4 DEF environmentRestoreDocker, MigrationInv, MigrationTypeOK
  <2>3. \A d \in Clients : CommandOK(raced, db', assets, cmd'[d])
    BY <1>2, <2>2, IdleOK
  <2>6. Mounted' = Mounted
    BY <1>1 DEF Mounted, SQLAssets
  <2>7. (\A d \in Clients : CommandOK(raced, db, assets, cmd[d]))'
    <3>1. raced' = raced /\ assets' = assets
      BY <1>1
    <3>2. ASSUME NEW d \in Clients PROVE CommandOK(raced, db, assets, cmd[d])'
      <4>1. CommandOK(raced, db', assets, cmd'[d])
        BY <2>3
      <4>. QED BY <2>6, <3>1, <4>1 DEF CommandOK, GraphOK, WorkOK, InHistory, Undisturbed
    <3>. QED BY <3>2
  <2>4. GraphOK(raced, db, assets, links)'
    BY <1>1, <2>1 DEF MigrationInv, GraphOK
  <2>5. MigrationTypeOK'
    BY <1>1, <1>2, <2>1 DEF MigrationInv, MigrationTypeOK, DBType
  <2>. QED BY <1>1, <2>1, <2>4, <2>5, <2>7 DEF MigrationInv, HistoryRan, SQLAssets
<1>. QED BY <1>3, <1>4

(* The services have started. *)
LEMMA ProjectInv ==
  ASSUME MigrationInv, NEW c \in Clients, ProjectAndStart(c)
  PROVE  MigrationInv'
<1> DEFINE r == cmd[c]
           new == [r EXCEPT !.at = "query"]
<1>1. UNCHANGED <<assets, links, boot, raced>>
  BY DEF ProjectAndStart
<1>2. CASE cmd' = [cmd EXCEPT ![c] = Idle] /\ UNCHANGED db
  BY <1>1, <1>2, IdleOK, CommandOnly
<1>3. CASE /\ environmentRestoreProjectMySQLInitDBAssets = SQLAssets
           /\ db' = (IF db.exists THEN db ELSE StartedDB(db))
           /\ cmd' = [cmd EXCEPT ![c].at = "query"]
  <2>1. Mounted
    BY <1>3 DEF Mounted, environmentRestoreProjectMySQLInitDBAssets
  <2>2. /\ db' \in DBType /\ Grows(db, db') /\ HistoryRan(db')
        /\ \A i \in SQLAssets : db'.seeded[i] <= 1
    <3>1. Grows(db, db)
      BY DEF Grows
    <3>. QED BY <1>3, <3>1, StartedDatabase DEF MigrationInv, MigrationTypeOK
  <2>3. r \in WorkType /\ r \in CmdType /\ CommandOK(raced, db, assets, r)
    BY CommandKinds DEF ProjectAndStart, MigrationInv, MigrationTypeOK
  <2>4. WorkOK(raced, db', assets, r)
    BY <2>2, <2>3, CommandKept DEF CommandOK
  <2>5. /\ new \in WorkType /\ new.op = r.op /\ new.op = "restore" /\ new.at = "query"
        /\ new.items = r.items /\ new.todo = r.todo /\ new.done = r.done
    BY <2>3 DEF WorkType, ProjectAndStart
  <2>6. cmd' = [cmd EXCEPT ![c] = new]
    BY <1>3 DEF MigrationInv, MigrationTypeOK
  <2> HIDE DEF new
  <2>7. WorkOK(raced, db', assets, new)
    BY <2>4, <2>5 DEF WorkOK
  <2>8. new \in CmdType /\ CommandOK(raced, db', assets, new)
    BY <2>1, <2>5, <2>7 DEF CmdType, CommandOK, WriteType
  <2>. QED BY <1>1, <2>2, <2>6, <2>8, CommandStep
<1>. QED BY <1>2, <1>3 DEF ProjectAndStart

LEMMA AdoptInv ==
  ASSUME MigrationInv, NEW c \in Clients, AdoptContainers(c)
  PROVE  MigrationInv'
<1>1. Restoring("query", TRUE) \in CmdType /\ CommandOK(raced, db, assets, Restoring("query", TRUE))
  BY RestoringOK
<1>. QED BY <1>1, CommandOnly DEF AdoptContainers
(* A bootstrap asset of a restore: SQL that is mounted, or that belongs to  *)
(* adopted containers, is not run again, and other SQL is not met.          *)
LEMMA EdgeAssetInv ==
  ASSUME MigrationInv, NEW c \in Clients, environmentRestoreApplyEdgeAsset(c)
  PROVE  MigrationInv'
<1> DEFINE r == cmd[c]
           i == Head(r.todo).seed
           value == IF boot[i].kind = "sql" THEN environmentRestoreApplyMySQLSQLEdgeAsset(c, i)
                    ELSE environmentRestoreApplyObjectStorageEdgeAsset(c, i)
           seeded == [db.seeded EXCEPT ![i] = value]
           new == [r EXCEPT !.todo = Tail(@)]
<1>1. /\ r \in WorkType /\ r.op = "restore" /\ r.at = "query" /\ r.todo # <<>>
      /\ r.adopt \/ Mounted
      /\ cmd \in [Clients -> CmdType] /\ db \in DBType
  BY CommandKinds DEF environmentRestoreApplyEdgeAsset, MigrationInv, MigrationTypeOK, CommandOK
<1>2. /\ UNCHANGED <<assets, links, boot, raced>>
      /\ cmd' = [cmd EXCEPT ![c] = new]
      /\ db' = [db EXCEPT !.seeded = seeded]
  BY <1>1 DEF environmentRestoreApplyEdgeAsset, Current, DBType
<1>3. i \in DOMAIN db.seeded => value \in Nat
  BY <1>1 DEF environmentRestoreApplyMySQLSQLEdgeAsset, environmentRestoreApplyObjectStorageEdgeAsset,
     OnceMore, DBType
<1>4. i \in SQLAssets => value = db.seeded[i]
  BY <1>1 DEF SQLAssets, Mounted, environmentRestoreApplyMySQLSQLEdgeAsset
<1> HIDE DEF value
<1>5. seeded \in [1 .. Len(boot) -> Nat]
  BY <1>1, <1>3 DEF DBType
<1>6. DOMAIN boot = 1 .. Len(boot)
  BY MigrationAssumption DEF MigrationInv, MigrationTypeOK
<1>7. ASSUME NEW j \in SQLAssets PROVE seeded[j] <= 1
  <2>1. j \in 1 .. Len(boot)
    BY <1>6 DEF SQLAssets
  <2>2. seeded[j] = db.seeded[j]
    BY <1>1, <1>4, <2>1 DEF DBType
  <2>. QED BY <2>2 DEF MigrationInv
<1> HIDE DEF seeded
<1>8. /\ db' \in DBType /\ db'.seeded = seeded /\ db'.history = db.history /\ db'.ran = db.ran
      /\ db'.recreated = db.recreated
  BY <1>1, <1>2, <1>5 DEF DBType
<1>9. Grows(db, db') /\ HistoryRan(db') /\ \A j \in SQLAssets : db'.seeded[j] <= 1
  BY <1>7, <1>8 DEF Grows, HistoryRan, MigrationInv
<1>10. new \in CmdType /\ CommandOK(raced, db', assets, new)
  <2>1. Tail(r.todo) \in Seq(TodoType)
    BY <1>1, HeadAndTail DEF WorkType
  <2>2. /\ new \in WorkType /\ new.op = "restore" /\ new.at = "query" /\ new.adopt = r.adopt
        /\ new.todo = Tail(r.todo) /\ new.items = r.items /\ new.done = r.done
    BY <1>1, <2>1 DEF WorkType
  <2>5. WorkOK(raced, db', assets, r)
    BY <1>1, <1>9, CommandKept DEF CommandOK, CmdType, MigrationInv
  <2>3. WorkOK(raced, db', assets, new)
    BY <1>1, <2>2, <2>5, WorkGoesOn
  <2>4. new \notin WriteType
    BY <2>2 DEF WriteType
  <2>. QED BY <1>1, <2>2, <2>3, <2>4 DEF CommandOK, CmdType
<1>. QED BY <1>2, <1>8, <1>9, <1>10, CommandStep

(* Every step keeps the invariant. *)
LEMMA MigrationStepInv == MigrationInv /\ [MigrationNext]_migrationVars => MigrationInv'
<1> SUFFICES ASSUME MigrationInv, [MigrationNext]_migrationVars PROVE MigrationInv'
  OBVIOUS
<1>1. CASE UNCHANGED migrationVars
  BY <1>1 DEF migrationVars, MigrationInv, MigrationTypeOK, GraphOK, InHistory, CommandOK, WorkOK,
     Undisturbed, Mounted, HistoryRan, SQLAssets, DBType
<1>2. ASSUME NEW c \in Clients, Crash(c) PROVE MigrationInv'
  BY <1>2, IdleOK, CommandOnly DEF Crash
<1>3. ASSUME NEW c \in Clients, NEW id \in Ids, NEW v \in Versions, NEW s \in Contents,
             NEW order \in Versions \cup Overrides,
             addEnvironmentMigrationToStore(c, id, v, s, order)
      PROVE  MigrationInv'
  BY <1>3, AddInv DEF Orders
<1>. QED BY <1>1, <1>2, <1>3, ReplaceInv, PrepareInv, QueryInv, RunInv, InsertInv, RetryInv,
         PersistInv, DockerInv, ProjectInv, AdoptInv, EdgeAssetInv
         DEF MigrationNext, environmentRestorePersistAppliedMigrationStatuses

(* The graph, the history and the commands' copies agree, whatever crashes, *)
(* retries and concurrent commands do: a row is there for what is complete, *)
(* its SQL has run, and what a command has yet to apply is in apply order   *)
(* (environment_migration_target_commands.go, environment_migration_mysql.go). *)
THEOREM MigrationInvariant == MigrationSpec => []MigrationInv
BY MigrationInitInv, MigrationStepInv, PTL DEF MigrationSpec

(* BootstrapSQLOnce: plain bootstrap SQL runs at most once in a database,   *)
(* for every list of bootstrap assets, however often an environment is      *)
(* restored, adopted, killed or restored by two commands at a time.         *)
THEOREM BootstrapRunsOnce == MigrationSpec => []BootstrapSQLOnce
<1>1. MigrationInv => BootstrapSQLOnce
  BY DEF MigrationInv, BootstrapSQLOnce
<1>. QED BY <1>1, MigrationInvariant, PTL

(* HistoryIsTrue: a complete status has its row in the history, unless the  *)
(* migration was replaced while a command worked on it, a row that says     *)
(* applied has run, and apply runs nothing before the migrations of its     *)
(* plan with a smaller apply order are in the history, for every number of  *)
(* commands, migrations, versions, orders, failures and kills.              *)
THEOREM HistoryStaysTrue == MigrationSpec => []HistoryIsTrue
<1>1. ASSUME MigrationInv PROVE HistoryIsTrue
  <2>1. \A id \in Ids \ raced : assets[id] # NoAsset /\ assets[id].complete /\ ~db.recreated =>
          db.history[assets[id].version].content = assets[id].content
    BY <1>1 DEF MigrationInv, GraphOK, InHistory
  <2>2. \A v \in Versions : db.history[v] # NoRow /\ db.history[v].applied =>
          db.ran[db.history[v].content] > 0
    BY <1>1 DEF MigrationInv, HistoryRan
  <2>3. ASSUME NEW c \in Clients, Working(c), cmd[c].op = "apply", cmd[c].at # "query",
               NEW i \in cmd[c].items, i.order < Current(c).order
        PROVE  db.history[i.version].content = i.content
    <3> DEFINE r == cmd[c]
    <3>1. r \in WorkType /\ WorkOK(raced, db, assets, r) /\ r.at \in {"run", "insert"}
      BY <1>1, <2>3, AtWork DEF Working
    <3>2. r.todo # <<>> /\ r.todo \in Seq(TodoType) /\ Head(r.todo) \in ItemType /\ i \in ItemType
      BY <2>3, <3>1 DEF WorkOK, WorkType
    <3>3. 1 \in DOMAIN r.todo /\ Head(r.todo) = r.todo[1] /\ DOMAIN r.todo \subseteq Nat \ {0}
      BY <3>2, HeadAndTail
    <3>4. ASSUME NEW k \in DOMAIN r.todo, r.todo[k] = i PROVE FALSE
      <4>1. r.todo[1].order \in Nat /\ i.order \in Nat /\ i.order < r.todo[1].order
        BY <2>3, <3>2, <3>3, MigrationAssumption DEF ItemType, Orders, Current
      <4>2. 1 < k
        BY <3>3, <3>4, <4>1
      <4>3. r.todo[1].order <= r.todo[k].order
        BY <2>3, <3>1, <3>2, <3>3, <4>2 DEF WorkOK
      <4>. QED BY <3>4, <4>1, <4>3
    <3>. QED BY <2>3, <3>1, <3>2, <3>4 DEF WorkOK, InHistory
  <2>. QED BY <2>1, <2>2, <2>3 DEF HistoryIsTrue
<1>. QED BY <1>1, MigrationInvariant, PTL
=============================================================================
