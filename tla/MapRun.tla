------------------------------- MODULE MapRun -------------------------------
(***************************************************************************)
(* Executions of one saved test map plan by several `map run --plan`       *)
(* processes: reading the plan record, claiming it, resetting its tasks    *)
(* according to the resume controls, running the dependency waves with     *)
(* checkpoints and fenced external requests, and releasing the plan        *)
(* (cmd/agent-testbench/map_run_commands.go and map_run_executor.go).      *)
(*                                                                         *)
(* Time is abstracted: a lease is live or has expired.  MapPlanLease shows *)
(* what the clock, the heartbeat and late transactions can do to it.  A    *)
(* run without --plan saves a plan of planned tasks and then behaves like  *)
(* a run of that plan without resume controls.                             *)
(***************************************************************************)
EXTENDS Naturals, FiniteSets

CONSTANTS
  Executors,     \* the `map run` processes, one owner/token pair each
  NoExecutor,    \* the absence of one
  Plans,         \* the plans that may have been saved
  Options,       \* the resume controls a process may be started with
  Concurrency    \* --concurrency

Kinds == {"run_path", "run_path_prefix", "run_case", "reuse_materialization", "skip",
          "gate_evidence"}
OptionRecords ==
  [resume : BOOLEAN, retryFailed : BOOLEAN, skipPassed : BOOLEAN, rerun : SUBSET Nat]

(* The tasks of a plan are numbered in task_index order.  kind is their     *)
(* task_kind, steps how many steps the task's path has up to its target,    *)
(* edges the required edges <<from, to>>; from 0 names no task.             *)
IsPlan(p) ==
  LET tasks == DOMAIN p.kind IN
  /\ IsFiniteSet(tasks) /\ tasks = 1..Cardinality(tasks)
  /\ p.kind \in [tasks -> Kinds]
  /\ p.steps \in [tasks -> Nat]
  /\ p.edges \subseteq ({0} \cup tasks) \X tasks

(* The wave of each task of a plan: a task is queued when all it requires   *)
(* is.  Tasks on or behind a cycle get a wave of their own each, in index   *)
(* order, after all others.                                                 *)
WavesOf(p) ==
  LET tasks == DOMAIN p.kind
      n == Cardinality(tasks)
      Queued[k \in 0..n] ==
        IF k = 0 THEN {}
        ELSE {t \in tasks : \A f \in tasks : <<f, t>> \in p.edges => f \in Queued[k - 1]}
  IN [t \in tasks |->
        IF t \in Queued[n] THEN CHOOSE k \in 1..n : t \in Queued[k] \ Queued[k - 1]
        ELSE n + t]

SavedPlans ==
  {[kind |-> p.kind, steps |-> p.steps, edges |-> p.edges, wave |-> WavesOf(p)] : p \in Plans}

ASSUME ExecutorsAssumption == NoExecutor \notin Executors
ASSUME PlanAssumption == \A p \in Plans : IsPlan(p)
ASSUME ControlAssumption ==
  /\ Options \subseteq OptionRecords
  /\ Concurrency \in Nat \ {0}

VARIABLES
  plan,        \* the saved plan and its waves; no run changes them
  lease,       \* the lease row: its owner, or NoExecutor, and whether it is live
  planStatus,  \* status of the plan's instance row
  row,         \* the task rows
  pc,          \* where each process is
  opt,         \* its resume controls
  rec,         \* the task records it has in memory
  stat,        \* statusByTask
  thread,      \* what it is doing with each task
  err,         \* a checkpoint error was recorded and the context cancelled
  stale,       \* ghost: a reset has replaced newer task rows by an older record
  unresolved,  \* ghost: tasks with a request sent and, since then, neither an
               \* outcome stored nor a reset with --rerun-task
  passedThen   \* ghost: the tasks stored as passed when it claimed

vars == <<plan, lease, planStatus, row, pc, opt, rec, stat, thread, err,
          stale, unresolved, passedThen>>
ghosts == <<stale, unresolved, passedThen>>

TaskCount == Cardinality(DOMAIN plan.kind)
Tasks == 1..TaskCount
Kind == plan.kind
StepCount == plan.steps
Edges == plan.edges
Wave == plan.wave

Statuses == {"planned", "running", "passed", "failed", "blocked", "skipped"}

(* A task row: its status, whether reason or summary carry the category     *)
(* interrupted-unknown-outcome, and whether the summary still carries the   *)
(* untilNodeId of a path prefix.                                            *)
Rows == [status : Statuses, unknown : BOOLEAN, until : BOOLEAN]

(* A task's goroutine: where it is, its step, and the worst step result. *)
Places == {"wait", "fence", "request", "step", "aggregate", "finish", "done"}
Threads == [at : Places, step : Nat, ok : BOOLEAN]
Waiting == [at |-> "wait", step |-> 0, ok |-> TRUE]
Finished == [at |-> "done", step |-> 0, ok |-> TRUE]

Ended == {"refused", "stopped", "done", "crashed"}

TypeOK ==
  /\ plan \in SavedPlans
  /\ lease \in [owner : Executors \cup {NoExecutor}, live : BOOLEAN]
  /\ planStatus \in Statuses \ {"skipped"}
  /\ row \in [Tasks -> Rows]
  /\ pc \in [Executors -> {"start", "loaded", "claimed", "running"} \cup Ended]
  /\ opt \in [Executors -> OptionRecords]
  /\ rec \in [Executors -> [Tasks -> Rows]]
  /\ stat \in [Executors -> [Tasks -> Statuses \cup {"none"}]]
  /\ thread \in [Executors -> [Tasks -> Threads]]
  /\ err \in [Executors -> BOOLEAN]
  /\ stale \in BOOLEAN
  /\ unresolved \subseteq Tasks
  /\ passedThen \in [Executors -> SUBSET Tasks]

NoControls == [resume |-> FALSE, retryFailed |-> FALSE, skipPassed |-> FALSE, rerun |-> {}]
NoLease == [owner |-> NoExecutor, live |-> FALSE]

(* A plan as mapplanner.RecordFromPlan saves it. *)
SavedRow(t) ==
  [status |-> IF Kind[t] = "skip" THEN "skipped" ELSE "planned",
   unknown |-> FALSE, until |-> Kind[t] = "run_path_prefix"]

(* What a process has in memory before it reads the plan. *)
Blank(e) ==
  /\ opt' = [opt EXCEPT ![e] = NoControls]
  /\ rec' = [rec EXCEPT ![e] = [t \in Tasks |-> SavedRow(t)]]
  /\ stat' = [stat EXCEPT ![e] = [t \in Tasks |-> "none"]]
  /\ thread' = [thread EXCEPT ![e] = [t \in Tasks |-> Waiting]]
  /\ err' = [err EXCEPT ![e] = FALSE]
  /\ passedThen' = [passedThen EXCEPT ![e] = {}]

(* The process is over, and its memory is gone. *)
Exit(e, how) ==
  /\ pc' = [pc EXCEPT ![e] = how]
  /\ Blank(e)

Init ==
  /\ plan \in SavedPlans
  /\ lease = NoLease
  /\ planStatus = "planned"
  /\ row = [t \in Tasks |-> SavedRow(t)]
  /\ pc = [e \in Executors |-> "start"]
  /\ opt = [e \in Executors |-> NoControls]
  /\ rec = [e \in Executors |-> [t \in Tasks |-> SavedRow(t)]]
  /\ stat = [e \in Executors |-> [t \in Tasks |-> "none"]]
  /\ thread = [e \in Executors |-> [t \in Tasks |-> Waiting]]
  /\ err = [e \in Executors |-> FALSE]
  /\ stale = FALSE
  /\ unresolved = {}
  /\ passedThen = [e \in Executors |-> {}]

-----------------------------------------------------------------------------
(* Which tasks a run resets and executes                                    *)

mapRunHasResumeControls(o) == o.resume \/ o.retryFailed \/ o.skipPassed \/ o.rerun # {}

FailedOrBlocked(status) == status \in {"failed", "blocked"}

(* Mutant of mapRunTaskSelectedForExecution: --resume selects all tasks. *)
SelectsPassedTasks(r, t, o) ==
  Kind[t] # "skip" /\ r.status # "skipped" /\ (r.unknown => t \in o.rerun)

mapRunTaskSelectedForExecution(r, t, o) ==
  /\ Kind[t] # "skip" /\ r.status # "skipped"
  /\ IF r.unknown
     THEN t \in o.rerun
     ELSE \/ t \in o.rerun
          \/ o.retryFailed /\ FailedOrBlocked(r.status)
          \/ IF o.resume \/ o.skipPassed
             THEN r.status # "passed"
             ELSE o.rerun = {} /\ ~o.retryFailed

mapRunTaskRunnable(r, o) ==
  \/ r.status \in {"planned", "running"}
  \/ o.retryFailed /\ FailedOrBlocked(r.status)

mapRunKeepRetryStatusUntilExecution(r, o) ==
  /\ o.retryFailed /\ ~o.resume /\ ~o.skipPassed /\ o.rerun = {}
  /\ FailedOrBlocked(r.status)

(* Mutant of MarkInterrupted: a running row is taken for an ordinary one. *)
IgnoreInterruption(r) == r

(* A task found running was interrupted: its outcome is unknown. *)
MarkInterrupted(r) ==
  IF r.status = "running"
  THEN [status |-> "failed", unknown |-> TRUE, until |-> FALSE]
  ELSE r

prepareExistingMapRunRecordAt(r, t, o) ==
  LET m == MarkInterrupted(r) IN
  IF m.unknown /\ t \notin o.rerun THEN m
  ELSE IF m.status = "skipped" \/ Kind[t] = "skip" THEN [m EXCEPT !.status = "skipped"]
  ELSE IF mapRunHasResumeControls(o) /\ ~mapRunTaskSelectedForExecution(m, t, o) THEN m
  ELSE IF mapRunKeepRetryStatusUntilExecution(m, o) THEN m
  ELSE [m EXCEPT !.status = "planned"]

mapRunStatus(records) ==
  LET has(S) == \E t \in Tasks : records[t].status \in S IN
  IF has({"failed"}) THEN "failed"
  ELSE IF has({"blocked"}) THEN "blocked"
  ELSE IF has({"planned", "running"}) THEN "running"
  ELSE "passed"

-----------------------------------------------------------------------------
(* Execution waves                                                          *)

Requires(t) == {f \in Tasks : <<f, t>> \in Edges}

(* execute() starts a wave when the previous one has ended, and inside a    *)
(* wave runs the tasks in order, or up to Concurrency of them at a time.    *)
mayStart(e, t) ==
  /\ \A s \in Tasks : Wave[s] < Wave[t] => thread[e][s].at = "done"
  /\ IF Concurrency = 1
     THEN \A s \in Tasks : Wave[s] = Wave[t] /\ s < t => thread[e][s].at = "done"
     ELSE Cardinality({s \in Tasks : thread[e][s].at \notin {"wait", "done"}}) < Concurrency

(* blockedByDependency: a required predecessor has neither passed nor been  *)
(* skipped in this run, or is not a task of the plan at all.                *)
blockedByDependency(e, t) ==
  \E f \in 0..TaskCount :
    <<f, t>> \in Edges /\ (f \in Tasks => stat[e][f] \notin {"passed", "skipped"})

-----------------------------------------------------------------------------
(* Reading, claiming and resetting the plan                                 *)

(* GetTestMapPlan and the preflight, before anything is claimed. *)
Load(e) ==
  /\ pc[e] = "start"
  /\ \E o \in Options : opt' = [opt EXCEPT ![e] = o]
  /\ rec' = [rec EXCEPT ![e] = row]
  /\ pc' = [pc EXCEPT ![e] = "loaded"]
  /\ UNCHANGED <<lease, planStatus, row, stat, thread, err, ghosts>>

(* ClaimTestMapPlanLease, and what claimMapRunPlan makes of a conflict. *)
Claim(e) ==
  /\ pc[e] = "loaded"
  /\ IF lease.live \/ (lease = NoLease /\ planStatus = "running" /\ ~opt[e].resume)
     THEN /\ Exit(e, "refused")
          /\ UNCHANGED <<lease, planStatus>>
     ELSE /\ lease' = [owner |-> e, live |-> TRUE]
          /\ planStatus' = "running"
          /\ pc' = [pc EXCEPT ![e] = "claimed"]
          /\ passedThen' = [passedThen EXCEPT ![e] = {t \in Tasks : row[t].status = "passed"}]
          /\ UNCHANGED <<opt, rec, stat, thread, err>>
  /\ UNCHANGED <<row, stale, unresolved>>

Owns(e) == lease = [owner |-> e, live |-> TRUE]

(* ResetTestMapPlanWithLease writes the prepared record over all task rows. *)
Reset(e) ==
  /\ pc[e] = "claimed"
  /\ \/ /\ Owns(e)
        /\ rec' = [rec EXCEPT ![e] =
             [t \in Tasks |-> prepareExistingMapRunRecordAt(rec[e][t], t, opt[e])]]
        /\ row' = rec'[e]
        /\ planStatus' = "running"
        /\ pc' = [pc EXCEPT ![e] = "running"]
        /\ stale' = (stale \/ rec[e] # row)
        /\ unresolved' = unresolved \ opt[e].rerun
        /\ UNCHANGED <<opt, stat, thread, err, passedThen>>
     \/ /\ Exit(e, "stopped")
        /\ UNCHANGED <<row, planStatus, stale, unresolved>>
  /\ UNCHANGED lease

-----------------------------------------------------------------------------
(* Executing one task                                                       *)

(* checkpointTask: the task row is written if the lease is still held, or   *)
(* the failure (of the ownership predicate or of the Store) stops the run.  *)
checkpointTask(e, t, r) ==
  \/ /\ ~err[e] /\ Owns(e)
     /\ row' = [row EXCEPT ![t] = r]
     /\ UNCHANGED err
  \/ /\ err' = [err EXCEPT ![e] = TRUE]
     /\ UNCHANGED row

CheckpointFailed(e) == err'[e]

(* finishTask replaces the summary, and with it both marks. *)
finishTask(r, status) == [r EXCEPT !.status = status, !.unknown = FALSE, !.until = FALSE]

At(e, t, place) == thread[e][t].at = place
Goto(e, t, place) == thread' = [thread EXCEPT ![e][t].at = place]

(* The task is over for this run: its status counts for its dependents. *)
EndTask(e, t, r) ==
  /\ rec' = [rec EXCEPT ![e][t] = r]
  /\ stat' = [stat EXCEPT ![e][t] = r.status]
  /\ thread' = [thread EXCEPT ![e][t] = Finished]

Live(e) == pc[e] = "running"
Begins(e, t) == Live(e) /\ ~err[e] /\ At(e, t, "wait") /\ mayStart(e, t)

Executes(e, t) ==
  LET r == rec[e][t] IN
  mapRunTaskSelectedForExecution(r, t, opt[e]) /\ mapRunTaskRunnable(r, opt[e])

(* executeTask on a task that is skipped, not selected or already over. *)
KeepTask(e, t) ==
  /\ Begins(e, t)
  /\ ~Executes(e, t)
  /\ LET r == rec[e][t] IN
     IF Kind[t] = "skip" \/ r.status = "skipped"
     THEN stat' = [stat EXCEPT ![e][t] = "skipped"]
     ELSE stat' = [stat EXCEPT ![e][t] = r.status]
  /\ thread' = [thread EXCEPT ![e][t] = Finished]
  /\ UNCHANGED <<lease, planStatus, row, pc, opt, rec, err, ghosts>>

BlockTask(e, t) ==
  /\ Begins(e, t)
  /\ Executes(e, t)
  /\ blockedByDependency(e, t)
  /\ LET r == finishTask(rec[e][t], "blocked") IN
     EndTask(e, t, r) /\ checkpointTask(e, t, r)
  /\ UNCHANGED <<lease, planStatus, pc, opt, ghosts>>

PathKinds == {"run_path", "run_path_prefix"}

(* A prefix whose untilNodeId is gone has no steps. *)
stepsForTask(e, t) ==
  IF Kind[t] = "run_path_prefix" /\ ~rec[e][t].until THEN 0 ELSE StepCount[t]

(* Where a task starts: at its first request, or at its end if it sends     *)
(* none (a path without steps, a materialization, an unknown kind).         *)
FirstPlace(e, t) ==
  IF Kind[t] = "run_case" \/ (Kind[t] \in PathKinds /\ stepsForTask(e, t) > 0)
  THEN [at |-> "fence", step |-> 1, ok |-> TRUE]
  ELSE [at |-> "finish", step |-> 0, ok |-> TRUE]

(* The running checkpoint is durable before the task does anything else. *)
RunTask(e, t) ==
  /\ Begins(e, t)
  /\ Executes(e, t)
  /\ ~blockedByDependency(e, t)
  /\ LET r == [rec[e][t] EXCEPT !.status = "running"] IN
     /\ checkpointTask(e, t, r)
     /\ IF CheckpointFailed(e)
        THEN EndTask(e, t, finishTask(r, "failed"))
        ELSE /\ rec' = [rec EXCEPT ![e][t] = r]
             /\ thread' = [thread EXCEPT ![e][t] = FirstPlace(e, t)]
             /\ UNCHANGED stat
  /\ UNCHANGED <<lease, planStatus, pc, opt, ghosts>>

(* Mutant of Fence: a lost lease is not treated as an error, the goroutine  *)
(* waits to get it back.                                                    *)
FenceWaitsForLease(e, t) ==
  /\ Live(e)
  /\ At(e, t, "fence")
  /\ ~err[e] /\ Owns(e)
  /\ Goto(e, t, "request")
  /\ unresolved' = unresolved \cup {t}
  /\ UNCHANGED <<lease, planStatus, row, pc, opt, rec, stat, err, stale, passedThen>>

(* runCatalogCase renews the lease and only then sends the request.  When   *)
(* the renewal fails the run stops, and the task fails in memory only.      *)
Fence(e, t) ==
  /\ Live(e)
  /\ At(e, t, "fence")
  /\ \/ /\ ~err[e] /\ Owns(e)
        /\ Goto(e, t, "request")
        /\ unresolved' = unresolved \cup {t}
        /\ UNCHANGED <<rec, stat, err>>
     \/ /\ err' = [err EXCEPT ![e] = TRUE]
        /\ EndTask(e, t, finishTask(rec[e][t], "failed"))
        /\ UNCHANGED unresolved
  /\ UNCHANGED <<lease, planStatus, row, pc, opt, stale, passedThen>>

(* The case run answers.  After a lost lease its result is discarded. *)
Answer(e, t) ==
  /\ Live(e)
  /\ At(e, t, "request")
  /\ IF err[e]
     THEN EndTask(e, t, finishTask(rec[e][t], "failed"))
     ELSE /\ \E passed \in BOOLEAN :
               thread' = [thread EXCEPT ![e][t].ok = passed,
                            ![e][t].at = IF Kind[t] = "run_case" THEN "finish" ELSE "step"]
          /\ UNCHANGED <<rec, stat>>
  /\ UNCHANGED <<lease, planStatus, row, pc, opt, err, ghosts>>

(* executePathTask stores the step results, which replace the summary, and  *)
(* goes on with the next step of a path that has passed so far.             *)
StepCheckpoint(e, t) ==
  /\ Live(e)
  /\ At(e, t, "step")
  /\ LET r == [rec[e][t] EXCEPT !.unknown = FALSE, !.until = FALSE] IN
     /\ checkpointTask(e, t, r)
     /\ IF CheckpointFailed(e)
        THEN EndTask(e, t, finishTask(r, "failed"))
        ELSE /\ rec' = [rec EXCEPT ![e][t] = r]
             /\ IF thread[e][t].ok /\ thread[e][t].step < StepCount[t]
                THEN thread' = [thread EXCEPT ![e][t].at = "fence", ![e][t].step = @ + 1]
                ELSE Goto(e, t, "aggregate")
             /\ UNCHANGED stat
  /\ UNCHANGED <<lease, planStatus, pc, opt, ghosts>>

(* The aggregate run of a path is created under one more fence; when        *)
(* CreateRun fails the task fails.                                          *)
Aggregate(e, t) ==
  /\ Live(e)
  /\ At(e, t, "aggregate")
  /\ \/ /\ ~err[e] /\ Owns(e)
        /\ \E created \in BOOLEAN :
             thread' = [thread EXCEPT ![e][t].at = "finish", ![e][t].ok = @ /\ created]
        /\ UNCHANGED <<rec, stat, err>>
     \/ /\ err' = [err EXCEPT ![e] = TRUE]
        /\ EndTask(e, t, finishTask(rec[e][t], "failed"))
  /\ UNCHANGED <<lease, planStatus, row, pc, opt, ghosts>>

(* What the task ends with: a path without steps is skipped, an unsupported *)
(* kind fails, a fixture may be missing, the others end as their requests.  *)
Outcomes(e, t) ==
  CASE Kind[t] = "gate_evidence" -> {"failed"}
    [] Kind[t] = "reuse_materialization" -> {"passed", "failed"}
    [] Kind[t] \in PathKinds /\ thread[e][t].step = 0 -> {"skipped"}
    [] OTHER -> {IF thread[e][t].ok THEN "passed" ELSE "failed"}

(* Mutant of FinishTask: the final status stays in memory. *)
FinishWithoutCheckpoint(e, t) ==
  /\ Live(e)
  /\ At(e, t, "finish")
  /\ \E status \in Outcomes(e, t) : EndTask(e, t, finishTask(rec[e][t], status))
  /\ UNCHANGED <<lease, planStatus, row, pc, opt, err, ghosts>>

(* finishTask, then the final checkpoint. *)
FinishTask(e, t) ==
  /\ Live(e)
  /\ At(e, t, "finish")
  /\ \E status \in Outcomes(e, t) :
       LET r == finishTask(rec[e][t], status) IN
       EndTask(e, t, r) /\ checkpointTask(e, t, r)
  /\ unresolved' = IF CheckpointFailed(e) THEN unresolved ELSE unresolved \ {t}
  /\ UNCHANGED <<lease, planStatus, pc, opt, stale, passedThen>>

TaskStep(e, t) ==
  \/ KeepTask(e, t) \/ BlockTask(e, t) \/ RunTask(e, t)
  \/ Fence(e, t) \/ Answer(e, t) \/ StepCheckpoint(e, t) \/ Aggregate(e, t)
  \/ FinishTask(e, t)

-----------------------------------------------------------------------------
(* The end of a run                                                         *)

(* Every goroutine has ended, or was never started because the run stopped. *)
WavesOver(e) ==
  \A t \in Tasks : thread[e][t].at = "done" \/ (err[e] /\ thread[e][t].at = "wait")

(* finishClaimedInstance: a run that met an error leaves the lease and the  *)
(* running plan behind, any other stores the final status and releases.     *)
Finish(e) ==
  /\ Live(e)
  /\ WavesOver(e)
  /\ \/ /\ ~err[e] /\ Owns(e)
        /\ planStatus' = mapRunStatus(rec[e])
        /\ lease' = NoLease
        /\ Exit(e, "done")
     \/ /\ Exit(e, "stopped")
        /\ UNCHANGED <<lease, planStatus>>
  /\ UNCHANGED <<row, stale, unresolved>>

(* The lease duration passes without a renewal. *)
Expire ==
  /\ lease.live
  /\ lease' = [lease EXCEPT !.live = FALSE]
  /\ UNCHANGED <<planStatus, row, pc, opt, rec, stat, thread, err, ghosts>>

Crash(e) ==
  /\ pc[e] \in {"loaded", "claimed", "running"}
  /\ Exit(e, "crashed")
  /\ UNCHANGED <<lease, planStatus, row, stale, unresolved>>

ProcessStep(e) ==
  \/ Claim(e) \/ Reset(e) \/ Finish(e)
  \/ \E t \in Tasks : TaskStep(e, t)

Next ==
  /\ UNCHANGED plan
  /\ \/ Expire
     \/ \E e \in Executors : Load(e) \/ ProcessStep(e) \/ Crash(e)

Spec == Init /\ [][Next]_vars

(* A started process keeps running: requests have a timeout, the Store      *)
(* answers or fails.                                                        *)
FairSpec == Spec /\ \A e \in Executors : WF_vars(ProcessStep(e) /\ UNCHANGED plan)

-----------------------------------------------------------------------------
(* Properties                                                               *)

(* e sends the first request of an attempt at t. *)
Attempts(e, t) ==
  /\ At(e, t, "fence") /\ thread[e][t].step = 1
  /\ thread'[e][t].at = "request"

(* A request that was sent and whose outcome never reached the Store is not *)
(* repeated before the operator has reset the task with --rerun-task: no    *)
(* crash, lost lease or failed checkpoint makes a later run replay it, as   *)
(* long as no run has reset the plan to a record that was out of date.      *)
NoBlindReplay ==
  [][\A e \in Executors, t \in Tasks :
       Attempts(e, t) /\ ~stale => t \notin unresolved]_vars

(* --resume keeps what has passed: a resumed run sends no request for a     *)
(* task that was stored as passed when it claimed the plan, unless the task *)
(* is named with --rerun-task.                                              *)
ResumeKeepsPassed ==
  [][\A e \in Executors, t \in Tasks :
       Attempts(e, t) /\ opt[e].resume /\ t \in passedThen[e] => t \in opt[e].rerun]_vars

(* The same, as long as no run has reset the plan to an outdated record. *)
FreshResumeKeepsPassed ==
  [][\A e \in Executors, t \in Tasks :
       Attempts(e, t) /\ opt[e].resume /\ t \in passedThen[e] /\ ~stale
         => t \in opt[e].rerun]_vars

(* A released plan shows the status its stored tasks add up to. *)
ReleasedStatusMatchesTasks ==
  lease = NoLease /\ planStatus # "planned" => planStatus = mapRunStatus(row)

(* Every started run comes to an end: it is refused, stops on an error,     *)
(* crashes or releases the plan, whatever happens to its lease meanwhile.   *)
EveryRunEnds ==
  \A e \in Executors : pc[e] = "loaded" ~> pc[e] \in Ended

=============================================================================
