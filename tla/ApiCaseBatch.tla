---------------------------- MODULE ApiCaseBatch ----------------------------
(***************************************************************************)
(* One asynchronous API case batch of the control plane (internal/server/  *)
(* controlplane/api_case_batch_*.go): its row in runs, which carries the   *)
(* owner lease and is only changed by compare-and-swap on its revision;    *)
(* the control plane that owns it, with a goroutine that runs the cases, a *)
(* heartbeat goroutine and a report in memory; and requests that read the  *)
(* batch from the Store, possibly in other control planes, and declare it  *)
(* interrupted when its lease has expired.                                 *)
(*                                                                         *)
(* The owner goes through every durable write behind a fence: GetRun, a    *)
(* check of status and owner, and the swap that renews the lease.  Reading *)
(* and swapping are two steps, under checkpointMu against the owner's      *)
(* other goroutine and under nothing against the readers.  The lease is    *)
(* live or expired.  An owner token is never replaced, so the owner check  *)
(* is the check of the status.                                             *)
(*                                                                         *)
(* Store calls may fail, and a call that fails may have taken effect.      *)
(***************************************************************************)
EXTENDS Naturals

CONSTANTS
  CaseCount,    \* the cases of the batch are 1..CaseCount
  Readers       \* requests that read the batch from the Store

ASSUME BatchAssumption ==
  /\ CaseCount \in Nat \ {0}
  /\ Readers \cap {"run", "beat"} = {}

Cases == 1..CaseCount
MaxRecoveryAttempts == 3

VARIABLES
  row,         \* the stored batch: status, status by case, lease still live
  fresh,       \* who read the row since it was last changed
  mem,         \* the owner's report in memory, or NoReport
  run,         \* the goroutine that executes the batch
  beat,        \* the heartbeat goroutine
  cancelled,   \* the context both share is cancelled
  reader,      \* each reader: where it is, and its attempt
  env,         \* whether the batch is the acceptance run of an environment, and
               \* the verification fields of that
  publisher,   \* the publish-verified request: the fields it read, or none
  outcome,     \* ghost: how the request of each case ended
  interrupted, \* ghost: a reader ended the batch
  late         \* ghost: durable writes of the owner after that, counted to 2

vars == <<row, fresh, mem, run, beat, cancelled, reader, env, publisher, outcome,
          interrupted, late>>

Statuses == {"running", "passed", "failed", "skipped"}
Reports == [status : {"none", "running", "passed", "failed"}, cases : [Cases -> Statuses]]
NoReport == [status |-> "none", cases |-> [c \in Cases |-> "running"]]
NewReport == [NoReport EXCEPT !.status = "running"]

CaseSteps == {"materialize", "mfail", "open", "answer", "record", "trace"}
FinalSteps == {"artifacts", "parent", "topologies", "environment"}
FencedSteps == CaseSteps \cup {"reports"} \cup FinalSteps
Goals == {"case", "update", "failcase", "failbatch", "finish", "failfinal", "abort"}

TypeOK ==
  /\ row \in [status : {"none", "running", "passed", "failed"}, cases : [Cases -> Statuses],
              live : BOOLEAN]
  /\ fresh \subseteq {"run", "beat"} \cup Readers
  /\ mem \in Reports
  /\ run \in [at : FencedSteps \cup {"create", "launch", "request", "checkpoint", "over"},
              phase : {"fence", "swap", "write"}, case : Cases, goal : Goals,
              item : {"none", "passed", "failed"}, copy : Reports]
  /\ beat \in {"off", "idle", "swap", "failing", "removed"}
  /\ cancelled \in BOOLEAN
  /\ reader \in [Readers -> [at : {"idle", "retry", "swap"}, attempt : 0..MaxRecoveryAttempts]]
  /\ env \in [acceptance : BOOLEAN, recorded : BOOLEAN, passed : BOOLEAN, verified : BOOLEAN]
  /\ publisher \in BOOLEAN
  /\ outcome \in [Cases -> {"none", "passed", "failed"}]
  /\ interrupted \in BOOLEAN
  /\ late \in 0..2

Over == [at |-> "over", phase |-> "fence", case |-> 1, goal |-> "case", item |-> "none",
         copy |-> NoReport]

Init ==
  /\ row = [status |-> "none", cases |-> NoReport.cases, live |-> FALSE]
  /\ fresh = {}
  /\ mem = NoReport
  /\ run = [Over EXCEPT !.at = "create"]
  /\ beat = "off"
  /\ cancelled = FALSE
  /\ reader = [r \in Readers |-> [at |-> "idle", attempt |-> 0]]
  /\ env \in [acceptance : BOOLEAN, recorded : {FALSE}, passed : {FALSE}, verified : {FALSE}]
  /\ publisher = FALSE
  /\ outcome = [c \in Cases |-> "none"]
  /\ interrupted = FALSE
  /\ late = 0

Acceptance == env.acceptance

(* The environment records how the batch ended; it is not verified yet.     *)
Recorded(passed) == [env EXCEPT !.recorded = TRUE, !.passed = passed, !.verified = FALSE]

ghosts == <<outcome, interrupted, late>>
others == <<reader, env, publisher>>

-----------------------------------------------------------------------------
(* Reports                                                                  *)

(* What is left of a report when nothing more can be stored: it failed, and *)
(* the cases that have no result are skipped.                               *)
persistenceFailureReport(report) ==
  IF report = NoReport THEN NoReport
  ELSE [status |-> "failed",
        cases |-> [c \in Cases |-> IF report.cases[c] = "running" THEN "skipped"
                                   ELSE report.cases[c]]]

markAPICaseBatchRunInterrupted(report) ==
  [report EXCEPT !.status = "failed",
                 !.cases = [c \in Cases |-> IF @[c] = "running" THEN "failed" ELSE @[c]]]

(* Mutant of FinalReport: the failures are not counted. *)
AlwaysPassed(report) == [report EXCEPT !.status = "passed"]

(* The status finish gives the report: the failed cases decide. *)
FinalReport(report) ==
  [report EXCEPT !.status = IF \E c \in Cases : report.cases[c] = "failed"
                            THEN "failed" ELSE "passed"]

-----------------------------------------------------------------------------
(* The row                                                                  *)

(* CompareAndSwapRun takes effect only on the revision that was read. *)
Swap(actor, new) ==
  /\ actor \in fresh
  /\ row' = new
  /\ fresh' = {}

Renewed == [row EXCEPT !.live = TRUE]

(* createAPICaseBatchRunParent: the row exists before anything is launched. *)
(* The answer may be an error even so; then nobody owns the row.            *)
CreateRun ==
  /\ run.at = "create"
  /\ \/ /\ row' = [status |-> "running", cases |-> NewReport.cases, live |-> TRUE]
        /\ \/ run' = [run EXCEPT !.at = "launch"]
           \/ run' = Over
     \/ run' = Over /\ UNCHANGED row
  /\ UNCHANGED <<fresh, mem, beat, cancelled, others, ghosts>>

(* runner.save(report), then the two goroutines are started. *)
launchAPICaseBatchRun ==
  /\ run.at = "launch"
  /\ mem' = NewReport
  /\ run' = [run EXCEPT !.at = "materialize"]
  /\ beat' = "idle"
  /\ UNCHANGED <<row, fresh, cancelled, others, ghosts>>

(* The lease duration passes without a renewal. *)
Expire ==
  /\ row.status = "running"
  /\ row.live
  /\ row' = [row EXCEPT !.live = FALSE]
  /\ UNCHANGED <<fresh, mem, run, beat, cancelled, others, ghosts>>

-----------------------------------------------------------------------------
(* Where the goroutine goes                                                 *)

MutexFree == run.phase # "swap" /\ beat # "swap"

GoTo(step) == [run EXCEPT !.at = step, !.phase = "fence"]

(* A goal that starts from report: it is stored, or at least reported. *)
Pursue(goal, report) ==
  [run EXCEPT !.at = "reports", !.phase = "fence", !.goal = goal, !.copy = report,
              !.item = "none"]

(* updateCase works on a copy of the report, taken now, with the new item. *)
Update(goal, item) ==
  IF mem' = NoReport THEN Over
  ELSE Pursue(goal, [mem' EXCEPT !.cases[run.case] = item])

Abort == IF mem' = NoReport THEN Over ELSE Pursue("abort", persistenceFailureReport(mem'))

FailFinal == Pursue("failfinal", [run.copy EXCEPT !.status = "failed"])

(* The goroutine returns, and its deferred cancel stops the heartbeat. *)
EndOrGoOn ==
  cancelled' = (cancelled \/ run'.at = "over")

(* The lease is lost: the report in memory is dropped and nothing follows. *)
Lost == mem' = NoReport /\ run' = Over

(* markPersistenceFailure *)
MarkFailure == mem' = persistenceFailureReport(mem)

(* A fence that fails for another reason.  What follows depends on which of *)
(* the fences of the step it was: requireOwnerFence ends the run, the one   *)
(* in front of a single write is an error of that write.                    *)
FenceTrouble ==
  \/ /\ run.at \notin {"answer", "record", "parent"} /\ run.goal # "abort"
     /\ MarkFailure
     /\ run' = Over
  \/ /\ run.at \in {"open", "mfail", "answer", "record"}
     /\ MarkFailure
     /\ run' = Update("failcase", "failed")
  \/ /\ run.at = "reports"
     /\ \/ /\ run.goal \in {"update", "failcase", "finish"}
           /\ mem' = run.copy
           /\ run' = Abort
        \/ /\ run.goal \in {"failbatch", "failfinal"}
           /\ MarkFailure
           /\ run' = GoTo("checkpoint")
        \/ /\ run.goal = "abort"
           /\ mem' = run.copy
           /\ run' = Over
  \/ /\ run.at \in FinalSteps
     /\ MarkFailure
     /\ run' = FailFinal

-----------------------------------------------------------------------------
(* The fence of the run goroutine                                           *)

(* renewLease up to the swap. *)
FenceReads ==
  /\ run.at \in FencedSteps
  /\ run.phase = "fence"
  /\ MutexFree
  /\ \/ /\ mem = NoReport \/ (row.status # "running" /\ ~cancelled)
        /\ Lost
        /\ UNCHANGED fresh
     \/ /\ mem # NoReport /\ row.status = "running" /\ ~cancelled
        /\ run' = [run EXCEPT !.phase = "swap"]
        /\ fresh' = fresh \cup {"run"}
        /\ UNCHANGED mem
     \/ /\ mem # NoReport
        /\ FenceTrouble
        /\ UNCHANGED fresh
  /\ EndOrGoOn
  /\ UNCHANGED <<row, beat, others, ghosts>>

(* renewLease from the swap on. *)
FenceSwaps ==
  /\ run.at \in FencedSteps
  /\ run.phase = "swap"
  /\ \/ /\ Swap("run", Renewed)
        /\ \/ run' = [run EXCEPT !.phase = "write"] /\ UNCHANGED mem
           \/ FenceTrouble
     \/ /\ "run" \notin fresh
        /\ Lost
        /\ UNCHANGED <<row, fresh>>
     \/ /\ FenceTrouble
        /\ fresh' = fresh \ {"run"}
        /\ UNCHANGED row
  /\ EndOrGoOn
  /\ UNCHANGED <<beat, others, ghosts>>

-----------------------------------------------------------------------------
(* The writes behind the fences                                             *)

Wrote == late' = IF interrupted /\ late < 2 THEN late + 1 ELSE late

Writes(step) == run.at = step /\ run.phase = "write"

(* A write that fails leaves its case, or the batch, failed. *)
failCasePersistence ==
  /\ \E s \in {"open", "mfail", "answer", "record"} : Writes(s)
  /\ UNCHANGED mem
  /\ run' = Update("failcase", "failed")
  /\ EndOrGoOn
  /\ Wrote
  /\ UNCHANGED <<row, fresh, beat, others, outcome, interrupted>>

(* materializeAPICaseBatchExecution; a failure becomes evidence of its own. *)
Materialize ==
  /\ Writes("materialize")
  /\ \E next \in {"open", "mfail"} : run' = GoTo(next)
  /\ Wrote
  /\ UNCHANGED <<row, fresh, mem, beat, cancelled, others, outcome, interrupted>>

recordMaterializationFailure ==
  /\ Writes("mfail")
  /\ UNCHANGED mem
  /\ run' = Update("update", "failed")
  /\ EndOrGoOn
  /\ Wrote
  /\ UNCHANGED <<row, fresh, beat, others, outcome, interrupted>>

(* apicase.Run: evidence of the request, the request, evidence of its       *)
(* answer.  No fence stands between the first two.  A case that cannot be   *)
(* loaded leaves no evidence; it is recorded like one not materialized.     *)
OpenEvidence ==
  /\ Writes("open")
  /\ \/ run' = GoTo("request") /\ Wrote
     \/ run' = GoTo("mfail") /\ UNCHANGED late
  /\ UNCHANGED <<row, fresh, mem, beat, cancelled, others, outcome, interrupted>>

executeHTTP ==
  /\ run.at = "request"
  /\ \E result \in {"passed", "failed"} :
       /\ cancelled => result = "failed"
       /\ outcome' = [outcome EXCEPT ![run.case] = result]
       /\ run' = [GoTo("answer") EXCEPT !.item = result]
  /\ UNCHANGED <<row, fresh, mem, beat, cancelled, others, interrupted, late>>

(* Mutant of AnswerEvidence: the records that follow are not fenced. *)
AnswerWithoutFence ==
  /\ Writes("answer")
  /\ run' = [run EXCEPT !.at = "record"]
  /\ Wrote
  /\ UNCHANGED <<row, fresh, mem, beat, cancelled, others, outcome, interrupted>>

AnswerEvidence ==
  /\ Writes("answer")
  /\ run' = GoTo("record")
  /\ Wrote
  /\ UNCHANGED <<row, fresh, mem, beat, cancelled, others, outcome, interrupted>>

(* recordAPICaseRunWithContext; the trace of a passed workflow step follows. *)
RecordCaseRun ==
  /\ Writes("record")
  /\ UNCHANGED mem
  /\ run' = IF Acceptance /\ run.item = "passed" THEN GoTo("trace")
            ELSE Update("update", run.item)
  /\ EndOrGoOn
  /\ Wrote
  /\ UNCHANGED <<row, fresh, beat, others, outcome, interrupted>>

(* A trace that cannot be collected or stored is no failure of the case. *)
collectAPICaseBatchTraceTopology ==
  /\ Writes("trace")
  /\ UNCHANGED mem
  /\ run' = Update("update", run.item)
  /\ EndOrGoOn
  /\ Wrote
  /\ UNCHANGED <<row, fresh, beat, others, outcome, interrupted>>

(* writeReports: files beside the row, for every goal. *)
writeReports ==
  /\ Writes("reports")
  /\ \/ /\ run' = CASE run.goal = "finish" -> GoTo("artifacts")
                    [] run.goal = "abort" -> Over
                    [] OTHER -> GoTo("checkpoint")
        /\ mem' = IF run.goal = "abort" THEN run.copy ELSE mem
     \/ /\ run.goal \in {"update", "failcase", "finish"}     \* a writer failed
        /\ mem' = run.copy
        /\ run' = Abort
  /\ EndOrGoOn
  /\ Wrote
  /\ UNCHANGED <<row, fresh, beat, others, outcome, interrupted>>

AfterArtifacts == IF Acceptance THEN "parent" ELSE "environment"

(* recordAPICaseBatchReportArtifacts, materializeAPICaseBatchWorkflowParent *)
(* and copyAPICaseBatchTraceTopologies.                                     *)
FinalWrite ==
  /\ \/ Writes("artifacts") /\ run' = GoTo(AfterArtifacts)
     \/ Writes("parent") /\ run' = GoTo("topologies")
     \/ Writes("topologies") /\ run' = GoTo("environment")
     \/ (\E s \in FinalSteps : Writes(s)) /\ run' = FailFinal
  /\ Wrote
  /\ UNCHANGED <<row, fresh, mem, beat, cancelled, others, outcome, interrupted>>

(* finalizeEnvironmentAcceptanceRun: the environment records the outcome    *)
(* before the batch does.  A passed batch is accepted only with complete    *)
(* evidence and healthy nodes, so it may be refused.                        *)
finalizeEnvironmentAcceptanceRun ==
  /\ Writes("environment")
  /\ \/ /\ ~Acceptance
        /\ UNCHANGED <<env, late>>
     \/ /\ Acceptance
        /\ \E accepted \in BOOLEAN :
             /\ accepted => run.copy.status = "passed"
                             /\ \A c \in Cases : run.copy.cases[c] = "passed"
             /\ env' = Recorded(accepted)
        /\ Wrote
  /\ \E next \in {GoTo("checkpoint"), FailFinal} : run' = next
  /\ UNCHANGED <<row, fresh, mem, beat, cancelled, reader, publisher, outcome, interrupted>>

-----------------------------------------------------------------------------
(* The checkpoint                                                           *)

(* Mutant of CheckpointTrouble: the report that was not stored is kept. *)
TroubleKeepsReport ==
  /\ mem' = run.copy
  /\ run' = IF run.goal \in {"update", "failcase"} THEN Abort ELSE Over

(* A checkpoint that fails for another reason than a lost lease. *)
CheckpointTrouble ==
  \/ /\ run.goal \in {"update", "failcase"}
     /\ mem' = run.copy
     /\ run' = Abort
  \/ /\ run.goal = "finish"
     /\ UNCHANGED mem
     /\ run' = Abort
  \/ /\ run.goal \in {"failbatch", "failfinal"}
     /\ mem' = run.copy
     /\ run' = Over

(* checkpointAPICaseBatchRun up to the swap; memory is not asked. *)
CheckpointReads ==
  /\ run.at = "checkpoint"
  /\ run.phase = "fence"
  /\ MutexFree
  /\ \/ /\ row.status # "running" /\ ~cancelled
        /\ Lost
        /\ UNCHANGED fresh
     \/ /\ row.status = "running" /\ ~cancelled
        /\ run' = [run EXCEPT !.phase = "swap"]
        /\ fresh' = fresh \cup {"run"}
        /\ UNCHANGED mem
     \/ /\ CheckpointTrouble
        /\ UNCHANGED fresh
  /\ EndOrGoOn
  /\ UNCHANGED <<row, beat, others, ghosts>>

CheckpointSwaps ==
  /\ run.at = "checkpoint"
  /\ run.phase = "swap"
  /\ \/ /\ Swap("run", [status |-> run.copy.status, cases |-> run.copy.cases, live |-> TRUE])
        /\ \/ run' = [run EXCEPT !.phase = "write"] /\ UNCHANGED mem
           \/ CheckpointTrouble
     \/ /\ "run" \notin fresh
        /\ Lost
        /\ UNCHANGED <<row, fresh>>
     \/ /\ CheckpointTrouble
        /\ fresh' = fresh \ {"run"}
        /\ UNCHANGED row
  /\ EndOrGoOn
  /\ UNCHANGED <<beat, others, ghosts>>

(* What follows a stored report: the next case, or the end. *)
AfterCheckpoint ==
  CASE run.goal = "update" /\ run.case < CaseCount ->
         [Over EXCEPT !.at = "materialize", !.case = run.case + 1]
    [] run.goal = "update" /\ run.case = CaseCount -> Pursue("finish", FinalReport(run.copy))
    [] run.goal = "failcase" -> Pursue("failbatch", persistenceFailureReport(run.copy))
    [] OTHER -> Over

(* save(report) after the checkpoint, over whatever memory holds by now. *)
Save ==
  /\ Writes("checkpoint")
  /\ mem' = run.copy
  /\ run' = AfterCheckpoint
  /\ EndOrGoOn
  /\ UNCHANGED <<row, fresh, beat, others, ghosts>>

-----------------------------------------------------------------------------
(* The heartbeat goroutine                                                  *)

BeatReads ==
  /\ beat = "idle"
  /\ ~cancelled
  /\ MutexFree
  /\ \/ mem # NoReport /\ row.status = "running" /\ beat' = "swap" /\ fresh' = fresh \cup {"beat"}
     \/ beat' = "failing" /\ UNCHANGED fresh
  /\ UNCHANGED <<row, mem, run, cancelled, others, ghosts>>

BeatSwaps ==
  /\ beat = "swap"
  /\ \/ Swap("beat", Renewed) /\ beat' \in {"idle", "failing"}
     \/ beat' = "failing" /\ fresh' = fresh \ {"beat"} /\ UNCHANGED row
  /\ UNCHANGED <<mem, run, cancelled, others, ghosts>>

(* Any error: the report is removed, then the context is cancelled. *)
BeatFails ==
  /\ \/ beat = "failing" /\ beat' = "removed" /\ mem' = NoReport /\ UNCHANGED cancelled
     \/ beat = "removed" /\ beat' = "off" /\ cancelled' = TRUE /\ UNCHANGED mem
  /\ UNCHANGED <<row, fresh, run, others, ghosts>>

BeatStops ==
  /\ beat = "idle"
  /\ cancelled
  /\ beat' = "off"
  /\ UNCHANGED <<row, fresh, mem, run, cancelled, others, ghosts>>

(* The owner's process dies with everything it has in memory. *)
Crash ==
  /\ run.at # "create"
  /\ run # Over \/ mem # NoReport \/ beat # "off"
  /\ mem' = NoReport
  /\ run' = Over
  /\ beat' = "off"
  /\ cancelled' = TRUE
  /\ fresh' = fresh \ {"run", "beat"}
  /\ UNCHANGED <<row, others, ghosts>>

-----------------------------------------------------------------------------
(* Readers of the stored batch                                              *)

(* Mutant of Abandoned: a running batch is taken for what it says. *)
NeverAbandoned == FALSE

Abandoned == row.status = "running" /\ ~row.live

(* storedAPICaseBatchRunReport: whatever is not abandoned is the answer. *)
ReaderReads(r) ==
  /\ reader[r].at \in {"idle", "retry"}
  /\ row.status # "none"
  /\ IF Abandoned
     THEN /\ reader' = [reader EXCEPT ![r].at = "swap"]
          /\ fresh' = fresh \cup {r}
     ELSE /\ reader[r].at = "retry"
          /\ reader' = [reader EXCEPT ![r] = [at |-> "idle", attempt |-> 0]]
          /\ UNCHANGED fresh
  /\ UNCHANGED <<row, mem, run, beat, cancelled, env, publisher, ghosts>>

ReaderInterrupts(r) ==
  /\ reader[r].at = "swap"
  /\ Swap(r, [markAPICaseBatchRunInterrupted(row) EXCEPT !.live = FALSE])
  /\ interrupted' = TRUE
  /\ reader' = [reader EXCEPT ![r] = [at |-> "idle", attempt |-> 0]]
  /\ UNCHANGED <<mem, run, beat, cancelled, env, publisher, outcome, late>>

(* A conflict is read again, three times at most; an error ends the request. *)
ReaderFails(r) ==
  /\ reader[r].at = "swap"
  /\ \/ /\ r \notin fresh
        /\ reader[r].attempt < MaxRecoveryAttempts - 1
        /\ reader' = [reader EXCEPT ![r] = [at |-> "retry", attempt |-> @.attempt + 1]]
     \/ reader' = [reader EXCEPT ![r] = [at |-> "idle", attempt |-> 0]]
  /\ fresh' = fresh \ {r}
  /\ UNCHANGED <<row, mem, run, beat, cancelled, env, publisher, ghosts>>

-----------------------------------------------------------------------------
(* The environment's own handlers                                           *)

(* handleEnvironmentVerifyAPI: an operator records this run by hand. *)
handleEnvironmentVerifyAPI ==
  /\ row.status # "none"
  /\ \E passed \in BOOLEAN : env' = Recorded(passed)
  /\ UNCHANGED <<row, fresh, mem, run, beat, cancelled, reader, publisher, ghosts>>

(* The record must say passed, and so must the run it names. *)
ValidateEnvironmentPublishable == env.recorded /\ env.passed /\ row.status = "passed"

handleEnvironmentPublishVerifiedAPI ==
  \/ /\ ~publisher
     /\ ValidateEnvironmentPublishable
     /\ publisher' = TRUE
     /\ UNCHANGED <<row, fresh, mem, run, beat, cancelled, reader, env, ghosts>>
  \/ /\ publisher
     /\ env' = [env EXCEPT !.recorded = TRUE, !.passed = TRUE, !.verified = TRUE]
     /\ publisher' = FALSE
     /\ UNCHANGED <<row, fresh, mem, run, beat, cancelled, reader, ghosts>>

-----------------------------------------------------------------------------

RunStep ==
  \/ CreateRun \/ launchAPICaseBatchRun \/ FenceReads \/ FenceSwaps \/ Materialize
  \/ recordMaterializationFailure \/ OpenEvidence \/ executeHTTP \/ AnswerEvidence
  \/ RecordCaseRun \/ collectAPICaseBatchTraceTopology \/ failCasePersistence
  \/ writeReports \/ FinalWrite \/ finalizeEnvironmentAcceptanceRun
  \/ CheckpointReads \/ CheckpointSwaps \/ Save

BeatStep == BeatReads \/ BeatSwaps \/ BeatFails \/ BeatStops

EnvironmentStep ==
  Acceptance /\ (handleEnvironmentVerifyAPI \/ handleEnvironmentPublishVerifiedAPI)

Next ==
  \/ RunStep \/ BeatStep \/ Expire \/ Crash
  \/ \E r \in Readers : ReaderReads(r) \/ ReaderInterrupts(r) \/ ReaderFails(r)
  \/ EnvironmentStep

Spec == Init /\ [][Next]_vars

(* The owner's goroutines keep running, and a goroutine that waits for      *)
(* checkpointMu gets it in the end, since the heartbeat rests between its   *)
(* ticks.  Time passes, and somebody keeps asking for the batch over a      *)
(* Store that does not fail for ever.                                       *)
FairSpec ==
  /\ Spec
  /\ WF_vars(RunStep) /\ SF_vars(FenceReads) /\ SF_vars(CheckpointReads)
  /\ WF_vars(BeatSwaps) /\ WF_vars(BeatFails) /\ WF_vars(BeatStops)
  /\ WF_vars(Expire)
  /\ \A r \in Readers : WF_vars(ReaderReads(r)) /\ SF_vars(ReaderInterrupts(r))
                        /\ WF_vars(ReaderFails(r))

-----------------------------------------------------------------------------
(* Properties                                                               *)

(* A batch stored as passed has run every case, each passed.  A fence that  *)
(* failed, a case that was skipped or never came back cannot be covered up. *)
PassedIsEarned ==
  row.status = "passed" =>
    \A c \in Cases : row.cases[c] = "passed" /\ outcome[c] = "passed"

(* After a reader has ended the batch its owner, who does not know yet,     *)
(* gets at most one more durable write through: the one whose fence it had  *)
(* already passed.                                                          *)
OneLateWrite == late <= 1

(* What the owner's memory reports as passed is stored as passed, whatever  *)
(* was saved over what, and once the run is over the memory shows no        *)
(* running batch: it is served before the Store is asked, so nobody would   *)
(* ever correct it.  The one exception passes by itself: a finish whose     *)
(* report files cannot be written saves its report in memory before it      *)
(* aborts, and the abort replaces it or drops it.                           *)
MemoryIsBacked ==
  /\ mem.status = "passed" /\ run.goal # "abort" => row.status = "passed"
  /\ run.at = "over" => mem.status # "running"

(* No batch stays running for ever, also when its owner is gone. *)
BatchEnds == row.status = "running" ~> row.status \in {"passed", "failed"}

=============================================================================
