------------------------- MODULE ApiCaseBatchProofs -------------------------
(***************************************************************************)
(* Proofs about API cases: about a batch under way (ApiCaseBatch), for any *)
(* number of cases and of readers, and about the suites the batches and    *)
(* reports are selected from (CaseSuite), for any finite set of cases.     *)
(***************************************************************************)
EXTENDS ApiCaseBatch, CaseSuite, FiniteSetTheorems, WellFoundedInduction, TLAPS

Steps == FencedSteps \cup {"create", "launch", "request", "checkpoint", "over"}
RowState == [status : {"none", "running", "passed", "failed"}, cases : [Cases -> Statuses],
             live : BOOLEAN]
RunState == [at : Steps, phase : {"fence", "swap", "write"}, case : Cases, goal : Goals,
             item : {"none", "passed", "failed"}, copy : Reports]
ReaderState == [at : {"idle", "retry", "swap"}, attempt : 0..MaxRecoveryAttempts]

-----------------------------------------------------------------------------
(* The inductive invariant.  Its parts are about values, the report m in    *)
(* memory, the goroutine r and the results o, and are stated for the        *)
(* variables below.                                                         *)

(* The cases up to n have a result, each that passed has earned it, and the *)
(* others have none.                                                        *)
Progress(report, n, o) ==
  \A c \in Cases :
    IF c <= n
    THEN /\ report.cases[c] \in {"passed", "failed"}
         /\ report.cases[c] = "passed" => o[c] = "passed"
    ELSE report.cases[c] = "running"

(* Which goals the goroutine pursues where; over is one state. *)
Shape(r) ==
  /\ r.at \in CaseSteps \cup {"create", "launch", "request"} => r.goal = "case"
  /\ r.at = "reports" => r.goal # "case"
  /\ r.at \in FinalSteps => r.goal = "finish"
  /\ r.at = "checkpoint" => r.goal \in {"update", "failcase", "finish", "failbatch", "failfinal"}
  /\ r.at = "over" => r = Over
  /\ r.at \in {"create", "launch", "request"} => r.phase = "fence"

(* While the cases run, memory holds the results so far or nothing at all,  *)
(* and once the run is over it shows no running batch.                      *)
Memory(m, r, o) ==
  /\ m.status = "none" => m = NoReport
  /\ r.at \in {"create", "launch"} => m = NoReport
  /\ r.at = "launch" => r.case = 1
  /\ r.at = "create" => r.case = 1
  /\ r.at \in CaseSteps \cup {"request"} /\ m # NoReport =>
       m.status = "running" /\ Progress(m, r.case - 1, o)
  /\ r.at = "over" => m.status # "running"

(* The report that is being stored. *)
Copy(r, o) ==
  /\ r.goal # "case" => r.copy.status # "none"
  /\ r.goal = "update" => r.copy.status = "running" /\ Progress(r.copy, r.case, o)
  /\ r.goal = "finish" => /\ r.copy.status \in {"passed", "failed"}
                          /\ Progress(r.copy, CaseCount, o)
                          /\ r.copy.status = "passed" =>
                               \A c \in Cases : r.copy.cases[c] # "failed"
  /\ r.goal = "failcase" => r.copy.status # "passed"
  /\ r.goal \in {"failbatch", "failfinal", "abort"} => r.copy.status = "failed"

(* The result of the case under way. *)
Item(r, o) ==
  r.at \in {"answer", "record", "trace"} =>
    r.item \in {"passed", "failed"} /\ (r.item = "passed" => o[r.case] = "passed")

Owner(m, r, o) ==
  m \in Reports /\ r \in RunState /\ Shape(r) /\ Memory(m, r, o) /\ Copy(r, o) /\ Item(r, o)

(* Nothing of the batch runs any more that could change its row. *)
Settled(r) ==
  \/ r.at = "over"
  \/ r.goal = "abort"
  \/ r.at = "checkpoint" /\ r.phase = "write" /\ r.goal = "finish"

(* Only a running row is swapped; a passed one is the goroutine's last.     *)
RowInv ==
  /\ fresh # {} => row.status = "running"
  /\ run.at = "create" => row.status = "none"
  /\ row.status = "passed" => Settled(run)
  /\ run.at = "checkpoint" /\ run.phase = "write" /\ run.copy.status = "passed"
       => row.status = "passed"
  /\ mem.status = "passed" /\ run.goal # "abort" => row.status = "passed"

(* The row a reader has ended stays as it is, and no fence is passed any    *)
(* more: the only late write is the one whose fence was behind it.          *)
LateInv ==
  /\ interrupted => row.status = "failed"
  /\ late > 0 => interrupted /\ run.phase # "write"

BatchInv ==
  TypeOK /\ Owner(mem, run, outcome) /\ RowInv /\ PassedIsEarned /\ LateInv
-----------------------------------------------------------------------------
(* Reports and the states of the goroutine                                  *)

(* A report that a failure leaves behind is a report, failed unless there   *)
(* was none.                                                                *)
LEMMA FailureReport ==
  ASSUME NEW m \in Reports, m.status = "none" => m = NoReport
  PROVE  /\ persistenceFailureReport(m) \in Reports
         /\ persistenceFailureReport(m) = NoReport => m = NoReport
         /\ m = NoReport => persistenceFailureReport(m) = NoReport
         /\ persistenceFailureReport(m).status = IF m = NoReport THEN "none" ELSE "failed"
<1>1. NoReport \in Reports /\ NoReport.status = "none"
  BY DEF NoReport, Reports, Statuses
<1>2. CASE m = NoReport
  BY <1>1, <1>2 DEF persistenceFailureReport
<1>3. CASE m # NoReport
  <2>1. persistenceFailureReport(m) =
          [status |-> "failed",
           cases |-> [c \in Cases |-> IF m.cases[c] = "running" THEN "skipped" ELSE m.cases[c]]]
    BY <1>3 DEF persistenceFailureReport
  <2>2. [c \in Cases |-> IF m.cases[c] = "running" THEN "skipped" ELSE m.cases[c]]
          \in [Cases -> Statuses]
    BY DEF Reports, Statuses
  <2> QED
    BY <1>1, <1>3, <2>1, <2>2 DEF Reports
<1> QED
  BY <1>2, <1>3

(* The reports a batch starts with, and no report. *)
LEMMA FirstReports ==
  /\ NoReport \in Reports /\ NoReport.status = "none"
  /\ NewReport \in Reports /\ NewReport.status = "running"
  /\ \A c \in Cases : NewReport.cases[c] = "running"
  /\ \A o : Progress(NewReport, 0, o)
<1>1. NoReport \in Reports /\ NoReport.status = "none" /\ \A c \in Cases : NoReport.cases[c] = "running"
  BY DEF NoReport, Reports, Statuses
<1>2. /\ NewReport \in Reports /\ NewReport.status = "running" /\ NewReport.cases = NoReport.cases
  BY <1>1 DEF NewReport, Reports
<1>3. \A c \in Cases : ~(c <= 0)
  BY BatchAssumption DEF Cases
<1> QED
  BY <1>1, <1>2, <1>3 DEF Progress

(* A run that is over. *)
LEMMA OverOwner ==
  ASSUME NEW m \in Reports, NEW o, m.status = "none" => m = NoReport, m.status # "running"
  PROVE  Owner(m, Over, o) /\ Over.at = "over" /\ Over.phase = "fence" /\ Over.goal = "case"
<1>1. Over \in RunState
  BY BatchAssumption, FirstReports DEF Over, RunState, Steps, Cases, Goals
<1> QED
  BY <1>1 DEF Owner, Shape, Memory, Copy, Item, Over, CaseSteps, FinalSteps

(* A goal that is taken up with a report fit for it. *)
LEMMA PursueOwner ==
  ASSUME NEW m \in Reports, NEW o, m.status = "none" => m = NoReport,
         run \in RunState, NEW goal \in Goals \ {"case"}, NEW report \in Reports,
         report.status # "none",
         goal = "update" => report.status = "running" /\ Progress(report, run.case, o),
         goal = "finish" => /\ report.status \in {"passed", "failed"}
                            /\ Progress(report, CaseCount, o)
                            /\ report.status = "passed" =>
                                 \A c \in Cases : report.cases[c] # "failed",
         goal = "failcase" => report.status # "passed",
         goal \in {"failbatch", "failfinal", "abort"} => report.status = "failed"
  PROVE  /\ Owner(m, Pursue(goal, report), o)
         /\ Pursue(goal, report).at = "reports" /\ Pursue(goal, report).phase = "fence"
         /\ Pursue(goal, report).goal = goal
<1> DEFINE r == Pursue(goal, report)
<1>1. /\ r.at = "reports" /\ r.phase = "fence" /\ r.goal = goal /\ r.copy = report
      /\ r.item = "none" /\ r.case = run.case
  BY DEF Pursue, RunState
<1>2. r \in RunState
  BY DEF Pursue, RunState, Steps, FencedSteps
<1> HIDE DEF r
<1>3. Shape(r) /\ Item(r, o)
  BY <1>1 DEF Shape, Item, CaseSteps, FinalSteps
<1>4. Memory(m, r, o)
  BY <1>1 DEF Memory, CaseSteps
<1>5. Copy(r, o)
  BY <1>1 DEF Copy
<1>6. Owner(m, r, o)
  BY <1>2, <1>3, <1>4, <1>5 DEF Owner
<1> QED
  BY <1>1, <1>6 DEF r

(* A step to another place of the same case, or of the same goal. *)
LEMMA GoToOwner ==
  ASSUME Owner(mem, run, outcome), NEW step \in Steps,
         \/ /\ run.at \in CaseSteps \cup {"request"}
            /\ step \in CaseSteps \cup {"request"}
            /\ step \in {"answer", "record", "trace"} => run.at \in {"answer", "record", "trace"}
         \/ /\ run.at \in FinalSteps \cup {"reports"} /\ run.goal = "finish"
            /\ step \in FinalSteps \cup {"checkpoint"}
         \/ run.at = "reports" /\ run.goal # "abort" /\ step = "checkpoint",
         NEW m \in Reports, m.status = "none" => m = NoReport,
         m = mem \/ step = "checkpoint"
  PROVE  /\ Owner(m, GoTo(step), outcome)
         /\ GoTo(step).at = step /\ GoTo(step).phase = "fence" /\ GoTo(step).goal = run.goal
<1> DEFINE r == GoTo(step)
<1>1. /\ r.at = step /\ r.phase = "fence" /\ r.goal = run.goal /\ r.copy = run.copy
      /\ r.item = run.item /\ r.case = run.case
  BY DEF GoTo, RunState, Owner
<1>2. r \in RunState
  BY DEF GoTo, RunState, Owner
<1> HIDE DEF r
<1>3. Shape(r)
  BY <1>1 DEF Owner, Shape, CaseSteps, FinalSteps, RunState, Goals
<1>4. Item(r, outcome)
  BY <1>1 DEF Owner, Item, CaseSteps, FinalSteps
<1>5. Memory(m, r, outcome)
  BY <1>1 DEF Owner, Memory, CaseSteps, FinalSteps
<1>6. Copy(r, outcome)
  BY <1>1 DEF Owner, Copy
<1>7. Owner(m, r, outcome)
  BY <1>2, <1>3, <1>4, <1>5, <1>6 DEF Owner
<1> QED
  BY <1>1, <1>7 DEF r
-----------------------------------------------------------------------------
(* Failures                                                                 *)

(* A goal given up: there is nothing in memory, or a failed report that     *)
(* still has to be written.                                                 *)
LEMMA AbortOwner ==
  ASSUME NEW o, run \in RunState, mem' \in Reports, mem'.status = "none" => mem' = NoReport
  PROVE  /\ Owner(mem', Abort, o) /\ Abort.at \in {"over", "reports"} /\ Abort.phase = "fence"
         /\ mem' # NoReport => Abort.goal = "abort"
<1>1. CASE mem' = NoReport
  BY <1>1, OverOwner, FirstReports DEF Abort
<1>2. CASE mem' # NoReport
  <2>1. /\ persistenceFailureReport(mem') \in Reports
        /\ persistenceFailureReport(mem').status = "failed"
    BY <1>2, FailureReport
  <2>2. "abort" \in Goals \ {"case"}
    BY DEF Goals
  <2> QED
    BY <1>2, <2>1, <2>2, PursueOwner DEF Abort
<1> QED
  BY <1>1, <1>2

(* A case whose result could not be stored. *)
LEMMA FailCaseOwner ==
  ASSUME NEW o, run \in RunState, mem' \in Reports, mem'.status = "none" => mem' = NoReport,
         mem'.status # "passed"
  PROVE  /\ Owner(mem', Update("failcase", "failed"), o)
         /\ Update("failcase", "failed").at \in {"over", "reports"}
         /\ Update("failcase", "failed").phase = "fence"
<1> DEFINE new == [mem' EXCEPT !.cases[run.case] = "failed"]
<1>1. CASE mem' = NoReport
  BY <1>1, OverOwner, FirstReports DEF Update
<1>2. CASE mem' # NoReport
  <2>1. new \in Reports /\ new.status = mem'.status
    BY DEF Reports, Statuses, RunState
  <2> HIDE DEF new
  <2>2. "failcase" \in Goals \ {"case"}
    BY DEF Goals
  <2>3. /\ Owner(mem', Pursue("failcase", new), o)
        /\ Pursue("failcase", new).at = "reports" /\ Pursue("failcase", new).phase = "fence"
    BY <1>2, <2>1, <2>2, PursueOwner
  <2> QED
    BY <1>2, <2>3 DEF Update, new
<1> QED
  BY <1>1, <1>2

(* The batch that cannot be finished. *)
LEMMA FailFinalOwner ==
  ASSUME NEW m \in Reports, NEW o, m.status = "none" => m = NoReport, run \in RunState
  PROVE  /\ Owner(m, FailFinal, o) /\ FailFinal.at = "reports" /\ FailFinal.phase = "fence"
<1> DEFINE new == [run.copy EXCEPT !.status = "failed"]
<1>1. new \in Reports /\ new.status = "failed"
  BY DEF Reports, RunState
<1> HIDE DEF new
<1>2. "failfinal" \in Goals \ {"case"}
  BY DEF Goals
<1>3. Owner(m, Pursue("failfinal", new), o) /\ Pursue("failfinal", new).at = "reports"
      /\ Pursue("failfinal", new).phase = "fence"
  BY <1>1, <1>2, PursueOwner
<1> QED
  BY <1>3 DEF FailFinal, new

(* What is left in memory by a failure shows neither a running batch nor a  *)
(* passed one.                                                              *)
LEMMA MarkedReport ==
  ASSUME Owner(mem, run, outcome), MarkFailure
  PROVE  /\ mem' \in Reports /\ (mem'.status = "none" => mem' = NoReport)
         /\ mem'.status \in {"none", "failed"}
BY FailureReport, FirstReports DEF Owner, Memory, MarkFailure

(* A fence that fails leaves the goroutine in a state of its own, on no way *)
(* to a write, and nothing in memory that passed unless it aborts.          *)
LEMMA FenceTroubleOwner ==
  ASSUME Owner(mem, run, outcome), run.at \in FencedSteps, FenceTrouble
  PROVE  /\ Owner(mem', run', outcome)
         /\ run'.at \in {"over", "reports", "checkpoint"} /\ run'.phase = "fence"
         /\ mem'.status = "passed" => run'.goal = "abort"
         /\ run.goal = "abort" => run'.at = "over"
<1>1. /\ run \in RunState /\ mem \in Reports /\ run.copy \in Reports
      /\ Over.at = "over" /\ Over.phase = "fence"
  BY DEF Owner, RunState, Over
<1>2. CASE /\ run.at \notin {"answer", "record", "parent"} /\ run.goal # "abort"
           /\ MarkFailure
           /\ run' = Over
  BY <1>1, <1>2, MarkedReport, OverOwner
<1>3. CASE /\ run.at \in {"open", "mfail", "answer", "record"}
           /\ MarkFailure
           /\ run' = Update("failcase", "failed")
  <2>1. run.goal = "case"
    BY <1>3 DEF Owner, Shape, CaseSteps
  <2> QED
    BY <1>1, <1>3, <2>1, MarkedReport, FailCaseOwner
<1>4. CASE /\ run.at = "reports" /\ run.goal \in {"update", "failcase", "finish"}
           /\ mem' = run.copy
           /\ run' = Abort
  <2>1. mem' \in Reports /\ mem'.status # "none" /\ mem' # NoReport
    BY <1>1, <1>4, FirstReports DEF Owner, Copy
  <2> QED
    BY <1>1, <1>4, <2>1, AbortOwner
<1>5. CASE /\ run.at = "reports" /\ run.goal \in {"failbatch", "failfinal"}
           /\ MarkFailure
           /\ run' = GoTo("checkpoint")
  <2>1. "checkpoint" \in Steps
    BY DEF Steps
  <2> QED
    BY <1>5, <2>1, MarkedReport, GoToOwner
<1>6. CASE /\ run.at = "reports" /\ run.goal = "abort"
           /\ mem' = run.copy
           /\ run' = Over
  <2>1. mem' \in Reports /\ mem'.status = "failed"
    BY <1>1, <1>6 DEF Owner, Copy
  <2> QED
    BY <1>1, <1>6, <2>1, OverOwner
<1>7. CASE /\ run.at \in FinalSteps
           /\ MarkFailure
           /\ run' = FailFinal
  <2>1. run.goal = "finish"
    BY <1>7 DEF Owner, Shape
  <2> QED
    BY <1>1, <1>7, <2>1, MarkedReport, FailFinalOwner
<1> QED
  BY <1>2, <1>3, <1>4, <1>5, <1>6, <1>7 DEF FenceTrouble

(* So does a checkpoint that fails. *)
LEMMA CheckpointTroubleOwner ==
  ASSUME Owner(mem, run, outcome), run.at = "checkpoint", CheckpointTrouble
  PROVE  /\ Owner(mem', run', outcome)
         /\ run'.at \in {"over", "reports"} /\ run'.phase = "fence"
         /\ mem'.status = "passed" => run'.goal = "abort"
         /\ run'.at = "over" \/ run'.goal = "abort"
<1>1. /\ run \in RunState /\ mem \in Reports /\ run.copy \in Reports
      /\ Over.at = "over" /\ Over.phase = "fence"
  BY DEF Owner, RunState, Over
<1>2. CASE /\ run.goal \in {"update", "failcase"}
           /\ mem' = run.copy
           /\ run' = Abort
  <2>1. mem' \in Reports /\ mem'.status # "none" /\ mem' # NoReport
    BY <1>1, <1>2, FirstReports DEF Owner, Copy
  <2> QED
    BY <1>1, <1>2, <2>1, AbortOwner
<1>3. CASE /\ run.goal = "finish"
           /\ mem' = mem
           /\ run' = Abort
  <2>1. mem'.status = "none" => mem' = NoReport
    BY <1>3 DEF Owner, Memory
  <2>2. CASE mem' = NoReport
    BY <1>1, <1>3, <2>1, <2>2, AbortOwner, FirstReports DEF Abort
  <2> QED
    BY <1>1, <1>3, <2>1, <2>2, AbortOwner
<1>4. CASE /\ run.goal \in {"failbatch", "failfinal"}
           /\ mem' = run.copy
           /\ run' = Over
  <2>1. mem' \in Reports /\ mem'.status = "failed"
    BY <1>1, <1>4 DEF Owner, Copy
  <2> QED
    BY <1>1, <1>4, <2>1, OverOwner
<1> QED
  BY <1>2, <1>3, <1>4 DEF CheckpointTrouble
-----------------------------------------------------------------------------
(* The steps of the goroutine                                               *)

(* Nothing was swapped that is not running, as to who has read the row. *)
LEMMA FreshTyped ==
  ASSUME BatchInv, NEW actor \in {"run", "beat"} \cup Readers, row.status = "running"
  PROVE  fresh \cup {actor} \subseteq {"run", "beat"} \cup Readers
BY DEF BatchInv, TypeOK

(* A step of the goroutine that keeps the stored status keeps the           *)
(* invariant, if it leaves a passed row to a goroutine that is settled,     *)
(* passes a fence only before a running row, and writes only behind one.    *)
LEMMA OwnerStep ==
  ASSUME BatchInv, Owner(mem', run', outcome'),
         row' \in RowState, row'.status = row.status, row'.cases = row.cases,
         fresh' \subseteq {"run", "beat"} \cup Readers, fresh' # {} => row.status = "running",
         run'.at # "create",
         row.status = "passed" => outcome' = outcome /\ Settled(run'),
         run'.phase = "write" => row.status = "running" /\ run'.at # "checkpoint",
         mem'.status = "passed" /\ run'.goal # "abort" => row.status = "passed",
         late' = late \/ (Wrote /\ run.phase = "write" /\ run'.phase # "write"),
         beat' \in {"off", "idle", "swap", "failing", "removed"}, cancelled' \in BOOLEAN,
         outcome' \in [Cases -> {"none", "passed", "failed"}],
         UNCHANGED <<reader, publisher, interrupted>>,
         env' \in [acceptance : BOOLEAN, recorded : BOOLEAN, passed : BOOLEAN, verified : BOOLEAN]
  PROVE  BatchInv'
<1>1. late' \in 0..2 /\ (late' > 0 => interrupted' /\ run'.phase # "write")
  <2>1. late \in 0..2 /\ (late > 0 => interrupted /\ run.phase # "write")
    BY DEF BatchInv, TypeOK, LateInv
  <2>2. CASE late' = late
    BY <2>1, <2>2 DEF BatchInv, LateInv
  <2>3. CASE Wrote /\ run.phase = "write" /\ run'.phase # "write"
    BY <2>1, <2>3 DEF Wrote
  <2> QED
    BY <2>2, <2>3
<1>2. TypeOK'
  BY <1>1 DEF BatchInv, TypeOK, Owner, RowState, RunState, Steps
<1>3. PassedIsEarned'
  BY DEF BatchInv, PassedIsEarned
<1>4. RowInv'
  BY DEF BatchInv, RowInv
<1>5. LateInv'
  BY <1>1 DEF BatchInv, LateInv
<1> QED
  BY <1>2, <1>3, <1>4, <1>5 DEF BatchInv

(* What the goroutine finds when it goes on with a case or ends the batch:  *)
(* the batch is not stored as passed.                                       *)
LEMMA Unsettled ==
  ASSUME BatchInv, run.at # "over", run.goal # "abort",
         ~(run.at = "checkpoint" /\ run.phase = "write" /\ run.goal = "finish")
  PROVE  row.status # "passed" /\ mem.status # "passed"
BY DEF BatchInv, RowInv, Settled

(* The variables by their types. *)
LEMMA Typed ==
  ASSUME BatchInv
  PROVE  /\ row \in RowState /\ run \in RunState /\ mem \in Reports
         /\ fresh \subseteq {"run", "beat"} \cup Readers
         /\ beat \in {"off", "idle", "swap", "failing", "removed"} /\ cancelled \in BOOLEAN
         /\ outcome \in [Cases -> {"none", "passed", "failed"}]
         /\ env \in [acceptance : BOOLEAN, recorded : BOOLEAN, passed : BOOLEAN, verified : BOOLEAN]
         /\ mem.status = "none" => mem = NoReport
         /\ cancelled' = (cancelled \/ run'.at = "over") => cancelled' \in BOOLEAN
         /\ fresh # {} => row.status = "running"
BY DEF BatchInv, TypeOK, Owner, RowState, RunState, Steps, Memory, RowInv

(* The row is created, or the request ends with an error. *)
LEMMA CreateKeeps ==
  ASSUME BatchInv, CreateRun
  PROVE  BatchInv'
<1>1. /\ run.at = "create" /\ row.status = "none" /\ mem = NoReport /\ run.case = 1
      /\ run.phase = "fence" /\ run.goal = "case" /\ fresh = {} /\ ~interrupted /\ late = 0
  BY DEF CreateRun, BatchInv, RowInv, Owner, Memory, Shape, CaseSteps, LateInv, TypeOK
<1>2. row' \in RowState /\ row'.status \in {"none", "running"}
  <2>1. NewReport.cases \in [Cases -> Statuses]
    BY FirstReports DEF Reports
  <2>2. [status |-> "running", cases |-> NewReport.cases, live |-> TRUE] \in RowState
    BY <2>1 DEF RowState
  <2>3. \/ row' = [status |-> "running", cases |-> NewReport.cases, live |-> TRUE]
        \/ row' = row
    BY DEF CreateRun
  <2>4. row \in RowState
    BY Typed
  <2>5. CASE row' = [status |-> "running", cases |-> NewReport.cases, live |-> TRUE]
    BY <2>2, <2>5
  <2>6. CASE row' = row
    BY <1>1, <2>4, <2>6
  <2> QED
    BY <2>3, <2>5, <2>6
<1>3. Owner(mem, Over, outcome) /\ Over.at = "over" /\ Over.phase = "fence"
  BY <1>1, OverOwner, FirstReports
<1>4. /\ [run EXCEPT !.at = "launch"] \in RunState
      /\ Owner(mem, [run EXCEPT !.at = "launch"], outcome)
  <2> DEFINE r == [run EXCEPT !.at = "launch"]
  <2>1. /\ r \in RunState /\ r.at = "launch" /\ r.phase = "fence" /\ r.goal = "case" /\ r.case = 1
    BY <1>1, Typed DEF RunState, Steps
  <2> HIDE DEF r
  <2>2. Owner(mem, r, outcome)
    BY <1>1, <2>1, Typed, FirstReports
       DEF Owner, Shape, Memory, Copy, Item, CaseSteps, FinalSteps
  <2> QED
    BY <2>1, <2>2 DEF r
<1>5. Owner(mem', run', outcome') /\ run'.at # "create" /\ run'.at # "checkpoint"
  <2>1. [run EXCEPT !.at = "launch"].at = "launch"
    BY Typed DEF RunState
  <2> QED
    BY <1>3, <1>4, <2>1 DEF CreateRun, ghosts
<1>6. TypeOK'
  BY <1>2, <1>5 DEF BatchInv, TypeOK, CreateRun, Owner, RowState, RunState, Steps, others, ghosts
<1>7. mem'.status = "none" /\ fresh' = {} /\ ~interrupted' /\ late' = 0
  BY <1>1, FirstReports DEF CreateRun, ghosts
<1>8. RowInv' /\ LateInv' /\ PassedIsEarned'
  BY <1>2, <1>5, <1>7 DEF RowInv, LateInv, PassedIsEarned
<1> QED
  BY <1>5, <1>6, <1>8 DEF BatchInv

(* The owner's report is in memory before its goroutines start. *)
LEMMA LaunchKeeps ==
  ASSUME BatchInv, launchAPICaseBatchRun
  PROVE  BatchInv'
<1> DEFINE r == [run EXCEPT !.at = "materialize"]
<1>1. /\ run.at = "launch" /\ run.case = 1 /\ run.phase = "fence" /\ run.goal = "case"
      /\ row.status # "passed"
  BY Unsettled DEF launchAPICaseBatchRun, BatchInv, Owner, Memory, Shape
<1>2. /\ r \in RunState /\ r.at = "materialize" /\ r.phase = "fence" /\ r.goal = "case"
      /\ r.case = 1 /\ r = run'
  BY <1>1, Typed DEF RunState, Steps, FencedSteps, CaseSteps, launchAPICaseBatchRun
<1> HIDE DEF r
<1>3. Owner(NewReport, r, outcome)
  BY <1>2, FirstReports DEF Owner, Shape, Memory, Copy, Item, FinalSteps, CaseSteps
<1>4. /\ Owner(mem', run', outcome') /\ run'.at = "materialize" /\ run'.phase = "fence"
      /\ mem'.status = "running"
  BY <1>2, <1>3, FirstReports DEF launchAPICaseBatchRun, ghosts
<1> QED
  BY <1>1, <1>4, Typed, OwnerStep DEF launchAPICaseBatchRun, others, ghosts

(* A fence is read: the row is running, the lease is lost, or it fails. *)
LEMMA FenceReadsKeeps ==
  ASSUME BatchInv, FenceReads
  PROVE  BatchInv'
<1>1. run.at \in FencedSteps /\ run.phase = "fence" /\ Owner(mem, run, outcome)
  BY DEF FenceReads, BatchInv
<1>2. CASE Lost /\ fresh' = fresh
  <2>1. Owner(mem', run', outcome') /\ run'.at = "over" /\ run'.phase = "fence" /\ mem'.status = "none"
    BY <1>2, OverOwner, FirstReports DEF Lost, FenceReads, ghosts
  <2> QED
    BY <1>2, <2>1, Typed, OwnerStep DEF FenceReads, EndOrGoOn, Settled, others, ghosts
<1>3. CASE /\ row.status = "running" /\ run' = [run EXCEPT !.phase = "swap"]
           /\ fresh' = fresh \cup {"run"} /\ mem' = mem
  <2> DEFINE r == [run EXCEPT !.phase = "swap"]
  <2>1. /\ r \in RunState /\ r.at = run.at /\ r.phase = "swap" /\ r.goal = run.goal
        /\ r.case = run.case /\ r.item = run.item /\ r.copy = run.copy
    BY <1>1, Typed DEF RunState
  <2> HIDE DEF r
  <2>2. Owner(mem, r, outcome) /\ r.at # "create"
    BY <1>1, <2>1 DEF Owner, Shape, Memory, Copy, Item, FencedSteps, CaseSteps, FinalSteps
  <2>3. /\ Owner(mem', run', outcome') /\ run'.at # "create" /\ run'.phase = "swap"
        /\ run'.goal = run.goal
    BY <1>3, <2>1, <2>2 DEF r, FenceReads, ghosts
  <2>4. mem.status = "passed" => run.goal = "abort"
    BY <1>3 DEF BatchInv, RowInv
  <2>5. fresh' \subseteq {"run", "beat"} \cup Readers
    BY <1>3, FreshTyped
  <2> QED
    BY <1>3, <2>3, <2>4, <2>5, Typed, OwnerStep DEF FenceReads, EndOrGoOn, others, ghosts
<1>4. CASE FenceTrouble /\ fresh' = fresh
  <2>1. /\ Owner(mem', run', outcome') /\ run'.at \in {"over", "reports", "checkpoint"}
        /\ run'.phase = "fence" /\ (mem'.status = "passed" => run'.goal = "abort")
        /\ (run.goal = "abort" => run'.at = "over")
    BY <1>1, <1>4, FenceTroubleOwner DEF FenceReads, ghosts
  <2>2. row.status = "passed" => Settled(run')
    BY <1>1, <2>1, Unsettled DEF Settled, FencedSteps, CaseSteps, FinalSteps
  <2> QED
    BY <1>4, <2>1, <2>2, Typed, OwnerStep DEF FenceReads, EndOrGoOn, others, ghosts
<1> QED
  BY <1>2, <1>3, <1>4 DEF FenceReads

(* The swap of a fence renews the lease of a running row, and no more. *)
LEMMA FenceSwapsKeeps ==
  ASSUME BatchInv, FenceSwaps
  PROVE  BatchInv'
<1>1. run.at \in FencedSteps /\ run.phase = "swap" /\ Owner(mem, run, outcome)
  BY DEF FenceSwaps, BatchInv
<1>2. /\ row' \in RowState /\ row'.status = row.status /\ row'.cases = row.cases
      /\ fresh' \subseteq fresh
  BY Typed DEF FenceSwaps, Swap, Renewed, RowState
<1>3. CASE Swap("run", Renewed) /\ run' = [run EXCEPT !.phase = "write"] /\ mem' = mem
  <2> DEFINE r == [run EXCEPT !.phase = "write"]
  <2>1. /\ r \in RunState /\ r.at = run.at /\ r.phase = "write" /\ r.goal = run.goal
        /\ r.case = run.case /\ r.item = run.item /\ r.copy = run.copy
    BY <1>1, Typed DEF RunState
  <2> HIDE DEF r
  <2>2. Owner(mem, r, outcome) /\ r.at # "create" /\ r.at # "checkpoint"
    BY <1>1, <2>1 DEF Owner, Shape, Memory, Copy, Item, FencedSteps, CaseSteps, FinalSteps
  <2>3. /\ Owner(mem', run', outcome') /\ run'.at # "create" /\ run'.at # "checkpoint"
        /\ run'.goal = run.goal
    BY <1>3, <2>1, <2>2 DEF r, FenceSwaps, ghosts
  <2>4. row.status = "running"
    BY <1>3 DEF Swap, BatchInv, RowInv
  <2>5. mem.status = "passed" => run.goal = "abort"
    BY <2>4 DEF BatchInv, RowInv
  <2> QED
    BY <1>2, <1>3, <2>3, <2>4, <2>5, Typed, OwnerStep DEF FenceSwaps, EndOrGoOn, others, ghosts
<1>4. CASE FenceTrouble
  <2>1. /\ Owner(mem', run', outcome') /\ run'.at \in {"over", "reports", "checkpoint"}
        /\ run'.phase = "fence" /\ (mem'.status = "passed" => run'.goal = "abort")
        /\ (run.goal = "abort" => run'.at = "over")
    BY <1>1, <1>4, FenceTroubleOwner DEF FenceSwaps, ghosts
  <2>2. row.status = "passed" => Settled(run')
    BY <1>1, <2>1, Unsettled DEF Settled, FencedSteps, CaseSteps, FinalSteps
  <2> QED
    BY <1>2, <2>1, <2>2, Typed, OwnerStep DEF FenceSwaps, EndOrGoOn, others, ghosts
<1>5. CASE Lost
  <2>1. Owner(mem', run', outcome') /\ run'.at = "over" /\ run'.phase = "fence" /\ mem'.status = "none"
    BY <1>5, OverOwner, FirstReports DEF Lost, FenceSwaps, ghosts
  <2> QED
    BY <1>2, <2>1, Typed, OwnerStep DEF FenceSwaps, EndOrGoOn, Settled, others, ghosts
<1> QED
  BY <1>3, <1>4, <1>5 DEF FenceSwaps
-----------------------------------------------------------------------------
(* The writes behind the fences                                             *)

(* A write behind a fence leaves the row and the other goroutine alone, so  *)
(* it keeps the invariant when it leaves the goroutine in a good state.     *)
LEMMA WriteKeeps ==
  ASSUME BatchInv, Owner(mem', run', outcome'),
         run.phase = "write" \/ late' = late, row.status # "passed",
         late' = late \/ Wrote,
         run'.at \notin {"create"}, run'.phase = "fence",
         mem'.status = "passed" => run'.goal = "abort",
         cancelled' = cancelled \/ EndOrGoOn,
         env' \in [acceptance : BOOLEAN, recorded : BOOLEAN, passed : BOOLEAN, verified : BOOLEAN],
         outcome' \in [Cases -> {"none", "passed", "failed"}],
         UNCHANGED <<row, fresh, beat, reader, publisher, interrupted>>
  PROVE  BatchInv'
BY Typed, OwnerStep DEF EndOrGoOn

(* The steps of a case keep its results so far. *)
LEMMA CaseMoves ==
  ASSUME BatchInv, run.at \in CaseSteps \cup {"request"}, NEW step \in CaseSteps \cup {"request"},
         step \in {"answer", "record", "trace"} => run.at \in {"answer", "record", "trace"}
  PROVE  /\ Owner(mem, GoTo(step), outcome) /\ GoTo(step).phase = "fence"
         /\ GoTo(step).at = step
         /\ row.status # "passed" /\ mem.status # "passed"
<1>1. Owner(mem, run, outcome) /\ step \in Steps
  BY DEF BatchInv, Steps, FencedSteps
<1>2. mem.status = "none" => mem = NoReport
  BY Typed
<1>3. row.status # "passed" /\ mem.status # "passed"
  BY <1>1, Unsettled DEF CaseSteps, Owner, Shape
<1> QED
  BY <1>1, <1>2, <1>3, GoToOwner, Typed

(* A case that has its result is stored with it. *)
LEMMA UpdateOwner ==
  ASSUME BatchInv, run.at \in CaseSteps, NEW item \in {"passed", "failed"},
         item = "passed" => outcome[run.case] = "passed", mem' = mem
  PROVE  /\ Owner(mem', Update("update", item), outcome)
         /\ Update("update", item).at \in {"over", "reports"}
         /\ Update("update", item).phase = "fence"
<1> DEFINE new == [mem' EXCEPT !.cases[run.case] = item]
<1>1. CASE mem' = NoReport
  BY <1>1, OverOwner, FirstReports DEF Update
<1>2. CASE mem' # NoReport
  <2>1. /\ mem \in Reports /\ mem.status = "running" /\ Progress(mem, run.case - 1, outcome)
        /\ run.case \in Cases
    BY <1>2, Typed DEF BatchInv, Owner, Memory, RunState
  <2>2. /\ new \in Reports /\ new.status = "running" /\ new.cases[run.case] = item
        /\ \A c \in Cases : c # run.case => new.cases[c] = mem.cases[c]
    BY <2>1 DEF Reports, Statuses
  <2> HIDE DEF new
  <2>3. Progress(new, run.case, outcome)
    <3>1. \A c \in Cases : c <= run.case <=> (c = run.case \/ c <= run.case - 1)
      BY <2>1 DEF Cases
    <3> QED
      BY <2>1, <2>2, <3>1 DEF Progress
  <2>4. "update" \in Goals \ {"case"}
    BY DEF Goals
  <2>5. /\ Owner(mem', Pursue("update", new), outcome)
        /\ Pursue("update", new).at = "reports" /\ Pursue("update", new).phase = "fence"
    BY <2>1, <2>2, <2>3, <2>4, PursueOwner, Typed
  <2> QED
    BY <1>2, <2>5 DEF Update, new
<1> QED
  BY <1>1, <1>2

(* Evidence that could not be written fails the case. *)
LEMMA FailCasePersistenceKeeps ==
  ASSUME BatchInv, failCasePersistence
  PROVE  BatchInv'
<1>1. run.at \in CaseSteps /\ run.phase = "write" /\ mem' = mem
  BY DEF failCasePersistence, Writes, CaseSteps
<1>2. row.status # "passed" /\ mem.status # "passed"
  BY <1>1, CaseMoves
<1>3. Owner(mem', run', outcome') /\ run'.at \in {"over", "reports"} /\ run'.phase = "fence"
  BY <1>1, <1>2, FailCaseOwner, Typed DEF failCasePersistence
<1> QED
  BY <1>1, <1>2, <1>3, WriteKeeps, Typed DEF failCasePersistence, others

(* The steps of a case that only go on to the next one. *)
LEMMA CaseGoesOn ==
  ASSUME BatchInv, Materialize \/ OpenEvidence \/ AnswerEvidence
  PROVE  BatchInv'
<1>1. PICK step \in CaseSteps \cup {"request"} :
        /\ run' = GoTo(step)
        /\ step \in {"answer", "record", "trace"} => run.at \in {"answer", "record", "trace"}
  BY DEF Materialize, OpenEvidence, AnswerEvidence, Writes, CaseSteps
<1>2. run.at \in CaseSteps /\ run.phase = "write" /\ mem' = mem /\ outcome' = outcome
  BY DEF Materialize, OpenEvidence, AnswerEvidence, Writes, CaseSteps
<1>3. /\ Owner(mem', run', outcome') /\ run'.phase = "fence" /\ run'.at # "create"
      /\ row.status # "passed" /\ mem'.status # "passed"
  BY <1>1, <1>2, CaseMoves DEF CaseSteps
<1> QED
  BY <1>2, <1>3, WriteKeeps, Typed DEF Materialize, OpenEvidence, AnswerEvidence, others

(* A case that cannot be built is stored as failed. *)
LEMMA MaterializationFailureKeeps ==
  ASSUME BatchInv, recordMaterializationFailure
  PROVE  BatchInv'
<1>1. run.at \in CaseSteps /\ run.phase = "write" /\ mem' = mem /\ outcome' = outcome
  BY DEF recordMaterializationFailure, Writes, CaseSteps
<1>2. row.status # "passed" /\ mem.status # "passed"
  BY <1>1, CaseMoves
<1>3. Owner(mem', run', outcome') /\ run'.at \in {"over", "reports"} /\ run'.phase = "fence"
  BY <1>1, UpdateOwner DEF recordMaterializationFailure
<1> QED
  BY <1>1, <1>2, <1>3, WriteKeeps, Typed DEF recordMaterializationFailure, others

(* The request is sent: its result is the item of the case. *)
LEMMA RequestKeeps ==
  ASSUME BatchInv, executeHTTP
  PROVE  BatchInv'
<1>1. PICK result \in {"passed", "failed"} :
        /\ outcome' = [outcome EXCEPT ![run.case] = result]
        /\ run' = [GoTo("answer") EXCEPT !.item = result]
  BY DEF executeHTTP
<1>2. /\ run.at = "request" /\ run.goal = "case" /\ run \in RunState /\ mem' = mem
      /\ mem \in Reports /\ (mem.status = "none" => mem = NoReport) /\ late' = late
      /\ Memory(mem, run, outcome)
  BY Typed DEF executeHTTP, BatchInv, Owner, Shape
<1>3. row.status # "passed" /\ mem.status # "passed"
  BY <1>2, CaseMoves DEF CaseSteps
<1>4. /\ outcome' \in [Cases -> {"none", "passed", "failed"}] /\ outcome'[run.case] = result
      /\ \A c \in Cases : c # run.case => outcome'[c] = outcome[c]
  BY <1>1, <1>2, Typed DEF RunState
<1>5. /\ run' \in RunState /\ run'.at = "answer" /\ run'.phase = "fence" /\ run'.goal = "case"
      /\ run'.item = result /\ run'.case = run.case
  BY <1>1, <1>2 DEF GoTo, RunState, Steps, FencedSteps, CaseSteps
<1>6. mem # NoReport => mem.status = "running" /\ Progress(mem, run.case - 1, outcome')
  <2> SUFFICES ASSUME mem # NoReport
               PROVE  mem.status = "running" /\ Progress(mem, run.case - 1, outcome')
    OBVIOUS
  <2>1. mem.status = "running" /\ Progress(mem, run.case - 1, outcome)
    BY <1>2 DEF Memory
  <2>2. \A c \in Cases : c <= run.case - 1 => c # run.case
    BY <1>2 DEF Cases, RunState
  <2> QED
    BY <1>4, <2>1, <2>2 DEF Progress
<1>7. Owner(mem', run', outcome')
  BY <1>2, <1>4, <1>5, <1>6 DEF Owner, Shape, Memory, Copy, Item, CaseSteps, FinalSteps
<1> QED
  BY <1>2, <1>3, <1>4, <1>5, <1>7, WriteKeeps, Typed DEF executeHTTP, others

(* The record of the case, and its trace. *)
LEMMA RecordKeeps ==
  ASSUME BatchInv, RecordCaseRun \/ collectAPICaseBatchTraceTopology
  PROVE  BatchInv'
<1>1. /\ run.at \in {"record", "trace"} /\ run.phase = "write" /\ mem' = mem
      /\ outcome' = outcome /\ run.at \in CaseSteps
      /\ run' = GoTo("trace") \/ run' = Update("update", run.item)
  BY DEF RecordCaseRun, collectAPICaseBatchTraceTopology, Writes, CaseSteps
<1>2. row.status # "passed" /\ mem.status # "passed"
  BY <1>1, CaseMoves
<1>3. /\ run.item \in {"passed", "failed"}
      /\ run.item = "passed" => outcome[run.case] = "passed"
  BY <1>1 DEF BatchInv, Owner, Item
<1>4. "trace" \in CaseSteps
  BY DEF CaseSteps
<1>5. Owner(mem', run', outcome') /\ run'.at \in {"over", "reports", "trace"} /\ run'.phase = "fence"
  BY <1>1, <1>3, <1>4, UpdateOwner, CaseMoves
<1> QED
  BY <1>1, <1>2, <1>5, WriteKeeps, Typed DEF RecordCaseRun, collectAPICaseBatchTraceTopology, others
-----------------------------------------------------------------------------
(* Reports and the end of the batch                                         *)

(* The report files of every goal. *)
LEMMA WriteReportsKeeps ==
  ASSUME BatchInv, writeReports
  PROVE  BatchInv'
<1>1. /\ run.at = "reports" /\ run.phase = "write" /\ Owner(mem, run, outcome)
      /\ outcome' = outcome /\ run \in RunState /\ run.copy \in Reports /\ run.goal # "case"
      /\ (mem.status = "none" => mem = NoReport)
  BY Typed DEF writeReports, Writes, BatchInv, RunState, Owner, Shape
<1>2. /\ Owner(mem', run', outcome') /\ run'.at # "create" /\ run'.phase = "fence"
      /\ mem'.status = "passed" => run'.goal = "abort" \/ (mem' = mem /\ run'.goal = run.goal)
      /\ run.goal = "abort" => run'.at = "over"
  <2>1. CASE run.goal = "finish" /\ run' = GoTo("artifacts") /\ mem' = mem
    <3>1. "artifacts" \in Steps /\ "artifacts" \in FinalSteps
      BY DEF Steps, FencedSteps, FinalSteps
    <3> QED
      BY <1>1, <2>1, <3>1, GoToOwner, Typed
  <2>2. CASE run.goal = "abort" /\ run' = Over /\ mem' = run.copy
    <3>1. mem' \in Reports /\ mem'.status = "failed"
      BY <1>1, <2>2 DEF Owner, Copy
    <3> QED
      BY <1>1, <2>2, <3>1, OverOwner
  <2>3. CASE run.goal \notin {"finish", "abort"} /\ run' = GoTo("checkpoint") /\ mem' = mem
    <3>1. "checkpoint" \in Steps
      BY DEF Steps
    <3> QED
      BY <1>1, <2>3, <3>1, GoToOwner, Typed
  <2>4. CASE run.goal \in {"update", "failcase", "finish"} /\ mem' = run.copy /\ run' = Abort
    <3>1. mem' \in Reports /\ mem'.status # "none" /\ mem' # NoReport
      BY <1>1, <2>4, FirstReports DEF Owner, Copy
    <3> QED
      BY <1>1, <2>4, <3>1, AbortOwner
  <2> QED
    BY <2>1, <2>2, <2>3, <2>4 DEF writeReports
<1>3. row.status = "passed" => Settled(run')
  BY <1>1, <1>2, Unsettled DEF Settled
<1>4. mem'.status = "passed" /\ run'.goal # "abort" => row.status = "passed"
  BY <1>2 DEF BatchInv, RowInv
<1> QED
  BY <1>1, <1>2, <1>3, <1>4, Typed, OwnerStep DEF writeReports, EndOrGoOn, others

(* The last writes of the batch, and the record in its environment. *)
LEMMA FinalKeeps ==
  ASSUME BatchInv, FinalWrite \/ finalizeEnvironmentAcceptanceRun
  PROVE  BatchInv'
<1>1. /\ run.at \in FinalSteps /\ run.phase = "write" /\ Owner(mem, run, outcome)
      /\ outcome' = outcome /\ run \in RunState /\ run.goal = "finish" /\ mem' = mem
      /\ (mem.status = "none" => mem = NoReport)
  BY Typed DEF FinalWrite, finalizeEnvironmentAcceptanceRun, Writes, BatchInv, Owner, Shape,
     FinalSteps
<1>2. /\ run' = FailFinal \/ (\E s \in FinalSteps \cup {"checkpoint"} : run' = GoTo(s))
  BY DEF FinalWrite, finalizeEnvironmentAcceptanceRun, AfterArtifacts, FinalSteps
<1>3. row.status # "passed" /\ mem.status # "passed"
  BY <1>1, Unsettled DEF FinalSteps
<1>4. Owner(mem', run', outcome') /\ run'.at # "create" /\ run'.phase = "fence"
  <2>1. CASE run' = FailFinal
    BY <1>1, <2>1, FailFinalOwner, Typed
  <2>2. ASSUME NEW s \in FinalSteps \cup {"checkpoint"}, run' = GoTo(s)
        PROVE  Owner(mem', run', outcome') /\ run'.at # "create" /\ run'.phase = "fence"
    <3>1. s \in Steps /\ s # "create"
      BY DEF Steps, FencedSteps, FinalSteps
    <3> QED
      BY <1>1, <2>2, <3>1, GoToOwner, Typed
  <2> QED
    BY <1>2, <2>1, <2>2
<1>5. env' \in [acceptance : BOOLEAN, recorded : BOOLEAN, passed : BOOLEAN, verified : BOOLEAN]
  BY Typed DEF FinalWrite, finalizeEnvironmentAcceptanceRun, Recorded, others
<1>6. late' = late \/ Wrote
  BY DEF FinalWrite, finalizeEnvironmentAcceptanceRun
<1> QED
  BY <1>1, <1>3, <1>4, <1>5, <1>6, WriteKeeps, Typed
     DEF FinalWrite, finalizeEnvironmentAcceptanceRun, others

(* A checkpoint is read like a fence, without asking the memory. *)
LEMMA CheckpointReadsKeeps ==
  ASSUME BatchInv, CheckpointReads
  PROVE  BatchInv'
<1>1. run.at = "checkpoint" /\ run.phase = "fence" /\ Owner(mem, run, outcome) /\ outcome' = outcome
  BY DEF CheckpointReads, BatchInv, ghosts
<1>2. row.status # "passed" /\ mem.status # "passed"
  BY <1>1, Unsettled DEF Owner, Shape
<1>3. CASE Lost /\ fresh' = fresh
  <2>1. Owner(mem', run', outcome') /\ run'.at = "over" /\ run'.phase = "fence" /\ mem'.status = "none"
    BY <1>1, <1>3, OverOwner, FirstReports DEF Lost
  <2> QED
    BY <1>2, <1>3, <2>1, Typed, OwnerStep DEF CheckpointReads, EndOrGoOn, others, ghosts
<1>4. CASE /\ row.status = "running" /\ run' = [run EXCEPT !.phase = "swap"]
           /\ fresh' = fresh \cup {"run"} /\ mem' = mem
  <2> DEFINE r == [run EXCEPT !.phase = "swap"]
  <2>1. /\ r \in RunState /\ r.at = run.at /\ r.phase = "swap" /\ r.goal = run.goal
        /\ r.case = run.case /\ r.item = run.item /\ r.copy = run.copy
    BY <1>1, Typed DEF RunState
  <2> HIDE DEF r
  <2>2. Owner(mem, r, outcome)
    BY <1>1, <2>1 DEF Owner, Shape, Memory, Copy, Item, CaseSteps, FinalSteps
  <2>3. Owner(mem', run', outcome') /\ run'.at = "checkpoint" /\ run'.phase = "swap"
    BY <1>1, <1>4, <2>1, <2>2 DEF r
  <2>4. fresh' \subseteq {"run", "beat"} \cup Readers
    BY <1>4, FreshTyped
  <2> QED
    BY <1>2, <1>4, <2>3, <2>4, Typed, OwnerStep DEF CheckpointReads, EndOrGoOn, others, ghosts
<1>5. CASE CheckpointTrouble /\ fresh' = fresh
  <2>1. /\ Owner(mem', run', outcome') /\ run'.at \in {"over", "reports"}
        /\ run'.phase = "fence" /\ (mem'.status = "passed" => run'.goal = "abort")
    BY <1>1, <1>5, CheckpointTroubleOwner
  <2> QED
    BY <1>2, <1>5, <2>1, Typed, OwnerStep DEF CheckpointReads, EndOrGoOn, others, ghosts
<1> QED
  BY <1>3, <1>4, <1>5 DEF CheckpointReads

(* The swap of a checkpoint stores the report.  One that is stored as       *)
(* passed has a passed result of every case, and nothing changes it later.  *)
LEMMA CheckpointSwapsKeeps ==
  ASSUME BatchInv, CheckpointSwaps
  PROVE  BatchInv'
<1>1. /\ run.at = "checkpoint" /\ run.phase = "swap" /\ Owner(mem, run, outcome)
      /\ outcome' = outcome /\ run \in RunState /\ run.copy \in Reports /\ run.goal # "case"
      /\ UNCHANGED <<interrupted, late>>
  BY Typed DEF CheckpointSwaps, BatchInv, ghosts, RunState, Owner, Shape
<1>2. row.status # "passed" /\ mem.status # "passed"
  BY <1>1, Unsettled DEF Owner, Shape
<1>3. CASE row' = row /\ fresh' \subseteq fresh /\ CheckpointTrouble
  <2>1. /\ Owner(mem', run', outcome') /\ run'.at \in {"over", "reports"}
        /\ run'.phase = "fence" /\ (mem'.status = "passed" => run'.goal = "abort")
    BY <1>1, <1>3, CheckpointTroubleOwner
  <2> QED
    BY <1>2, <1>3, <2>1, Typed, OwnerStep DEF CheckpointSwaps, EndOrGoOn, others, ghosts
<1>4. CASE row' = row /\ fresh' = fresh /\ Lost
  <2>1. Owner(mem', run', outcome') /\ run'.at = "over" /\ run'.phase = "fence" /\ mem'.status = "none"
    BY <1>1, <1>4, OverOwner, FirstReports DEF Lost
  <2> QED
    BY <1>2, <1>4, <2>1, Typed, OwnerStep DEF CheckpointSwaps, EndOrGoOn, others, ghosts
<1>5. CASE /\ Swap("run", [status |-> run.copy.status, cases |-> run.copy.cases, live |-> TRUE])
           /\ \/ run' = [run EXCEPT !.phase = "write"] /\ UNCHANGED mem
              \/ CheckpointTrouble
  <2>1. /\ row' \in RowState /\ row'.status = run.copy.status /\ row'.cases = run.copy.cases
        /\ fresh' = {} /\ row.status = "running"
    BY <1>1, <1>5 DEF Swap, RowState, Reports, BatchInv, RowInv
  <2>2. /\ Owner(mem', run', outcome') /\ run'.at # "create"
        /\ run'.phase = "write" =>
             run'.at = "checkpoint" /\ run'.goal = run.goal /\ run'.copy = run.copy
        /\ run'.phase = "write" \/ run'.at = "over" \/ run'.goal = "abort"
        /\ mem'.status = "passed" => run'.goal = "abort"
    <3>1. CASE run' = [run EXCEPT !.phase = "write"] /\ mem' = mem
      <4> DEFINE r == [run EXCEPT !.phase = "write"]
      <4>1. /\ r \in RunState /\ r.at = run.at /\ r.phase = "write" /\ r.goal = run.goal
            /\ r.case = run.case /\ r.item = run.item /\ r.copy = run.copy
        BY <1>1 DEF RunState
      <4> HIDE DEF r
      <4>2. Owner(mem, r, outcome)
        BY <1>1, <4>1 DEF Owner, Shape, Memory, Copy, Item, CaseSteps, FinalSteps
      <4> QED
        BY <1>1, <1>2, <3>1, <4>1, <4>2 DEF r
    <3>2. CASE CheckpointTrouble
      BY <1>1, <3>2, CheckpointTroubleOwner
    <3> QED
      BY <1>5, <3>1, <3>2
  <2>3. run.copy.status = "passed" =>
          /\ run.goal = "finish"
          /\ \A c \in Cases : run.copy.cases[c] = "passed" /\ outcome[c] = "passed"
    BY <1>1 DEF Owner, Copy, Progress, Goals, RunState, Cases
  <2>4. PassedIsEarned'
    BY <1>1, <2>1, <2>3 DEF PassedIsEarned
  <2>5. ~interrupted /\ late = 0
    BY <2>1 DEF BatchInv, LateInv, TypeOK
  <2>6. LateInv'
    BY <1>1, <2>5 DEF LateInv
  <2>7. RowInv'
    BY <2>1, <2>2, <2>3 DEF RowInv, Settled
  <2>8. TypeOK'
    BY <1>1, <2>1, <2>2, Typed DEF BatchInv, TypeOK, Owner, RowState, RunState, Steps, CheckpointSwaps,
       EndOrGoOn, others, ghosts
  <2> QED
    BY <2>2, <2>4, <2>6, <2>7, <2>8 DEF BatchInv
<1>6. \/ row' = row /\ fresh' \subseteq fresh /\ CheckpointTrouble
      \/ row' = row /\ fresh' = fresh /\ Lost
      \/ /\ Swap("run", [status |-> run.copy.status, cases |-> run.copy.cases, live |-> TRUE])
         /\ \/ run' = [run EXCEPT !.phase = "write"] /\ UNCHANGED mem
            \/ CheckpointTrouble
  BY DEF CheckpointSwaps
<1> QED
  BY <1>3, <1>4, <1>5, <1>6
(* What a stored report is followed by: memory takes it over, whatever it   *)
(* held by then.                                                            *)
LEMMA SaveKeeps ==
  ASSUME BatchInv, Save
  PROVE  BatchInv'
<1>1. /\ run.at = "checkpoint" /\ run.phase = "write" /\ Owner(mem, run, outcome)
      /\ outcome' = outcome /\ run \in RunState /\ run.copy \in Reports /\ mem' = run.copy
      /\ run' = AfterCheckpoint /\ run.case \in Cases /\ Copy(run, outcome)
      /\ run.goal \in {"update", "failcase", "finish", "failbatch", "failfinal"}
      /\ run.copy.status # "none" /\ run.copy # NoReport
  BY Typed, FirstReports DEF Save, Writes, BatchInv, ghosts, RunState, Owner, Shape, Copy
<1>2. CaseCount \in Nat /\ run.case \in Nat /\ run.case <= CaseCount
  BY <1>1, BatchAssumption DEF Cases
<1>3. /\ Owner(mem', run', outcome') /\ run'.phase = "fence" /\ run'.at # "create"
      /\ run.goal \notin {"update", "failcase"} => run'.at = "over"
  <2>1. CASE run.goal = "update" /\ run.case < CaseCount
    <3> DEFINE r == [Over EXCEPT !.at = "materialize", !.case = run.case + 1]
    <3>1. run.case + 1 \in Cases /\ (run.case + 1) - 1 = run.case
      BY <1>2, <2>1 DEF Cases
    <3>2. /\ r \in RunState /\ r.at = "materialize" /\ r.phase = "fence" /\ r.goal = "case"
          /\ r.case = run.case + 1
      BY <3>1, FirstReports DEF Over, RunState, Steps, FencedSteps, CaseSteps, Goals
    <3>3. run' = r
      BY <1>1, <1>2, <2>1 DEF AfterCheckpoint
    <3> HIDE DEF r
    <3>4. run.copy.status = "running" /\ Progress(run.copy, r.case - 1, outcome)
      BY <1>1, <2>1, <3>1, <3>2 DEF Copy
    <3>5. Owner(run.copy, r, outcome)
      BY <1>1, <3>2, <3>4 DEF Owner, Shape, Memory, Copy, Item, CaseSteps, FinalSteps
    <3> QED
      BY <1>1, <2>1, <3>2, <3>3, <3>5
  <2>2. CASE run.goal = "update" /\ ~(run.case < CaseCount)
    <3> DEFINE final == FinalReport(run.copy)
    <3>1. /\ final \in Reports /\ final.status \in {"passed", "failed"}
          /\ final.cases = run.copy.cases
          /\ final.status = "passed" => \A c \in Cases : final.cases[c] # "failed"
      BY <1>1 DEF FinalReport, Reports
    <3>2. run' = Pursue("finish", final)
      BY <1>1, <1>2, <2>2 DEF AfterCheckpoint
    <3> HIDE DEF final
    <3>3. Progress(final, CaseCount, outcome)
      <4>1. run.case = CaseCount /\ Progress(run.copy, CaseCount, outcome)
        BY <1>1, <1>2, <2>2 DEF Copy
      <4> QED
        BY <3>1, <4>1 DEF Progress
    <3>4. "finish" \in Goals \ {"case"}
      BY DEF Goals
    <3> QED
      BY <1>1, <2>2, <3>1, <3>2, <3>3, <3>4, PursueOwner
  <2>3. CASE run.goal = "failcase"
    <3>1. /\ persistenceFailureReport(run.copy) \in Reports
          /\ persistenceFailureReport(run.copy).status = "failed"
      BY <1>1, FailureReport
    <3>2. "failbatch" \in Goals \ {"case"} /\ run' = Pursue("failbatch", persistenceFailureReport(run.copy))
      BY <1>1, <2>3 DEF Goals, AfterCheckpoint
    <3> QED
      BY <1>1, <2>3, <3>1, <3>2, PursueOwner
  <2>4. CASE run.goal \in {"finish", "failbatch", "failfinal"}
    <3>1. run' = Over /\ run.copy.status # "running"
      BY <1>1, <2>4 DEF AfterCheckpoint, Copy
    <3> QED
      BY <1>1, <3>1, OverOwner
  <2> QED
    BY <1>1, <2>1, <2>2, <2>3, <2>4
<1>4. row.status = "passed" => Settled(run')
  BY <1>1, <1>3, Unsettled DEF Settled
<1>5. mem'.status = "passed" => row.status = "passed"
  BY <1>1 DEF BatchInv, RowInv
<1> QED
  BY <1>1, <1>3, <1>4, <1>5, Typed, OwnerStep DEF Save, EndOrGoOn, others, ghosts

-----------------------------------------------------------------------------
(* The heartbeat, a crash, the lease and the requests                       *)

(* The heartbeat goroutine renews a running row, or takes the report away.  *)
LEMMA BeatKeeps ==
  ASSUME BatchInv, BeatStep
  PROVE  BatchInv'
<1>1. /\ run' = run /\ outcome' = outcome /\ interrupted' = interrupted /\ late' = late
      /\ UNCHANGED <<reader, publisher, env>>
  BY DEF BeatStep, BeatReads, BeatSwaps, BeatFails, BeatStops, others, ghosts
<1>2. mem' = mem \/ mem' = NoReport
  BY DEF BeatStep, BeatReads, BeatSwaps, BeatFails, BeatStops
<1>3. /\ row' \in RowState /\ row'.status = row.status /\ row'.cases = row.cases
  BY Typed DEF BeatStep, BeatReads, BeatSwaps, BeatFails, BeatStops, Swap, Renewed, RowState
<1>4. /\ fresh' \subseteq {"run", "beat"} \cup Readers /\ (fresh' # {} => row'.status = "running")
      /\ beat' \in {"off", "idle", "swap", "failing", "removed"} /\ cancelled' \in BOOLEAN
  BY Typed DEF BeatStep, BeatReads, BeatSwaps, BeatFails, BeatStops, Swap, Renewed, RowState
<1>5. Owner(mem', run', outcome') /\ (mem'.status = "passed" => mem' = mem)
  BY <1>1, <1>2, FirstReports DEF BatchInv, Owner, Memory
<1>6. TypeOK'
  BY <1>1, <1>3, <1>4, <1>5 DEF BatchInv, TypeOK, Owner, RowState, RunState, Steps
<1>7. RowInv' /\ PassedIsEarned' /\ LateInv'
  BY <1>1, <1>3, <1>4, <1>5 DEF BatchInv, RowInv, PassedIsEarned, LateInv
<1> QED
  BY <1>5, <1>6, <1>7 DEF BatchInv

(* The owner's process dies. *)
LEMMA CrashKeeps ==
  ASSUME BatchInv, Crash
  PROVE  BatchInv'
<1>1. Owner(mem', run', outcome') /\ run'.at = "over" /\ run'.phase = "fence" /\ mem'.status = "none"
  BY OverOwner, FirstReports DEF Crash, ghosts
<1>2. row.status = "passed" => Settled(run')
  BY <1>1 DEF Settled
<1> QED
  BY <1>1, <1>2, Typed, OwnerStep DEF Crash, others, ghosts

(* The lease runs out. *)
LEMMA ExpireKeeps ==
  ASSUME BatchInv, Expire
  PROVE  BatchInv'
<1>1. row' \in RowState /\ row'.status = row.status /\ row'.cases = row.cases
  BY Typed DEF Expire, RowState
<1>2. TypeOK'
  BY <1>1 DEF BatchInv, TypeOK, RowState, Expire, others, ghosts
<1> QED
  BY <1>1, <1>2 DEF BatchInv, RowInv, PassedIsEarned, LateInv, Expire, others, ghosts

(* A reader reads the row of an abandoned batch; it ends the batch only if  *)
(* nobody changed the row since.                                            *)
LEMMA ReaderKeeps ==
  ASSUME BatchInv, NEW r \in Readers, ReaderReads(r) \/ ReaderInterrupts(r) \/ ReaderFails(r)
  PROVE  BatchInv'
<1>1. /\ reader \in [Readers -> ReaderState]
      /\ UNCHANGED <<mem, run, beat, cancelled, env, publisher, outcome, late>>
  BY DEF ReaderReads, ReaderInterrupts, ReaderFails, BatchInv, TypeOK, ReaderState, ghosts
<1>2. reader' \in [Readers -> ReaderState]
  <2>1. 0 \in 0..MaxRecoveryAttempts
    BY DEF MaxRecoveryAttempts
  <2>2. reader[r] \in ReaderState
    BY <1>1
  <2>3. CASE reader' = [reader EXCEPT ![r].at = "swap"]
    BY <1>1, <2>2, <2>3 DEF ReaderState
  <2>4. CASE reader' = [reader EXCEPT ![r] = [at |-> "idle", attempt |-> 0]]
    BY <1>1, <2>1, <2>4 DEF ReaderState
  <2>5. CASE /\ reader[r].attempt < MaxRecoveryAttempts - 1
             /\ reader' = [reader EXCEPT ![r] = [at |-> "retry", attempt |-> @.attempt + 1]]
    <3>1. reader[r].attempt + 1 \in 0..MaxRecoveryAttempts
      BY <2>2, <2>5 DEF ReaderState, MaxRecoveryAttempts
    <3>2. [at |-> "retry", attempt |-> reader[r].attempt + 1] \in ReaderState
      BY <3>1 DEF ReaderState
    <3> QED
      BY <1>1, <2>5, <3>2
  <2> QED
    BY <2>3, <2>4, <2>5 DEF ReaderReads, ReaderInterrupts, ReaderFails
<1>3. CASE ReaderInterrupts(r)
  <2>1. row.status = "running" /\ row'.status = "failed" /\ row' \in RowState /\ fresh' = {}
    BY <1>3, Typed DEF ReaderInterrupts, Swap, BatchInv, RowInv, RowState, Statuses,
       markAPICaseBatchRunInterrupted
  <2>2. late = 0 /\ interrupted'
    BY <1>3, <2>1 DEF ReaderInterrupts, BatchInv, LateInv, TypeOK
  <2>3. TypeOK'
    BY <1>1, <1>2, <2>1, <2>2 DEF BatchInv, TypeOK, RowState, ReaderState
  <2>4. RowInv' /\ PassedIsEarned' /\ LateInv'
    BY <1>1, <2>1, <2>2 DEF BatchInv, RowInv, PassedIsEarned, LateInv
  <2> QED
    BY <1>1, <2>3, <2>4 DEF BatchInv
<1>4. CASE ReaderReads(r) \/ ReaderFails(r)
  <2>1. /\ row' = row /\ interrupted' = interrupted
        /\ fresh' \subseteq {"run", "beat"} \cup Readers /\ (fresh' # {} => row.status = "running")
    BY <1>4, Typed DEF ReaderReads, ReaderFails, Abandoned, ghosts
  <2>2. TypeOK'
    BY <1>1, <1>2, <2>1 DEF BatchInv, TypeOK, ReaderState
  <2> QED
    BY <1>1, <2>1, <2>2 DEF BatchInv, RowInv, PassedIsEarned, LateInv
<1> QED
  BY <1>3, <1>4

(* The handlers of the environment change its record alone. *)
LEMMA EnvironmentKeeps ==
  ASSUME BatchInv, EnvironmentStep
  PROVE  BatchInv'
<1>1. UNCHANGED <<row, fresh, mem, run, beat, cancelled, reader, outcome, interrupted, late>>
  BY DEF EnvironmentStep, handleEnvironmentVerifyAPI, handleEnvironmentPublishVerifiedAPI, ghosts
<1>2. /\ env' \in [acceptance : BOOLEAN, recorded : BOOLEAN, passed : BOOLEAN, verified : BOOLEAN]
      /\ publisher' \in BOOLEAN
  BY DEF BatchInv, TypeOK, EnvironmentStep, handleEnvironmentVerifyAPI,
     handleEnvironmentPublishVerifiedAPI, Recorded
<1> QED
  BY <1>1, <1>2 DEF BatchInv, TypeOK, RowInv, PassedIsEarned, LateInv

-----------------------------------------------------------------------------

(* The batch starts with the invariant. *)
LEMMA InvInit == Init => BatchInv
<1> SUFFICES ASSUME Init PROVE BatchInv
  OBVIOUS
<1> DEFINE r == [Over EXCEPT !.at = "create"]
<1>1. /\ r \in RunState /\ r.at = "create" /\ r.phase = "fence" /\ r.goal = "case" /\ r.case = 1
  BY BatchAssumption, FirstReports DEF Over, RunState, Steps, Cases, Goals
<1>2. run = r
  BY DEF Init
<1> HIDE DEF r
<1>3. Owner(NoReport, r, outcome)
  BY <1>1, FirstReports DEF Owner, Shape, Memory, Copy, Item, CaseSteps, FinalSteps
<1>4. row \in RowState /\ row.status = "none"
  BY FirstReports DEF Init, RowState, Reports
<1>5. TypeOK
  <2>1. env \in [acceptance : BOOLEAN, recorded : BOOLEAN, passed : BOOLEAN, verified : BOOLEAN]
    BY DEF Init
  <2>2. reader \in [Readers -> ReaderState]
    BY DEF Init, ReaderState, MaxRecoveryAttempts
  <2>3. /\ fresh = {} /\ mem = NoReport /\ beat = "off" /\ ~cancelled /\ publisher = FALSE
        /\ outcome = [c \in Cases |-> "none"] /\ interrupted = FALSE /\ late = 0 /\ cancelled = FALSE
    BY DEF Init
  <2>4. outcome \in [Cases -> {"none", "passed", "failed"}]
    BY <2>3
  <2>5. run \in RunState
    BY <1>1, <1>2
  <2>6. mem \in Reports /\ fresh \subseteq {"run", "beat"} \cup Readers /\ late \in 0..2
        /\ beat \in {"off", "idle", "swap", "failing", "removed"} /\ cancelled \in BOOLEAN
        /\ publisher \in BOOLEAN /\ interrupted \in BOOLEAN
    <3>1. 0 \in 0..2 /\ FALSE \in BOOLEAN
      OBVIOUS
    <3> QED
      BY <2>3, <3>1, FirstReports
  <2> QED
    BY <1>4, <2>1, <2>2, <2>4, <2>5, <2>6
       DEF TypeOK, RowState, RunState, Steps, ReaderState
<1> QED
  BY <1>1, <1>2, <1>3, <1>4, <1>5, FirstReports
     DEF Init, BatchInv, RowInv, PassedIsEarned, LateInv

(* Every step keeps it. *)
LEMMA InvNext == BatchInv /\ [Next]_vars => BatchInv'
<1> SUFFICES ASSUME BatchInv, [Next]_vars PROVE BatchInv'
  OBVIOUS
<1>1. CASE UNCHANGED vars
  BY <1>1 DEF vars, BatchInv, TypeOK, RowInv, PassedIsEarned, LateInv
<1>2. CASE RunStep
  BY <1>2, CreateKeeps, LaunchKeeps, FenceReadsKeeps, FenceSwapsKeeps, CaseGoesOn,
     MaterializationFailureKeeps, RequestKeeps, RecordKeeps, FailCasePersistenceKeeps,
     WriteReportsKeeps, FinalKeeps, CheckpointReadsKeeps, CheckpointSwapsKeeps, SaveKeeps
     DEF RunStep
<1> QED
  BY <1>1, <1>2, BeatKeeps, CrashKeeps, ExpireKeeps, ReaderKeeps, EnvironmentKeeps DEF Next

(* The invariant holds in every behaviour. *)
THEOREM Invariant == Spec => []BatchInv
<1> QED
  BY InvInit, InvNext, PTL DEF Spec

(* A batch stored as passed has run every case, and each has passed. *)
THEOREM PassedBatchIsEarned == Spec => []PassedIsEarned
<1>1. BatchInv => PassedIsEarned
  BY DEF BatchInv
<1> QED
  BY <1>1, Invariant, PTL

(* The owner of a batch a reader has ended gets at most the one write       *)
(* through whose fence it had passed before.                                *)
THEOREM AtMostOneLateWrite == Spec => []OneLateWrite
<1>1. BatchInv /\ OneLateWrite /\ [Next]_vars => OneLateWrite'
  <2> SUFFICES ASSUME BatchInv, OneLateWrite, [Next]_vars PROVE OneLateWrite'
    OBVIOUS
  <2>1. BatchInv'
    BY InvNext
  <2>2. late' = late \/ (Wrote /\ run.phase = "write")
    BY DEF Next, vars, RunStep, CreateRun, launchAPICaseBatchRun, FenceReads, FenceSwaps, Materialize,
       recordMaterializationFailure, OpenEvidence, executeHTTP, AnswerEvidence, RecordCaseRun,
       collectAPICaseBatchTraceTopology, failCasePersistence, writeReports, FinalWrite,
       finalizeEnvironmentAcceptanceRun, CheckpointReads, CheckpointSwaps, Save, BeatStep, BeatReads,
       BeatSwaps, BeatFails, BeatStops, Expire, Crash, ReaderReads, ReaderInterrupts, ReaderFails,
       EnvironmentStep, handleEnvironmentVerifyAPI, handleEnvironmentPublishVerifiedAPI, Writes, ghosts
  <2>3. run.phase = "write" => late = 0
    BY DEF BatchInv, LateInv, TypeOK
  <2> QED
    BY <2>2, <2>3 DEF OneLateWrite, Wrote
<1>2. Init => OneLateWrite
  BY DEF Init, OneLateWrite
<1> QED
  BY <1>1, <1>2, Invariant, PTL DEF Spec

(* What the owner's memory reports as passed is stored as passed, and a run *)
(* that is over leaves no running batch in memory.                          *)
THEOREM MemoryIsBackedByStore == Spec => []MemoryIsBacked
<1>1. BatchInv => MemoryIsBacked
  BY DEF BatchInv, RowInv, Owner, Memory, MemoryIsBacked
<1> QED
  BY <1>1, Invariant, PTL

-----------------------------------------------------------------------------
(* The case suites: the inductive invariant                                 *)

(* The cases of the catalog have a file or a config called active.          *)
Usable(s, some) == \A c \in some : c \in DOMAIN s.cases /\ (s.cases[c].path \/ c \in Configured(s))

CommandForm(m) ==
  /\ DOMAIN m = DOMAIN NoCommand
  /\ m.pc \in {"idle", "reading", "planning", "executing", "done"}
  /\ m.cases \subseteq CaseIDs /\ m.selected \subseteq CaseIDs /\ m.left \subseteq m.selected
  /\ m.pc = "reading" => /\ m.left = {} /\ m.plans = {} /\ m.running = {} /\ m.failed = {}
                         /\ DOMAIN m.seen = {"coverage", "records", "recent", "configs"}
  /\ m.pc # "done" => ~m.ok

(* As long as nothing disturbed the command its catalog is the Store's, and *)
(* the configs it knows of are the ones of that catalog.                    *)
OfTheStore(m, s) ==
  m.pc \in {"reading", "planning"} /\ m.quiet =>
    /\ m.bundle = s
    /\ m.seen["configs"] \subseteq Configured(s)
    /\ m.ask.kind # "kit" => m.cases \subseteq DOMAIN s.cases
    /\ m.ask.kind = "batch-cases" => Usable(s, m.cases)

(* The plans of a batch so far are the selected cases so far.               *)
PlannedSoFar(m) ==
  (m.pc = "planning" /\ m.quiet /\ m.ask.kind \in {"impact-run", "batch-cases"}) =>
    /\ Usable(m.bundle, m.selected)
    /\ m.plans = (m.selected \ m.left) \ Misspelt(m.bundle)

(* The case under way is the latest entry of its history, and as long as no *)
(* case failed the ones before it passed.                                   *)
ExecutedSoFar(m, h) ==
  m.pc = "executing" =>
    /\ m.selected # {}
    /\ \A r \in m.running : r[1] \in m.selected \ m.left /\ m.running = {r}
    /\ m.alone =>
         /\ \A r \in m.running : h[r[1]] # <<>> /\ h[r[1]][Len(h[r[1]])] = "open"
         /\ m.failed = {} => \A c \in m.selected \ m.left :
              (\A r \in m.running : r[1] # c) => StateByCase(h, c) = "passed"

BatchOver(m) ==
  (m.pc = "done" /\ m.quiet /\ m.ask.kind \in {"impact-run", "batch-cases"})
    => LET due == m.selected \ Misspelt(m.bundle)
       IN /\ m.outcome = "started" => m.plans = due
          /\ m.outcome = "refused" => due = {} \/ \E c \in due : selectedAPICaseBatchTimeoutSeconds(m.ask, m.bundle.cases[c]) > MaxTimeout

ReportOver(m, h) ==
  (m.pc = "done" /\ m.alone /\ m.ok /\ m.ask.kind \in Executions)
    => m.selected # {} /\ \A c \in m.selected : StateByCase(h, c) = "passed"

CommandInv(m, s, h) ==
  /\ CommandForm(m) /\ OfTheStore(m, s) /\ PlannedSoFar(m) /\ ExecutedSoFar(m, h)
  /\ BatchOver(m) /\ ReportOver(m, h)

(* What a client holds was usable in the catalog it was selected from.      *)
HeldInv(offers) == \A b \in offers : b.cases \subseteq CaseIDs /\ (b.quiet => Usable(b.bundle, b.cases))

CaseHistory == Results \cup {"open"}

SuiteInv ==
  /\ suite \in Suites
  /\ history \in [CaseIDs -> Seq(CaseHistory)]
  /\ HeldInv(held)
  /\ CommandInv(command, suite, history)

-----------------------------------------------------------------------------
(* The case suites: lemmas                                                  *)

LEMMA LeastCase ==
  ASSUME NEW S \in SUBSET Nat, S # {}
  PROVE  \E n \in S : \A m \in S : n <= m
<1> DEFINE R == {ss \in Nat \X Nat : ss[1] < ss[2]}
<1>1. IsWellFoundedOn(R, Nat)
  BY NatLessThanWellFounded, Zenon DEF OpToRel
<1> HIDE DEF R
<1>2. PICK n \in S : \A m \in S : ~(<<m, n>> \in R)
  BY <1>1, WFMin
<1>3. \A m \in S : ~(m < n)
  BY <1>2 DEF R
<1> QED BY <1>3

(* The first of the positions in question, or 0.                            *)
LEMMA FirstOfThePositions ==
  ASSUME NEW n \in Nat, NEW I \in SUBSET (1..n)
  PROVE  LET first == IF I # {} THEN Min(I) ELSE 0
         IN first \in 0..n /\ (first = 0 <=> I = {})
<1>1. CASE I # {}
  <2>1. \E k \in I : \A m \in I : k <= m
    BY <1>1, LeastCase
  <2>2. Min(I) \in I
    BY <2>1 DEF Min
  <2> DEFINE first == Min(I)
  <2>3. first \in I
    BY <2>2
  <2> HIDE DEF first
  <2>4. first \in 1..n
    BY <2>3
  <2>5. first \in 0..n /\ first # 0
    BY <2>4
  <2> QED BY <1>1, <2>5 DEF first
<1>2. CASE I = {}
  BY <1>2
<1> QED BY <1>1, <1>2

LEMMA RemovedFromASequence ==
  ASSUME NEW S, NEW s \in Seq(S)
  PROVE  Finished(s) \in Seq(S)
<1> DEFINE i == SelectInSeq(s, LAMBDA v : v = "open")
           I == {j \in 1..Len(s) : s[j] = "open"}
<1>1. i \in 0..Len(s) /\ (i = 0 <=> \A j \in 1..Len(s) : s[j] # "open")
  <2>1. i = IF I # {} THEN Min(I) ELSE 0
    BY DEF SelectInSeq
  <2>2. Len(s) \in Nat /\ I \in SUBSET (1..Len(s))
    OBVIOUS
  <2>3. I = {} <=> \A j \in 1..Len(s) : s[j] # "open"
    OBVIOUS
  <2> HIDE DEF i, I
  <2> QED BY <2>1, <2>2, <2>3, FirstOfThePositions
<1>2. Finished(s) = IF \E j \in 1..Len(s) : s[j] = "open"
                    THEN SubSeq(s, 1, i - 1) \o SubSeq(s, i + 1, Len(s)) ELSE s
  BY DEF Finished, RemoveFirst, RemoveAt
<1> HIDE DEF i
<1>3. CASE i # 0
  <2>1. i \in 1..Len(s) /\ Len(s) \in Nat
    BY <1>1, <1>3
  <2>2. SubSeq(s, 1, i - 1) \in Seq(S)
    BY <2>1
  <2>3. SubSeq(s, i + 1, Len(s)) \in Seq(S)
    BY <2>1
  <2> QED BY <1>2, <2>2, <2>3
<1>4. CASE i = 0
  BY <1>1, <1>2, <1>4
<1> QED BY <1>3, <1>4

LEMMA InsertedIntoASequence ==
  ASSUME NEW S, NEW s \in Seq(S), s # <<>>, NEW e \in S
  PROVE  InsertAt(s, Len(s), e) \in Seq(S)
<1>1. Len(s) \in Nat /\ Len(s) > 0
  OBVIOUS
<1>2. SubSeq(s, 1, Len(s) - 1) \in Seq(S) /\ SubSeq(s, Len(s), Len(s)) \in Seq(S)
  BY <1>1
<1>3. <<e>> \in Seq(S)
  OBVIOUS
<1> QED BY <1>2, <1>3 DEF InsertAt

(* The latest run of a case is its last entry, unless that is under way.    *)
LEMMA LatestIsTheLast ==
  ASSUME NEW S, NEW h, NEW c, h[c] \in Seq(S), h[c] # <<>>, h[c][Len(h[c])] # "open"
  PROVE  StateByCase(h, c) = h[c][Len(h[c])]
<1> DEFINE s == h[c]
           I == {i \in 1..Len(s) : s[i] # "open"}
<1>1. Len(s) \in Nat /\ Len(s) \in I /\ I \subseteq 1..Len(s)
  OBVIOUS
<1>2. StateByCase(h, c) = LET latest == IF I # {} THEN Max(I) ELSE 0
                          IN IF latest = 0 THEN "not-run" ELSE s[latest]
  BY DEF StateByCase, SelectLastInSeq
<1> HIDE DEF I, s
<1>3. Max(I) = Len(s)
  <2>1. \A n \in I : n <= Len(s)
    BY <1>1
  <2>2. \A n \in I : (\A m \in I : n >= m) => n = Len(s)
    BY <1>1, <2>1
  <2> QED BY <1>1, <2>1, <2>2 DEF Max
<1> QED BY <1>1, <1>2, <1>3 DEF s

(* The planner of a batch finds a config when one is active and decodes.    *)
LEMMA ConfigsAreFound ==
  ASSUME NEW s \in Suites, NEW c
  PROVE  findCaseExecutionTemplateConfig(s.configs, c) # {}
           <=> \E cfg \in ToSet(s.configs) :
                 cfg.status = "active" /\ cfg.whole /\ ExecutionConfigTargetsCase(cfg, c)
<1> DEFINE q == s.configs
           Test(cfg) == /\ cfg.status = "active" /\ cfg.whole
                        /\ ExecutionConfigTargetsCase(cfg, c)
           i == SelectInSeq(q, Test)
<1>1. q \in Seq(ToSet(q))
  BY SuiteAssumption
<1>2. findCaseExecutionTemplateConfig(q, c)
        = IF i = 0 THEN {} ELSE {[method |-> q[i].method, body |-> q[i].body, asks |-> q[i].asks]}
  BY DEF findCaseExecutionTemplateConfig
<1> HIDE DEF q
<1>3. i = 0 <=> \A j \in 1..Len(q) : ~Test(q[j])
  <2> DEFINE J == {j \in 1..Len(q) : Test(q[j])}
  <2>1. i = IF J # {} THEN Min(J) ELSE 0
    BY DEF SelectInSeq
  <2> HIDE DEF Test, i
  <2>2. Len(q) \in Nat /\ J \in SUBSET (1..Len(q))
    BY <1>1
  <2>3. J = {} <=> \A j \in 1..Len(q) : ~Test(q[j])
    OBVIOUS
  <2> HIDE DEF J
  <2> QED BY <2>1, <2>2, <2>3, FirstOfThePositions
<1> HIDE DEF i
<1>4. findCaseExecutionTemplateConfig(q, c) # {} <=> \E j \in 1..Len(q) : Test(q[j])
  BY <1>2, <1>3
<1>5. (\E j \in 1..Len(q) : Test(q[j])) <=> \E cfg \in ToSet(q) : Test(cfg)
  <2> HIDE DEF Test
  <2>1. DOMAIN q = 1..Len(q)
    BY <1>1
  <2> QED BY <2>1 DEF ToSet
<1> QED BY <1>4, <1>5 DEF q

(* A usable case is planned unless its config is misspelt.                  *)
LEMMA UsableIsPlanned ==
  ASSUME NEW s \in Suites, NEW c \in DOMAIN s.cases, s.cases[c].path \/ c \in Configured(s)
  PROVE  (s.cases[c].path \/ findCaseExecutionTemplateConfig(s.configs, c) # {})
           <=> c \notin Misspelt(s)
<1> DEFINE own == {cfg \in ToSet(s.configs) : ExecutionConfigTargetsCase(cfg, c)}
<1>1. findCaseExecutionTemplateConfig(s.configs, c) # {}
        <=> \E cfg \in own : cfg.status = "active" /\ cfg.whole
  BY ConfigsAreFound
<1>2. c \in Misspelt(s) <=> /\ ~s.cases[c].path
                            /\ \E cfg \in own : activeStatus(cfg.status)
                            /\ \A cfg \in own : cfg.status # "active" \/ ~cfg.whole
  BY DEF Misspelt
<1>3. c \in Configured(s) => \E cfg \in own : activeStatus(cfg.status)
  <2> SUFFICES ASSUME c \in Configured(s)
               PROVE  \E cfg \in own : activeStatus(cfg.status)
    OBVIOUS
  <2>1. PICK cfg \in ToSet(s.configs) : c \in addExecutionTemplateConfig(s, cfg)
    BY DEF Configured
  <2>2. activeStatus(cfg.status) /\ c \in executionConfigCaseID(cfg)
    BY <2>1 DEF addExecutionTemplateConfig
  <2>3. (cfg.named \/ cfg.scope = "case") /\ cfg.case = c
    BY <2>2 DEF executionConfigCaseID
  <2> QED BY <2>2, <2>3 DEF ExecutionConfigTargetsCase
<1> QED BY <1>1, <1>2, <1>3

-----------------------------------------------------------------------------
(* The case suites: what is selected                                        *)

(* What a request is about are cases, and cases of its catalog unless a     *)
(* test kit is asked for them by name.                                      *)
LEMMA RequestedAreCases ==
  ASSUME SuiteInv, NEW ask, NEW bundle \in Suites \cup SuitePackages
  PROVE  /\ Requested(ask, bundle) \subseteq CaseIDs
         /\ ask.kind # "kit" => Requested(ask, bundle) \subseteq DOMAIN bundle.cases
<1>1. DOMAIN bundle.cases \subseteq CaseIDs
  BY SuiteAssumption
<1>2. testKitCaseIDs \subseteq CaseIDs
  BY DEF SuiteInv, HeldInv, testKitCaseIDs
<1>3. SelectCases(bundle, ask.filter) \subseteq DOMAIN bundle.cases
  BY DEF SelectCases
<1>4. interfaceNodeReportCases(bundle, ask.filter.node) \subseteq DOMAIN bundle.cases
  BY DEF interfaceNodeReportCases
<1> DEFINE r == Requested(ask, bundle)
<1>5. CASE ask.kind \in {"impact", "impact-run", "impact-report"}
  <2>1. r = SelectCases(bundle, ask.filter) \cap collectImpact(bundle, ask.signal)
    BY <1>5 DEF Requested
  <2> HIDE DEF r
  <2> QED BY <1>1, <1>3, <2>1 DEF r
<1>6. CASE ask.kind \in {"node-report", "batch-nodes"}
  <2>1. r = interfaceNodeReportCases(bundle, ask.filter.node)
    BY <1>6 DEF Requested
  <2> HIDE DEF r
  <2> QED BY <1>1, <1>4, <2>1 DEF r
<1>7. CASE ask.kind = "kit"
  <2>1. r = testKitCaseIDs
    BY <1>7 DEF Requested
  <2> HIDE DEF r
  <2> QED BY <1>2, <1>7, <2>1 DEF r
<1>8. CASE ask.kind = "batch-cases"
  <2>1. r = testKitCaseIDs \cap DOMAIN bundle.cases
    BY <1>8 DEF Requested
  <2> HIDE DEF r
  <2> QED BY <1>1, <2>1 DEF r
<1>9. CASE ask.kind = "batch-workflow"
  <2>1. r \subseteq DOMAIN bundle.cases
    BY <1>9 DEF Requested
  <2> HIDE DEF r
  <2> QED BY <1>1, <2>1 DEF r
<1>10. CASE ask.kind \notin {"impact", "impact-run", "impact-report", "node-report", "batch-nodes",
                             "kit", "batch-cases", "batch-workflow"}
  <2>1. r = SelectCases(bundle, ask.filter)
    BY <1>10 DEF Requested
  <2> HIDE DEF r
  <2> QED BY <1>1, <1>3, <2>1 DEF r
<1> QED BY <1>5, <1>6, <1>7, <1>8, <1>9, <1>10

(* What a selection of ready cases is made of.                              *)
LEMMA SelectedAmong ==
  /\ Selected \subseteq command.cases
  /\ command.ask.kind \in Plans \cup {"impact-run"} =>
       \A c \in Selected : Runnable(command.bundle, command.seen["configs"], c)
<1> DEFINE b == command.bundle
           cs == command.cases
           seen == command.seen
           ask == command.ask
           first == Priority(b, seen.configs, seen.records, seen.recent, cs, ask.signal, ask.limit)
           plan == Plan(b, seen.configs, seen.records, cs, ask.actions)
<1>1. first \subseteq {c \in cs : Ready(b, seen.configs, c)}
  BY DEF Priority
<1>2. plan \subseteq {c \in cs : Ready(b, seen.configs, c)}
  BY DEF Plan
<1>3. \A c : Ready(b, seen.configs, c) => Runnable(b, command.seen["configs"], c)
  BY DEF Ready
<1> HIDE DEF first, plan
<1>4. CASE ask.kind \in {"priority", "brief"}
  <2>1. Selected = first
    BY <1>4 DEF Selected, first
  <2> QED BY <1>1, <1>3, <2>1
<1>5. CASE ask.kind = "batch-suite" /\ ask.states # {}
  <2>1. Selected \subseteq cs
    BY <1>5 DEF Selected
  <2> QED BY <1>5, <2>1 DEF Plans
<1>6. CASE ask.kind \in {"plan", "impact", "impact-run", "impact-report"}
  <2>1. Selected = plan
    BY <1>6 DEF Selected, plan
  <2> QED BY <1>2, <1>3, <2>1
<1>7. CASE /\ ask.kind \notin {"priority", "brief", "plan", "impact", "impact-run", "impact-report"}
           /\ ~(ask.kind = "batch-suite" /\ ask.states # {})
  <2>1. Selected = cs
    BY <1>7 DEF Selected
  <2> QED BY <1>7, <2>1 DEF Plans
<1> QED BY <1>4, <1>5, <1>6, <1>7

LEMMA SelectedIsUsable ==
  ASSUME SuiteInv, command.pc = "reading", command.quiet,
         command.ask.kind \in Plans \cup {"impact-run", "batch-cases"}
  PROVE  command.bundle = suite /\ Usable(suite, Selected)
<1>1. /\ command.bundle = suite
      /\ command.seen["configs"] \subseteq Configured(suite)
      /\ command.ask.kind # "kit"
      /\ command.cases \subseteq DOMAIN suite.cases
      /\ command.ask.kind = "batch-cases" => Usable(suite, command.cases)
  BY DEF SuiteInv, CommandInv, OfTheStore, Plans
<1>2. CASE command.ask.kind = "batch-cases"
  BY <1>1, <1>2, SelectedAmong DEF Usable
<1>3. CASE command.ask.kind \in Plans \cup {"impact-run"}
  BY <1>1, <1>3, SelectedAmong DEF Usable, Runnable
<1> QED BY <1>1, <1>2, <1>3

-----------------------------------------------------------------------------
(* The case suites: what has to be shown of a command at each of its stages *)

LEMMA WhenReading ==
  ASSUME NEW m, NEW s, NEW h, CommandForm(m), m.pc = "reading", OfTheStore(m, s)
  PROVE  CommandInv(m, s, h)
BY DEF CommandInv, PlannedSoFar, ExecutedSoFar, BatchOver, ReportOver

LEMMA WhenPlanning ==
  ASSUME NEW m, NEW s, NEW h, CommandForm(m), m.pc = "planning", OfTheStore(m, s), PlannedSoFar(m)
  PROVE  CommandInv(m, s, h)
BY DEF CommandInv, ExecutedSoFar, BatchOver, ReportOver

LEMMA WhenExecuting ==
  ASSUME NEW m, NEW s, NEW h, CommandForm(m), m.pc = "executing", ExecutedSoFar(m, h)
  PROVE  CommandInv(m, s, h)
BY DEF CommandInv, OfTheStore, PlannedSoFar, BatchOver, ReportOver

LEMMA WhenDone ==
  ASSUME NEW m, NEW s, NEW h, CommandForm(m), m.pc = "done", BatchOver(m), ReportOver(m, h)
  PROVE  CommandInv(m, s, h)
BY DEF CommandInv, OfTheStore, PlannedSoFar, ExecutedSoFar

LEMMA WhenIdle ==
  ASSUME NEW s, NEW h
  PROVE  CommandInv(NoCommand, s, h)
BY DEF CommandInv, CommandForm, OfTheStore, PlannedSoFar, ExecutedSoFar, BatchOver, ReportOver,
       NoCommand

LEMMA FieldsOfACommand ==
  DOMAIN NoCommand = {"pc", "ask", "bundle", "todo", "cases", "seen", "selected", "left", "plans",
                      "running", "failed", "ok", "outcome", "quiet", "alone"}
BY DEF NoCommand

LEMMA SameHistorySameState ==
  ASSUME NEW h, NEW g, NEW c, h[c] = g[c]
  PROVE  StateByCase(h, c) = StateByCase(g, c)
BY DEF StateByCase

-----------------------------------------------------------------------------
(* The case suites: the steps                                               *)

LEMMA StartOfTheSuites == SuiteInit => SuiteInv
<1> SUFFICES ASSUME SuiteInit PROVE SuiteInv
  OBVIOUS
<1>1. history \in [CaseIDs -> Seq(CaseHistory)]
  <2>1. history \in [CaseIDs -> Seq(Results)]
    BY SuiteAssumption DEF SuiteInit
  <2>2. Seq(Results) \subseteq Seq(CaseHistory)
    BY DEF CaseHistory
  <2> QED BY <2>1, <2>2
<1>2. CommandInv(command, suite, history)
  BY WhenIdle DEF SuiteInit
<1> QED BY <1>1, <1>2 DEF SuiteInit, SuiteInv, HeldInv

LEMMA BeginStep ==
  ASSUME SuiteInv, NEW ask, BeginCommand(ask)
  PROVE  SuiteInv'
<1>1. PICK bundle \in currentProfileBundleSnapshot(ask) :
        command' = [NoCommand EXCEPT
          !.pc = "reading", !.ask = ask, !.bundle = bundle, !.todo = Reads(ask),
          !.cases = Requested(ask, bundle),
          !.seen = [r \in {"coverage", "records", "recent", "configs"} |->
                      IF r = "configs" THEN {} ELSE history],
          !.quiet = /\ bundle = suite
                    /\ ask.kind = "batch-cases" => \A h \in held : h.quiet /\ h.bundle = suite]
  BY DEF BeginCommand
<1>2. suite' = suite /\ history' = history /\ held' = held
  BY DEF BeginCommand
<1>3. bundle \in Suites \cup SuitePackages
  BY DEF currentProfileBundleSnapshot, SuiteInv
<1> DEFINE m == command'
<1>4. /\ DOMAIN m = DOMAIN NoCommand
      /\ m.pc = "reading" /\ m.ask = ask /\ m.bundle = bundle /\ m.cases = Requested(ask, bundle)
      /\ m.seen = [r \in {"coverage", "records", "recent", "configs"} |->
                      IF r = "configs" THEN {} ELSE history]
      /\ m.selected = {} /\ m.left = {} /\ m.plans = {} /\ m.running = {} /\ m.failed = {}
      /\ ~m.ok
      /\ m.quiet => /\ bundle = suite
                    /\ ask.kind = "batch-cases" => \A h \in held : h.quiet /\ h.bundle = suite
  BY <1>1 DEF NoCommand
<1>5. /\ DOMAIN m.seen = {"coverage", "records", "recent", "configs"}
      /\ m.seen["configs"] = {}
  BY <1>4
<1> HIDE DEF m
<1>6. CommandForm(m)
  BY <1>3, <1>4, <1>5, RequestedAreCases DEF CommandForm
<1>7. OfTheStore(m, suite)
  <2> SUFFICES ASSUME m.quiet PROVE OfTheStore(m, suite)
    BY DEF OfTheStore
  <2>1. bundle = suite /\ m.bundle = suite
    BY <1>4
  <2>2. m.ask.kind # "kit" => m.cases \subseteq DOMAIN suite.cases
    BY <1>3, <1>4, <2>1, RequestedAreCases
  <2>3. ASSUME m.ask.kind = "batch-cases" PROVE Usable(suite, m.cases)
    <3>1. m.cases = testKitCaseIDs \cap DOMAIN suite.cases
      BY <1>4, <2>1, <2>3 DEF Requested
    <3>2. \A b \in held : Usable(suite, b.cases)
      BY <1>4, <2>3 DEF SuiteInv, HeldInv
    <3> QED BY <3>1, <3>2 DEF Usable, testKitCaseIDs
  <2> QED BY <1>5, <2>1, <2>2, <2>3 DEF OfTheStore
<1>8. CommandInv(m, suite, history)
  BY <1>4, <1>6, <1>7, WhenReading
<1> QED BY <1>2, <1>8 DEF SuiteInv, m

(* A step of the command that leaves the Store and what clients hold alone. *)
LEMMA CommandGoesOn ==
  ASSUME SuiteInv, suite' = suite, history' = history, held' = held,
         CommandInv(command', suite, history)
  PROVE  SuiteInv'
BY DEF SuiteInv

LEMMA ReadStep ==
  ASSUME SuiteInv, ReadStore
  PROVE  SuiteInv'
<1> DEFINE read == Head(command.todo)
           next == [command EXCEPT !.todo = Tail(@)]
           found == IF read = "configs" THEN ExecutionConfigSet(command.bundle, suite) ELSE history
           own == Configured(command.bundle)
           m == command'
<1>1. /\ command.pc = "reading"
      /\ suite' = suite /\ history' = history /\ held' = held
      /\ \/ m = [next EXCEPT !.seen[read] = found]
         \/ read = "configs" /\ m = [next EXCEPT !.seen[read] = own]
         \/ m = [command EXCEPT !.pc = "done", !.outcome = "failed"]
  BY DEF ReadStore
<1>2. CommandForm(command) /\ OfTheStore(command, suite)
  BY DEF SuiteInv, CommandInv
<1>3. DOMAIN command = {"pc", "ask", "bundle", "todo", "cases", "seen", "selected", "left", "plans",
                        "running", "failed", "ok", "outcome", "quiet", "alone"}
      /\ DOMAIN command.seen = {"coverage", "records", "recent", "configs"}
  BY <1>1, <1>2, FieldsOfACommand DEF CommandForm
<1>4. ASSUME NEW x, read = "configs" => x \in {found, own}, m = [next EXCEPT !.seen[read] = x]
      PROVE  CommandInv(m, suite, history)
  <2>1. /\ DOMAIN m = DOMAIN command /\ m.pc = "reading" /\ m.ask = command.ask
        /\ m.bundle = command.bundle /\ m.cases = command.cases
        /\ m.seen = [command.seen EXCEPT ![read] = x]
        /\ m.selected = command.selected /\ m.left = command.left /\ m.plans = command.plans
        /\ m.running = command.running /\ m.failed = command.failed
        /\ m.ok = command.ok /\ m.quiet = command.quiet
    BY <1>1, <1>3, <1>4
  <2>2. /\ DOMAIN m.seen = DOMAIN command.seen
        /\ m.seen["configs"] = IF read = "configs" THEN x ELSE command.seen["configs"]
    BY <1>3, <2>1
  <2> HIDE DEF m, read, next
  <2>3. CommandForm(m)
    BY <1>1, <1>2, <2>1, <2>2 DEF CommandForm
  <2>4. OfTheStore(m, suite)
    BY <1>1, <1>2, <1>4, <2>1, <2>2 DEF OfTheStore, ExecutionConfigSet
  <2> QED BY <2>1, <2>3, <2>4, WhenReading
<1>5. ASSUME m = [command EXCEPT !.pc = "done", !.outcome = "failed"]
      PROVE  CommandInv(m, suite, history)
  <2>1. /\ DOMAIN m = DOMAIN command /\ m.pc = "done" /\ m.outcome = "failed"
        /\ m.cases = command.cases /\ m.selected = command.selected /\ m.left = command.left
        /\ m.ok = command.ok
    BY <1>3, <1>5
  <2> HIDE DEF m, read, next
  <2>2. CommandForm(m)
    BY <1>1, <1>2, <2>1 DEF CommandForm
  <2>3. ~m.ok
    BY <1>1, <1>2, <2>1 DEF CommandForm
  <2> QED BY <2>1, <2>2, <2>3, WhenDone DEF BatchOver, ReportOver
<1>6. CommandInv(m, suite, history)
  <2> HIDE DEF next, CommandInv
  <2> QED BY <1>1, <1>4, <1>5
<1> QED BY <1>1, <1>6, CommandGoesOn

LEMMA FactsOfTheSuites ==
  ASSUME SuiteInv
  PROVE  /\ suite \in Suites /\ history \in [CaseIDs -> Seq(CaseHistory)] /\ HeldInv(held)
         /\ CommandForm(command) /\ OfTheStore(command, suite) /\ PlannedSoFar(command)
         /\ ExecutedSoFar(command, history) /\ BatchOver(command) /\ ReportOver(command, history)
         /\ DOMAIN command = {"pc", "ask", "bundle", "todo", "cases", "seen", "selected", "left",
                              "plans", "running", "failed", "ok", "outcome", "quiet", "alone"}
BY FieldsOfACommand DEF SuiteInv, CommandInv, CommandForm

LEMMA AnswerStep ==
  ASSUME SuiteInv, Answer
  PROVE  SuiteInv'
<1> DEFINE m == command'
<1>1. /\ command.pc = "reading"
      /\ command.ask.kind \notin Plans \cup Executions \cup Batches
      /\ suite' = suite /\ history' = history /\ held' = held
  BY DEF Answer, Read
<1>2. \E ok : m = [command EXCEPT !.pc = "done", !.outcome = "answered", !.ok = ok]
  BY DEF Answer
<1>3. PICK ok : m = [command EXCEPT !.pc = "done", !.outcome = "answered", !.ok = ok]
  BY <1>2
<1>4. CommandForm(command)
  BY FactsOfTheSuites
<1>5. /\ DOMAIN m = DOMAIN command /\ m.pc = "done" /\ m.ask = command.ask
      /\ m.cases = command.cases /\ m.selected = command.selected /\ m.left = command.left
  BY <1>3, FactsOfTheSuites
<1> HIDE DEF m
<1>6. CommandForm(m)
  BY <1>4, <1>5 DEF CommandForm
<1>7. BatchOver(m) /\ ReportOver(m, history)
  BY <1>1, <1>5 DEF BatchOver, ReportOver, Batches
<1>8. CommandInv(m, suite, history)
  BY <1>5, <1>6, <1>7, WhenDone
<1> QED BY <1>1, <1>8, CommandGoesOn DEF m

LEMMA AnswerPlanStep ==
  ASSUME SuiteInv, AnswerPlan
  PROVE  SuiteInv'
<1> DEFINE m == command'
<1>1. /\ command.pc = "reading" /\ command.ask.kind \in Plans
      /\ suite' = suite /\ history' = history
      /\ held' = {[cases |-> Selected, bundle |-> command.bundle, quiet |-> command.quiet]}
  BY DEF AnswerPlan, Read
<1>2. \E ok : m = [command EXCEPT !.pc = "done", !.outcome = "answered", !.selected = Selected, !.ok = ok]
  BY DEF AnswerPlan
<1>3. PICK ok : m = [command EXCEPT !.pc = "done", !.outcome = "answered", !.selected = Selected, !.ok = ok]
  BY <1>2
<1>4. CommandForm(command)
  BY FactsOfTheSuites
<1>5. /\ DOMAIN m = DOMAIN command /\ m.pc = "done" /\ m.ask = command.ask
      /\ m.cases = command.cases /\ m.selected = Selected /\ m.left = command.left
  BY <1>3, FactsOfTheSuites
<1>6. Selected \subseteq CaseIDs
  BY <1>4, SelectedAmong DEF CommandForm
<1>7. HeldInv(held')
  <2>1. command.quiet => Usable(command.bundle, Selected)
    BY <1>1, SelectedIsUsable
  <2> DEFINE b == [cases |-> Selected, bundle |-> command.bundle, quiet |-> command.quiet]
  <2>2. b.cases = Selected /\ b.bundle = command.bundle /\ b.quiet = command.quiet
    OBVIOUS
  <2>3. held' = {b}
    BY <1>1
  <2> HIDE DEF b
  <2> QED BY <1>6, <2>1, <2>2, <2>3 DEF HeldInv
<1> HIDE DEF m
<1>8. command.left = {}
  BY <1>1, <1>4 DEF CommandForm
<1>9. CommandForm(m)
  BY <1>4, <1>5, <1>6, <1>8 DEF CommandForm
<1>10. BatchOver(m) /\ ReportOver(m, history)
  BY <1>1, <1>5 DEF BatchOver, ReportOver, Plans, Executions
<1>11. CommandInv(m, suite, history)
  BY <1>5, <1>9, <1>10, WhenDone
<1> QED BY <1>1, <1>7, <1>11, FactsOfTheSuites DEF SuiteInv, m

(* A batch is planned, or refused by a gate or for want of cases.           *)
LEMMA PrepareStep ==
  ASSUME SuiteInv, prepareAPICaseBatchRun
  PROVE  SuiteInv'
<1> DEFINE m == command'
           none == command.ask.kind = "impact-run" /\ Selected = {}
<1>1. /\ command.pc = "reading" /\ command.ask.kind \in Batches
      /\ suite' = suite /\ history' = history /\ held' = held
      /\ \/ /\ m = [command EXCEPT !.pc = "done", !.outcome = "refused", !.selected = Selected]
            /\ command.ask.kind = "batch-workflow" \/ none
         \/ m = [command EXCEPT !.pc = "planning", !.selected = Selected, !.left = Selected]
  BY DEF prepareAPICaseBatchRun, Read
<1>2. CommandForm(command) /\ OfTheStore(command, suite)
  BY FactsOfTheSuites
<1>3. Selected \subseteq CaseIDs
  BY <1>2, SelectedAmong DEF CommandForm
<1>4. ASSUME m = [command EXCEPT !.pc = "done", !.outcome = "refused", !.selected = Selected],
             command.ask.kind = "batch-workflow" \/ none
      PROVE  CommandInv(m, suite, history)
  <2>1. /\ DOMAIN m = DOMAIN command /\ m.pc = "done" /\ m.ask = command.ask
        /\ m.outcome = "refused" /\ m.bundle = command.bundle
        /\ m.cases = command.cases /\ m.selected = Selected /\ m.left = command.left
    BY <1>4, FactsOfTheSuites
  <2> HIDE DEF m
  <2>2. CommandForm(m)
    BY <1>1, <1>2, <1>3, <2>1 DEF CommandForm
  <2>3. ReportOver(m, history)
    BY <1>1, <2>1 DEF ReportOver, Batches, Executions
  <2>4. BatchOver(m)
    BY <1>4, <2>1 DEF BatchOver
  <2> QED BY <2>1, <2>2, <2>3, <2>4, WhenDone
<1>5. ASSUME m = [command EXCEPT !.pc = "planning", !.selected = Selected, !.left = Selected]
      PROVE  CommandInv(m, suite, history)
  <2>1. /\ DOMAIN m = DOMAIN command /\ m.pc = "planning" /\ m.ask = command.ask
        /\ m.bundle = command.bundle /\ m.cases = command.cases /\ m.seen = command.seen
        /\ m.selected = Selected /\ m.left = Selected /\ m.plans = command.plans
        /\ m.ok = command.ok /\ m.quiet = command.quiet
    BY <1>5, FactsOfTheSuites
  <2> HIDE DEF m
  <2>2. CommandForm(m)
    BY <1>1, <1>2, <1>3, <2>1 DEF CommandForm
  <2>3. OfTheStore(m, suite)
    BY <1>1, <1>2, <2>1 DEF OfTheStore
  <2>4. PlannedSoFar(m)
    <3> SUFFICES ASSUME m.quiet, m.ask.kind \in {"impact-run", "batch-cases"}
                 PROVE  Usable(m.bundle, m.selected) /\ m.plans = {}
      BY <2>1 DEF PlannedSoFar
    <3>1. Usable(m.bundle, m.selected)
      BY <1>1, <2>1, SelectedIsUsable
    <3>2. m.plans = {}
      BY <1>1, <1>2, <2>1 DEF CommandForm
    <3> QED BY <3>1, <3>2
  <2> QED BY <2>1, <2>2, <2>3, <2>4, WhenPlanning
<1>6. CommandInv(m, suite, history)
  <2> HIDE DEF m, none
  <2> QED BY <1>1, <1>4, <1>5
<1> QED BY <1>1, <1>6, CommandGoesOn

(* The plan of the next case: it is made just when the case is not misspelt.*)
LEMMA PlanCaseStep ==
  ASSUME SuiteInv, apiCaseBatchPlanFromCase
  PROVE  SuiteInv'
<1> DEFINE m == command'
           c == Least(command.left)
           next == [command EXCEPT !.left = @ \ {c}]
           file == command.bundle.cases[c].path
           found == findCaseExecutionTemplateConfig(suite.configs, c) # {}
           made == file \/ found
           with(f) == IF file \/ f THEN [next EXCEPT !.plans = @ \cup {c}] ELSE next
<1>1. /\ command.pc = "planning" /\ command.left # {}
      /\ suite' = suite /\ history' = history /\ held' = held
      /\ m = with(found) \/ m = [with(FALSE) EXCEPT !.quiet = FALSE]
  BY DEF apiCaseBatchPlanFromCase
<1>2. /\ CommandForm(command) /\ OfTheStore(command, suite) /\ PlannedSoFar(command)
      /\ suite \in Suites
  BY FactsOfTheSuites
<1>3. c \in command.left
  <2>1. command.left \subseteq Nat
    BY <1>2, SuiteAssumption DEF CommandForm
  <2>2. \E n \in command.left : \A d \in command.left : n <= d
    BY <1>1, <2>1, LeastCase
  <2> QED BY <2>2 DEF Least
<1>4. /\ DOMAIN m = DOMAIN command /\ m.pc = "planning" /\ m.ask = command.ask
      /\ m.bundle = command.bundle /\ m.cases = command.cases /\ m.seen = command.seen
      /\ m.selected = command.selected /\ m.left = command.left \ {c}
      /\ m.ok = command.ok
      /\ m.quiet => /\ command.quiet
                    /\ m.plans = IF made THEN command.plans \cup {c} ELSE command.plans
  <2>1. DOMAIN command = {"pc", "ask", "bundle", "todo", "cases", "seen", "selected", "left",
                          "plans", "running", "failed", "ok", "outcome", "quiet", "alone"}
    BY FactsOfTheSuites
  <2> DEFINE o == [next EXCEPT !.plans = @ \cup {c}]
  <2>2. /\ DOMAIN next = DOMAIN command /\ next.pc = command.pc /\ next.ask = command.ask
        /\ next.bundle = command.bundle /\ next.cases = command.cases /\ next.seen = command.seen
        /\ next.selected = command.selected /\ next.left = command.left \ {c}
        /\ next.ok = command.ok /\ next.plans = command.plans /\ next.quiet = command.quiet
    BY <2>1
  <2>3. /\ DOMAIN o = DOMAIN command /\ o.pc = command.pc /\ o.ask = command.ask
        /\ o.bundle = command.bundle /\ o.cases = command.cases /\ o.seen = command.seen
        /\ o.selected = command.selected /\ o.left = command.left \ {c}
        /\ o.ok = command.ok /\ o.plans = command.plans \cup {c} /\ o.quiet = command.quiet
    BY <2>1, <2>2
  <2>4. \/ m = (IF made THEN o ELSE next)
        \/ \E n \in {next, o} : m = [n EXCEPT !.quiet = FALSE]
    BY <1>1
  <2> HIDE DEF next, o, made, c
  <2>5. ASSUME NEW n \in {next, o}, m = [n EXCEPT !.quiet = FALSE]
        PROVE  /\ DOMAIN m = DOMAIN n /\ m.pc = n.pc /\ m.ask = n.ask /\ m.bundle = n.bundle
               /\ m.cases = n.cases /\ m.seen = n.seen /\ m.selected = n.selected
               /\ m.left = n.left /\ m.ok = n.ok /\ ~m.quiet
    BY <2>1, <2>2, <2>3, <2>5
  <2> QED BY <1>1, <2>2, <2>3, <2>4, <2>5
<1> HIDE DEF m, next, with, c
<1>5. CommandForm(m)
  BY <1>1, <1>2, <1>4 DEF CommandForm
<1>6. OfTheStore(m, suite)
  BY <1>1, <1>2, <1>4 DEF OfTheStore
<1>7. PlannedSoFar(m)
  <2> SUFFICES ASSUME m.quiet, m.ask.kind \in {"impact-run", "batch-cases"}
               PROVE  Usable(m.bundle, m.selected) /\ m.plans = (m.selected \ m.left) \ Misspelt(m.bundle)
    BY DEF PlannedSoFar
  <2>1. /\ Usable(command.bundle, command.selected)
        /\ command.plans = (command.selected \ command.left) \ Misspelt(command.bundle)
        /\ command.bundle = suite
    BY <1>1, <1>2, <1>4 DEF PlannedSoFar, OfTheStore
  <2>2. c \in command.selected
    BY <1>2, <1>3 DEF CommandForm
  <2>3. made <=> c \notin Misspelt(suite)
    <3>1. c \in DOMAIN suite.cases /\ (suite.cases[c].path \/ c \in Configured(suite))
      BY <2>1, <2>2 DEF Usable
    <3> QED BY <1>2, <2>1, <3>1, UsableIsPlanned
  <2> HIDE DEF made
  <2> QED BY <1>3, <1>4, <2>1, <2>2, <2>3
<1>8. CommandInv(m, suite, history)
  BY <1>4, <1>5, <1>6, <1>7, WhenPlanning
<1> QED BY <1>1, <1>8, CommandGoesOn DEF m

(* The start of a batch has a plan of every selected case that is due.      *)
LEMMA StartBatchStep ==
  ASSUME SuiteInv, startAPICaseBatchRun
  PROVE  SuiteInv'
<1> DEFINE m == command'
           overdue == \E c \in command.plans : selectedAPICaseBatchTimeoutSeconds(
                                               command.ask, command.bundle.cases[c]) > MaxTimeout
           refused == \/ command.plans = {} \/ command.ask.kind = "batch-workflow" \/ overdue
<1>1. /\ command.pc = "planning" /\ command.left = {}
      /\ suite' = suite /\ history' = history /\ held' = held
      /\ \/ refused /\ m = [command EXCEPT !.pc = "done", !.outcome = "refused"]
         \/ \E word \in {"started", "failed"} :
              m = [command EXCEPT !.pc = "done", !.outcome = word]
  BY DEF startAPICaseBatchRun
<1>2. PICK word : /\ m = [command EXCEPT !.pc = "done", !.outcome = word]
                  /\ word = "refused" => refused
  BY <1>1, Zenon
<1>3. CommandForm(command) /\ PlannedSoFar(command)
  BY FactsOfTheSuites
<1>4. /\ DOMAIN m = DOMAIN command /\ m.pc = "done" /\ m.ask = command.ask
      /\ m.outcome = word /\ m.bundle = command.bundle /\ m.cases = command.cases
      /\ m.selected = command.selected /\ m.left = command.left /\ m.plans = command.plans
      /\ m.ok = command.ok /\ m.quiet = command.quiet
  BY <1>2, FactsOfTheSuites
<1> HIDE DEF m
<1>5. CommandForm(m)
  BY <1>1, <1>3, <1>4 DEF CommandForm
<1>6. ReportOver(m, history)
  BY <1>1, <1>3, <1>4 DEF ReportOver, CommandForm
<1>7. BatchOver(m)
  <2> SUFFICES ASSUME m.quiet, m.ask.kind \in {"impact-run", "batch-cases"}
               PROVE  LET due == m.selected \ Misspelt(m.bundle)
                      IN /\ m.plans = due
                         /\ m.outcome = "refused" =>
                              due = {} \/ \E c \in due : selectedAPICaseBatchTimeoutSeconds(m.ask, m.bundle.cases[c]) > MaxTimeout
    BY DEF BatchOver
  <2>1. m.plans = m.selected \ Misspelt(m.bundle)
    BY <1>1, <1>3, <1>4 DEF PlannedSoFar
  <2>2. word = "refused" => command.plans = {} \/ overdue
    BY <1>2, <1>4
  <2> QED BY <1>4, <2>1, <2>2
<1>8. CommandInv(m, suite, history)
  BY <1>4, <1>5, <1>6, <1>7, WhenDone
<1> QED BY <1>1, <1>8, CommandGoesOn DEF m

LEMMA ExecuteReportStep ==
  ASSUME SuiteInv, executeCaseSuiteReport
  PROVE  SuiteInv'
<1> DEFINE m == command'
<1>1. /\ command.pc = "reading"
      /\ suite' = suite /\ history' = history /\ held' = held
      /\ \/ m = [command EXCEPT !.pc = "done", !.outcome = "failed"]
         \/ /\ Selected # {}
            /\ \E bundle : m = [command EXCEPT !.pc = "executing", !.selected = Selected,
                                               !.left = Selected, !.bundle = bundle]
  BY DEF executeCaseSuiteReport, Read
<1>2. CommandForm(command)
  BY FactsOfTheSuites
<1>3. Selected \subseteq CaseIDs
  BY <1>2, SelectedAmong DEF CommandForm
<1>4. ASSUME m = [command EXCEPT !.pc = "done", !.outcome = "failed"]
      PROVE  CommandInv(m, suite, history)
  <2>1. /\ DOMAIN m = DOMAIN command /\ m.pc = "done" /\ m.outcome = "failed"
        /\ m.cases = command.cases /\ m.selected = command.selected /\ m.left = command.left
        /\ m.ok = command.ok
    BY <1>4, FactsOfTheSuites
  <2> HIDE DEF m
  <2>2. CommandForm(m) /\ ~m.ok
    BY <1>1, <1>2, <2>1 DEF CommandForm
  <2> QED BY <2>1, <2>2, WhenDone DEF BatchOver, ReportOver
<1>5. ASSUME Selected # {}, NEW bundle,
             m = [command EXCEPT !.pc = "executing", !.selected = Selected, !.left = Selected,
                                 !.bundle = bundle]
      PROVE  CommandInv(m, suite, history)
  <2>1. /\ DOMAIN m = DOMAIN command /\ m.pc = "executing" /\ m.cases = command.cases
        /\ m.selected = Selected /\ m.left = Selected /\ m.running = command.running
        /\ m.failed = command.failed /\ m.ok = command.ok
    BY <1>5, FactsOfTheSuites
  <2> HIDE DEF m
  <2>2. CommandForm(m)
    BY <1>1, <1>2, <1>3, <2>1 DEF CommandForm
  <2>3. m.running = {} /\ m.selected \ m.left = {}
    BY <1>1, <1>2, <2>1 DEF CommandForm
  <2>4. ExecutedSoFar(m, history)
    BY <1>5, <2>1, <2>3 DEF ExecutedSoFar
  <2> QED BY <2>1, <2>2, <2>4, WhenExecuting
<1>6. CommandInv(m, suite, history)
  <2> HIDE DEF m, CommandInv
  <2> QED BY <1>1, <1>4, <1>5
<1> QED BY <1>1, <1>6, CommandGoesOn

(* A case begins: its history ends with an open entry.                      *)
LEMMA RunCaseStep ==
  ASSUME SuiteInv, RunCase
  PROVE  SuiteInv'
<1> DEFINE m == command'
           h == history'
           c == Least(command.left)
<1>1. /\ command.pc = "executing" /\ command.left # {} /\ command.running = {}
      /\ suite' = suite /\ held' = held
      /\ \E result : m = [command EXCEPT !.running = {<<c, result>>}, !.left = @ \ {c}]
      /\ h = [history EXCEPT ![c] = Append(@, "open")]
  BY DEF RunCase
<1>2. PICK result : m = [command EXCEPT !.running = {<<c, result>>}, !.left = @ \ {c}]
  BY <1>1
<1>3. /\ CommandForm(command) /\ ExecutedSoFar(command, history)
      /\ history \in [CaseIDs -> Seq(CaseHistory)]
  BY FactsOfTheSuites
<1>4. c \in command.left
  <2>1. command.left \subseteq Nat
    BY <1>3, SuiteAssumption DEF CommandForm
  <2>2. \E n \in command.left : \A d \in command.left : n <= d
    BY <1>1, <2>1, LeastCase
  <2> QED BY <2>2 DEF Least
<1>5. /\ DOMAIN m = DOMAIN command /\ m.pc = "executing" /\ m.cases = command.cases
      /\ m.selected = command.selected /\ m.left = command.left \ {c}
      /\ m.running = {<<c, result>>} /\ m.failed = command.failed
      /\ m.ok = command.ok /\ m.alone = command.alone
  BY <1>1, <1>2, FactsOfTheSuites
<1> HIDE DEF m, c
<1>6. c \in command.selected /\ c \in CaseIDs
  BY <1>3, <1>4 DEF CommandForm
<1>7. /\ h \in [CaseIDs -> Seq(CaseHistory)]
      /\ h[c] # <<>> /\ h[c][Len(h[c])] = "open"
      /\ \A d \in CaseIDs \ {c} : h[d] = history[d]
  <2>1. history[c] \in Seq(CaseHistory) /\ "open" \in CaseHistory
    BY <1>3, <1>6 DEF CaseHistory
  <2> DEFINE s == Append(history[c], "open")
  <2>2. s \in Seq(CaseHistory) /\ s # <<>> /\ s[Len(s)] = "open"
    BY <2>1
  <2>3. h = [history EXCEPT ![c] = s]
    BY <1>1
  <2> HIDE DEF s
  <2> QED BY <1>3, <1>6, <2>2, <2>3
<1> HIDE DEF h
<1>8. CommandForm(m)
  BY <1>1, <1>3, <1>5 DEF CommandForm
<1>9. ExecutedSoFar(m, h)
  <2>1. m.selected # {} /\ \A r \in m.running : r[1] = c /\ m.running = {r}
    BY <1>4, <1>5, <1>6
  <2>2. c \in m.selected \ m.left
    BY <1>5, <1>6
  <2>3. ASSUME m.alone, m.failed = {}, NEW d \in m.selected \ m.left, \A r \in m.running : r[1] # d
        PROVE  StateByCase(h, d) = "passed"
    <3>1. d # c
      BY <1>5, <2>3
    <3>2. d \in command.selected \ command.left /\ d \in CaseIDs
      BY <1>3, <1>5, <2>3, <3>1 DEF CommandForm
    <3>3. StateByCase(history, d) = "passed"
      BY <1>1, <1>3, <1>5, <2>3, <3>2 DEF ExecutedSoFar
    <3> QED BY <1>7, <3>1, <3>2, <3>3, SameHistorySameState
  <2> QED BY <1>7, <2>1, <2>2, <2>3 DEF ExecutedSoFar
<1>10. CommandInv(m, suite, h)
  BY <1>5, <1>8, <1>9, WhenExecuting
<1> QED BY <1>1, <1>7, <1>10, FactsOfTheSuites DEF SuiteInv, m, h

(* A closed history is a history, and a passed case is the latest of its.   *)
LEMMA ClosedHistory ==
  ASSUME history \in [CaseIDs -> Seq(CaseHistory)], NEW c \in CaseIDs, NEW result
  PROVE  /\ CloseRun(c, result) \in Seq(CaseHistory)
         /\ (/\ result = "passed" /\ history[c] # <<>>
             /\ history[c][Len(history[c])] = "open") =>
               /\ CloseRun(c, result) # <<>>
               /\ CloseRun(c, result)[Len(CloseRun(c, result))] = "passed"
<1> DEFINE s == history[c]
           closed == [i \in DOMAIN s |-> IF s[i] # "open" THEN s[i]
                                         ELSE IF result = "passed" THEN result ELSE "failed"]
<1>1. s \in Seq(CaseHistory) /\ DOMAIN s = 1..Len(s) /\ Len(s) \in Nat
  OBVIOUS
<1>2. closed \in Seq(CaseHistory) /\ Len(closed) = Len(s)
  <2>1. \A i \in 1..Len(s) : closed[i] \in CaseHistory
    BY <1>1 DEF CaseHistory, Results
  <2>2. DOMAIN closed = 1..Len(s)
    BY <1>1
  <2>3. closed = [i \in 1..Len(s) |-> closed[i]]
    BY <1>1
  <2> HIDE DEF closed
  <2>4. closed \in [1..Len(s) -> CaseHistory]
    BY <2>1, <2>3
  <2> QED BY <1>1, <2>2, <2>4
<1>3. Finished(s) \in Seq(CaseHistory)
  BY <1>1, RemovedFromASequence
<1>4. CASE result = "refused" /\ command.ask.kind # "kit"
  <2>1. CloseRun(c, result) = Finished(s)
    BY <1>4 DEF CloseRun
  <2> QED BY <1>3, <1>4, <2>1
<1>5. CASE ~(result = "refused" /\ command.ask.kind # "kit")
  <2>1. CloseRun(c, result) = closed
    BY <1>5 DEF CloseRun
  <2>2. ASSUME result = "passed", s # <<>>, s[Len(s)] = "open"
        PROVE  closed # <<>> /\ closed[Len(closed)] = "passed"
    <3>1. Len(s) \in 1..Len(s)
      BY <1>1, <2>2
    <3>2. closed[Len(s)] = "passed"
      BY <1>1, <2>2, <3>1
    <3> HIDE DEF closed
    <3> QED BY <1>1, <1>2, <3>1, <3>2
  <2> HIDE DEF closed
  <2> QED BY <1>2, <2>1, <2>2 DEF s
<1> QED BY <1>4, <1>5

(* The case ends: a passed one is the latest of its history.                *)
LEMMA RecordStep ==
  ASSUME SuiteInv, recordTestKitRun
  PROVE  SuiteInv'
<1> DEFINE m == command'
           h == history'
<1>1. command.pc = "executing" /\ suite' = suite /\ held' = held
  BY DEF recordTestKitRun
<1>2. PICK r \in command.running :
        LET c == r[1]
            result == r[2]
            recorded == [history EXCEPT ![c] = CloseRun(c, result)]
            lost == [history EXCEPT ![c] = Finished(@)]
        IN \/ /\ h = recorded
              /\ m = [command EXCEPT !.running = {},
                        !.failed = IF result = "passed" THEN @ ELSE @ \cup {c}]
           \/ /\ h \in {recorded, lost}
              /\ m = [command EXCEPT !.pc = "done", !.running = {}, !.outcome = "failed"]
  BY DEF recordTestKitRun
<1> DEFINE c == r[1]
           result == r[2]
           recorded == [history EXCEPT ![c] = CloseRun(c, result)]
           lost == [history EXCEPT ![c] = Finished(@)]
<1>3. /\ CommandForm(command) /\ ExecutedSoFar(command, history)
      /\ history \in [CaseIDs -> Seq(CaseHistory)]
  BY FactsOfTheSuites
<1>4. /\ c \in command.selected \ command.left /\ command.running = {r} /\ c \in CaseIDs
  BY <1>1, <1>2, <1>3 DEF ExecutedSoFar, CommandForm
<1>5. recorded \in [CaseIDs -> Seq(CaseHistory)] /\ lost \in [CaseIDs -> Seq(CaseHistory)]
  <2>1. CloseRun(c, result) \in Seq(CaseHistory)
    BY <1>3, <1>4, ClosedHistory
  <2>2. history[c] \in Seq(CaseHistory)
    BY <1>3, <1>4
  <2>3. Finished(history[c]) \in Seq(CaseHistory)
    BY <2>2, RemovedFromASequence
  <2> HIDE DEF c, result
  <2> QED BY <1>3, <1>4, <2>1, <2>3
<1>6. ASSUME h = recorded,
             m = [command EXCEPT !.running = {},
                    !.failed = IF result = "passed" THEN @ ELSE @ \cup {c}]
      PROVE  CommandInv(m, suite, h)
  <2>1. /\ DOMAIN m = DOMAIN command /\ m.pc = "executing" /\ m.cases = command.cases
        /\ m.selected = command.selected /\ m.left = command.left /\ m.running = {}
        /\ m.failed = (IF result = "passed" THEN command.failed ELSE command.failed \cup {c})
        /\ m.ok = command.ok /\ m.alone = command.alone
    BY <1>1, <1>6, FactsOfTheSuites
  <2>2. h[c] = CloseRun(c, result) /\ \A d \in CaseIDs \ {c} : h[d] = history[d]
    BY <1>3, <1>4, <1>6
  <2> HIDE DEF m, h, c, result, recorded, lost
  <2>3. CommandForm(m)
    BY <1>1, <1>3, <2>1 DEF CommandForm
  <2>4. ASSUME m.alone, m.failed = {}, NEW d \in m.selected \ m.left
        PROVE  StateByCase(h, d) = "passed"
    <3>1. result = "passed" /\ command.failed = {} /\ command.alone
      BY <2>1, <2>4
    <3>2. CASE d = c
      <4>1. history[c] # <<>> /\ history[c][Len(history[c])] = "open"
        BY <1>1, <1>2, <1>3, <3>1 DEF ExecutedSoFar, c
      <4>2. /\ h[c] \in Seq(CaseHistory) /\ h[c] # <<>> /\ h[c][Len(h[c])] = "passed"
        BY <1>3, <1>4, <2>2, <3>1, <4>1, ClosedHistory
      <4> QED BY <3>2, <4>2, LatestIsTheLast
    <3>3. CASE d # c
      <4>1. d \in CaseIDs /\ d \in command.selected \ command.left
        BY <1>3, <2>1, <2>4 DEF CommandForm
      <4>2. \A q \in command.running : q[1] # d
        BY <1>4, <3>3 DEF c
      <4>3. StateByCase(history, d) = "passed"
        BY <1>1, <1>3, <3>1, <4>1, <4>2 DEF ExecutedSoFar
      <4> QED BY <2>2, <3>3, <4>1, <4>3, SameHistorySameState
    <3> QED BY <3>2, <3>3
  <2>5. m.selected # {}
    BY <1>4, <2>1
  <2>6. ExecutedSoFar(m, h)
    BY <2>1, <2>4, <2>5 DEF ExecutedSoFar
  <2> QED BY <2>1, <2>3, <2>6, WhenExecuting
<1>7. ASSUME m = [command EXCEPT !.pc = "done", !.running = {}, !.outcome = "failed"]
      PROVE  CommandInv(m, suite, h)
  <2>1. /\ DOMAIN m = DOMAIN command /\ m.pc = "done" /\ m.outcome = "failed"
        /\ m.cases = command.cases /\ m.selected = command.selected /\ m.left = command.left
        /\ m.ok = command.ok
    BY <1>1, <1>7, FactsOfTheSuites
  <2> HIDE DEF m, h
  <2>2. CommandForm(m) /\ ~m.ok
    BY <1>1, <1>3, <2>1 DEF CommandForm
  <2> QED BY <2>1, <2>2, WhenDone DEF BatchOver, ReportOver
<1>8. /\ h \in [CaseIDs -> Seq(CaseHistory)]
      /\ CommandInv(m, suite, h)
  <2>1. \/ /\ h = recorded
           /\ m = [command EXCEPT !.running = {},
                     !.failed = IF result = "passed" THEN @ ELSE @ \cup {c}]
        \/ /\ h \in {recorded, lost}
           /\ m = [command EXCEPT !.pc = "done", !.running = {}, !.outcome = "failed"]
    BY <1>2
  <2> HIDE DEF m, h, recorded, lost, CommandInv
  <2> QED BY <1>5, <1>6, <1>7, <2>1
<1> QED BY <1>1, <1>8, FactsOfTheSuites DEF SuiteInv, m, h

LEMMA FinishReportStep ==
  ASSUME SuiteInv, FinishReport
  PROVE  SuiteInv'
<1> DEFINE m == command'
<1>1. /\ command.pc = "executing" /\ command.left = {} /\ command.running = {}
      /\ suite' = suite /\ history' = history /\ held' = held
      /\ m = [command EXCEPT !.pc = "done", !.outcome = "answered", !.ok = command.failed = {}]
  BY DEF FinishReport
<1>2. CommandForm(command) /\ ExecutedSoFar(command, history)
  BY FactsOfTheSuites
<1>3. /\ DOMAIN m = DOMAIN command /\ m.pc = "done" /\ m.outcome = "answered"
      /\ m.cases = command.cases /\ m.selected = command.selected /\ m.left = command.left
      /\ m.ok = (command.failed = {}) /\ m.alone = command.alone
  BY <1>1, FactsOfTheSuites
<1> HIDE DEF m
<1>4. CommandForm(m) /\ BatchOver(m)
  BY <1>1, <1>2, <1>3 DEF CommandForm, BatchOver
<1>5. ReportOver(m, history)
  BY <1>1, <1>2, <1>3 DEF ExecutedSoFar, ReportOver
<1>6. CommandInv(m, suite, history)
  BY <1>3, <1>4, <1>5, WhenDone
<1> QED BY <1>1, <1>6, CommandGoesOn DEF m

LEMMA KillStep ==
  ASSUME SuiteInv, Kill
  PROVE  SuiteInv'
<1>1. /\ suite' = suite /\ held' = held /\ command' = NoCommand
      /\ history' = [c \in CaseIDs |-> Finished(history[c])]
  BY DEF Kill
<1>2. history' \in [CaseIDs -> Seq(CaseHistory)]
  <2>1. ASSUME NEW c \in CaseIDs PROVE Finished(history[c]) \in Seq(CaseHistory)
    <3>1. history[c] \in Seq(CaseHistory)
      BY FactsOfTheSuites
    <3> QED BY <3>1, RemovedFromASequence
  <2> QED BY <1>1, <2>1
<1>3. CommandInv(command', suite', history')
  BY <1>1, WhenIdle
<1> QED BY <1>1, <1>2, <1>3, FactsOfTheSuites DEF SuiteInv

(* Another catalog: the command under way is not undisturbed any more.      *)
LEMMA EditStep ==
  ASSUME SuiteInv, EditSuite
  PROVE  SuiteInv'
<1> DEFINE m == command'
           s == suite'
<1>1. /\ s \in Suites /\ history' = history /\ held' = held
      /\ m = [command EXCEPT !.quiet = @ /\ command.pc = "done"]
  BY DEF EditSuite
<1>2. /\ CommandForm(command) /\ ExecutedSoFar(command, history)
      /\ BatchOver(command) /\ ReportOver(command, history)
  BY FactsOfTheSuites
<1>3. /\ DOMAIN m = DOMAIN command /\ m.pc = command.pc /\ m.ask = command.ask
      /\ m.bundle = command.bundle /\ m.cases = command.cases /\ m.seen = command.seen
      /\ m.selected = command.selected /\ m.left = command.left /\ m.plans = command.plans
      /\ m.running = command.running /\ m.failed = command.failed
      /\ m.ok = command.ok /\ m.outcome = command.outcome /\ m.alone = command.alone
      /\ m.quiet = (command.quiet /\ command.pc = "done")
  BY <1>1, FactsOfTheSuites
<1> HIDE DEF m, s
<1>4. CommandForm(m) /\ ExecutedSoFar(m, history)
  BY <1>2, <1>3 DEF CommandForm, ExecutedSoFar
<1>5. OfTheStore(m, s) /\ PlannedSoFar(m)
  BY <1>3 DEF OfTheStore, PlannedSoFar
<1>6. BatchOver(m) /\ ReportOver(m, history)
  BY <1>2, <1>3 DEF BatchOver, ReportOver
<1>7. CommandInv(m, s, history)
  BY <1>4, <1>5, <1>6 DEF CommandInv
<1> QED BY <1>1, <1>7, FactsOfTheSuites DEF SuiteInv, m, s

(* Another run of a case: the command under way is not alone any more.      *)
LEMMA OtherRunStep ==
  ASSUME SuiteInv, OtherRun
  PROVE  SuiteInv'
<1> DEFINE m == command'
           h == history'
<1>1. /\ suite' = suite /\ held' = held /\ m = [command EXCEPT !.alone = FALSE]
      /\ \E c \in CaseIDs, status \in Results :
           \/ h = [history EXCEPT ![c] = Append(@, status)]
           \/ history[c] # <<>> /\ h = [history EXCEPT ![c] = InsertAt(@, Len(history[c]), status)]
  BY DEF OtherRun, Results
<1>2. h \in [CaseIDs -> Seq(CaseHistory)]
  <2>1. PICK c \in CaseIDs, status \in Results :
          \/ h = [history EXCEPT ![c] = Append(@, status)]
          \/ history[c] # <<>> /\ h = [history EXCEPT ![c] = InsertAt(@, Len(history[c]), status)]
    BY <1>1
  <2>2. history \in [CaseIDs -> Seq(CaseHistory)] /\ status \in CaseHistory
    BY FactsOfTheSuites DEF CaseHistory
  <2>3. history[c] \in Seq(CaseHistory)
    BY <2>2
  <2>4. Append(history[c], status) \in Seq(CaseHistory)
    BY <2>2, <2>3
  <2>5. history[c] # <<>> => InsertAt(history[c], Len(history[c]), status) \in Seq(CaseHistory)
    BY <2>2, <2>3, InsertedIntoASequence
  <2> QED BY <2>1, <2>2, <2>4, <2>5
<1>3. /\ CommandForm(command) /\ OfTheStore(command, suite) /\ PlannedSoFar(command)
      /\ ExecutedSoFar(command, history) /\ BatchOver(command)
  BY FactsOfTheSuites
<1>4. /\ DOMAIN m = DOMAIN command /\ m.pc = command.pc /\ m.ask = command.ask
      /\ m.bundle = command.bundle /\ m.cases = command.cases /\ m.seen = command.seen
      /\ m.selected = command.selected /\ m.left = command.left /\ m.plans = command.plans
      /\ m.running = command.running /\ m.failed = command.failed
      /\ m.ok = command.ok /\ m.outcome = command.outcome /\ m.quiet = command.quiet
      /\ ~m.alone
  BY <1>1, FactsOfTheSuites
<1> HIDE DEF m, h
<1>5. CommandForm(m) /\ OfTheStore(m, suite) /\ PlannedSoFar(m)
  BY <1>3, <1>4 DEF CommandForm, OfTheStore, PlannedSoFar
<1>6. ExecutedSoFar(m, h) /\ BatchOver(m) /\ ReportOver(m, h)
  BY <1>3, <1>4 DEF ExecutedSoFar, BatchOver, ReportOver
<1>7. CommandInv(m, suite, h)
  BY <1>5, <1>6 DEF CommandInv
<1> QED BY <1>1, <1>2, <1>7, FactsOfTheSuites DEF SuiteInv, m, h

LEMMA StepOfTheSuites == SuiteInv /\ [SuiteNext]_suiteVars => SuiteInv'
<1> SUFFICES ASSUME SuiteInv, [SuiteNext]_suiteVars PROVE SuiteInv'
  OBVIOUS
<1>1. CASE \E ask \in Commands : BeginCommand(ask)
  BY <1>1, BeginStep
<1>2. CASE ReadStore \/ Answer \/ AnswerPlan
  BY <1>2, ReadStep, AnswerStep, AnswerPlanStep
<1>3. CASE prepareAPICaseBatchRun \/ apiCaseBatchPlanFromCase \/ startAPICaseBatchRun
  BY <1>3, PrepareStep, PlanCaseStep, StartBatchStep
<1>4. CASE executeCaseSuiteReport \/ RunCase \/ recordTestKitRun \/ FinishReport
  BY <1>4, ExecuteReportStep, RunCaseStep, RecordStep, FinishReportStep
<1>5. CASE Kill \/ EditSuite \/ OtherRun
  BY <1>5, KillStep, EditStep, OtherRunStep
<1>6. CASE UNCHANGED suiteVars
  BY <1>6 DEF SuiteInv, suiteVars
<1> QED BY <1>1, <1>2, <1>3, <1>4, <1>5, <1>6 DEF SuiteNext

(* Whatever a suite command reads while others edit the catalog and record  *)
(* case runs: undisturbed, its catalog is the Store's, its plans are the    *)
(* selected cases planned so far, and its finished cases passed.            *)
THEOREM SuiteInvariant == SuiteSpec => []SuiteInv
<1> QED BY StartOfTheSuites, StepOfTheSuites, PTL DEF SuiteSpec

(* A batch started from an undisturbed selection runs exactly the selected  *)
(* cases but the misspelt ones and is refused only for want of cases or for *)
(* a timeout no batch allows; a report that says its cases passed is what   *)
(* the coverage report then says of them (BatchIsTheSelection and           *)
(* ReportIsCovered), for every catalog, history and number of commands.     *)
THEOREM SuitesKeepTheirWord == SuiteSpec => []SuiteKeepsItsWord
<1>1. SuiteInv => SuiteKeepsItsWord
  <2> SUFFICES ASSUME SuiteInv PROVE BatchIsTheSelection /\ ReportIsCovered
    BY DEF SuiteKeepsItsWord
  <2>1. BatchOver(command) /\ ReportOver(command, history)
    BY FactsOfTheSuites
  <2>2. BatchIsTheSelection
    BY <2>1 DEF BatchOver, BatchIsTheSelection
  <2>3. ReportIsCovered
    BY <2>1 DEF ReportOver, ReportIsCovered, Coverage
  <2> QED BY <2>2, <2>3
<1> QED BY <1>1, SuiteInvariant, PTL
=============================================================================
