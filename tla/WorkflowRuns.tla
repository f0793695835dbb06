----------------------------- MODULE WorkflowRuns -----------------------------
(***************************************************************************)
(* Case runs of the test kit, the trace topologies collected for them, the *)
(* workflow runs a client saves out of their results, and the pages read   *)
(* from both.                                                              *)
(*                                                                         *)
(* A call executes one case and records a run, a case row and evidence in  *)
(* separate Store calls; its trace is collected inside the call or by a    *)
(* goroutine that outlives it, while the trace provider is still indexing. *)
(* A save stores a run of its own and copies evidence, topologies and      *)
(* post-process tasks from the runs of its steps, one kind after the       *)
(* other; reading a step copies once more what is still missing.           *)
(*                                                                         *)
(* Run identifiers are the calls and the saves themselves; a trace is      *)
(* named by the call whose request it follows; the case of a step is the   *)
(* step.                                                                   *)
(***************************************************************************)
EXTENDS Naturals, Sequences, FiniteSets

CONSTANTS
  Calls,        \* test-kit executions
  Saves,        \* POST /api/workflow-runs
  Steps,        \* the steps of the workflow, each with its case
  CaseKind,     \* how a step's case is executed
  Requests,     \* which call is made how and for which step
  GraphQL,      \* a trace provider is configured
  Attempts,     \* attempts of one collection (15 in the code)
  StoreFaults   \* failing Store calls

KnownKinds == {"inline", "file", "foreign", "external", "absent"}

ASSUME RunsAssumption ==
  /\ CaseKind \in [Steps -> KnownKinds] /\ GraphQL \in BOOLEAN
  /\ Requests \subseteq Calls \X {"public", "trusted", "batch"} \X Steps
  /\ Attempts \in Nat \ {0} /\ StoreFaults \in Nat /\ Calls \cap Saves = {}

VARIABLES
  call,         \* [Calls -> where the execution is and what it found]
  col,          \* [Calls -> the collection of the call's trace]
  indexed,      \* calls whose trace the provider can answer for
  save,         \* [Saves -> where the save is and its payload]
  run,          \* stored runs: id -> what the row says
  cases,        \* stored case runs
  evid,         \* stored evidence
  topo,         \* stored trace topologies
  task,         \* stored post-process tasks
  page,         \* the last step page read, and what was stored before
  faults

runsVars == <<call, col, indexed, save, run, cases, evid, topo, task, page, faults>>

rows == <<run, cases, evid, topo, task>>

Runs == Calls \cup Saves
NoPage == [run |-> "none", step |-> {}, topo |-> {}, before |-> {}]

(* A row's step is {} when the call was made without a step. *)
StepOf(c) == IF call[c].via = "trusted" THEN {call[c].step} ELSE {}

RunsInit ==
  /\ call = [c \in Calls |-> [pc |-> "idle", via |-> "none", step |-> "none", out |-> "none"]]
  /\ col = [c \in Calls |-> [pc |-> "none", tries |-> 0, status |-> "none"]]
  /\ indexed = {} /\ faults = 0
  /\ save = [w \in Saves |-> [pc |-> "idle", steps |-> <<>>]]
  /\ run = [r \in Runs |-> {}]
  /\ cases = {} /\ evid = {} /\ topo = {} /\ task = {}
  /\ page = NoPage

-----------------------------------------------------------------------------
(* Executing a case                                                         *)

(* What findRunnableAPICase and executeTestKitCase can answer: a case that  *)
(* is not found, is planned for an external executor or has a bad timeout   *)
(* answers without being executed; a file case reports the identifier its   *)
(* file carries.                                                            *)
executeTestKitCase(s) ==
  CASE CaseKind[s] = "absent" -> {"rejected"}
    [] CaseKind[s] = "external" -> {"rejected", "failed"}
    [] OTHER -> {"passed", "failed", "rejected"}

(* The public handlers refuse every field that names a workflow, a step or  *)
(* a run; only calls made in the process carry them.                        *)
Begin(c, via, s) ==
  /\ call[c].pc = "idle"
  /\ call' = [call EXCEPT ![c] = [pc |-> "executing", via |-> via, step |-> s, out |-> "none"]]
  /\ UNCHANGED <<col, indexed, save, rows, page, faults>>

(* A rejected single run ends here; a batch records it as failed.           *)
testKitCaseResult(c) ==
  /\ call[c].pc = "executing"
  /\ \E out \in executeTestKitCase(call[c].step) :
       call' = [call EXCEPT
         ![c].out = IF out = "rejected" /\ call[c].via = "batch" THEN "failed" ELSE out,
         ![c].pc = IF out = "rejected" /\ call[c].via # "batch" THEN "answered" ELSE "recording"]
  /\ UNCHANGED <<col, indexed, save, rows, page, faults>>

(* The file runner's result is handed to the recorder, which refuses one    *)
(* that names another case; otherwise the recorder writes the files itself. *)
takeTestKitAPICaseRunResult(c) == CaseKind[call[c].step] # "foreign"

RunRow(kind, status, steps) == {[kind |-> kind, status |-> status, steps |-> steps]}
Entry(s, src, out, tr) == [step |-> s, src |-> src, out |-> out, trace |-> tr]

(* runtime.CreateRun, the first row of a recorded case run.                 *)
CreateCaseRun(c) ==
  /\ call[c].pc = "recording"
  /\ IF takeTestKitAPICaseRunResult(c)
     THEN /\ run' = [run EXCEPT ![c] =
               RunRow("apiCase", call[c].out,
                      IF call[c].via = "trusted"
                      THEN <<Entry(call[c].step, {}, call[c].out, {})>> ELSE <<>>)]
          /\ call' = [call EXCEPT ![c].pc = "case"]
     ELSE call' = [call EXCEPT ![c].pc = "error"] /\ UNCHANGED run
  /\ UNCHANGED <<col, indexed, save, cases, evid, topo, task, page, faults>>

RecordAPICaseRun(c) ==
  /\ call[c].pc = "case"
  /\ cases' = cases \cup {[run |-> c, at |-> 0, case |-> call[c].step, status |-> call[c].out]}
  /\ call' = [call EXCEPT ![c].pc = "evidence"]
  /\ UNCHANGED <<col, indexed, save, run, evid, topo, task, page, faults>>

(* One record per evidence file; the error file exists for failures only.   *)
EvidenceKinds(out) == {"case"} \cup (IF out = "failed" THEN {"error"} ELSE {})
recordAPICaseEvidenceRecords(c) ==
  /\ call[c].pc = "evidence"
  /\ evid' = evid \cup {[run |-> c, at |-> 0, step |-> StepOf(c), case |-> call[c].step,
                         kind |-> k, from |-> c] : k \in EvidenceKinds(call[c].out)}
  /\ call' = [call EXCEPT ![c].pc = "trace"]
  /\ UNCHANGED <<col, indexed, save, run, cases, topo, task, page, faults>>

(* A failing Store call ends the recording with what is stored so far.      *)
RecordFails(c) ==
  /\ faults < StoreFaults /\ faults' = faults + 1
  /\ call[c].pc \in {"recording", "case", "evidence"}
  /\ call' = [call EXCEPT ![c].pc = "error"]
  /\ UNCHANGED <<col, indexed, save, rows, page>>

-----------------------------------------------------------------------------
(* Collecting the trace                                                     *)

TaskOf(r, s, status) == [run |-> r, step |-> s, kind |-> "trace", status |-> status]
(* Task rows are replaced by identifier: run, step and kind.                *)
RecordPostProcessTasks(new) ==
  {t \in task : ~\E n \in new : n.run = t.run /\ n.step = t.step /\ n.kind = t.kind} \cup new

(* Only passed results of single runs are traced; a missing provider is     *)
(* recorded as a skipped task. A call with workflow and step waits for its  *)
(* collection, any other answers at once and leaves it to a goroutine.      *)
testKitTraceTopologyCollectPayload(c) == call[c].out = "passed" /\ call[c].via # "batch"
StartTrace(c) ==
  /\ call[c].pc = "trace"
  /\ LET collects == testKitTraceTopologyCollectPayload(c)
         waits == collects /\ GraphQL /\ call[c].via = "trusted"
     IN  /\ call' = [call EXCEPT ![c].pc = IF waits THEN "waiting" ELSE "answered"]
         /\ col' = IF collects /\ GraphQL THEN [col EXCEPT ![c].pc = "running"] ELSE col
         /\ task' = IF collects /\ ~GraphQL
                    THEN RecordPostProcessTasks({TaskOf(c, StepOf(c), "skipped")}) ELSE task
  /\ UNCHANGED <<indexed, save, run, cases, evid, topo, page, faults>>

(* The provider indexes the trace of an executed request some time later.   *)
Index(c) ==
  /\ call[c].out = "passed" /\ c \notin indexed
  /\ indexed' = indexed \cup {c}
  /\ UNCHANGED <<call, col, save, rows, page, faults>>

Topology(r, s, c, tr) == [run |-> r, step |-> s, case |-> call[c].step, trace |-> tr]

(* collectTraceTopology: the run must be stored and the provider must know  *)
(* a trace with spans; the topology is saved under the call's run.          *)
collectTraceTopology(c) ==
  /\ run[c] # {} /\ c \in indexed
  /\ topo' = topo \cup {Topology(c, StepOf(c), c, c)}

(* An attempt that finds nothing is repeated a second later, at most        *)
(* Attempts times and until the fifteen seconds are over; any other error   *)
(* of the provider ends the collection.                                     *)
collectTraceTopologyWithRetry(c) ==
  /\ col[c].pc = "running"
  /\ \/ /\ collectTraceTopology(c)
        /\ col' = [col EXCEPT ![c].pc = "ended", ![c].status = "passed"]
     \/ /\ c \notin indexed
        /\ col' = [col EXCEPT ![c] = IF @.tries + 1 >= Attempts
                     THEN [pc |-> "ended", tries |-> Attempts, status |-> "failed"]
                     ELSE [@ EXCEPT !.tries = @ + 1]]
        /\ UNCHANGED topo
  /\ UNCHANGED <<call, indexed, save, run, cases, evid, task, page, faults>>

(* The context of an inline collection is the request's: a client that goes *)
(* away, like the timeout and a provider error, ends it as failed.          *)
CollectCancelled(c) ==
  /\ col[c].pc = "running"
  /\ col' = [col EXCEPT ![c].pc = "ended", ![c].status = "failed"]
  /\ UNCHANGED <<call, indexed, save, rows, page, faults>>

(* The deferred record of the collection, written with a context of its     *)
(* own; the error of the Store is dropped.                                  *)
recordTestKitTraceTopologyTask(c) ==
  /\ col[c].pc = "ended"
  /\ col' = [col EXCEPT ![c].pc = "done"]
  /\ \/ /\ task' = RecordPostProcessTasks({TaskOf(c, StepOf(c), col[c].status)})
        /\ UNCHANGED faults
     \/ faults < StoreFaults /\ faults' = faults + 1 /\ UNCHANGED task
  /\ call' = [call EXCEPT ![c].pc = IF @ = "waiting" THEN "answered" ELSE @]
  /\ UNCHANGED <<indexed, save, run, cases, evid, topo, page>>

(* POST of a collection for a run, with or without a step: one attempt, and *)
(* a task for it whatever it finds. No provider, an unknown run, an error   *)
(* of the provider, a trace without spans and a failing save fail it; the   *)
(* error of the task's own record is dropped.                               *)
CollectTraceTopologyPayload(c) ==
  /\ call[c].pc = "answered"
  /\ \E status \in {"passed", "failed"} :
       /\ IF status = "passed" THEN GraphQL /\ collectTraceTopology(c) ELSE UNCHANGED topo
       /\ \/ /\ task' = RecordPostProcessTasks({TaskOf(c, StepOf(c), status)})
             /\ UNCHANGED faults
          \/ faults < StoreFaults /\ faults' = faults + 1 /\ UNCHANGED task
  /\ UNCHANGED <<call, col, indexed, save, run, cases, evid, page>>

-----------------------------------------------------------------------------
(* Saving a workflow run                                                    *)

(* The result of an answered call as a client repeats it: its run, when one *)
(* was recorded, and the topology an inline collection put into it.         *)
ResultOf(c) ==
  Entry(call[c].step, IF run[c] # {} THEN {c} ELSE {}, call[c].out,
        IF call[c].via = "trusted" /\ col[c] # [pc |-> "none", tries |-> 0, status |-> "none"]
             /\ col[c].status = "passed" THEN {c} ELSE {})

Answered == {c \in Calls : call[c].pc = "answered"}
workflowRunStatus(es) == IF \A i \in DOMAIN es : es[i].out = "passed" THEN "passed" ELSE "failed"

(* handleSaveWorkflowRun stores the run first, under the status the client  *)
(* sends.                                                                   *)
SaveRun(w, es) ==
  /\ save[w].pc = "idle"
  /\ run' = [run EXCEPT ![w] = RunRow("workflow", workflowRunStatus(es), es)]
  /\ save' = [save EXCEPT ![w] = [pc |-> "cases", steps |-> es]]
  /\ UNCHANGED <<call, col, indexed, cases, evid, topo, task, page, faults>>

recordWorkflowRunStepCases(w) ==
  /\ save[w].pc = "cases"
  /\ cases' = cases \cup {[run |-> w, at |-> i, case |-> save[w].steps[i].step,
                           status |-> save[w].steps[i].out] : i \in DOMAIN save[w].steps}
  /\ save' = [save EXCEPT ![w].pc = "evidence"]
  /\ UNCHANGED <<call, col, indexed, run, evid, topo, task, page, faults>>

(* Rows of the source runs that are about the step and its case; rows       *)
(* without a step match every step.                                         *)
Matches(row, e) == row.step \subseteq {e.step} /\ row.case = e.step

(* workflowStepCopySources: the run the step names, unless it is the saved  *)
(* run itself, filtered by step and case.                                   *)
workflowStepSources(w, e, table) == {row \in table : row.run \in e.src \ {w} /\ Matches(row, e)}

CopiedEvidence(w, i) ==
  {[run |-> w, at |-> i, step |-> {save[w].steps[i].step}, case |-> row.case, kind |-> row.kind,
    from |-> row.from] : row \in workflowStepSources(w, save[w].steps[i], evid)}

(* Evidence rows are inserted, never replaced: their identifier is run,     *)
(* step and kind, so a second entry for a step ends the save with an error. *)
copyWorkflowRunStepEvidence(w) ==
  /\ save[w].pc = "evidence"
  /\ LET copies(i) == CopiedEvidence(w, i)
         n == Len(save[w].steps)
         clash(i) == \E j \in 1..(i - 1) : \E a \in copies(i), b \in copies(j) :
                       a.step = b.step /\ a.kind = b.kind
         bad == {i \in 1..n : clash(i)}
         upTo == IF bad = {} THEN n ELSE (CHOOSE i \in bad : \A j \in bad : i <= j) - 1
     IN  /\ evid' = evid \cup UNION {copies(i) : i \in 1..upTo}
         /\ save' = [save EXCEPT ![w].pc = IF bad = {} THEN "topologies" ELSE "error"]
  /\ UNCHANGED <<call, col, indexed, run, cases, topo, task, page, faults>>

(* The topology a result carries, then those stored for its run; rows are   *)
(* replaced by run, step and trace.                                         *)
copyWorkflowStepTraceTopologiesFromSources(w, e) ==
  {[run |-> w, step |-> {e.step}, case |-> e.step, trace |-> t] :
     t \in e.trace \cup {row.trace : row \in workflowStepSources(w, e, topo)}}

copyWorkflowRunStepTraceTopologies(w) ==
  /\ save[w].pc = "topologies"
  /\ topo' = topo \cup UNION {copyWorkflowStepTraceTopologiesFromSources(w, save[w].steps[i]) :
                                i \in DOMAIN save[w].steps}
  /\ save' = [save EXCEPT ![w].pc = "tasks"]
  /\ UNCHANGED <<call, col, indexed, run, cases, evid, task, page, faults>>

copyWorkflowStepPostProcessTasksFromSources(w, e) ==
  {TaskOf(w, {e.step}, t.status) :
     t \in {x \in task : x.run \in e.src \ {w} /\ x.step \subseteq {e.step}}}

(* A step listed twice keeps the tasks of its last entry.                   *)
copyWorkflowRunStepPostProcessTasks(w) ==
  /\ save[w].pc = "tasks"
  /\ LET n == Len(save[w].steps)
         copies(i) == copyWorkflowStepPostProcessTasksFromSources(w, save[w].steps[i])
     IN  task' = RecordPostProcessTasks(UNION {copies(i) : i \in {i \in 1..n :
                   ~\E j \in (i + 1)..n : save[w].steps[j].step = save[w].steps[i].step
                                            /\ copies(j) # {}}})
  /\ save' = [save EXCEPT ![w].pc = "ok"]
  /\ UNCHANGED <<call, col, indexed, run, cases, evid, topo, page, faults>>

(* A failing Store call answers 500 and leaves the run with what was copied.*)
SaveFails(w) ==
  /\ faults < StoreFaults /\ faults' = faults + 1
  /\ save[w].pc \in {"cases", "evidence", "topologies", "tasks"}
  /\ save' = [save EXCEPT ![w].pc = "error"]
  /\ UNCHANGED <<call, col, indexed, rows, page>>

-----------------------------------------------------------------------------
(* Reading                                                                  *)

(* workflowRunStep: the first entry of the stored summary for the step.     *)
StepsOf(r) == UNION {x.steps : x \in {[steps |-> {row.steps[i] : i \in DOMAIN row.steps}] : row \in run[r]}}
workflowRunStep(r, s) ==
  LET es == (CHOOSE row \in run[r] : TRUE).steps
      i == CHOOSE i \in DOMAIN es : es[i].step = s /\ \A j \in 1..(i - 1) : es[j].step # s
  IN  es[i]
HasStep(r, s) == \E e \in StepsOf(r) : e.step = s

(* The run whose page is read: the one asked for, or for "latest" a run of  *)
(* the workflow with the step, one with an HTTP result if there is any.     *)
HasHTTPResult(r, s) == workflowRunStep(r, s).out \in {"passed", "failed"}
LatestWorkflowStepRun(s) ==
  LET with == {r \in Runs : HasStep(r, s)}
      http == {r \in with : HasHTTPResult(r, s)}
  IN  IF http # {} THEN http ELSE with

(* Mutant of workflowRunTraceTopologiesOrCopy: the copies made at the save  *)
(* are all a page shows.                                                    *)
TopologiesAsSaved(r, s) == {row \in topo : row.run = r /\ row.step = {s}}

(* The stored topologies of the step, or else the ones its sources have.    *)
workflowRunTraceTopologiesOrCopy(r, s) ==
  LET own == {row \in topo : row.run = r /\ row.step = {s}}
  IN  IF own # {} THEN own
      ELSE copyWorkflowStepTraceTopologiesFromSources(r, workflowRunStep(r, s))

workflowRunPostProcessTasksOrCopy(r, s) ==
  LET own == {t \in task : t.run = r /\ t.step = {s}}
  IN  IF own # {} THEN own
      ELSE copyWorkflowStepPostProcessTasksFromSources(r, workflowRunStep(r, s))

(* WorkflowStepRunPayloadForRun reads, and copies, topologies first and     *)
(* tasks after them. "before" is what the collection of the step's call had *)
(* stored when the page was opened.                                         *)
ReadTopologies(r, s) ==
  /\ page = NoPage /\ HasStep(r, s)
  /\ LET shown == workflowRunTraceTopologiesOrCopy(r, s) IN
     /\ topo' = topo \cup shown
     /\ page' = [run |-> r, step |-> {s}, topo |-> {row.trace : row \in shown},
                 before |-> {row.trace : row \in {x \in topo : x.run \in workflowRunStep(r, s).src}}]
  /\ UNCHANGED <<call, col, indexed, save, run, cases, evid, task, faults>>

ReadTasks ==
  /\ \E s \in page.step : task' = RecordPostProcessTasks(workflowRunPostProcessTasksOrCopy(page.run, s))
  /\ page' = NoPage
  /\ UNCHANGED <<call, col, indexed, save, run, cases, evid, topo, faults>>

(* handleWorkflowStepRun and handleLatestWorkflowStepRun.                   *)
handleWorkflowStepRun == \E r \in Saves, s \in Steps : ReadTopologies(r, s)
handleLatestWorkflowStepRun == \E s \in Steps : \E r \in LatestWorkflowStepRun(s) : ReadTopologies(r, s)

-----------------------------------------------------------------------------
(* A client saves the results of one or two answered calls.                 *)
Payloads == {<<ResultOf(c)>> : c \in Answered} \cup
            {<<ResultOf(p[1]), ResultOf(p[2])>> : p \in {q \in Answered \X Answered : q[1] # q[2]}}

RunsNext ==
  \/ \E c \in Calls :
       \/ \E q \in Requests : q[1] = c /\ Begin(c, q[2], q[3])
       \/ testKitCaseResult(c) \/ CreateCaseRun(c) \/ RecordAPICaseRun(c)
       \/ recordAPICaseEvidenceRecords(c) \/ RecordFails(c) \/ StartTrace(c) \/ Index(c)
       \/ collectTraceTopologyWithRetry(c) \/ CollectCancelled(c)
       \/ recordTestKitTraceTopologyTask(c) \/ CollectTraceTopologyPayload(c)
  \/ \E w \in Saves :
       \/ \E es \in Payloads : SaveRun(w, es)
       \/ recordWorkflowRunStepCases(w) \/ copyWorkflowRunStepEvidence(w)
       \/ copyWorkflowRunStepTraceTopologies(w) \/ copyWorkflowRunStepPostProcessTasks(w)
       \/ SaveFails(w)
  \/ handleWorkflowStepRun \/ handleLatestWorkflowStepRun \/ ReadTasks

(* A goroutine that was started runs, and its deferred record with it.      *)
RunsFairness ==
  \A c \in Calls :
    WF_runsVars(collectTraceTopologyWithRetry(c) \/ recordTestKitTraceTopologyTask(c))

RunsSpec == RunsInit /\ [][RunsNext]_runsVars /\ RunsFairness

-----------------------------------------------------------------------------
(* A page of a saved step that was opened after the collection for the      *)
(* step's call had stored a topology shows a topology, whether the save     *)
(* came before or after the collection, completed or failed on its way.     *)
PageShowsTrace == page.before # {} => page.topo # {}

=============================================================================
