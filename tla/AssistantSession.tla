-------------------------- MODULE AssistantSession --------------------------
(***************************************************************************)
(* The analyses of the map assistant: the desktop's controller, which runs *)
(* one analysis at a time in a worker process, and the control plane,      *)
(* which keeps its session and answers its tools from the Store.           *)
(*                                                                         *)
(* The Store holds the map, which others edit at any time, and one row per *)
(* session, replaced only at the revision the writer names.  Every handler *)
(* of the control plane reads the session, then the map, then writes, each *)
(* in a Store call of its own.  A read of a session that is running but    *)
(* not in this controller marks it interrupted; it may come between the    *)
(* start of an analysis and its first write.                               *)
(***************************************************************************)
EXTENDS Naturals, Sequences, FiniteSets, Functions

CONSTANTS
  Sessions,       \* the sessions of this desktop
  Maps,           \* the contents the map can take: [profile, nodes, paths]
  CaseRuns,       \* the stored case runs: [id, profile, case, node, evidence]
  Focuses,        \* the selections an analysis starts with: [node, path]
  Args,           \* the arguments the model gives: [node, path, run, query]
  Tools,          \* the tools the model calls
  ToolCalls,      \* the tool calls of one analysis
  Starts,         \* the analyses a user starts
  Edits,          \* the edits of the map
  RequestFaults   \* the requests that fail or lose their answer, and the crashes

VARIABLES
  graph,      \* the map as it is stored
  row,        \* the sessions as they are stored
  job,        \* the controller's analysis
  worker,     \* the worker process of the analysis
  put,        \* who writes a session -> the request it waits for
  tool,       \* the tool request the analysis waits for
  view,       \* the session a panel is opening
  budget      \* what is left of Starts, Edits and RequestFaults

sessionVars == <<graph, row, job, worker, put, tool, view, budget>>

Writers == {"owner", "viewer"}
Ended == {"completed", "failed", "cancelled", "interrupted"}
NodeIds(g) == {n.id : n \in g.nodes}

ASSUME SessionAssumption ==
  /\ Tools \subseteq {"map.read", "runs.list", "evidence.read", "plan.explain", "node.explain"}
  /\ ToolCalls \in Nat /\ Starts \in Nat /\ Edits \in Nat /\ RequestFaults \in Nat
  /\ \A g \in Maps : \A p \in DOMAIN g.paths : g.paths[p] \subseteq NodeIds(g)

-----------------------------------------------------------------------------
(* What the tools read.  A receipt is the set of references it supports,    *)
(* before the cuts that long answers get.                                   *)

Everything == [node |-> "", path |-> ""]

(* collectedReferences: "ran" is the node a case run was stored with, which *)
(* a finding may name and not refer to; the other kinds it may refer to.    *)
References(kind, ids) == {<<kind, i>> : i \in ids}

(* The arguments of a tool override the selection of the session.           *)
Selected(focus, args) ==
  [node |-> IF args.node = "" THEN focus.node ELSE args.node,
   path |-> IF args.path = "" THEN focus.path ELSE args.path]

(* assistantGraphSelection                                                  *)
assistantGraphSelection(g, f) ==
  f.node \in NodeIds(g) \cup {""} /\ f.path \in DOMAIN g.paths \cup {""}

FocusNodes(g, f) == IF f.path = "" THEN {} ELSE g.paths[f.path]

(* The nodes map.read shows: those of the path and their variants; when a   *)
(* node is selected, that node and its variants; those a query finds.       *)
assistantMapContext(g, f, query) ==
  LET shown == {n \in g.nodes :
        IF query # "" THEN query \in n.words
        ELSE IF f.node # "" THEN f.node \in {n.id, n.anchor}
        ELSE f.path = "" \/ {n.id, n.anchor} \cap FocusNodes(g, f) # {}}
  IN References("node", {n.id : n \in shown}) \cup References("path", DOMAIN g.paths)

CasesOf(nodes) == UNION {{n.case, n.base} : n \in nodes} \ {""}

(* runs.list and evidence.read: the runs of the map's profile whose case is *)
(* a case of the selected nodes, whichever map and content they ran for.    *)
assistantCaseEvidence(g, f, run, detail) ==
  LET cases == CasesOf({n \in g.nodes :
        /\ f.node \in {"", n.id}
        /\ f.path = "" \/ {n.id, n.anchor} \cap FocusNodes(g, f) # {}})
      runs == {r \in CaseRuns : r.profile = g.profile /\ r.case \in cases /\ run \in {"", r.id}}
  IN References("run", {r.id : r \in runs})
       \cup References("ran", {r.node : r \in runs} \ {""})
       \cup References("evidence", IF detail THEN UNION {r.evidence : r \in runs} ELSE {})

(* plan.explain: which nodes the planner schedules is the map planner's     *)
(* subject; the model may cite any of the map.                              *)
PlanPreview(g) == References("node", NodeIds(g)) \cup {<<"plan", "preview">>}

(* node.explain supports no reference, nor does a tool that fails.          *)
ToolData(action, g, f, args) ==
  CASE action = "map.read" -> assistantMapContext(g, f, args.query)
    [] action = "runs.list" -> assistantCaseEvidence(g, f, args.run, FALSE)
    [] action = "evidence.read" -> assistantCaseEvidence(g, f, args.run, TRUE)
    [] action = "plan.explain" -> PlanPreview(g)
    [] action = "node.explain" -> {}

-----------------------------------------------------------------------------
NoJob == [pc |-> "none"]
NoWorker == [state |-> "none", calls |-> 0, refs |-> {}, read |-> FALSE]
NoPut == [w \in Writers |-> {}]

(* The session of an analysis whose desktop was killed.                     *)
Killed(g) ==
  [rev |-> 1, status |-> "running", fp |-> {g}, receipts |-> {}, focus |-> Everything,
   profile |-> g.profile]

SessionInit ==
  /\ graph \in Maps
  /\ job = NoJob /\ worker = NoWorker /\ put = NoPut /\ tool = {} /\ view = {}
  /\ \/ /\ row = [s \in Sessions |-> {}]
        /\ budget = [starts |-> Starts, edits |-> Edits, faults |-> RequestFaults]
     \/ /\ \E s \in Sessions, g \in Maps :
             row = [[t \in Sessions |-> {}] EXCEPT ![s] = {Killed(g)}]
        /\ budget = [starts |-> Starts, edits |-> Edits, faults |-> RequestFaults - 1]

Spend(what) == budget[what] > 0 /\ budget' = [budget EXCEPT ![what] = @ - 1]

TheRow(s) == CHOOSE r \in row[s] : TRUE
Request(w) == CHOOSE p \in put[w] : TRUE

(* persist: the request a writer sends, from its copy of the session.       *)
persist(w, s, rev, status, receipts, focus) ==
  /\ put[w] = {}
  /\ put' = [put EXCEPT ![w] = {[id |-> s, rev |-> rev, status |-> status, receipts |-> receipts,
                                 focus |-> focus, begins |-> FALSE, fp |-> {}, step |-> "sent"]}]

-----------------------------------------------------------------------------
(* The control plane: PUT /api/assistant/session and POST /api/assistant/tool *)

AtStep(w, step) == put[w] # {} /\ Request(w).step = step
Advance(w, req) == put' = [put EXCEPT ![w] = {req}]

Begins(req, seen) == req.status = "running" /\ seen.status # "running"

(* The handler reads the session and keeps its fingerprint...               *)
PutRead(w) ==
  LET req == Request(w)
      seen == TheRow(req.id)
      needsMap == req.status = "completed" \/ Begins(req, seen)
  IN /\ AtStep(w, "sent")
     /\ Advance(w, [req EXCEPT !.step = IF needsMap THEN "read" ELSE "ready",
                               !.begins = Begins(req, seen), !.fp = seen.fp])
     /\ UNCHANGED <<graph, row, job, worker, tool, view, budget>>

(* ... takes the fingerprint of the map when an analysis begins, refuses a  *)
(* result for a changed map...                                              *)
PutCheck(w) ==
  LET req == Request(w)
      fp == IF req.begins THEN {graph} ELSE req.fp
      refused == \/ req.begins /\ graph.profile # TheRow(req.id).profile
                 \/ req.status = "completed" /\ fp # {graph}
  IN /\ AtStep(w, "read")
     /\ Advance(w, [req EXCEPT !.step = IF refused THEN "refused" ELSE "ready", !.fp = fp])
     /\ UNCHANGED <<graph, row, job, worker, tool, view, budget>>

(* UpdateAssistantSession                                                   *)
UpdateAssistantSession(req) ==
  IF req.rev = TheRow(req.id).rev
  THEN row' = [row EXCEPT ![req.id] =
         {[rev |-> req.rev + 1, status |-> req.status, fp |-> req.fp, receipts |-> req.receipts,
           focus |-> req.focus, profile |-> TheRow(req.id).profile]}]
  ELSE row' = row

(* ... and replaces the row of the revision its client names.               *)
PutWrite(w) ==
  LET req == Request(w)
  IN /\ AtStep(w, "ready")
     /\ UpdateAssistantSession(req)
     /\ Advance(w, [req EXCEPT !.step = IF row' = row THEN "refused" ELSE "ok"])
     /\ UNCHANGED <<graph, job, worker, tool, view, budget>>

(* A request that never arrives, or whose answer does not come back.        *)
PutLost(w) ==
  /\ \/ AtStep(w, "sent")
     \/ AtStep(w, "ok")
  /\ Spend("faults")
  /\ Advance(w, [Request(w) EXCEPT !.step = "refused"])
  /\ UNCHANGED <<graph, row, job, worker, tool, view>>

HasAnswer(w) == AtStep(w, "ok") \/ AtStep(w, "refused")

(* The tool handler reads the session...                                    *)
ToolRead ==
  /\ tool # {} /\ \A t \in tool : t.seen = {}
  /\ tool' = {[t EXCEPT !.seen = row[job.id]] : t \in tool}
  /\ UNCHANGED <<graph, row, job, worker, put, view, budget>>

(* Mutant of ToolAllowed: the map is not compared with the one the analysis *)
(* began with.                                                              *)
ToolAllowedAnyMap(seen, args) ==
  graph.profile = seen.profile /\ assistantGraphSelection(graph, Selected(seen.focus, args))

(* ... and serves only the map the analysis began with, and a selection it  *)
(* has.                                                                     *)
ToolAllowed(seen, args) ==
  /\ graph.profile = seen.profile
  /\ seen.fp \in {{}, {graph}}
  /\ assistantGraphSelection(graph, Selected(seen.focus, args))

-----------------------------------------------------------------------------
(* The controller                                                           *)

RunningHas(s) == job.pc \in {"active", "closing", "saving"} /\ job.id = s

(* start: refused while an analysis is starting or running.                 *)
start(s, f) ==
  /\ job.pc = "none"
  /\ Spend("starts")
  /\ job' = [pc |-> "open", id |-> s, focus |-> f, rev |-> 0, queue |-> <<>>,
             cancelled |-> FALSE, status |-> "running", receipts |-> {}]
  /\ UNCHANGED <<graph, row, worker, put, tool, view>>

(* createAssistantSession: begin's POST for a new conversation.             *)
createAssistantSession ==
  /\ job.pc = "open" /\ row[job.id] = {}
  /\ row' = [row EXCEPT ![job.id] =
       {[rev |-> 1, status |-> "idle", fp |-> {}, receipts |-> {},
         focus |-> Everything, profile |-> graph.profile]}]
  /\ job' = [job EXCEPT !.pc = "opened", !.rev = 1]
  /\ UNCHANGED <<graph, worker, put, tool, view, budget>>

(* begin's session(): a stored analysis nobody runs is first interrupted.   *)
OpenSession ==
  LET r == TheRow(job.id)
  IN /\ job.pc = "open" /\ row[job.id] # {}
     /\ IF r.status = "running"
        THEN /\ job' = [job EXCEPT !.pc = "mark", !.rev = r.rev]
             /\ persist("owner", job.id, r.rev, "interrupted", r.receipts, r.focus)
        ELSE job' = [job EXCEPT !.pc = "opened", !.rev = r.rev] /\ UNCHANGED put
     /\ UNCHANGED <<graph, row, worker, tool, view, budget>>

(* begin resets the receipts and stores the session as running.               *)
PersistRunning ==
  /\ job.pc = "opened"
  /\ persist("owner", job.id, job.rev, "running", {}, job.focus)
  /\ job' = [job EXCEPT !.pc = "begin"]
  /\ UNCHANGED <<graph, row, worker, tool, view, budget>>

(* The answers begin waits for; a refusal ends the start.                   *)
BeginAnswer ==
  LET ok == AtStep("owner", "ok")
  IN /\ job.pc \in {"mark", "begin"} /\ HasAnswer("owner")
     /\ put' = [put EXCEPT !["owner"] = {}]
     /\ CASE ~ok -> job' = NoJob /\ UNCHANGED worker
          [] ok /\ job.pc = "mark" ->
               job' = [job EXCEPT !.pc = "opened", !.rev = @ + 1] /\ UNCHANGED worker
          [] ok /\ job.pc = "begin" ->
               /\ job' = [job EXCEPT !.pc = "active", !.rev = @ + 1]
               /\ worker' = [NoWorker EXCEPT !.state = "thinking"]
     /\ UNCHANGED <<graph, row, tool, view, budget>>

(* finish: settled once; kills the worker.                                  *)
finish(status, receipts) ==
  /\ job' = [job EXCEPT !.pc = "closing", !.status = status, !.receipts = receipts]
  /\ worker' = NoWorker

-----------------------------------------------------------------------------
(* The worker: runAssistant                                                 *)

(* A tool call: an event and the call, in the order of the queue.           *)
CallTool(action) ==
  /\ job.pc = "active" /\ worker.state = "thinking" /\ worker.calls < ToolCalls
  /\ worker' = [worker EXCEPT !.state = "waiting", !.calls = @ + 1]
  /\ job' = [job EXCEPT !.queue = @ \o <<"event", action>>]
  /\ UNCHANGED <<graph, row, put, tool, view, budget>>

(* validateAnalysis: the model must have read the map.  What it may cite is *)
(* what its receipts support, which are stored with the result and stand    *)
(* for it here.                                                             *)
validateAnalysis == worker.read

WorkerDone ==
  /\ job.pc = "active" /\ worker.state = "thinking"
  /\ validateAnalysis
  /\ finish("completed", worker.refs)
  /\ UNCHANGED <<graph, row, put, tool, view, budget>>

(* An error of the model or of the validation.                              *)
WorkerError ==
  /\ job.pc = "active" /\ worker.state = "thinking"
  /\ finish("failed", {})
  /\ UNCHANGED <<graph, row, put, tool, view, budget>>

WorkerExit ==
  /\ job.pc = "active"
  /\ finish("interrupted", {})
  /\ UNCHANGED <<graph, row, put, tool, view, budget>>

(* The total time limit of an analysis.                                     *)
TimerFires ==
  /\ job.pc = "active"
  /\ finish("failed", {})
  /\ UNCHANGED <<graph, row, put, tool, view, budget>>

(* cancel: also of an analysis that is already closing.                     *)
cancel ==
  /\ job.pc \in {"active", "closing"} /\ ~job.cancelled
  /\ IF job.pc = "active"
     THEN /\ job' = [job EXCEPT !.pc = "closing", !.status = "cancelled", !.cancelled = TRUE]
          /\ worker' = NoWorker
     ELSE job' = [job EXCEPT !.cancelled = TRUE] /\ UNCHANGED worker
  /\ UNCHANGED <<graph, row, put, tool, view, budget>>

-----------------------------------------------------------------------------
(* The queue of events to store and tools to call, one at a time            *)

enqueued == job.pc \in {"active", "closing"} /\ job.queue # <<>>

RunQueue ==
  /\ enqueued /\ put["owner"] = {} /\ tool = {}
  /\ IF Head(job.queue) = "event"
     THEN persist("owner", job.id, job.rev, "running", {}, job.focus) /\ UNCHANGED tool
     ELSE /\ \E args \in Args : tool' = {[action |-> Head(job.queue), args |-> args, seen |-> {}]}
          /\ UNCHANGED put
  /\ UNCHANGED <<graph, row, job, worker, view, budget>>

(* An event that cannot be stored breaks the queue and fails the analysis.  *)
EventAnswer ==
  /\ enqueued /\ Head(job.queue) = "event" /\ HasAnswer("owner")
  /\ put' = [put EXCEPT !["owner"] = {}]
  /\ IF AtStep("owner", "ok")
     THEN job' = [job EXCEPT !.rev = @ + 1, !.queue = Tail(@)] /\ UNCHANGED worker
     ELSE /\ job' = [job EXCEPT !.queue = <<>>, !.pc = "closing",
                                !.status = IF job.pc = "active" THEN "failed" ELSE @]
          /\ worker' = NoWorker
  /\ UNCHANGED <<graph, row, tool, view, budget>>

(* The answer of a tool goes to the worker, if there still is one, which    *)
(* records a receipt and reports it in an event.                            *)
ToolAnswer ==
  /\ \E t \in tool :
       LET seen == CHOOSE r \in t.seen : TRUE
           ok == ToolAllowed(seen, t.args)
           data == ToolData(t.action, graph, Selected(seen.focus, t.args), t.args)
       IN /\ t.seen # {}
          /\ IF worker.state = "waiting"
             THEN /\ job' = [job EXCEPT !.queue = Tail(@) \o <<"event">>]
                  /\ worker' = [worker EXCEPT
                       !.state = "thinking",
                       !.refs = @ \cup (IF ok THEN data ELSE {}),
                       !.read = @ \/ (ok /\ t.action = "map.read")]
             ELSE job' = [job EXCEPT !.queue = Tail(@)] /\ UNCHANGED worker
  /\ tool' = {}
  /\ UNCHANGED <<graph, row, put, view, budget>>

(* The rest of finish: once the queue is empty or broken, the outcome is    *)
(* stored.                                                                  *)
PersistOutcome ==
  LET status == IF job.cancelled THEN "cancelled" ELSE job.status
  IN /\ job.pc = "closing" /\ job.queue = <<>> /\ tool = {}
     /\ persist("owner", job.id, job.rev, status,
                IF status = "completed" THEN job.receipts ELSE {}, job.focus)
     /\ job' = [job EXCEPT !.pc = "saving"]
     /\ UNCHANGED <<graph, row, worker, tool, view, budget>>

(* Mutant of OutcomeAnswer: an outcome that is not stored keeps the         *)
(* analysis in the map of running ones.                                     *)
OutcomeAnswerStored == AtStep("owner", "ok") /\ job.pc = "saving"
  /\ put' = [put EXCEPT !["owner"] = {}]
  /\ job' = NoJob
  /\ UNCHANGED <<graph, row, worker, tool, view, budget>>

(* Stored or not, the analysis is over for this controller.                 *)
OutcomeAnswer ==
  /\ job.pc = "saving" /\ HasAnswer("owner")
  /\ put' = [put EXCEPT !["owner"] = {}]
  /\ job' = NoJob
  /\ UNCHANGED <<graph, row, worker, tool, view, budget>>

-----------------------------------------------------------------------------
(* A panel opens a session; the map is edited; the desktop is killed.       *)

ViewRead(s) ==
  /\ view = {} /\ put["viewer"] = {} /\ row[s] # {}
  /\ TheRow(s).status = "running"
  /\ view' = {[id |-> s, seen |-> TheRow(s)]}
  /\ UNCHANGED <<graph, row, job, worker, put, tool, budget>>

(* session                                                                  *)
session ==
  /\ \E v \in view :
       IF RunningHas(v.id) THEN UNCHANGED put
       ELSE persist("viewer", v.id, v.seen.rev, "interrupted", v.seen.receipts, v.seen.focus)
  /\ view' = {}
  /\ UNCHANGED <<graph, row, job, worker, tool, budget>>

ViewAnswer ==
  /\ HasAnswer("viewer")
  /\ put' = [put EXCEPT !["viewer"] = {}]
  /\ UNCHANGED <<graph, row, job, worker, tool, view, budget>>

EditMap(g) ==
  /\ g # graph /\ Spend("edits")
  /\ graph' = g
  /\ UNCHANGED <<row, job, worker, put, tool, view>>

(* The control plane is the desktop's child: a request that is under way    *)
(* ends where it is.                                                        *)
Crash ==
  /\ job.pc # "none" /\ Spend("faults")
  /\ put' = NoPut /\ tool' = {} /\ view' = {}
  /\ job' = NoJob /\ worker' = NoWorker
  /\ UNCHANGED <<graph, row>>

Server(w) == PutRead(w) \/ PutCheck(w) \/ PutWrite(w)

Controller ==
  \/ createAssistantSession \/ OpenSession \/ PersistRunning \/ BeginAnswer
  \/ RunQueue \/ EventAnswer \/ ToolRead \/ ToolAnswer
  \/ PersistOutcome \/ OutcomeAnswer

SessionNext ==
  \/ \E s \in Sessions, f \in Focuses : start(s, f)
  \/ Controller
  \/ \E w \in Writers : Server(w) \/ PutLost(w)
  \/ \E a \in Tools : CallTool(a)
  \/ WorkerDone \/ WorkerError \/ WorkerExit \/ TimerFires \/ cancel
  \/ \E s \in Sessions : ViewRead(s)
  \/ session \/ ViewAnswer
  \/ \E g \in Maps : EditMap(g)
  \/ Crash

(* Requests are answered or time out, and the timer fires; the worker need  *)
(* not do anything.                                                         *)
SessionFairness ==
  WF_sessionVars(Controller) /\ WF_sessionVars(Server("owner")) /\ WF_sessionVars(TimerFires)

SessionSpec == SessionInit /\ [][SessionNext]_sessionVars /\ SessionFairness

-----------------------------------------------------------------------------
(* The case runs a map shares with every map of its profile: of its cases.  *)
RunsOf(g) == {r \in CaseRuns : r.profile = g.profile /\ r.case \in CasesOf(g.nodes)}

(* What of map g an analysis may build on.                                  *)
AllReferences(g) ==
  References("node", NodeIds(g)) \cup References("path", DOMAIN g.paths) \cup {<<"plan", "preview">>}
    \cup References("run", {r.id : r \in RunsOf(g)})
    \cup References("evidence", UNION {r.evidence : r \in RunsOf(g)})
    \cup References("ran", {r.node : r \in RunsOf(g)} \ {""})

(* The nodes, paths and plans a completed analysis refers to are of the one *)
(* content of the map it names, and its runs and evidence are of that map's *)
(* cases: nothing of an earlier or later content, of an earlier analysis or *)
(* of another profile is mixed in, although the map, the session and the    *)
(* tools are read in separate Store calls and the model selects nodes of    *)
(* its own.  What it may name besides is the node such a run was stored     *)
(* with, which can be of another map.                                       *)
CompletedFromOneMap ==
  \A s \in Sessions : \A r \in row[s] :
    r.status = "completed" =>
      \E g \in r.fp : r.receipts \subseteq AllReferences(g)

(* A started analysis is over at some point, whatever the model, the worker *)
(* process and the Store do, so that the next one can start.                *)
AnalysisEnds == (job.pc # "none") ~> (job.pc = "none")
=============================================================================
