-------------------------- MODULE AgentTaskWorker --------------------------
(***************************************************************************)
(* One scheduled agent task: its row in agent_tasks and its run history    *)
(* (internal/store/sqlstore/store_tasks.go), the `task worker` processes   *)
(* that poll it, claim it and execute its command (cmd/agent-testbench/    *)
(* task_worker.go), and the `task schedule`, `task stop`, `task run` and   *)
(* `task watch` commands that change it meanwhile (task_commands.go,       *)
(* task_runtime.go).                                                       *)
(*                                                                         *)
(* A pass reads the clock once, lists the tasks, and gets to this task     *)
(* some time later, after the other due tasks of the same poll: reading    *)
(* the clock, listing and claiming are three steps.                        *)
(*                                                                         *)
(* The revision of the row is its updated_at.  The clock of the model is   *)
(* coarse, so a revision is a time and the process that wrote it: no two   *)
(* processes are assumed to read the same microsecond.                     *)
(***************************************************************************)
EXTENDS Naturals

CONSTANTS
  Workers,     \* `task worker` processes
  Commands,    \* `task schedule`, `stop`, `run` and `watch` processes, run once each
  Interval,    \* the interval of the schedule, in clock units
  MaxClock,    \* bound: the clock stops there
  MaxClaims    \* bound: claim tokens that are handed out

ASSUME BoundsAssumption ==
  /\ Interval \in Nat \ {0}
  /\ MaxClock \in Nat
  /\ MaxClaims \in Nat

(* A command is no claim token. *)
ASSUME CommandsAssumption == Commands \cap (0..MaxClaims) = {}

VARIABLES
  clock,       \* wall-clock time, shared by all hosts
  task,        \* the agent_tasks row: status, updated_at and claim_token
  latest,      \* the latest run by started_at: its start and its finish
  issued,      \* how many claim tokens were handed out
  worker,      \* each worker: where it is, and what it read
  command,     \* each command: where it is, what it is, and the time it read
  ranAt,       \* ghost: the latest start of a run recorded under a released claim
  unresolved,  \* ghost: claims whose command was started while they were recorded,
               \* with no run stored and no review by the operator since
  retired,     \* ghost: claims that ended
  writer       \* ghost: the claim that last wrote the row

vars == <<clock, task, latest, issued, worker, command, ranAt, unresolved, retired, writer>>

Claims == 1..MaxClaims
NoClaim == 0
Times == 0..MaxClock
Revisions == [time : Times, by : Claims \cup Commands \cup {NoClaim}]
Revision(time, by) == [time |-> time, by |-> by]

WorkerPlaces == {"idle", "polling", "listed", "claimed", "executing", "releasing"}
CommandPlaces == {"idle", "done", "upsert", "retry", "execute", "executing"}
Kinds == {"schedule", "stop", "run"}   \* a watch is a run that may repeat

TypeOK ==
  /\ clock \in 0..MaxClock
  /\ task \in [status : {"scheduled", "running", "paused", "active"},
               updatedAt : Revisions, token : Claims \cup {NoClaim}]
  /\ latest \in [started : Times, finished : Times]
  /\ issued \in 0..MaxClaims
  /\ worker \in [Workers -> [at : WorkerPlaces, now : Times, seen : Revisions,
                             claim : Claims \cup {NoClaim}, started : Times]]
  /\ command \in [Commands -> [at : CommandPlaces, kind : Kinds, time : Times]]
  /\ ranAt \in Times
  /\ unresolved \subseteq Claims
  /\ retired \subseteq Claims
  /\ writer \in Claims \cup {NoClaim}

IdleWorker ==
  [at |-> "idle", now |-> 0, seen |-> Revision(0, NoClaim), claim |-> NoClaim,
   started |-> 0]
IdleCommand == [at |-> "idle", kind |-> "schedule", time |-> 0]
DoneCommand == [at |-> "done", kind |-> "schedule", time |-> 0]

(* A task that was scheduled at time 0 and has never run. *)
Init ==
  /\ clock = 0
  /\ task = [status |-> "scheduled", updatedAt |-> Revision(0, NoClaim), token |-> NoClaim]
  /\ latest = [started |-> 0, finished |-> 0]
  /\ issued = 0
  /\ worker = [w \in Workers |-> IdleWorker]
  /\ command = [c \in Commands |-> IdleCommand]
  /\ ranAt = 0
  /\ unresolved = {}
  /\ retired = {}
  /\ writer = NoClaim

Larger(a, b) == IF a > b THEN a ELSE b

-----------------------------------------------------------------------------
(* A worker's pass                                                          *)

At(w, place) == worker[w].at = place

(* The process ends; a new one may take its place. *)
Stop(w) == worker' = [worker EXCEPT ![w] = IdleWorker]

(* runTaskWorkerPass(..., time.Now()) *)
BeginPass(w) ==
  /\ At(w, "idle")
  /\ worker' = [worker EXCEPT ![w].at = "polling", ![w].now = clock]
  /\ UNCHANGED <<clock, task, latest, issued, command, ranAt, unresolved, retired, writer>>

(* The time the interval counts from is the later of the row's last change  *)
(* and the finish of the latest run.                                        *)
scheduledAgentTaskDue(now) == now >= Larger(task.updatedAt.time, latest.finished) + Interval

(* ListAgentTasks: the worker goes on only with a scheduled and due task. *)
ListAgentTasks(w) ==
  /\ At(w, "polling")
  /\ IF task.status = "scheduled" /\ scheduledAgentTaskDue(worker[w].now)
     THEN worker' = [worker EXCEPT ![w].at = "listed", ![w].seen = task.updatedAt]
     ELSE Stop(w)
  /\ UNCHANGED <<clock, task, latest, issued, command, ranAt, unresolved, retired, writer>>

(* A revision after the previous one, by less than the clock can tell if     *)
(* the candidate is not.                                                    *)
nextAgentTaskRevision(candidate, previous, by) ==
  Revision(Larger(candidate, previous.time), by)

(* Mutant of Claimable: the status is enough. *)
ClaimableByStatus(w) == task.status = "scheduled"

(* The claim compares status and revision with what the poll has listed.    *)
Claimable(w) == task.status = "scheduled" /\ task.updatedAt = worker[w].seen

(* ClaimScheduledAgentTask.  The Store may also fail, or fail to answer:    *)
(* then the pass ends, with the row running if the update took effect.      *)
ClaimScheduledAgentTask(w) ==
  /\ At(w, "listed")
  /\ issued < MaxClaims
  /\ issued' = issued + 1
  /\ \/ /\ Claimable(w)
        /\ task' = [status |-> "running", token |-> issued',
                    updatedAt |-> nextAgentTaskRevision(worker[w].now, worker[w].seen, issued')]
        /\ writer' = issued'
        /\ \/ worker' = [worker EXCEPT ![w] = [IdleWorker EXCEPT !.at = "claimed", !.claim = issued']]
           \/ Stop(w)
     \/ /\ Stop(w)
        /\ UNCHANGED <<task, writer>>
  /\ UNCHANGED <<clock, latest, command, ranAt, unresolved, retired>>

(* executeClaimedScheduledTask reloads the task and starts its command.  A  *)
(* task it cannot reload, or whose notification settings it cannot decode,  *)
(* is given back without an attempt.                                        *)
StartCommand(w) ==
  /\ At(w, "claimed")
  /\ \/ /\ worker' = [worker EXCEPT ![w].at = "executing", ![w].started = clock]
        /\ unresolved' = unresolved \cup ({worker[w].claim} \cap {task.token})
     \/ /\ worker' = [worker EXCEPT ![w].at = "releasing"]
        /\ UNCHANGED unresolved
  /\ UNCHANGED <<clock, task, latest, issued, command, ranAt, retired, writer>>

(* RecordAgentTaskRun; the row's latest run is the one that started last. *)
recordRun(started) ==
  latest' = IF started >= latest.started
            THEN [started |-> started, finished |-> clock] ELSE latest

(* Mutant of RecordRun: a run that was not stored is released as well. *)
RecordRunOrRelease(w) ==
  /\ At(w, "executing")
  /\ worker' = [worker EXCEPT ![w].at = "releasing"]
  /\ \/ /\ recordRun(worker[w].started)
        /\ unresolved' = unresolved \ {worker[w].claim}
     \/ UNCHANGED <<latest, unresolved>>
  /\ UNCHANGED <<clock, task, issued, command, ranAt, retired, writer>>

(* The command has ended and its run is stored; if that fails, the worker   *)
(* ends and its claim stays behind.                                         *)
RecordRun(w) ==
  /\ At(w, "executing")
  /\ \/ /\ recordRun(worker[w].started)
        /\ worker' = [worker EXCEPT ![w].at = "releasing"]
        /\ unresolved' = unresolved \ {worker[w].claim}
     \/ /\ Stop(w)
        /\ UNCHANGED <<latest, unresolved>>
  /\ UNCHANGED <<clock, task, issued, command, ranAt, retired, writer>>

(* Mutant of Releasable: any running claim is released. *)
ReleasableByStatus(w) == task.status = "running"

Releasable(w) == task.status = "running" /\ task.token = worker[w].claim

(* ReleaseScheduledAgentTask: back to scheduled, if the token still         *)
(* matches; otherwise, or if the Store fails, the worker ends.              *)
ReleaseScheduledAgentTask(w) ==
  /\ At(w, "releasing")
  /\ \/ /\ Releasable(w)
        /\ task' = [status |-> "scheduled", token |-> NoClaim,
                    updatedAt |-> nextAgentTaskRevision(clock, task.updatedAt, worker[w].claim)]
        /\ writer' = worker[w].claim
        /\ retired' = retired \cup {worker[w].claim}
        /\ ranAt' = Larger(ranAt, worker[w].started)
     \/ UNCHANGED <<task, writer, retired, ranAt>>
  /\ Stop(w)
  /\ UNCHANGED <<clock, latest, issued, command, unresolved>>

Crash(w) ==
  /\ ~At(w, "idle")
  /\ Stop(w)
  /\ UNCHANGED <<clock, task, latest, issued, command, ranAt, unresolved, retired, writer>>

-----------------------------------------------------------------------------
(* The other task commands                                                  *)

StatusOf(kind) ==
  CASE kind = "schedule" -> "scheduled" [] kind = "stop" -> "paused" [] kind = "run" -> "active"

(* The definition is put together, with updated_at = time.Now(). *)
BeginCommand(c) ==
  /\ command[c].at = "idle"
  /\ \E kind \in Kinds :
       command' = [command EXCEPT ![c] = [at |-> "upsert", kind |-> kind, time |-> clock]]
  /\ UNCHANGED <<clock, task, latest, issued, worker, ranAt, unresolved, retired, writer>>

(* updateAgentTaskDefinition: any row but a running one is overwritten.     *)
updateAgentTaskDefinition(c) ==
  /\ task.status # "running"
  /\ task' = [status |-> StatusOf(command[c].kind), updatedAt |-> Revision(command[c].time, c),
              token |-> NoClaim]

(* What the command does once its definition is stored. *)
Stored(c) ==
  command' = [command EXCEPT ![c] =
    IF command[c].kind = "run" THEN [@ EXCEPT !.at = "execute", !.time = 0] ELSE DoneCommand]

(* UpsertAgentTask: an update that found the row running is tried once more *)
(* if the task is no longer running when it is read again.                  *)
UpsertAgentTask(c) ==
  /\ \/ /\ command[c].at \in {"upsert", "retry"}
        /\ updateAgentTaskDefinition(c)
        /\ Stored(c)
     \/ /\ command[c].at = "upsert"
        /\ task.status = "running"
        /\ command' = [command EXCEPT ![c].at = "retry"]
        /\ UNCHANGED task
     \/ /\ command[c].at = "retry"
        /\ task.status = "running"
        /\ command' = [command EXCEPT ![c] = DoneCommand]
        /\ UNCHANGED task
  /\ UNCHANGED <<clock, latest, issued, worker, ranAt, unresolved, retired, writer>>

(* `task run` and `task watch` execute the command without a claim. *)
ExecuteUnclaimed(c) ==
  /\ command[c].at = "execute"
  /\ command' = [command EXCEPT ![c].at = "executing", ![c].time = clock]
  /\ UNCHANGED <<clock, task, latest, issued, worker, ranAt, unresolved, retired, writer>>

(* The run is stored, or not; a watch may go on with another attempt.       *)
RecordUnclaimed(c) ==
  /\ command[c].at = "executing"
  /\ \/ recordRun(command[c].time)
     \/ UNCHANGED latest
  /\ \/ command' = [command EXCEPT ![c] = DoneCommand]
     \/ command' = [command EXCEPT ![c].at = "execute", ![c].time = 0]
  /\ UNCHANGED <<clock, task, issued, worker, ranAt, unresolved, retired, writer>>

(* `task stop --recover-running-claim --confirm-side-effects-reviewed`: the *)
(* operator takes the claim away and answers for its side effects.          *)
RecoverScheduledAgentTask ==
  /\ task.status = "running"
  /\ task' = [status |-> "paused", updatedAt |-> Revision(clock, NoClaim),
              token |-> NoClaim]
  /\ retired' = retired \cup {task.token}
  /\ unresolved' = unresolved \ {task.token}
  /\ UNCHANGED <<clock, latest, issued, worker, command, ranAt, writer>>

Tick ==
  /\ clock < MaxClock
  /\ clock' = clock + 1
  /\ UNCHANGED <<task, latest, issued, worker, command, ranAt, unresolved, retired, writer>>

-----------------------------------------------------------------------------
WorkerStep(w) ==
  \/ BeginPass(w) \/ ListAgentTasks(w) \/ ClaimScheduledAgentTask(w) \/ StartCommand(w)
  \/ RecordRun(w) \/ ReleaseScheduledAgentTask(w) \/ Crash(w)

CommandStep(c) ==
  BeginCommand(c) \/ UpsertAgentTask(c) \/ ExecuteUnclaimed(c) \/ RecordUnclaimed(c)

Next ==
  \/ Tick
  \/ RecoverScheduledAgentTask
  \/ \E w \in Workers : WorkerStep(w)
  \/ \E c \in Commands : CommandStep(c)

Spec == Init /\ [][Next]_vars

-----------------------------------------------------------------------------
(* Properties                                                               *)

(* A worker whose claim is the recorded one starts the command only if no   *)
(* earlier claim has left an outcome behind that is neither stored nor      *)
(* reviewed by the operator: crashes, failed writes and lost answers are    *)
(* never followed by an automatic replay.                                   *)
NoAutomaticReplay ==
  [][\A w \in Workers :
       At(w, "claimed") /\ worker'[w].at = "executing" /\ task.token = worker[w].claim
         => unresolved = {}]_vars

(* A stale poll cannot claim an interval another worker has completed: at   *)
(* the clock reading a successful claim is based on, the interval has       *)
(* passed since the start of every run recorded under a released claim.     *)
(* (Since its start only: of overlapping runs the row shows the one that    *)
(* started last, and a delayed `task schedule` may set updated_at back.)    *)
CompletedIntervalIsKept ==
  [][\A w \in Workers :
       At(w, "listed") /\ worker'[w].at = "claimed" /\ ranAt > 0
         => worker[w].now >= ranAt + Interval]_vars

Ownership ==
  INSTANCE FencedOwnership
    WITH Workers <- Claims, NoWorker <- NoClaim, owner <- task.token

(* The claim token fences the row: a worker whose claim was taken away      *)
(* never releases the claim of another one, however late it is.             *)
ImplementsFencedOwnership == Ownership!Spec

=============================================================================
