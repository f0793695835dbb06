---------------------------- MODULE MapPlanLease ----------------------------
(***************************************************************************)
(* The owner/token lease on one saved test map plan: the lease row in the  *)
(* Store (internal/store/sqlstore/store_map_plan_leases.go) and the way a  *)
(* `map run` process uses it (cmd/agent-testbench/map_run_lease.go).       *)
(*                                                                         *)
(* A `map run` process claims at most once, with an owner id and a token   *)
(* nobody else has, so an executor stands for its owner/token pair.  What  *)
(* the executor does with the plan's tasks is the business of MapRun; here *)
(* it alternates checkpoints and fenced external requests.                 *)
(*                                                                         *)
(* Every deadline in the code is computed from a wall-clock reading that   *)
(* was taken earlier: before the transaction, before the executor's mutex, *)
(* or when the ticker fired.  Reading the clock and committing are         *)
(* therefore separate steps, and time may pass between them.               *)
(***************************************************************************)
EXTENDS Naturals

CONSTANTS
  Executors,           \* the `map run` processes
  NoExecutor,          \* the absence of one
  LeaseDuration,       \* mapRunLeaseDuration, in clock units
  HeartbeatInterval,   \* mapRunLeaseHeartbeatInterval, in clock units
  MaxClock,            \* bound: the clock stops there
  Healthy              \* TRUE: no Store failure, no crash, no stalled process

ASSUME ExecutorsAssumption == NoExecutor \notin Executors
ASSUME TimingAssumption ==
  /\ LeaseDuration \in Nat \ {0}
  /\ HeartbeatInterval \in Nat \ {0}
  /\ HeartbeatInterval < LeaseDuration
  /\ MaxClock \in Nat
ASSUME HealthyAssumption == Healthy \in BOOLEAN

VARIABLES
  clock,       \* wall-clock time, shared by all hosts
  lease,       \* the row of test_map_plan_leases, or NoLease
  planStatus,  \* status of the test_map_plan_instances row
  writer,      \* ghost: who last wrote the plan's rows under a lease
  retired,     \* ghost: who held the lease row once and does no longer
  creator,     \* the executor run without --plan, which saves the plan itself
  pc,          \* where each executor is
  resume,      \* whether it was started with --plan and --resume
  now,         \* the clock reading its next transaction will use, 0 if none
  seen,        \* whose token its claim transaction read, or NoExecutor
  held,        \* mapRunLeaseState.lease.ExpiresAt
  err,         \* mapRunCheckpointState.err is set and the context cancelled
  tick,        \* the value waiting in the heartbeat's ticker channel, or NoTick
  beat         \* when the heartbeat's ticker fires next

storeVars == <<lease, planStatus, writer, retired>>
vars == <<clock, lease, planStatus, writer, retired, creator,
          pc, resume, now, seen, held, err, tick, beat>>

NoTick == MaxClock + 1
NoLease == [owner |-> NoExecutor, expires |-> 0]

Leases == [owner : Executors \cup {NoExecutor}, expires : Nat]
PlanStatus == {"absent", "planned", "running", "finished"}

Before == {"start", "claiming", "inserting"}
Active == {"idle", "checkpointing", "fencing", "request", "stopping", "releasing"}
Ended == {"refused", "stopped", "done", "crashed"}

TypeOK ==
  /\ clock \in 0..MaxClock
  /\ lease \in Leases
  /\ planStatus \in PlanStatus
  /\ writer \in Executors \cup {NoExecutor}
  /\ retired \subseteq Executors
  /\ creator \in Executors \cup {NoExecutor}
  /\ pc \in [Executors -> Before \cup {"reset"} \cup Active \cup Ended]
  /\ resume \in [Executors -> BOOLEAN]
  /\ now \in [Executors -> 0..MaxClock]
  /\ seen \in [Executors -> Executors \cup {NoExecutor}]
  /\ held \in [Executors -> Nat]
  /\ err \in [Executors -> BOOLEAN]
  /\ tick \in [Executors -> Nat]
  /\ beat \in [Executors -> Nat]

Init ==
  /\ clock = 0
  /\ lease = NoLease
  /\ planStatus \in {"absent", "planned"}
  /\ writer = NoExecutor
  /\ retired = {}
  /\ creator = NoExecutor
  /\ pc = [e \in Executors |-> "start"]
  /\ resume = [e \in Executors |-> FALSE]
  /\ now = [e \in Executors |-> 0]
  /\ seen = [e \in Executors |-> NoExecutor]
  /\ held = [e \in Executors |-> 0]
  /\ err = [e \in Executors |-> FALSE]
  /\ tick = [e \in Executors |-> NoTick]
  /\ beat = [e \in Executors |-> 0]

-----------------------------------------------------------------------------
(* Store transactions                                                       *)

(* Mutant of requireActiveTestMapPlanLease: any unexpired lease will do. *)
requireAnyUnexpiredLease(e, at) == lease # NoLease /\ lease.expires > at

(* The ownership predicate of every claimed write: same owner, same token,  *)
(* and a stored expiry that is still ahead of the caller's clock reading.   *)
requireActiveTestMapPlanLease(e, at) ==
  /\ lease.owner = e
  /\ lease.expires > at

(* Mutants of renewTestMapPlanLease: the expiry is computed backwards, or   *)
(* the renewal checks the lease and leaves its expiry as it was.            *)
renewBackwards(e, at) == lease' = [owner |-> e, expires |-> at - LeaseDuration]
renewWithoutExtending(e, at) == lease' = lease

(* The row a renewal, a reset or a checkpoint leaves behind. *)
renewTestMapPlanLease(e, at) ==
  lease' = [owner |-> e, expires |-> at + LeaseDuration]

(* A transaction that renews the lease of e and writes the plan's rows,     *)
(* reported to e as a success ...                                           *)
RenewCommits(e, at, rowsBy) ==
  /\ ~err[e]
  /\ requireActiveTestMapPlanLease(e, at)
  /\ renewTestMapPlanLease(e, at)
  /\ writer' = rowsBy
  /\ held' = [held EXCEPT ![e] = at + LeaseDuration]
  /\ UNCHANGED <<planStatus, retired, err>>

(* ... or as an error: the predicate failed, the context was cancelled, the *)
(* Store failed, or the commit took effect and its answer was lost.         *)
RenewFails(e, at, rowsBy) ==
  /\ \/ /\ err[e] \/ ~requireActiveTestMapPlanLease(e, at) \/ ~Healthy
        /\ UNCHANGED <<lease, writer>>
     \/ /\ ~err[e] /\ ~Healthy
        /\ requireActiveTestMapPlanLease(e, at)
        /\ renewTestMapPlanLease(e, at)
        /\ writer' = rowsBy
  /\ err' = [err EXCEPT ![e] = TRUE]
  /\ UNCHANGED <<planStatus, retired, held>>

-----------------------------------------------------------------------------
(* Claiming                                                                 *)

(* `map run` without --plan saves the plan it has just explained, then      *)
(* claims it like any other process.                                        *)
SavePlan(e) ==
  /\ pc[e] = "start"
  /\ planStatus = "absent"
  /\ planStatus' = "planned"
  /\ creator' = e
  /\ now' = [now EXCEPT ![e] = clock]
  /\ pc' = [pc EXCEPT ![e] = "claiming"]
  /\ UNCHANGED <<clock, lease, writer, retired, resume, seen, held, err, tick, beat>>

(* `map run --plan`, with or without --resume; now := time.Now(). *)
Start(e) ==
  /\ pc[e] = "start"
  /\ planStatus # "absent"
  /\ \E r \in BOOLEAN : resume' = [resume EXCEPT ![e] = r]
  /\ now' = [now EXCEPT ![e] = clock]
  /\ pc' = [pc EXCEPT ![e] = "claiming"]
  /\ UNCHANGED <<clock, storeVars, creator, seen, held, err, tick, beat>>

(* What the claim transaction makes of the rows it has read. *)
ClaimConflicts(e, current, status) ==
  IF current = NoLease
  THEN status = "running" /\ ~resume[e]
  ELSE current.expires > now[e]

(* The first half of ClaimTestMapPlanLease: two reads and the decision.     *)
ClaimRead(e) ==
  /\ pc[e] = "claiming"
  /\ IF ClaimConflicts(e, lease, planStatus)
     THEN /\ pc' = [pc EXCEPT ![e] = "refused"]
          /\ now' = [now EXCEPT ![e] = 0]
          /\ UNCHANGED seen
     ELSE /\ pc' = [pc EXCEPT ![e] = "inserting"]
          /\ seen' = [seen EXCEPT ![e] = lease.owner]
          /\ UNCHANGED now
  /\ UNCHANGED <<clock, storeVars, creator, resume, held, err, tick, beat>>

(* Mutant of replaceExpiredTestMapPlanLease: the expiry is not read again. *)
replaceWithoutExpiryCheck(e) == lease.owner = seen[e]

(* The primary key refuses a second row; an expired row is replaced only if *)
(* it still carries the token that was read and is still expired.           *)
replaceExpiredTestMapPlanLease(e) ==
  /\ lease.owner = seen[e]
  /\ lease # NoLease => lease.expires <= now[e]

(* The second half: insert or replace the lease row and mark the plan       *)
(* running.  The transaction may also fail, or commit and lose its answer.  *)
ClaimCommit(e) ==
  /\ pc[e] = "inserting"
  /\ \/ /\ replaceExpiredTestMapPlanLease(e)
        /\ lease' = [owner |-> e, expires |-> now[e] + LeaseDuration]
        /\ planStatus' = "running"
        /\ retired' = retired \cup ({lease.owner} \ {NoExecutor})
        /\ writer' = e
        /\ \/ /\ pc' = [pc EXCEPT ![e] = IF creator = e THEN "idle" ELSE "reset"]
              /\ held' = [held EXCEPT ![e] = now[e] + LeaseDuration]
              /\ beat' = [beat EXCEPT ![e] = clock + HeartbeatInterval]
              /\ now' = [now EXCEPT ![e] = IF creator = e THEN 0 ELSE @]
           \/ /\ ~Healthy
              /\ pc' = [pc EXCEPT ![e] = "refused"]
              /\ now' = [now EXCEPT ![e] = 0]
              /\ UNCHANGED <<held, beat>>
     \/ /\ ~replaceExpiredTestMapPlanLease(e) \/ ~Healthy
        /\ pc' = [pc EXCEPT ![e] = "refused"]
        /\ now' = [now EXCEPT ![e] = 0]
        /\ UNCHANGED <<storeVars, held, beat>>
  /\ seen' = [seen EXCEPT ![e] = NoExecutor]
  /\ UNCHANGED <<clock, creator, resume, err, tick>>

(* ResetTestMapPlanWithLease, with the clock reading of the claim: the      *)
(* prepared task rows and the running instance row, in one transaction.     *)
(* The heartbeat starts next.  A process whose reset fails ends and leaves  *)
(* its lease behind.                                                        *)
Reset(e) ==
  /\ pc[e] = "reset"
  /\ \/ /\ RenewCommits(e, now[e], e)
        /\ pc' = [pc EXCEPT ![e] = "idle"]
        /\ beat' = [beat EXCEPT ![e] = clock + HeartbeatInterval]
     \/ /\ RenewFails(e, now[e], e)
        /\ pc' = [pc EXCEPT ![e] = "stopped"]
        /\ UNCHANGED beat
  /\ now' = [now EXCEPT ![e] = 0]
  /\ UNCHANGED <<clock, creator, resume, seen, tick>>

-----------------------------------------------------------------------------
(* Executing                                                                *)

executionError(e) == err[e]

(* checkpointClaimedTask takes the mutex, reads the clock ... *)
BeginCheckpoint(e) ==
  /\ pc[e] = "idle"
  /\ ~executionError(e)
  /\ now' = [now EXCEPT ![e] = clock]
  /\ pc' = [pc EXCEPT ![e] = "checkpointing"]
  /\ UNCHANGED <<clock, storeVars, creator, resume, seen, held, err, tick, beat>>

(* ... and commits the task row together with the renewal. *)
Checkpoint(e) ==
  /\ pc[e] = "checkpointing"
  /\ RenewCommits(e, now[e], e) \/ RenewFails(e, now[e], e)
  /\ pc' = [pc EXCEPT ![e] = "idle"]
  /\ now' = [now EXCEPT ![e] = 0]
  /\ UNCHANGED <<clock, creator, resume, seen, tick, beat>>

(* fenceMapRunOwnership reads the clock before it waits for the mutex, so   *)
(* a heartbeat may renew in between.                                        *)
BeginFence(e) ==
  /\ pc[e] = "idle"
  /\ ~executionError(e)
  /\ now' = [now EXCEPT ![e] = clock]
  /\ pc' = [pc EXCEPT ![e] = "fencing"]
  /\ UNCHANGED <<clock, storeVars, creator, resume, seen, held, err, tick, beat>>

(* The external request is sent only when the renewal has succeeded. *)
fenceMapRunOwnership(e) ==
  /\ pc[e] = "fencing"
  /\ \/ /\ RenewCommits(e, now[e], writer)
        /\ pc' = [pc EXCEPT ![e] = "request"]
     \/ /\ RenewFails(e, now[e], writer)
        /\ pc' = [pc EXCEPT ![e] = "idle"]
  /\ now' = [now EXCEPT ![e] = 0]
  /\ UNCHANGED <<clock, creator, resume, seen, tick, beat>>

(* The request was answered, timed out, or was aborted by the context. *)
FinishRequest(e) ==
  /\ pc[e] = "request"
  /\ pc' = [pc EXCEPT ![e] = "idle"]
  /\ UNCHANGED <<clock, storeVars, creator, resume, now, seen, held, err, tick, beat>>

-----------------------------------------------------------------------------
(* The heartbeat goroutine                                                  *)

(* The ticker puts the firing time in a channel that holds one value: while *)
(* the goroutine is late the old value stays and the new one is dropped.    *)
HeartbeatFires(e) ==
  /\ pc[e] \in Active \ {"releasing"}
  /\ clock >= beat[e]
  /\ tick' = [tick EXCEPT ![e] = IF @ = NoTick THEN clock ELSE @]
  /\ beat' = [beat EXCEPT ![e] = @ + HeartbeatInterval]
  /\ UNCHANGED <<clock, storeVars, creator, pc, resume, now, seen, held, err>>

(* renewLease with the ticker's value, under the mutex that a checkpoint    *)
(* and a release hold from their clock reading to their commit.             *)
HeartbeatRenews(e) ==
  /\ pc[e] \in Active \ {"checkpointing", "releasing"}
  /\ tick[e] # NoTick
  /\ ~err[e]
  /\ RenewCommits(e, tick[e], writer) \/ RenewFails(e, tick[e], writer)
  /\ tick' = [tick EXCEPT ![e] = NoTick]
  /\ UNCHANGED <<clock, creator, pc, resume, now, seen, beat>>

-----------------------------------------------------------------------------
(* Finishing                                                                *)

(* execute() leaves its waves: all tasks are done or the execution stopped. *)
(* finishClaimedInstance cancels the heartbeat and waits for it.            *)
stopLeaseHeartbeat(e) ==
  /\ pc[e] = "idle"
  /\ pc' = [pc EXCEPT ![e] = "stopping"]
  /\ UNCHANGED <<clock, storeVars, creator, resume, now, seen, held, err, tick, beat>>

(* Once it has ended, a waiting tick is dropped.  An executor that met an   *)
(* error keeps its lease row and leaves the plan running.                   *)
BeginRelease(e) ==
  /\ pc[e] = "stopping"
  /\ tick' = [tick EXCEPT ![e] = NoTick]
  /\ IF err[e]
     THEN /\ pc' = [pc EXCEPT ![e] = "stopped"]
          /\ UNCHANGED now
     ELSE /\ pc' = [pc EXCEPT ![e] = "releasing"]
          /\ now' = [now EXCEPT ![e] = clock]
  /\ UNCHANGED <<clock, storeVars, creator, resume, seen, held, err, beat>>

(* Mutant of ReleaseTestMapPlanLease: the final instance row is written     *)
(* without the ownership predicate, only the deletion names the owner.      *)
ReleaseWithoutOwnership(e) ==
  /\ pc[e] = "releasing"
  /\ lease' = IF lease.owner = e THEN NoLease ELSE lease
  /\ planStatus' \in {"running", "finished"}
  /\ writer' = e
  /\ retired' = retired \cup {e}
  /\ pc' = [pc EXCEPT ![e] = "done"]
  /\ now' = [now EXCEPT ![e] = 0]
  /\ UNCHANGED <<clock, creator, resume, seen, held, err, tick, beat>>

(* ReleaseTestMapPlanLease: the final instance row and the deletion of the  *)
(* lease row.  mapRunStatus may leave the plan "running" (see MapRun).      *)
ReleaseTestMapPlanLease(e) ==
  /\ pc[e] = "releasing"
  /\ \/ /\ requireActiveTestMapPlanLease(e, now[e])
        /\ lease' = NoLease
        /\ planStatus' \in {"running", "finished"}
        /\ writer' = e
        /\ retired' = retired \cup {e}
        /\ \/ pc' = [pc EXCEPT ![e] = "done"] /\ UNCHANGED err
           \/ /\ ~Healthy
              /\ pc' = [pc EXCEPT ![e] = "stopped"]
              /\ err' = [err EXCEPT ![e] = TRUE]
     \/ /\ ~requireActiveTestMapPlanLease(e, now[e]) \/ ~Healthy
        /\ pc' = [pc EXCEPT ![e] = "stopped"]
        /\ err' = [err EXCEPT ![e] = TRUE]
        /\ UNCHANGED storeVars
  /\ now' = [now EXCEPT ![e] = 0]
  /\ UNCHANGED <<clock, creator, resume, seen, held, tick, beat>>

-----------------------------------------------------------------------------
(* The environment                                                          *)

(* The process dies, and everything it has in memory is lost with it. *)
Crash(e) ==
  /\ ~Healthy
  /\ pc[e] \notin Ended \cup {"start"}
  /\ pc' = [pc EXCEPT ![e] = "crashed"]
  /\ now' = [now EXCEPT ![e] = 0]
  /\ seen' = [seen EXCEPT ![e] = NoExecutor]
  /\ held' = [held EXCEPT ![e] = 0]
  /\ err' = [err EXCEPT ![e] = FALSE]
  /\ tick' = [tick EXCEPT ![e] = NoTick]
  /\ beat' = [beat EXCEPT ![e] = 0]
  /\ UNCHANGED <<clock, storeVars, creator, resume>>

(* In a healthy system every process gets to run within one clock unit: no  *)
(* transaction and no heartbeat is outstanding when the clock moves.  Only  *)
(* external requests and the work between checkpoints take time.            *)
Prompt(e) ==
  \/ pc[e] \in {"start"} \cup Ended
  \/ pc[e] \in {"idle", "request"} /\ tick[e] = NoTick /\ beat[e] > clock

Tick ==
  /\ clock < MaxClock
  /\ Healthy => \A e \in Executors : Prompt(e)
  /\ clock' = clock + 1
  /\ UNCHANGED <<storeVars, creator, pc, resume, now, seen, held, err, tick, beat>>

ExecutorStep(e) ==
  \/ SavePlan(e)
  \/ Start(e)
  \/ ClaimRead(e)
  \/ ClaimCommit(e)
  \/ Reset(e)
  \/ BeginCheckpoint(e)
  \/ Checkpoint(e)
  \/ BeginFence(e)
  \/ fenceMapRunOwnership(e)
  \/ FinishRequest(e)
  \/ stopLeaseHeartbeat(e)
  \/ BeginRelease(e)
  \/ ReleaseTestMapPlanLease(e)

Heartbeat(e) == HeartbeatFires(e) \/ HeartbeatRenews(e)

Next ==
  \/ Tick
  \/ \E e \in Executors : ExecutorStep(e) \/ Heartbeat(e) \/ Crash(e)

Spec == Init /\ [][Next]_vars

-----------------------------------------------------------------------------
(* Properties                                                               *)

Holding(e) == pc[e] \in Active \cup {"reset"} /\ ~err[e]

(* An executor that has met no error and whose own copy of the expiry is    *)
(* still ahead of the clock is the owner the Store records: no takeover     *)
(* happens behind the back of an executor that may still act, however late  *)
(* its clock readings reach the Store.  Two executors therefore never both  *)
(* have an unexpired lease in hand.                                         *)
HeldLeaseIsStored ==
  \A e \in Executors : Holding(e) /\ held[e] > clock => lease.owner = e

(* As long as somebody owns the plan its row says "running": a late final   *)
(* write of an earlier owner never closes a plan another executor works on. *)
OwnedPlanIsRunning ==
  lease # NoLease => planStatus = "running"

(* With HeartbeatInterval < LeaseDuration and processes and a Store that    *)
(* answer promptly, the heartbeat is enough: no executor loses its lease,   *)
(* however long its external requests take.                                 *)
HealthyExecutorKeepsLease ==
  Healthy => \A e \in Executors : ~err[e] /\ pc[e] # "stopped"

Ownership ==
  INSTANCE FencedOwnership
    WITH Workers <- Executors, NoWorker <- NoExecutor, owner <- lease.owner

(* The lease protocol implements fenced ownership of the plan's rows: the   *)
(* plan passes from executor to executor, and once an executor was replaced *)
(* or has released the plan, none of its delayed transactions writes it.    *)
ImplementsFencedOwnership == Ownership!Spec

=============================================================================
