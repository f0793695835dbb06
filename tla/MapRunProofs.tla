---------------------------- MODULE MapRunProofs ----------------------------
(***************************************************************************)
(* Proofs about MapRun, for any number of processes, any set of saved      *)
(* plans and resume controls, and any concurrency; and about MapRunWaves,  *)
(* for any number of tasks and any repetition of their edges.              *)
(***************************************************************************)
EXTENDS MapRun, MapRunWaves, FiniteSetTheorems, WellFoundedInduction, TLAPS

(* What the helpers on task rows return is a task row, and the status of a  *)
(* plan is one of the statuses a plan may have.                             *)
LEMMA RowsTyped ==
  /\ Waiting \in Threads /\ Finished \in Threads
  /\ \A t : SavedRow(t) \in Rows
  /\ \A r \in Rows : \A t, o : prepareExistingMapRunRecordAt(r, t, o) \in Rows
  /\ \A r \in Rows, s \in Statuses : finishTask(r, s) \in Rows
  /\ \A records : mapRunStatus(records) \in Statuses \ {"skipped"}
<1> USE DEF Rows, Statuses
<1>1. Waiting \in Threads /\ Finished \in Threads
  BY DEF Threads, Places, Waiting, Finished
<1>2. \A t : SavedRow(t) \in Rows
  BY DEF SavedRow
<1>3. ASSUME NEW r \in Rows, NEW t, NEW o
      PROVE  prepareExistingMapRunRecordAt(r, t, o) \in Rows
  <2>1. MarkInterrupted(r) \in Rows
    BY DEF MarkInterrupted
  <2> QED
    BY <2>1 DEF prepareExistingMapRunRecordAt
<1>4. \A r \in Rows, s \in Statuses : finishTask(r, s) \in Rows
  BY DEF finishTask
<1>5. \A records : mapRunStatus(records) \in Statuses \ {"skipped"}
  BY DEF mapRunStatus
<1> QED
  BY <1>1, <1>2, <1>3, <1>4, <1>5

(* The tasks of a plan are numbered from 1, and no step changes the plan.   *)
LEMMA PlanIsFixed == [Next]_vars => UNCHANGED <<plan, Tasks, Kind, StepCount>>
BY DEF Next, vars, Tasks, TaskCount, Kind, StepCount

(* A process that is over, or has not begun, has a well-formed memory.      *)
LEMMA BlankTyped ==
  ASSUME TypeOK, NEW e \in Executors, Blank(e), Tasks' = Tasks
  PROVE  /\ opt' \in [Executors -> OptionRecords]
         /\ rec' \in [Executors -> [Tasks' -> Rows]]
         /\ stat' \in [Executors -> [Tasks' -> Statuses \cup {"none"}]]
         /\ thread' \in [Executors -> [Tasks' -> Threads]]
         /\ err' \in [Executors -> BOOLEAN]
         /\ passedThen' \in [Executors -> SUBSET Tasks']
<1>1. NoControls \in OptionRecords
  BY DEF NoControls, OptionRecords
<1>2. [t \in Tasks |-> SavedRow(t)] \in [Tasks -> Rows]
  BY RowsTyped
<1>3. [t \in Tasks |-> Waiting] \in [Tasks -> Threads]
  BY RowsTyped
<1> QED
  BY <1>1, <1>2, <1>3 DEF Blank, TypeOK

(* What a checkpoint leaves behind, whether it is stored or fails.          *)
LEMMA CheckpointTyped ==
  ASSUME TypeOK, NEW e \in Executors, NEW t \in Tasks, NEW r \in Rows,
         checkpointTask(e, t, r), Tasks' = Tasks
  PROVE  row' \in [Tasks' -> Rows] /\ err' \in [Executors -> BOOLEAN]
BY DEF checkpointTask, TypeOK

(* A task that ends in a task row leaves a well-formed memory behind.       *)
LEMMA EndTaskTyped ==
  ASSUME TypeOK, NEW e \in Executors, NEW t \in Tasks, NEW r \in Rows,
         EndTask(e, t, r), Tasks' = Tasks
  PROVE  /\ rec' \in [Executors -> [Tasks' -> Rows]]
         /\ stat' \in [Executors -> [Tasks' -> Statuses \cup {"none"}]]
         /\ thread' \in [Executors -> [Tasks' -> Threads]]
<1>1. r.status \in Statuses
  BY DEF Rows
<1>2. Finished \in Threads
  BY RowsTyped
<1> QED
  BY <1>1, <1>2 DEF EndTask, TypeOK

(* A goroutine that moves on keeps its record well-formed.                  *)
LEMMA ThreadTyped ==
  ASSUME TypeOK, NEW e \in Executors, NEW t \in Tasks, NEW x \in Threads,
         thread' = [thread EXCEPT ![e][t] = x], Tasks' = Tasks
  PROVE  thread' \in [Executors -> [Tasks' -> Threads]]
BY DEF TypeOK

(* A task record that is replaced by a row leaves the records well-formed.  *)
LEMMA RecordTyped ==
  ASSUME TypeOK, NEW e \in Executors, NEW t \in Tasks, NEW r \in Rows,
         rec' = [rec EXCEPT ![e][t] = r], Tasks' = Tasks
  PROVE  rec' \in [Executors -> [Tasks' -> Rows]]
BY DEF TypeOK

(* The step of one task of a process, whatever becomes of its checkpoint.   *)
LEMMA TaskStepTyped ==
  ASSUME TypeOK, NEW e \in Executors, NEW t \in Tasks, TaskStep(e, t),
         UNCHANGED <<plan, Tasks>>
  PROVE  TypeOK'
<1> DEFINE Goal == TypeOK'
<1>1. rec[e][t] \in Rows /\ thread[e][t] \in Threads /\ stat[e][t] \in Statuses \cup {"none"}
  BY DEF TypeOK
<1>2. ASSUME NEW s \in Statuses PROVE finishTask(rec[e][t], s) \in Rows
  BY <1>1, RowsTyped
<1>3. {"failed", "blocked", "skipped", "passed", "running"} \subseteq Statuses
  BY DEF Statuses
<1>4. CASE KeepTask(e, t)
  <2>1. thread' \in [Executors -> [Tasks' -> Threads]]
    BY <1>4, RowsTyped DEF KeepTask, TypeOK
  <2>2. PICK s \in Statuses : stat' = [stat EXCEPT ![e][t] = s]
    BY <1>1, <1>3, <1>4 DEF KeepTask, Rows
  <2>3. stat' \in [Executors -> [Tasks' -> Statuses \cup {"none"}]]
    BY <2>2 DEF TypeOK
  <2> QED
    BY <1>4, <2>1, <2>3 DEF KeepTask, TypeOK, ghosts
<1>5. CASE BlockTask(e, t)
  <2> DEFINE r == finishTask(rec[e][t], "blocked")
  <2>1. r \in Rows
    BY <1>2, <1>3
  <2>2. EndTask(e, t, r) /\ checkpointTask(e, t, r)
    BY <1>5 DEF BlockTask
  <2> HIDE DEF r
  <2> QED
    BY <1>5, <2>1, <2>2, EndTaskTyped, CheckpointTyped DEF BlockTask, TypeOK, ghosts
<1>6. CASE RunTask(e, t)
  <2> DEFINE r == [rec[e][t] EXCEPT !.status = "running"]
  <2>1. r \in Rows
    BY <1>1, <1>3 DEF Rows
  <2>2. checkpointTask(e, t, r)
    BY <1>6 DEF RunTask
  <2>3. finishTask(r, "failed") \in Rows
    BY <1>3, <2>1, RowsTyped
  <2>4. FirstPlace(e, t) \in Threads
    BY DEF FirstPlace, Threads, Places
  <2>5. \/ EndTask(e, t, finishTask(r, "failed"))
        \/ /\ rec' = [rec EXCEPT ![e][t] = r]
           /\ thread' = [thread EXCEPT ![e][t] = FirstPlace(e, t)]
           /\ UNCHANGED stat
    BY <1>6 DEF RunTask
  <2> HIDE DEF r
  <2>6. /\ rec' \in [Executors -> [Tasks' -> Rows]]
        /\ stat' \in [Executors -> [Tasks' -> Statuses \cup {"none"}]]
        /\ thread' \in [Executors -> [Tasks' -> Threads]]
    <3>1. CASE EndTask(e, t, finishTask(r, "failed"))
      BY <2>3, <3>1, EndTaskTyped
    <3>2. CASE ~EndTask(e, t, finishTask(r, "failed"))
      <4>1. rec' \in [Executors -> [Tasks' -> Rows]]
        BY <2>1, <2>5, <3>2, RecordTyped
      <4>2. thread' \in [Executors -> [Tasks' -> Threads]]
        BY <2>4, <2>5, <3>2, ThreadTyped
      <4> QED
        BY <2>5, <3>2, <4>1, <4>2 DEF TypeOK
    <3> QED
      BY <3>1, <3>2
  <2> QED
    BY <1>6, <2>1, <2>2, <2>6, CheckpointTyped DEF RunTask, TypeOK, ghosts
<1>7. CASE Fence(e, t)
  <2>1. CASE Goto(e, t, "request") /\ UNCHANGED <<rec, stat, err>>
    <3>1. [thread[e][t] EXCEPT !.at = "request"] \in Threads
      BY <1>1 DEF Threads, Places
    <3>2. thread' = [thread EXCEPT ![e][t] = [thread[e][t] EXCEPT !.at = "request"]]
      BY <2>1 DEF Goto
    <3> QED
      BY <1>7, <2>1, <3>1, <3>2, ThreadTyped DEF Fence, TypeOK
  <2>2. CASE /\ err' = [err EXCEPT ![e] = TRUE]
             /\ EndTask(e, t, finishTask(rec[e][t], "failed"))
             /\ UNCHANGED unresolved
    BY <1>2, <1>3, <1>7, <2>2, EndTaskTyped DEF Fence, TypeOK
  <2> QED
    BY <1>7, <2>1, <2>2 DEF Fence
<1>8. CASE Answer(e, t)
  <2>1. CASE EndTask(e, t, finishTask(rec[e][t], "failed"))
    BY <1>2, <1>3, <1>8, <2>1, EndTaskTyped DEF Answer, TypeOK, ghosts
  <2>2. CASE ~err[e]
    <3>1. PICK passed \in BOOLEAN :
            thread' = [thread EXCEPT ![e][t].ok = passed,
                         ![e][t].at = IF Kind[t] = "run_case" THEN "finish" ELSE "step"]
      BY <1>8, <2>2 DEF Answer
    <3> DEFINE x == [thread[e][t] EXCEPT !.ok = passed,
                       !.at = IF Kind[t] = "run_case" THEN "finish" ELSE "step"]
    <3>2. x \in Threads
      BY <1>1 DEF Threads, Places
    <3>3. thread' = [thread EXCEPT ![e][t] = x]
      BY <1>1, <3>1 DEF TypeOK, Threads
    <3> HIDE DEF x
    <3> QED
      BY <1>8, <2>2, <3>2, <3>3, ThreadTyped DEF Answer, TypeOK, ghosts
  <2> QED
    BY <1>8, <2>1, <2>2 DEF Answer
<1>9. CASE StepCheckpoint(e, t)
  <2> DEFINE r == [rec[e][t] EXCEPT !.unknown = FALSE, !.until = FALSE]
             x == [thread[e][t] EXCEPT !.at = "fence", !.step = @ + 1]
             y == [thread[e][t] EXCEPT !.at = "aggregate"]
  <2>a. r \in Rows
    BY <1>1 DEF Rows
  <2>1. r \in Rows /\ finishTask(r, "failed") \in Rows
    BY <2>a, <1>3, RowsTyped
  <2>c. thread[e][t].step + 1 \in Nat
    BY <1>1 DEF Threads
  <2>b. x \in Threads
    BY <1>1, <2>c DEF Threads, Places
  <2>2. x \in Threads /\ y \in Threads
    BY <1>1, <2>b DEF Threads, Places
  <2>3. checkpointTask(e, t, r)
    BY <1>9 DEF StepCheckpoint
  <2>d. \/ EndTask(e, t, finishTask(r, "failed"))
        \/ /\ rec' = [rec EXCEPT ![e][t] = r]
           /\ \/ thread' = [thread EXCEPT ![e][t].at = "fence", ![e][t].step = @ + 1]
              \/ Goto(e, t, "aggregate")
           /\ UNCHANGED stat
    BY <1>9 DEF StepCheckpoint
  <2>e. /\ [thread EXCEPT ![e][t].at = "fence", ![e][t].step = @ + 1]
             = [thread EXCEPT ![e][t] = x]
        /\ [thread EXCEPT ![e][t].at = "aggregate"] = [thread EXCEPT ![e][t] = y]
    BY <1>1 DEF TypeOK, Threads
  <2>4. \/ EndTask(e, t, finishTask(r, "failed"))
        \/ /\ rec' = [rec EXCEPT ![e][t] = r]
           /\ \/ thread' = [thread EXCEPT ![e][t] = x]
              \/ thread' = [thread EXCEPT ![e][t] = y]
           /\ UNCHANGED stat
    BY <2>d, <2>e DEF Goto
  <2> HIDE DEF r, x, y
  <2>5. /\ rec' \in [Executors -> [Tasks' -> Rows]]
        /\ stat' \in [Executors -> [Tasks' -> Statuses \cup {"none"}]]
        /\ thread' \in [Executors -> [Tasks' -> Threads]]
    <3>1. CASE EndTask(e, t, finishTask(r, "failed"))
      BY <2>1, <3>1, EndTaskTyped
    <3>2. CASE ~EndTask(e, t, finishTask(r, "failed"))
      <4>1. rec' \in [Executors -> [Tasks' -> Rows]]
        BY <2>1, <2>4, <3>2, RecordTyped
      <4>2. thread' \in [Executors -> [Tasks' -> Threads]]
        BY <2>2, <2>4, <3>2, ThreadTyped
      <4> QED
        BY <2>4, <3>2, <4>1, <4>2 DEF TypeOK
    <3> QED
      BY <3>1, <3>2
  <2> QED
    BY <1>9, <2>1, <2>3, <2>5, CheckpointTyped DEF StepCheckpoint, TypeOK, ghosts
<1>10. CASE Aggregate(e, t)
  <2>1. CASE EndTask(e, t, finishTask(rec[e][t], "failed"))
    BY <1>2, <1>3, <1>10, <2>1, EndTaskTyped DEF Aggregate, TypeOK, ghosts
  <2>2. CASE ~EndTask(e, t, finishTask(rec[e][t], "failed"))
    <3>0. /\ UNCHANGED <<rec, stat, err>>
          /\ \E created \in BOOLEAN :
               thread' = [thread EXCEPT ![e][t].at = "finish", ![e][t].ok = @ /\ created]
      BY <1>10, <2>2 DEF Aggregate
    <3>1. PICK created \in BOOLEAN :
            thread' = [thread EXCEPT ![e][t].at = "finish", ![e][t].ok = @ /\ created]
      BY <3>0
    <3> DEFINE x == [thread[e][t] EXCEPT !.at = "finish", !.ok = @ /\ created]
    <3>2. x \in Threads
      BY <1>1 DEF Threads, Places
    <3>3. thread' = [thread EXCEPT ![e][t] = x]
      BY <1>1, <3>1 DEF TypeOK, Threads
    <3> HIDE DEF x
    <3> QED
      BY <1>10, <3>0, <3>2, <3>3, ThreadTyped DEF Aggregate, TypeOK, ghosts
  <2> QED
    BY <1>10, <2>1, <2>2 DEF Aggregate
<1>11. CASE FinishTask(e, t)
  <2>1. PICK status \in Outcomes(e, t) :
          /\ EndTask(e, t, finishTask(rec[e][t], status))
          /\ checkpointTask(e, t, finishTask(rec[e][t], status))
    BY <1>11 DEF FinishTask
  <2>2. status \in Statuses
    BY DEF Outcomes, Statuses
  <2>3. finishTask(rec[e][t], status) \in Rows
    BY <1>2, <2>2
  <2>4. unresolved' \subseteq Tasks'
    BY <1>11 DEF FinishTask, TypeOK
  <2> QED
    BY <1>11, <2>1, <2>3, <2>4, EndTaskTyped, CheckpointTyped DEF FinishTask, TypeOK
<1> QED
  BY <1>4, <1>5, <1>6, <1>7, <1>8, <1>9, <1>10, <1>11 DEF TaskStep

(* A process that exits forgets everything it had in memory.                *)
LEMMA ExitTyped ==
  ASSUME TypeOK, NEW e \in Executors, NEW how \in Ended, Exit(e, how),
         UNCHANGED <<plan, Tasks, row, stale, unresolved>>,
         lease' \in [owner : Executors \cup {NoExecutor}, live : BOOLEAN],
         planStatus' \in Statuses \ {"skipped"}
  PROVE  TypeOK'
<1>1. Blank(e) /\ pc' = [pc EXCEPT ![e] = how]
  BY DEF Exit
<1>2. pc' \in [Executors -> {"start", "loaded", "claimed", "running"} \cup Ended]
  BY <1>1 DEF TypeOK
<1> QED
  BY <1>1, <1>2, BlankTyped DEF TypeOK

(* The state a plan is saved in is well-typed.                              *)
LEMMA InitTyped == Init => TypeOK
<1> SUFFICES ASSUME Init PROVE TypeOK
  OBVIOUS
<1>1. NoControls \in OptionRecords
  BY DEF NoControls, OptionRecords
<1>2. NoLease \in [owner : Executors \cup {NoExecutor}, live : BOOLEAN]
  BY DEF NoLease
<1>3. [t \in Tasks |-> SavedRow(t)] \in [Tasks -> Rows]
  BY RowsTyped
<1>4. [t \in Tasks |-> Waiting] \in [Tasks -> Threads]
  BY RowsTyped
<1>5. planStatus \in Statuses \ {"skipped"}
  BY DEF Init, Statuses
<1> QED
  BY <1>1, <1>2, <1>3, <1>4, <1>5 DEF Init, TypeOK

(* Every step keeps the types.                                              *)
LEMMA NextTyped == TypeOK /\ [Next]_vars => TypeOK'
<1> SUFFICES ASSUME TypeOK, [Next]_vars PROVE TypeOK'
  OBVIOUS
<1>1. UNCHANGED <<plan, Tasks, Kind, StepCount>>
  BY PlanIsFixed
<1>2. CASE UNCHANGED vars
  BY <1>1, <1>2 DEF TypeOK, vars
<1>3. CASE Expire
  <2>1. lease' \in [owner : Executors \cup {NoExecutor}, live : BOOLEAN]
    BY <1>3 DEF Expire, TypeOK
  <2> QED
    BY <1>1, <1>3, <2>1 DEF Expire, TypeOK, ghosts
<1>4. ASSUME NEW e \in Executors, Load(e) PROVE TypeOK'
  <2>1. PICK o \in Options : opt' = [opt EXCEPT ![e] = o]
    BY <1>4 DEF Load
  <2>2. o \in OptionRecords
    BY ControlAssumption
  <2>3. opt' \in [Executors -> OptionRecords]
    BY <2>1, <2>2 DEF TypeOK
  <2>4. rec' \in [Executors -> [Tasks' -> Rows]]
    BY <1>1, <1>4 DEF Load, TypeOK
  <2> QED
    BY <1>1, <1>4, <2>3, <2>4 DEF Load, TypeOK, ghosts
<1>5. ASSUME NEW e \in Executors, Claim(e) PROVE TypeOK'
  <2>1. CASE Exit(e, "refused") /\ UNCHANGED <<lease, planStatus>>
    BY <1>1, <1>5, <2>1, ExitTyped DEF Claim, TypeOK, Ended
  <2>2. CASE /\ lease' = [owner |-> e, live |-> TRUE]
             /\ planStatus' = "running"
             /\ pc' = [pc EXCEPT ![e] = "claimed"]
             /\ passedThen' = [passedThen EXCEPT ![e] = {t \in Tasks : row[t].status = "passed"}]
             /\ UNCHANGED <<opt, rec, stat, thread, err>>
    <3>1. lease' \in [owner : Executors \cup {NoExecutor}, live : BOOLEAN]
      BY <2>2
    <3>2. planStatus' \in Statuses \ {"skipped"}
      BY <2>2 DEF Statuses
    <3>3. passedThen' \in [Executors -> SUBSET Tasks']
      BY <1>1, <2>2 DEF TypeOK
    <3> QED
      BY <1>1, <1>5, <2>2, <3>1, <3>2, <3>3 DEF Claim, TypeOK
  <2> QED
    BY <1>5, <2>1, <2>2 DEF Claim
<1>6. ASSUME NEW e \in Executors, Reset(e) PROVE TypeOK'
  <2>1. CASE Exit(e, "stopped") /\ UNCHANGED <<row, planStatus, stale, unresolved>>
    BY <1>1, <1>6, <2>1, ExitTyped DEF Reset, TypeOK, Ended
  <2>2. CASE ~(Exit(e, "stopped") /\ UNCHANGED <<row, planStatus, stale, unresolved>>)
    <3> DEFINE prepared == [t \in Tasks |-> prepareExistingMapRunRecordAt(rec[e][t], t, opt[e])]
    <3>1. prepared \in [Tasks -> Rows]
      BY RowsTyped DEF TypeOK
    <3>2. /\ rec' = [rec EXCEPT ![e] = prepared] /\ row' = rec'[e]
          /\ planStatus' = "running"
          /\ pc' = [pc EXCEPT ![e] = "running"]
          /\ stale' = (stale \/ rec[e] # row)
          /\ unresolved' = unresolved \ opt[e].rerun
          /\ UNCHANGED <<opt, stat, thread, err, passedThen>>
      BY <1>6, <2>2 DEF Reset
    <3> HIDE DEF prepared
    <3>3. rec' \in [Executors -> [Tasks' -> Rows]] /\ row' \in [Tasks' -> Rows]
      BY <1>1, <3>1, <3>2 DEF TypeOK
    <3>4. planStatus' \in Statuses \ {"skipped"}
      BY <3>2 DEF Statuses
    <3>5. unresolved' \subseteq Tasks' /\ stale' \in BOOLEAN
      BY <1>1, <3>2 DEF TypeOK
    <3> QED
      BY <1>1, <1>6, <3>2, <3>3, <3>4, <3>5 DEF Reset, TypeOK
  <2> QED
    BY <2>1, <2>2
<1>7. ASSUME NEW e \in Executors, Finish(e) PROVE TypeOK'
  <2>1. lease' \in [owner : Executors \cup {NoExecutor}, live : BOOLEAN]
    <3>1. NoLease \in [owner : Executors \cup {NoExecutor}, live : BOOLEAN]
      BY DEF NoLease
    <3>2. lease' \in {lease, NoLease}
      BY <1>7 DEF Finish
    <3> QED
      BY <3>1, <3>2 DEF TypeOK
  <2>2. planStatus' \in Statuses \ {"skipped"}
    BY <1>7, RowsTyped DEF Finish, TypeOK
  <2>3. PICK how \in Ended : Exit(e, how)
    BY <1>7 DEF Finish, Ended
  <2> QED
    BY <1>1, <1>7, <2>1, <2>2, <2>3, ExitTyped DEF Finish
<1>8. ASSUME NEW e \in Executors, Crash(e) PROVE TypeOK'
  BY <1>1, <1>8, ExitTyped DEF Crash, TypeOK, Ended
<1>9. ASSUME NEW e \in Executors, NEW t \in Tasks, TaskStep(e, t) PROVE TypeOK'
  BY <1>1, <1>9, TaskStepTyped
<1> QED
  BY <1>2, <1>3, <1>4, <1>5, <1>6, <1>7, <1>8, <1>9 DEF Next, ProcessStep

(* Every variable keeps its type in every behaviour. *)
THEOREM TypeCorrect == Spec => []TypeOK
<1> QED
  BY InitTyped, NextTyped, PTL DEF Spec

-----------------------------------------------------------------------------
(* What a step of one task does                                             *)

(* It leaves every other process, every other task and the plan's lease     *)
(* and status alone.                                                        *)
LEMMA TaskStepFrame ==
  ASSUME TypeOK, NEW e \in Executors, NEW t \in Tasks, TaskStep(e, t)
  PROVE  /\ UNCHANGED <<lease, planStatus, pc, opt, stale, passedThen>>
         /\ pc[e] = "running"
         /\ \A x \in Executors : x # e =>
              thread'[x] = thread[x] /\ rec'[x] = rec[x] /\ err'[x] = err[x]
         /\ \A u \in Tasks : u # t =>
              thread'[e][u] = thread[e][u] /\ rec'[e][u] = rec[e][u]
<1>1. UNCHANGED <<lease, planStatus, pc, opt, stale, passedThen>> /\ pc[e] = "running"
  BY DEF TaskStep, KeepTask, BlockTask, RunTask, Fence, Answer, StepCheckpoint, Aggregate,
         FinishTask, Begins, Live, ghosts
<1>2. \A x \in Executors : x # e => err'[x] = err[x]
  BY DEF TaskStep, KeepTask, BlockTask, RunTask, Fence, Answer, StepCheckpoint, Aggregate,
         FinishTask, checkpointTask, TypeOK
<1>3. /\ \A x \in Executors : x # e => rec'[x] = rec[x]
      /\ \A u \in Tasks : u # t => rec'[e][u] = rec[e][u]
  <2>1. UNCHANGED rec \/ \E r : rec' = [rec EXCEPT ![e][t] = r]
    BY DEF TaskStep, KeepTask, BlockTask, RunTask, Fence, Answer, StepCheckpoint, Aggregate,
           FinishTask, EndTask
  <2> QED
    BY <2>1 DEF TypeOK
<1> DEFINE Others == /\ \A x \in Executors : x # e => thread'[x] = thread[x]
                     /\ \A u \in Tasks : u # t => thread'[e][u] = thread[e][u]
<1>4. Others
  <2>1. CASE \E x : thread' = [thread EXCEPT ![e][t] = x]
    BY <2>1 DEF TypeOK
  <2>2. CASE KeepTask(e, t) \/ BlockTask(e, t) \/ FinishTask(e, t)
    BY <2>1, <2>2 DEF KeepTask, BlockTask, FinishTask, EndTask
  <2>3. CASE RunTask(e, t)
    BY <2>1, <2>3 DEF RunTask, EndTask
  <2>4. CASE Fence(e, t)
    BY <2>1, <2>4 DEF Fence, EndTask, Goto, TypeOK
  <2>5. CASE Answer(e, t)
    <3>1. CASE err[e]
      BY <2>1, <2>5, <3>1 DEF Answer, EndTask
    <3>2. CASE ~err[e]
      <4>1. PICK passed \in BOOLEAN :
              thread' = [thread EXCEPT ![e][t].ok = passed,
                           ![e][t].at = IF Kind[t] = "run_case" THEN "finish" ELSE "step"]
        BY <2>5, <3>2 DEF Answer
      <4> QED
        BY <4>1 DEF TypeOK
    <3> QED
      BY <3>1, <3>2
  <2>6. CASE StepCheckpoint(e, t)
    BY <2>1, <2>6 DEF StepCheckpoint, EndTask, Goto, TypeOK
  <2>7. CASE Aggregate(e, t)
    BY <2>1, <2>7 DEF Aggregate, EndTask, TypeOK
  <2> QED
    BY <2>2, <2>3, <2>4, <2>5, <2>6, <2>7 DEF TaskStep
<1> QED
  BY <1>1, <1>2, <1>3, <1>4

(* A checkpoint of task t has stored its new record.                        *)
Stored(e, t) == ~err[e] /\ Owns(e) /\ row' = [row EXCEPT ![t] = rec'[e][t]]

(* What the step makes of the task itself: its goroutine, its record, its   *)
(* row, and whether its request is unresolved.                              *)
TaskEffect(e, t) ==
  LET old == thread[e][t]
      new == thread'[e][t]
      r == rec[e][t]
      s == rec'[e][t]
      Quiet == row' = row /\ s = r
  IN \* the run stops on an error
     \/ err'[e] /\ new.at = "done" /\ row' = row /\ unresolved' = unresolved
     \* the task is kept, blocked or begun
     \/ old.at = "wait" /\ new.at = "done" /\ Quiet /\ unresolved' = unresolved
     \/ /\ old.at = "wait" /\ Executes(e, t) /\ new.at = "done"
        /\ Stored(e, t) /\ unresolved' = unresolved
     \/ /\ old.at = "wait" /\ Executes(e, t)
        /\ new.at \in {"fence", "finish"} /\ (new.at = "fence" => new.step = 1)
        /\ s.status = "running" /\ Stored(e, t) /\ unresolved' = unresolved
     \* its request is sent, answered, and followed by the next one
     \/ /\ old.at = "fence" /\ new.at = "request" /\ new.step = old.step
        /\ Quiet /\ ~err[e] /\ Owns(e) /\ unresolved' = unresolved \cup {t}
     \/ /\ old.at = "request" /\ new.at \in {"finish", "step"} /\ new.step = old.step
        /\ Quiet /\ unresolved' = unresolved
     \/ /\ old.at = "step"
        /\ \/ new.at = "fence" /\ new.step = old.step + 1
           \/ new.at = "aggregate" /\ new.step = old.step
        /\ s.status = r.status /\ Stored(e, t) /\ unresolved' = unresolved
     \/ old.at = "aggregate" /\ new.at = "finish" /\ Quiet /\ unresolved' = unresolved
     \* it ends
     \/ /\ old.at = "finish" /\ new.at = "done"
        /\ Stored(e, t) /\ unresolved' = unresolved \ {t}

(* A task that ends has its last record and is done.                        *)
LEMMA EndTaskEffect ==
  ASSUME TypeOK, NEW e \in Executors, NEW t \in Tasks, NEW r, EndTask(e, t, r)
  PROVE  rec'[e][t] = r /\ thread'[e][t].at = "done"
BY DEF EndTask, Finished, TypeOK

(* A checkpoint is stored or stops the run.                                 *)
LEMMA CheckpointEffect ==
  ASSUME TypeOK, NEW e \in Executors, NEW t \in Tasks, NEW r, checkpointTask(e, t, r)
  PROVE  \/ ~err[e] /\ ~err'[e] /\ Owns(e) /\ row' = [row EXCEPT ![t] = r]
         \/ err'[e] /\ row' = row
BY DEF checkpointTask, TypeOK

(* Every step of a task has one of these effects. *)
LEMMA TaskStepEffect ==
  ASSUME TypeOK, NEW e \in Executors, NEW t \in Tasks, TaskStep(e, t)
  PROVE  TaskEffect(e, t)
<1>1. CASE KeepTask(e, t)
  BY <1>1 DEF KeepTask, Begins, At, TaskEffect, Finished, TypeOK, ghosts
<1>2. CASE BlockTask(e, t)
  <2> DEFINE r == finishTask(rec[e][t], "blocked")
  <2>1. EndTask(e, t, r) /\ checkpointTask(e, t, r)
    BY <1>2 DEF BlockTask
  <2> HIDE DEF r
  <2>2. thread[e][t].at = "wait" /\ Executes(e, t) /\ unresolved' = unresolved
    BY <1>2 DEF BlockTask, Begins, At, ghosts
  <2> QED
    BY <2>1, <2>2, EndTaskEffect, CheckpointEffect DEF TaskEffect, Stored
<1>3. CASE RunTask(e, t)
  <2> DEFINE r == [rec[e][t] EXCEPT !.status = "running"]
  <2>1. /\ thread[e][t].at = "wait" /\ Executes(e, t) /\ unresolved' = unresolved
        /\ checkpointTask(e, t, r)
    BY <1>3 DEF RunTask, Begins, At, ghosts
  <2>2. r.status = "running"
    BY DEF TypeOK, Rows
  <2>3. \/ err'[e] /\ EndTask(e, t, finishTask(r, "failed"))
        \/ /\ ~err'[e] /\ rec' = [rec EXCEPT ![e][t] = r]
           /\ thread' = [thread EXCEPT ![e][t] = FirstPlace(e, t)]
    BY <1>3 DEF RunTask, CheckpointFailed
  <2> HIDE DEF r
  <2>4. CASE err'[e]
    BY <2>1, <2>3, <2>4, EndTaskEffect, CheckpointEffect DEF TaskEffect
  <2>5. CASE ~err'[e]
    <3>1. rec'[e][t] = r /\ thread'[e][t] = FirstPlace(e, t)
      BY <2>3, <2>5 DEF TypeOK
    <3>2. /\ FirstPlace(e, t).at \in {"fence", "finish"}
          /\ FirstPlace(e, t).at = "fence" => FirstPlace(e, t).step = 1
      BY DEF FirstPlace
    <3> QED
      BY <2>1, <2>2, <2>5, <3>1, <3>2, CheckpointEffect DEF TaskEffect, Stored
  <2> QED
    BY <2>4, <2>5
<1>4. CASE Fence(e, t)
  <2>1. row' = row /\ thread[e][t].at = "fence"
    BY <1>4 DEF Fence, At
  <2>2. CASE err' = [err EXCEPT ![e] = TRUE] /\ EndTask(e, t, finishTask(rec[e][t], "failed"))
               /\ UNCHANGED unresolved
    BY <2>1, <2>2, EndTaskEffect DEF TaskEffect, TypeOK
  <2>3. CASE /\ ~err[e] /\ Owns(e) /\ Goto(e, t, "request")
             /\ unresolved' = unresolved \cup {t} /\ UNCHANGED <<rec, stat, err>>
    <3>1. thread'[e][t].at = "request" /\ thread'[e][t].step = thread[e][t].step
      BY <2>3 DEF Goto, TypeOK, Threads
    <3> QED
      BY <2>1, <2>3, <3>1 DEF TaskEffect
  <2> QED
    BY <1>4, <2>2, <2>3 DEF Fence
<1>5. CASE Answer(e, t)
  <2>1. UNCHANGED <<row, err, unresolved>> /\ thread[e][t].at = "request"
    BY <1>5 DEF Answer, At, ghosts
  <2>2. CASE err[e]
    BY <1>5, <2>1, <2>2, EndTaskEffect DEF Answer, TaskEffect
  <2>3. CASE ~err[e]
    <3>1. PICK passed \in BOOLEAN :
            thread' = [thread EXCEPT ![e][t].ok = passed,
                         ![e][t].at = IF Kind[t] = "run_case" THEN "finish" ELSE "step"]
      BY <1>5, <2>3 DEF Answer
    <3>2. thread'[e][t].at \in {"finish", "step"} /\ thread'[e][t].step = thread[e][t].step
      BY <3>1 DEF TypeOK, Threads
    <3>3. rec' = rec
      BY <1>5, <2>3 DEF Answer
    <3> QED
      BY <2>1, <3>2, <3>3 DEF TaskEffect
  <2> QED
    BY <2>2, <2>3
<1>6. CASE StepCheckpoint(e, t)
  <2> DEFINE r == [rec[e][t] EXCEPT !.unknown = FALSE, !.until = FALSE]
  <2>1. /\ thread[e][t].at = "step" /\ unresolved' = unresolved
        /\ checkpointTask(e, t, r)
    BY <1>6 DEF StepCheckpoint, At, ghosts
  <2>2. r.status = rec[e][t].status
    BY DEF TypeOK, Rows
  <2>3. \/ err'[e] /\ EndTask(e, t, finishTask(r, "failed"))
        \/ /\ ~err'[e] /\ rec' = [rec EXCEPT ![e][t] = r]
           /\ \/ thread' = [thread EXCEPT ![e][t].at = "fence", ![e][t].step = @ + 1]
              \/ Goto(e, t, "aggregate")
    BY <1>6 DEF StepCheckpoint, CheckpointFailed
  <2> HIDE DEF r
  <2>4. CASE err'[e]
    BY <2>1, <2>3, <2>4, EndTaskEffect, CheckpointEffect DEF TaskEffect
  <2>5. CASE ~err'[e]
    <3>1. rec'[e][t] = r
      BY <2>3, <2>5 DEF TypeOK
    <3>2. \/ thread'[e][t].at = "fence" /\ thread'[e][t].step = thread[e][t].step + 1
          \/ thread'[e][t].at = "aggregate" /\ thread'[e][t].step = thread[e][t].step
      <4>1. thread[e][t] \in Threads /\ thread[e][t].step + 1 \in Nat
        BY DEF TypeOK, Threads
      <4>2. CASE thread' = [thread EXCEPT ![e][t].at = "fence", ![e][t].step = @ + 1]
        <5>1. thread'[e][t] = [thread[e][t] EXCEPT !.at = "fence", !.step = thread[e][t].step + 1]
          BY <4>2 DEF TypeOK
        <5> QED
          BY <4>1, <5>1 DEF Threads
      <4>3. CASE Goto(e, t, "aggregate")
        BY <4>1, <4>3 DEF Goto, TypeOK, Threads
      <4> QED
        BY <2>3, <2>5, <4>2, <4>3
    <3> QED
      BY <2>1, <2>2, <2>5, <3>1, <3>2, CheckpointEffect DEF TaskEffect, Stored
  <2> QED
    BY <2>4, <2>5
<1>7. CASE Aggregate(e, t)
  <2>1. UNCHANGED <<row, unresolved>> /\ thread[e][t].at = "aggregate"
    BY <1>7 DEF Aggregate, At, ghosts
  <2>2. CASE err' = [err EXCEPT ![e] = TRUE] /\ EndTask(e, t, finishTask(rec[e][t], "failed"))
    BY <2>1, <2>2, EndTaskEffect DEF TaskEffect, TypeOK
  <2>3. CASE /\ UNCHANGED <<rec, stat, err>>
             /\ \E created \in BOOLEAN :
                  thread' = [thread EXCEPT ![e][t].at = "finish", ![e][t].ok = @ /\ created]
    <3>1. thread'[e][t].at = "finish"
      BY <2>3 DEF TypeOK, Threads
    <3> QED
      BY <2>1, <2>3, <3>1 DEF TaskEffect
  <2> QED
    BY <1>7, <2>2, <2>3 DEF Aggregate
<1>8. CASE FinishTask(e, t)
  <2>1. PICK status \in Outcomes(e, t) :
          /\ EndTask(e, t, finishTask(rec[e][t], status))
          /\ checkpointTask(e, t, finishTask(rec[e][t], status))
    BY <1>8 DEF FinishTask
  <2>2. /\ thread[e][t].at = "finish"
        /\ unresolved' = IF err'[e] THEN unresolved ELSE unresolved \ {t}
    BY <1>8 DEF FinishTask, At, CheckpointFailed
  <2> QED
    BY <2>1, <2>2, EndTaskEffect, CheckpointEffect DEF TaskEffect, Stored
<1> QED
  BY <1>1, <1>2, <1>3, <1>4, <1>5, <1>6, <1>7, <1>8 DEF TaskStep

-----------------------------------------------------------------------------
(* The inductive invariant                                                  *)

Runs(e) == pc[e] = "running" /\ ~err[e]

(* A live lease belongs to a process. *)
LeaseOwned == lease.live => lease.owner \in Executors

(* Only a running process has goroutines. *)
IdleThreads ==
  \A e \in Executors : pc[e] # "running" =>
    /\ thread[e] = [t \in Tasks |-> Waiting]
    /\ ~err[e]

(* A task that has begun and not ended has stored, or at least attempted to *)
(* store, its running status; a task with a request is at a step.           *)
ActiveTasks ==
  \A e \in Executors, t \in Tasks :
    /\ thread[e][t].at \notin {"wait", "done"} => rec[e][t].status = "running"
    /\ thread[e][t].at \in {"fence", "request", "step", "aggregate"} => thread[e][t].step > 0

(* What the owner of the plan has in memory is what the Store has. *)
MemoryIsStored ==
  \A e \in Executors : Owns(e) /\ Runs(e) => rec[e] = row

(* A task whose request has no stored outcome shows it in its row. *)
UnresolvedMarked ==
  ~stale => \A t \in unresolved : row[t].status = "running" \/ row[t].unknown

(* The owner does not begin such a task, nor is it before its first request.*)
UnresolvedHeld ==
  ~stale => \A e \in Executors, t \in unresolved :
    Owns(e) /\ Runs(e) =>
      /\ At(e, t, "wait") => row[t].unknown /\ t \notin opt[e].rerun
      /\ ~(At(e, t, "fence") /\ thread[e][t].step = 1)

(* What had passed when the plan was claimed has passed until it is reset.  *)
ClaimKnowsPassed ==
  \A e \in Executors : Owns(e) /\ pc[e] = "claimed" =>
    \A t \in passedThen[e] : row[t].status = "passed"

(* A resumed run does not begin what had passed. *)
ResumeHolds ==
  ~stale => \A e \in Executors : pc[e] = "running" /\ opt[e].resume =>
    \A t \in passedThen[e] \ opt[e].rerun :
      /\ At(e, t, "wait") \/ At(e, t, "done")
      /\ At(e, t, "wait") => rec[e][t].status \in {"passed", "skipped"}

RunInv ==
  /\ TypeOK /\ LeaseOwned /\ IdleThreads /\ ActiveTasks /\ MemoryIsStored
  /\ UnresolvedMarked /\ UnresolvedHeld /\ ClaimKnowsPassed /\ ResumeHolds
  /\ ReleasedStatusMatchesTasks
-----------------------------------------------------------------------------
(* The invariant is inductive                                               *)

(* What preparing a row for a run keeps: the mark of an unknown outcome, a  *)
(* running row's mark, and a passed row of a resumed run, unless the task   *)
(* is named with --rerun-task.                                              *)
LEMMA PreparedRow ==
  ASSUME NEW r \in Rows, NEW t, NEW o \in OptionRecords, t \notin o.rerun
  PROVE  LET s == prepareExistingMapRunRecordAt(r, t, o) IN
         /\ r.unknown \/ r.status = "running" => s.unknown
         /\ o.resume /\ r.status = "passed" => s.status \in {"passed", "skipped"}
<1> DEFINE m == MarkInterrupted(r)
<1>1. m \in Rows /\ (r.unknown \/ r.status = "running" => m.unknown)
  BY DEF MarkInterrupted, Rows, Statuses
<1>2. r.status = "passed" => m = r
  BY DEF MarkInterrupted
<1>3. CASE m.unknown
  BY <1>2, <1>3 DEF prepareExistingMapRunRecordAt
<1>4. CASE ~m.unknown
  <2>1. ~(r.unknown \/ r.status = "running")
    BY <1>1, <1>4
  <2>2. CASE m.status = "skipped" \/ Kind[t] = "skip"
    <3>1. prepareExistingMapRunRecordAt(r, t, o) = [m EXCEPT !.status = "skipped"]
      BY <1>4, <2>2 DEF prepareExistingMapRunRecordAt
    <3> QED
      BY <1>1, <2>1, <3>1 DEF Rows
  <2>3. CASE ~(m.status = "skipped" \/ Kind[t] = "skip") /\ o.resume /\ r.status = "passed"
    <3>1. mapRunHasResumeControls(o)
      BY <2>3 DEF mapRunHasResumeControls
    <3>2. ~mapRunTaskSelectedForExecution(m, t, o)
      BY <1>2, <1>4, <2>3 DEF mapRunTaskSelectedForExecution, FailedOrBlocked
    <3>3. prepareExistingMapRunRecordAt(r, t, o) = m
      BY <1>4, <2>3, <3>1, <3>2 DEF prepareExistingMapRunRecordAt
    <3> QED
      BY <1>2, <2>1, <2>3, <3>3
  <2> QED
    BY <2>1, <2>2, <2>3
<1> QED
  BY <1>3, <1>4

(* A row with an unknown outcome is executed only by a run that names its   *)
(* task, a skipped one never, and a passed one not by a resumed run.        *)
LEMMA NotExecuted ==
  ASSUME NEW e \in Executors, NEW t \in Tasks, t \notin opt[e].rerun,
         \/ rec[e][t].unknown
         \/ rec[e][t].status = "skipped"
         \/ opt[e].resume /\ rec[e][t].status = "passed"
  PROVE  ~Executes(e, t)
BY DEF Executes, mapRunTaskSelectedForExecution, FailedOrBlocked

(* The plan has one owner. *)
LEMMA OneOwner ==
  ASSUME NEW e, NEW x, Owns(e), Owns(x)
  PROVE  e = x
BY DEF Owns

(* The step of one task keeps the invariant. *)
LEMMA InvTaskStep ==
  ASSUME RunInv, NEW e \in Executors, NEW t \in Tasks, TaskStep(e, t),
         UNCHANGED <<plan, Tasks, Kind, StepCount>>
  PROVE  RunInv'
<1>1. TypeOK /\ TypeOK'
  BY TaskStepTyped DEF RunInv
<1>2. /\ UNCHANGED <<lease, planStatus, pc, opt, stale, passedThen>>
      /\ pc[e] = "running"
      /\ \A x \in Executors : x # e =>
           thread'[x] = thread[x] /\ rec'[x] = rec[x] /\ err'[x] = err[x]
      /\ \A u \in Tasks : u # t =>
           thread'[e][u] = thread[e][u] /\ rec'[e][u] = rec[e][u]
  BY <1>1, TaskStepFrame
<1>3. TaskEffect(e, t)
  BY <1>1, TaskStepEffect
<1>4. \A x \in Executors : Owns(x)' <=> Owns(x)
  BY <1>2 DEF Owns
<1>5. row' = row \/ (Owns(e) /\ ~err[e])
  BY <1>3 DEF TaskEffect, Stored
<1>6. ~err'[e] => ~err[e]
  BY <1>1 DEF TaskStep, KeepTask, BlockTask, RunTask, Fence, Answer, StepCheckpoint, Aggregate,
           FinishTask, checkpointTask, TypeOK
<1>7. (LeaseOwned /\ IdleThreads)'
  BY <1>2 DEF RunInv, LeaseOwned, IdleThreads
<1>8. ActiveTasks'
  <2>1. /\ thread'[e][t].at \notin {"wait", "done"} => rec'[e][t].status = "running"
        /\ thread'[e][t].at \in {"fence", "request", "step", "aggregate"} => thread'[e][t].step > 0
    <3>1. /\ thread[e][t].at \notin {"wait", "done"} => rec[e][t].status = "running"
          /\ thread[e][t].at \in {"fence", "request", "step", "aggregate"} => thread[e][t].step > 0
      BY DEF RunInv, ActiveTasks
    <3>2. thread[e][t].step \in Nat
      BY <1>1 DEF TypeOK, Threads
    <3> QED
      BY <1>3, <3>1, <3>2 DEF TaskEffect
  <2> QED
    BY <1>1, <1>2, <2>1 DEF RunInv, ActiveTasks
<1>9. MemoryIsStored'
  <2>1. ASSUME NEW x \in Executors, Owns(x)', Runs(x)' PROVE rec'[x] = row'
    <3>1. Owns(x) /\ Runs(x)
      BY <1>2, <1>4, <1>6, <2>1 DEF Runs
    <3>2. rec[x] = row
      BY <3>1 DEF RunInv, MemoryIsStored
    <3>3. CASE x # e
      BY <1>2, <1>5, <3>1, <3>2, <3>3, OneOwner
    <3>4. CASE x = e
      <4>1. \/ row' = row /\ rec'[e][t] = rec[e][t]
            \/ row' = [row EXCEPT ![t] = rec'[e][t]]
        BY <1>3, <2>1, <3>4 DEF TaskEffect, Stored, Runs
      <4>2. row \in [Tasks -> Rows] /\ rec'[e] \in [Tasks -> Rows] /\ rec[e] \in [Tasks -> Rows]
        BY <1>1 DEF TypeOK
      <4> QED
        BY <1>2, <3>2, <3>4, <4>1, <4>2
    <3> QED
      BY <3>3, <3>4
  <2> QED
    BY <2>1 DEF MemoryIsStored
<1>10. ~stale /\ t \in unresolved /\ thread[e][t].at = "wait" /\ Owns(e) /\ ~err[e]
         => ~Executes(e, t)
  <2> SUFFICES ASSUME ~stale, t \in unresolved, thread[e][t].at = "wait", Owns(e), ~err[e]
               PROVE  ~Executes(e, t)
    OBVIOUS
  <2>1. row[t].unknown /\ t \notin opt[e].rerun
    BY <1>2 DEF RunInv, UnresolvedHeld, Runs, At
  <2>2. rec[e][t] = row[t]
    BY <1>2 DEF RunInv, MemoryIsStored, Runs
  <2> QED
    BY <2>1, <2>2, NotExecuted
<1>11. \A u \in Tasks : u # t => row'[u] = row[u] /\ (u \in unresolved' <=> u \in unresolved)
  BY <1>1, <1>3 DEF TaskEffect, Stored, TypeOK
<1>12. ~stale /\ t \in unresolved' => row'[t].status = "running" \/ row'[t].unknown
  <2> SUFFICES ASSUME ~stale, t \in unresolved'
               PROVE  row'[t].status = "running" \/ row'[t].unknown
    OBVIOUS
  <2>1. Stored(e, t) => row'[t] = rec'[e][t]
    BY <1>1 DEF Stored, TypeOK
  <2>2. t \in unresolved => row[t].status = "running" \/ row[t].unknown
    BY DEF RunInv, UnresolvedMarked
  <2>3. Owns(e) /\ ~err[e] => rec[e][t] = row[t]
    BY <1>2 DEF RunInv, MemoryIsStored, Runs
  <2>4. thread[e][t].at \notin {"wait", "done"} => rec[e][t].status = "running"
    BY DEF RunInv, ActiveTasks
  <2> QED
    BY <1>3, <1>10, <2>1, <2>2, <2>3, <2>4 DEF TaskEffect, Stored
<1>13. UnresolvedMarked'
  BY <1>1, <1>2, <1>11, <1>12 DEF RunInv, UnresolvedMarked, TypeOK
<1>14. UnresolvedHeld'
  <2> SUFFICES ASSUME ~stale, NEW x \in Executors, NEW u \in unresolved', Owns(x)', Runs(x)'
               PROVE  /\ thread'[x][u].at = "wait" => row'[u].unknown /\ u \notin opt[x].rerun
                      /\ ~(thread'[x][u].at = "fence" /\ thread'[x][u].step = 1)
    BY <1>2 DEF UnresolvedHeld, At
  <2>1. Owns(x) /\ Runs(x) /\ u \in Tasks
    BY <1>1, <1>2, <1>4, <1>6 DEF Runs, TypeOK
  <2>2. u \in unresolved =>
          /\ thread[x][u].at = "wait" => row[u].unknown /\ u \notin opt[x].rerun
          /\ ~(thread[x][u].at = "fence" /\ thread[x][u].step = 1)
    BY <2>1 DEF RunInv, UnresolvedHeld, At
  <2>3. CASE x # e
    <3>1. ~Owns(e) /\ row' = row
      BY <1>5, <2>1, <2>3, OneOwner
    <3>2. u \in unresolved
      BY <1>3, <3>1 DEF TaskEffect, Stored
    <3> QED
      BY <1>2, <2>2, <2>3, <3>1, <3>2
  <2>4. CASE x = e /\ u # t
    BY <1>2, <1>11, <2>1, <2>2, <2>4
  <2>5. CASE x = e /\ u = t
    <3>1. thread[e][t].step \in Nat
      BY <1>1 DEF TypeOK, Threads
    <3>2. thread[e][t].at = "step" => thread[e][t].step > 0
      BY DEF RunInv, ActiveTasks
    <3> QED
      BY <1>3, <1>10, <2>1, <2>2, <2>5, <3>1, <3>2 DEF TaskEffect, Stored, Runs
  <2> QED
    BY <2>3, <2>4, <2>5
<1>15. ClaimKnowsPassed'
  <2> SUFFICES ASSUME NEW x \in Executors, Owns(x)', pc'[x] = "claimed",
                      NEW u \in passedThen'[x]
               PROVE  row'[u].status = "passed"
    BY DEF ClaimKnowsPassed
  <2>1. x # e /\ Owns(x) /\ pc[x] = "claimed" /\ u \in passedThen[x]
    BY <1>2, <1>4
  <2>2. row' = row
    BY <1>5, <2>1, OneOwner
  <2> QED
    BY <2>1, <2>2 DEF RunInv, ClaimKnowsPassed
<1>16. ResumeHolds'
  <2> SUFFICES ASSUME ~stale, NEW x \in Executors, pc[x] = "running", opt[x].resume,
                      NEW u \in passedThen[x] \ opt[x].rerun
               PROVE  /\ thread'[x][u].at = "wait" \/ thread'[x][u].at = "done"
                      /\ thread'[x][u].at = "wait" => rec'[x][u].status \in {"passed", "skipped"}
    BY <1>2 DEF ResumeHolds, At
  <2>1. /\ thread[x][u].at = "wait" \/ thread[x][u].at = "done"
        /\ thread[x][u].at = "wait" => rec[x][u].status \in {"passed", "skipped"}
    BY DEF RunInv, ResumeHolds, At
  <2>2. u \in Tasks
    BY <1>1 DEF TypeOK
  <2>3. CASE x # e \/ u # t
    BY <1>2, <2>1, <2>2, <2>3
  <2>4. CASE x = e /\ u = t
    <3>1. thread[e][t].at = "wait" => ~Executes(e, t)
      BY <2>1, <2>4, NotExecuted
    <3> QED
      BY <1>3, <2>1, <2>4, <3>1 DEF TaskEffect
  <2> QED
    BY <2>3, <2>4
<1>17. ReleasedStatusMatchesTasks'
  <2>1. lease = NoLease => row' = row
    BY <1>5 DEF Owns, NoLease
  <2>2. row' = row => mapRunStatus(row)' = mapRunStatus(row)
    BY <1>1 DEF mapRunStatus
  <2> QED
    BY <1>2, <2>1, <2>2 DEF RunInv, ReleasedStatusMatchesTasks
<1> QED
  BY <1>1, <1>7, <1>8, <1>9, <1>13, <1>14, <1>15, <1>16, <1>17 DEF RunInv
(* A process that exits takes nothing but its memory, and possibly its      *)
(* lease, with it.                                                          *)
LEMMA InvExit ==
  ASSUME RunInv, TypeOK', NEW e \in Executors, NEW how \in Ended, Exit(e, how),
         UNCHANGED <<plan, Tasks, row, stale, unresolved>>,
         lease' = lease \/ lease' = NoLease,
         ReleasedStatusMatchesTasks'
  PROVE  RunInv'
<1>1. TypeOK
  BY DEF RunInv
<1>2. /\ pc' = [pc EXCEPT ![e] = how]
      /\ opt' = [opt EXCEPT ![e] = NoControls]
      /\ rec' = [rec EXCEPT ![e] = [t \in Tasks |-> SavedRow(t)]]
      /\ thread' = [thread EXCEPT ![e] = [t \in Tasks |-> Waiting]]
      /\ err' = [err EXCEPT ![e] = FALSE]
      /\ passedThen' = [passedThen EXCEPT ![e] = {}]
  BY DEF Exit, Blank
<1>3. pc'[e] = how /\ how \notin {"claimed", "running"}
  BY <1>1, <1>2 DEF TypeOK, Ended
<1>4. \A x \in Executors : x # e =>
        /\ pc'[x] = pc[x] /\ opt'[x] = opt[x] /\ rec'[x] = rec[x]
        /\ thread'[x] = thread[x] /\ err'[x] = err[x] /\ passedThen'[x] = passedThen[x]
  BY <1>1, <1>2 DEF TypeOK
<1>5. thread'[e] = [t \in Tasks |-> Waiting] /\ ~err'[e]
  BY <1>1, <1>2 DEF TypeOK
<1>6. \A x \in Executors : Owns(x)' => Owns(x)
  BY DEF Owns, NoLease
<1>7. LeaseOwned'
  BY DEF RunInv, LeaseOwned, NoLease
<1>8. IdleThreads'
  BY <1>3, <1>4, <1>5 DEF RunInv, IdleThreads
<1>9. ActiveTasks'
  <2>1. \A t \in Tasks : thread'[e][t].at = "wait"
    BY <1>5 DEF Waiting
  <2> QED
    BY <1>4, <2>1 DEF RunInv, ActiveTasks
<1>10. MemoryIsStored'
  BY <1>3, <1>4, <1>6 DEF RunInv, MemoryIsStored, Runs
<1>11. UnresolvedMarked'
  BY DEF RunInv, UnresolvedMarked
<1>12. UnresolvedHeld'
  BY <1>3, <1>4, <1>6 DEF RunInv, UnresolvedHeld, Runs, At
<1>13. ClaimKnowsPassed'
  BY <1>3, <1>4, <1>6 DEF RunInv, ClaimKnowsPassed
<1>14. ResumeHolds'
  BY <1>3, <1>4 DEF RunInv, ResumeHolds, At
<1> QED
  BY <1>7, <1>8, <1>9, <1>10, <1>11, <1>12, <1>13, <1>14 DEF RunInv

(* The invariant holds of a saved plan. *)
LEMMA InvInit == Init => RunInv
<1> SUFFICES ASSUME Init PROVE RunInv
  OBVIOUS
<1>1. TypeOK
  BY InitTyped
<1>2. ~lease.live /\ planStatus = "planned" /\ unresolved = {}
  BY DEF Init, NoLease
<1>3. \A e \in Executors : pc[e] = "start" /\ ~err[e] /\ thread[e] = [t \in Tasks |-> Waiting]
  BY DEF Init
<1>4. \A e \in Executors, t \in Tasks : thread[e][t].at = "wait"
  BY <1>3 DEF Waiting
<1>5. ActiveTasks
  BY <1>4 DEF ActiveTasks
<1> QED
  BY <1>1, <1>2, <1>3, <1>5 DEF RunInv, LeaseOwned, IdleThreads, MemoryIsStored,
     UnresolvedMarked, UnresolvedHeld, ClaimKnowsPassed, ResumeHolds,
     ReleasedStatusMatchesTasks, Owns, Runs

(* The reset writes the prepared record, and the run begins with it.        *)
LEMMA InvReset ==
  ASSUME RunInv, TypeOK', NEW e \in Executors, pc[e] = "claimed", Owns(e),
         rec' = [rec EXCEPT ![e] =
           [t \in Tasks |-> prepareExistingMapRunRecordAt(rec[e][t], t, opt[e])]],
         row' = rec'[e],
         pc' = [pc EXCEPT ![e] = "running"],
         stale' = (stale \/ rec[e] # row),
         unresolved' = unresolved \ opt[e].rerun,
         UNCHANGED <<plan, Tasks, lease, opt, stat, thread, err, passedThen>>
  PROVE  RunInv'
<1>1. TypeOK
  BY DEF RunInv
<1>2. /\ rec'[e] = row' /\ pc'[e] = "running"
      /\ \A x \in Executors : x # e => rec'[x] = rec[x] /\ pc'[x] = pc[x] /\ ~Owns(x)
  BY <1>1, OneOwner DEF TypeOK
<1>3. \A x \in Executors : Owns(x)' <=> Owns(x)
  BY DEF Owns
<1>4. \A t \in Tasks : rec'[e][t] = prepareExistingMapRunRecordAt(rec[e][t], t, opt[e])
  BY <1>1 DEF TypeOK
<1>5. \A t \in Tasks : rec[e][t] \in Rows /\ opt[e] \in OptionRecords
  BY <1>1 DEF TypeOK
<1>6. ~err[e] /\ \A t \in Tasks : thread[e][t].at = "wait"
  BY DEF RunInv, IdleThreads, Waiting
<1>7. \A t \in unresolved' : t \in Tasks /\ t \in unresolved /\ t \notin opt[e].rerun
  BY <1>1 DEF TypeOK
<1>8. ~stale' => \A t \in unresolved' : row'[t].unknown
  <2> SUFFICES ASSUME ~stale', NEW t \in unresolved' PROVE row'[t].unknown
    OBVIOUS
  <2>1. row[t].status = "running" \/ row[t].unknown
    BY <1>7 DEF RunInv, UnresolvedMarked
  <2>2. rec[e][t] = row[t]
    OBVIOUS
  <2> QED
    BY <1>2, <1>4, <1>5, <1>7, <2>1, <2>2, PreparedRow
<1>9. (LeaseOwned /\ IdleThreads)'
  BY <1>2 DEF RunInv, LeaseOwned, IdleThreads
<1>10. ActiveTasks'
  BY <1>2, <1>6 DEF RunInv, ActiveTasks
<1>11. MemoryIsStored'
  BY <1>2, <1>3 DEF RunInv, MemoryIsStored
<1>12. UnresolvedMarked'
  BY <1>8 DEF UnresolvedMarked
<1>13. UnresolvedHeld'
  BY <1>2, <1>3, <1>6, <1>7, <1>8 DEF UnresolvedHeld, At
<1>14. ClaimKnowsPassed'
  BY <1>2, <1>3 DEF ClaimKnowsPassed
<1>15. ResumeHolds'
  <2> SUFFICES ASSUME ~stale', NEW x \in Executors, pc'[x] = "running", opt[x].resume,
                      NEW t \in passedThen[x] \ opt[x].rerun
               PROVE  /\ thread[x][t].at = "wait" \/ thread[x][t].at = "done"
                      /\ thread[x][t].at = "wait" => rec'[x][t].status \in {"passed", "skipped"}
    BY DEF ResumeHolds, At
  <2>1. t \in Tasks
    BY <1>1 DEF TypeOK
  <2>2. CASE x # e
    BY <1>2, <2>1, <2>2 DEF RunInv, ResumeHolds, At
  <2>3. CASE x = e
    <3>1. row[t].status = "passed"
      BY <2>3 DEF RunInv, ClaimKnowsPassed
    <3>2. rec[e][t].status = "passed"
      BY <3>1
    <3> QED
      BY <1>4, <1>5, <1>6, <2>1, <2>3, <3>2, PreparedRow
  <2> QED
    BY <2>2, <2>3
<1>16. ReleasedStatusMatchesTasks'
  BY DEF ReleasedStatusMatchesTasks, NoLease, Owns
<1> QED
  BY <1>9, <1>10, <1>11, <1>12, <1>13, <1>14, <1>15, <1>16 DEF RunInv

(* Every step keeps the invariant. *)
LEMMA InvNext == RunInv /\ [Next]_vars => RunInv'
<1> SUFFICES ASSUME RunInv, [Next]_vars PROVE RunInv'
  OBVIOUS
<1>1. UNCHANGED <<plan, Tasks, Kind, StepCount>>
  BY PlanIsFixed
<1>2. TypeOK /\ TypeOK'
  BY NextTyped DEF RunInv
<1>3. row' = row => mapRunStatus(row)' = mapRunStatus(row)
  BY <1>1 DEF mapRunStatus
<1>4. CASE UNCHANGED vars
  BY <1>1, <1>2, <1>3, <1>4 DEF RunInv, vars, LeaseOwned, IdleThreads, ActiveTasks, MemoryIsStored,
     UnresolvedMarked, UnresolvedHeld, ClaimKnowsPassed, ResumeHolds,
     ReleasedStatusMatchesTasks, Owns, Runs, At
<1>5. CASE Expire
  <2>1. /\ lease' = [lease EXCEPT !.live = FALSE] /\ lease.live
        /\ UNCHANGED <<planStatus, row, pc, opt, rec, stat, thread, err, stale, unresolved, passedThen>>
    BY <1>5 DEF Expire, ghosts
  <2>2. ~lease'.live /\ lease'.owner = lease.owner
    BY <1>2, <2>1 DEF TypeOK
  <2>3. lease' # NoLease
    BY <2>1, <2>2, ExecutorsAssumption DEF RunInv, LeaseOwned, NoLease
  <2>4. \A x \in Executors : ~Owns(x)'
    BY <2>2 DEF Owns
  <2> QED
    BY <1>1, <1>2, <2>1, <2>2, <2>3, <2>4 DEF RunInv, LeaseOwned, IdleThreads, ActiveTasks,
       MemoryIsStored, UnresolvedMarked, UnresolvedHeld, ClaimKnowsPassed, ResumeHolds,
       ReleasedStatusMatchesTasks, At
<1>6. ASSUME NEW e \in Executors, Load(e) PROVE RunInv'
  <2>1. /\ pc[e] = "start" /\ pc'[e] = "loaded"
        /\ \A x \in Executors : x # e => pc'[x] = pc[x] /\ opt'[x] = opt[x] /\ rec'[x] = rec[x]
        /\ UNCHANGED <<lease, planStatus, row, stat, thread, err, stale, unresolved, passedThen>>
    BY <1>2, <1>6 DEF Load, TypeOK, ghosts
  <2>2. thread[e] = [t \in Tasks |-> Waiting] /\ ~err[e]
    BY <2>1 DEF RunInv, IdleThreads
  <2>3. \A t \in Tasks : thread[e][t].at = "wait"
    BY <2>2 DEF Waiting
  <2>4. \A x \in Executors : Owns(x)' <=> Owns(x)
    BY <2>1 DEF Owns
  <2>5. (LeaseOwned /\ IdleThreads)'
    BY <1>1, <2>1, <2>2 DEF RunInv, LeaseOwned, IdleThreads
  <2>6. ActiveTasks'
    BY <1>1, <2>1, <2>3 DEF RunInv, ActiveTasks
  <2>7. (MemoryIsStored /\ UnresolvedMarked /\ UnresolvedHeld)'
    BY <2>1, <2>4 DEF RunInv, MemoryIsStored, UnresolvedMarked, UnresolvedHeld, Runs, At
  <2>8. (ClaimKnowsPassed /\ ResumeHolds)'
    BY <2>1, <2>4 DEF RunInv, ClaimKnowsPassed, ResumeHolds, At
  <2>9. ReleasedStatusMatchesTasks'
    BY <1>3, <2>1 DEF RunInv, ReleasedStatusMatchesTasks
  <2> QED
    BY <1>2, <2>5, <2>6, <2>7, <2>8, <2>9 DEF RunInv
<1>7. ASSUME NEW e \in Executors, Claim(e) PROVE RunInv'
  <2>1. pc[e] = "loaded" /\ UNCHANGED <<row, stale, unresolved>>
    BY <1>7 DEF Claim
  <2>2. CASE Exit(e, "refused") /\ UNCHANGED <<lease, planStatus>>
    BY <1>1, <1>2, <1>3, <2>1, <2>2, InvExit DEF Ended, RunInv, ReleasedStatusMatchesTasks
  <2>3. CASE /\ lease' = [owner |-> e, live |-> TRUE]
             /\ pc' = [pc EXCEPT ![e] = "claimed"]
             /\ passedThen' = [passedThen EXCEPT ![e] = {t \in Tasks : row[t].status = "passed"}]
             /\ UNCHANGED <<opt, rec, stat, thread, err>>
    <3>1. /\ pc'[e] = "claimed" /\ passedThen'[e] = {t \in Tasks : row[t].status = "passed"}
          /\ \A x \in Executors : x # e => pc'[x] = pc[x] /\ passedThen'[x] = passedThen[x]
      BY <1>2, <2>3 DEF TypeOK
    <3>2. \A x \in Executors : Owns(x)' => x = e
      BY <2>3 DEF Owns
    <3>3. (LeaseOwned /\ IdleThreads)'
      BY <1>1, <2>1, <2>3, <3>1 DEF RunInv, LeaseOwned, IdleThreads
    <3>4. (ActiveTasks /\ MemoryIsStored)'
      BY <1>1, <2>3, <3>1, <3>2 DEF RunInv, ActiveTasks, MemoryIsStored, Runs
    <3>5. (UnresolvedMarked /\ UnresolvedHeld)'
      BY <2>1, <3>1, <3>2 DEF RunInv, UnresolvedMarked, UnresolvedHeld, Runs
    <3>6. (ClaimKnowsPassed /\ ResumeHolds)'
      BY <2>1, <2>3, <3>1, <3>2 DEF RunInv, ClaimKnowsPassed, ResumeHolds, At
    <3>7. ReleasedStatusMatchesTasks'
      BY <2>3 DEF ReleasedStatusMatchesTasks, NoLease
    <3> QED
      BY <1>2, <3>3, <3>4, <3>5, <3>6, <3>7 DEF RunInv
  <2> QED
    BY <1>7, <2>2, <2>3 DEF Claim
<1>8. ASSUME NEW e \in Executors, Reset(e) PROVE RunInv'
  <2>1. CASE Exit(e, "stopped") /\ UNCHANGED <<row, planStatus, stale, unresolved>>
    <3>1. lease' = lease
      BY <1>8 DEF Reset
    <3> QED
      BY <1>1, <1>2, <1>3, <2>1, <3>1, InvExit DEF Ended, RunInv, ReleasedStatusMatchesTasks
  <2>2. CASE ~(Exit(e, "stopped") /\ UNCHANGED <<row, planStatus, stale, unresolved>>)
    BY <1>1, <1>2, <1>8, <2>2, InvReset DEF Reset
  <2> QED
    BY <2>1, <2>2
<1>9. ASSUME NEW e \in Executors, Finish(e) PROVE RunInv'
  <2>1. Live(e) /\ UNCHANGED <<row, stale, unresolved>>
    BY <1>9 DEF Finish
  <2>2. CASE /\ ~err[e] /\ Owns(e) /\ planStatus' = mapRunStatus(rec[e])
             /\ lease' = NoLease /\ Exit(e, "done")
    <3>1. rec[e] = row
      BY <2>1, <2>2 DEF RunInv, MemoryIsStored, Runs, Live
    <3>2. ReleasedStatusMatchesTasks'
      BY <1>3, <2>1, <2>2, <3>1 DEF ReleasedStatusMatchesTasks
    <3> QED
      BY <1>1, <1>2, <2>1, <2>2, <3>2, InvExit DEF Ended
  <2>3. CASE Exit(e, "stopped") /\ UNCHANGED <<lease, planStatus>>
    BY <1>1, <1>2, <1>3, <2>1, <2>3, InvExit DEF Ended, RunInv, ReleasedStatusMatchesTasks
  <2> QED
    BY <1>9, <2>2, <2>3 DEF Finish
<1>10. ASSUME NEW e \in Executors, Crash(e) PROVE RunInv'
  <2>1. Exit(e, "crashed") /\ UNCHANGED <<lease, planStatus, row, stale, unresolved>>
    BY <1>10 DEF Crash
  <2> QED
    BY <1>1, <1>2, <1>3, <2>1, InvExit DEF Ended, RunInv, ReleasedStatusMatchesTasks
<1>11. ASSUME NEW e \in Executors, NEW t \in Tasks, TaskStep(e, t) PROVE RunInv'
  BY <1>1, <1>11, InvTaskStep
<1> QED
  BY <1>4, <1>5, <1>6, <1>7, <1>8, <1>9, <1>10, <1>11 DEF Next, ProcessStep

-----------------------------------------------------------------------------
(* The properties                                                           *)

(* The invariant holds in every behaviour. *)
THEOREM Invariant == Spec => []RunInv
<1> QED
  BY InvInit, InvNext, PTL DEF Spec

(* A plan that is released shows the status its stored tasks add up to,     *)
(* however many runs, resets, crashes and lost leases came before.          *)
THEOREM ReleasedPlanIsTrue == Spec => []ReleasedStatusMatchesTasks
<1>1. RunInv => ReleasedStatusMatchesTasks
  BY DEF RunInv
<1> QED
  BY <1>1, Invariant, PTL

(* The first request of an attempt at a task is sent by the fence of that   *)
(* task, which succeeds only for the owner of the plan.                     *)
LEMMA AttemptIsFenced ==
  ASSUME RunInv, [Next]_vars, NEW e \in Executors, NEW t \in Tasks, Attempts(e, t)
  PROVE  Runs(e) /\ Owns(e)
<1>1. TypeOK /\ pc[e] = "running"
  BY DEF RunInv, Attempts, At, IdleThreads, Waiting
<1>2. thread[e][t].at = "fence" /\ thread'[e][t].at = "request"
  BY DEF Attempts, At
<1>3. ASSUME NEW x \in Executors, NEW u \in Tasks, TaskStep(x, u) PROVE Runs(e) /\ Owns(e)
  <2>1. x = e /\ u = t
    BY <1>1, <1>2, <1>3, TaskStepFrame
  <2>2. TaskEffect(e, t)
    BY <1>1, <1>3, <2>1, TaskStepEffect
  <2> QED
    BY <1>1, <1>2, <2>2 DEF TaskEffect, Runs
<1>4. ASSUME NEW x \in Executors, NEW how, Exit(x, how) PROVE FALSE
  <2>1. thread'[e] = thread[e] \/ thread'[e] = [u \in Tasks |-> Waiting]
    BY <1>1, <1>4 DEF Exit, Blank, TypeOK
  <2> QED
    BY <1>2, <2>1 DEF Waiting
<1>5. thread' # thread
  BY <1>2
<1> QED
  BY <1>3, <1>4, <1>5 DEF Next, vars, ProcessStep, Expire, Load, Claim, Reset, Finish, Crash

(* A request that was sent and whose outcome never reached the Store is not *)
(* repeated before the operator has reset the task with --rerun-task.       *)
THEOREM UnknownOutcomeIsNotRepeated == Spec => NoBlindReplay
<1>1. RunInv /\ [Next]_vars =>
        [\A e \in Executors, t \in Tasks :
           Attempts(e, t) /\ ~stale => t \notin unresolved]_vars
  <2> SUFFICES ASSUME RunInv, [Next]_vars, NEW e \in Executors, NEW t \in Tasks,
                      Attempts(e, t), ~stale
               PROVE  t \notin unresolved
    OBVIOUS
  <2>1. Runs(e) /\ Owns(e)
    BY AttemptIsFenced
  <2> QED
    BY <2>1 DEF RunInv, UnresolvedHeld, Attempts
<1> QED
  BY <1>1, Invariant, PTL DEF Spec, NoBlindReplay

(* A resumed run sends no request for a task that was stored as passed when *)
(* it claimed the plan, unless the task is named with --rerun-task, as long *)
(* as no run has reset the plan to an outdated record.                      *)
THEOREM PassedTasksAreKept == Spec => FreshResumeKeepsPassed
<1>1. RunInv /\ [Next]_vars =>
        [\A e \in Executors, t \in Tasks :
           Attempts(e, t) /\ opt[e].resume /\ t \in passedThen[e] /\ ~stale
             => t \in opt[e].rerun]_vars
  <2> SUFFICES ASSUME RunInv, [Next]_vars, NEW e \in Executors, NEW t \in Tasks,
                      Attempts(e, t), opt[e].resume, t \in passedThen[e], ~stale,
                      t \notin opt[e].rerun
               PROVE  FALSE
    OBVIOUS
  <2>1. pc[e] = "running"
    BY AttemptIsFenced DEF Runs
  <2> QED
    BY <2>1 DEF RunInv, ResumeHolds, Attempts, At
<1> QED
  BY <1>1, Invariant, PTL DEF Spec, FreshResumeKeepsPassed

-----------------------------------------------------------------------------
(* The waves: lemmas about recursion over the tasks                         *)

(* A set of numbers that is not empty has a least one.                      *)
LEMMA LeastOf ==
  ASSUME NEW S \in SUBSET Nat, S # {}
  PROVE  \E n \in S : \A m \in S : n <= m
<1> DEFINE R == {ss \in Nat \X Nat : ss[1] < ss[2]}
<1>1. IsWellFoundedOn(R, Nat)
  BY NatLessThanWellFounded, Zenon DEF OpToRel
<1> HIDE DEF R
<1>2. PICK n \in S : \A m \in S : ~(<<m, n>> \in R)
  BY <1>1, WFMin
<1>3. \A m \in S : ~(m < n)
  BY <1>2 DEF R
<1> QED BY <1>3

(* Induction up to n, for a property given as the set P of the numbers that *)
(* have it.                                                                 *)
LEMMA InductionUpTo ==
  ASSUME NEW n \in Nat, NEW P, 0 \in P, \A k \in 1..n : k - 1 \in P => k \in P
  PROVE  \A k \in 0..n : k \in P
<1> DEFINE S == {k \in 0..n : k \notin P}
<1>1. SUFFICES ASSUME S # {} PROVE FALSE
  OBVIOUS
<1>2. S \in SUBSET Nat
  OBVIOUS
<1>3. PICK k \in S : \A m \in S : k <= m
  <2> HIDE DEF S
  <2> QED BY <1>1, <1>2, LeastOf
<1>4. k \in 0..n /\ k \notin P
  OBVIOUS
<1>5. k # 0 /\ k - 1 \in 0..n
  BY <1>4
<1>6. k - 1 \notin S
  <2> HIDE DEF S
  <2> QED BY <1>3, <1>4
<1>7. k - 1 \in P
  BY <1>5, <1>6
<1> QED BY <1>4, <1>5, <1>7

Recursion(n, X, a, G, f) ==
  f \in [0..n -> X] /\ f[0] = a /\ \A k \in 1..n : f[k] = G[k][f[k - 1]]

(* A recursion over 1..n with the steps G has a solution.                   *)
LEMMA RecursionExists ==
  ASSUME NEW n \in Nat, NEW X, NEW a \in X, NEW G \in [1..n -> [X -> X]]
  PROVE  \E f : Recursion(n, X, a, G, f)
<1> DEFINE Upto(k, f) == f[0] = a /\ \A i \in 1..k : f[i] = G[i][f[i - 1]]
           P == {k \in 0..n : \E f \in [0..n -> X] : Upto(k, f)}
<1>1. 0 \in P
  <2> DEFINE f == [i \in 0..n |-> a]
  <2>1. f \in [0..n -> X] /\ f[0] = a
    OBVIOUS
  <2> HIDE DEF f
  <2>2. Upto(0, f)
    BY <2>1
  <2>3. \E g \in [0..n -> X] : Upto(0, g)
    <3> HIDE DEF Upto
    <3> QED BY <2>1, <2>2
  <2>4. 0 \in 0..n
    OBVIOUS
  <2> QED BY <2>3, <2>4
<1>2. ASSUME NEW k \in 1..n, k - 1 \in P PROVE k \in P
  <2>1. PICK f \in [0..n -> X] : Upto(k - 1, f)
    BY <1>2
  <2> DEFINE x == G[k][f[k - 1]]
             g == [f EXCEPT ![k] = x]
  <2>2. x \in X
    <3>1. f[k - 1] \in X
      OBVIOUS
    <3> QED BY <3>1
  <2> HIDE DEF x
  <2>3. g \in [0..n -> X] /\ g[k] = x /\ \A i \in 0..n : i # k => g[i] = f[i]
    BY <2>2
  <2> HIDE DEF g
  <2>4. g[0] = a
    BY <2>1, <2>3
  <2>5. ASSUME NEW i \in 1..k PROVE g[i] = G[i][g[i - 1]]
    <3>1. CASE i = k
      <4>1. g[k - 1] = f[k - 1]
        BY <2>3
      <4> QED BY <2>3, <3>1, <4>1 DEF x
    <3>2. CASE i # k
      <4>1. i \in 1..(k - 1)
        BY <3>2
      <4>2. g[i] = f[i] /\ g[i - 1] = f[i - 1]
        BY <2>3, <4>1
      <4> QED BY <2>1, <4>1, <4>2
    <3> QED BY <3>1, <3>2
  <2>6. Upto(k, g)
    BY <2>4, <2>5
  <2> QED BY <2>3, <2>6
<1>3. n \in P
  <2> HIDE DEF P
  <2>1. \A k \in 0..n : k \in P
    BY <1>1, <1>2, InductionUpTo
  <2> QED BY <2>1
<1>4. \E f \in [0..n -> X] : Upto(n, f)
  BY <1>3
<1> QED BY <1>4 DEF Recursion

-----------------------------------------------------------------------------
(* The waves: what the operators compute, of any edges E                    *)

EdgeCounts == [Indices \X Indices -> Nat]

SumUpTo(E, S, t, n, f) ==
  f = [k \in 0..n |-> IF k = 0 THEN 0 ELSE f[k - 1] + (IF k \in S THEN E[<<k, t>>] ELSE 0)]
Into(E, S, t) ==
  LET from[n \in 0..WaveTasks] ==
        IF n = 0 THEN 0 ELSE from[n - 1] + (IF n \in S THEN E[<<n, t>>] ELSE 0)
  IN from[WaveTasks]

LEMMA EdgesIntoIs == \A S, t : EdgesInto(S, t) = Into(edges, S, t)
BY DEF EdgesInto, Into

(* The sum up to each task, which is a number.                              *)
LEMMA SumOf ==
  ASSUME NEW E \in EdgeCounts, NEW S, NEW t \in Indices
  PROVE  \E f \in [0..WaveTasks -> Nat] :
           /\ Into(E, S, t) = f[WaveTasks]
           /\ f[0] = 0
           /\ \A k \in 1..WaveTasks : f[k] = f[k - 1] + (IF k \in S THEN E[<<k, t>>] ELSE 0)
<1> DEFINE c(k) == IF k \in S THEN E[<<k, t>>] ELSE 0
           G == [k \in 1..WaveTasks |-> [x \in Nat |-> x + c(k)]]
<1>1. WaveTasks \in Nat
  BY WavesAssumption
<1>2. \A k \in 1..WaveTasks : c(k) \in Nat
  BY DEF EdgeCounts, Indices
<1> HIDE DEF c
<1>3. G \in [1..WaveTasks -> [Nat -> Nat]]
  BY <1>2
<1>4. \A k \in 1..WaveTasks, x \in Nat : G[k][x] = x + c(k)
  OBVIOUS
<1> HIDE DEF G
<1>5. PICK f \in [0..WaveTasks -> Nat] : f[0] = 0 /\ \A k \in 1..WaveTasks : f[k] = G[k][f[k - 1]]
  <2>1. 0 \in Nat
    OBVIOUS
  <2>2. \E f : Recursion(WaveTasks, Nat, 0, G, f)
    BY <1>1, <1>3, <2>1, RecursionExists
  <2> QED BY <2>2 DEF Recursion
<1>6. \A k \in 1..WaveTasks : f[k] = f[k - 1] + c(k)
  <2> SUFFICES ASSUME NEW k \in 1..WaveTasks PROVE f[k] = f[k - 1] + c(k)
    OBVIOUS
  <2>1. f[k - 1] \in Nat
    BY <1>1
  <2> QED BY <1>4, <1>5, <2>1
<1>7. SumUpTo(E, S, t, WaveTasks, f)
  <2>1. \A k \in 0..WaveTasks : f[k] = IF k = 0 THEN 0 ELSE f[k - 1] + c(k)
    BY <1>1, <1>5, <1>6
  <2>2. f = [k \in 0..WaveTasks |-> IF k = 0 THEN 0 ELSE f[k - 1] + c(k)]
    BY <2>1
  <2> QED BY <2>2 DEF SumUpTo, c
<1>8. \E g : SumUpTo(E, S, t, WaveTasks, g) /\ Into(E, S, t) = g[WaveTasks]
  BY <1>7 DEF Into, SumUpTo
<1>9. PICK g : SumUpTo(E, S, t, WaveTasks, g) /\ Into(E, S, t) = g[WaveTasks]
  BY <1>8
<1>10. /\ g = [k \in 0..WaveTasks |-> g[k]]
       /\ \A k \in 0..WaveTasks : g[k] = IF k = 0 THEN 0 ELSE g[k - 1] + c(k)
  BY <1>9 DEF SumUpTo, c
<1>11. \A k \in 0..WaveTasks : g[k] = f[k]
  <2> DEFINE P == {k \in 0..WaveTasks : g[k] = f[k]}
  <2>1. 0 \in P
    <3>1. 0 \in 0..WaveTasks
      BY <1>1
    <3>2. g[0] = 0
      BY <1>10, <3>1
    <3> QED BY <1>5, <3>1, <3>2
  <2>2. ASSUME NEW k \in 1..WaveTasks, k - 1 \in P PROVE k \in P
    <3>1. k \in 0..WaveTasks /\ k # 0
      BY <1>1
    <3>2. g[k] = g[k - 1] + c(k)
      BY <1>10, <3>1
    <3>3. g[k - 1] = f[k - 1]
      BY <2>2
    <3>4. f[k] = f[k - 1] + c(k)
      BY <1>6
    <3> QED BY <3>1, <3>2, <3>3, <3>4
  <2>3. \A k \in 0..WaveTasks : k \in P
    <3> HIDE DEF P
    <3> QED BY <1>1, <2>1, <2>2, InductionUpTo
  <2> QED BY <2>3
<1>12. Into(E, S, t) = f[WaveTasks]
  BY <1>1, <1>9, <1>11
<1> QED BY <1>5, <1>6, <1>12 DEF c

(* A sum is zero when there are no edges to count.                          *)
LEMMA NothingInto ==
  ASSUME NEW E \in EdgeCounts, NEW S \in SUBSET Indices, NEW t \in Indices
  PROVE  /\ Into(E, S, t) \in Nat
         /\ Into(E, S, t) = 0 <=> \A f \in S : E[<<f, t>>] = 0
<1>1. WaveTasks \in Nat /\ Indices = 1..WaveTasks
  BY WavesAssumption DEF Indices
<1>2. PICK f \in [0..WaveTasks -> Nat] :
           /\ Into(E, S, t) = f[WaveTasks]
           /\ f[0] = 0
           /\ \A k \in 1..WaveTasks : f[k] = f[k - 1] + (IF k \in S THEN E[<<k, t>>] ELSE 0)
  BY SumOf
<1> DEFINE P == {k \in 0..WaveTasks : f[k] = 0 <=> \A i \in 1..k : i \in S => E[<<i, t>>] = 0}
<1>3. 0 \in P
  BY <1>1, <1>2
<1>4. ASSUME NEW k \in 1..WaveTasks, k - 1 \in P PROVE k \in P
  <2>1. f[k] = f[k - 1] + (IF k \in S THEN E[<<k, t>>] ELSE 0)
    BY <1>2
  <2>2. f[k - 1] \in Nat /\ f[k] \in Nat /\ E[<<k, t>>] \in Nat
    BY <1>1 DEF EdgeCounts
  <2>3. f[k] = 0 <=> f[k - 1] = 0 /\ (k \in S => E[<<k, t>>] = 0)
    BY <2>1, <2>2
  <2>4. f[k - 1] = 0 <=> \A i \in 1..(k - 1) : i \in S => E[<<i, t>>] = 0
    BY <1>4
  <2>5. (\A i \in 1..k : i \in S => E[<<i, t>>] = 0)
          <=> (\A i \in 1..(k - 1) : i \in S => E[<<i, t>>] = 0) /\ (k \in S => E[<<k, t>>] = 0)
    <3>1. \A i \in 1..k : i \in 1..(k - 1) \/ i = k
      OBVIOUS
    <3>2. k \in 1..k /\ \A i \in 1..(k - 1) : i \in 1..k
      OBVIOUS
    <3> QED BY <3>1, <3>2
  <2> QED BY <2>3, <2>4, <2>5
<1>5. WaveTasks \in P
  <2> HIDE DEF P
  <2>1. \A k \in 0..WaveTasks : k \in P
    BY <1>1, <1>3, <1>4, InductionUpTo
  <2> QED BY <1>1, <2>1
<1>6. f[WaveTasks] = 0 <=> \A i \in 1..WaveTasks : i \in S => E[<<i, t>>] = 0
  BY <1>5
<1>7. f[WaveTasks] \in Nat
  BY <1>1
<1> QED BY <1>1, <1>2, <1>6, <1>7

(* What is left when the edges from a wave are taken off.                   *)
LEMMA RestInto ==
  ASSUME NEW E \in EdgeCounts, NEW A, NEW B, A \subseteq B, NEW t \in Indices
  PROVE  Into(E, B, t) - Into(E, A, t) = Into(E, B \ A, t)
<1>1. WaveTasks \in Nat /\ Indices = 1..WaveTasks
  BY WavesAssumption DEF Indices
<1>2. PICK f \in [0..WaveTasks -> Nat] :
           /\ Into(E, A, t) = f[WaveTasks]
           /\ f[0] = 0
           /\ \A k \in 1..WaveTasks : f[k] = f[k - 1] + (IF k \in A THEN E[<<k, t>>] ELSE 0)
  BY SumOf
<1>3. PICK g \in [0..WaveTasks -> Nat] :
           /\ Into(E, B, t) = g[WaveTasks]
           /\ g[0] = 0
           /\ \A k \in 1..WaveTasks : g[k] = g[k - 1] + (IF k \in B THEN E[<<k, t>>] ELSE 0)
  BY SumOf
<1>4. PICK h \in [0..WaveTasks -> Nat] :
           /\ Into(E, B \ A, t) = h[WaveTasks]
           /\ h[0] = 0
           /\ \A k \in 1..WaveTasks : h[k] = h[k - 1] + (IF k \in B \ A THEN E[<<k, t>>] ELSE 0)
  BY SumOf
<1> DEFINE P == {k \in 0..WaveTasks : g[k] = f[k] + h[k]}
<1>5. 0 \in P
  BY <1>1, <1>2, <1>3, <1>4
<1>6. ASSUME NEW k \in 1..WaveTasks, k - 1 \in P PROVE k \in P
  <2>1. /\ f[k - 1] \in Nat /\ g[k - 1] \in Nat /\ h[k - 1] \in Nat
        /\ E[<<k, t>>] \in Nat /\ g[k - 1] = f[k - 1] + h[k - 1]
    BY <1>1, <1>6 DEF EdgeCounts
  <2>2. /\ f[k] = f[k - 1] + (IF k \in A THEN E[<<k, t>>] ELSE 0)
        /\ g[k] = g[k - 1] + (IF k \in B THEN E[<<k, t>>] ELSE 0)
        /\ h[k] = h[k - 1] + (IF k \in B \ A THEN E[<<k, t>>] ELSE 0)
    BY <1>2, <1>3, <1>4
  <2>3. g[k] = f[k] + h[k]
    BY <2>1, <2>2
  <2> QED BY <2>3
<1>7. WaveTasks \in P
  <2> HIDE DEF P
  <2>1. \A k \in 0..WaveTasks : k \in P
    BY <1>1, <1>5, <1>6, InductionUpTo
  <2> QED BY <1>1, <2>1
<1>8. g[WaveTasks] = f[WaveTasks] + h[WaveTasks]
  BY <1>7
<1>9. f[WaveTasks] \in Nat /\ h[WaveTasks] \in Nat
  BY <1>1
<1> QED BY <1>2, <1>3, <1>4, <1>8, <1>9


-----------------------------------------------------------------------------
(* The waves: their layers, for any edges E                                 *)

NeedsOf(E, t) == {f \in Indices : E[<<f, t>>] > 0}
LayersUpTo(E, n, L) ==
  L = [k \in 0..n |-> IF k = 0 THEN {} ELSE {t \in Indices : NeedsOf(E, t) \subseteq L[k - 1]}]
LayerOf(E, n) ==
  LET L[k \in 0..n] ==
        IF k = 0 THEN {} ELSE {t \in Indices : NeedsOf(E, t) \subseteq L[k - 1]}
  IN L[n]

LEMMA LayerIs == \A n : Layer(n) = LayerOf(edges, n)
BY DEF Layer, LayerOf, Needs, NeedsOf

LEMMA LayersExist ==
  ASSUME NEW E, NEW n \in Nat
  PROVE  \E L : LayersUpTo(E, n, L)
<1> DEFINE X == SUBSET Indices
           step(x) == {t \in Indices : NeedsOf(E, t) \subseteq x}
           G == [k \in 1..n |-> [x \in X |-> step(x)]]
<1>1. \A x : step(x) \in X
  OBVIOUS
<1>2. {} \in X
  OBVIOUS
<1> HIDE DEF step, X
<1>3. G \in [1..n -> [X -> X]]
  BY <1>1
<1>4. \A k \in 1..n, x \in X : G[k][x] = step(x)
  OBVIOUS
<1> HIDE DEF G
<1>5. PICK L \in [0..n -> X] : L[0] = {} /\ \A k \in 1..n : L[k] = G[k][L[k - 1]]
  <2>1. \E L : Recursion(n, X, {}, G, L)
    BY <1>2, <1>3, RecursionExists
  <2> QED BY <2>1 DEF Recursion
<1>6. \A k \in 0..n : L[k] = IF k = 0 THEN {} ELSE step(L[k - 1])
  <2> SUFFICES ASSUME NEW k \in 0..n, k # 0 PROVE L[k] = step(L[k - 1])
    BY <1>5
  <2>1. k \in 1..n /\ k - 1 \in 0..n
    OBVIOUS
  <2>2. L[k - 1] \in X
    BY <2>1
  <2> QED BY <1>4, <1>5, <2>1, <2>2
<1>7. L = [k \in 0..n |-> IF k = 0 THEN {} ELSE step(L[k - 1])]
  BY <1>6
<1>8. LayersUpTo(E, n, L)
  BY <1>7 DEF LayersUpTo, step
<1> QED BY <1>8

LEMMA LayersAgree ==
  ASSUME NEW E, NEW n \in Nat, NEW m \in Nat, NEW L, NEW M,
         LayersUpTo(E, n, L), LayersUpTo(E, m, M), m <= n
  PROVE  \A k \in 0..m : L[k] = M[k]
<1> DEFINE step(x) == {t \in Indices : NeedsOf(E, t) \subseteq x}
<1>1. L = [k \in 0..n |-> IF k = 0 THEN {} ELSE step(L[k - 1])]
  BY DEF LayersUpTo
<1>2. M = [k \in 0..m |-> IF k = 0 THEN {} ELSE step(M[k - 1])]
  BY DEF LayersUpTo
<1> HIDE DEF step
<1>3. \A k \in 0..n : L[k] = IF k = 0 THEN {} ELSE step(L[k - 1])
  BY <1>1
<1>4. \A k \in 0..m : M[k] = IF k = 0 THEN {} ELSE step(M[k - 1])
  BY <1>2
<1> DEFINE P == {k \in 0..m : L[k] = M[k]}
<1>5. 0 \in P
  <2>1. 0 \in 0..m /\ 0 \in 0..n
    OBVIOUS
  <2>2. L[0] = {} /\ M[0] = {}
    BY <1>3, <1>4, <2>1
  <2> QED BY <2>1, <2>2
<1>6. ASSUME NEW k \in 1..m, k - 1 \in P PROVE k \in P
  <2>1. k \in 0..m /\ k \in 0..n /\ k # 0
    OBVIOUS
  <2>2. L[k] = step(L[k - 1]) /\ M[k] = step(M[k - 1])
    BY <1>3, <1>4, <2>1
  <2>3. L[k - 1] = M[k - 1]
    BY <1>6
  <2>4. L[k] = M[k]
    BY <2>2, <2>3
  <2> QED BY <2>1, <2>4
<1>7. \A k \in 0..m : k \in P
  <2> HIDE DEF P
  <2> QED BY <1>5, <1>6, InductionUpTo
<1> QED BY <1>7

LEMMA LayerOfIs ==
  ASSUME NEW E, NEW n \in Nat, NEW L, LayersUpTo(E, n, L), NEW m \in 0..n
  PROVE  LayerOf(E, m) = L[m]
<1>1. m \in Nat /\ m <= n
  OBVIOUS
<1>2. \E M : LayersUpTo(E, m, M)
  BY <1>1, LayersExist
<1>3. \E M : LayersUpTo(E, m, M) /\ LayerOf(E, m) = M[m]
  BY <1>2 DEF LayerOf, LayersUpTo
<1>4. PICK M : LayersUpTo(E, m, M) /\ LayerOf(E, m) = M[m]
  BY <1>3
<1>5. \A k \in 0..m : L[k] = M[k]
  BY <1>1, <1>4, LayersAgree
<1> QED BY <1>1, <1>4, <1>5

LEMMA LayerSteps ==
  ASSUME NEW E, NEW n \in Nat
  PROVE  /\ LayerOf(E, 0) = {}
         /\ LayerOf(E, n + 1) = {t \in Indices : NeedsOf(E, t) \subseteq LayerOf(E, n)}
<1>1. n + 1 \in Nat /\ 0 \in 0..(n + 1) /\ n \in 0..(n + 1) /\ n + 1 \in 0..(n + 1)
  OBVIOUS
<1>2. PICK L : LayersUpTo(E, n + 1, L)
  BY <1>1, LayersExist
<1>3. LayerOf(E, 0) = L[0] /\ LayerOf(E, n) = L[n] /\ LayerOf(E, n + 1) = L[n + 1]
  BY <1>1, <1>2, LayerOfIs
<1> DEFINE step(x) == {t \in Indices : NeedsOf(E, t) \subseteq x}
<1>4. L = [k \in 0..(n + 1) |-> IF k = 0 THEN {} ELSE step(L[k - 1])]
  BY <1>2 DEF LayersUpTo
<1> HIDE DEF step
<1>5. L[0] = {}
  BY <1>1, <1>4
<1>6. L[n + 1] = step(L[n])
  <2>1. n + 1 # 0 /\ (n + 1) - 1 = n
    OBVIOUS
  <2>2. L[n + 1] = step(L[(n + 1) - 1])
    BY <1>1, <1>4, <2>1
  <2> QED BY <2>1, <2>2
<1> QED BY <1>3, <1>5, <1>6 DEF step

LEMMA LayersGrow ==
  ASSUME NEW E, NEW n \in Nat
  PROVE  LayerOf(E, n) \subseteq LayerOf(E, n + 1) /\ LayerOf(E, n) \in SUBSET Indices
<1> DEFINE P == {k \in 0..n : LayerOf(E, k) \subseteq LayerOf(E, k + 1)
                                /\ LayerOf(E, k) \in SUBSET Indices}
<1>1. 0 \in P
  <2>1. 0 \in Nat /\ 0 \in 0..n
    OBVIOUS
  <2>2. LayerOf(E, 0) = {}
    BY <2>1, LayerSteps
  <2> QED BY <2>1, <2>2
<1>2. ASSUME NEW k \in 1..n, k - 1 \in P PROVE k \in P
  <2>1. k \in Nat /\ k - 1 \in Nat /\ (k - 1) + 1 = k /\ k \in 0..n
    OBVIOUS
  <2>2. LayerOf(E, k - 1) \subseteq LayerOf(E, k)
    BY <1>2, <2>1
  <2>3. LayerOf(E, (k - 1) + 1) = {t \in Indices : NeedsOf(E, t) \subseteq LayerOf(E, k - 1)}
    BY <2>1, LayerSteps
  <2>4. LayerOf(E, k) = {t \in Indices : NeedsOf(E, t) \subseteq LayerOf(E, k - 1)}
    BY <2>1, <2>3
  <2>5. LayerOf(E, k + 1) = {t \in Indices : NeedsOf(E, t) \subseteq LayerOf(E, k)}
    BY <2>1, LayerSteps
  <2>6. LayerOf(E, k) \subseteq LayerOf(E, k + 1)
    BY <2>2, <2>4, <2>5
  <2>7. LayerOf(E, k) \in SUBSET Indices
    BY <2>4
  <2> QED BY <2>1, <2>6, <2>7
<1>3. \A k \in 0..n : k \in P
  <2> HIDE DEF P
  <2> QED BY <1>1, <1>2, InductionUpTo
<1>4. n \in P
  <2> HIDE DEF P
  <2> QED BY <1>3
<1> QED BY <1>4

(* Once two layers are the same nothing is added any more.                  *)
LEMMA LayersSettle ==
  ASSUME NEW E, NEW n \in Nat, LayerOf(E, n + 1) = LayerOf(E, n), NEW d \in Nat
  PROVE  LayerOf(E, n + d) = LayerOf(E, n)
<1> DEFINE P == {k \in 0..d : LayerOf(E, n + k) = LayerOf(E, n)}
<1>1. 0 \in P
  OBVIOUS
<1>2. ASSUME NEW k \in 1..d, k - 1 \in P PROVE k \in P
  <2>1. n + (k - 1) \in Nat /\ (n + (k - 1)) + 1 = n + k /\ k \in 0..d
    OBVIOUS
  <2>2. LayerOf(E, n + (k - 1)) = LayerOf(E, n)
    BY <1>2
  <2>3. LayerOf(E, (n + (k - 1)) + 1)
          = {t \in Indices : NeedsOf(E, t) \subseteq LayerOf(E, n + (k - 1))}
    BY <2>1, LayerSteps
  <2>4. LayerOf(E, n + 1) = {t \in Indices : NeedsOf(E, t) \subseteq LayerOf(E, n)}
    BY LayerSteps
  <2>5. LayerOf(E, n + k) = LayerOf(E, n + 1)
    BY <2>1, <2>2, <2>3, <2>4
  <2>6. LayerOf(E, n + k) = LayerOf(E, n)
    BY <2>5
  <2> QED BY <2>1, <2>6
<1>3. \A k \in 0..d : k \in P
  <2> HIDE DEF P
  <2> QED BY <1>1, <1>2, InductionUpTo
<1>4. d \in P
  <2> HIDE DEF P
  <2> QED BY <1>3
<1> QED BY <1>4

-----------------------------------------------------------------------------
(* The waves: the invariant of the loop                                     *)

WaveOf(E, n) == LayerOf(E, n) \ LayerOf(E, n - 1)
Grows(E, n) == \A k \in 1..n : LayerOf(E, k) # LayerOf(E, k - 1)

(* n waves are built, and they are the first n layers.                      *)
Layered(E, I, R, W, Q, n) ==
  /\ Q = LayerOf(E, n)
  /\ R = WaveOf(E, n + 1)
  /\ I = [t \in Indices |-> Into(E, Indices \ Q, t)]
  /\ W = [i \in 1..n |-> WaveOf(E, i)]
  /\ Grows(E, n)
  /\ n <= Cardinality(Q)

(* The n layers there are have their waves, and the rest is queued.         *)
LayeredAndOver(E, R, W, Q, n) ==
  /\ R = {} /\ Q = Indices
  /\ LayerOf(E, n + 1) = LayerOf(E, n)
  /\ Grows(E, n)
  /\ n <= WaveTasks
  /\ W = [i \in 1..n |-> WaveOf(E, i)] \o Singly(InIndexOrder(Indices \ LayerOf(E, n)))

WavesInv ==
  /\ edges \in EdgeCounts
  /\ \E n \in Nat : \/ Layered(edges, indegree, ready, waves, queued, n)
                    \/ LayeredAndOver(edges, ready, waves, queued, n)

LEMMA IndicesFinite == IsFiniteSet(Indices) /\ Cardinality(Indices) = WaveTasks
<1>1. WaveTasks \in Nat
  BY WavesAssumption
<1>2. IsFiniteSet(1..WaveTasks)
      /\ Cardinality(1..WaveTasks) = IF 1 > WaveTasks THEN 0 ELSE WaveTasks - 1 + 1
  BY <1>1, FS_Interval
<1> QED BY <1>1, <1>2 DEF Indices

(* The edges into a task from outside a layer: none, exactly when all it    *)
(* needs is in the layer, that is, when it belongs to the next one.         *)
LEMMA OutsideLayer ==
  ASSUME NEW E \in EdgeCounts, NEW n \in Nat, NEW t \in Indices
  PROVE  /\ Into(E, Indices \ LayerOf(E, n), t) \in Nat
         /\ Into(E, Indices \ LayerOf(E, n), t) = 0 <=> t \in LayerOf(E, n + 1)
<1> DEFINE S == Indices \ LayerOf(E, n)
<1>1. Into(E, S, t) \in Nat /\ (Into(E, S, t) = 0 <=> \A f \in S : E[<<f, t>>] = 0)
  <2>1. S \in SUBSET Indices
    OBVIOUS
  <2> HIDE DEF S
  <2> QED BY <2>1, NothingInto
<1>2. \A f \in Indices : E[<<f, t>>] \in Nat
  BY DEF EdgeCounts
<1>3. (\A f \in S : E[<<f, t>>] = 0) <=> NeedsOf(E, t) \subseteq LayerOf(E, n)
  BY <1>2 DEF NeedsOf
<1>4. t \in LayerOf(E, n + 1) <=> NeedsOf(E, t) \subseteq LayerOf(E, n)
  BY LayerSteps
<1> QED BY <1>1, <1>3, <1>4

LEMMA WavesInvInit ==
  ASSUME WavesInit
  PROVE  WavesInv
<1>1. edges \in EdgeCounts
  <2>1. edges \in [Indices \X Indices -> 0..MaxRepetitions]
    BY DEF WavesInit
  <2>2. 0..MaxRepetitions \subseteq Nat
    BY WavesAssumption
  <2> QED BY <2>1, <2>2 DEF EdgeCounts
<1>2. LayerOf(edges, 0) = {}
  BY LayerSteps
<1>3. indegree = [t \in Indices |-> Into(edges, Indices \ queued, t)]
  <2>1. Indices \ queued = Indices
    BY DEF WavesInit
  <2>2. \A t \in Indices : EdgesInto(Indices, t) = Into(edges, Indices \ queued, t)
    BY <2>1, EdgesIntoIs
  <2> QED BY <2>2 DEF WavesInit
<1>4. queued = LayerOf(edges, 0)
  BY <1>2 DEF WavesInit
<1>5. ready = WaveOf(edges, 0 + 1)
  <2>1. \A t \in Indices : indegree[t] = Into(edges, Indices \ LayerOf(edges, 0), t)
    BY <1>3, <1>4
  <2>2. \A t \in Indices : indegree[t] = 0 <=> t \in LayerOf(edges, 0 + 1)
    BY <1>1, <2>1, OutsideLayer
  <2>3. LayerOf(edges, 0 + 1) \subseteq Indices
    <3>1. 0 + 1 \in Nat
      OBVIOUS
    <3> QED BY <3>1, LayersGrow
  <2>4. ready = LayerOf(edges, 0 + 1)
    BY <2>2, <2>3 DEF WavesInit
  <2>5. (0 + 1) - 1 = 0
    OBVIOUS
  <2> QED BY <1>2, <2>4, <2>5 DEF WaveOf
<1>6. waves = [i \in 1..0 |-> WaveOf(edges, i)]
  <2>1. waves = << >>
    BY DEF WavesInit
  <2> QED BY <2>1
<1>7. Grows(edges, 0)
  BY DEF Grows
<1>8. 0 <= Cardinality(queued)
  <2>1. Cardinality(queued) = 0
    BY FS_EmptySet DEF WavesInit
  <2> QED BY <2>1
<1>9. Layered(edges, indegree, ready, waves, queued, 0)
  BY <1>3, <1>4, <1>5, <1>6, <1>7, <1>8 DEF Layered
<1>10. 0 \in Nat
  OBVIOUS
<1> QED BY <1>1, <1>9, <1>10 DEF WavesInv

(* One iteration adds the next layer.                                       *)
LEMMA NextWaveAddsALayer ==
  ASSUME edges \in EdgeCounts, NEW n \in Nat,
         Layered(edges, indegree, ready, waves, queued, n), NextWave
  PROVE  Layered(edges', indegree', ready', waves', queued', n + 1)
<1> DEFINE L(k) == LayerOf(edges, k)
<1>1. edges' = edges /\ ready # {}
  BY DEF NextWave
<1>2. L(n) \subseteq L(n + 1) /\ L(n) \in SUBSET Indices /\ L(n + 1) \in SUBSET Indices
  <2>1. n + 1 \in Nat
    OBVIOUS
  <2> QED BY <2>1, LayersGrow
<1>3. queued = L(n) /\ ready = L(n + 1) \ L(n)
  <2>1. (n + 1) - 1 = n
    OBVIOUS
  <2> QED BY <2>1 DEF Layered, WaveOf
<1>4. queued' = L(n + 1)
  BY <1>2, <1>3 DEF NextWave
<1>5. indegree' = [t \in Indices |-> Into(edges, Indices \ queued', t)]
  <2>1. \A t \in Indices : indegree[t] = Into(edges, Indices \ queued, t)
    BY DEF Layered
  <2>2. \A t : EdgesInto(ready, t) = Into(edges, ready, t)
    BY EdgesIntoIs
  <2>3. ready \subseteq Indices \ queued /\ (Indices \ queued) \ ready = Indices \ queued'
    BY <1>2, <1>3, <1>4
  <2>4. ASSUME NEW t \in Indices
        PROVE  indegree[t] - EdgesInto(ready, t) = Into(edges, Indices \ queued', t)
    <3>1. Into(edges, Indices \ queued, t) - Into(edges, ready, t)
            = Into(edges, (Indices \ queued) \ ready, t)
      BY <2>3, RestInto
    <3> QED BY <2>1, <2>2, <2>3, <3>1
  <2>5. indegree' = [t \in Indices |-> indegree[t] - EdgesInto(ready, t)]
    BY DEF NextWave
  <2> QED BY <2>4, <2>5
<1>6. ready' = WaveOf(edges, (n + 1) + 1)
  <2>1. n + 1 \in Nat /\ ((n + 1) + 1) - 1 = n + 1 /\ (n + 1) + 1 \in Nat
    OBVIOUS
  <2>2. \A t \in Indices : indegree[t] \in Nat /\ (indegree[t] = 0 <=> t \in L(n + 1))
    <3>1. \A t \in Indices : indegree[t] = Into(edges, Indices \ L(n), t)
      BY <1>3 DEF Layered
    <3> QED BY <3>1, OutsideLayer
  <2>3. \A t \in Indices : indegree'[t] = 0 <=> t \in L((n + 1) + 1)
    <3>1. \A t \in Indices : indegree'[t] = Into(edges, Indices \ L(n + 1), t)
      BY <1>4, <1>5
    <3> QED BY <2>1, <3>1, OutsideLayer
  <2>4. L((n + 1) + 1) \subseteq Indices
    BY <2>1, LayersGrow
  <2>5. ready' = {t \in Indices : indegree[t] > 0 /\ indegree'[t] = 0}
    BY DEF NextWave
  <2>6. \A t \in Indices : indegree[t] > 0 <=> t \notin L(n + 1)
    BY <2>2
  <2>7. ready' = L((n + 1) + 1) \ L(n + 1)
    BY <2>3, <2>4, <2>5, <2>6
  <2> QED BY <2>1, <2>7 DEF WaveOf
<1>7. waves' = [i \in 1..(n + 1) |-> WaveOf(edges, i)]
  <2> DEFINE w(i) == WaveOf(edges, i)
  <2>1. waves = [i \in 1..n |-> w(i)] /\ ready = w(n + 1) /\ waves' = Append(waves, ready)
    BY DEF Layered, NextWave
  <2> HIDE DEF w
  <2>2. Append([i \in 1..n |-> w(i)], w(n + 1)) = [i \in 1..(n + 1) |-> w(i)]
    OBVIOUS
  <2> QED BY <2>1, <2>2 DEF w
<1>8. Grows(edges, n + 1)
  <2>1. L(n + 1) # L(n)
    BY <1>1, <1>3
  <2>2. \A k \in 1..(n + 1) : k \in 1..n \/ (k = n + 1 /\ k - 1 = n)
    OBVIOUS
  <2>3. \A k \in 1..n : L(k) # L(k - 1)
    BY DEF Layered, Grows
  <2>4. \A k \in 1..(n + 1) : L(k) # L(k - 1)
    <3> HIDE DEF L
    <3> QED BY <2>1, <2>2, <2>3
  <2> QED BY <2>4 DEF Grows
<1>9. n + 1 <= Cardinality(queued')
  <2>1. IsFiniteSet(queued') /\ queued \subseteq queued' /\ queued # queued'
    <3>1. queued' \subseteq Indices
      BY <1>2, <1>4
    <3>2. IsFiniteSet(queued')
      BY <3>1, IndicesFinite, FS_Subset
    <3> QED BY <1>1, <1>2, <1>3, <1>4, <3>2
  <2>2. Cardinality(queued) < Cardinality(queued')
    <3>1. \A T \in SUBSET queued' : Cardinality(T) = Cardinality(queued') => T = queued'
      BY <2>1, FS_Subset
    <3>2. Cardinality(queued) <= Cardinality(queued') /\ IsFiniteSet(queued)
      BY <2>1, FS_Subset
    <3>3. Cardinality(queued) # Cardinality(queued')
      BY <2>1, <3>1
    <3>4. Cardinality(queued) \in Nat /\ Cardinality(queued') \in Nat
      BY <2>1, <3>2, FS_CardinalityType
    <3> QED BY <3>2, <3>3, <3>4
  <2>3. Cardinality(queued) \in Nat /\ Cardinality(queued') \in Nat
    <3>1. IsFiniteSet(queued)
      BY <2>1, FS_Subset
    <3> QED BY <2>1, <3>1, FS_CardinalityType
  <2>4. n <= Cardinality(queued)
    BY DEF Layered
  <2> QED BY <2>2, <2>3, <2>4
<1> QED BY <1>1, <1>4, <1>5, <1>6, <1>7, <1>8, <1>9 DEF Layered

(* No wave is ready: the layers have settled.                               *)
LEMMA NothingReady ==
  ASSUME edges \in EdgeCounts, NEW n \in Nat,
         Layered(edges, indegree, ready, waves, queued, n), ready = {}
  PROVE  LayerOf(edges, n + 1) = LayerOf(edges, n) /\ n <= WaveTasks
<1>1. LayerOf(edges, n) \subseteq LayerOf(edges, n + 1) /\ LayerOf(edges, n) \in SUBSET Indices
  BY LayersGrow
<1>2. LayerOf(edges, n + 1) \ LayerOf(edges, n) = {}
  <2>1. (n + 1) - 1 = n
    OBVIOUS
  <2> QED BY <2>1 DEF Layered, WaveOf
<1>3. n <= Cardinality(queued) /\ queued \subseteq Indices
  BY <1>1 DEF Layered
<1>4. Cardinality(queued) <= WaveTasks /\ Cardinality(queued) \in Nat
  BY <1>3, IndicesFinite, FS_Subset, FS_CardinalityType
<1>5. n <= WaveTasks
  <2>1. WaveTasks \in Nat
    BY WavesAssumption
  <2> QED BY <1>3, <1>4, <2>1
<1>6. LayerOf(edges, n + 1) = LayerOf(edges, n)
  BY <1>1, <1>2
<1> QED BY <1>5, <1>6

LEMMA WavesInvNext ==
  ASSUME WavesInv, [WavesNext]_waveVars
  PROVE  WavesInv'
<1>1. edges \in EdgeCounts
  BY DEF WavesInv
<1>2. PICK n \in Nat : \/ Layered(edges, indegree, ready, waves, queued, n)
                       \/ LayeredAndOver(edges, ready, waves, queued, n)
  BY DEF WavesInv
<1>3. CASE NextWave
  <2>1. Layered(edges, indegree, ready, waves, queued, n)
    BY <1>2, <1>3 DEF NextWave, LayeredAndOver
  <2>2. Layered(edges', indegree', ready', waves', queued', n + 1)
    BY <1>1, <1>3, <2>1, NextWaveAddsALayer
  <2>3. n + 1 \in Nat /\ edges' = edges
    BY <1>3 DEF NextWave
  <2>4. edges' \in EdgeCounts
    BY <1>1, <2>3
  <2>5. \E k \in Nat : Layered(edges', indegree', ready', waves', queued', k)
    BY <2>2, <2>3
  <2> QED BY <2>4, <2>5 DEF WavesInv, EdgeCounts
<1>4. CASE QueueRest
  <2>1. Layered(edges, indegree, ready, waves, queued, n)
    BY <1>2, <1>4 DEF QueueRest, LayeredAndOver
  <2>2. ready = {}
    BY <1>4 DEF QueueRest
  <2>3. LayerOf(edges, n + 1) = LayerOf(edges, n) /\ n <= WaveTasks
    BY <1>1, <2>1, <2>2, NothingReady
  <2>4. edges' = edges /\ ready' = {} /\ queued' = Indices
    BY <1>4, <2>2 DEF QueueRest
  <2>5. waves' = [i \in 1..n |-> WaveOf(edges, i)] \o Singly(InIndexOrder(Indices \ LayerOf(edges, n)))
    BY <1>4, <2>1 DEF QueueRest, Layered
  <2>6. Grows(edges, n)
    BY <2>1 DEF Layered
  <2>7. LayeredAndOver(edges', ready', waves', queued', n)
    BY <2>3, <2>4, <2>5, <2>6 DEF LayeredAndOver
  <2>8. edges' \in EdgeCounts
    BY <1>1, <2>4
  <2> QED BY <2>7, <2>8 DEF WavesInv, EdgeCounts
<1>5. CASE UNCHANGED waveVars
  <2>1. /\ edges' = edges /\ indegree' = indegree /\ ready' = ready
        /\ waves' = waves /\ queued' = queued
    BY <1>5 DEF waveVars
  <2>2. edges' \in EdgeCounts
    BY <1>1, <2>1
  <2>3. \/ Layered(edges', indegree', ready', waves', queued', n)
        \/ LayeredAndOver(edges', ready', waves', queued', n)
    BY <1>2, <2>1
  <2> QED BY <2>2, <2>3 DEF WavesInv, EdgeCounts
<1> QED BY <1>3, <1>4, <1>5 DEF WavesNext

(* No task left over, no wave for it.                                       *)
LEMMA NoneLeft == Singly(InIndexOrder({})) = << >>
<1>1. Cardinality({}) = 0
  BY FS_EmptySet
<1> DEFINE ordered(s) == \A i, j \in 1..Cardinality({}) : i < j => s[i] < s[j]
           e == [i \in 1..Cardinality({}) |-> i]
<1>2. e \in [1..Cardinality({}) -> {}] /\ ordered(e)
  BY <1>1
<1>3. \E s \in [1..Cardinality({}) -> {}] : ordered(s)
  <2> HIDE DEF ordered, e
  <2> QED BY <1>2
<1>4. InIndexOrder({}) \in [1..0 -> {}]
  <2>1. InIndexOrder({}) \in [1..Cardinality({}) -> {}]
    BY <1>3 DEF InIndexOrder
  <2> QED BY <1>1, <2>1
<1> DEFINE s == InIndexOrder({})
<1>5. s \in Seq({}) /\ Len(s) = 0
  <2>1. s \in [1..0 -> {}]
    BY <1>4
  <2> HIDE DEF s
  <2> QED BY <2>1
<1> HIDE DEF s
<1>6. Singly(s) = << >>
  <2>1. 1..Len(s) = {}
    BY <1>5
  <2> QED BY <2>1 DEF Singly
<1> QED BY <1>6 DEF s

(* What a finished loop has computed.                                       *)
LEMMA OverIsLayered ==
  ASSUME WavesInv, Over
  PROVE  \E n \in Nat : LayeredAndOver(edges, ready, waves, queued, n)
<1>1. PICK n \in Nat : \/ Layered(edges, indegree, ready, waves, queued, n)
                       \/ LayeredAndOver(edges, ready, waves, queued, n)
  BY DEF WavesInv
<1>2. CASE Layered(edges, indegree, ready, waves, queued, n)
  <2>1. edges \in EdgeCounts /\ ready = {} /\ queued = Indices
    BY DEF WavesInv, Over
  <2>2. LayerOf(edges, n + 1) = LayerOf(edges, n) /\ n <= WaveTasks
    BY <1>2, <2>1, NothingReady
  <2> DEFINE w(i) == WaveOf(edges, i)
             s == [i \in 1..n |-> w(i)]
  <2>3. waves = s /\ queued = LayerOf(edges, n) /\ Grows(edges, n)
    BY <1>2 DEF Layered
  <2>4. Singly(InIndexOrder(Indices \ LayerOf(edges, n))) = << >>
    <3>1. Indices \ LayerOf(edges, n) = {}
      BY <2>1, <2>3
    <3> QED BY <3>1, NoneLeft
  <2>5. s \o << >> = s
    <3> HIDE DEF w
    <3> QED OBVIOUS
  <2>6. waves = s \o Singly(InIndexOrder(Indices \ LayerOf(edges, n)))
    <3> HIDE DEF s
    <3> QED BY <2>3, <2>4, <2>5
  <2> QED BY <2>1, <2>2, <2>3, <2>6 DEF LayeredAndOver
<1> QED BY <1>1, <1>2

LEMMA WavesInvImpliesLayers ==
  ASSUME WavesInv
  PROVE  WavesAreLayers
<1> SUFFICES ASSUME Over
             PROVE  waves = [n \in 1..Cardinality({n \in 1..WaveTasks : Layer(n) # Layer(n - 1)})
                               |-> Layer(n) \ Layer(n - 1)]
                            \o Singly(InIndexOrder(Indices \ Layer(WaveTasks)))
  BY DEF WavesAreLayers
<1>1. PICK n \in Nat : LayeredAndOver(edges, ready, waves, queued, n)
  BY OverIsLayered
<1> DEFINE L(k) == LayerOf(edges, k)
           D == {k \in 1..WaveTasks : Layer(k) # Layer(k - 1)}
<1>2. n <= WaveTasks /\ WaveTasks \in Nat /\ L(n + 1) = L(n)
  BY <1>1, WavesAssumption DEF LayeredAndOver
<1>3. \A k \in Nat : k >= n => L(k) = L(n)
  <2> SUFFICES ASSUME NEW k \in Nat, k >= n PROVE L(k) = L(n)
    OBVIOUS
  <2>1. k - n \in Nat /\ n + (k - n) = k
    OBVIOUS
  <2>2. LayerOf(edges, n + (k - n)) = LayerOf(edges, n)
    BY <1>2, <2>1, LayersSettle
  <2> QED BY <2>1, <2>2
<1>4. D = 1..n
  <2>1. \A k \in 1..n : k \in 1..WaveTasks /\ L(k) # L(k - 1)
    BY <1>1, <1>2 DEF LayeredAndOver, Grows
  <2>2. ASSUME NEW k \in 1..WaveTasks, k \notin 1..n PROVE L(k) = L(k - 1)
    <3>1. k \in Nat /\ k - 1 \in Nat /\ k >= n /\ k - 1 >= n
      BY <2>2
    <3>2. L(k) = L(n) /\ L(k - 1) = L(n)
      <4> HIDE DEF L
      <4> QED BY <1>3, <3>1
    <3> QED BY <3>2
  <2>3. \A k : Layer(k) = L(k)
    BY LayerIs
  <2> HIDE DEF L
  <2>4. D = {k \in 1..WaveTasks : L(k) # L(k - 1)}
    BY <2>3
  <2> HIDE DEF D
  <2> QED BY <2>1, <2>2, <2>4
<1>5. Cardinality(D) = n
  <2>1. Cardinality(1..n) = IF 1 > n THEN 0 ELSE n - 1 + 1
    BY FS_Interval
  <2> HIDE DEF D
  <2> QED BY <1>4, <2>1
<1>6. [k \in 1..Cardinality(D) |-> Layer(k) \ Layer(k - 1)] = [k \in 1..n |-> WaveOf(edges, k)]
  <2> HIDE DEF D
  <2>1. \A k : Layer(k) \ Layer(k - 1) = WaveOf(edges, k)
    BY LayerIs DEF WaveOf
  <2> QED BY <1>5, <2>1
<1>7. Layer(WaveTasks) = LayerOf(edges, n)
  <2>1. L(WaveTasks) = L(n)
    BY <1>2, <1>3
  <2> QED BY <2>1, LayerIs
<1>8. waves = [k \in 1..n |-> WaveOf(edges, k)] \o Singly(InIndexOrder(Indices \ LayerOf(edges, n)))
  BY <1>1 DEF LayeredAndOver
<1>9. waves = [k \in 1..Cardinality(D) |-> Layer(k) \ Layer(k - 1)]
                \o Singly(InIndexOrder(Indices \ Layer(WaveTasks)))
  BY <1>6, <1>7, <1>8
<1> QED BY <1>9

(* The counting of the loop is right: whatever the edges, its waves are the *)
(* first n layers after n iterations, with the edges from the tasks that    *)
(* are not queued yet as indegrees.                                         *)
THEOREM WavesInvariant == WavesSpec => []WavesInv
<1>1. WavesInit => WavesInv
  BY WavesInvInit
<1>2. WavesInv /\ [WavesNext]_waveVars => WavesInv'
  BY WavesInvNext
<1> QED BY <1>1, <1>2, PTL DEF WavesSpec

(* Every task ends up in exactly one wave, behind all it requires if that   *)
(* is possible at all (mapRunTaskExecutionWaves).                           *)
THEOREM LoopComputesTheLayers == WavesSpec => []WavesAreLayers
BY WavesInvariant, WavesInvImpliesLayers, PTL

-----------------------------------------------------------------------------
(* The waves MapRun runs a plan in are those of the loop                    *)

(* Layers only grow.                                                        *)
LEMMA LayersMonotone ==
  ASSUME NEW E, NEW n \in Nat, NEW d \in Nat
  PROVE  LayerOf(E, n) \subseteq LayerOf(E, n + d)
<1> DEFINE P == {k \in 0..d : LayerOf(E, n) \subseteq LayerOf(E, n + k)}
<1>1. 0 \in P
  OBVIOUS
<1>2. ASSUME NEW k \in 1..d, k - 1 \in P PROVE k \in P
  <2>1. n + (k - 1) \in Nat /\ (n + (k - 1)) + 1 = n + k /\ k \in 0..d
    OBVIOUS
  <2>2. LayerOf(E, n + (k - 1)) \subseteq LayerOf(E, (n + (k - 1)) + 1)
    BY <2>1, LayersGrow
  <2>3. LayerOf(E, n) \subseteq LayerOf(E, n + (k - 1))
    BY <1>2
  <2>4. LayerOf(E, n) \subseteq LayerOf(E, n + k)
    BY <2>1, <2>2, <2>3
  <2> QED BY <2>1, <2>4
<1>3. \A k \in 0..d : k \in P
  <2> HIDE DEF P
  <2> QED BY <1>1, <1>2, InductionUpTo
<1>4. d \in P
  <2> HIDE DEF P
  <2> QED BY <1>3
<1> QED BY <1>4

Increasing(s, n) == \A i, j \in 1..n : i < j => s[i] < s[j]

(* A set of tasks can be put into index order.                              *)
LEMMA OrderExists ==
  ASSUME NEW S \in SUBSET Indices
  PROVE  \E s \in [1..Cardinality(S) -> S] : Increasing(s, Cardinality(S))
<1> DEFINE Ordered(T) == \E s \in [1..Cardinality(T) -> T] : Increasing(s, Cardinality(T))
           P == {k \in 0..WaveTasks : \A T \in SUBSET (1..k) : Ordered(T)}
<1>1. WaveTasks \in Nat /\ Indices = 1..WaveTasks
  BY WavesAssumption DEF Indices
<1>2. 0 \in P
  <2>1. Ordered({})
    <3>1. Cardinality({}) = 0
      BY FS_EmptySet
    <3> DEFINE e == [i \in 1..Cardinality({}) |-> i]
    <3>2. e \in [1..Cardinality({}) -> {}] /\ Increasing(e, Cardinality({}))
      BY <3>1 DEF Increasing
    <3> HIDE DEF e
    <3> QED BY <3>2
  <2>2. \A T \in SUBSET (1..0) : T = {}
    OBVIOUS
  <2>3. 0 \in 0..WaveTasks
    BY <1>1
  <2> HIDE DEF Ordered
  <2> QED BY <2>1, <2>2, <2>3
<1>3. ASSUME NEW k \in 1..WaveTasks, k - 1 \in P PROVE k \in P
  <2>1. \A T \in SUBSET (1..(k - 1)) : Ordered(T)
    BY <1>3
  <2>2. ASSUME NEW T \in SUBSET (1..k) PROVE Ordered(T)
    <3>1. CASE k \notin T
      <4>1. T \in SUBSET (1..(k - 1))
        BY <3>1
      <4> HIDE DEF Ordered
      <4> QED BY <2>1, <4>1
    <3>2. CASE k \in T
      <4> DEFINE A == T \ {k}
      <4>1. A \in SUBSET (1..(k - 1)) /\ k \notin A /\ T = A \cup {k}
        BY <3>2
      <4>2. IsFiniteSet(A)
        <5>1. IsFiniteSet(1..(k - 1))
          BY <1>1, FS_Interval
        <5> HIDE DEF A
        <5> QED BY <4>1, <5>1, FS_Subset
      <4> HIDE DEF A
      <4>3. Cardinality(T) = Cardinality(A) + 1 /\ Cardinality(A) \in Nat
        BY <4>1, <4>2, FS_AddElement, FS_CardinalityType
      <4> DEFINE m == Cardinality(A)
      <4>4. PICK s \in [1..m -> A] : Increasing(s, m)
        <5>1. Ordered(A)
          <6> HIDE DEF Ordered
          <6> QED BY <2>1, <4>1
        <5> QED BY <5>1
      <4>5. m \in Nat /\ Cardinality(T) = m + 1
        BY <4>3
      <4> HIDE DEF m
      <4> DEFINE r == [i \in 1..(m + 1) |-> IF i <= m THEN s[i] ELSE k]
      <4>6. \A i \in 1..(m + 1) : r[i] = IF i <= m THEN s[i] ELSE k
        OBVIOUS
      <4>7. r \in [1..(m + 1) -> T]
        <5>1. \A i \in 1..(m + 1) : i <= m => i \in 1..m
          BY <4>5
        <5>2. \A i \in 1..(m + 1) : (IF i <= m THEN s[i] ELSE k) \in T
          BY <4>1, <5>1
        <5> QED BY <5>2
      <4> HIDE DEF r
      <4>8. ASSUME NEW i \in 1..(m + 1), NEW j \in 1..(m + 1), i < j PROVE r[i] < r[j]
        <5>1. i \in 1..m
          BY <4>5, <4>8
        <5>2. r[i] = s[i] /\ s[i] \in 1..(k - 1)
          <6>1. i <= m
            BY <4>5, <5>1
          <6>2. r[i] = s[i]
            BY <4>6, <6>1
          <6>3. s[i] \in A
            BY <5>1
          <6> QED BY <4>1, <6>2, <6>3
        <5>3. CASE j \in 1..m
          <6>1. r[j] = s[j]
            BY <4>5, <4>6, <5>3
          <6>2. s[i] < s[j]
            BY <4>4, <4>8, <5>1, <5>3 DEF Increasing
          <6> QED BY <5>2, <6>1, <6>2
        <5>4. CASE j \notin 1..m
          <6>1. r[j] = k
            BY <4>5, <4>6, <5>4
          <6>2. s[i] < k
            BY <5>2
          <6> QED BY <5>2, <6>1, <6>2
        <5> QED BY <5>3, <5>4
      <4>9. Increasing(r, m + 1)
        BY <4>8 DEF Increasing
      <4>10. \E q \in [1..(m + 1) -> T] : Increasing(q, m + 1)
        BY <4>7, <4>9
      <4> QED BY <4>5, <4>10
    <3> QED BY <3>1, <3>2
  <2>3. k \in 0..WaveTasks
    BY <1>1
  <2> HIDE DEF Ordered
  <2> QED BY <2>2, <2>3
<1>4. WaveTasks \in P
  <2> HIDE DEF P
  <2>1. \A k \in 0..WaveTasks : k \in P
    BY <1>1, <1>2, <1>3, InductionUpTo
  <2> QED BY <1>1, <2>1
<1>5. Ordered(S)
  <2> HIDE DEF Ordered
  <2> QED BY <1>1, <1>4
<1> QED BY <1>5

(* It contains each of them.                                                *)
LEMMA OrderOf ==
  ASSUME NEW S \in SUBSET Indices
  PROVE  /\ Cardinality(S) \in Nat
         /\ InIndexOrder(S) \in [1..Cardinality(S) -> S]
         /\ Increasing(InIndexOrder(S), Cardinality(S))
         /\ \A t \in S : \E i \in 1..Cardinality(S) : InIndexOrder(S)[i] = t
<1> DEFINE c == Cardinality(S)
           o == InIndexOrder(S)
<1>1. c \in Nat /\ IsFiniteSet(S)
  BY IndicesFinite, FS_Subset, FS_CardinalityType
<1>2. o \in [1..c -> S] /\ Increasing(o, c)
  BY OrderExists DEF InIndexOrder, Increasing
<1>3. ASSUME NEW t \in S, \A i \in 1..c : o[i] # t PROVE FALSE
  <2> DEFINE T == S \ {t}
  <2>1. IsFiniteSet(T) /\ Cardinality(T) = c - 1
    BY <1>1, FS_RemoveElement
  <2>2. o \in [1..c -> T]
    BY <1>2, <1>3
  <2> HIDE DEF c, o, T
  <2>3. Cardinality(1..c) = c /\ IsFiniteSet(1..c)
    BY <1>1, FS_Interval
  <2>4. Cardinality(T) < Cardinality(1..c)
    BY <1>1, <2>1, <2>3
  <2>5. PICK i \in 1..c, j \in 1..c : i # j /\ o[i] = o[j]
    BY <2>1, <2>2, <2>3, <2>4, FS_PigeonHole
  <2>6. o[i] \in Nat /\ o[j] \in Nat
    <3>1. o[i] \in S /\ o[j] \in S
      BY <1>2
    <3>2. Indices \subseteq Nat
      BY WavesAssumption DEF Indices
    <3> QED BY <3>1, <3>2
  <2>7. i < j \/ j < i
    BY <1>1, <2>5
  <2> QED BY <1>2, <2>5, <2>6, <2>7 DEF Increasing
<1> QED BY <1>1, <1>2, <1>3

(* The plan p has these tasks and edges.                                    *)
HasEdges(p) ==
  /\ IsPlan(p) /\ DOMAIN p.kind = Indices
  /\ \A f, t \in Indices : <<f, t>> \in p.edges <=> edges[<<f, t>>] > 0

(* The waves of the loop contain every task, in the order of MapRun's.      *)
InTheOrderOf(wave) ==
  /\ \A t \in Indices : \E i \in 1..Len(waves) : t \in waves[i]
  /\ \A i, j \in 1..Len(waves) : \A s \in waves[i], t \in waves[j] :
       i < j <=> wave[s] < wave[t]

(* MapRun's waves, in terms of the layers.                                  *)
LEMMA WavesOfIs ==
  ASSUME NEW p, HasEdges(p)
  PROVE  /\ \A k \in 1..WaveTasks : \A t \in WaveOf(edges, k) : WavesOf(p)[t] = k
         /\ \A t \in Indices \ LayerOf(edges, WaveTasks) : WavesOf(p)[t] = WaveTasks + t
<1> DEFINE L(k) == LayerOf(edges, k)
           N == WaveTasks
           allows(t, x) == \A f \in Indices : <<f, t>> \in p.edges => f \in x
           Q(q) == q = [k \in 0..N |-> IF k = 0 THEN {}
                                       ELSE {t \in Indices : allows(t, q[k - 1])}]
           Queued == CHOOSE q : Q(q)
           W == [t \in Indices |->
                   IF t \in Queued[N] THEN CHOOSE k \in 1..N : t \in Queued[k] \ Queued[k - 1]
                   ELSE N + t]
<1>1. N \in Nat /\ Cardinality(Indices) = N
  BY WavesAssumption, IndicesFinite
<1>2. WavesOf(p) = W
  <2>1. DOMAIN p.kind = Indices
    BY DEF HasEdges
  <2> QED BY <1>1, <2>1 DEF WavesOf
<1>3. \A t \in Indices : \A x : allows(t, x) <=> NeedsOf(edges, t) \subseteq x
  BY DEF HasEdges, NeedsOf
<1>4. \A q : Q(q) <=> LayersUpTo(edges, N, q)
  <2> SUFFICES ASSUME NEW q PROVE Q(q) <=> LayersUpTo(edges, N, q)
    OBVIOUS
  <2> DEFINE a(x) == {t \in Indices : allows(t, x)}
             b(x) == {t \in Indices : NeedsOf(edges, t) \subseteq x}
  <2>1. \A x : a(x) = b(x)
    BY <1>3
  <2>2. (q = [k \in 0..N |-> IF k = 0 THEN {} ELSE a(q[k - 1])])
          <=> (q = [k \in 0..N |-> IF k = 0 THEN {} ELSE b(q[k - 1])])
    <3> HIDE DEF a, b, N
    <3>1. [k \in 0..N |-> IF k = 0 THEN {} ELSE a(q[k - 1])]
            = [k \in 0..N |-> IF k = 0 THEN {} ELSE b(q[k - 1])]
      BY <2>1
    <3> QED BY <3>1
  <2> QED BY <2>2 DEF LayersUpTo
<1>5. LayersUpTo(edges, N, Queued)
  <2>1. \E q : LayersUpTo(edges, N, q)
    BY <1>1, LayersExist
  <2> HIDE DEF Q
  <2>2. \E q : Q(q)
    BY <1>4, <2>1
  <2>3. Q(Queued)
    BY <2>2
  <2> QED BY <1>4, <2>3
<1> HIDE DEF Queued
<1>6. \A k \in 0..N : Queued[k] = L(k)
  BY <1>1, <1>5, LayerOfIs
<1>7. ASSUME NEW k \in 1..N, NEW t \in WaveOf(edges, k) PROVE WavesOf(p)[t] = k
  <2>1. t \in L(k) \ L(k - 1) /\ k \in 0..N /\ k - 1 \in 0..N /\ N \in 0..N
    BY <1>1 DEF WaveOf
  <2>2. t \in Indices /\ t \in L(N)
    <3>1. k \in Nat /\ N - k \in Nat /\ k + (N - k) = N
      BY <1>1
    <3>2. L(k) \subseteq L(k + (N - k)) /\ L(k) \in SUBSET Indices
      BY <3>1, LayersMonotone, LayersGrow
    <3> HIDE DEF L
    <3> QED BY <2>1, <3>1, <3>2
  <2>3. t \in Queued[N] /\ t \in Queued[k] \ Queued[k - 1]
    BY <1>6, <2>1, <2>2
  <2>4. ASSUME NEW i \in 1..N, t \in Queued[i] \ Queued[i - 1] PROVE i = k
    <3>1. t \in L(i) \ L(i - 1)
      <4>1. i \in 0..N /\ i - 1 \in 0..N
        BY <1>1
      <4> QED BY <1>6, <2>4, <4>1
    <3>2. CASE i < k
      <4>1. i \in Nat /\ (k - 1) - i \in Nat /\ i + ((k - 1) - i) = k - 1
        BY <1>1, <3>2
      <4>2. L(i) \subseteq L(i + ((k - 1) - i))
        BY <4>1, LayersMonotone
      <4> HIDE DEF L
      <4> QED BY <2>1, <3>1, <4>1, <4>2
    <3>3. CASE k < i
      <4>1. k \in Nat /\ (i - 1) - k \in Nat /\ k + ((i - 1) - k) = i - 1
        BY <1>1, <3>3
      <4>2. L(k) \subseteq L(k + ((i - 1) - k))
        BY <4>1, LayersMonotone
      <4> HIDE DEF L
      <4> QED BY <2>1, <3>1, <4>1, <4>2
    <3> QED BY <1>1, <3>2, <3>3
  <2>5. (CHOOSE i \in 1..N : t \in Queued[i] \ Queued[i - 1]) = k
    BY <2>3, <2>4
  <2>6. W[t] = k
    BY <2>2, <2>3, <2>5
  <2> QED BY <1>2, <2>6
<1>8. ASSUME NEW t \in Indices \ LayerOf(edges, WaveTasks) PROVE WavesOf(p)[t] = WaveTasks + t
  <2>1. t \notin Queued[N]
    <3>1. N \in 0..N
      BY <1>1
    <3> QED BY <1>6, <1>8, <3>1
  <2>2. W[t] = N + t
    BY <2>1
  <2> QED BY <1>2, <2>2
<1> QED BY <1>7, <1>8

(* The layer in which a task appears.                                       *)
LEMMA FirstLayer ==
  ASSUME NEW E, NEW n \in Nat, NEW t \in LayerOf(E, n)
  PROVE  \E k \in 1..n : t \in WaveOf(E, k)
<1> DEFINE S == {k \in 0..n : t \in LayerOf(E, k)}
<1>1. S \in SUBSET Nat /\ n \in S
  OBVIOUS
<1>2. PICK k \in S : \A m \in S : k <= m
  <2> HIDE DEF S
  <2> QED BY <1>1, LeastOf
<1>3. k \in 0..n /\ t \in LayerOf(E, k)
  OBVIOUS
<1>4. k # 0
  BY <1>3, LayerSteps
<1>5. k \in 1..n /\ k - 1 \in 0..n /\ ~(k <= k - 1)
  BY <1>3, <1>4
<1>6. k - 1 \notin S
  <2> HIDE DEF S
  <2> QED BY <1>2, <1>5
<1>7. t \in WaveOf(E, k)
  BY <1>3, <1>5, <1>6 DEF WaveOf
<1> QED BY <1>5, <1>7

(* The sequence of the waves, entry by entry: a layer, or a task no layer   *)
(* has.                                                                     *)
LayersThenRest(w, n, S) == [i \in 1..n |-> w[i]] \o Singly(InIndexOrder(S))

LEMMA EntriesOf ==
  ASSUME NEW n \in Nat, NEW w, NEW S \in SUBSET Indices
  PROVE  /\ Len(LayersThenRest(w, n, S)) = n + Cardinality(S)
         /\ \A i \in 1..n : LayersThenRest(w, n, S)[i] = w[i]
         /\ \A i \in 1..Cardinality(S) : LayersThenRest(w, n, S)[n + i] = {InIndexOrder(S)[i]}
<1> DEFINE c == Cardinality(S)
           o == InIndexOrder(S)
           a == [i \in 1..n |-> w[i]]
           b == [i \in 1..c |-> {o[i]}]
<1>1. c \in Nat /\ o \in [1..c -> S]
  BY OrderOf
<1> HIDE DEF c, o
<1>2. Len(o) = c
  <2>1. o \in Seq(S) /\ Len(o) = c
    BY <1>1
  <2> QED BY <2>1
<1>3. Singly(o) = b
  BY <1>2 DEF Singly
<1> DEFINE A == {w[i] : i \in 1..n} \cup {{o[i]} : i \in 1..c}
<1>4. a \in Seq(A) /\ Len(a) = n
  <2>1. a \in [1..n -> A]
    OBVIOUS
  <2>2. DOMAIN a = 1..n
    OBVIOUS
  <2> HIDE DEF a, A
  <2> QED BY <2>1, <2>2
<1>5. b \in Seq(A) /\ Len(b) = c
  <2>1. b \in [1..c -> A]
    OBVIOUS
  <2> HIDE DEF b, A
  <2> QED BY <1>1, <2>1
<1>6. /\ \A i \in 1..n : a[i] = w[i]
      /\ \A i \in 1..c : b[i] = {o[i]}
  OBVIOUS
<1> HIDE DEF a, b, A
<1>7. Len(a \o b) = n + c
  BY <1>4, <1>5
<1>8. \A i \in 1..n : (a \o b)[i] = a[i]
  BY <1>1, <1>4, <1>5
<1>9. \A i \in 1..c : (a \o b)[n + i] = b[i]
  <2> SUFFICES ASSUME NEW i \in 1..c PROVE (a \o b)[n + i] = b[i]
    OBVIOUS
  <2>1. n + i \in 1..(n + c) /\ ~(n + i <= n) /\ (n + i) - n = i
    BY <1>1
  <2> QED BY <1>1, <1>4, <1>5, <2>1
<1>10. LayersThenRest(w, n, S) = a \o b
  BY <1>3 DEF LayersThenRest, a, o
<1> QED BY <1>6, <1>7, <1>8, <1>9, <1>10 DEF o, c

LEMMA OverIsInOrder ==
  ASSUME WavesInv, Over, NEW p, HasEdges(p)
  PROVE  InTheOrderOf(WavesOf(p))
<1>1. PICK n \in Nat : LayeredAndOver(edges, ready, waves, queued, n)
  BY OverIsLayered
<1> DEFINE L(k) == LayerOf(edges, k)
           S == Indices \ L(n)
           c == Cardinality(S)
           o == InIndexOrder(S)
           W == WavesOf(p)
           key(i) == IF i <= n THEN i ELSE WaveTasks + o[i - n]
<1>2. n <= WaveTasks /\ WaveTasks \in Nat /\ L(n + 1) = L(n) /\ Indices = 1..WaveTasks
  BY <1>1, WavesAssumption DEF LayeredAndOver, Indices
<1>3. L(WaveTasks) = L(n)
  <2>1. WaveTasks - n \in Nat /\ n + (WaveTasks - n) = WaveTasks
    BY <1>2
  <2>2. LayerOf(edges, n + (WaveTasks - n)) = LayerOf(edges, n)
    BY <1>2, <2>1, LayersSettle
  <2> QED BY <2>1, <2>2
<1>4. /\ c \in Nat /\ o \in [1..c -> S] /\ Increasing(o, c)
      /\ \A t \in S : \E i \in 1..c : o[i] = t
  BY OrderOf
<1>5. /\ Len(waves) = n + c
      /\ \A i \in 1..n : waves[i] = WaveOf(edges, i)
      /\ \A i \in 1..c : waves[n + i] = {o[i]}
  <2> DEFINE w == [i \in 1..n |-> WaveOf(edges, i)]
             v == LayersThenRest(w, n, S)
  <2>1. /\ Len(v) = n + Cardinality(S)
        /\ \A i \in 1..n : v[i] = w[i]
        /\ \A i \in 1..Cardinality(S) : v[n + i] = {InIndexOrder(S)[i]}
    <3>1. S \in SUBSET Indices /\ n \in Nat
      OBVIOUS
    <3> HIDE DEF S, w
    <3> QED BY <3>1, EntriesOf
  <2>2. [i \in 1..n |-> w[i]] = w
    OBVIOUS
  <2>3. waves = w \o Singly(InIndexOrder(S))
    BY <1>1 DEF LayeredAndOver
  <2>4. waves = v
    <3> HIDE DEF w, S
    <3> QED BY <2>2, <2>3 DEF LayersThenRest
  <2>5. \A i \in 1..n : w[i] = WaveOf(edges, i)
    OBVIOUS
  <2> HIDE DEF w, v, S
  <2> QED BY <2>1, <2>4, <2>5
<1>6. /\ \A k \in 1..n : \A t \in WaveOf(edges, k) : W[t] = k
      /\ \A t \in S : W[t] = WaveTasks + t
  <2>1. \A k \in 1..n : k \in 1..WaveTasks
    BY <1>2
  <2> QED BY <1>3, <2>1, WavesOfIs
<1>7. \A i \in 1..Len(waves) : \A t \in waves[i] : W[t] = key(i)
  <2> SUFFICES ASSUME NEW i \in 1..Len(waves), NEW t \in waves[i] PROVE W[t] = key(i)
    OBVIOUS
  <2> HIDE DEF W, S, o, c
  <2>1. CASE i \in 1..n
    <3>1. waves[i] = WaveOf(edges, i) /\ i <= n
      BY <1>5, <2>1
    <3> QED BY <1>6, <2>1, <3>1
  <2>2. CASE i \notin 1..n
    <3>1. i - n \in 1..c /\ n + (i - n) = i /\ ~(i <= n)
      BY <1>4, <1>5, <2>2
    <3>2. waves[n + (i - n)] = {o[i - n]} /\ o[i - n] \in S
      BY <1>4, <1>5, <3>1
    <3>3. t = o[i - n] /\ t \in S
      BY <3>1, <3>2
    <3> QED BY <1>6, <3>1, <3>3
  <2> QED BY <2>1, <2>2
<1>8. \A i \in 1..Len(waves) : key(i) \in Nat
  <2> SUFFICES ASSUME NEW i \in 1..Len(waves) PROVE key(i) \in Nat
    OBVIOUS
  <2>1. ~(i <= n) => o[i - n] \in 1..WaveTasks
    <3> SUFFICES ASSUME ~(i <= n) PROVE o[i - n] \in 1..WaveTasks
      OBVIOUS
    <3>1. i - n \in 1..c
      <4> HIDE DEF c
      <4> QED BY <1>4, <1>5
    <3>2. o[i - n] \in S
      <4> HIDE DEF c, o, S
      <4> QED BY <1>4, <3>1
    <3> QED BY <1>2, <3>2
  <2> HIDE DEF o
  <2> QED BY <1>2, <2>1
<1>9. \A i, j \in 1..Len(waves) : i < j => key(i) < key(j)
  <2> SUFFICES ASSUME NEW i \in 1..Len(waves), NEW j \in 1..Len(waves), i < j
               PROVE  key(i) < key(j)
    OBVIOUS
  <2>1. i \in Nat /\ j \in Nat /\ Len(waves) = n + c /\ c \in Nat
    <3> HIDE DEF c
    <3> QED BY <1>4, <1>5
  <2>2. CASE j <= n
    <3>1. i <= n
      BY <2>1, <2>2
    <3> QED BY <2>2, <3>1
  <2>3. CASE ~(j <= n)
    <3>1. j - n \in 1..c
      <4> HIDE DEF c
      <4> QED BY <2>1, <2>3
    <3>2. o[j - n] \in 1..WaveTasks
      <4>1. o[j - n] \in S
        <5> HIDE DEF c, o, S
        <5> QED BY <1>4, <3>1
      <4> QED BY <1>2, <4>1
    <3>3. CASE i <= n
      <4> HIDE DEF o
      <4> QED BY <1>2, <2>1, <2>3, <3>2, <3>3
    <3>4. CASE ~(i <= n)
      <4>1. i - n \in 1..c /\ i - n < j - n
        <5> HIDE DEF c
        <5> QED BY <2>1, <3>4
      <4>2. o[i - n] < o[j - n]
        <5> HIDE DEF c, o
        <5> QED BY <1>4, <3>1, <4>1 DEF Increasing
      <4>3. o[i - n] \in 1..WaveTasks
        <5>1. o[i - n] \in S
          <6> HIDE DEF c, o, S
          <6> QED BY <1>4, <4>1
        <5> QED BY <1>2, <5>1
      <4> HIDE DEF o
      <4> QED BY <1>2, <2>3, <3>2, <3>4, <4>2, <4>3
    <3> QED BY <3>3, <3>4
  <2> QED BY <2>2, <2>3
<1>10. \A i, j \in 1..Len(waves) : i < j <=> key(i) < key(j)
  <2> SUFFICES ASSUME NEW i \in 1..Len(waves), NEW j \in 1..Len(waves)
               PROVE  i < j <=> key(i) < key(j)
    OBVIOUS
  <2>1. key(i) \in Nat /\ key(j) \in Nat /\ (i < j => key(i) < key(j)) /\ (j < i => key(j) < key(i))
    BY <1>8, <1>9
  <2>2. i = j => key(i) = key(j)
    OBVIOUS
  <2>3. i \in Nat /\ j \in Nat
    <3> HIDE DEF c
    <3> QED BY <1>4, <1>5
  <2> HIDE DEF key
  <2> QED BY <2>1, <2>2, <2>3
<1>11. \A i, j \in 1..Len(waves) : \A s \in waves[i], t \in waves[j] : i < j <=> W[s] < W[t]
  <2> HIDE DEF key, W
  <2> QED BY <1>7, <1>10
<1>12. ASSUME NEW t \in Indices PROVE \E i \in 1..Len(waves) : t \in waves[i]
  <2>1. CASE t \in L(n)
    <3>1. PICK k \in 1..n : t \in WaveOf(edges, k)
      BY <2>1, FirstLayer
    <3>2. k \in 1..Len(waves) /\ t \in waves[k]
      <4> HIDE DEF c
      <4> QED BY <1>4, <1>5, <3>1
    <3> QED BY <3>2
  <2>2. CASE t \notin L(n)
    <3>1. t \in S
      BY <2>2
    <3>2. PICK i \in 1..c : o[i] = t
      BY <1>4, <3>1
    <3>3. n + i \in 1..Len(waves) /\ t \in waves[n + i]
      <4> HIDE DEF c, o
      <4> QED BY <1>4, <1>5, <3>2
    <3> QED BY <3>3
  <2> QED BY <2>1, <2>2
<1> QED BY <1>11, <1>12 DEF InTheOrderOf

(* The waves MapRun gives a plan are those of the loop: every task of the   *)
(* plan is in exactly one wave of the loop, and one task comes before       *)
(* another exactly if its wave in MapRun does (execute() runs the waves     *)
(* mapRunTaskExecutionWaves returned, one after the other).                 *)
THEOREM PlansRunInTheLoopsOrder ==
  WavesSpec => [](Over => \A p : HasEdges(p) => InTheOrderOf(WavesOf(p)))
<1>1. WavesInv => (Over => \A p : HasEdges(p) => InTheOrderOf(WavesOf(p)))
  BY OverIsInOrder
<1> QED BY <1>1, WavesInvariant, PTL
=============================================================================
