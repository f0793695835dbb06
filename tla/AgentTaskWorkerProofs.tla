----------------------- MODULE AgentTaskWorkerProofs -----------------------
(***************************************************************************)
(* Proofs about AgentTaskWorker, for any number of workers and commands,   *)
(* any interval, and any bound on the clock and on the claims.             *)
(***************************************************************************)
EXTENDS AgentTaskWorker, TLAPS

TaskRow == [status : {"scheduled", "running", "paused", "active"},
            updatedAt : Revisions, token : Claims \cup {NoClaim}]
WorkerState == [at : WorkerPlaces, now : Times, seen : Revisions,
                claim : Claims \cup {NoClaim}, started : Times]
CommandState == [at : CommandPlaces, kind : Kinds, time : Times]

-----------------------------------------------------------------------------
(* The inductive invariant                                                  *)

(* A row is running exactly while it carries a claim, which is none that    *)
(* has ended; an outcome nobody has answered for is that claim's.           *)
RowInv ==
  /\ task.status = "running" <=> task.token # NoClaim
  /\ task.token <= issued
  /\ retired \subseteq 1..issued
  /\ task.token \notin retired
  /\ unresolved \subseteq {task.token} \ {NoClaim}

HasClaim(w) == worker[w].at \in {"claimed", "executing", "releasing"}

(* Every claim is handed out once, to one worker, and before its command    *)
(* and after its run is stored there is no outcome to answer for.           *)
ClaimInv ==
  \A w \in Workers :
    /\ HasClaim(w) => worker[w].claim \in 1..issued
    /\ \A x \in Workers : HasClaim(w) /\ HasClaim(x) /\ w # x => worker[w].claim # worker[x].claim
    /\ worker[w].at \in {"claimed", "releasing"} => worker[w].claim \notin unresolved

(* The times of the runs: the row's latest run started no earlier than any  *)
(* run recorded under a released claim, and has finished.                   *)
RunInv ==
  /\ ranAt <= latest.started
  /\ latest.started <= latest.finished
  /\ latest.finished <= clock
  /\ \A w \in Workers :
       /\ worker[w].at = "executing" => worker[w].started <= clock
       /\ worker[w].at \in {"claimed", "releasing"} => worker[w].started <= latest.started
  /\ \A c \in Commands : command[c].at = "executing" => command[c].time <= clock

(* Who wrote a revision never writes it again: a claim that ended, a        *)
(* command that is past its update, or nobody.                              *)
Past(by) ==
  /\ by \in retired \cup Commands \cup {NoClaim}
  /\ by \in Commands => command[by].at \in {"execute", "executing", "done"}

(* A worker that has listed a task which was not changed since then has     *)
(* read its clock an interval after every recorded run.                     *)
PollInv ==
  /\ task.status = "scheduled" => Past(task.updatedAt.by)
  /\ \A w \in Workers : worker[w].at = "listed" =>
       /\ Past(worker[w].seen.by)
       /\ task.status = "scheduled" /\ task.updatedAt = worker[w].seen
            => worker[w].now >= ranAt + Interval

TaskInv == TypeOK /\ RowInv /\ ClaimInv /\ RunInv /\ PollInv
-----------------------------------------------------------------------------
(* Steps that leave the row alone                                           *)

(* Revisions are made of times the clock shows. *)
LEMMA Numbers ==
  /\ Claims \subseteq Nat /\ Times \subseteq Nat /\ NoClaim \in Nat /\ NoClaim \notin Claims
  /\ Interval \in Nat /\ MaxClock \in Nat /\ MaxClaims \in Nat
  /\ Commands \cap (Claims \cup {NoClaim}) = {}
  /\ \A c : c \in Claims <=> c \in Nat /\ 1 <= c /\ c <= MaxClaims
BY BoundsAssumption, CommandsAssumption DEF Claims, Times, NoClaim

(* The later of two times is one of them. *)
LEMMA LargerIsLarger ==
  ASSUME NEW a \in Nat, NEW b \in Nat
  PROVE  /\ Larger(a, b) \in {a, b}
         /\ Larger(a, b) >= a /\ Larger(a, b) >= b
BY DEF Larger

(* The states a worker and a command start in are states of theirs. *)
LEMMA IdleTyped == IdleWorker \in WorkerState /\ DoneCommand \in CommandState
<1>1. 0 \in Times
  BY Numbers DEF Times
<1> QED
  BY <1>1 DEF IdleWorker, DoneCommand, WorkerState, CommandState, WorkerPlaces, CommandPlaces,
     Kinds, Revision, Revisions

(* A worker moves, and may leave an outcome of its claim to answer for.     *)
LEMMA WorkerMoves ==
  ASSUME TaskInv, NEW w \in Workers, NEW s \in WorkerState,
         worker' = [worker EXCEPT ![w] = s],
         UNCHANGED <<clock, task, latest, issued, command, ranAt, retired, writer>>,
         s.at \in {"claimed", "executing", "releasing"} =>
           HasClaim(w) /\ s.claim = worker[w].claim,
         unresolved' = unresolved
           \/ (HasClaim(w) /\ unresolved' = unresolved \cup ({worker[w].claim} \cap {task.token})),
         s.at \in {"claimed", "releasing"} => s.claim \notin unresolved',
         s.at = "executing" => s.started <= clock,
         s.at \in {"claimed", "releasing"} => s.started <= latest.started,
         s.at = "listed" => /\ Past(s.seen.by)
                            /\ task.status = "scheduled" /\ task.updatedAt = s.seen
                                 => s.now >= ranAt + Interval
  PROVE  TaskInv'
<1>1. worker'[w] = s /\ \A x \in Workers : x # w => worker'[x] = worker[x]
  BY DEF TaskInv, TypeOK
<1>2. HasClaim(w) => worker[w].claim \in 1..issued /\ worker[w].claim # NoClaim
  BY DEF TaskInv, ClaimInv, NoClaim
<1>3. unresolved' \subseteq {task.token} \ {NoClaim}
  BY <1>2 DEF TaskInv, RowInv
<1>4. TypeOK'
  <2>1. worker' \in [Workers -> WorkerState]
    BY DEF TaskInv, TypeOK, WorkerState
  <2>2. unresolved' \subseteq Claims
    BY <1>3 DEF TaskInv, TypeOK
  <2> QED
    BY <2>1, <2>2 DEF TaskInv, TypeOK, WorkerState
<1>5. RowInv'
  BY <1>3 DEF TaskInv, RowInv
<1>6. ClaimInv'
  <2>1. ASSUME NEW x \in Workers, HasClaim(x)' PROVE HasClaim(x) /\ worker'[x].claim = worker[x].claim
    BY <1>1, <2>1 DEF HasClaim
  <2>2. ASSUME NEW x \in Workers, worker'[x].at \in {"claimed", "releasing"}
        PROVE  worker'[x].claim \notin unresolved'
    <3>1. CASE x = w
      BY <1>1, <2>2, <3>1
    <3>2. CASE x # w
      <4>1. worker[x].claim \notin unresolved /\ HasClaim(x)
        BY <1>1, <2>2, <3>2 DEF TaskInv, ClaimInv, HasClaim
      <4>2. HasClaim(w) => worker[x].claim # worker[w].claim
        BY <3>2, <4>1 DEF TaskInv, ClaimInv
      <4> QED
        BY <1>1, <3>2, <4>1, <4>2
    <3> QED
      BY <3>1, <3>2
  <2> QED
    BY <2>1, <2>2 DEF TaskInv, ClaimInv
<1>7. RunInv'
  BY <1>1 DEF TaskInv, RunInv
<1>8. PollInv'
  BY <1>1 DEF TaskInv, PollInv, Past
<1> QED
  BY <1>4, <1>5, <1>6, <1>7, <1>8 DEF TaskInv

(* A process that ends forgets its claim. *)
LEMMA StopKeeps ==
  ASSUME TaskInv, NEW w \in Workers, Stop(w),
         UNCHANGED <<clock, task, latest, issued, command, ranAt, unresolved, retired, writer>>
  PROVE  TaskInv'
<1>1. worker' = [worker EXCEPT ![w] = IdleWorker] /\ IdleWorker.at = "idle"
  BY DEF Stop, IdleWorker
<1> QED
  BY <1>1, IdleTyped, WorkerMoves

(* A worker that starts a pass over the tasks reads the clock once for it. *)
LEMMA BeginPassKeeps ==
  ASSUME TaskInv, NEW w \in Workers, BeginPass(w)
  PROVE  TaskInv'
<1> DEFINE s == [worker[w] EXCEPT !.at = "polling", !.now = clock]
<1>1. worker[w] \in WorkerState /\ clock \in Times
  BY DEF TaskInv, TypeOK, WorkerState, Times
<1>2. s \in WorkerState /\ s.at = "polling"
  BY <1>1 DEF WorkerState, WorkerPlaces
<1>3. worker' = [worker EXCEPT ![w] = s]
  BY DEF BeginPass, TaskInv, TypeOK
<1> HIDE DEF s
<1> QED
  BY <1>2, <1>3, WorkerMoves DEF BeginPass

(* A listed task has been idle for an interval: that is later than every    *)
(* recorded run by an interval, for the latest run is.                      *)
LEMMA ListKeeps ==
  ASSUME TaskInv, NEW w \in Workers, ListAgentTasks(w)
  PROVE  TaskInv'
<1>1. CASE Stop(w)
  BY <1>1, StopKeeps DEF ListAgentTasks
<1>2. CASE /\ task.status = "scheduled" /\ scheduledAgentTaskDue(worker[w].now)
           /\ worker' = [worker EXCEPT ![w].at = "listed", ![w].seen = task.updatedAt]
  <2> DEFINE s == [worker[w] EXCEPT !.at = "listed", !.seen = task.updatedAt]
  <2>1. /\ worker[w] \in WorkerState /\ task \in TaskRow
        /\ latest \in [started : Times, finished : Times] /\ ranAt \in Times
    BY DEF TaskInv, TypeOK, WorkerState, TaskRow
  <2>2. s \in WorkerState /\ s.at = "listed" /\ s.seen = task.updatedAt /\ s.now = worker[w].now
    BY <2>1 DEF WorkerState, WorkerPlaces, TaskRow
  <2>3. worker' = [worker EXCEPT ![w] = s]
    BY <1>2 DEF TaskInv, TypeOK
  <2>4. Past(s.seen.by)
    BY <1>2, <2>2 DEF TaskInv, PollInv
  <2>5. s.now >= ranAt + Interval
    <3>1. /\ task.updatedAt.time \in Nat /\ latest.finished \in Nat /\ latest.started \in Nat
          /\ ranAt \in Nat /\ worker[w].now \in Nat /\ Interval \in Nat
      BY <2>1, Numbers DEF TaskRow, Revisions, WorkerState
    <3>2. worker[w].now >= Larger(task.updatedAt.time, latest.finished) + Interval
      BY <1>2 DEF scheduledAgentTaskDue
    <3>3. Larger(task.updatedAt.time, latest.finished) \in Nat
          /\ Larger(task.updatedAt.time, latest.finished) >= latest.finished
      BY <3>1, LargerIsLarger
    <3>4. ranAt <= latest.finished
      BY <3>1 DEF TaskInv, RunInv
    <3> QED
      BY <2>2, <3>1, <3>2, <3>3, <3>4
  <2> HIDE DEF s
  <2> QED
    BY <2>2, <2>3, <2>4, <2>5, WorkerMoves DEF ListAgentTasks
<1> QED
  BY <1>1, <1>2 DEF ListAgentTasks

(* The executor starts the command of a claimed task: from here a lost
   worker leaves the task interrupted. *)
LEMMA StartKeeps ==
  ASSUME TaskInv, NEW w \in Workers, StartCommand(w)
  PROVE  TaskInv'
<1>1. /\ worker[w] \in WorkerState /\ clock \in Times /\ clock \in Nat /\ HasClaim(w)
      /\ worker[w].claim \notin unresolved
      /\ latest.started \in Nat
  BY Numbers DEF StartCommand, At, HasClaim, TaskInv, TypeOK, WorkerState, ClaimInv, Times
<1>2. CASE /\ worker' = [worker EXCEPT ![w].at = "executing", ![w].started = clock]
           /\ unresolved' = unresolved \cup ({worker[w].claim} \cap {task.token})
  <2> DEFINE s == [worker[w] EXCEPT !.at = "executing", !.started = clock]
  <2>1. s \in WorkerState /\ s.at = "executing" /\ s.started = clock /\ s.claim = worker[w].claim
    BY <1>1 DEF WorkerState, WorkerPlaces
  <2>2. worker' = [worker EXCEPT ![w] = s]
    BY <1>2 DEF TaskInv, TypeOK
  <2>3. s.started <= clock
    BY <1>1, <2>1
  <2> HIDE DEF s
  <2> QED
    BY <1>1, <1>2, <2>1, <2>2, <2>3, WorkerMoves DEF StartCommand
<1>3. CASE worker' = [worker EXCEPT ![w].at = "releasing"] /\ UNCHANGED unresolved
  <2> DEFINE s == [worker[w] EXCEPT !.at = "releasing"]
  <2>1. s \in WorkerState /\ s.at = "releasing" /\ s.claim = worker[w].claim
        /\ s.started = worker[w].started
    BY <1>1 DEF WorkerState, WorkerPlaces
  <2>2. worker' = [worker EXCEPT ![w] = s]
    BY <1>3 DEF TaskInv, TypeOK
  <2>3. s.started <= latest.started
    BY <2>1 DEF StartCommand, At, TaskInv, RunInv
  <2> HIDE DEF s
  <2> QED
    BY <1>1, <1>3, <2>1, <2>2, <2>3, WorkerMoves DEF StartCommand
<1> QED
  BY <1>2, <1>3 DEF StartCommand
-----------------------------------------------------------------------------
(* Steps that store a run                                                   *)

(* What a recorded run makes of the latest run.                             *)
Later ==
  /\ latest' \in [started : Times, finished : Times]
  /\ latest.started <= latest'.started
  /\ latest'.started <= latest'.finished /\ latest'.finished <= clock

(* A stored run that began at "started" moves the latest run of the task
   forward, and never behind "started". *)
LEMMA RunRecorded ==
  ASSUME TaskInv, NEW started \in Times, started <= clock, recordRun(started)
  PROVE  Later /\ started <= latest'.started
<1>1. /\ clock \in Times /\ clock \in Nat /\ started \in Nat
      /\ latest \in [started : Times, finished : Times]
      /\ latest.started \in Nat /\ latest.finished \in Nat
      /\ latest.started <= latest.finished /\ latest.finished <= clock
  BY Numbers DEF TaskInv, TypeOK, RunInv, Times
<1>2. CASE started >= latest.started
  <2>1. latest' = [started |-> started, finished |-> clock]
    BY <1>2 DEF recordRun
  <2>2. latest'.started = started /\ latest'.finished = clock
    BY <2>1
  <2> QED
    BY <1>1, <1>2, <2>1, <2>2 DEF Later
<1>3. CASE ~(started >= latest.started)
  <2>1. latest' = latest
    BY <1>3 DEF recordRun
  <2> QED
    BY <1>1, <1>3, <2>1 DEF Later
<1> QED
  BY <1>2, <1>3

(* The latest run only moves on, so what is known of it stays true. *)
LEMMA LaterKeeps ==
  ASSUME TaskInv, Later, UNCHANGED <<clock, ranAt>>
  PROVE  /\ ranAt' <= latest'.started /\ latest'.started <= latest'.finished
         /\ latest'.finished <= clock'
         /\ \A t \in Nat : t <= latest.started => t <= latest'.started
<1>1. ranAt \in Nat /\ latest.started \in Nat /\ latest'.started \in Nat /\ ranAt <= latest.started
  BY Numbers DEF TaskInv, TypeOK, RunInv, Later
<1> QED
  BY <1>1 DEF Later

(* The run of a claim is stored, and nothing is left to answer for. *)
LEMMA RecordKeeps ==
  ASSUME TaskInv, NEW w \in Workers, RecordRun(w)
  PROVE  TaskInv'
<1>1. CASE Stop(w) /\ UNCHANGED <<latest, unresolved>>
  BY <1>1, StopKeeps DEF RecordRun
<1>2. CASE /\ recordRun(worker[w].started)
           /\ worker' = [worker EXCEPT ![w].at = "releasing"]
           /\ unresolved' = unresolved \ {worker[w].claim}
  <2> DEFINE s == [worker[w] EXCEPT !.at = "releasing"]
  <2>1. /\ worker[w] \in WorkerState /\ worker[w].at = "executing" /\ HasClaim(w)
        /\ worker[w].started \in Times /\ worker[w].started \in Nat /\ worker[w].started <= clock
        /\ UNCHANGED <<clock, task, issued, command, ranAt, retired, writer>>
    BY Numbers DEF RecordRun, At, HasClaim, TaskInv, TypeOK, WorkerState, RunInv
  <2>2. /\ s \in WorkerState /\ s.at = "releasing" /\ s.claim = worker[w].claim
        /\ s.started = worker[w].started
    BY <2>1 DEF WorkerState, WorkerPlaces
  <2>3. worker' = [worker EXCEPT ![w] = s]
    BY <1>2 DEF TaskInv, TypeOK
  <2> HIDE DEF s
  <2>4. worker'[w] = s /\ \A x \in Workers : x # w => worker'[x] = worker[x]
    BY <2>3 DEF TaskInv, TypeOK
  <2>5. Later /\ worker[w].started <= latest'.started
    BY <1>2, <2>1, RunRecorded
  <2>6. TypeOK'
    <3>1. worker' \in [Workers -> WorkerState]
      BY <2>2, <2>3 DEF TaskInv, TypeOK, WorkerState
    <3>2. unresolved' \subseteq Claims /\ latest' \in [started : Times, finished : Times]
      BY <1>2, <2>5 DEF TaskInv, TypeOK, Later
    <3> QED
      BY <2>1, <3>1, <3>2 DEF TaskInv, TypeOK, WorkerState
  <2>7. RowInv'
    BY <1>2, <2>1 DEF TaskInv, RowInv
  <2>8. ClaimInv'
    <3>1. ASSUME NEW x \in Workers
          PROVE  /\ HasClaim(x)' <=> HasClaim(x)
                 /\ worker'[x].claim = worker[x].claim
      BY <2>1, <2>2, <2>4 DEF HasClaim
    <3>2. ASSUME NEW x \in Workers, worker'[x].at \in {"claimed", "releasing"}
          PROVE  worker'[x].claim \notin unresolved'
      BY <1>2, <2>2, <2>4, <3>2 DEF TaskInv, ClaimInv
    <3> QED
      BY <2>1, <3>1, <3>2 DEF TaskInv, ClaimInv
  <2>9. RunInv'
    <3>1. ASSUME NEW x \in Workers
          PROVE  /\ worker'[x].at = "executing" => worker'[x].started <= clock'
                 /\ worker'[x].at \in {"claimed", "releasing"} => worker'[x].started <= latest'.started
      <4>1. CASE x = w
        BY <2>2, <2>4, <2>5, <4>1
      <4>2. CASE x # w
        <5>1. worker'[x] = worker[x] /\ worker[x].started \in Nat
          BY <2>4, <4>2, Numbers DEF TaskInv, TypeOK
        <5> QED
          BY <2>1, <2>5, <5>1, LaterKeeps DEF TaskInv, RunInv
      <4> QED
        BY <4>1, <4>2
    <3> QED
      BY <2>1, <2>5, <3>1, LaterKeeps DEF TaskInv, RunInv
  <2>10. PollInv'
    BY <2>1, <2>2, <2>4 DEF TaskInv, PollInv, Past
  <2> QED
    BY <2>6, <2>7, <2>8, <2>9, <2>10 DEF TaskInv
<1> QED
  BY <1>1, <1>2 DEF RecordRun

-----------------------------------------------------------------------------
(* Steps that write the row                                                 *)

(* A claim is made of a row that has none, so nobody has an outcome to      *)
(* answer for, and its token is new.                                        *)
LEMMA ClaimKeeps ==
  ASSUME TaskInv, NEW w \in Workers, ClaimScheduledAgentTask(w)
  PROVE  TaskInv'
<1>1. /\ issued < MaxClaims /\ issued' = issued + 1 /\ issued \in Nat
      /\ UNCHANGED <<clock, latest, command, ranAt, unresolved, retired>>
      /\ worker[w] \in WorkerState
  BY Numbers DEF ClaimScheduledAgentTask, TaskInv, TypeOK, WorkerState
<1>2. issued' \in Claims /\ issued' # NoClaim /\ issued' \notin 1..issued /\ 1..issued \subseteq 1..issued'
  BY <1>1, Numbers DEF Claims, NoClaim
<1> DEFINE s == [IdleWorker EXCEPT !.at = "claimed", !.claim = issued']
<1>3. s \in WorkerState /\ s.at = "claimed" /\ s.claim = issued' /\ s.started = 0
  BY <1>2, IdleTyped DEF IdleWorker, WorkerState, WorkerPlaces
<1>4. PICK t \in {s, IdleWorker} : worker' = [worker EXCEPT ![w] = t]
  BY DEF ClaimScheduledAgentTask, Stop
<1>5. CASE UNCHANGED <<task, writer>> /\ Stop(w)
  <2>1. worker' = [worker EXCEPT ![w] = IdleWorker] /\ IdleWorker.at = "idle"
    BY <1>5 DEF Stop, IdleWorker
  <2>2. worker'[w] = IdleWorker /\ \A x \in Workers : x # w => worker'[x] = worker[x]
    BY <2>1 DEF TaskInv, TypeOK
  <2>3. TypeOK'
    <3>1. worker' \in [Workers -> WorkerState] /\ issued' \in 0..MaxClaims
      BY <1>1, <2>1, IdleTyped, Numbers DEF TaskInv, TypeOK, WorkerState
    <3> QED
      BY <1>1, <1>5, <3>1 DEF TaskInv, TypeOK, WorkerState
  <2>4. RowInv'
    <3>1. task.token \in Nat
      BY Numbers DEF TaskInv, TypeOK
    <3> QED
      BY <1>1, <1>2, <1>5, <3>1 DEF TaskInv, RowInv
  <2>5. ClaimInv'
    BY <1>1, <1>2, <2>1, <2>2 DEF TaskInv, ClaimInv, HasClaim
  <2>6. RunInv'
    BY <1>1, <2>1, <2>2 DEF TaskInv, RunInv
  <2>7. PollInv'
    BY <1>1, <1>5, <2>1, <2>2 DEF TaskInv, PollInv, Past
  <2> QED
    BY <2>3, <2>4, <2>5, <2>6, <2>7 DEF TaskInv
<1>6. CASE ~(UNCHANGED <<task, writer>> /\ Stop(w))
  <2> DEFINE u == nextAgentTaskRevision(worker[w].now, worker[w].seen, issued')
  <2>1. /\ Claimable(w) /\ writer' = issued'
        /\ task' = [status |-> "running", token |-> issued', updatedAt |-> u]
    BY <1>6 DEF ClaimScheduledAgentTask
  <2>2. u \in Revisions
    <3>1. Larger(worker[w].now, worker[w].seen.time) \in Times
      BY <1>1, Numbers, LargerIsLarger DEF WorkerState, Revisions
    <3> QED
      BY <1>2, <3>1 DEF nextAgentTaskRevision, Revision, Revisions
  <2> HIDE DEF u, s
  <2>3. task'.status = "running" /\ task'.token = issued'
    BY <2>1
  <2>4. task.status = "scheduled" /\ task.token = NoClaim /\ unresolved = {}
    BY <2>1 DEF Claimable, TaskInv, RowInv
  <2>5. worker'[w] = t /\ \A x \in Workers : x # w => worker'[x] = worker[x]
    BY <1>4 DEF TaskInv, TypeOK
  <2>6. t \in WorkerState /\ t.at \in {"claimed", "idle"}
        /\ (t.at = "claimed" => t.claim = issued' /\ t.started = 0)
    BY <1>3, IdleTyped DEF IdleWorker
  <2>7. TypeOK'
    <3>1. worker' \in [Workers -> WorkerState] /\ issued' \in 0..MaxClaims
      BY <1>1, <1>4, <2>6, Numbers DEF TaskInv, TypeOK, WorkerState
    <3>2. task' \in TaskRow
      BY <1>2, <2>1, <2>2 DEF TaskRow
    <3> QED
      BY <1>1, <1>2, <2>1, <3>1, <3>2 DEF TaskInv, TypeOK, WorkerState, TaskRow
  <2>8. RowInv'
    <3>1. issued' <= issued'
      BY <1>1
    <3> QED
      BY <1>1, <1>2, <2>3, <2>4, <3>1 DEF TaskInv, RowInv
  <2>9. ClaimInv'
    <3>1. \A x \in Workers : HasClaim(x)' =>
            \/ x = w /\ worker'[x].claim = issued'
            \/ x # w /\ HasClaim(x) /\ worker'[x] = worker[x] /\ worker[x].claim \in 1..issued
      BY <2>5, <2>6 DEF HasClaim, TaskInv, ClaimInv
    <3>2. issued' \in 1..issued'
      BY <1>1
    <3>3. \A x \in Workers : HasClaim(x)' => worker'[x].claim \in 1..issued'
      BY <1>2, <3>1, <3>2
    <3>4. \A x, y \in Workers : HasClaim(x)' /\ HasClaim(y)' /\ x # y
             => worker'[x].claim # worker'[y].claim
      BY <1>2, <3>1 DEF TaskInv, ClaimInv
    <3> QED
      BY <1>1, <2>4, <3>3, <3>4 DEF ClaimInv
  <2>10. RunInv'
    <3>0. latest.started \in Nat
      BY Numbers DEF TaskInv, TypeOK
    <3>1. 0 <= latest.started
      BY <3>0
    <3> QED
      BY <1>1, <2>5, <2>6, <3>1 DEF TaskInv, RunInv
  <2>11. PollInv'
    BY <1>1, <2>3, <2>5, <2>6 DEF TaskInv, PollInv, Past
  <2> QED
    BY <2>7, <2>8, <2>9, <2>10, <2>11 DEF TaskInv
<1> QED
  BY <1>5, <1>6
(* A release writes a revision no worker has listed, because the claim that *)
(* writes it had not ended.                                                 *)
LEMMA ReleaseKeeps ==
  ASSUME TaskInv, NEW w \in Workers, ReleaseScheduledAgentTask(w)
  PROVE  TaskInv'
<1>1. /\ UNCHANGED <<clock, latest, issued, command, unresolved>>
      /\ Stop(w) /\ worker[w] \in WorkerState /\ worker[w].at = "releasing" /\ HasClaim(w)
  BY DEF ReleaseScheduledAgentTask, At, HasClaim, TaskInv, TypeOK, WorkerState
<1>2. CASE UNCHANGED <<task, writer, retired, ranAt>>
  BY <1>1, <1>2, StopKeeps
<1>3. CASE /\ Releasable(w)
           /\ task' = [status |-> "scheduled", token |-> NoClaim,
                       updatedAt |-> nextAgentTaskRevision(clock, task.updatedAt, worker[w].claim)]
           /\ writer' = worker[w].claim
           /\ retired' = retired \cup {worker[w].claim}
           /\ ranAt' = Larger(ranAt, worker[w].started)
  <2> DEFINE n == worker[w].claim
             u == nextAgentTaskRevision(clock, task.updatedAt, n)
  <2>1. /\ n \in 1..issued /\ n \in Claims /\ n # NoClaim /\ n \notin Commands
        /\ task.status = "running" /\ task.token = n /\ n \notin retired /\ n \notin unresolved
    <3>1. n \in 1..issued /\ n # NoClaim
      BY <1>1 DEF TaskInv, ClaimInv, NoClaim
    <3>2. issued \in 0..MaxClaims
      BY DEF TaskInv, TypeOK
    <3>3. n \in Claims
      BY <3>1, <3>2, Numbers DEF Claims
    <3> QED
      BY <1>1, <1>3, <3>1, <3>3, Numbers DEF Releasable, TaskInv, RowInv, ClaimInv
  <2>2. u \in Revisions /\ u.by = n
    <3>1. Larger(clock, task.updatedAt.time) \in Times
      <4>1. clock \in Times /\ task.updatedAt.time \in Times
        BY DEF TaskInv, TypeOK, Times, Revisions
      <4> QED
        BY <4>1, Numbers, LargerIsLarger
    <3> QED
      BY <2>1, <3>1 DEF nextAgentTaskRevision, Revision, Revisions
  <2>3. task'.status = "scheduled" /\ task'.token = NoClaim /\ task'.updatedAt = u
    BY <1>3
  <2> HIDE DEF u
  <2>4. worker'[w] = IdleWorker /\ \A x \in Workers : x # w => worker'[x] = worker[x]
    BY <1>1 DEF Stop, TaskInv, TypeOK
  <2>5. IdleWorker.at = "idle"
    BY DEF IdleWorker
  <2>6. unresolved = {}
    BY <2>1 DEF TaskInv, RowInv
  <2>7. /\ ranAt' \in Times /\ ranAt' <= latest.started
    <3>1. /\ ranAt \in Times /\ worker[w].started \in Times /\ latest.started \in Times
          /\ ranAt <= latest.started /\ worker[w].started <= latest.started
      BY <1>1 DEF TaskInv, TypeOK, RunInv
    <3> QED
      BY <1>3, <3>1, Numbers, LargerIsLarger
  <2>8. TypeOK'
    <3>1. worker' \in [Workers -> WorkerState]
      BY <1>1, IdleTyped DEF Stop, TaskInv, TypeOK, WorkerState
    <3>2. task' \in TaskRow
      BY <1>3, <2>2 DEF TaskRow, u
    <3>3. retired' \subseteq Claims /\ writer' \in Claims
      BY <1>3, <2>1 DEF TaskInv, TypeOK
    <3> QED
      BY <1>1, <2>7, <3>1, <3>2, <3>3 DEF TaskInv, TypeOK, WorkerState, TaskRow
  <2>9. RowInv'
    <3>1. NoClaim <= issued /\ NoClaim \notin 1..issued
      BY Numbers DEF TaskInv, TypeOK, NoClaim
    <3>2. retired' \subseteq 1..issued
      BY <1>3, <2>1 DEF TaskInv, RowInv
    <3> QED
      BY <1>1, <2>3, <2>6, <3>1, <3>2 DEF RowInv
  <2>10. ClaimInv'
    BY <1>1, <2>4, <2>5 DEF TaskInv, ClaimInv, HasClaim
  <2>11. RunInv'
    BY <1>1, <2>4, <2>5, <2>7 DEF TaskInv, RunInv
  <2>12. \A by : Past(by) => Past(by)' /\ by # n
    BY <1>1, <1>3, <2>1 DEF Past
  <2>13. PollInv'
    <3>1. Past(task.updatedAt.by)'
      BY <1>3, <2>1, <2>2, <2>3 DEF Past
    <3>2. ASSUME NEW x \in Workers, worker'[x].at = "listed"
          PROVE  Past(worker[x].seen.by)' /\ task'.updatedAt # worker'[x].seen
      <4>1. worker'[x] = worker[x] /\ Past(worker[x].seen.by)
        BY <2>4, <2>5, <3>2 DEF TaskInv, PollInv
      <4>2. PICK by : by = worker[x].seen.by
        OBVIOUS
      <4>3. Past(by)' /\ by # n
        BY <2>12, <4>1, <4>2
      <4> QED
        BY <2>2, <2>3, <4>1, <4>2, <4>3 DEF Past
    <3> QED
      BY <3>1, <3>2 DEF PollInv
  <2> QED
    BY <2>8, <2>9, <2>10, <2>11, <2>13 DEF TaskInv
<1> QED
  BY <1>2, <1>3 DEF ReleaseScheduledAgentTask

(* The operator answers for the outcome of the claim he takes away. *)
LEMMA RecoverKeeps ==
  ASSUME TaskInv, RecoverScheduledAgentTask
  PROVE  TaskInv'
<1> DEFINE u == Revision(clock, NoClaim)
<1>1. /\ UNCHANGED <<clock, latest, issued, worker, command, ranAt, writer>>
      /\ retired' = retired \cup {task.token} /\ unresolved' = unresolved \ {task.token}
      /\ task' = [status |-> "paused", updatedAt |-> u, token |-> NoClaim]
  BY DEF RecoverScheduledAgentTask
<1>2. /\ task.token # NoClaim /\ task.token \in Claims /\ task.token <= issued
      /\ task.token \in 1..issued
  <2>1. task.token # NoClaim /\ task.token \in Claims /\ task.token <= issued
    BY DEF RecoverScheduledAgentTask, TaskInv, TypeOK, RowInv
  <2>2. issued \in Nat /\ task.token \in Nat
    BY <2>1, Numbers DEF TaskInv, TypeOK
  <2> QED
    BY <2>1, <2>2, Numbers
<1>3. u \in Revisions
  BY DEF Revision, Revisions, TaskInv, TypeOK, Times
<1> HIDE DEF u
<1>4. task'.status = "paused" /\ task'.token = NoClaim
  BY <1>1
<1>5. TypeOK'
  <2>1. task' \in TaskRow
    BY <1>1, <1>3 DEF TaskRow
  <2> QED
    BY <1>1, <1>2, <2>1 DEF TaskInv, TypeOK, TaskRow
<1>6. RowInv'
  <2>1. NoClaim <= issued /\ NoClaim \notin 1..issued
    BY Numbers DEF TaskInv, TypeOK, NoClaim
  <2> QED
    BY <1>1, <1>2, <1>4, <2>1 DEF TaskInv, RowInv
<1>7. ClaimInv'
  BY <1>1 DEF TaskInv, ClaimInv, HasClaim
<1>8. RunInv'
  BY <1>1 DEF TaskInv, RunInv
<1>9. PollInv'
  BY <1>1, <1>4 DEF TaskInv, PollInv, Past
<1> QED
  BY <1>5, <1>6, <1>7, <1>8, <1>9 DEF TaskInv

-----------------------------------------------------------------------------
(* The steps of the commands and of the clock                               *)

(* A command moves, and may store a run.                                    *)
LEMMA CommandMoves ==
  ASSUME TaskInv, NEW c \in Commands, NEW k \in CommandState,
         command' = [command EXCEPT ![c] = k],
         UNCHANGED <<clock, task, issued, worker, ranAt, unresolved, retired, writer>>,
         latest' = latest \/ Later,
         command[c].at \in {"execute", "executing", "done"} =>
           k.at \in {"execute", "executing", "done"},
         k.at = "executing" => k.time <= clock
  PROVE  TaskInv'
<1>1. command'[c] = k /\ \A x \in Commands : x # c => command'[x] = command[x]
  BY DEF TaskInv, TypeOK
<1>2. Later
  <2>1. /\ latest \in [started : Times, finished : Times]
        /\ latest.started \in Nat /\ latest.finished \in Nat /\ clock \in Nat
    <3>1. latest \in [started : Times, finished : Times] /\ clock \in Times
      BY DEF TaskInv, TypeOK, Times
    <3> QED
      BY <3>1, Numbers
  <2>2. latest.started <= latest.finished /\ latest.finished <= clock
    BY DEF TaskInv, RunInv
  <2> QED
    BY <2>1, <2>2 DEF Later
<1>3. TypeOK'
  <2>1. command' \in [Commands -> CommandState]
    BY DEF TaskInv, TypeOK, CommandState
  <2> QED
    BY <1>2, <2>1 DEF TaskInv, TypeOK, CommandState, Later
<1>4. RowInv' /\ ClaimInv'
  BY DEF TaskInv, RowInv, ClaimInv, HasClaim
<1>5. RunInv'
  <2>1. \A w \in Workers : worker[w].started \in Nat
    BY Numbers DEF TaskInv, TypeOK
  <2> QED
    BY <1>1, <1>2, <2>1, LaterKeeps DEF TaskInv, RunInv
<1>6. \A by : Past(by) => Past(by)'
  BY <1>1 DEF Past
<1>7. PollInv'
  BY <1>6 DEF TaskInv, PollInv, Past
<1> QED
  BY <1>3, <1>4, <1>5, <1>7 DEF TaskInv

(* A task command starts: it has read nothing and holds nothing. *)
LEMMA BeginCommandKeeps ==
  ASSUME TaskInv, NEW c \in Commands, BeginCommand(c)
  PROVE  TaskInv'
<1>1. PICK kind \in Kinds :
        command' = [command EXCEPT ![c] = [at |-> "upsert", kind |-> kind, time |-> clock]]
  BY DEF BeginCommand
<1> DEFINE k == [at |-> "upsert", kind |-> kind, time |-> clock]
<1>2. k \in CommandState /\ k.at = "upsert"
  BY DEF CommandState, CommandPlaces, TaskInv, TypeOK, Times
<1>3. command[c].at = "idle" /\ command' = [command EXCEPT ![c] = k]
  BY <1>1 DEF BeginCommand
<1> HIDE DEF k
<1> QED
  BY <1>2, <1>3, CommandMoves DEF BeginCommand

(* An unclaimed execution starts its command: it reads the clock and
   changes no row. *)
LEMMA ExecuteKeeps ==
  ASSUME TaskInv, NEW c \in Commands, ExecuteUnclaimed(c)
  PROVE  TaskInv'
<1> DEFINE k == [command[c] EXCEPT !.at = "executing", !.time = clock]
<1>1. command[c] \in CommandState /\ clock \in Times /\ clock \in Nat
  BY Numbers DEF TaskInv, TypeOK, CommandState, Times
<1>2. k \in CommandState /\ k.at = "executing" /\ k.time = clock
  BY <1>1 DEF CommandState, CommandPlaces
<1>3. command' = [command EXCEPT ![c] = k]
  BY DEF ExecuteUnclaimed, TaskInv, TypeOK
<1>4. k.time <= clock
  BY <1>1, <1>2
<1> HIDE DEF k
<1> QED
  BY <1>2, <1>3, <1>4, CommandMoves DEF ExecuteUnclaimed

(* The run of an unclaimed execution is stored: it moves the latest run and
   leaves the claim alone. *)
LEMMA RecordUnclaimedKeeps ==
  ASSUME TaskInv, NEW c \in Commands, RecordUnclaimed(c)
  PROVE  TaskInv'
<1> DEFINE k == [command[c] EXCEPT !.at = "execute", !.time = 0]
<1>1. command[c] \in CommandState /\ 0 \in Times /\ command[c].at = "executing"
  BY Numbers DEF RecordUnclaimed, TaskInv, TypeOK, CommandState, Times
<1>2. k \in CommandState /\ k.at = "execute"
  BY <1>1 DEF CommandState, CommandPlaces
<1>3. \/ command' = [command EXCEPT ![c] = DoneCommand]
      \/ command' = [command EXCEPT ![c] = k]
  BY DEF RecordUnclaimed, TaskInv, TypeOK
<1>4. latest' = latest \/ Later
  <2>1. command[c].time \in Times /\ command[c].time <= clock
    BY <1>1 DEF CommandState, TaskInv, RunInv
  <2> QED
    BY <2>1, RunRecorded DEF RecordUnclaimed
<1>5. DoneCommand.at = "done"
  BY DEF DoneCommand
<1> HIDE DEF k
<1> QED
  BY <1>1, <1>2, <1>3, <1>4, <1>5, IdleTyped, CommandMoves DEF RecordUnclaimed

(* A definition that is stored gives the row a revision of this command,    *)
(* which no worker can have listed; the row it replaces had no claim.       *)
LEMMA UpsertKeeps ==
  ASSUME TaskInv, NEW c \in Commands, UpsertAgentTask(c)
  PROVE  TaskInv'
<1>1. command[c] \in CommandState /\ 0 \in Times
  BY Numbers DEF TaskInv, TypeOK, CommandState, Times
<1>2. DoneCommand.at = "done"
  BY DEF DoneCommand
<1>3. CASE /\ command[c].at = "upsert"
           /\ command' = [command EXCEPT ![c].at = "retry"]
           /\ UNCHANGED task
  <2> DEFINE k == [command[c] EXCEPT !.at = "retry"]
  <2>1. k \in CommandState /\ k.at = "retry"
    BY <1>1 DEF CommandState, CommandPlaces
  <2>2. command' = [command EXCEPT ![c] = k]
    BY <1>3 DEF TaskInv, TypeOK
  <2> HIDE DEF k
  <2> QED
    BY <1>3, <2>1, <2>2, CommandMoves DEF UpsertAgentTask
<1>4. CASE /\ command[c].at = "retry"
           /\ command' = [command EXCEPT ![c] = DoneCommand]
           /\ UNCHANGED task
  BY <1>2, <1>4, IdleTyped, CommandMoves DEF UpsertAgentTask
<1>5. CASE /\ command[c].at \in {"upsert", "retry"}
           /\ updateAgentTaskDefinition(c)
           /\ Stored(c)
  <2> DEFINE e == [command[c] EXCEPT !.at = "execute", !.time = 0]
             u == Revision(command[c].time, c)
  <2>1. e \in CommandState /\ e.at = "execute"
    BY <1>1 DEF CommandState, CommandPlaces
  <2>2. PICK k \in {e, DoneCommand} : command' = [command EXCEPT ![c] = k]
    BY <1>5 DEF Stored
  <2>3. k \in CommandState /\ k.at \in {"execute", "done"}
    BY <1>2, <2>1, IdleTyped
  <2>4. u \in Revisions /\ u.by = c
    BY <1>1 DEF Revision, Revisions, CommandState
  <2> HIDE DEF e, u
  <2>5. command'[c] = k /\ \A x \in Commands : x # c => command'[x] = command[x]
    BY <2>2 DEF TaskInv, TypeOK
  <2>6. /\ task.status # "running" /\ task.token = NoClaim
        /\ task'.status # "running" /\ task'.updatedAt = u /\ task'.token = NoClaim
        /\ task' \in TaskRow
    <3>1. StatusOf(command[c].kind) \in {"scheduled", "paused", "active"}
      BY <1>1 DEF StatusOf, CommandState, Kinds
    <3>2. task' = [status |-> StatusOf(command[c].kind), updatedAt |-> u, token |-> NoClaim]
      BY <1>5 DEF updateAgentTaskDefinition, u
    <3> QED
      BY <1>5, <2>4, <3>1, <3>2 DEF updateAgentTaskDefinition, TaskRow, TaskInv, RowInv
  <2>7. UNCHANGED <<clock, latest, issued, worker, ranAt, unresolved, retired, writer>>
    BY DEF UpsertAgentTask
  <2>8. TypeOK'
    <3>1. command' \in [Commands -> CommandState]
      BY <2>2, <2>3 DEF TaskInv, TypeOK, CommandState
    <3> QED
      BY <2>6, <2>7, <3>1 DEF TaskInv, TypeOK, CommandState, TaskRow
  <2>9. RowInv' /\ ClaimInv'
    BY <2>6, <2>7 DEF TaskInv, RowInv, ClaimInv, HasClaim
  <2>10. RunInv'
    BY <2>3, <2>5, <2>7 DEF TaskInv, RunInv
  <2>11. \A by : Past(by) => Past(by)' /\ by # c
    BY <1>5, <2>5, <2>7 DEF Past
  <2>12. PollInv'
    <3>1. Past(task.updatedAt.by)'
      BY <2>3, <2>4, <2>5, <2>6 DEF Past
    <3>2. ASSUME NEW x \in Workers, worker'[x].at = "listed"
          PROVE  Past(worker[x].seen.by)' /\ task'.updatedAt # worker'[x].seen
      <4>1. worker'[x] = worker[x] /\ Past(worker[x].seen.by)
        BY <2>7, <3>2 DEF TaskInv, PollInv
      <4>2. PICK by : by = worker[x].seen.by
        OBVIOUS
      <4>3. Past(by)' /\ by # c
        BY <2>11, <4>1, <4>2
      <4> QED
        BY <2>4, <2>6, <4>1, <4>2, <4>3 DEF Past
    <3> QED
      BY <3>1, <3>2 DEF PollInv
  <2> QED
    BY <2>8, <2>9, <2>10, <2>12 DEF TaskInv
<1> QED
  BY <1>3, <1>4, <1>5 DEF UpsertAgentTask

(* Time passes: what was in the past stays there. *)
LEMMA TickKeeps ==
  ASSUME TaskInv, Tick
  PROVE  TaskInv'
<1>1. /\ clock' = clock + 1 /\ clock \in Nat /\ clock' \in 0..MaxClock
      /\ UNCHANGED <<task, latest, issued, worker, command, ranAt, unresolved, retired, writer>>
  BY Numbers DEF Tick, TaskInv, TypeOK
<1>2. TypeOK'
  BY <1>1 DEF TaskInv, TypeOK
<1>3. RowInv' /\ ClaimInv'
  BY <1>1 DEF TaskInv, RowInv, ClaimInv, HasClaim
<1>4. RunInv'
  <2>1. /\ latest.finished \in Nat /\ \A w \in Workers : worker[w].started \in Nat
        /\ \A c \in Commands : command[c].time \in Nat
    BY Numbers DEF TaskInv, TypeOK
  <2> QED
    BY <1>1, <2>1 DEF TaskInv, RunInv
<1>5. PollInv'
  BY <1>1 DEF TaskInv, PollInv, Past
<1> QED
  BY <1>2, <1>3, <1>4, <1>5 DEF TaskInv
-----------------------------------------------------------------------------
(* The properties                                                           *)

(* A scheduled task that has never run satisfies the invariant. *)
LEMMA InvInit == Init => TaskInv
<1> SUFFICES ASSUME Init PROVE TaskInv
  OBVIOUS
<1>1. /\ 0 \in Times /\ 0 \in 0..MaxClaims /\ NoClaim = 0
      /\ Revision(0, NoClaim) \in Revisions /\ Revision(0, NoClaim).by = NoClaim
  BY Numbers DEF Times, Revision, Revisions, NoClaim
<1>2. IdleCommand \in CommandState /\ IdleCommand.at = "idle" /\ IdleWorker.at = "idle"
  BY <1>1 DEF IdleCommand, CommandState, CommandPlaces, Kinds, IdleWorker
<1>3. /\ task.status = "scheduled" /\ task.token = NoClaim
      /\ task.updatedAt = Revision(0, NoClaim) /\ task \in TaskRow
  BY <1>1 DEF Init, TaskRow
<1>4. TypeOK
  <2>1. worker \in [Workers -> WorkerState] /\ command \in [Commands -> CommandState]
    BY <1>2, IdleTyped DEF Init
  <2>2. latest \in [started : Times, finished : Times]
    BY <1>1 DEF Init
  <2> QED
    BY <1>1, <1>3, <2>1, <2>2, Numbers DEF Init, TypeOK, TaskRow, WorkerState, CommandState
<1>5. RowInv
  BY <1>1, <1>3 DEF Init, RowInv
<1>6. ClaimInv
  BY <1>2 DEF Init, ClaimInv, HasClaim
<1>7. RunInv
  BY <1>2 DEF Init, RunInv
<1>8. PollInv
  BY <1>1, <1>2, <1>3, Numbers DEF Init, PollInv, Past
<1> QED
  BY <1>4, <1>5, <1>6, <1>7, <1>8 DEF TaskInv

(* Every step keeps it. *)
LEMMA InvNext == TaskInv /\ [Next]_vars => TaskInv'
<1> SUFFICES ASSUME TaskInv, [Next]_vars PROVE TaskInv'
  OBVIOUS
<1>1. CASE UNCHANGED vars
  BY <1>1 DEF vars, TaskInv, TypeOK, RowInv, ClaimInv, RunInv, PollInv, Past, HasClaim
<1>2. ASSUME NEW w \in Workers, WorkerStep(w) PROVE TaskInv'
  <2>1. CASE Crash(w)
    BY <2>1, StopKeeps DEF Crash
  <2> QED
    BY <1>2, <2>1, BeginPassKeeps, ListKeeps, ClaimKeeps, StartKeeps, RecordKeeps, ReleaseKeeps
       DEF WorkerStep
<1>3. ASSUME NEW c \in Commands, CommandStep(c) PROVE TaskInv'
  BY <1>3, BeginCommandKeeps, UpsertKeeps, ExecuteKeeps, RecordUnclaimedKeeps DEF CommandStep
<1> QED
  BY <1>1, <1>2, <1>3, TickKeeps, RecoverKeeps DEF Next

(* The invariant holds in every behaviour. *)
THEOREM Invariant == Spec => []TaskInv
<1> QED
  BY InvInit, InvNext, PTL DEF Spec

(* A worker whose claim is the recorded one never starts the command while  *)
(* an earlier outcome is neither stored nor reviewed.                       *)
THEOREM NoReplay == Spec => NoAutomaticReplay
<1>1. TaskInv =>
        \A w \in Workers :
          At(w, "claimed") /\ task.token = worker[w].claim => unresolved = {}
  BY DEF TaskInv, RowInv, ClaimInv, At
<1>2. TaskInv /\ [Next]_vars =>
        [\A w \in Workers :
           At(w, "claimed") /\ worker'[w].at = "executing" /\ task.token = worker[w].claim
             => unresolved = {}]_vars
  BY <1>1
<1> QED
  BY <1>2, Invariant, PTL DEF Spec, NoAutomaticReplay

(* A step that takes a worker from listed to claimed is its own claim, of a *)
(* row that has not changed since the list.                                 *)
LEMMA ClaimedFromList ==
  ASSUME TaskInv, [Next]_vars, NEW w \in Workers, At(w, "listed"), worker'[w].at = "claimed"
  PROVE  Claimable(w)
<1>1. worker' # worker
  BY DEF At
<1>2. \A x \in Workers : x # w /\ WorkerStep(x) => worker'[w] = worker[w]
  BY DEF WorkerStep, BeginPass, ListAgentTasks, ClaimScheduledAgentTask, StartCommand, RecordRun,
     ReleaseScheduledAgentTask, Crash, Stop, TaskInv, TypeOK
<1>3. WorkerStep(w)
  BY <1>1, <1>2 DEF Next, vars, Tick, RecoverScheduledAgentTask, CommandStep, BeginCommand,
     UpsertAgentTask, ExecuteUnclaimed, RecordUnclaimed, At
<1>4. ClaimScheduledAgentTask(w)
  BY <1>3 DEF WorkerStep, BeginPass, ListAgentTasks, StartCommand, RecordRun,
     ReleaseScheduledAgentTask, Crash, Stop, IdleWorker, At, TaskInv, TypeOK
<1>5. ~Stop(w)
  BY DEF Stop, IdleWorker, TaskInv, TypeOK
<1> QED
  BY <1>4, <1>5 DEF ClaimScheduledAgentTask

(* At the clock reading a successful claim is based on, the interval has    *)
(* passed since the start of every run recorded under a released claim.     *)
THEOREM IntervalsAreKept == Spec => CompletedIntervalIsKept
<1>1. TaskInv /\ [Next]_vars =>
        [\A w \in Workers :
           At(w, "listed") /\ worker'[w].at = "claimed" /\ ranAt > 0
             => worker[w].now >= ranAt + Interval]_vars
  <2> SUFFICES ASSUME TaskInv, [Next]_vars, NEW w \in Workers, At(w, "listed"),
                      worker'[w].at = "claimed"
               PROVE  worker[w].now >= ranAt + Interval
    OBVIOUS
  <2>1. Claimable(w)
    BY ClaimedFromList
  <2> QED
    BY <2>1 DEF Claimable, At, TaskInv, PollInv
<1> QED
  BY <1>1, Invariant, PTL DEF Spec, CompletedIntervalIsKept

(* The token column fences the row: every step of the workers, commands and *)
(* the operator is a step of the ownership protocol, or changes none of the *)
(* owner, the retired claims and the last writer.                           *)
THEOREM TokenRefinesOwnership == Spec => ImplementsFencedOwnership
<1>1. Init => Ownership!Init
  BY DEF Init, Ownership!Init
<1>2. TaskInv /\ [Next]_vars => [Ownership!Next]_(Ownership!vars)
  <2> SUFFICES ASSUME TaskInv, [Next]_vars
               PROVE  [Ownership!Next]_(Ownership!vars)
    OBVIOUS
  <2> USE DEF Ownership!Next, Ownership!vars
  <2>1. CASE UNCHANGED <<task, retired, writer>>
    BY <2>1
  <2>2. ASSUME NEW w \in Workers, ClaimScheduledAgentTask(w)
        PROVE  [Ownership!Next]_(Ownership!vars)
    <3>1. CASE UNCHANGED <<task, writer>>
      BY <2>1, <2>2, <3>1 DEF ClaimScheduledAgentTask
    <3>2. CASE ~UNCHANGED <<task, writer>>
      <4>1. /\ Claimable(w) /\ task'.token = issued' /\ writer' = issued' /\ retired' = retired
            /\ issued' = issued + 1 /\ issued < MaxClaims /\ issued \in Nat
        BY <2>2, <3>2 DEF ClaimScheduledAgentTask, TaskInv, TypeOK
      <4>2. task.token = NoClaim
        BY <4>1 DEF Claimable, TaskInv, RowInv
      <4>3. issued' \in Claims /\ issued' # NoClaim /\ issued' \notin retired
        BY <4>1, Numbers DEF TaskInv, RowInv, NoClaim
      <4>4. Ownership!Acquire(issued')
        BY <4>1, <4>2, <4>3 DEF Ownership!Acquire
      <4> QED
        BY <4>3, <4>4
    <3> QED
      BY <3>1, <3>2
  <2>3. ASSUME NEW w \in Workers, ReleaseScheduledAgentTask(w)
        PROVE  [Ownership!Next]_(Ownership!vars)
    <3>1. CASE UNCHANGED <<task, writer, retired, ranAt>>
      BY <2>1, <3>1
    <3>2. CASE ~UNCHANGED <<task, writer, retired, ranAt>>
      <4>1. /\ Releasable(w) /\ task'.token = NoClaim /\ writer' = worker[w].claim
            /\ retired' = retired \cup {worker[w].claim}
        BY <2>3, <3>2 DEF ReleaseScheduledAgentTask
      <4>2. task.token = worker[w].claim /\ task.token \in Claims
        BY <4>1 DEF Releasable, TaskInv, RowInv, TypeOK
      <4>3. Ownership!Release(task.token)
        BY <4>1, <4>2 DEF Ownership!Release
      <4> QED
        BY <4>2, <4>3
    <3> QED
      BY <3>1, <3>2
  <2>4. CASE RecoverScheduledAgentTask
    <3>1. /\ task'.token = NoClaim /\ writer' = writer
          /\ retired' = retired \cup {task.token} /\ task.token \in Claims
      BY <2>4 DEF RecoverScheduledAgentTask, TaskInv, RowInv, TypeOK
    <3>2. Ownership!Revoke(task.token)
      BY <3>1 DEF Ownership!Revoke
    <3> QED
      BY <3>1, <3>2
  <2>5. ASSUME NEW c \in Commands, UpsertAgentTask(c)
        PROVE  [Ownership!Next]_(Ownership!vars)
    <3>1. UNCHANGED <<retired, writer>> /\ task'.token = task.token
      BY <2>5 DEF UpsertAgentTask, updateAgentTaskDefinition, TaskInv, RowInv
    <3> QED
      BY <3>1
  <2> QED
    BY <2>1, <2>2, <2>3, <2>4, <2>5 DEF Next, WorkerStep, CommandStep, vars, Tick,
       BeginPass, ListAgentTasks, StartCommand, RecordRun, Crash,
       BeginCommand, ExecuteUnclaimed, RecordUnclaimed
<1> QED
  BY <1>1, <1>2, Invariant, PTL DEF Spec, ImplementsFencedOwnership, Ownership!Spec
=============================================================================
