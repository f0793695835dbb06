---------------------------- MODULE MapRunWaves ----------------------------
(***************************************************************************)
(* mapRunTaskExecutionWaves (cmd/agent-testbench/map_run_executor.go): the *)
(* required edges of a plan are sorted into waves of tasks by counting     *)
(* indegrees, one wave per iteration.  Whatever the edges are (repeated,   *)
(* dangling, cyclic) every task has to end up in exactly one wave, behind  *)
(* all it requires if that is possible at all.  MapRun uses the layers     *)
(* this computes through their definition, Layer.                          *)
(***************************************************************************)
EXTENDS Naturals, FiniteSets, Sequences

CONSTANTS
  WaveTasks,        \* the tasks are 1..WaveTasks, in task_index order
  MaxRepetitions    \* bound: how often the plan may repeat one edge

ASSUME WavesAssumption == WaveTasks \in Nat /\ MaxRepetitions \in Nat

Indices == 1..WaveTasks

VARIABLES
  edges,      \* how often the plan has the required edge <<from, to>>
  indegree,   \* the edges into a task that no wave has satisfied yet
  ready,      \* the tasks of the next wave
  waves,      \* the waves built so far
  queued      \* the tasks in them

waveVars == <<edges, indegree, ready, waves, queued>>

(* The number of edges from a task of S to t. *)
EdgesInto(S, t) ==
  LET from[n \in 0..WaveTasks] ==
        IF n = 0 THEN 0
        ELSE from[n - 1] + (IF n \in S THEN edges[<<n, t>>] ELSE 0)
  IN from[WaveTasks]

InIndexOrder(S) ==
  CHOOSE s \in [1..Cardinality(S) -> S] :
    \A i, j \in 1..Cardinality(S) : i < j => s[i] < s[j]
Singly(s) == [i \in 1..Len(s) |-> {s[i]}]

(* Edges that do not connect two tasks of the plan are ignored. *)
WavesInit ==
  /\ edges \in [Indices \X Indices -> 0..MaxRepetitions]
  /\ indegree = [t \in Indices |-> EdgesInto(Indices, t)]
  /\ ready = {t \in Indices : indegree[t] = 0}
  /\ waves = <<>>
  /\ queued = {}

(* Mutant of NextWave: a task with several satisfied requirements in one    *)
(* wave is decremented once.                                                *)
NextWaveCountingTasks ==
  /\ ready # {}
  /\ waves' = Append(waves, ready)
  /\ queued' = queued \cup ready
  /\ indegree' =
       [t \in Indices |-> indegree[t] - Cardinality({f \in ready : edges[<<f, t>>] > 0})]
  /\ ready' = {t \in Indices : indegree[t] > 0 /\ indegree'[t] = 0}
  /\ UNCHANGED edges

(* One iteration: the ready tasks become a wave, and a task whose indegree  *)
(* this brings down to zero becomes ready.                                  *)
NextWave ==
  /\ ready # {}
  /\ waves' = Append(waves, ready)
  /\ queued' = queued \cup ready
  /\ indegree' = [t \in Indices |-> indegree[t] - EdgesInto(ready, t)]
  /\ ready' = {t \in Indices : indegree[t] > 0 /\ indegree'[t] = 0}
  /\ UNCHANGED edges

(* When nothing is ready the tasks left over get a wave of their own each.  *)
QueueRest ==
  /\ ready = {}
  /\ queued # Indices
  /\ waves' = waves \o Singly(InIndexOrder(Indices \ queued))
  /\ queued' = Indices
  /\ UNCHANGED <<edges, indegree, ready>>

WavesNext == NextWave \/ QueueRest

WavesSpec == WavesInit /\ [][WavesNext]_waveVars /\ WF_waveVars(WavesNext)

-----------------------------------------------------------------------------
(* Properties                                                               *)

Needs(t) == {f \in Indices : edges[<<f, t>>] > 0}

(* The tasks that can run within n waves: MapRun's definition of the waves. *)
Layer(n) ==
  LET L[k \in 0..n] ==
        IF k = 0 THEN {} ELSE {t \in Indices : Needs(t) \subseteq L[k - 1]}
  IN L[n]

Over == ready = {} /\ queued = Indices

(* The loop computes the layers: when it is over, wave n holds the tasks of *)
(* Layer(n) that no earlier layer has, and then come the tasks no layer     *)
(* has, each alone and in index order.                                      *)
WavesAreLayers ==
  Over =>
    LET depth == Cardinality({n \in 1..WaveTasks : Layer(n) # Layer(n - 1)})
    IN waves = [n \in 1..depth |-> Layer(n) \ Layer(n - 1)]
                 \o Singly(InIndexOrder(Indices \ Layer(WaveTasks)))
=============================================================================
