------------------------------ MODULE MCMapRun ------------------------------
(***************************************************************************)
(* Instances of MapRun: the plans below cover every task kind, a path of   *)
(* several steps, a dependency, edges from tasks that do not exist, a      *)
(* cycle, and two tasks of one wave that run concurrently.  Beside them    *)
(* the loop that builds the waves runs on its own, for every plan of       *)
(* WaveTasks tasks: a behaviour is about one of the two parts.             *)
(***************************************************************************)
EXTENDS MapRun, MapRunWaves

VARIABLE part

Controls(resume, retryFailed, skipPassed, rerun) ==
  [resume |-> resume, retryFailed |-> retryFailed, skipPassed |-> skipPassed, rerun |-> rerun]

MCControls == {NoControls, Controls(FALSE, TRUE, FALSE, {}), Controls(TRUE, FALSE, TRUE, {2})}
MCDefault == {NoControls}
MCResume == {NoControls, Controls(TRUE, FALSE, FALSE, {})}

Plan(k, s, E) == [kind |-> k, steps |-> s, edges |-> E]

PathThenCase == Plan(<<"run_path", "run_case">>, <<2, 1>>, {<<1, 2>>})
OneWave == Plan(<<"run_case", "gate_evidence">>, <<1, 0>>, {})
NoRequests == Plan(<<"skip", "run_path_prefix">>, <<0, 0>>, {<<1, 2>>})
Cycle == Plan(<<"run_case", "reuse_materialization", "reuse_materialization">>, <<1, 0, 0>>,
              {<<0, 1>>, <<2, 3>>, <<3, 2>>})

OneCase == Plan(<<"run_case">>, <<1>>, {})

MCPlans == {PathThenCase, OneWave, NoRequests, Cycle}
MCOneCase == {OneCase}
MCPrefix == {Plan(<<"run_path_prefix">>, <<1>>, {})}

allVars == <<vars, part, waveVars>>

MCInit ==
  \/ /\ part = "run"
     /\ Init
     /\ edges = <<>> /\ indegree = <<>> /\ ready = {} /\ waves = <<>> /\ queued = {}
  \/ /\ part = "waves"
     /\ WavesInit
     /\ Init /\ plan.kind = (CHOOSE p \in Plans : TRUE).kind

RunPart(A) == part = "run" /\ A /\ UNCHANGED <<part, waveVars>>

MCNext ==
  \/ RunPart(Next)
  \/ part = "waves" /\ WavesNext /\ UNCHANGED <<vars, part>>

MCSpec ==
  /\ MCInit /\ [][MCNext]_allVars
  /\ \A e \in Executors : WF_allVars(RunPart(ProcessStep(e) /\ UNCHANGED plan))
=============================================================================
