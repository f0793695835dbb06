---------------------------- MODULE MCMapPlanner ----------------------------
(***************************************************************************)
(* Catalogs for the planner: two validation cases of one interface and     *)
(* family, behind two checkpoints of one workflow or behind their anchor;  *)
(* a version with the workflow's first steps exchanged, and one that no    *)
(* longer lists a case, a fixture and a workflow.                          *)
(***************************************************************************)
EXTENDS MapEditing

MCCases == 1..4
MCWorkflows == {1, 2}
MCInterface == (1 :> "order" @@ 2 :> "pay" @@ 3 :> "pay" @@ 4 :> "pay")
MCKind == (1 :> "plain" @@ 2 :> "plain" @@ 3 :> "negative" @@ 4 :> "diff")
MCFamily == [c \in MCCases |-> "contract"]

Bind(c) == [case |-> c, req |-> TRUE]
Maybe(c) == [case |-> c, req |-> FALSE]
First == [cases |-> 1..4, active |-> 1..4, flows |-> {1, 2},
          bind |-> (1 :> <<Bind(1), Bind(2)>> @@ 2 :> <<Bind(2)>>),
          fixtures |-> {[id |-> "f1", wf |-> 1, until |-> 1], [id |-> "f2", wf |-> 1, until |-> 2]},
          deps |-> {[id |-> "d1", case |-> 3, fix |-> "f1", req |-> TRUE],
                    [id |-> "d2", case |-> 4, fix |-> "f2", req |-> TRUE]}]
Second == [First EXCEPT !.fixtures = {}, !.deps = {}]
Third == [First EXCEPT !.bind = (1 :> <<Bind(1)>> @@ 2 :> <<>>), !.active = {1, 3, 4},
                       !.cases = {1, 3, 4}, !.flows = {1},
                       !.fixtures = {[id |-> "f1", wf |-> 1, until |-> 1]}]
Fourth == [Second EXCEPT !.bind = (1 :> <<Bind(2), Bind(1)>> @@ 2 :> <<Bind(2)>>)]
Fifth == [Second EXCEPT !.bind = (1 :> <<Bind(1), Bind(2)>> @@ 2 :> <<Bind(1)>>)]
Reversed == [First EXCEPT !.bind = (1 :> <<Bind(2)>> @@ 2 :> <<Bind(2), Maybe(1)>>),
                          !.fixtures = {}]
MCCatalogs == {First, Second, Third, Fourth, Fifth, Reversed}
MCFilters == {{}, {1}, {2}}
MCOps == {"import", "update", "snapshot", "publish", "attach", "promote"}
UpdateOps == {"import", "update"}

VARIABLE scenario

(* One process edits the map, two processes write it, or plans of at most   *)
(* MaxTasks tasks are saved and run between SavedImports imports.           *)
MaxTasks == 2
SavedImports == 2
Scenarios == {"edits", "writers", "saved"}
Allowed ==
  [edits |-> [ops |-> {"import", "attach", "promote"}, clients |-> {"a"},
              catalogs |-> {First, Second, Third, Fourth}],
   writers |-> [ops |-> {"import", "update", "publish", "snapshot", "version"},
                clients |-> Clients, catalogs |-> {First, Reversed}],
   saved |-> [ops |-> {"import"}, clients |-> {"a"},
              catalogs |-> {First, Fifth}]]

MCInit == EditingInit /\ scenario \in Scenarios /\ catalog \in Allowed[scenario].catalogs

MCNext ==
  /\ UNCHANGED scenario
  /\ \/ /\ scenario = "saved" /\ PlanStep
        /\ \A plan \in plans' : Len(plan.tasks) <= MaxTasks
     \/ /\ Next /\ UNCHANGED plans
        /\ catalog' \in Allowed[scenario].catalogs
        /\ scenario = "saved" => started' <= SavedImports
        /\ \A p \in Clients :
             \/ cli'[p].op.k = "none"
             \/ p \in Allowed[scenario].clients /\ cli'[p].op.k \in Allowed[scenario].ops
  /\ alone' = (alone /\ OneAtATime')

MCSpec == MCInit /\ [][MCNext]_<<editVars, scenario>>
=============================================================================
