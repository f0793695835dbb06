---------------------------- MODULE MCControlPlane ----------------------------
(***************************************************************************)
(* What the control plane runs for a user: a behaviour is about case runs  *)
(* and the workflow run saved from them (two calls and one save: a call    *)
(* repeated by hand and as part of a workflow, and a second one, of the    *)
(* same step or as a batch member whose case file carries another          *)
(* identifier), or about an analysis of the map assistant.                 *)
(***************************************************************************)
EXTENDS WorkflowRuns, AssistantSession, TLC

CONSTANTS c1, c2, s1, s2

VARIABLE part

MCCaseKind == s1 :> "inline" @@ s2 :> "foreign"
MCRequests ==
  {<<c1, "public", s1>>, <<c1, "trusted", s1>>, <<c2, "trusted", s1>>, <<c2, "batch", s2>>}

(* A map with a variant b of node a, and the same map without it, with      *)
(* another node on the path; a run of b's case for another map.             *)
Node(id, case, base, anchor) ==
  [id |-> id, case |-> case, base |-> base, anchor |-> anchor, words |-> {id}]
Content(profile, nodes, path) == [profile |-> profile, nodes |-> nodes, paths |-> "w" :> path]
MCMaps ==
  {Content("p", {Node("a", "x", "", ""), Node("b", "y", "x", "a")}, {"a"}),
   Content("p", {Node("a", "x", "", ""), Node("c", "z", "", "")}, {"a", "c"})}
MCCaseRuns == {[id |-> "r", profile |-> "p", case |-> "y", node |-> "d", evidence |-> {"e"}],
               [id |-> "q", profile |-> "p", case |-> "z", node |-> "", evidence |-> {"f"}]}
MCFocuses == {[node |-> "", path |-> "w"]}
MCArgs == {[node |-> "", path |-> "", run |-> "", query |-> ""],
           [node |-> "b", path |-> "", run |-> "r", query |-> "b"]}

MCInit ==
  /\ part \in {"runs", "analysis"}
  /\ RunsInit /\ SessionInit
  /\ part # "analysis" =>
       graph = (CHOOSE g \in MCMaps : TRUE) /\ row = [s \in Sessions |-> {}]

MCNext ==
  /\ UNCHANGED part
  /\ \/ part = "runs" /\ RunsNext /\ UNCHANGED sessionVars
     \/ part = "analysis" /\ SessionNext /\ UNCHANGED runsVars

MCSpec ==
  MCInit /\ [][MCNext]_<<part, runsVars, sessionVars>> /\ RunsFairness /\ SessionFairness
===============================================================================
