------------------------- MODULE MCAgentTaskWorker -------------------------
(* Two workers and two commands: neither are told apart by the model. *)
EXTENDS AgentTaskWorker, TLC

Symmetry == Permutations(Workers) \cup Permutations(Commands)
=============================================================================
