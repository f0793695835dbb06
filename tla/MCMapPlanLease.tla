-------------------------- MODULE MCMapPlanLease --------------------------
(* Two or three `map run` processes around one saved plan. *)
EXTENDS MapPlanLease, TLC

Symmetry == Permutations(Executors)
=============================================================================
