----------------------------- MODULE MapEditing -----------------------------
(***************************************************************************)
(* The map while its commands do not overlap: the read and the replacement *)
(* of TestPlanGraph are not one transaction, so what a command keeps of    *)
(* the map it keeps only when no other command runs beside it.             *)
(***************************************************************************)
EXTENDS MapPlanner

VARIABLE alone   \* history: no two commands have been under way at once so far

editVars == <<planVars, alone>>

OneAtATime ==
  \A p, q \in Clients : cli[p].op.k # "none" /\ cli[q].op.k # "none" => p = q

EditingInit == PlannerInit /\ alone = TRUE
EditingNext == PlannerNext /\ alone' = (alone /\ OneAtATime')
EditingSpec == EditingInit /\ [][EditingNext]_editVars

-----------------------------------------------------------------------------
(* What commands that do not overlap keep of the map, whichever they are:  *)
(* see ReferencesIntact.                                                   *)
EditsKeepReferences == alone => ReferencesIntact
=============================================================================
