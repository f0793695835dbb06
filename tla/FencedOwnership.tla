-------------------------- MODULE FencedOwnership --------------------------
(***************************************************************************)
(* What every owner/token protocol of the Store promises: a durable record *)
(* has at most one owner at a time, ownership moves from worker to worker, *)
(* a worker that lost or gave up ownership never gets it back, and the     *)
(* record is only ever written by the worker that owns it at that moment.  *)
(* A worker stands for one owner/token pair, so a process that runs twice  *)
(* is two workers.                                                         *)
(***************************************************************************)
CONSTANTS
  Workers,      \* owner/token pairs
  NoWorker      \* the absence of one, no member of Workers

VARIABLES
  owner,        \* the worker the Store records as owner, or NoWorker
  retired,      \* the workers that owned the record once and no longer do
  writer        \* the worker whose write the record shows, or NoWorker

vars == <<owner, retired, writer>>

Init ==
  /\ owner = NoWorker
  /\ retired = {}
  /\ writer = NoWorker

(* A worker that never owned the record becomes its owner; whoever owned it *)
(* is retired. Claiming marks the record, so it is a write as well.         *)
Acquire(w) ==
  /\ w \notin retired
  /\ w # owner
  /\ owner' = w
  /\ retired' = retired \cup ({owner} \ {NoWorker})
  /\ writer' = w

(* The owner, and nobody else, writes. *)
Write(w) ==
  /\ owner = w
  /\ writer' = w
  /\ UNCHANGED <<owner, retired>>

(* The owner writes its final state and gives the record up. *)
Release(w) ==
  /\ owner = w
  /\ owner' = NoWorker
  /\ retired' = retired \cup {w}
  /\ writer' = w

(* An operator takes the record away from its owner. *)
Revoke(w) ==
  /\ owner = w
  /\ owner' = NoWorker
  /\ retired' = retired \cup {w}
  /\ UNCHANGED writer

Next == \E w \in Workers : Acquire(w) \/ Write(w) \/ Release(w) \/ Revoke(w)

Spec == Init /\ [][Next]_vars

=============================================================================
