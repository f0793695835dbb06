------------------------- MODULE MapPlanLeaseProofs -------------------------
(***************************************************************************)
(* Proofs about MapPlanLease, for any number of executors, any lease       *)
(* duration and any heartbeat interval below it.                           *)
(***************************************************************************)
EXTENDS MapPlanLease, TLAPS

(* What a renewing transaction may leave behind, whether it is reported as  *)
(* a success or as an error.                                                *)
LEMMA RenewTyped ==
  ASSUME TypeOK, NEW e \in Executors, NEW at \in Nat,
         NEW w \in Executors \cup {NoExecutor},
         RenewCommits(e, at, w) \/ RenewFails(e, at, w)
  PROVE  /\ lease' \in Leases
         /\ writer' \in Executors \cup {NoExecutor}
         /\ held' \in [Executors -> Nat]
         /\ err' \in [Executors -> BOOLEAN]
         /\ UNCHANGED <<planStatus, retired>>
<1>1. [owner |-> e, expires |-> at + LeaseDuration] \in Leases
  BY TimingAssumption DEF Leases
<1>2. lease' \in Leases
  BY <1>1 DEF TypeOK, RenewCommits, RenewFails, renewTestMapPlanLease
<1>3. CASE RenewCommits(e, at, w)
  BY <1>2, <1>3, TimingAssumption DEF TypeOK, RenewCommits
<1>4. CASE RenewFails(e, at, w)
  <2>1. writer' \in Executors \cup {NoExecutor}
    BY <1>4 DEF TypeOK, RenewFails
  <2>2. err' \in [Executors -> BOOLEAN]
    BY <1>4 DEF TypeOK, RenewFails
  <2> QED
    BY <1>2, <1>4, <2>1, <2>2 DEF TypeOK, RenewFails
<1> QED
  BY <1>3, <1>4

(* Every variable of the model, the Store's rows and the executors' memory, *)
(* keeps its type.                                                          *)
THEOREM TypeCorrect == Spec => []TypeOK
<1> USE ExecutorsAssumption, TimingAssumption, HealthyAssumption
<1> USE DEF TypeOK, Leases, PlanStatus, NoLease, NoTick, Before, Active, Ended,
            storeVars
<1>1. Init => TypeOK
  BY DEF Init
<1>2. TypeOK /\ [Next]_vars => TypeOK'
  <2> SUFFICES ASSUME TypeOK, [Next]_vars PROVE TypeOK'
    OBVIOUS
  <2>1. CASE Tick
    BY <2>1 DEF Tick
  <2>2. ASSUME NEW e \in Executors, SavePlan(e) PROVE TypeOK'
    BY <2>2 DEF SavePlan
  <2>3. ASSUME NEW e \in Executors, Start(e) PROVE TypeOK'
    BY <2>3 DEF Start
  <2>4. ASSUME NEW e \in Executors, ClaimRead(e) PROVE TypeOK'
    BY <2>4 DEF ClaimRead
  <2>5. ASSUME NEW e \in Executors, ClaimCommit(e) PROVE TypeOK'
    BY <2>5 DEF ClaimCommit
  <2>6. ASSUME NEW e \in Executors, Reset(e) PROVE TypeOK'
    <3>1. RenewCommits(e, now[e], e) \/ RenewFails(e, now[e], e)
      BY <2>6 DEF Reset
    <3>2. now[e] \in Nat /\ e \in Executors \cup {NoExecutor}
      OBVIOUS
    <3>3. pc' \in [Executors -> Before \cup {"reset"} \cup Active \cup Ended]
          /\ beat' \in [Executors -> Nat]
      BY <2>6 DEF Reset
    <3> QED
      BY <2>6, <3>1, <3>2, <3>3, RenewTyped DEF Reset
  <2>7. ASSUME NEW e \in Executors, BeginCheckpoint(e) PROVE TypeOK'
    BY <2>7 DEF BeginCheckpoint
  <2>8. ASSUME NEW e \in Executors, Checkpoint(e) PROVE TypeOK'
    <3>1. RenewCommits(e, now[e], e) \/ RenewFails(e, now[e], e)
      BY <2>8 DEF Checkpoint
    <3>2. now[e] \in Nat /\ e \in Executors \cup {NoExecutor}
      OBVIOUS
    <3> QED
      BY <2>8, <3>1, <3>2, RenewTyped DEF Checkpoint
  <2>9. ASSUME NEW e \in Executors, BeginFence(e) PROVE TypeOK'
    BY <2>9 DEF BeginFence
  <2>10. ASSUME NEW e \in Executors, fenceMapRunOwnership(e) PROVE TypeOK'
    <3>1. RenewCommits(e, now[e], writer) \/ RenewFails(e, now[e], writer)
      BY <2>10 DEF fenceMapRunOwnership
    <3>2. now[e] \in Nat /\ writer \in Executors \cup {NoExecutor}
      OBVIOUS
    <3> QED
      BY <2>10, <3>1, <3>2, RenewTyped DEF fenceMapRunOwnership
  <2>11. ASSUME NEW e \in Executors, FinishRequest(e) PROVE TypeOK'
    BY <2>11 DEF FinishRequest
  <2>12. ASSUME NEW e \in Executors, HeartbeatFires(e) PROVE TypeOK'
    BY <2>12 DEF HeartbeatFires
  <2>13. ASSUME NEW e \in Executors, HeartbeatRenews(e) PROVE TypeOK'
    <3>1. RenewCommits(e, tick[e], writer) \/ RenewFails(e, tick[e], writer)
      BY <2>13 DEF HeartbeatRenews
    <3>2. tick[e] \in Nat /\ writer \in Executors \cup {NoExecutor}
      OBVIOUS
    <3> QED
      BY <2>13, <3>1, <3>2, RenewTyped DEF HeartbeatRenews
  <2>14. ASSUME NEW e \in Executors, stopLeaseHeartbeat(e) PROVE TypeOK'
    BY <2>14 DEF stopLeaseHeartbeat
  <2>15. ASSUME NEW e \in Executors, BeginRelease(e) PROVE TypeOK'
    BY <2>15 DEF BeginRelease
  <2>16. ASSUME NEW e \in Executors, ReleaseTestMapPlanLease(e) PROVE TypeOK'
    <3>1. err' \in [Executors -> BOOLEAN]
      BY <2>16 DEF ReleaseTestMapPlanLease
    <3>2. planStatus' \in PlanStatus /\ retired' \subseteq Executors /\ lease' \in Leases
          /\ writer' \in Executors \cup {NoExecutor}
      BY <2>16 DEF ReleaseTestMapPlanLease
    <3>3. pc' \in [Executors -> Before \cup {"reset"} \cup Active \cup Ended]
      BY <2>16 DEF ReleaseTestMapPlanLease
    <3> QED
      BY <2>16, <3>1, <3>2, <3>3 DEF ReleaseTestMapPlanLease
  <2>17. ASSUME NEW e \in Executors, Crash(e) PROVE TypeOK'
    BY <2>17 DEF Crash
  <2>18. CASE UNCHANGED vars
    BY <2>18 DEF vars
  <2> QED
    BY <2>1, <2>2, <2>3, <2>4, <2>5, <2>6, <2>7, <2>8, <2>9, <2>10, <2>11,
       <2>12, <2>13, <2>14, <2>15, <2>16, <2>17, <2>18
    DEF Next, ExecutorStep, Heartbeat
<1> QED
  BY <1>1, <1>2, PTL DEF Spec

-----------------------------------------------------------------------------
(* The inductive invariant behind the safety properties.                    *)

(* Clock readings are never ahead of the clock. *)
ReadingsInThePast ==
  \A e \in Executors : /\ now[e] <= clock
                       /\ tick[e] # NoTick => tick[e] <= clock

(* The lease row is absent, or names an executor that was never retired.    *)
OwnerNotRetired ==
  /\ lease.owner = NoExecutor => lease = NoLease
  /\ lease.owner \notin retired

(* An executor that has not claimed yet never owned the plan. *)
ClaimantsAreNew ==
  \A e \in Executors : pc[e] \in Before => e \notin retired /\ lease.owner # e

(* An executor that has claimed, and met no error, either owns the plan and *)
(* knows the stored expiry, or lost it and the expiry it knows has passed.  *)
HoldersKnow ==
  \A e \in Executors : Holding(e) =>
    \/ lease.owner = e /\ lease.expires = held[e]
    \/ e \in retired /\ held[e] <= clock

LeaseInv ==
  /\ ReadingsInThePast
  /\ OwnerNotRetired
  /\ ClaimantsAreNew
  /\ HoldersKnow
  /\ OwnedPlanIsRunning

(* A renewing transaction of an executor that has claimed keeps everybody's *)
(* knowledge of the lease right: its own, because it is told the expiry it  *)
(* stored or notes the error, and the others', because it owned the row.    *)
LEMMA RenewKeepsInv ==
  ASSUME TypeOK, LeaseInv, NEW e \in Executors, NEW at \in Nat,
         NEW w \in Executors \cup {NoExecutor},
         pc[e] \notin Before, UNCHANGED clock,
         RenewCommits(e, at, w) \/ RenewFails(e, at, w),
         \A x \in Executors : x # e => pc'[x] = pc[x],
         pc'[e] \notin Before,
         pc'[e] \in Active \cup {"reset"} => pc[e] \in Active \cup {"reset"}
  PROVE  OwnerNotRetired' /\ ClaimantsAreNew' /\ HoldersKnow' /\ OwnedPlanIsRunning'
<1> USE ExecutorsAssumption, TimingAssumption
<1>1. CASE UNCHANGED lease /\ RenewFails(e, at, w)
  <2>1. OwnerNotRetired' /\ OwnedPlanIsRunning'
    BY <1>1 DEF RenewFails, LeaseInv, OwnerNotRetired, OwnedPlanIsRunning, NoLease
  <2>2. ClaimantsAreNew'
    BY <1>1 DEF RenewFails, LeaseInv, ClaimantsAreNew
  <2>3. HoldersKnow'
    BY <1>1 DEF RenewFails, LeaseInv, HoldersKnow, Holding, TypeOK
  <2> QED
    BY <2>1, <2>2, <2>3
<1>2. CASE /\ lease.owner = e
           /\ lease' = [owner |-> e, expires |-> at + LeaseDuration]
           /\ UNCHANGED <<planStatus, retired>>
           /\ \/ err'[e]
              \/ held'[e] = at + LeaseDuration
           /\ \A x \in Executors : x # e => held'[x] = held[x] /\ err'[x] = err[x]
  <2>1. OwnerNotRetired' /\ OwnedPlanIsRunning'
    BY <1>2 DEF LeaseInv, OwnerNotRetired, OwnedPlanIsRunning, NoLease
  <2>2. ClaimantsAreNew'
    BY <1>2 DEF LeaseInv, ClaimantsAreNew
  <2>3. HoldersKnow'
    BY <1>2 DEF LeaseInv, HoldersKnow, Holding
  <2> QED
    BY <2>1, <2>2, <2>3
<1>3. CASE RenewCommits(e, at, w)
  BY <1>2, <1>3 DEF RenewCommits, requireActiveTestMapPlanLease,
                    renewTestMapPlanLease, TypeOK
<1>4. CASE RenewFails(e, at, w) /\ ~(UNCHANGED lease)
  BY <1>2, <1>4 DEF RenewFails, requireActiveTestMapPlanLease,
                    renewTestMapPlanLease, TypeOK
<1> QED
  BY <1>1, <1>3, <1>4

(* A step of e that leaves the Store and what e knows of its lease alone.   *)
LEMMA LocalStepKeepsInv ==
  ASSUME TypeOK, LeaseInv, NEW e \in Executors,
         UNCHANGED <<clock, lease, planStatus, retired, held, err>>,
         \A x \in Executors : x # e => pc'[x] = pc[x],
         pc'[e] \in Before => pc[e] \in Before,
         pc'[e] \in Active \cup {"reset"} => pc[e] \in Active \cup {"reset"}
  PROVE  OwnerNotRetired' /\ ClaimantsAreNew' /\ HoldersKnow' /\ OwnedPlanIsRunning'
<1>1. OwnerNotRetired' /\ OwnedPlanIsRunning'
  BY DEF LeaseInv, OwnerNotRetired, OwnedPlanIsRunning, NoLease
<1>2. ClaimantsAreNew'
  BY DEF LeaseInv, ClaimantsAreNew
<1>3. HoldersKnow'
  BY DEF LeaseInv, HoldersKnow, Holding
<1> QED
  BY <1>1, <1>2, <1>3

(* Before the first claim nobody owns the plan and no clock was read. *)
LEMMA LeaseInvInit == Init => LeaseInv
BY ExecutorsAssumption, TimingAssumption
DEF Init, LeaseInv, ReadingsInThePast, OwnerNotRetired, ClaimantsAreNew,
    HoldersKnow, Holding, OwnedPlanIsRunning, NoLease, NoTick, Before, Active

(* A clock reading that waits for its transaction is never ahead of the    *)
(* clock: time.Now() is taken before the transaction, and time only grows.  *)
LEMMA ReadingsStep == TypeOK /\ ReadingsInThePast /\ [Next]_vars => ReadingsInThePast'
<1> SUFFICES ASSUME TypeOK, ReadingsInThePast, [Next]_vars PROVE ReadingsInThePast'
  OBVIOUS
<1> USE TimingAssumption DEF ReadingsInThePast, TypeOK, NoTick
<1>1. CASE Tick
  BY <1>1 DEF Tick
<1>2. CASE UNCHANGED vars
  BY <1>2 DEF vars
<1>3. ASSUME NEW e \in Executors, ExecutorStep(e) PROVE ReadingsInThePast'
  <2>1. CASE SavePlan(e) \/ Start(e) \/ ClaimRead(e)
    BY <2>1 DEF SavePlan, Start, ClaimRead
  <2>2. CASE ClaimCommit(e)
    BY <2>2 DEF ClaimCommit
  <2>3. CASE Reset(e) \/ Checkpoint(e) \/ fenceMapRunOwnership(e)
    BY <2>3 DEF Reset, Checkpoint, fenceMapRunOwnership
  <2>4. CASE BeginCheckpoint(e) \/ BeginFence(e) \/ FinishRequest(e)
             \/ stopLeaseHeartbeat(e)
    BY <2>4 DEF BeginCheckpoint, BeginFence, FinishRequest, stopLeaseHeartbeat
  <2>5. CASE BeginRelease(e) \/ ReleaseTestMapPlanLease(e)
    BY <2>5 DEF BeginRelease, ReleaseTestMapPlanLease
  <2> QED
    BY <1>3, <2>1, <2>2, <2>3, <2>4, <2>5 DEF ExecutorStep
<1>4. ASSUME NEW e \in Executors, Heartbeat(e) PROVE ReadingsInThePast'
  BY <1>4 DEF Heartbeat, HeartbeatFires, HeartbeatRenews
<1>5. ASSUME NEW e \in Executors, Crash(e) PROVE ReadingsInThePast'
  BY <1>5 DEF Crash
<1> QED
  BY <1>1, <1>2, <1>3, <1>4, <1>5 DEF Next

(* Every step of an executor, its heartbeat, a crash or the clock preserves *)
(* the inductive invariant of the lease.                                    *)
LEMMA LeaseInvStep == TypeOK /\ LeaseInv /\ [Next]_vars => LeaseInv'
<1> SUFFICES ASSUME TypeOK, LeaseInv, [Next]_vars
             PROVE  OwnerNotRetired' /\ ClaimantsAreNew' /\ HoldersKnow'
                    /\ OwnedPlanIsRunning'
  BY ReadingsStep DEF LeaseInv
<1> DEFINE Goal == OwnerNotRetired' /\ ClaimantsAreNew' /\ HoldersKnow'
                   /\ OwnedPlanIsRunning'
<1> USE ExecutorsAssumption, TimingAssumption
<1>1. CASE Tick
  <2>1. OwnerNotRetired' /\ ClaimantsAreNew' /\ OwnedPlanIsRunning'
    BY <1>1 DEF Tick, storeVars, LeaseInv, OwnerNotRetired, ClaimantsAreNew,
                OwnedPlanIsRunning, NoLease
  <2>2. HoldersKnow'
    BY <1>1 DEF Tick, storeVars, LeaseInv, HoldersKnow, Holding, TypeOK
  <2> QED
    BY <2>1, <2>2
<1>2. CASE UNCHANGED vars
  BY <1>2 DEF vars, LeaseInv, OwnerNotRetired, ClaimantsAreNew, HoldersKnow,
              Holding, OwnedPlanIsRunning, NoLease
<1>3. ASSUME NEW e \in Executors, SavePlan(e) PROVE Goal
  <2>1. lease = NoLease
    BY <1>3 DEF SavePlan, LeaseInv, OwnedPlanIsRunning
  <2>2. OwnerNotRetired' /\ OwnedPlanIsRunning'
    BY <1>3, <2>1 DEF SavePlan, LeaseInv, OwnerNotRetired, OwnedPlanIsRunning, NoLease
  <2>3. ClaimantsAreNew' /\ HoldersKnow'
    BY <1>3 DEF SavePlan, LeaseInv, ClaimantsAreNew, HoldersKnow, Holding, TypeOK,
                Before, Active
  <2> QED
    BY <2>2, <2>3
<1>4. ASSUME NEW e \in Executors,
             Start(e) \/ ClaimRead(e) \/ BeginCheckpoint(e) \/ BeginFence(e)
             \/ FinishRequest(e) \/ stopLeaseHeartbeat(e) \/ BeginRelease(e)
             \/ HeartbeatFires(e)
      PROVE  Goal
  <2>1. /\ UNCHANGED <<clock, lease, planStatus, retired, held, err>>
        /\ \A x \in Executors : x # e => pc'[x] = pc[x]
        /\ pc'[e] \in Before => pc[e] \in Before
        /\ pc'[e] \in Active \cup {"reset"} => pc[e] \in Active \cup {"reset"}
    BY <1>4 DEF Start, ClaimRead, BeginCheckpoint, BeginFence, FinishRequest,
                stopLeaseHeartbeat, BeginRelease, HeartbeatFires, storeVars,
                TypeOK, Before, Active
  <2> QED
    BY <2>1, LocalStepKeepsInv
<1>5. ASSUME NEW e \in Executors, ClaimCommit(e) PROVE Goal
  <2>0. /\ pc[e] = "inserting" /\ pc'[e] \notin Before
        /\ \A x \in Executors : x # e => pc'[x] = pc[x]
        /\ \A x \in Executors : x # e => held'[x] = held[x]
        /\ UNCHANGED <<clock, err>>
    BY <1>5 DEF ClaimCommit, TypeOK, Before
  <2>1. CASE UNCHANGED storeVars /\ pc'[e] = "refused"
    <3>1. OwnerNotRetired' /\ OwnedPlanIsRunning'
      BY <2>1 DEF storeVars, LeaseInv, OwnerNotRetired, OwnedPlanIsRunning, NoLease
    <3>2. ClaimantsAreNew'
      BY <2>0, <2>1 DEF storeVars, LeaseInv, ClaimantsAreNew
    <3>3. HoldersKnow'
      BY <2>0, <2>1 DEF storeVars, LeaseInv, HoldersKnow, Holding, Active
    <3> QED
      BY <3>1, <3>2, <3>3
  <2>2. CASE /\ replaceExpiredTestMapPlanLease(e)
             /\ lease' = [owner |-> e, expires |-> now[e] + LeaseDuration]
             /\ planStatus' = "running"
             /\ retired' = retired \cup ({lease.owner} \ {NoExecutor})
             /\ \/ held'[e] = now[e] + LeaseDuration
                \/ pc'[e] = "refused"
    <3>1. e \notin retired /\ lease.owner # e
      BY <2>0 DEF LeaseInv, ClaimantsAreNew, Before
    <3>2. OwnerNotRetired' /\ OwnedPlanIsRunning'
      BY <2>2, <3>1 DEF OwnerNotRetired, OwnedPlanIsRunning
    <3>3. ClaimantsAreNew'
      BY <2>0, <2>2 DEF LeaseInv, ClaimantsAreNew
    <3>4. ASSUME NEW x \in Executors, x # e, Holding(x)'
          PROVE  x \in retired' /\ held'[x] <= clock'
      <4>1. Holding(x)
        BY <2>0, <3>4 DEF Holding
      <4>2. CASE lease.owner = x /\ lease.expires = held[x]
        <5>1. lease # NoLease
          BY <4>2 DEF NoLease
        <5>2. lease.expires <= now[e] /\ now[e] <= clock
          BY <2>2, <5>1 DEF replaceExpiredTestMapPlanLease, LeaseInv, ReadingsInThePast
        <5> QED
          BY <2>0, <2>2, <3>4, <4>2, <5>2 DEF TypeOK, Leases
      <4>3. CASE x \in retired /\ held[x] <= clock
        BY <2>0, <2>2, <3>4, <4>3
      <4> QED
        BY <4>1, <4>2, <4>3 DEF LeaseInv, HoldersKnow
    <3>5. HoldersKnow'
      BY <2>2, <3>4 DEF HoldersKnow, Holding, Active
    <3> QED
      BY <3>2, <3>3, <3>5
  <2> QED
    BY <1>5, <2>1, <2>2 DEF ClaimCommit, TypeOK, storeVars
<1>6. ASSUME NEW e \in Executors,
             Reset(e) \/ Checkpoint(e) \/ fenceMapRunOwnership(e) \/ HeartbeatRenews(e)
      PROVE  Goal
  <2>1. PICK at \in {now[e], tick[e]}, w \in {e, writer} :
          RenewCommits(e, at, w) \/ RenewFails(e, at, w)
    BY <1>6 DEF Reset, Checkpoint, fenceMapRunOwnership, HeartbeatRenews
  <2>2. at \in Nat /\ w \in Executors \cup {NoExecutor}
    BY DEF TypeOK
  <2>3. /\ pc[e] \in Active \cup {"reset"}
        /\ pc[e] \notin Before /\ pc'[e] \notin Before
        /\ \A x \in Executors : x # e => pc'[x] = pc[x]
        /\ UNCHANGED clock
    BY <1>6 DEF Reset, Checkpoint, fenceMapRunOwnership, HeartbeatRenews, TypeOK,
                Active, Before
  <2> QED
    BY <2>1, <2>2, <2>3, RenewKeepsInv
<1>7. ASSUME NEW e \in Executors, ReleaseTestMapPlanLease(e) PROVE Goal
  <2>0. /\ pc'[e] \in {"done", "stopped"}
        /\ \A x \in Executors : x # e => pc'[x] = pc[x] /\ err'[x] = err[x]
        /\ UNCHANGED <<clock, held>>
    BY <1>7 DEF ReleaseTestMapPlanLease, TypeOK
  <2>1. CASE UNCHANGED storeVars
    <3>1. OwnerNotRetired' /\ OwnedPlanIsRunning'
      BY <2>1 DEF storeVars, LeaseInv, OwnerNotRetired, OwnedPlanIsRunning, NoLease
    <3>2. ClaimantsAreNew'
      BY <2>0, <2>1 DEF storeVars, LeaseInv, ClaimantsAreNew, Before
    <3>3. HoldersKnow'
      BY <2>0, <2>1 DEF storeVars, LeaseInv, HoldersKnow, Holding, Active
    <3> QED
      BY <3>1, <3>2, <3>3
  <2>2. CASE lease.owner = e /\ lease' = NoLease /\ retired' = retired \cup {e}
    <3>1. OwnerNotRetired' /\ OwnedPlanIsRunning'
      BY <2>2 DEF LeaseInv, OwnerNotRetired, OwnedPlanIsRunning, NoLease, TypeOK
    <3>2. ClaimantsAreNew'
      BY <2>0, <2>2 DEF LeaseInv, ClaimantsAreNew, Before, NoLease
    <3>3. HoldersKnow'
      BY <2>0, <2>2 DEF LeaseInv, HoldersKnow, Holding, Active
    <3> QED
      BY <3>1, <3>2, <3>3
  <2> QED
    BY <1>7, <2>1, <2>2 DEF ReleaseTestMapPlanLease, requireActiveTestMapPlanLease
<1>8. ASSUME NEW e \in Executors, Crash(e) PROVE Goal
  <2>0. /\ pc'[e] = "crashed"
        /\ \A x \in Executors : x # e =>
             pc'[x] = pc[x] /\ err'[x] = err[x] /\ held'[x] = held[x]
        /\ UNCHANGED <<clock, lease, planStatus, retired>>
    BY <1>8 DEF Crash, storeVars, TypeOK
  <2>1. OwnerNotRetired' /\ OwnedPlanIsRunning'
    BY <2>0 DEF LeaseInv, OwnerNotRetired, OwnedPlanIsRunning, NoLease
  <2>2. ClaimantsAreNew' /\ HoldersKnow'
    BY <2>0 DEF LeaseInv, ClaimantsAreNew, HoldersKnow, Holding, Active, Before
  <2> QED
    BY <2>1, <2>2
<1> QED
  BY <1>1, <1>2, <1>3, <1>4, <1>5, <1>6, <1>7, <1>8
  DEF Next, ExecutorStep, Heartbeat

(* LeaseInv is an invariant of the lease protocol. *)
THEOREM LeaseInvariant == Spec => []LeaseInv
BY TypeCorrect, LeaseInvInit, LeaseInvStep, PTL DEF Spec

(* An executor that still trusts its lease, because it met no error and its *)
(* own copy of the expiry is ahead of the clock, owns the plan in the Store.*)
THEOREM TrustedLeaseIsStored == Spec => []HeldLeaseIsStored
<1>1. TypeOK /\ LeaseInv => HeldLeaseIsStored
  <2> SUFFICES ASSUME TypeOK, LeaseInv, NEW e \in Executors, Holding(e), held[e] > clock
               PROVE  lease.owner = e
    BY DEF HeldLeaseIsStored
  <2>1. held[e] \in Nat /\ clock \in Nat
    BY DEF TypeOK
  <2> QED
    BY <2>1 DEF LeaseInv, HoldersKnow
<1> QED
  BY <1>1, TypeCorrect, LeaseInvariant, PTL

(* No late final write of an earlier owner closes a plan that another       *)
(* executor is working on.                                                  *)
THEOREM OwnedPlanStaysOpen == Spec => []OwnedPlanIsRunning
<1>1. LeaseInv => OwnedPlanIsRunning
  BY DEF LeaseInv
<1> QED
  BY <1>1, LeaseInvariant, PTL

(* The lease rows, read through lease.owner, implement fenced ownership:    *)
(* every committed transaction is an acquisition by an executor that never  *)
(* owned the plan, a write by its owner, its release, or no change at all.  *)
THEOREM LeaseRefinesOwnership == Spec => ImplementsFencedOwnership
<1> USE ExecutorsAssumption
<1>1. Init => Ownership!Init
  BY DEF Init, Ownership!Init, NoLease
<1>2. TypeOK /\ LeaseInv /\ [Next]_vars => [Ownership!Next]_(Ownership!vars)
  <2> SUFFICES ASSUME TypeOK, LeaseInv, [Next]_vars
               PROVE  [Ownership!Next]_(Ownership!vars)
    OBVIOUS
  <2> USE DEF Ownership!Next, Ownership!vars
  <2>1. CASE UNCHANGED <<lease, retired, writer>>
    BY <2>1
  <2>2. ASSUME NEW e \in Executors, NEW at, NEW w \in {e, writer},
               RenewCommits(e, at, w) \/ RenewFails(e, at, w)
        PROVE  [Ownership!Next]_(Ownership!vars)
    <3>1. CASE UNCHANGED <<lease, writer, retired>>
      BY <3>1
    <3>2. CASE lease.owner = e /\ lease'.owner = e /\ UNCHANGED retired /\ writer' = w
      BY <3>2 DEF Ownership!Write
    <3> QED
      BY <2>2, <3>1, <3>2 DEF RenewCommits, RenewFails, renewTestMapPlanLease,
                              requireActiveTestMapPlanLease
  <2>3. ASSUME NEW e \in Executors, ClaimCommit(e)
        PROVE  [Ownership!Next]_(Ownership!vars)
    <3>1. e \notin retired /\ lease.owner # e
      BY <2>3 DEF ClaimCommit, LeaseInv, ClaimantsAreNew, Before
    <3>2. CASE /\ lease' = [owner |-> e, expires |-> now[e] + LeaseDuration]
               /\ retired' = retired \cup ({lease.owner} \ {NoExecutor})
               /\ writer' = e
      BY <3>1, <3>2 DEF Ownership!Acquire
    <3> QED
      BY <2>1, <2>3, <3>2 DEF ClaimCommit, storeVars
  <2>4. ASSUME NEW e \in Executors, ReleaseTestMapPlanLease(e)
        PROVE  [Ownership!Next]_(Ownership!vars)
    <3>1. CASE /\ lease.owner = e /\ lease' = NoLease
               /\ writer' = e /\ retired' = retired \cup {e}
      BY <3>1 DEF Ownership!Release, NoLease
    <3> QED
      BY <2>1, <2>4, <3>1 DEF ReleaseTestMapPlanLease, storeVars,
                              requireActiveTestMapPlanLease
  <2>5. CASE Tick \/ UNCHANGED vars
    BY <2>1, <2>5 DEF Tick, vars, storeVars
  <2>6. ASSUME NEW e \in Executors,
               SavePlan(e) \/ Start(e) \/ ClaimRead(e) \/ BeginCheckpoint(e)
               \/ BeginFence(e) \/ FinishRequest(e) \/ stopLeaseHeartbeat(e)
               \/ BeginRelease(e) \/ HeartbeatFires(e) \/ Crash(e)
        PROVE  [Ownership!Next]_(Ownership!vars)
    BY <2>1, <2>6 DEF SavePlan, Start, ClaimRead, BeginCheckpoint, BeginFence,
       FinishRequest, stopLeaseHeartbeat, BeginRelease, HeartbeatFires, Crash, storeVars
  <2>7. ASSUME NEW e \in Executors,
               Reset(e) \/ Checkpoint(e) \/ fenceMapRunOwnership(e) \/ HeartbeatRenews(e)
        PROVE  [Ownership!Next]_(Ownership!vars)
    BY <2>2, <2>7 DEF Reset, Checkpoint, fenceMapRunOwnership, HeartbeatRenews
  <2> QED
    BY <2>3, <2>4, <2>5, <2>6, <2>7 DEF Next, ExecutorStep, Heartbeat
<1> QED
  BY <1>1, <1>2, TypeCorrect, LeaseInvariant, PTL
  DEF Spec, ImplementsFencedOwnership, Ownership!Spec

-----------------------------------------------------------------------------
(* Timing: why the heartbeat is enough in a healthy system.                 *)

(* In a healthy system an executor that has claimed owns an unexpired row;  *)
(* the row outlives the next firing of its ticker, unless the ticker has    *)
(* just fired and the renewal is due in this very clock unit.               *)
PromptExecutor(e) ==
  /\ ~err[e] /\ pc[e] \notin {"stopped", "crashed"}
  /\ pc[e] \in {"claiming", "inserting", "reset", "checkpointing", "fencing", "releasing"}
       => now[e] = clock
  /\ pc[e] \in Active \cup {"reset"} => lease.owner = e /\ lease.expires > clock
  /\ pc[e] \in Active \ {"releasing"} =>
       /\ clock <= beat[e] /\ beat[e] <= clock + HeartbeatInterval
       /\ tick[e] \in {NoTick, clock}
       /\ tick[e] = NoTick => lease.expires > beat[e]
  /\ pc[e] \in Before \cup {"reset"} => tick[e] = NoTick

HealthyInv == Healthy => \A e \in Executors : PromptExecutor(e)

(* Between prompt processes every holder's stored expiry stays beyond its   *)
(* next heartbeat, and so beyond the clock.                                 *)
LEMMA HealthyInvStep == TypeOK /\ HealthyInv /\ [Next]_vars => HealthyInv'
<1> SUFFICES ASSUME TypeOK, HealthyInv, [Next]_vars, Healthy, NEW x \in Executors
             PROVE  PromptExecutor(x)'
  BY DEF HealthyInv
<1> DEFINE Goal == PromptExecutor(x)'
<1> USE ExecutorsAssumption, TimingAssumption
<1>0. \A e \in Executors : PromptExecutor(e)
  BY DEF HealthyInv
<1>1. CASE Tick
  <2>1. Prompt(x)
    BY <1>1 DEF Tick
  <2>2. PromptExecutor(x)
    BY <1>0
  <2> QED
    BY <1>0, <1>1, <2>1, <2>2
    DEF Tick, Prompt, PromptExecutor, storeVars, TypeOK, Leases, Active, Ended, Before, NoTick
<1>2. CASE UNCHANGED vars
  BY <1>0, <1>2 DEF vars, PromptExecutor, NoTick
<1>3. ASSUME NEW e \in Executors,
             SavePlan(e) \/ Start(e) \/ ClaimRead(e) \/ BeginCheckpoint(e) \/ BeginFence(e)
             \/ FinishRequest(e) \/ stopLeaseHeartbeat(e) \/ BeginRelease(e)
      PROVE  Goal
  <2>1. PromptExecutor(x) /\ PromptExecutor(e)
    BY <1>0
  <2> QED
    BY <1>0, <1>3, <2>1 DEF PromptExecutor, SavePlan, Start, ClaimRead, BeginCheckpoint,
      BeginFence, FinishRequest, stopLeaseHeartbeat, BeginRelease, storeVars,
      TypeOK, Active, Before, Ended, NoTick
<1>4. ASSUME NEW e \in Executors, HeartbeatFires(e) PROVE Goal
  <2>1. PromptExecutor(x) /\ PromptExecutor(e)
    BY <1>0
  <2> QED
    BY <1>0, <1>4, <2>1 DEF PromptExecutor, HeartbeatFires, storeVars, TypeOK, Leases,
      Active, Before, NoTick
<1>5. ASSUME NEW e \in Executors, ClaimCommit(e) PROVE Goal
  <2>1. PromptExecutor(x) /\ PromptExecutor(e)
    BY <1>0
  <2>2. pc[e] = "inserting" /\ now[e] = clock
    BY <1>5, <2>1 DEF ClaimCommit, PromptExecutor
  <2>3. CASE x # e
    <3>1. /\ pc'[x] = pc[x] /\ now'[x] = now[x] /\ err'[x] = err[x] /\ tick'[x] = tick[x]
          /\ beat'[x] = beat[x] /\ clock' = clock
      BY <1>5, <2>3 DEF ClaimCommit, TypeOK
    <3>2. CASE pc[x] \in Active \cup {"reset"}
      <4>1. lease.owner = x /\ lease.expires > clock /\ lease # NoLease
        BY <2>1, <3>2 DEF PromptExecutor, NoLease
      <4>2. ~replaceExpiredTestMapPlanLease(e)
        BY <2>2, <4>1 DEF replaceExpiredTestMapPlanLease, TypeOK, Leases
      <4>3. UNCHANGED lease
        BY <1>5, <4>2 DEF ClaimCommit, storeVars
      <4> QED
        BY <2>1, <3>1, <4>3 DEF PromptExecutor, NoTick
    <3>3. CASE pc[x] \notin Active \cup {"reset"}
      BY <2>1, <3>1, <3>3 DEF PromptExecutor, NoTick
    <3> QED
      BY <3>2, <3>3
  <2>4. CASE x = e
    <3>1. CASE pc'[e] = "refused"
      BY <1>5, <2>1, <2>2, <2>4, <3>1 DEF ClaimCommit, PromptExecutor, Active, Before, TypeOK
    <3>2. CASE /\ lease' = [owner |-> e, expires |-> now[e] + LeaseDuration]
               /\ pc' = [pc EXCEPT ![e] = IF creator = e THEN "idle" ELSE "reset"]
               /\ now' = [now EXCEPT ![e] = IF creator = e THEN 0 ELSE @]
               /\ beat' = [beat EXCEPT ![e] = clock + HeartbeatInterval]
      <4>1. UNCHANGED <<clock, err, tick>> /\ tick[e] = NoTick /\ ~err[e]
        BY <1>5, <2>1, <2>2 DEF ClaimCommit, PromptExecutor, Before
      <4> QED
        BY <2>2, <2>4, <3>2, <4>1 DEF PromptExecutor, Active, Before, TypeOK, NoTick
    <3> QED
      BY <1>5, <3>1, <3>2 DEF ClaimCommit, TypeOK
  <2> QED
    BY <2>3, <2>4
<1>6. ASSUME NEW e \in Executors,
             Reset(e) \/ Checkpoint(e) \/ fenceMapRunOwnership(e) \/ HeartbeatRenews(e)
      PROVE  Goal
  <2>1. PromptExecutor(x) /\ PromptExecutor(e)
    BY <1>0
  <2>2. lease.owner = e /\ lease.expires > clock /\ ~err[e]
    BY <1>6, <2>1 DEF Reset, Checkpoint, fenceMapRunOwnership, HeartbeatRenews,
                      PromptExecutor, Active
  <2>3. /\ Reset(e) \/ Checkpoint(e) \/ fenceMapRunOwnership(e) => now[e] = clock
        /\ HeartbeatRenews(e) => tick[e] = clock
    BY <2>1 DEF Reset, Checkpoint, fenceMapRunOwnership, HeartbeatRenews,
                PromptExecutor, Active
  <2>4. \A w : ~RenewFails(e, clock, w)
    BY <2>2 DEF RenewFails, requireActiveTestMapPlanLease
  <2>5. /\ lease' = [owner |-> e, expires |-> clock + LeaseDuration]
        /\ UNCHANGED <<clock, err>>
    BY <1>6, <2>3, <2>4 DEF Reset, Checkpoint, fenceMapRunOwnership, HeartbeatRenews,
                            RenewCommits, renewTestMapPlanLease
  <2>6. CASE x # e
    <3>1. pc[x] \notin Active \cup {"reset"}
      BY <2>1, <2>2, <2>6 DEF PromptExecutor
    <3>2. /\ pc'[x] = pc[x] /\ now'[x] = now[x] /\ tick'[x] = tick[x]
      BY <1>6, <2>6 DEF Reset, Checkpoint, fenceMapRunOwnership, HeartbeatRenews, TypeOK
    <3> QED
      BY <2>1, <2>5, <3>1, <3>2 DEF PromptExecutor, NoTick
  <2>7. CASE x = e
    <3>1. CASE Reset(e)
      <4>1. pc' = [pc EXCEPT ![e] = "idle"]
            /\ beat' = [beat EXCEPT ![e] = clock + HeartbeatInterval] /\ UNCHANGED tick
        BY <2>3, <2>4, <3>1 DEF Reset
      <4>2. tick[e] = NoTick
        BY <2>1, <3>1 DEF Reset, PromptExecutor
      <4> QED
        BY <2>2, <2>5, <2>7, <4>1, <4>2 DEF PromptExecutor, TypeOK, Active, Before, NoTick
    <3>2. CASE Checkpoint(e) \/ fenceMapRunOwnership(e)
      <4>1. pc'[e] \in {"idle", "request"} /\ UNCHANGED <<tick, beat>>
            /\ pc[e] \in Active \ {"releasing"}
        BY <3>2 DEF Checkpoint, fenceMapRunOwnership, TypeOK, Active
      <4> QED
        BY <2>1, <2>2, <2>5, <2>7, <4>1 DEF PromptExecutor, TypeOK, Active, Before, NoTick
    <3>3. CASE HeartbeatRenews(e)
      <4>1. /\ UNCHANGED <<pc, beat, now>> /\ tick' = [tick EXCEPT ![e] = NoTick]
            /\ pc[e] \in Active \ {"checkpointing", "releasing"}
        BY <3>3 DEF HeartbeatRenews
      <4> QED
        BY <2>1, <2>2, <2>5, <2>7, <4>1 DEF PromptExecutor, TypeOK, Active, Before, NoTick
    <3> QED
      BY <1>6, <3>1, <3>2, <3>3
  <2> QED
    BY <2>6, <2>7
<1>7. ASSUME NEW e \in Executors, ReleaseTestMapPlanLease(e) PROVE Goal
  <2>1. PromptExecutor(x) /\ PromptExecutor(e)
    BY <1>0
  <2>2. lease.owner = e /\ lease.expires > clock /\ now[e] = clock
    BY <1>7, <2>1 DEF ReleaseTestMapPlanLease, PromptExecutor, Active
  <2>3. pc' = [pc EXCEPT ![e] = "done"] /\ UNCHANGED <<clock, err, tick, beat>>
    BY <1>7, <2>2 DEF ReleaseTestMapPlanLease, requireActiveTestMapPlanLease
  <2>4. CASE x # e
    <3>1. pc[x] \notin Active \cup {"reset"}
      BY <2>1, <2>2, <2>4 DEF PromptExecutor
    <3>2. pc'[x] = pc[x] /\ now'[x] = now[x]
      BY <1>7, <2>3, <2>4 DEF ReleaseTestMapPlanLease, TypeOK
    <3> QED
      BY <2>1, <2>3, <3>1, <3>2 DEF PromptExecutor, NoTick
  <2>5. CASE x = e
    BY <2>1, <2>3, <2>5 DEF PromptExecutor, TypeOK, Active, Before
  <2> QED
    BY <2>4, <2>5
<1>8. ASSUME NEW e \in Executors, Crash(e) PROVE Goal
  BY <1>8 DEF Crash
<1> QED
  BY <1>1, <1>2, <1>3, <1>4, <1>5, <1>6, <1>7, <1>8
  DEF Next, ExecutorStep, Heartbeat

(* With a heartbeat interval below the lease duration, and processes and a  *)
(* Store that answer within a clock unit, no executor ever loses its lease  *)
(* or stops on a lease error, however long its requests take.               *)
THEOREM HeartbeatSuffices == Spec => []HealthyExecutorKeepsLease
<1>1. Init => HealthyInv
  BY TimingAssumption DEF Init, HealthyInv, PromptExecutor, Active, Before
<1>2. HealthyInv => HealthyExecutorKeepsLease
  BY DEF HealthyInv, PromptExecutor, HealthyExecutorKeepsLease
<1> QED
  BY <1>1, <1>2, HealthyInvStep, TypeCorrect, PTL DEF Spec

=============================================================================
