------------------------ MODULE PoolAssignmentProofs ------------------------
(***************************************************************************)
(* Proofs about PoolAssignment, for every inventory, lease specification   *)
(* and history of the other leases: type correctness, the vCenter bounds   *)
(* and the all-or-nothing rule.                                            *)
(***************************************************************************)
EXTENDS PoolAssignment, PoolSelectionProofs

----------------------------------------------------------------------------
(* Type correctness.                                                       *)

\* A pick is a pool that is not assigned yet.
LEMMA PickIsPool ==
    ASSUME NEW excluded, NEW p \in Candidates(excluded)
    PROVE  p \in Pools /\ p \notin assigned
BY DEF Candidates, GetPoolWithStrategy, GetFittingPools, available

\* Every step of Next keeps the types, whatever the constants.
LEMMA TypeStep == TypeOK /\ [Next]_vars => TypeOK'
<1> SUFFICES ASSUME TypeOK, [Next]_vars PROVE TypeOK'
  OBVIOUS
<1> USE DEF TypeOK, Phases
<1>1. ASSUME NEW p \in Pools, OtherLeases(p) PROVE TypeOK'
  BY <1>1 DEF OtherLeases
<1>2. ASSUME NEW p \in Pools, SetNoSchedule(p) PROVE TypeOK'
  BY <1>2 DEF SetNoSchedule
<1>3. CASE Start
  BY <1>3 DEF Start
<1>4. CASE Fail
  BY <1>4 DEF Fail
<1>5. CASE AssignPool
  <2>a. PICK excluded \in Exclusions :
            \E p \in Candidates(excluded) : assigned' = assigned \cup {p}
    BY <1>5 DEF AssignPool
  <2>b. PICK p \in Candidates(excluded) : assigned' = assigned \cup {p}
    BY <2>a
  <2> QED BY <1>5, <2>b, PickIsPool DEF AssignPool
<1>6. CASE ReleasePools
  BY <1>6 DEF ReleasePools, EndReconcile
<1>7. CASE WaitPartial
  BY <1>7 DEF WaitPartial, EndReconcile
<1>8. CASE NoPool
  BY <1>8 DEF NoPool, EndReconcile
<1>9. CASE Complete
  BY <1>9 DEF Complete, EndReconcile
<1>10. CASE Abort
  BY <1>10 DEF Abort, EndReconcile
<1>11. CASE UNCHANGED vars
  BY <1>11 DEF vars
<1> QED BY <1>1, <1>2, <1>3, <1>4, <1>5, <1>6, <1>7, <1>8, <1>9, <1>10, <1>11
        DEF Next, Reconcile, Iteration

\* The variables of the assignment loop of leases.go always have their types, and
\* a reconcile works on a superset of what is persisted.
THEOREM TypeCorrect == Spec => []TypeOK
<1>1. Init => TypeOK
  BY DEF Init, TypeOK, Phases
<1> QED BY <1>1, TypeStep, PTL DEF Spec

----------------------------------------------------------------------------
(* The vCenter bounds.                                                     *)

\* Every step keeps the persisted and the working set within the bounds.
LEMMA BoundsStep == TypeOK /\ TypeOK' /\ VCenterBounds /\ [Next]_vars => VCenterBounds'
<1> SUFFICES ASSUME TypeOK, TypeOK', VCenterBounds, [Next]_vars PROVE VCenterBounds'
  OBVIOUS
<1> USE DEF VCenterBounds
<1>1. /\ lease.vcenters \in Nat /\ lease.minVCenters \in Nat
      /\ WithinVCenterBounds(lease, {})
  BY LeaseSpecType, EmptyWithinBounds DEF TypeOK
<1>2. IsFiniteSet(assigned)
  BY PoolsFinite, FS_Subset DEF TypeOK
<1>3. ASSUME NEW p \in Pools, OtherLeases(p) \/ SetNoSchedule(p) PROVE VCenterBounds'
  BY <1>3 DEF OtherLeases, SetNoSchedule
<1>4. CASE Start
  BY <1>4 DEF Start
<1>5. CASE Fail
  BY <1>1, <1>5 DEF Fail
<1>6. CASE AssignPool
  <2>a. PICK excluded \in Exclusions :
            \E p \in Candidates(excluded) : assigned' = assigned \cup {p}
    BY <1>6 DEF AssignPool
  <2>b. PICK p \in Candidates(excluded) : assigned' = assigned \cup {p}
    BY <2>a
  <2>1. WithinVCenterBounds(lease, assigned \cup {p})
    BY <1>1, <1>2, PickWithinBounds DEF Exclusions, Candidates
  <2> QED BY <1>6, <2>b, <2>1 DEF AssignPool
<1>7. CASE ReleasePools
  BY <1>1, <1>7 DEF ReleasePools, EndReconcile
<1>8. CASE WaitPartial
  BY <1>1, <1>8 DEF WaitPartial, EndReconcile
<1>9. CASE NoPool
  BY <1>1, <1>9 DEF NoPool, EndReconcile
<1>10. CASE Complete
  BY <1>1, <1>10 DEF Complete, EndReconcile
<1>11. CASE Abort
  BY <1>1, <1>11 DEF Abort, EndReconcile
<1>12. CASE UNCHANGED vars
  BY <1>12 DEF vars
<1> QED BY <1>3, <1>4, <1>5, <1>6, <1>7, <1>8, <1>9, <1>10, <1>11, <1>12
        DEF Next, Reconcile, Iteration

\* A lease never spans more vCenters than its cap, nor piles its pools on fewer
\* than its minimum, in any history of the loop of leases.go.
THEOREM BoundsHold == Spec => []VCenterBounds
<1>1. Init => VCenterBounds
  BY LeaseSpecType, EmptyWithinBounds DEF Init, VCenterBounds
<1> QED BY <1>1, TypeCorrect, BoundsStep, PTL DEF Spec

----------------------------------------------------------------------------
(* All or nothing.                                                         *)

\* A lease without vCenter constraints holds all its pools or none: the loop of
\* leases.go persists a partial assignment only for a constrained lease.
THEOREM AllOrNothingHolds == Spec => []AllOrNothing
<1>1. Init => AllOrNothing
  BY DEF Init, AllOrNothing
<1>2. TypeOK /\ AllOrNothing /\ [Next]_vars => AllOrNothing'
  <2> SUFFICES ASSUME TypeOK, AllOrNothing, [Next]_vars PROVE AllOrNothing'
    OBVIOUS
  <2> USE DEF AllOrNothing
  <2>1. ASSUME NEW p \in Pools, OtherLeases(p) \/ SetNoSchedule(p) PROVE AllOrNothing'
    BY <2>1 DEF OtherLeases, SetNoSchedule
  <2>2. CASE Start \/ AssignPool
    BY <2>2 DEF Start, AssignPool
  <2>3. CASE Fail
    BY <2>3 DEF Fail
  <2>4. CASE ReleasePools \/ WaitPartial \/ NoPool \/ Abort
    BY <2>4 DEF ReleasePools, WaitPartial, NoPool, Abort, EndReconcile
  <2>5. CASE Complete
    <3>1. requiredPools(lease) \in Nat /\ Cardinality(assigned) \in Nat
      BY LeaseSpecType, PoolsFinite, FS_Subset, FS_CardinalityType DEF TypeOK, requiredPools
    <3> QED BY <2>5, <3>1 DEF Complete, Incomplete, EndReconcile
  <2>6. CASE UNCHANGED vars
    BY <2>6 DEF vars
  <2> QED BY <2>1, <2>2, <2>3, <2>4, <2>5, <2>6 DEF Next, Reconcile, Iteration
<1> QED BY <1>1, <1>2, TypeCorrect, PTL DEF Spec
============================================================================
