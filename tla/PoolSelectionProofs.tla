------------------------ MODULE PoolSelectionProofs -------------------------
(***************************************************************************)
(* Lemmas about the operators of PoolSelection, for every inventory and    *)
(* every lease: what a pick of GetPoolWithStrategy does to the vCenters of *)
(* the pools a lease has.                                                  *)
(***************************************************************************)
EXTENDS PoolSelection, FiniteSetTheorems, TLAPS

----------------------------------------------------------------------------
(* The vCenters of a set of pools.                                         *)

\* GetVCentersInUse of a finite set of pools is finite.
LEMMA VCentersFinite ==
    ASSUME NEW S, IsFiniteSet(S)
    PROVE  IsFiniteSet(GetVCentersInUse(S)) /\ Cardinality(GetVCentersInUse(S)) \in Nat
<1> DEFINE T == GetVCentersInUse(S)
           f == [p \in S |-> Server(p)]
<1>1. f \in Surjection(S, T)
  BY DEF Surjection, GetVCentersInUse
<1>2. IsFiniteSet(T)
  <2> HIDE DEF f
  <2> QED BY <1>1, FS_Surjection
<1> QED BY <1>2, FS_CardinalityType

\* Adding a pool adds its vCenter, a new one or one already in use.
LEMMA VCentersAdd ==
    ASSUME NEW S, IsFiniteSet(S), NEW p
    PROVE  /\ GetVCentersInUse(S \cup {p}) = GetVCentersInUse(S) \cup {Server(p)}
           /\ Cardinality(GetVCentersInUse(S \cup {p})) =
                IF Server(p) \in GetVCentersInUse(S) THEN Cardinality(GetVCentersInUse(S))
                                                     ELSE Cardinality(GetVCentersInUse(S)) + 1
<1>1. GetVCentersInUse(S \cup {p}) = GetVCentersInUse(S) \cup {Server(p)}
  BY DEF GetVCentersInUse
<1> QED BY <1>1, VCentersFinite, FS_AddElement

\* The empty set of pools is within every lease's bounds.
LEMMA EmptyWithinBounds ==
    ASSUME NEW l, l.vcenters \in Nat, l.minVCenters \in Nat
    PROVE  WithinVCenterBounds(l, {})
<1>1. GetVCentersInUse({}) = {}
  BY DEF GetVCentersInUse
<1> QED BY <1>1, FS_EmptySet DEF WithinVCenterBounds

\* A pick of GetPoolWithStrategy keeps the assigned pools within the bounds: while
\* the minimum is pending it is on a new vCenter, at the cap it is on one in use.
LEMMA PickWithinBounds ==
    ASSUME NEW l, l.vcenters \in Nat, l.minVCenters \in Nat,
           NEW S, IsFiniteSet(S), WithinVCenterBounds(l, S),
           NEW A, NEW cord, NEW fr,
           NEW excluded \in ExcludedVCenters(l, S, A, cord, fr),
           NEW p \in GetPoolWithStrategy(l, S, A, cord, fr, excluded,
                                         GetDiversityExcludedVCenters(l, S))
    PROVE  WithinVCenterBounds(l, S \cup {p})
<1> DEFINE V == GetVCentersInUse(S)
           n == Cardinality(V)
<1>1. /\ p \in A /\ p \notin S
      /\ Server(p) \notin excluded
      /\ Server(p) \notin GetDiversityExcludedVCenters(l, S)
  BY DEF GetPoolWithStrategy, GetFittingPools
<1>2. /\ n \in Nat /\ Cardinality(S) \in Nat
      /\ Cardinality(S \cup {p}) = Cardinality(S) + 1
      /\ Cardinality(GetVCentersInUse(S \cup {p})) = IF Server(p) \in V THEN n ELSE n + 1
  BY <1>1, VCentersFinite, VCentersAdd, FS_AddElement, FS_CardinalityType
<1>3. CASE CapReached(l, S)
  <2>1. l.vcenters # 0
    BY <1>3 DEF CapReached
  <2>2. excluded = GetVCentersInUse(A) \ V
    BY <1>3, <2>1 DEF ExcludedVCenters
  <2>3. Server(p) \in GetVCentersInUse(A)
    BY <1>1 DEF GetVCentersInUse
  <2>4. Server(p) \in V
    BY <1>1, <2>2, <2>3
  <2>5. ~DiversityPending(l, S)
    BY <1>1, <2>4 DEF GetDiversityExcludedVCenters
  <2> QED BY <1>2, <2>4, <2>5 DEF WithinVCenterBounds, DiversityPending
<1>4. CASE ~CapReached(l, S)
  <2>1. l.vcenters > 0 => n + 1 <= l.vcenters
    BY <1>2, <1>4 DEF CapReached
  <2>2. CASE DiversityPending(l, S)
    <3>1. Server(p) \notin V
      BY <1>1, <2>2 DEF GetDiversityExcludedVCenters
    <3> QED BY <1>2, <2>1, <2>2, <3>1 DEF WithinVCenterBounds, DiversityPending
  <2>3. CASE ~DiversityPending(l, S)
    <3>1. n >= l.minVCenters
      BY <1>2, <2>3 DEF DiversityPending
    <3> QED BY <1>2, <2>1, <3>1 DEF WithinVCenterBounds
  <2> QED BY <2>2, <2>3
<1> QED BY <1>3, <1>4
============================================================================
