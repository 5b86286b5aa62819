---------------------------- MODULE LeaseLifecycle ----------------------------
(***************************************************************************)
(* What the owner of a lease may rely on, whatever the operator does to    *)
(* get there: one lease changes at a time; a waiting lease collects pools  *)
(* and networks, or gives back all of them at once; it reports Fulfilled   *)
(* only when it has what it asked for and Failed only when it has nothing; *)
(* after that, and from the moment its deletion is requested, what it has  *)
(* does not change any more until all of it goes away with the lease.      *)
(***************************************************************************)
EXTENDS Naturals, FiniteSets

CONSTANTS
    Leases,     \* the names of the leases
    Wanted      \* how many pools, and how many networks at least, each asks for

VARIABLE
    lease       \* of each lease: its phase ("Uncreated" before and "Gone" after its
                \* life), the pools and networks it owns, and whether it is ending

Living == {"", "Pending", "Partial", "Fulfilled", "Failed"}

Nothing(phase) == [phase |-> phase, pools |-> {}, nets |-> {}, ending |-> FALSE]

Init == lease = [l \in Leases |-> Nothing("Uncreated")]

----------------------------------------------------------------------------
(* The steps of one lease, from old to new.                                *)

Waiting(old) == old.phase \in {"Pending", "Partial"} /\ ~old.ending
Holds(old) == old.pools # {} \/ old.nets # {}

Create(old, new) == old.phase = "Uncreated" /\ new = Nothing("")
Accept(old, new) == old.phase = "" /\ new = [old EXCEPT !.phase = "Pending"]

Acquire(old, new) ==
    /\ Waiting(old)
    /\ old.pools \subseteq new.pools /\ old.nets \subseteq new.nets
    /\ new = [old EXCEPT !.pools = new.pools, !.nets = new.nets]

\* A lease that gives everything back is as good as new.  The operator may say so, and
\* call it Pending, or go on calling it Partial.
Release(old, new) == Waiting(old) /\ new \in {Nothing(old.phase), Nothing("Pending")}

ReportPartial(old, new) ==
    /\ Waiting(old) /\ old.pools # {} /\ old.nets # {}
    /\ new = [old EXCEPT !.phase = "Partial"]

ReportFulfilled(old, new, wanted) ==
    /\ Waiting(old)
    /\ Cardinality(old.pools) = wanted.pools /\ Cardinality(old.nets) >= wanted.networks
    /\ new = [old EXCEPT !.phase = "Fulfilled"]

ReportFailed(old, new) == Waiting(old) /\ ~Holds(old) /\ new = [old EXCEPT !.phase = "Failed"]

RequestDeletion(old, new) == old.phase \in Living /\ new = [old EXCEPT !.ending = TRUE]

\* A lease the operator has not taken in goes away at once, the others when the
\* operator lets them go.
Remove(old, new) ==
    /\ old.phase \in Living
    /\ old.ending \/ (old.phase \in {"", "Pending"} /\ ~Holds(old))
    /\ new = Nothing("Gone")

\* One lease changes.
Next ==
    /\ lease' # lease
    /\ \E l \in Leases :
        LET old == lease[l]
            new == lease'[l]
        IN  /\ lease' = [lease EXCEPT ![l] = new]
            /\ \/ Create(old, new) \/ Accept(old, new)
               \/ Acquire(old, new) \/ Release(old, new)
               \/ ReportPartial(old, new) \/ ReportFulfilled(old, new, Wanted[l]) \/ ReportFailed(old, new)
               \/ RequestDeletion(old, new) \/ Remove(old, new)

Spec == Init /\ [][Next]_lease
============================================================================
