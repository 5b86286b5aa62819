------------------------------ MODULE Conditions ------------------------------
(***************************************************************************)
(* The status conditions of a lease (pkg/utils/conditions).  Reasons,      *)
(* messages and transition times are left out, and so is the Delayed       *)
(* condition, which repeats what shouldLeaseBeDelayed answered last: a     *)
(* lease's conditions are the set of the other types whose status is True. *)
(* A type that was never set and one set to False are not told apart.      *)
(***************************************************************************)

ConditionTypes == {"Fulfilled", "Pending", "Partial"}

\* conditions.Set with a TrueCondition for each type in trues and a FalseCondition
\* for each in falses; the types are different, so that the order of the calls
\* makes no difference, and every other condition stays.
Set(conds, trues, falses) == (conds \ falses) \cup trues
============================================================================
