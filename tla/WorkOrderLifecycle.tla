-------------------------- MODULE WorkOrderLifecycle --------------------------
(***************************************************************************)
(* What the work order module promises its callers: every work order moves  *)
(* through one state machine, one whole transition at a time, whatever the  *)
(* number of callers.  Open -> Assigned -> InProgress -> Completed, with     *)
(* reassignment, unassignment, reopening, evidence and customer approval.   *)
(***************************************************************************)
EXTENDS WorkOrderRows

VARIABLE rows   \* rows[w] is the row of work order w

Change(w, row) == rows' = [rows EXCEPT ![w] = row]

Create(w, org, c) ==
    /\ ~Exists(rows[w])
    /\ c # None => CustomerOrg[c] = org
    /\ Change(w, NewRow(org, c))

Assign(w, e) ==
    /\ Assignable(rows[w])
    /\ EmployeeOrg[e] = rows[w].org
    /\ Change(w, AssignTo(rows[w], e))

Reassign(w, e) ==
    /\ Reassignable(rows[w])
    /\ EmployeeOrg[e] = rows[w].org
    /\ Change(w, ReassignTo(rows[w], e))

Unassign(w)       == Unassignable(rows[w]) /\ Change(w, Unassigned(rows[w]))
Start(w)          == Startable(rows[w]) /\ Change(w, Started(rows[w]))
Complete(w)       == Completable(rows[w]) /\ Change(w, Completed(rows[w]))
Reopen(w)         == Reopenable(rows[w]) /\ Change(w, Reopened(rows[w]))
AddEvidence(w, n) == TakesEvidence(rows[w]) /\ Change(w, WithNote(rows[w], n))

Approve(w) ==
    /\ Approvable(rows[w])
    /\ rows[w].customer # None
    /\ Change(w, Approved(rows[w]))

Step(w) ==
    \/ \E org \in Organizations, c \in Customers \union {None} : Create(w, org, c)
    \/ \E e \in Employees : Assign(w, e) \/ Reassign(w, e)
    \/ Unassign(w) \/ Start(w) \/ Complete(w) \/ Reopen(w) \/ Approve(w)
    \/ \E n \in Notes : AddEvidence(w, n)

Init == rows = [w \in WorkOrderIds |-> AbsentRow]
Next == \E w \in WorkOrderIds : Step(w)
Spec == Init /\ [][Next]_rows
=============================================================================
