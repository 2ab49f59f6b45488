---------------------------- MODULE WorkOrderRows ----------------------------
(***************************************************************************)
(* One row of the WorkOrders table of FieldOps and the change each method   *)
(* of EfWorkOrderDirectory makes to the row it has loaded.  Everything here *)
(* is a function of a row: who may ask, when the row was read and when it   *)
(* is written is the business of the modules that extend this one.          *)
(*                                                                         *)
(* Titles are left out, and the list of evidence notes is a set.            *)
(***************************************************************************)
CONSTANTS
    WorkOrderIds,   \* the identities the IDENTITY column can hand out
    Organizations,  \* tenants
    Employees,      \* employees of every organization
    Admins,         \* the employees whose role is Admin
    EmployeeOrg,    \* the organization of each employee
    Customers,      \* customers of every organization
    CustomerOrg,    \* the organization of each customer
    Notes,          \* evidence notes
    None            \* SQL NULL

ASSUME RowAssumption ==
    /\ Admins \subseteq Employees
    /\ EmployeeOrg \in [Employees -> Organizations]
    /\ CustomerOrg \in [Customers -> Organizations]
    /\ Employees \intersect Customers = {}
    /\ None \notin Employees \union Customers \union Organizations \union WorkOrderIds

(* "Absent" is no value of the enum: it marks an identity not handed out.   *)
Statuses == {"Open", "Assigned", "InProgress", "Completed"}

Row == [status   : Statuses \union {"Absent"},
        org      : Organizations \union {None},
        customer : Customers \union {None},
        assignee : Employees \union {None},
        notes    : SUBSET Notes,
        approved : BOOLEAN]

AbsentRow == [status |-> "Absent", org |-> None, customer |-> None,
              assignee |-> None, notes |-> {}, approved |-> FALSE]

NewRow(org, customer) ==
    [AbsentRow EXCEPT !.status = "Open", !.org = org, !.customer = customer]

Exists(row) == row.status # "Absent"

(***************************************************************************)
(* The state machine: what each method requires of the row it loaded, and   *)
(* the row it leaves in the change tracker.                                  *)
(***************************************************************************)
Assignable(row)     == row.status = "Open"
AssignTo(row, e)    == [row EXCEPT !.status = "Assigned", !.assignee = e]

Startable(row)      == row.status = "Assigned"
Started(row)        == [row EXCEPT !.status = "InProgress"]

Completable(row)    == row.status = "InProgress"
Completed(row)      == [row EXCEPT !.status = "Completed"]

Reassignable(row)   == row.status \in {"Assigned", "InProgress"}
ReassignTo(row, e)  == [row EXCEPT !.assignee = e]

Unassignable(row)   == row.status \in {"Assigned", "InProgress"}
\* Faulty: the assignee stays on the row.
UnassignedKeepsAssignee(row) == [row EXCEPT !.status = "Open"]
Unassigned(row)     == [row EXCEPT !.status = "Open", !.assignee = None]

Reopenable(row)     == row.status = "Completed"
Reopened(row)       == [row EXCEPT !.status = "InProgress"]

TakesEvidence(row)  == Exists(row) /\ row.status # "Open"
WithNote(row, n)    == [row EXCEPT !.notes = @ \union {n}]

\* Faulty: anything that has been started can be approved.
ApprovableOnceStarted(row) == row.status \in {"InProgress", "Completed"}
Approvable(row)     == row.status = "Completed"
Approved(row)       == [row EXCEPT !.approved = TRUE]
=============================================================================
