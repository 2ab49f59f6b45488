------------------------------ MODULE WorkOrders ------------------------------
(***************************************************************************)
(* The work order endpoints of FieldOps.Api, with several HTTP requests in  *)
(* flight at once over one SQL Server database.                             *)
(*                                                                         *)
(* A request reads the work order once (the authorization check or the      *)
(* assignment service does) and from then on sees only that copy: the scope *)
(* of the DbContext is the request, and querying an entity it tracks        *)
(* returns the tracked instance with the values first read.  SaveChanges    *)
(* later issues one UPDATE of the columns whose tracked value differs from  *)
(* the value read, WHERE Id = w, with no concurrency token; outbox rows are *)
(* inserted by the same SaveChanges.  A request is therefore a read step    *)
(* (every check of the handler, on the copy), a save step and, for the      *)
(* audited operations, an audit step; between them other requests run, and  *)
(* the process may stop or the database refuse at any of them.              *)
(***************************************************************************)
EXTENDS WorkOrderRows, Naturals, Sequences

CONSTANTS
    Requests,   \* slots for requests in flight
    MaxOutbox   \* bound on the rows of the outbox table

ASSUME SlotAssumption == MaxOutbox \in Nat

VARIABLES
    rows,       \* the WorkOrders table
    outbox,     \* the OutboxMessages table, in insertion order
    audit,      \* the AuditLogEntries table
    requests    \* what each request in flight has read and means to write

vars == <<rows, outbox, audit, requests>>

Operations == {"Assign", "Reassign", "Unassign", "Start", "Complete",
               "Reopen", "AddEvidence", "Approve"}

Audited == {"Assign", "Complete", "Approve"}

\* Faulty: the audit entry carries the name of the endpoint.
EndpointNames == [op \in Audited |-> op]

AuditAction == [op \in Audited |-> CASE op = "Assign"   -> "Assigned"
                                    [] op = "Complete" -> "Completed"
                                    [] op = "Approve"  -> "Approved"]

Idle == [phase |-> "idle"]

(* read is what the query returned, tracked the entity as the handler left  *)
(* it.                                                                       *)
InFlight(phase, ops) ==
    [phase : {phase}, op : ops, actor : Employees \union Customers,
     wo : WorkOrderIds, read : Row, tracked : Row]

Request == {Idle} \union InFlight("checked", Operations) \union InFlight("saved", Audited)

CompletedEvent(w, org) ==
    [type |-> "WorkOrderCompletedEvent", wo |-> w, org |-> org, status |-> "Completed"]
SearchDocument(w, org, status) ==
    [type |-> "WorkOrderSearchDocument", wo |-> w, org |-> org, status |-> status]

OutboxRow == [type : {"WorkOrderCompletedEvent", "WorkOrderSearchDocument"},
              wo : WorkOrderIds, org : Organizations, status : Statuses]

AuditEntry == [org : Organizations, wo : WorkOrderIds,
               action : {"Assigned", "Completed", "Approved"},
               actor : Employees \union Customers]

-----------------------------------------------------------------------------
(* The read step.                                                           *)

\* Faulty: any existing work order will do, whatever its organization.
ExistsAnywhere(row, org) == Exists(row)

Belongs(row, org) == Exists(row) /\ row.org = org

Begin(r, op, actor, w, tracked) ==
    /\ requests[r] = Idle
    /\ requests' = [requests EXCEPT ![r] =
                      [phase |-> "checked", op |-> op, actor |-> actor, wo |-> w,
                       read |-> rows[w], tracked |-> tracked]]
    /\ UNCHANGED <<rows, outbox, audit>>

IsAdminOrAssignee(row, a) == a \in Admins \/ row.assignee = a

(* What WorkOrderAssignmentService asks before it assigns or reassigns.     *)
Colleague(row, e) == EmployeeOrg[e] = row.org

\* Faulty: an employee of any organization can be assigned.
AssignableToAnyone(row, e) == Assignable(row)

AssignableTo(row, e) == Colleague(row, e) /\ Assignable(row)

ReassignableTo(row, e) == Colleague(row, e) /\ Reassignable(row) /\ e # row.assignee

Assign(r, a, w, e) ==
    /\ a \in Admins
    /\ Belongs(rows[w], EmployeeOrg[a])
    /\ AssignableTo(rows[w], e)
    /\ Begin(r, "Assign", a, w, AssignTo(rows[w], e))

Reassign(r, a, w, e) ==
    /\ Belongs(rows[w], EmployeeOrg[a])
    /\ IsAdminOrAssignee(rows[w], a)
    /\ ReassignableTo(rows[w], e)
    /\ Begin(r, "Reassign", a, w, ReassignTo(rows[w], e))

Unassign(r, a, w) ==
    /\ Belongs(rows[w], EmployeeOrg[a])
    /\ IsAdminOrAssignee(rows[w], a)
    /\ Unassignable(rows[w])
    /\ Begin(r, "Unassign", a, w, Unassigned(rows[w]))

Reopen(r, a, w) ==
    /\ Belongs(rows[w], EmployeeOrg[a])
    /\ a \in Admins
    /\ Reopenable(rows[w])
    /\ Begin(r, "Reopen", a, w, Reopened(rows[w]))

Owns(row, a) == Belongs(row, EmployeeOrg[a]) /\ row.assignee = a

Start(r, a, w) ==
    /\ Owns(rows[w], a)
    /\ Startable(rows[w])
    /\ Begin(r, "Start", a, w, Started(rows[w]))

\* Faulty: an Admin may complete other people's work.
CompleteByAdmin(r, a, w) ==
    /\ Belongs(rows[w], EmployeeOrg[a])
    /\ IsAdminOrAssignee(rows[w], a)
    /\ Completable(rows[w])
    /\ Begin(r, "Complete", a, w, Completed(rows[w]))

Complete(r, a, w) ==
    /\ Owns(rows[w], a)
    /\ Completable(rows[w])
    /\ Begin(r, "Complete", a, w, Completed(rows[w]))

AddEvidence(r, a, w, n) ==
    /\ Owns(rows[w], a)
    /\ TakesEvidence(rows[w])
    /\ Begin(r, "AddEvidence", a, w, WithNote(rows[w], n))

Approve(r, c, w) ==
    /\ Belongs(rows[w], CustomerOrg[c])
    /\ rows[w].customer = c
    /\ Approvable(rows[w])
    /\ Begin(r, "Approve", c, w, Approved(rows[w]))

-----------------------------------------------------------------------------
(* Create reads nothing another request may change, and its two SaveChanges *)
(* calls are one transaction: it is one step.                               *)
Create(a, w, c) ==
    LET org == EmployeeOrg[a] IN
    /\ ~Exists(rows[w])
    /\ c # None => CustomerOrg[c] = org
    /\ Len(outbox) < MaxOutbox
    /\ rows' = [rows EXCEPT ![w] = NewRow(org, c)]
    /\ outbox' = Append(outbox, SearchDocument(w, org, "Open"))
    /\ UNCHANGED <<audit, requests>>

-----------------------------------------------------------------------------
(* The save and audit steps.                                                *)

\* Faulty: every column is written, as DbSet.Update would.
WholeRow(row, read, tracked) ==
    [row EXCEPT !.status = tracked.status, !.assignee = tracked.assignee,
                !.notes = tracked.notes, !.approved = tracked.approved]

(* The UPDATE: only the columns the handler changed reach the row.          *)
Column(stored, read, tracked) == IF tracked = read THEN stored ELSE tracked

Merge(row, read, tracked) ==
    [row EXCEPT !.status   = Column(@, read.status, tracked.status),
                !.assignee = Column(@, read.assignee, tracked.assignee),
                !.notes    = Column(@, read.notes, tracked.notes),
                !.approved = Column(@, read.approved, tracked.approved)]

(* The organization the request acts for: the X-Organization-Id header,     *)
(* which membership (or the customer lookup) ties to the actor.             *)
HeaderOrg(actor) ==
    IF actor \in Employees THEN EmployeeOrg[actor] ELSE CustomerOrg[actor]

(* The outbox rows Complete tracks beside the status change, built from the *)
(* header before the save.                                                  *)
\* Faulty: completing only publishes the event and forgets the search document.
EventWithoutDocument(q) ==
    IF q.op = "Complete" THEN << CompletedEvent(q.wo, HeaderOrg(q.actor)) >> ELSE << >>

OutboxEntries(q) ==
    IF q.op = "Complete"
    THEN << CompletedEvent(q.wo, HeaderOrg(q.actor)),
            SearchDocument(q.wo, HeaderOrg(q.actor), "Completed") >>
    ELSE << >>

Save(r) ==
    LET q == requests[r] IN
    /\ q.phase = "checked"
    /\ Len(outbox \o OutboxEntries(q)) <= MaxOutbox
    /\ rows' = [rows EXCEPT ![q.wo] = Merge(@, q.read, q.tracked)]
    /\ outbox' = outbox \o OutboxEntries(q)
    /\ requests' = [requests EXCEPT ![r] =
                      IF q.op \in Audited THEN [q EXCEPT !.phase = "saved"] ELSE Idle]
    /\ UNCHANGED audit

\* Faulty: the entry is written before the change is saved.
RecordEarly(r) ==
    LET q == requests[r] IN
    /\ q.phase \in {"checked", "saved"} /\ q.op \in Audited
    /\ audit' = audit \union {[org |-> HeaderOrg(q.actor), wo |-> q.wo,
                               action |-> AuditAction[q.op], actor |-> q.actor]}
    /\ UNCHANGED <<rows, outbox, requests>>

Record(r) ==
    LET q == requests[r] IN
    /\ q.phase = "saved"
    /\ audit' = audit \union {[org |-> HeaderOrg(q.actor), wo |-> q.wo,
                               action |-> AuditAction[q.op], actor |-> q.actor]}
    /\ requests' = [requests EXCEPT ![r] = Idle]
    /\ UNCHANGED <<rows, outbox>>

(* The request ends early: SaveChanges throws, the audit insert throws (the *)
(* writer swallows it), or the process stops.                               *)
Abandon(r) ==
    /\ requests[r] # Idle
    /\ requests' = [requests EXCEPT ![r] = Idle]
    /\ UNCHANGED <<rows, outbox, audit>>

-----------------------------------------------------------------------------
EmployeeRequest(r, a, w) ==
    \/ \E e \in Employees : Assign(r, a, w, e) \/ Reassign(r, a, w, e)
    \/ Unassign(r, a, w) \/ Reopen(r, a, w) \/ Start(r, a, w) \/ Complete(r, a, w)
    \/ \E n \in Notes : AddEvidence(r, a, w, n)

Init ==
    /\ rows = [w \in WorkOrderIds |-> AbsentRow]
    /\ outbox = << >>
    /\ audit = {}
    /\ requests = [r \in Requests |-> Idle]

Next ==
    \/ \E a \in Employees, w \in WorkOrderIds, c \in Customers \union {None} : Create(a, w, c)
    \/ \E r \in Requests :
         \/ \E a \in Employees, w \in WorkOrderIds : EmployeeRequest(r, a, w)
         \/ \E c \in Customers, w \in WorkOrderIds : Approve(r, c, w)
         \/ Save(r) \/ Record(r) \/ Abandon(r)

Spec == Init /\ [][Next]_vars

(* The same system when no two requests that may still write work on the    *)
(* same work order at once: what a row lock or a concurrency token would    *)
(* buy.  The code has neither.                                              *)
NoOverlap ==
    \A r, s \in Requests :
        (requests[r].phase = "checked" /\ requests[s].phase = "checked" /\ r # s)
            => requests[r].wo # requests[s].wo

ExclusiveSpec == Init /\ [][Next /\ NoOverlap']_vars

-----------------------------------------------------------------------------
(***************************************************************************)
(* Properties.                                                              *)
(***************************************************************************)

(* Every variable has its type.                                             *)
TypeOK ==
    /\ rows \in [WorkOrderIds -> Row]
    /\ outbox \in Seq(OutboxRow)
    /\ audit \subseteq AuditEntry
    /\ requests \in [Requests -> Request]

Written == {outbox[i] : i \in DOMAIN outbox}

EventAmong(messages, w) == \E m \in messages : m.wo = w /\ m.type = "WorkOrderCompletedEvent"

HasEvent(w) == EventAmong(Written, w)

HasDocument(w, status) ==
    \E m \in Written : m.wo = w /\ m.type = "WorkOrderSearchDocument" /\ m.status = status

(* Tenant isolation: whatever requests of different organizations overlap,  *)
(* the assignee and the customer of a work order, its outbox rows (which    *)
(* carry the organization to the search index and to the consumers) and     *)
(* its audit entries belong to the organization of the work order.          *)
TenantIsolation ==
    /\ \A w \in WorkOrderIds :
         /\ rows[w].assignee # None => EmployeeOrg[rows[w].assignee] = rows[w].org
         /\ rows[w].customer # None => CustomerOrg[rows[w].customer] = rows[w].org
    /\ \A m \in Written : m.org = rows[m.wo].org
    /\ \A e \in audit : e.org = rows[e.wo].org

(* The outbox guarantee of Create and Complete: no state has a work order   *)
(* without its first search document, or a Completed one without the event  *)
(* and the document of its completion.                                      *)
OutboxComplete ==
    \A w \in WorkOrderIds :
        /\ Exists(rows[w]) => HasDocument(w, "Open")
        /\ rows[w].status = "Completed" =>
             /\ HasEvent(w)
             /\ HasDocument(w, "Completed")

(* A customer's approval is always of work that was completed, whatever     *)
(* reopening and completing it overlaps: an approved work order has a       *)
(* customer and a completion event.                                         *)
ApprovalFollowsCompletion ==
    \A w \in WorkOrderIds : rows[w].approved =>
        /\ rows[w].customer # None
        /\ HasEvent(w)

(* The audit log never claims what did not happen: a Completed entry is of  *)
(* a work order whose completion event is in the outbox, an Approved entry  *)
(* of one that is approved, and by its own customer.                        *)
AuditTruthful ==
    \A e \in audit :
        /\ e.action = "Completed" => HasEvent(e.wo)
        /\ e.action = "Approved" => rows[e.wo].approved /\ e.actor = rows[e.wo].customer

(* One transition at a time: the table moves as the state machine of        *)
(* IWorkOrderDirectory says, whoever calls.                                 *)
Lifecycle == INSTANCE WorkOrderLifecycle
ImplementsLifecycle == Lifecycle!Spec

(* Somebody is on record exactly when the work order is not Open.           *)
AssigneeOnRecord ==
    \A w \in WorkOrderIds :
        rows[w].status \in {"Assigned", "InProgress", "Completed"} <=> rows[w].assignee # None

(* Every completion event is of a step that completed work in progress,     *)
(* taken in the name of the assignee of that moment, so the number of       *)
(* events is the number of completions.                                     *)
EventsAreCompletions ==
    [][\A r \in Requests :
         (Save(r) /\ requests[r].op = "Complete") =>
            /\ rows[requests[r].wo].status = "InProgress"
            /\ rows[requests[r].wo].assignee = requests[r].actor]_vars

(* Evidence is written over only by evidence: a note that is stored goes    *)
(* away only when an AddEvidence that read the work order before it was     *)
(* stored saves its own list.  Requests of every other kind, however stale  *)
(* their copy, leave it alone.                                              *)
NotesLostOnlyToNotes ==
    [][\A w \in WorkOrderIds : \A n \in rows[w].notes \ rows'[w].notes :
         \E r \in Requests :
             /\ Save(r)
             /\ requests[r].op = "AddEvidence" /\ requests[r].wo = w
             /\ n \notin requests[r].read.notes]_vars

(* Complete's own precondition, as IWorkOrderDirectory states it: the step  *)
(* that makes a work order Completed finds it InProgress.  Start likewise.  *)
(* Overlapping requests break it.                                           *)
TransitionsRequireState ==
    [][\A w \in WorkOrderIds :
         /\ (rows'[w].status = "Completed" /\ rows[w].status # "Completed")
                => Completable(rows[w])
         /\ (rows'[w].status = "InProgress" /\ rows[w].status # "InProgress")
                => Startable(rows[w]) \/ Reopenable(rows[w])]_vars

-----------------------------------------------------------------------------
(***************************************************************************)
(* The strengthening of the invariants above that steps preserve.           *)
(***************************************************************************)

(* What the checks of an operation have established about the copy it read, *)
(* and the entity it will save.                                             *)
Decided(q) ==
    /\ q.op = "Assign" => \E e \in Employees :
         EmployeeOrg[e] = q.read.org /\ Assignable(q.read) /\ q.tracked = AssignTo(q.read, e)
    /\ q.op = "Reassign" => \E e \in Employees :
         EmployeeOrg[e] = q.read.org /\ Reassignable(q.read) /\ q.tracked = ReassignTo(q.read, e)
    /\ q.op = "Unassign" => Unassignable(q.read) /\ q.tracked = Unassigned(q.read)
    /\ q.op = "Start"    => Startable(q.read) /\ q.tracked = Started(q.read)
    /\ q.op = "Complete" => /\ Completable(q.read) /\ q.tracked = Completed(q.read)
                            /\ q.read.assignee = q.actor
    /\ q.op = "Reopen"   => Reopenable(q.read) /\ q.tracked = Reopened(q.read)
    /\ q.op = "AddEvidence" => \E n \in Notes :
         TakesEvidence(q.read) /\ q.tracked = WithNote(q.read, n)
    /\ q.op = "Approve"  => /\ Approvable(q.read) /\ q.tracked = Approved(q.read)
                            /\ q.read.customer = q.actor /\ q.actor \in Customers

(* A request in flight, the row it is about as the table has it now, and    *)
(* whether that work order has a completion event: what of its copy can no  *)
(* longer change in the table, and what its earlier steps have left there.  *)
InFlightSound(q, row, hasEvent) ==
    /\ Decided(q)
    /\ Exists(row)
    /\ q.read.org = row.org
    /\ q.read.customer = row.customer
    /\ HeaderOrg(q.actor) = row.org
    /\ q.read.approved => row.approved
    /\ q.op = "Approve" => hasEvent
    /\ q.phase = "saved" =>
         /\ q.op = "Complete" => hasEvent
         /\ q.op = "Approve" => row.approved

RequestsSound ==
    \A r \in Requests :
        requests[r] # Idle =>
            InFlightSound(requests[r], rows[requests[r].wo], HasEvent(requests[r].wo))

(* Outbox rows and audit entries are of work orders that exist.             *)
NothingDangling ==
    /\ \A m \in Written : Exists(rows[m.wo])
    /\ \A e \in audit : Exists(rows[e.wo])

(* Without overlap the copy of an unsaved request is the row itself.        *)
CopyIsFresh ==
    \A r \in Requests :
        requests[r].phase = "checked" => requests[r].read = rows[requests[r].wo]
=============================================================================
