--------------------------- MODULE WorkOrders_proofs ---------------------------
(***************************************************************************)
(* Proofs about WorkOrders, for any sets of organizations, employees,       *)
(* customers and work orders and any number of requests in flight.          *)
(***************************************************************************)
EXTENDS WorkOrders, SequenceTheorems, TLAPS

USE DEF Exists, HasEvent

-----------------------------------------------------------------------------
(* Rows.                                                                    *)

(* Every change EfWorkOrderDirectory makes to a row leaves a row.           *)
LEMMA RowsClosed ==
    ASSUME NEW row \in Row
    PROVE  /\ \A e \in Employees : AssignTo(row, e) \in Row /\ ReassignTo(row, e) \in Row
           /\ Started(row) \in Row /\ Completed(row) \in Row /\ Unassigned(row) \in Row
           /\ Reopened(row) \in Row /\ Approved(row) \in Row
           /\ \A n \in Notes : WithNote(row, n) \in Row
  BY DEF Row, Statuses, AssignTo, ReassignTo, Started, Completed, Unassigned,
         Reopened, Approved, WithNote

(* What an UPDATE writes is a row, column by column the old one or the      *)
(* tracked one.                                                             *)
LEMMA MergeIsRow ==
    ASSUME NEW row \in Row, NEW read \in Row, NEW tracked \in Row
    PROVE  Merge(row, read, tracked) \in Row
  <1>1. /\ Column(row.status, read.status, tracked.status) \in Statuses \union {"Absent"}
        /\ Column(row.assignee, read.assignee, tracked.assignee) \in Employees \union {None}
        /\ Column(row.notes, read.notes, tracked.notes) \in SUBSET Notes
    BY DEF Row, Column
  <1>2. Column(row.approved, read.approved, tracked.approved) \in BOOLEAN
    BY Zenon DEF Row, Column
  <1> QED
    BY <1>1, <1>2 DEF Row, Merge

LEMMA NewRowIsRow ==
    ASSUME NEW org \in Organizations, NEW c \in Customers \union {None}
    PROVE  NewRow(org, c) \in Row
  BY DEF NewRow, AbsentRow, Row, Statuses

(* The header names an organization.                                        *)
LEMMA HeaderOrgType ==
    ASSUME NEW a \in Employees \union Customers
    PROVE  HeaderOrg(a) \in Organizations
  BY RowAssumption DEF HeaderOrg

LEMMA OutboxEntriesType ==
    ASSUME NEW q \in Request, q # Idle
    PROVE  OutboxEntries(q) \in Seq(OutboxRow)
  <1>1. q.wo \in WorkOrderIds /\ q.actor \in Employees \union Customers
    BY DEF Request, InFlight
  <1>2. HeaderOrg(q.actor) \in Organizations
    BY <1>1, HeaderOrgType
  <1>3. /\ CompletedEvent(q.wo, HeaderOrg(q.actor)) \in OutboxRow
        /\ SearchDocument(q.wo, HeaderOrg(q.actor), "Completed") \in OutboxRow
    BY <1>1, <1>2 DEF CompletedEvent, SearchDocument, OutboxRow, Statuses
  <1> QED
    BY <1>3, EmptySeq DEF OutboxEntries

-----------------------------------------------------------------------------
(* Type correctness.                                                        *)

(* The read step stores a request of the right type.                        *)
LEMMA BeginType ==
    ASSUME TypeOK, NEW r \in Requests, NEW op \in Operations,
           NEW a \in Employees \union Customers, NEW w \in WorkOrderIds,
           NEW t \in Row, Begin(r, op, a, w, t)
    PROVE  TypeOK'
  <1>1. rows[w] \in Row
    BY DEF TypeOK
  <1>2. [phase |-> "checked", op |-> op, actor |-> a, wo |-> w,
         read |-> rows[w], tracked |-> t] \in Request
    BY <1>1 DEF Request, InFlight
  <1> QED
    BY <1>2 DEF TypeOK, Begin

(* The operation, the actor, the work order and the entity of each endpoint *)
(* are what BeginType asks for.                                             *)
LEMMA EmployeeRequestBegins ==
    ASSUME TypeOK, NEW r \in Requests, NEW a \in Employees, NEW w \in WorkOrderIds,
           EmployeeRequest(r, a, w)
    PROVE  \E op \in Operations, t \in Row : Begin(r, op, a, w, t)
  <1>1. rows[w] \in Row
    BY DEF TypeOK
  <1>2. CASE \E e \in Employees : Assign(r, a, w, e)
    BY <1>1, <1>2, RowsClosed DEF Assign, AssignableTo, Operations
  <1>3. CASE \E e \in Employees : Reassign(r, a, w, e)
    BY <1>1, <1>3, RowsClosed DEF Reassign, ReassignableTo, Operations
  <1>4. CASE Unassign(r, a, w)
    BY <1>1, <1>4, RowsClosed DEF Unassign, Operations
  <1>5. CASE Reopen(r, a, w)
    BY <1>1, <1>5, RowsClosed DEF Reopen, Operations
  <1>6. CASE Start(r, a, w)
    BY <1>1, <1>6, RowsClosed DEF Start, Operations
  <1>7. CASE Complete(r, a, w)
    BY <1>1, <1>7, RowsClosed DEF Complete, Operations
  <1>8. CASE \E n \in Notes : AddEvidence(r, a, w, n)
    BY <1>1, <1>8, RowsClosed DEF AddEvidence, Operations
  <1> QED
    BY <1>2, <1>3, <1>4, <1>5, <1>6, <1>7, <1>8 DEF EmployeeRequest

LEMMA ApproveBegins ==
    ASSUME TypeOK, NEW r \in Requests, NEW c \in Customers, NEW w \in WorkOrderIds,
           Approve(r, c, w)
    PROVE  \E t \in Row : Begin(r, "Approve", c, w, t)
  <1>1. rows[w] \in Row
    BY DEF TypeOK
  <1> QED
    BY <1>1, RowsClosed DEF Approve

LEMMA CreateType ==
    ASSUME TypeOK, NEW a \in Employees, NEW w \in WorkOrderIds,
           NEW c \in Customers \union {None}, Create(a, w, c)
    PROVE  TypeOK'
  <1>1. EmployeeOrg[a] \in Organizations
    BY RowAssumption
  <1>2. NewRow(EmployeeOrg[a], c) \in Row
    BY <1>1, NewRowIsRow
  <1>3. SearchDocument(w, EmployeeOrg[a], "Open") \in OutboxRow
    BY <1>1 DEF SearchDocument, OutboxRow, Statuses
  <1> QED
    BY <1>2, <1>3 DEF Create, TypeOK

LEMMA SaveType ==
    ASSUME TypeOK, NEW r \in Requests, Save(r)
    PROVE  TypeOK'
  <1> DEFINE q == requests[r]
  <1>1. q \in InFlight("checked", Operations)
    BY DEF Save, TypeOK, Request, Idle, InFlight
  <1>2. rows' \in [WorkOrderIds -> Row]
    <2>1. /\ q.wo \in WorkOrderIds /\ q.read \in Row /\ q.tracked \in Row
          /\ rows[q.wo] \in Row
      BY <1>1 DEF InFlight, TypeOK
    <2>2. Merge(rows[q.wo], q.read, q.tracked) \in Row
      BY <2>1, MergeIsRow
    <2> QED
      BY <2>2 DEF Save, TypeOK
  <1>3. outbox' \in Seq(OutboxRow)
    <2>1. OutboxEntries(q) \in Seq(OutboxRow)
      BY <1>1, OutboxEntriesType DEF Request, Idle, InFlight
    <2> QED
      BY <2>1, ConcatProperties DEF Save, TypeOK
  <1>4. requests' \in [Requests -> Request]
    <2>1. CASE q.op \in Audited
      <3>1. [q EXCEPT !.phase = "saved"] \in InFlight("saved", Audited)
        BY <1>1, <2>1 DEF InFlight
      <3> QED
        BY <2>1, <3>1 DEF Save, TypeOK, Request
    <2>2. CASE q.op \notin Audited
      BY <2>2 DEF Save, TypeOK, Request
    <2> QED
      BY <2>1, <2>2
  <1> QED
    BY <1>2, <1>3, <1>4 DEF Save, TypeOK

LEMMA RecordType ==
    ASSUME TypeOK, NEW r \in Requests, Record(r)
    PROVE  TypeOK'
  <1> DEFINE q == requests[r]
  <1>1. q \in InFlight("saved", Audited)
    BY DEF Record, TypeOK, Request, Idle, InFlight
  <1>2. /\ HeaderOrg(q.actor) \in Organizations
        /\ q.wo \in WorkOrderIds
        /\ q.actor \in Employees \union Customers
        /\ AuditAction[q.op] \in {"Assigned", "Completed", "Approved"}
    BY <1>1, HeaderOrgType DEF InFlight, AuditAction, Audited
  <1>3. audit' \subseteq AuditEntry
    BY <1>2 DEF Record, TypeOK, AuditEntry
  <1>4. requests' \in [Requests -> Request]
    BY DEF Record, TypeOK, Request
  <1> QED
    BY <1>3, <1>4 DEF Record, TypeOK

(* The variables keep their types.                                          *)
THEOREM TypeCorrect == Spec => []TypeOK
  <1>1. Init => TypeOK
    BY EmptySeq DEF Init, TypeOK, Row, AbsentRow, Request
  <1>2. TypeOK /\ [Next]_vars => TypeOK'
    <2> SUFFICES ASSUME TypeOK, [Next]_vars PROVE TypeOK'
      OBVIOUS
    <2>1. ASSUME NEW a \in Employees, NEW w \in WorkOrderIds,
                 NEW c \in Customers \union {None}, Create(a, w, c)
          PROVE  TypeOK'
      BY <2>1, CreateType
    <2>2. ASSUME NEW r \in Requests, NEW a \in Employees, NEW w \in WorkOrderIds,
                 EmployeeRequest(r, a, w)
          PROVE  TypeOK'
      BY <2>2, EmployeeRequestBegins, BeginType
    <2>3. ASSUME NEW r \in Requests, NEW c \in Customers, NEW w \in WorkOrderIds,
                 Approve(r, c, w)
          PROVE  TypeOK'
      BY <2>3, ApproveBegins, BeginType DEF Operations
    <2>4. ASSUME NEW r \in Requests, Save(r)
          PROVE  TypeOK'
      BY <2>4, SaveType
    <2>5. ASSUME NEW r \in Requests, Record(r)
          PROVE  TypeOK'
      BY <2>5, RecordType
    <2>6. ASSUME NEW r \in Requests, Abandon(r)
          PROVE  TypeOK'
      BY <2>6 DEF Abandon, TypeOK, Request
    <2>7. CASE UNCHANGED vars
      BY <2>7 DEF vars, TypeOK
    <2> QED
      BY <2>1, <2>2, <2>3, <2>4, <2>5, <2>6, <2>7 DEF Next
  <1> QED
    BY <1>1, <1>2, PTL DEF Spec

-----------------------------------------------------------------------------
(* Safety under any overlap of requests.                                    *)

IInv ==
    /\ TypeOK
    /\ TenantIsolation
    /\ OutboxComplete
    /\ ApprovalFollowsCompletion
    /\ AuditTruthful
    /\ RequestsSound
    /\ NothingDangling

(* What no step ever takes back from a row.                                 *)
RowStable(old, new) ==
    Exists(old) => /\ Exists(new)
                   /\ new.org = old.org /\ new.customer = old.customer
                   /\ old.approved => new.approved

(* Concatenation adds the elements of its second argument.                  *)
LEMMA WrittenConcat ==
    ASSUME NEW s \in Seq(OutboxRow), NEW t \in Seq(OutboxRow)
    PROVE  {(s \o t)[i] : i \in DOMAIN (s \o t)}
             = {s[i] : i \in DOMAIN s} \union {t[i] : i \in DOMAIN t}
  <1> DEFINE u == s \o t
  <1>1. /\ u \in Seq(OutboxRow) /\ Len(s) \in Nat /\ Len(t) \in Nat
        /\ DOMAIN s = 1 .. Len(s) /\ DOMAIN t = 1 .. Len(t)
        /\ DOMAIN u = 1 .. Len(s) + Len(t)
        /\ \A i \in 1 .. Len(s) + Len(t) :
              u[i] = IF i <= Len(s) THEN s[i] ELSE t[i - Len(s)]
    BY ConcatProperties, LenProperties
  <1> HIDE DEF u
  <1>2. \A i \in DOMAIN u :
          \/ i \in DOMAIN s /\ u[i] = s[i]
          \/ i - Len(s) \in DOMAIN t /\ u[i] = t[i - Len(s)]
    BY <1>1
  <1>3. \A i \in DOMAIN s : i \in DOMAIN u /\ u[i] = s[i]
    BY <1>1
  <1>4. \A i \in DOMAIN t : Len(s) + i \in DOMAIN u /\ u[Len(s) + i] = t[i]
    BY <1>1
  <1>5. {u[i] : i \in DOMAIN u} = {s[i] : i \in DOMAIN s} \union {t[i] : i \in DOMAIN t}
    BY <1>2, <1>3, <1>4
  <1> QED
    BY <1>5 DEF u

(* What an UPDATE may do to the row it finds, however stale its copy.       *)
LEMMA MergeFacts ==
    ASSUME NEW row \in Row, NEW hasEvent \in BOOLEAN,
           NEW q \in InFlight("checked", Operations), InFlightSound(q, row, hasEvent)
    PROVE  LET new == Merge(row, q.read, q.tracked) IN
           /\ RowStable(row, new)
           /\ \/ new.assignee \in {row.assignee, None}
              \/ new.assignee \in Employees /\ EmployeeOrg[new.assignee] = row.org
           /\ new.status = "Completed" => row.status = "Completed" \/ q.op = "Complete"
           /\ new.approved => row.approved \/ q.op = "Approve"
           /\ q.op = "Approve" => new.approved
  <1> DEFINE new == Merge(row, q.read, q.tracked)
  <1>1. /\ q.read \in Row /\ q.tracked \in Row /\ Decided(q) /\ q.op \in Operations
        /\ q.read.org = row.org /\ Exists(row)
        /\ q.read.approved => row.approved
    BY DEF InFlight, InFlightSound
  <1>2. /\ new.status = Column(row.status, q.read.status, q.tracked.status)
        /\ new.assignee = Column(row.assignee, q.read.assignee, q.tracked.assignee)
        /\ new.approved = Column(row.approved, q.read.approved, q.tracked.approved)
        /\ new.org = row.org /\ new.customer = row.customer
    BY <1>1 DEF Merge, Row
  <1> HIDE DEF new
  <1> USE DEF Decided, Row, Statuses, Assignable, AssignTo, Reassignable, ReassignTo,
         Unassignable, Unassigned, Startable, Started, Completable, Completed, Reopenable,
         Reopened, TakesEvidence, WithNote, Approvable, Approved
  <1>3. /\ q.tracked.status # "Absent"
        /\ q.tracked.status = "Completed" => q.read.status = "Completed" \/ q.op = "Complete"
        /\ \/ q.tracked.assignee \in {q.read.assignee, None}
           \/ q.tracked.assignee \in Employees /\ EmployeeOrg[q.tracked.assignee] = row.org
    <2>1. CASE q.op = "Assign"
      BY <1>1, <2>1
    <2>2. CASE q.op = "Reassign"
      BY <1>1, <2>2
    <2>3. CASE q.op \in {"Unassign", "Start", "Complete", "Reopen"}
      BY <1>1, <2>3
    <2>4. CASE q.op = "AddEvidence"
      BY <1>1, <2>4
    <2>5. CASE q.op = "Approve"
      BY <1>1, <2>5
    <2> QED
      BY <1>1, <2>1, <2>2, <2>3, <2>4, <2>5 DEF Operations
  <1>4. /\ q.op = "Approve" => q.tracked.approved = TRUE
        /\ q.op # "Approve" => q.tracked.approved = q.read.approved
    BY <1>1 DEF Operations
  <1> USE DEF Column
  <1>5. /\ new.approved => row.approved \/ q.op = "Approve"
        /\ row.approved => new.approved
        /\ q.op = "Approve" => new.approved
    <2>1. CASE q.op = "Approve"
      BY <1>1, <1>2, <1>4, <2>1, Zenon
    <2>2. CASE q.op # "Approve"
      BY <1>2, <1>4, <2>2, Zenon
    <2> QED
      BY <2>1, <2>2
  <1>6. /\ new.status # "Absent"
        /\ new.status = "Completed" => row.status = "Completed" \/ q.op = "Complete"
    <2>1. row.status # "Absent"
      BY <1>1
    <2> QED
      BY <1>2, <1>3, <2>1
  <1>7. \/ new.assignee \in {row.assignee, None}
        \/ new.assignee \in Employees /\ EmployeeOrg[new.assignee] = row.org
    BY <1>1, <1>2, <1>3
  <1> QED
    BY <1>2, <1>5, <1>6, <1>7 DEF RowStable, new

(* A request stays sound while its row is stable and events are kept.       *)
LEMMA InFlightKept ==
    ASSUME NEW q, NEW old, NEW new, NEW before \in BOOLEAN, NEW after \in BOOLEAN,
           InFlightSound(q, old, before), RowStable(old, new), before => after
    PROVE  InFlightSound(q, new, after)
  BY DEF InFlightSound, RowStable

(* The other requests stay sound in every step that keeps rows stable and   *)
(* outbox rows written.                                                     *)
LEMMA OthersKept ==
    ASSUME IInv, NEW r \in Requests,
           \A w \in WorkOrderIds : RowStable(rows[w], rows'[w]),
           Written \subseteq Written',
           \A s \in Requests \ {r} : requests'[s] = requests[s],
           requests'[r] = Idle
    PROVE  RequestsSound'
  <1> SUFFICES ASSUME NEW s \in Requests, requests'[s] # Idle
               PROVE  InFlightSound(requests'[s], rows'[requests'[s].wo],
                                    EventAmong(Written', requests'[s].wo))
    BY DEF RequestsSound
  <1> DEFINE q == requests[s]
  <1>1. s # r /\ requests'[s] = q /\ q # Idle
    OBVIOUS
  <1>2. q.wo \in WorkOrderIds
    BY <1>1 DEF IInv, TypeOK, Request, InFlight
  <1>3. HasEvent(q.wo) => EventAmong(Written', q.wo)
    BY DEF EventAmong
  <1>4. InFlightSound(q, rows[q.wo], HasEvent(q.wo))
    BY <1>1 DEF IInv, RequestsSound
  <1>5. HasEvent(q.wo) \in BOOLEAN /\ EventAmong(Written', q.wo) \in BOOLEAN
    BY DEF EventAmong
  <1>6. RowStable(rows[q.wo], rows'[q.wo])
    BY <1>2
  <1> HIDE DEF q
  <1> QED
    BY <1>1, <1>3, <1>4, <1>5, <1>6, InFlightKept

(* The read step leaves a sound request: its checks are on the row as it is *)
(* now.                                                                     *)
LEMMA BeginSound ==
    ASSUME IInv, NEW r \in Requests, NEW op \in Operations,
           NEW a \in Employees \union Customers, NEW w \in WorkOrderIds,
           NEW t \in Row, Begin(r, op, a, w, t),
           Decided(requests'[r]),
           Exists(rows[w]), HeaderOrg(a) = rows[w].org,
           op = "Approve" => HasEvent(w)
    PROVE  IInv'
  <1>1. TypeOK'
    BY BeginType DEF IInv
  <1>2. /\ requests'[r] = [phase |-> "checked", op |-> op, actor |-> a, wo |-> w,
                           read |-> rows[w], tracked |-> t]
        /\ \A s \in Requests \ {r} : requests'[s] = requests[s]
        /\ rows' = rows /\ outbox' = outbox /\ audit' = audit
    BY DEF Begin, IInv, TypeOK
  <1>3. InFlightSound(requests'[r], rows[w], HasEvent(w))
    BY <1>2 DEF InFlightSound
  <1>4. Written' = Written
    BY <1>2 DEF Written
  <1>5. RequestsSound'
    <2>1. requests'[r].wo = w
      BY <1>2
    <2> QED
      BY <1>2, <1>3, <1>4, <2>1 DEF RequestsSound, IInv
  <1>6. (TenantIsolation /\ OutboxComplete /\ ApprovalFollowsCompletion)'
    BY <1>2, <1>4 DEF IInv, TenantIsolation, OutboxComplete, ApprovalFollowsCompletion, HasDocument
  <1>7. (AuditTruthful /\ NothingDangling)'
    BY <1>2, <1>4 DEF IInv, AuditTruthful, NothingDangling
  <1> QED
    BY <1>1, <1>5, <1>6, <1>7 DEF IInv

(* The checks of the eight endpoints establish what Decided says of them.   *)
LEMMA EmployeeRequestSound ==
    ASSUME IInv, NEW r \in Requests, NEW a \in Employees, NEW w \in WorkOrderIds,
           EmployeeRequest(r, a, w)
    PROVE  IInv'
  <1>1. TypeOK /\ rows[w] \in Row /\ a \in Employees \union Customers
    BY DEF IInv, TypeOK
  <1>2. ASSUME NEW op \in Operations \ {"Approve"}, NEW t \in Row, Begin(r, op, a, w, t),
               Belongs(rows[w], EmployeeOrg[a]),
               Decided([phase |-> "checked", op |-> op, actor |-> a, wo |-> w,
                        read |-> rows[w], tracked |-> t])
        PROVE  IInv'
    <2>1. requests'[r] = [phase |-> "checked", op |-> op, actor |-> a, wo |-> w,
                          read |-> rows[w], tracked |-> t]
      BY <1>1, <1>2 DEF Begin, TypeOK
    <2>2. Exists(rows[w]) /\ HeaderOrg(a) = rows[w].org
      BY <1>2 DEF Belongs, HeaderOrg
    <2> QED
      BY <1>1, <1>2, <2>1, <2>2, BeginSound
  <1> USE DEF Operations, Decided
  <1>3. ASSUME NEW e \in Employees, Assign(r, a, w, e) PROVE IInv'
    BY <1>1, <1>2, <1>3, RowsClosed DEF Assign, AssignableTo, Colleague, Belongs
  <1>4. ASSUME NEW e \in Employees, Reassign(r, a, w, e) PROVE IInv'
    BY <1>1, <1>2, <1>4, RowsClosed DEF Reassign, ReassignableTo, Colleague, Belongs
  <1>5. CASE Unassign(r, a, w)
    BY <1>1, <1>2, <1>5, RowsClosed DEF Unassign
  <1>6. CASE Reopen(r, a, w)
    BY <1>1, <1>2, <1>6, RowsClosed DEF Reopen
  <1>7. CASE Start(r, a, w)
    BY <1>1, <1>2, <1>7, RowsClosed DEF Start, Owns
  <1>8. CASE Complete(r, a, w)
    BY <1>1, <1>2, <1>8, RowsClosed DEF Complete, Owns
  <1>9. ASSUME NEW n \in Notes, AddEvidence(r, a, w, n) PROVE IInv'
    BY <1>1, <1>2, <1>9, RowsClosed DEF AddEvidence, Owns
  <1> QED
    BY <1>3, <1>4, <1>5, <1>6, <1>7, <1>8, <1>9 DEF EmployeeRequest

LEMMA ApproveSound ==
    ASSUME IInv, NEW r \in Requests, NEW c \in Customers, NEW w \in WorkOrderIds,
           Approve(r, c, w)
    PROVE  IInv'
  <1>1. /\ TypeOK /\ rows[w] \in Row /\ c \in Employees \union Customers
        /\ "Approve" \in Operations /\ Approved(rows[w]) \in Row
    BY RowsClosed DEF IInv, TypeOK, Operations
  <1>2. requests'[r] = [phase |-> "checked", op |-> "Approve", actor |-> c, wo |-> w,
                        read |-> rows[w], tracked |-> Approved(rows[w])]
    BY <1>1 DEF Approve, Begin, TypeOK
  <1>3. Exists(rows[w]) /\ HeaderOrg(c) = rows[w].org
    BY RowAssumption DEF Approve, Belongs, HeaderOrg
  <1>4. HasEvent(w)
    BY DEF IInv, OutboxComplete, Approve, Approvable
  <1>5. Decided(requests'[r])
    BY <1>2 DEF Decided, Approve
  <1> QED
    BY <1>1, <1>3, <1>4, <1>5, BeginSound DEF Approve

LEMMA WrittenType == TypeOK => Written \subseteq OutboxRow
  BY ElementOfSeq, LenProperties DEF TypeOK, Written

(* Create hands out an identity nothing refers to yet.                      *)
LEMMA CreateSound ==
    ASSUME IInv, NEW a \in Employees, NEW w \in WorkOrderIds,
           NEW c \in Customers \union {None}, Create(a, w, c)
    PROVE  IInv'
  <1> DEFINE org == EmployeeOrg[a]
             doc == SearchDocument(w, org, "Open")
  <1>1. TypeOK' /\ TypeOK
    BY CreateType DEF IInv
  <1>2. org \in Organizations /\ doc \in OutboxRow
    BY RowAssumption DEF SearchDocument, OutboxRow, Statuses
  <1>3. Written' = Written \union {doc}
    <2>1. outbox' = outbox \o << doc >> /\ << doc >> \in Seq(OutboxRow) /\ outbox \in Seq(OutboxRow)
      BY <1>1, <1>2 DEF Create, TypeOK
    <2>2. {<< doc >>[i] : i \in DOMAIN << doc >>} = {doc}
      OBVIOUS
    <2> QED
      BY <2>1, <2>2, WrittenConcat DEF Written
  <1>4. /\ rows'[w] = NewRow(org, c) /\ ~Exists(rows[w])
        /\ \A v \in WorkOrderIds \ {w} : rows'[v] = rows[v]
        /\ audit' = audit /\ requests' = requests
        /\ c # None => CustomerOrg[c] = org
    BY <1>1 DEF Create, TypeOK
  <1>5. /\ rows'[w].status = "Open" /\ rows'[w].org = org /\ rows'[w].customer = c
        /\ rows'[w].assignee = None /\ rows'[w].approved = FALSE
    BY <1>4 DEF NewRow, AbsentRow
  <1>6. doc.wo = w /\ doc.org = org /\ doc.type = "WorkOrderSearchDocument" /\ doc.status = "Open"
    BY DEF SearchDocument
  <1>7. \A m \in Written : m.wo \in WorkOrderIds \ {w}
    <2>1. \A m \in Written : m.wo \in WorkOrderIds /\ Exists(rows[m.wo])
      BY <1>1, WrittenType DEF IInv, NothingDangling, OutboxRow
    <2> QED
      BY <1>4, <2>1
  <1>8. \A e \in audit : e.wo \in WorkOrderIds \ {w}
    BY <1>1, <1>4 DEF IInv, NothingDangling, TypeOK, AuditEntry
  <1> HIDE DEF doc, org
  <1>9. \A v \in WorkOrderIds : EventAmong(Written, v) <=> EventAmong(Written', v)
    BY <1>3, <1>6 DEF EventAmong
  <1>10. TenantIsolation'
    BY <1>3, <1>4, <1>5, <1>6, <1>7, <1>8 DEF IInv, TenantIsolation
  <1>11. OutboxComplete'
    <2> SUFFICES ASSUME NEW v \in WorkOrderIds
                 PROVE  /\ Exists(rows'[v]) => HasDocument(v, "Open")'
                        /\ rows'[v].status = "Completed" =>
                             EventAmong(Written', v) /\ HasDocument(v, "Completed")'
      BY DEF OutboxComplete
    <2>1. CASE v = w
      BY <1>3, <1>5, <1>6, <2>1 DEF HasDocument
    <2>2. CASE v # w
      <3>1. \A status : HasDocument(v, status) => HasDocument(v, status)'
        BY <1>3 DEF HasDocument
      <3> QED
        BY <1>4, <1>9, <2>2, <3>1 DEF IInv, OutboxComplete
    <2> QED
      BY <2>1, <2>2
  <1>12. ApprovalFollowsCompletion'
    BY <1>4, <1>5, <1>9 DEF IInv, ApprovalFollowsCompletion
  <1>13. AuditTruthful'
    BY <1>4, <1>8, <1>9 DEF IInv, AuditTruthful
  <1>14. NothingDangling'
    BY <1>3, <1>4, <1>5, <1>6, <1>7, <1>8 DEF IInv, NothingDangling
  <1>15. RequestsSound'
    <2> SUFFICES ASSUME NEW r \in Requests, requests[r] # Idle
                 PROVE  InFlightSound(requests[r], rows'[requests[r].wo],
                                      EventAmong(Written', requests[r].wo))
      BY <1>4 DEF RequestsSound
    <2>1. InFlightSound(requests[r], rows[requests[r].wo], EventAmong(Written, requests[r].wo))
      BY DEF IInv, RequestsSound
    <2>2. requests[r].wo \in WorkOrderIds
      BY <1>1 DEF TypeOK, Request, InFlight
    <2>3. requests[r].wo # w
      BY <2>1, <1>4 DEF InFlightSound
    <2> QED
      BY <1>4, <1>9, <2>1, <2>2, <2>3 DEF InFlightSound
  <1> QED
    BY <1>1, <1>10, <1>11, <1>12, <1>13, <1>14, <1>15 DEF IInv

LEMMA RecordSound ==
    ASSUME IInv, NEW r \in Requests, Record(r)
    PROVE  IInv'
  <1> DEFINE q == requests[r]
             entry == [org |-> HeaderOrg(q.actor), wo |-> q.wo,
                       action |-> AuditAction[q.op], actor |-> q.actor]
  <1>1. TypeOK' /\ TypeOK
    BY RecordType DEF IInv
  <1>2. q \in InFlight("saved", Audited)
    BY <1>1 DEF Record, TypeOK, Request, Idle, InFlight
  <1>3. InFlightSound(q, rows[q.wo], EventAmong(Written, q.wo))
    BY <1>2 DEF IInv, RequestsSound, InFlight, Idle
  <1>4. /\ rows' = rows /\ Written' = Written /\ audit' = audit \union {entry}
        /\ requests'[r] = Idle
        /\ \A s \in Requests \ {r} : requests'[s] = requests[s]
    BY <1>1 DEF Record, Written, TypeOK
  <1>5. /\ q.wo \in WorkOrderIds /\ q.op \in Audited /\ q.phase = "saved"
        /\ q.op = "Approve" => q.actor = rows[q.wo].customer
    BY <1>2, <1>3 DEF InFlight, InFlightSound, Decided
  <1>6. /\ entry.action = "Completed" => q.op = "Complete"
        /\ entry.action = "Approved" => q.op = "Approve"
        /\ entry.wo = q.wo /\ entry.org = HeaderOrg(q.actor) /\ entry.actor = q.actor
    BY <1>5 DEF AuditAction, Audited
  <1>7. /\ Exists(rows[q.wo]) /\ HeaderOrg(q.actor) = rows[q.wo].org
        /\ q.op = "Complete" => EventAmong(Written, q.wo)
        /\ q.op = "Approve" => rows[q.wo].approved
    BY <1>3, <1>5 DEF InFlightSound
  <1> HIDE DEF entry, q
  <1>8. (TenantIsolation /\ OutboxComplete /\ ApprovalFollowsCompletion)'
    BY <1>4, <1>6, <1>7 DEF IInv, TenantIsolation, OutboxComplete,
       ApprovalFollowsCompletion, HasDocument
  <1>9. (AuditTruthful /\ NothingDangling)'
    BY <1>4, <1>5, <1>6, <1>7 DEF IInv, AuditTruthful, NothingDangling
  <1>10. RequestsSound'
    BY <1>4, OthersKept DEF RowStable
  <1> QED
    BY <1>1, <1>8, <1>9, <1>10 DEF IInv

(* Save is where overlap bites: the row may have changed since the copy was *)
(* read, but not in what RowStable keeps.                                   *)
LEMMA SaveSound ==
    ASSUME IInv, NEW r \in Requests, Save(r)
    PROVE  IInv'
  <1> DEFINE q == requests[r]
             w == q.wo
             entries == {OutboxEntries(q)[i] : i \in DOMAIN OutboxEntries(q)}
  <1>1. TypeOK' /\ TypeOK
    BY SaveType DEF IInv
  <1>2. /\ q \in InFlight("checked", Operations) /\ q \in Request /\ q # Idle
        /\ w \in WorkOrderIds /\ rows[w] \in Row
    BY <1>1 DEF Save, TypeOK, Request, Idle, InFlight
  <1>3. InFlightSound(q, rows[w], EventAmong(Written, w)) /\ EventAmong(Written, w) \in BOOLEAN
    BY <1>2 DEF IInv, RequestsSound, EventAmong
  <1>4. /\ rows'[w] = Merge(rows[w], q.read, q.tracked)
        /\ \A v \in WorkOrderIds \ {w} : rows'[v] = rows[v]
        /\ audit' = audit
        /\ \A s \in Requests \ {r} : requests'[s] = requests[s]
        /\ requests'[r] = IF q.op \in Audited THEN [q EXCEPT !.phase = "saved"] ELSE Idle
    BY <1>1, <1>2 DEF Save, TypeOK
  <1>5. /\ RowStable(rows[w], rows'[w])
        /\ \/ rows'[w].assignee \in {rows[w].assignee, None}
           \/ rows'[w].assignee \in Employees /\ EmployeeOrg[rows'[w].assignee] = rows[w].org
        /\ rows'[w].status = "Completed" => rows[w].status = "Completed" \/ q.op = "Complete"
        /\ rows'[w].approved => rows[w].approved \/ q.op = "Approve"
        /\ q.op = "Approve" => rows'[w].approved
    BY <1>2, <1>3, <1>4, MergeFacts
  <1>6. Written' = Written \union entries
    <2>1. OutboxEntries(q) \in Seq(OutboxRow) /\ outbox \in Seq(OutboxRow)
      BY <1>1, <1>2, OutboxEntriesType DEF TypeOK
    <2>2. outbox' = outbox \o OutboxEntries(q)
      BY DEF Save
    <2>3. {(outbox \o OutboxEntries(q))[i] : i \in DOMAIN (outbox \o OutboxEntries(q))}
            = {outbox[i] : i \in DOMAIN outbox} \union entries
      BY <2>1, WrittenConcat, Zenon
    <2>4. Written' = {outbox'[i] : i \in DOMAIN outbox'}
      BY DEF Written
    <2> QED
      BY <2>2, <2>3, <2>4, Zenon DEF Written
  <1>7. /\ \A m \in entries : m.wo = w /\ m.org = HeaderOrg(q.actor)
        /\ q.op = "Complete" =>
             /\ \E m \in entries : m.wo = w /\ m.type = "WorkOrderCompletedEvent"
             /\ \E m \in entries : /\ m.wo = w /\ m.type = "WorkOrderSearchDocument"
                                   /\ m.status = "Completed"
    <2>1. CASE q.op = "Complete"
      <3>1. entries = {CompletedEvent(w, HeaderOrg(q.actor)),
                       SearchDocument(w, HeaderOrg(q.actor), "Completed")}
        BY <2>1 DEF OutboxEntries
      <3>2. LET ev == CompletedEvent(w, HeaderOrg(q.actor))
                doc == SearchDocument(w, HeaderOrg(q.actor), "Completed")
            IN  /\ ev.wo = w /\ ev.org = HeaderOrg(q.actor) /\ ev.type = "WorkOrderCompletedEvent"
                /\ doc.wo = w /\ doc.org = HeaderOrg(q.actor) /\ doc.type = "WorkOrderSearchDocument"
                /\ doc.status = "Completed"
        BY DEF CompletedEvent, SearchDocument
      <3> HIDE DEF q, w, entries
      <3> QED
        BY <3>1, <3>2
    <2>2. CASE q.op # "Complete"
      BY <2>2 DEF OutboxEntries
    <2> QED
      BY <2>1, <2>2
  <1>8. /\ Exists(rows[w]) /\ HeaderOrg(q.actor) = rows[w].org
        /\ q.op = "Approve" => EventAmong(Written, w) /\ rows[w].customer # None
    BY <1>2, <1>3, RowAssumption DEF InFlightSound, InFlight, Decided
  <1>9. \A v \in WorkOrderIds : RowStable(rows[v], rows'[v])
    BY <1>4, <1>5 DEF RowStable
  <1>10. \A v \in WorkOrderIds : EventAmong(Written, v) => EventAmong(Written', v)
    BY <1>6 DEF EventAmong
  <1>11. q.op = "Complete" => EventAmong(Written', w)
    BY <1>6, <1>7 DEF EventAmong
  <1>12. /\ rows'[w].org = rows[w].org /\ rows'[w].customer = rows[w].customer
         /\ Exists(rows'[w]) /\ (rows[w].approved => rows'[w].approved)
    BY <1>5, <1>8 DEF RowStable
  <1>13. \A m \in Written : m.wo \in WorkOrderIds /\ Exists(rows[m.wo])
    BY <1>1, WrittenType DEF IInv, NothingDangling, OutboxRow
  <1>14. \A e \in audit : e.wo \in WorkOrderIds /\ Exists(rows[e.wo])
    BY <1>1 DEF IInv, NothingDangling, TypeOK, AuditEntry
  <1>15. RequestsSound'
    <2> SUFFICES ASSUME NEW s \in Requests, requests'[s] # Idle
                 PROVE  InFlightSound(requests'[s], rows'[requests'[s].wo],
                                      EventAmong(Written', requests'[s].wo))
      BY DEF RequestsSound
    <2>1. CASE s = r
      <3>1. requests'[s] = [q EXCEPT !.phase = "saved"] /\ q.op \in Audited
        BY <1>4, <2>1
      <3>2. /\ requests'[s].wo = w /\ requests'[s].op = q.op /\ requests'[s].actor = q.actor
            /\ requests'[s].read = q.read /\ requests'[s].tracked = q.tracked
        BY <1>2, <3>1 DEF InFlight
      <3>3. Decided(requests'[s])
        BY <1>3, <3>2 DEF InFlightSound, Decided
      <3> HIDE DEF q, w
      <3> QED
        BY <1>3, <1>5, <1>8, <1>10, <1>11, <1>12, <1>2, <3>2, <3>3 DEF InFlightSound
    <2>2. CASE s # r
      <3>1. requests'[s] = requests[s] /\ requests[s] # Idle
        BY <1>4, <2>2
      <3>2. requests[s].wo \in WorkOrderIds
        BY <1>1, <3>1 DEF TypeOK, Request, InFlight
      <3>3. InFlightSound(requests[s], rows[requests[s].wo], EventAmong(Written, requests[s].wo))
        BY <3>1 DEF IInv, RequestsSound
      <3>4. /\ EventAmong(Written, requests[s].wo) \in BOOLEAN
            /\ EventAmong(Written', requests[s].wo) \in BOOLEAN
        BY DEF EventAmong
      <3> QED
        BY <1>9, <1>10, <3>1, <3>2, <3>3, <3>4, InFlightKept
    <2> QED
      BY <2>1, <2>2
  <1> HIDE DEF q, w, entries
  <1>16. TenantIsolation'
    BY <1>2, <1>4, <1>5, <1>6, <1>7, <1>8, <1>12, <1>13, <1>14 DEF IInv, TenantIsolation
  <1>17. OutboxComplete'
    <2> SUFFICES ASSUME NEW v \in WorkOrderIds
                 PROVE  /\ Exists(rows'[v]) => HasDocument(v, "Open")'
                        /\ rows'[v].status = "Completed" =>
                             EventAmong(Written', v) /\ HasDocument(v, "Completed")'
      BY DEF OutboxComplete
    <2>1. \A status : HasDocument(v, status) => HasDocument(v, status)'
      BY <1>6 DEF HasDocument
    <2>2. v = w /\ q.op = "Complete" => HasDocument(v, "Completed")'
      BY <1>6, <1>7 DEF HasDocument
    <2> QED
      BY <1>4, <1>5, <1>8, <1>10, <1>11, <2>1, <2>2 DEF IInv, OutboxComplete
  <1>18. ApprovalFollowsCompletion'
    BY <1>4, <1>5, <1>8, <1>10, <1>12 DEF IInv, ApprovalFollowsCompletion
  <1>19. AuditTruthful'
    BY <1>4, <1>10, <1>12, <1>14 DEF IInv, AuditTruthful
  <1>20. NothingDangling'
    BY <1>2, <1>4, <1>6, <1>7, <1>12, <1>13, <1>14 DEF IInv, NothingDangling
  <1> QED
    BY <1>1, <1>15, <1>16, <1>17, <1>18, <1>19, <1>20 DEF IInv

(* IInv is inductive.                                                       *)
LEMMA InitSound ==
    ASSUME Init
    PROVE  IInv
  <1>1. TypeOK
    BY EmptySeq DEF Init, TypeOK, Row, AbsentRow, Request
  <1>2. Written = {}
    BY DEF Init, Written
  <1> QED
    BY <1>1, <1>2 DEF Init, IInv, TenantIsolation, OutboxComplete, ApprovalFollowsCompletion,
       AuditTruthful, RequestsSound, NothingDangling, AbsentRow

LEMMA NextSound ==
    ASSUME IInv, [Next]_vars
    PROVE  IInv'
  <1>1. ASSUME NEW a \in Employees, NEW w \in WorkOrderIds,
               NEW c \in Customers \union {None}, Create(a, w, c)
        PROVE  IInv'
    BY <1>1, CreateSound
  <1>2. ASSUME NEW r \in Requests, NEW a \in Employees, NEW w \in WorkOrderIds,
               EmployeeRequest(r, a, w)
        PROVE  IInv'
    BY <1>2, EmployeeRequestSound
  <1>3. ASSUME NEW r \in Requests, NEW c \in Customers, NEW w \in WorkOrderIds,
               Approve(r, c, w)
        PROVE  IInv'
    BY <1>3, ApproveSound
  <1>4. ASSUME NEW r \in Requests, Save(r)
        PROVE  IInv'
    BY <1>4, SaveSound
  <1>5. ASSUME NEW r \in Requests, Record(r)
        PROVE  IInv'
    BY <1>5, RecordSound
  <1>6. ASSUME NEW r \in Requests, Abandon(r)
        PROVE  IInv'
    <2>1. /\ requests'[r] = Idle /\ \A s \in Requests \ {r} : requests'[s] = requests[s]
          /\ rows' = rows /\ Written' = Written /\ audit' = audit /\ TypeOK'
      BY <1>6 DEF Abandon, IInv, TypeOK, Request, Written
    <2>2. RequestsSound'
      BY <2>1, OthersKept DEF RowStable
    <2>3. (TenantIsolation /\ OutboxComplete /\ ApprovalFollowsCompletion)'
      BY <2>1 DEF IInv, TenantIsolation, OutboxComplete, ApprovalFollowsCompletion, HasDocument
    <2> QED
      BY <2>1, <2>2, <2>3 DEF IInv, AuditTruthful, NothingDangling
  <1>7. CASE UNCHANGED vars
    <2>1. rows' = rows /\ Written' = Written /\ audit' = audit /\ requests' = requests /\ TypeOK'
      BY <1>7 DEF vars, Written, IInv, TypeOK
    <2>2. (TenantIsolation /\ OutboxComplete /\ ApprovalFollowsCompletion)'
      BY <2>1 DEF IInv, TenantIsolation, OutboxComplete, ApprovalFollowsCompletion, HasDocument
    <2> QED
      BY <2>1, <2>2 DEF IInv, AuditTruthful, NothingDangling, RequestsSound
  <1> QED
    BY <1>1, <1>2, <1>3, <1>4, <1>5, <1>6, <1>7 DEF Next

LEMMA Invariance == Spec => []IInv
  <1>1. Init => IInv
    BY InitSound
  <1>2. IInv /\ [Next]_vars => IInv'
    BY NextSound
  <1> QED
    BY <1>1, <1>2, PTL DEF Spec

(* Assignee, customer, outbox rows and audit entries stay in the            *)
(* organization of their work order, however requests overlap.              *)
THEOREM TenantsAreIsolated == Spec => []TenantIsolation
  <1>1. IInv => TenantIsolation
    BY DEF IInv
  <1> QED
    BY <1>1, Invariance, PTL

(* No work order is created without its search document or Completed        *)
(* without its event and its document.                                      *)
THEOREM OutboxIsComplete == Spec => []OutboxComplete
  <1>1. IInv => OutboxComplete
    BY DEF IInv
  <1> QED
    BY <1>1, Invariance, PTL

(* Only completed work of a customer is ever approved.                      *)
THEOREM ApprovalsFollowCompletion == Spec => []ApprovalFollowsCompletion
  <1>1. IInv => ApprovalFollowsCompletion
    BY DEF IInv
  <1> QED
    BY <1>1, Invariance, PTL

(* The audit log claims nothing that did not happen.                        *)
THEOREM AuditIsTruthful == Spec => []AuditTruthful
  <1>1. IInv => AuditTruthful
    BY DEF IInv
  <1> QED
    BY <1>1, Invariance, PTL

-----------------------------------------------------------------------------
(* What exclusive access to a work order would buy: the lifecycle.          *)

EInv == IInv /\ NoOverlap /\ CopyIsFresh

(* A request that is checked is no longer idle and names a work order that  *)
(* exists.                                                                  *)
LEMMA CheckedRequest ==
    ASSUME IInv, NEW r \in Requests, requests[r].phase = "checked"
    PROVE  /\ requests[r] \in InFlight("checked", Operations)
           /\ requests[r].wo \in WorkOrderIds /\ rows[requests[r].wo] \in Row
           /\ Exists(rows[requests[r].wo]) /\ Decided(requests[r])
  <1>1. requests[r] \in InFlight("checked", Operations) /\ requests[r] # Idle
    BY DEF IInv, TypeOK, Request, Idle, InFlight
  <1>2. InFlightSound(requests[r], rows[requests[r].wo], HasEvent(requests[r].wo))
    BY <1>1 DEF IInv, RequestsSound
  <1> QED
    BY <1>1, <1>2 DEF InFlightSound, InFlight, IInv, TypeOK

(* Copies stay fresh: a save touches only the work order of its request,    *)
(* and no other unsaved request has that one.                               *)
LEMMA FreshKept ==
    ASSUME EInv, [Next]_vars
    PROVE  CopyIsFresh'
  <1> USE DEF EInv
  <1> TypeOK
    BY DEF IInv
  <1> SUFFICES ASSUME NEW s \in Requests, requests'[s].phase = "checked"
               PROVE  requests'[s].read = rows'[requests'[s].wo]
    BY DEF CopyIsFresh
  <1> DEFINE Kept == requests'[s] = requests[s]
  <1>1. ASSUME NEW r \in Requests, NEW op, NEW a, NEW w \in WorkOrderIds, NEW t,
               Begin(r, op, a, w, t)
        PROVE  requests'[s].read = rows'[requests'[s].wo]
    BY <1>1 DEF Begin, CopyIsFresh, TypeOK
  <1>2. ASSUME NEW a \in Employees, NEW w \in WorkOrderIds,
               NEW c \in Customers \union {None}, Create(a, w, c)
        PROVE  requests'[s].read = rows'[requests'[s].wo]
    <2>1. requests'[s] = requests[s] /\ \A v \in WorkOrderIds \ {w} : rows'[v] = rows[v]
      BY <1>2 DEF Create, TypeOK
    <2>2. requests[s].wo \in WorkOrderIds \ {w}
      BY <1>2, <2>1, CheckedRequest DEF Create
    <2> QED
      BY <2>1, <2>2 DEF CopyIsFresh
  <1>3. ASSUME NEW r \in Requests, Save(r)
        PROVE  requests'[s].read = rows'[requests'[s].wo]
    <2>1. s # r /\ requests'[s] = requests[s]
      BY <1>3 DEF Save, TypeOK, Idle
    <2>2. requests[s].wo # requests[r].wo
      BY <1>3, <2>1 DEF Save, NoOverlap
    <2>3. requests[s].wo \in WorkOrderIds
      BY <2>1, CheckedRequest
    <2>4. rows'[requests[s].wo] = rows[requests[s].wo]
      BY <1>3, <2>2, <2>3 DEF Save, TypeOK
    <2> QED
      BY <2>1, <2>4 DEF CopyIsFresh
  <1>4. ASSUME NEW r \in Requests, Record(r) \/ Abandon(r)
        PROVE  requests'[s].read = rows'[requests'[s].wo]
    BY <1>4 DEF Record, Abandon, CopyIsFresh, TypeOK, Idle
  <1>5. ASSUME NEW r \in Requests, NEW a \in Employees, NEW w \in WorkOrderIds,
               EmployeeRequest(r, a, w)
        PROVE  requests'[s].read = rows'[requests'[s].wo]
    BY <1>1, <1>5, EmployeeRequestBegins
  <1>6. ASSUME NEW r \in Requests, NEW c \in Customers, NEW w \in WorkOrderIds, Approve(r, c, w)
        PROVE  requests'[s].read = rows'[requests'[s].wo]
    BY <1>1, <1>6, ApproveBegins
  <1>7. CASE UNCHANGED vars
    BY <1>7 DEF vars, CopyIsFresh
  <1> QED
    BY <1>2, <1>3, <1>4, <1>5, <1>6, <1>7 DEF Next

(* On a fresh copy the UPDATE stores the entity as the handler left it.     *)
LEMMA MergeFresh ==
    ASSUME NEW row \in Row, NEW tracked \in Row,
           tracked.org = row.org, tracked.customer = row.customer
    PROVE  Merge(row, row, tracked) = tracked
  <1> DEFINE m == Merge(row, row, tracked)
  <1>1. \A old, new : Column(old, old, new) = new
    BY DEF Column
  <1>2. /\ m = [status |-> m.status, org |-> m.org, customer |-> m.customer,
                assignee |-> m.assignee, notes |-> m.notes, approved |-> m.approved]
        /\ tracked = [status |-> tracked.status, org |-> tracked.org,
                      customer |-> tracked.customer, assignee |-> tracked.assignee,
                      notes |-> tracked.notes, approved |-> tracked.approved]
    <2>1. m \in Row
      BY MergeIsRow
    <2> HIDE DEF m
    <2> QED
      BY <2>1 DEF Row
  <1>3. m.status = tracked.status /\ m.org = row.org /\ m.customer = row.customer
    BY <1>1 DEF Merge, Row
  <1>4. m.assignee = tracked.assignee /\ m.notes = tracked.notes
    BY <1>1 DEF Merge, Row
  <1>5. m.approved = tracked.approved
    BY <1>1 DEF Merge, Row
  <1> HIDE DEF m
  <1>6. m = tracked
    BY <1>2, <1>3, <1>4, <1>5
  <1> QED
    BY <1>6 DEF m

(* So a save with nobody else at the same work order is the lifecycle step  *)
(* its request decided on.                                                  *)
LEMMA SaveStores ==
    ASSUME EInv, NEW r \in Requests, Save(r)
    PROVE  LET q == requests[r] IN
           /\ q \in InFlight("checked", Operations) /\ Decided(q)
           /\ q.wo \in WorkOrderIds /\ q.read = rows[q.wo]
           /\ rows' = [rows EXCEPT ![q.wo] = q.tracked]
  <1> DEFINE q == requests[r]
  <1>1. /\ q \in InFlight("checked", Operations) /\ Decided(q)
        /\ q.wo \in WorkOrderIds /\ rows[q.wo] \in Row
    BY CheckedRequest DEF Save, EInv
  <1>2. q.read = rows[q.wo]
    BY DEF Save, EInv, CopyIsFresh
  <1>3. q.tracked \in Row
    BY <1>1 DEF InFlight
  <1>4. q.tracked.org = q.read.org /\ q.tracked.customer = q.read.customer
    BY <1>1, <1>2 DEF Decided, InFlight, Operations, Row, AssignTo, ReassignTo, Unassigned,
       Started, Completed, Reopened, WithNote, Approved
  <1>5. Merge(rows[q.wo], q.read, q.tracked) = q.tracked
    BY <1>1, <1>2, <1>3, <1>4, MergeFresh
  <1>6. rows' = [rows EXCEPT ![q.wo] = Merge(@, q.read, q.tracked)]
    BY DEF Save
  <1>7. rows' = [rows EXCEPT ![q.wo] = q.tracked]
    BY <1>5, <1>6
  <1> QED
    BY <1>1, <1>2, <1>7

LEMMA SaveIsLifecycleStep ==
    ASSUME EInv, NEW r \in Requests, Save(r)
    PROVE  Lifecycle!Next
  <1> DEFINE q == requests[r]
             row == rows[q.wo]
  <1>1. /\ q \in InFlight("checked", Operations) /\ Decided(q)
        /\ q.wo \in WorkOrderIds /\ q.read = row
        /\ rows' = [rows EXCEPT ![q.wo] = q.tracked]
    BY SaveStores
  <1>2. q.op \in Operations /\ InFlightSound(q, row, HasEvent(q.wo))
    BY <1>1 DEF InFlight, EInv, IInv, RequestsSound, Idle
  <1> HIDE DEF q, row
  <1> SUFFICES Lifecycle!Step(q.wo)
    BY <1>1 DEF Lifecycle!Next
  <1> USE <1>1 DEF Decided, Lifecycle!Step, Lifecycle!Change, row
  <1>3. CASE q.op = "Assign"
    BY <1>3 DEF Lifecycle!Assign, Lifecycle!Assignable, Lifecycle!AssignTo, Assignable, AssignTo
  <1>4. CASE q.op = "Reassign"
    BY <1>4 DEF Lifecycle!Reassign, Lifecycle!Reassignable, Lifecycle!ReassignTo,
                Reassignable, ReassignTo
  <1>5. CASE q.op = "Unassign"
    BY <1>5 DEF Lifecycle!Unassign, Lifecycle!Unassignable, Lifecycle!Unassigned,
                Unassignable, Unassigned
  <1>6. CASE q.op = "Start"
    BY <1>6 DEF Lifecycle!Start, Lifecycle!Startable, Lifecycle!Started, Startable, Started
  <1>7. CASE q.op = "Complete"
    BY <1>7 DEF Lifecycle!Complete, Lifecycle!Completable, Lifecycle!Completed,
                Completable, Completed
  <1>8. CASE q.op = "Reopen"
    BY <1>8 DEF Lifecycle!Reopen, Lifecycle!Reopenable, Lifecycle!Reopened,
                Reopenable, Reopened
  <1>9. CASE q.op = "AddEvidence"
    BY <1>9 DEF Lifecycle!AddEvidence, Lifecycle!TakesEvidence, Lifecycle!WithNote,
                Lifecycle!Exists, TakesEvidence, WithNote
  <1>10. CASE q.op = "Approve"
    <2>1. row.customer # None
      BY <1>10, RowAssumption
    <2> QED
      BY <1>10, <2>1 DEF Lifecycle!Approve, Lifecycle!Approvable, Lifecycle!Approved,
                Approvable, Approved
  <1> QED
    BY <1>2, <1>3, <1>4, <1>5, <1>6, <1>7, <1>8, <1>9, <1>10 DEF Operations

(* Every step of the endpoints without overlap is a lifecycle step of the   *)
(* table or leaves the table alone.                                         *)
LEMMA StepsRefine ==
    ASSUME EInv, [Next]_vars
    PROVE  [Lifecycle!Next]_rows
  <1> TypeOK
    BY DEF EInv, IInv
  <1>1. ASSUME NEW a \in Employees, NEW w \in WorkOrderIds,
               NEW c \in Customers \union {None}, Create(a, w, c)
        PROVE  Lifecycle!Next
    <2>1. EmployeeOrg[a] \in Organizations
      BY RowAssumption
    <2>2. Lifecycle!Create(w, EmployeeOrg[a], c)
      BY <1>1 DEF Create, Lifecycle!Create, Lifecycle!Exists, Lifecycle!Change,
                  Lifecycle!NewRow, Lifecycle!AbsentRow, NewRow, AbsentRow
    <2> QED
      BY <2>1, <2>2 DEF Lifecycle!Next, Lifecycle!Step
  <1>2. ASSUME NEW r \in Requests, NEW a \in Employees, NEW w \in WorkOrderIds,
               EmployeeRequest(r, a, w)
        PROVE  rows' = rows
    BY <1>2, EmployeeRequestBegins DEF Begin
  <1>3. ASSUME NEW r \in Requests, NEW c \in Customers, NEW w \in WorkOrderIds, Approve(r, c, w)
        PROVE  rows' = rows
    BY <1>3, ApproveBegins DEF Begin
  <1>4. ASSUME NEW r \in Requests, Record(r) \/ Abandon(r)
        PROVE  rows' = rows
    BY <1>4 DEF Record, Abandon
  <1> QED
    BY <1>1, <1>2, <1>3, <1>4, SaveIsLifecycleStep DEF Next, vars

(* With exclusive access the invariants of the open system hold, and every  *)
(* copy is fresh.                                                           *)
LEMMA ExclusiveInvariance == ExclusiveSpec => []EInv
  <1>1. Init => EInv
    <2> SUFFICES ASSUME Init PROVE NoOverlap /\ CopyIsFresh
      BY InitSound DEF EInv
    <2> QED
      BY DEF Init, NoOverlap, CopyIsFresh, Idle
  <1>2. EInv /\ [Next /\ NoOverlap']_vars => EInv'
    <2> SUFFICES ASSUME EInv, [Next /\ NoOverlap']_vars PROVE EInv'
      OBVIOUS
    <2>1. IInv' /\ CopyIsFresh'
      BY NextSound, FreshKept DEF EInv
    <2>2. NoOverlap'
      BY DEF EInv, vars, NoOverlap
    <2> QED
      BY <2>1, <2>2 DEF EInv
  <1> QED
    BY <1>1, <1>2, PTL DEF ExclusiveSpec

(* If no two unsaved requests hold the same work order, the table moves     *)
(* exactly as the state machine of IWorkOrderDirectory says.                *)
THEOREM ExclusiveImplementsLifecycle == ExclusiveSpec => ImplementsLifecycle
  <1>1. Init => Lifecycle!Init
    BY DEF Init, Lifecycle!Init, AbsentRow, Lifecycle!AbsentRow
  <1>2. EInv /\ [Next /\ NoOverlap']_vars => [Lifecycle!Next]_rows
    BY StepsRefine DEF vars
  <1> QED
    BY <1>1, <1>2, ExclusiveInvariance, PTL DEF ExclusiveSpec, ImplementsLifecycle, Lifecycle!Spec

OnRecord(row) ==
    row.status \in {"Assigned", "InProgress", "Completed"} <=> row.assignee # None

(* What the two changes of a row that set its assignee leave in the other   *)
(* columns.                                                                 *)
LEMMA AssigneeColumns ==
    ASSUME NEW row \in Row, NEW e \in Employees
    PROVE  /\ AssignTo(row, e).status = "Assigned" /\ AssignTo(row, e).assignee = e
           /\ AssignTo(row, e).notes = row.notes
           /\ ReassignTo(row, e).status = row.status /\ ReassignTo(row, e).assignee = e
           /\ ReassignTo(row, e).notes = row.notes
  BY DEF Row, AssignTo, ReassignTo

(* A decision on a row with the right assignee leaves one.                  *)
LEMMA DecisionKeeps ==
    ASSUME NEW q \in InFlight("checked", Operations), Decided(q)
    PROVE  OnRecord(q.read) => OnRecord(q.tracked)
  <1>1. q.op \in Operations /\ q.read \in Row /\ q.tracked \in Row
    BY DEF InFlight
  <1> USE <1>1 DEF Decided, OnRecord
  <1>2. CASE q.op = "Assign"
    BY <1>2, AssigneeColumns, RowAssumption
  <1>3. CASE q.op = "Reassign"
    BY <1>3, AssigneeColumns, RowAssumption DEF Reassignable
  <1>4. CASE q.op = "Unassign"
    <2>1. q.tracked.status = "Open" /\ q.tracked.assignee = None
      BY <1>4 DEF Row, Unassigned
    <2> QED
      BY <2>1
  <1>5. CASE q.op \in {"Start", "Complete", "Reopen"}
    BY <1>5 DEF Row, Started, Completed, Reopened, Startable, Completable, Reopenable
  <1>6. CASE q.op = "AddEvidence"
    BY <1>6 DEF Row, WithNote, TakesEvidence
  <1>7. CASE q.op = "Approve"
    BY <1>7 DEF Row, Approved, Approvable
  <1> QED
    BY <1>1, <1>2, <1>3, <1>4, <1>5, <1>6, <1>7 DEF Operations

(* The rows a step without overlap may change, and what it makes of them.   *)
LEMMA RowSteps ==
    ASSUME EInv, [Next]_vars, NEW w \in WorkOrderIds
    PROVE  OnRecord(rows[w]) => OnRecord(rows'[w])
  <1> DEFINE Fine == OnRecord(rows[w]) => OnRecord(rows'[w])
  <1> TypeOK
    BY DEF EInv, IInv
  <1>1. ASSUME rows' = rows
        PROVE  Fine
    BY <1>1
  <1>2. ASSUME NEW a \in Employees, NEW v \in WorkOrderIds,
               NEW c \in Customers \union {None}, Create(a, v, c)
        PROVE  Fine
    <2>1. CASE w # v
      BY <1>2, <2>1 DEF Create, TypeOK
    <2>2. CASE w = v
      <3>1. rows'[w] = NewRow(EmployeeOrg[a], c) /\ ~Exists(rows[w])
        BY <1>2, <2>2 DEF Create, TypeOK
      <3> QED
        BY <3>1 DEF NewRow, AbsentRow, OnRecord
    <2> QED
      BY <2>1, <2>2
  <1>3. ASSUME NEW r \in Requests, Save(r)
        PROVE  Fine
    <2>1. CASE w = requests[r].wo
      <3>1. rows'[w] = requests[r].tracked /\ rows[w] = requests[r].read
        BY <1>3, <2>1, SaveStores DEF TypeOK
      <3> QED
        BY <1>3, <3>1, SaveStores, DecisionKeeps
    <2>2. CASE w # requests[r].wo
      BY <1>3, <2>2, SaveStores DEF TypeOK
    <2> QED
      BY <2>1, <2>2
  <1>4. ASSUME NEW r \in Requests, NEW a \in Employees, NEW v \in WorkOrderIds,
               EmployeeRequest(r, a, v)
        PROVE  rows' = rows
    BY <1>4, EmployeeRequestBegins DEF Begin
  <1>5. ASSUME NEW r \in Requests, NEW c \in Customers, NEW v \in WorkOrderIds, Approve(r, c, v)
        PROVE  rows' = rows
    BY <1>5, ApproveBegins DEF Begin
  <1>6. ASSUME NEW r \in Requests, Record(r) \/ Abandon(r)
        PROVE  rows' = rows
    BY <1>6 DEF Record, Abandon
  <1> QED
    BY <1>1, <1>2, <1>3, <1>4, <1>5, <1>6 DEF Next, vars

(* Exclusive access puts the assignee on record throughout, which the       *)
(* comment on Reopen takes for granted.                                     *)
THEOREM AssigneeIsOnRecord == ExclusiveSpec => []AssigneeOnRecord
  <1>1. Init => AssigneeOnRecord
    <2> SUFFICES ASSUME Init, NEW w \in WorkOrderIds
                 PROVE  rows[w].status = "Absent" /\ rows[w].assignee = None
      BY DEF AssigneeOnRecord
    <2> QED
      BY DEF Init, AbsentRow
  <1>2. EInv /\ AssigneeOnRecord /\ [Next /\ NoOverlap']_vars => AssigneeOnRecord'
    BY RowSteps DEF AssigneeOnRecord, OnRecord
  <1> QED
    BY <1>1, <1>2, ExclusiveInvariance, PTL DEF ExclusiveSpec

(* With exclusive access, as many completion events as completions.         *)
THEOREM EventsAreOfCompletions == ExclusiveSpec => EventsAreCompletions
  <1> DEFINE Genuine == \A r \in Requests :
         (Save(r) /\ requests[r].op = "Complete") =>
            /\ rows[requests[r].wo].status = "InProgress"
            /\ rows[requests[r].wo].assignee = requests[r].actor
  <1>1. EInv /\ [Next /\ NoOverlap']_vars => [Genuine]_vars
    <2> SUFFICES ASSUME EInv, NEW r \in Requests, Save(r), requests[r].op = "Complete"
                 PROVE  /\ rows[requests[r].wo].status = "InProgress"
                        /\ rows[requests[r].wo].assignee = requests[r].actor
      OBVIOUS
    <2> QED
      BY SaveStores DEF Decided, Completable
  <1> QED
    BY <1>1, ExclusiveInvariance, PTL DEF ExclusiveSpec, EventsAreCompletions

(* With exclusive access Complete, Start and Reopen keep the preconditions  *)
(* IWorkOrderDirectory documents: whatever becomes Completed was InProgress *)
(* and whatever becomes InProgress was Assigned or Completed.  The run of a *)
(* raced transition shows that the code, without such access, does not.     *)
THEOREM TransitionsKeepPreconditions == ExclusiveSpec => TransitionsRequireState
  <1> DEFINE Required(w) ==
         /\ (rows'[w].status = "Completed" /\ rows[w].status # "Completed")
                => Completable(rows[w])
         /\ (rows'[w].status = "InProgress" /\ rows[w].status # "InProgress")
                => Startable(rows[w]) \/ Reopenable(rows[w])
  <1>1. EInv /\ [Next /\ NoOverlap']_vars => [\A w \in WorkOrderIds : Required(w)]_vars
    <2> SUFFICES ASSUME EInv, Next, NEW w \in WorkOrderIds
                 PROVE  Required(w)
      OBVIOUS
    <2> TypeOK
      BY DEF EInv, IInv
    <2>1. ASSUME rows'[w] = rows[w]
          PROVE  Required(w)
      BY <2>1
    <2>2. ASSUME NEW a \in Employees, NEW v \in WorkOrderIds,
                 NEW c \in Customers \union {None}, Create(a, v, c)
          PROVE  Required(w)
      <3>1. CASE w # v
        <4>1. rows'[w] = rows[w]
          BY <2>2, <3>1 DEF Create, TypeOK
        <4> QED
          BY <4>1, <2>1
      <3>2. CASE w = v
        <4>1. rows'[w].status = "Open"
          BY <2>2, <3>2 DEF Create, TypeOK, NewRow, AbsentRow
        <4> QED
          BY <4>1
      <3> QED
        BY <3>1, <3>2
    <2>3. ASSUME NEW r \in Requests, Save(r)
          PROVE  Required(w)
      <3> DEFINE q == requests[r]
      <3>1. CASE w # q.wo
        <4>1. rows'[w] = rows[w]
          BY <2>3, <3>1, SaveStores DEF TypeOK
        <4> QED
          BY <4>1, <2>1
      <3>2. CASE w = q.wo
        <4>1. rows'[w] = q.tracked /\ rows[w] = q.read
          BY <2>3, <3>2, SaveStores DEF TypeOK
        <4>2. q \in InFlight("checked", Operations) /\ Decided(q)
          BY <2>3, SaveStores
        <4>3. /\ q.tracked.status = "Completed" /\ q.read.status # "Completed"
                    => Completable(q.read)
              /\ q.tracked.status = "InProgress" /\ q.read.status # "InProgress"
                    => Startable(q.read) \/ Reopenable(q.read)
          BY <4>2 DEF InFlight, Decided, Operations, Row, AssignTo, ReassignTo, Unassigned,
             Started, Completed, Reopened, WithNote, Approved, Startable, Completable, Reopenable
        <4> QED
          BY <4>1, <4>3
      <3> QED
        BY <3>1, <3>2
    <2>4. ASSUME NEW r \in Requests, NEW a \in Employees, NEW v \in WorkOrderIds,
                 EmployeeRequest(r, a, v)
          PROVE  rows' = rows
      BY <2>4, EmployeeRequestBegins DEF Begin
    <2>5. ASSUME NEW r \in Requests, NEW c \in Customers, NEW v \in WorkOrderIds, Approve(r, c, v)
          PROVE  rows' = rows
      BY <2>5, ApproveBegins DEF Begin
    <2>6. ASSUME NEW r \in Requests, Record(r) \/ Abandon(r)
          PROVE  rows' = rows
      BY <2>6 DEF Record, Abandon
    <2> QED
      BY <2>1, <2>2, <2>3, <2>4, <2>5, <2>6 DEF Next
  <1> QED
    BY <1>1, ExclusiveInvariance, PTL DEF ExclusiveSpec, TransitionsRequireState

-----------------------------------------------------------------------------
(* Evidence, however requests overlap.                                      *)

Blank(row) == ~Exists(row) => row.notes = {}

(* Only AddEvidence changes the notes of the entity, and it keeps those it  *)
(* has read.                                                                *)
LEMMA DecisionOnNotes ==
    ASSUME NEW q \in InFlight("checked", Operations), Decided(q)
    PROVE  /\ Exists(q.tracked)
           /\ q.read.notes \subseteq q.tracked.notes
           /\ q.op # "AddEvidence" => q.tracked.notes = q.read.notes
  <1>1. q.op \in Operations /\ q.read \in Row /\ q.tracked \in Row
    BY DEF InFlight
  <1> USE <1>1 DEF Decided, Row, Exists
  <1>2. CASE q.op = "Assign"
    BY <1>2 DEF AssignTo
  <1>3. CASE q.op = "Reassign"
    BY <1>3 DEF ReassignTo, Reassignable
  <1>4. CASE q.op \in {"Unassign", "Start", "Complete", "Reopen"}
    BY <1>4 DEF Unassigned, Started, Completed, Reopened
  <1>5. CASE q.op = "AddEvidence"
    BY <1>5 DEF WithNote, TakesEvidence
  <1>6. CASE q.op = "Approve"
    BY <1>6 DEF Approved, Approvable
  <1> QED
    BY <1>2, <1>3, <1>4, <1>5, <1>6 DEF Operations

(* What a save makes of the row it finds.                                   *)
LEMMA SaveMerges ==
    ASSUME IInv, NEW r \in Requests, Save(r)
    PROVE  LET q == requests[r] IN
           /\ q \in InFlight("checked", Operations) /\ Decided(q)
           /\ \A v \in WorkOrderIds \ {q.wo} : rows'[v] = rows[v]
           /\ rows'[q.wo].notes = Column(rows[q.wo].notes, q.read.notes, q.tracked.notes)
           /\ Exists(rows[q.wo])
           /\ Exists(rows'[q.wo])
  <1> DEFINE q == requests[r]
  <1>1. TypeOK /\ q.phase = "checked"
    BY DEF IInv, Save
  <1>2. /\ q \in InFlight("checked", Operations) /\ q.wo \in WorkOrderIds
        /\ rows[q.wo] \in Row /\ Exists(rows[q.wo]) /\ Decided(q)
    BY <1>1, CheckedRequest
  <1>3. PICK new : new = Merge(rows[q.wo], q.read, q.tracked)
    OBVIOUS
  <1>4. rows' = [rows EXCEPT ![q.wo] = new]
    BY <1>3 DEF Save
  <1>5. /\ new.notes = Column(rows[q.wo].notes, q.read.notes, q.tracked.notes)
        /\ new.status = Column(rows[q.wo].status, q.read.status, q.tracked.status)
    BY <1>2, <1>3 DEF Merge, Row, InFlight
  <1>6. Exists(new)
    BY <1>2, <1>5, DecisionOnNotes DEF Column, Exists
  <1> QED
    BY <1>1, <1>2, <1>4, <1>5, <1>6 DEF TypeOK

LEMMA NotesStep ==
    ASSUME IInv, \A w \in WorkOrderIds : Blank(rows[w]), [Next]_vars, NEW w \in WorkOrderIds
    PROVE  /\ Blank(rows'[w])
           /\ \A n \in rows[w].notes \ rows'[w].notes :
                 \E r \in Requests :
                     /\ Save(r)
                     /\ requests[r].op = "AddEvidence" /\ requests[r].wo = w
                     /\ n \notin requests[r].read.notes
  <1> DEFINE Lost(n) == \E r \in Requests :
                     /\ Save(r)
                     /\ requests[r].op = "AddEvidence" /\ requests[r].wo = w
                     /\ n \notin requests[r].read.notes
             Fine == Blank(rows'[w]) /\ \A n \in rows[w].notes \ rows'[w].notes : Lost(n)
  <1> TypeOK
    BY DEF IInv
  <1>1. ASSUME rows'[w] = rows[w]
        PROVE  Fine
    BY <1>1
  <1>2. ASSUME NEW a \in Employees, NEW v \in WorkOrderIds,
               NEW c \in Customers \union {None}, Create(a, v, c)
        PROVE  Fine
    <2>1. CASE w # v
      BY <1>1, <1>2, <2>1 DEF Create, TypeOK
    <2>2. CASE w = v
      <3>1. rows'[w] = NewRow(EmployeeOrg[a], c) /\ ~Exists(rows[w])
        BY <1>2, <2>2 DEF Create, TypeOK
      <3>2. rows[w].notes = {}
        BY <3>1 DEF Blank
      <3> QED
        BY <3>1, <3>2 DEF NewRow, AbsentRow, Blank, Exists
    <2> QED
      BY <2>1, <2>2
  <1>3. ASSUME NEW r \in Requests, Save(r)
        PROVE  Fine
    <2> DEFINE q == requests[r]
    <2>1. CASE w # q.wo
      BY <1>1, <1>3, <2>1, SaveMerges
    <2>2. CASE w = q.wo
      <3>1. /\ q \in InFlight("checked", Operations) /\ Decided(q) /\ Exists(rows'[w])
            /\ rows'[w].notes = Column(rows[w].notes, q.read.notes, q.tracked.notes)
        BY <1>3, <2>2, SaveMerges
      <3>2. /\ q.read.notes \subseteq q.tracked.notes
            /\ q.op # "AddEvidence" => q.tracked.notes = q.read.notes
        BY <3>1, DecisionOnNotes
      <3>3. ASSUME NEW n \in rows[w].notes \ rows'[w].notes
            PROVE  Lost(n)
        <4>1. q.op = "AddEvidence" /\ n \notin q.read.notes
          BY <3>1, <3>2 DEF Column
        <4> QED
          BY <1>3, <2>2, <4>1
      <3> QED
        BY <3>1, <3>3 DEF Blank
    <2> QED
      BY <2>1, <2>2
  <1>4. ASSUME NEW r \in Requests, NEW a \in Employees, NEW v \in WorkOrderIds,
               EmployeeRequest(r, a, v)
        PROVE  rows' = rows
    BY <1>4, EmployeeRequestBegins DEF Begin
  <1>5. ASSUME NEW r \in Requests, NEW c \in Customers, NEW v \in WorkOrderIds, Approve(r, c, v)
        PROVE  rows' = rows
    BY <1>5, ApproveBegins DEF Begin
  <1>6. ASSUME NEW r \in Requests, Record(r) \/ Abandon(r)
        PROVE  rows' = rows
    BY <1>6 DEF Record, Abandon
  <1> QED
    BY <1>1, <1>2, <1>3, <1>4, <1>5, <1>6 DEF Next, vars

(* Evidence is lost only to evidence: no request but an AddEvidence that    *)
(* read the work order before a note was stored takes the note away.        *)
THEOREM NotesAreLostOnlyToNotes == Spec => NotesLostOnlyToNotes
  <1> DEFINE AllBlank == \A w \in WorkOrderIds : Blank(rows[w])
             LostToNotes == \A w \in WorkOrderIds : \A n \in rows[w].notes \ rows'[w].notes :
                 \E r \in Requests :
                     /\ Save(r)
                     /\ requests[r].op = "AddEvidence" /\ requests[r].wo = w
                     /\ n \notin requests[r].read.notes
  <1>1. Init => AllBlank
    BY DEF Init, AbsentRow, Blank
  <1>2. IInv /\ AllBlank /\ [Next]_vars => AllBlank' /\ [LostToNotes]_vars
    BY NotesStep
  <1> HIDE DEF AllBlank
  <1> QED
    BY <1>1, <1>2, Invariance, PTL DEF Spec, NotesLostOnlyToNotes
=============================================================================
