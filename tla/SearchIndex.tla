------------------------------ MODULE SearchIndex ------------------------------
(***************************************************************************)
(* The Elasticsearch copy of the work orders: the WorkOrderSearchDocument   *)
(* rows that Create and Complete put in the outbox, the OutboxPublisher     *)
(* that hands them to ElasticsearchWorkOrderSearchIndex, and the endpoint   *)
(* that rebuilds one organization's part of the index from the table.       *)
(*                                                                         *)
(* A document is its work order and the status it shows; IndexAsync         *)
(* overwrites what was there.  Every call may fail, because Elasticsearch   *)
(* cannot be reached or because two seconds have passed: failures, process  *)
(* stops and losses of the index are at most MaxFaults in a behaviour.      *)
(* Every call of a process passes its circuit breaker, which shuts out all  *)
(* of them for a while when failures follow one another.                    *)
(***************************************************************************)
EXTENDS Naturals, Sequences, FiniteSets

CONSTANTS
    WorkOrderIds,
    Organizations,
    OrgOf,         \* the organization of each work order
    Publishers,    \* running OutboxPublishers, one per FieldOps.Api process
    Rebuilds,      \* rebuild requests that may run at the same time
    ProcessOf,     \* the process of each rebuild, named by its publisher
    MaxOutbox,     \* bound on the outbox, which only grows
    MaxFaults,     \* bound on the faults of a behaviour
    None

(* Underway stands for Assigned and InProgress, which no step here tells    *)
(* apart.                                                                   *)
Statuses == {"Open", "Underway", "Completed"}

ASSUME SearchAssumption ==
    /\ OrgOf \in [WorkOrderIds -> Organizations]
    /\ ProcessOf \in [Rebuilds -> Publishers]
    /\ MaxOutbox \in Nat /\ MaxFaults \in Nat
    /\ None \notin Statuses /\ None \notin Organizations

VARIABLES
    status,     \* the Status column of each work order
    outbox,     \* the search documents announced, in CreatedAtUtc order
    published,  \* positions in outbox with PublishedAtUtc set
    publisher,  \* what is left of each publisher's tick
    index,      \* the document of each work order in Elasticsearch
    rebuild,    \* the progress of each rebuild request
    breaker,    \* the circuit breaker of each process
    removed,    \* work orders whose document was deleted and not indexed since (observer)
    calm,       \* nothing has set work orders back in the index (observer)
    faults

tableVars == <<status, outbox>>
vars == <<tableVars, published, publisher, index, rebuild, breaker, removed, calm, faults>>

Document == [id : WorkOrderIds, status : Statuses]

(* batch: rows still to be tried; sent: the row just indexed, 0 for none;   *)
(* unsaved: rows whose mark failed to be saved, still tracked as modified   *)
(* by the DbContext of the tick.                                            *)
Tick == [batch : SUBSET Nat, sent : Nat, unsaved : SUBSET Nat]
NoTick == [batch |-> {}, sent |-> 0, unsaved |-> {}]

NoDocuments == [w \in WorkOrderIds |-> None]
NoRebuild == [phase |-> "idle", org |-> None, docs |-> NoDocuments, raced |-> FALSE]

(* raced: a work order of the organization was created between the read and *)
(* the delete, another rebuild of the organization was in flight as well,   *)
(* or the index was lost (observer).                                        *)
RebuildState == [phase : {"idle", "clearing", "writing"},
                 org   : Organizations \union {None},
                 docs  : [WorkOrderIds -> Statuses \union {None}],
                 raced : BOOLEAN]

InFlight == {r \in Rebuilds : rebuild[r].phase # "idle"}

(* suspect: failures and no success in the last ten seconds; halfOpen: the  *)
(* break is over, and the next call decides.                                *)
BreakerStates == {"closed", "suspect", "open", "halfOpen"}

(* A fault, and whether it sets work orders back in the index.              *)
Fault(disturbs) ==
    /\ faults < MaxFaults /\ faults' = faults + 1
    /\ calm' = (calm /\ ~disturbs)

NoFault == UNCHANGED <<faults, calm>>

(* A request changes the table, maybe behind the back of a rebuild.         *)
Request ==
    /\ calm' = (calm /\ InFlight = {})
    /\ UNCHANGED faults

(* What the requests in rs read or write is no longer all there is.         *)
Raced(rs) ==
    [r \in Rebuilds |-> IF r \in rs THEN [rebuild[r] EXCEPT !.raced = TRUE] ELSE rebuild[r]]

Init ==
    /\ status = [w \in WorkOrderIds |-> "Absent"]
    /\ outbox = <<>> /\ published = {}
    /\ publisher = [p \in Publishers |-> NoTick]
    /\ index = NoDocuments
    /\ rebuild = [r \in Rebuilds |-> NoRebuild]
    /\ breaker = [p \in Publishers |-> "closed"]
    /\ removed = {}
    /\ calm = TRUE /\ faults = 0

-----------------------------------------------------------------------------
(* The table.  A request checks a copy of the row that it has read earlier, *)
(* and its save goes over what others have saved since (module WorkOrders): *)
(* any of them may find the work order in any status.                       *)

\* Faulty: the document shows the work order before the change.
AnnounceOld(w, new) ==
    /\ Len(outbox) < MaxOutbox
    /\ outbox' = Append(outbox, [id |-> w, status |-> status[w]])

(* The change of status and the outbox row are saved in one transaction.    *)
Announce(w, new) ==
    /\ Len(outbox) < MaxOutbox
    /\ outbox' = Append(outbox, [id |-> w, status |-> new])

Create(w) ==
    /\ status[w] = "Absent"
    /\ status' = [status EXCEPT ![w] = "Open"]
    /\ Announce(w, "Open")
    /\ rebuild' = Raced({r \in Rebuilds : /\ rebuild[r].phase = "clearing"
                                          /\ rebuild[r].org = OrgOf[w]})
    /\ UNCHANGED <<published, publisher, index, breaker, removed>> /\ Request

\* Faulty: the completion is only announced to RabbitMQ.
CompleteEventOnly(w) ==
    /\ status[w] # "Absent"
    /\ status' = [status EXCEPT ![w] = "Completed"]
    /\ UNCHANGED <<outbox, published, publisher, index, rebuild, breaker, removed>> /\ Request

Complete(w) ==
    /\ status[w] # "Absent"
    /\ status' = [status EXCEPT ![w] = "Completed"]
    /\ Announce(w, "Completed")
    /\ UNCHANGED <<published, publisher, index, rebuild, breaker, removed>> /\ Request

(* Assign, Start, Unassign and Reopen write no search document.             *)
Change(w, new) ==
    /\ status[w] # "Absent" /\ new \notin {status[w], "Completed"}
    /\ status' = [status EXCEPT ![w] = new]
    /\ UNCHANGED <<outbox, published, publisher, index, rebuild, breaker, removed>> /\ Request

-----------------------------------------------------------------------------
(* The circuit breaker.  A success counts against opening as long as it is  *)
(* remembered, a failure for opening; only an open one rejects calls.       *)

Admits(p) == breaker[p] # "open"

Succeeds(p) == Admits(p) /\ breaker' = [breaker EXCEPT ![p] = "closed"]

AfterFailure(state) ==
    CASE state = "closed"   -> {"closed", "suspect"}
      [] state = "suspect"  -> {"suspect", "open"}
      [] state = "halfOpen" -> {"open"}
      [] OTHER -> {}

Fails(p) == \E next \in AfterFailure(breaker[p]) : breaker' = [breaker EXCEPT ![p] = next]

\* Faulty: a rejected call prolongs the break.
BreakEndsWhenQuiet(p) ==
    /\ breaker[p] = "open" /\ published = DOMAIN outbox
    /\ breaker' = [breaker EXCEPT ![p] = "halfOpen"]
    /\ UNCHANGED <<tableVars, published, publisher, index, rebuild, removed>> /\ NoFault

(* Fifteen seconds have passed.                                             *)
BreakEnds(p) ==
    /\ breaker[p] = "open"
    /\ breaker' = [breaker EXCEPT ![p] = "halfOpen"]
    /\ UNCHANGED <<tableVars, published, publisher, index, rebuild, removed>> /\ NoFault

(* SearchAsync, and EnsureIndexExistsAsync at the start: calls that change  *)
(* no document and share the breaker.                                       *)
Search(p) ==
    /\ Succeeds(p)
    /\ UNCHANGED <<tableVars, published, publisher, index, rebuild, removed>> /\ NoFault

SearchFails(p) ==
    /\ Fails(p)
    /\ UNCHANGED <<tableVars, published, publisher, index, rebuild, removed>> /\ Fault(FALSE)

-----------------------------------------------------------------------------
(* The publisher.                                                           *)

(* IndexAsync: an upsert of the whole document.                             *)
Store(w, new) ==
    /\ index' = [index EXCEPT ![w] = new]
    /\ removed' = removed \ {w}

(* A call that fails may have reached Elasticsearch all the same.           *)
StoreFails(w, new) ==
    \/ Store(w, new)
    \/ UNCHANGED <<index, removed>>

StartTick(p) ==
    /\ publisher[p].batch = {} /\ publisher[p].sent = 0
    /\ DOMAIN outbox \ published # {}
    /\ publisher' = [publisher EXCEPT ![p] = [NoTick EXCEPT !.batch = DOMAIN outbox \ published]]
    /\ UNCHANGED <<tableVars, published, index, rebuild, breaker, removed>> /\ NoFault

\* Faulty: the newest row first.
NewestFirst(p, i) ==
    /\ publisher[p].sent = 0
    /\ i \in publisher[p].batch
    /\ \A j \in publisher[p].batch : j <= i

(* The rows of a tick are taken in the order they were written.             *)
NextRow(p, i) ==
    /\ publisher[p].sent = 0
    /\ i \in publisher[p].batch
    /\ \A j \in publisher[p].batch : i <= j

IndexRow(p, i) ==
    /\ NextRow(p, i) /\ Succeeds(p)
    /\ Store(outbox[i].id, outbox[i].status)
    /\ publisher' = [publisher EXCEPT ![p].batch = @ \ {i}, ![p].sent = i]
    /\ UNCHANGED <<tableVars, published, rebuild>> /\ NoFault

\* Faulty: the client does not throw, and the answer is not looked at.
FailureUnnoticed(p, i) ==
    /\ NextRow(p, i) /\ Succeeds(p)
    /\ StoreFails(outbox[i].id, outbox[i].status)
    /\ publisher' = [publisher EXCEPT ![p].batch = @ \ {i}, ![p].sent = i]
    /\ UNCHANGED <<tableVars, published, rebuild>> /\ Fault(FALSE)

(* A row that is passed over is retried in the next tick, after the rows of *)
(* its work order that are in this one.                                     *)
Overtaken(p, i) == \E j \in publisher[p].batch \ {i} : outbox[j].id = outbox[i].id

(* IndexAsync throws: the row waits for the next tick, the rows after it    *)
(* do not.                                                                  *)
IndexRowFails(p, i) ==
    /\ NextRow(p, i) /\ Fails(p)
    /\ StoreFails(outbox[i].id, outbox[i].status)
    /\ publisher' = [publisher EXCEPT ![p].batch = @ \ {i}]
    /\ UNCHANGED <<tableVars, published, rebuild>> /\ Fault(Overtaken(p, i))

(* The breaker throws: the same, and Elasticsearch hears nothing of it.     *)
IndexRowRejected(p, i) ==
    /\ NextRow(p, i) /\ ~Admits(p)
    /\ publisher' = [publisher EXCEPT ![p].batch = @ \ {i}]
    /\ calm' = (calm /\ ~Overtaken(p, i))
    /\ UNCHANGED <<tableVars, published, index, rebuild, breaker, removed, faults>>

(* SaveChanges also saves the marks that failed earlier in the tick.        *)
MarkPublished(p) ==
    /\ publisher[p].sent # 0
    /\ published' = published \union publisher[p].unsaved \union {publisher[p].sent}
    /\ publisher' = [publisher EXCEPT ![p].sent = 0, ![p].unsaved = {}]
    /\ UNCHANGED <<tableVars, index, rebuild, breaker, removed>> /\ NoFault

(* So does the mark of a WorkOrderCompletedEvent row of the same tick.      *)
MarkEventPublished(p) ==
    /\ publisher[p].sent = 0 /\ publisher[p].unsaved # {}
    /\ published' = published \union publisher[p].unsaved
    /\ publisher' = [publisher EXCEPT ![p].unsaved = {}]
    /\ UNCHANGED <<tableVars, index, rebuild, breaker, removed>> /\ NoFault

MarkPublishedFails(p) ==
    /\ publisher[p].sent # 0
    /\ publisher' = [publisher EXCEPT ![p].sent = 0, ![p].unsaved = @ \union {publisher[p].sent}]
    /\ UNCHANGED <<tableVars, published, index, rebuild, breaker, removed>> /\ Fault(FALSE)

(* The process stops, and a new one starts: the tick, the rebuilds and what *)
(* the breaker knew are gone.                                               *)
ProcessStops(p) ==
    /\ publisher' = [publisher EXCEPT ![p] = NoTick]
    /\ rebuild' = [r \in Rebuilds |-> IF ProcessOf[r] = p THEN NoRebuild ELSE rebuild[r]]
    /\ breaker' = [breaker EXCEPT ![p] = "closed"]
    /\ UNCHANGED <<tableVars, published, index, removed>>
    /\ Fault(\E r \in Rebuilds : ProcessOf[r] = p /\ rebuild[r].phase = "writing")

-----------------------------------------------------------------------------
(* The rebuild endpoint.                                                    *)

OfOrg(org) == {w \in WorkOrderIds : OrgOf[w] = org}

\* Faulty: work that is done is left out.
SnapshotOfActive(org) ==
    [w \in WorkOrderIds |-> IF OrgOf[w] = org /\ status[w] \notin {"Absent", "Completed"}
                             THEN status[w] ELSE None]

(* The organization's work orders as the table shows them.                  *)
Snapshot(org) ==
    [w \in WorkOrderIds |-> IF OrgOf[w] = org /\ status[w] # "Absent" THEN status[w] ELSE None]

ReadTable(r, org) ==
    LET others == {o \in InFlight : rebuild[o].org = org} IN
    /\ rebuild[r].phase = "idle"
    /\ rebuild' = [Raced(others) EXCEPT ![r] =
         [phase |-> "clearing", org |-> org, docs |-> Snapshot(org), raced |-> others # {}]]
    /\ UNCHANGED <<tableVars, published, publisher, index, breaker, removed>> /\ NoFault

Delete(ids) ==
    /\ index' = [w \in WorkOrderIds |-> IF w \in ids THEN None ELSE index[w]]
    /\ removed' = removed \union {w \in ids : index[w] # None}

(* The request goes on with docs, and is done when there are none.          *)
Continue(r, docs) ==
    rebuild' = [rebuild EXCEPT ![r] =
        IF docs = NoDocuments THEN NoRebuild ELSE [@ EXCEPT !.phase = "writing", !.docs = docs]]

\* Faulty: the query has no filter.
ClearAll(r) ==
    /\ rebuild[r].phase = "clearing" /\ Succeeds(ProcessOf[r])
    /\ Delete(WorkOrderIds)
    /\ Continue(r, rebuild[r].docs)
    /\ UNCHANGED <<tableVars, published, publisher>> /\ NoFault

(* Delete-by-query, filtered to the organization.                           *)
Clear(r) ==
    /\ rebuild[r].phase = "clearing" /\ Succeeds(ProcessOf[r])
    /\ Delete(OfOrg(rebuild[r].org))
    /\ Continue(r, rebuild[r].docs)
    /\ UNCHANGED <<tableVars, published, publisher>> /\ NoFault

Write(r, w) ==
    /\ rebuild[r].phase = "writing" /\ rebuild[r].docs[w] # None
    /\ Succeeds(ProcessOf[r])
    /\ Store(w, rebuild[r].docs[w])
    /\ Continue(r, [rebuild[r].docs EXCEPT ![w] = None])
    /\ UNCHANGED <<tableVars, published, publisher>> /\ NoFault

Abort(r) == rebuild' = [rebuild EXCEPT ![r] = NoRebuild]

(* To the breaker, a call its caller cancels is no failure.                 *)
FailsOrCancelled(p) == Fails(p) \/ Succeeds(p)

(* The delete fails, or the caller goes away: some documents may be gone.   *)
ClearFails(r) ==
    /\ rebuild[r].phase = "clearing" /\ FailsOrCancelled(ProcessOf[r])
    /\ \E ids \in SUBSET OfOrg(rebuild[r].org) : Delete(ids)
    /\ Abort(r)
    /\ UNCHANGED <<tableVars, published, publisher>> /\ Fault(TRUE)

(* The exception of one document ends the request: the rest is not written. *)
WriteFails(r, w) ==
    /\ rebuild[r].phase = "writing" /\ rebuild[r].docs[w] # None
    /\ FailsOrCancelled(ProcessOf[r])
    /\ StoreFails(w, rebuild[r].docs[w])
    /\ Abort(r)
    /\ UNCHANGED <<tableVars, published, publisher>> /\ Fault(TRUE)

(* The breaker throws at the delete or at a document: the request ends.     *)
RebuildRejected(r) ==
    /\ rebuild[r].phase # "idle" /\ ~Admits(ProcessOf[r])
    /\ Abort(r)
    /\ calm' = (calm /\ rebuild[r].phase # "writing")
    /\ UNCHANGED <<tableVars, published, publisher, index, breaker, removed, faults>>

(* The container is replaced; it has no volume.                             *)
LoseIndex ==
    /\ index # NoDocuments
    /\ Delete(WorkOrderIds)
    /\ rebuild' = Raced(InFlight)
    /\ UNCHANGED <<tableVars, published, publisher, breaker>> /\ Fault(TRUE)

-----------------------------------------------------------------------------
TableStep(w) ==
    \/ Create(w) \/ Complete(w)
    \/ \E new \in Statuses : Change(w, new)

PublisherStep(p) ==
    \/ StartTick(p) \/ MarkPublished(p)
    \/ \E i \in DOMAIN outbox :
         IndexRow(p, i) \/ IndexRowFails(p, i) \/ IndexRowRejected(p, i)

ProcessStep(p) ==
    \/ MarkEventPublished(p) \/ MarkPublishedFails(p) \/ ProcessStops(p)
    \/ Search(p) \/ SearchFails(p) \/ BreakEnds(p)

RebuildStep(r) ==
    \/ \E org \in Organizations : ReadTable(r, org)
    \/ Clear(r) \/ ClearFails(r) \/ RebuildRejected(r)
    \/ \E w \in WorkOrderIds : Write(r, w) \/ WriteFails(r, w)

Next ==
    \/ \E w \in WorkOrderIds : TableStep(w)
    \/ \E p \in Publishers : PublisherStep(p) \/ ProcessStep(p)
    \/ \E r \in Rebuilds : RebuildStep(r)
    \/ LoseIndex

Spec == Init /\ [][Next]_vars

(* The timer keeps firing, a tick that has begun goes on, and breaks end;   *)
(* nothing is assumed of requests.                                          *)
FairSpec ==
    Spec /\ \A p \in Publishers : WF_vars(PublisherStep(p)) /\ WF_vars(BreakEnds(p))

-----------------------------------------------------------------------------
(***************************************************************************)
(* Properties.                                                              *)
(***************************************************************************)

(* Every variable has its type.                                             *)
TypeOK ==
    /\ status \in [WorkOrderIds -> Statuses \union {"Absent"}]
    /\ outbox \in Seq(Document)
    /\ published \subseteq DOMAIN outbox
    /\ publisher \in [Publishers -> Tick]
    /\ index \in [WorkOrderIds -> Statuses \union {None}]
    /\ rebuild \in [Rebuilds -> RebuildState]
    /\ breaker \in [Publishers -> BreakerStates]
    /\ removed \subseteq WorkOrderIds
    /\ calm \in BOOLEAN
    /\ faults \in 0 .. MaxFaults

(* A row marked published was indexed: its work order has a document unless *)
(* one was deleted, however calls and saves fail.  An answer that is not    *)
(* looked at would break this.                                              *)
PublishedIsIndexed ==
    \A i \in published : index[outbox[i].id] # None \/ outbox[i].id \in removed

Announced(w, s) == \E i \in DOMAIN outbox : outbox[i] = [id |-> w, status |-> s]

(* A search never finds a work order that does not exist, nor calls one     *)
(* Completed whose completion was not announced: retries and rebuilds       *)
(* resurrect nothing else.                                                  *)
ShowsWhatHappened ==
    \A w \in WorkOrderIds : index[w] # None =>
        /\ status[w] # "Absent"
        /\ index[w] = "Completed" => Announced(w, "Completed")

(* A rebuild takes away only documents of the organization that asked for   *)
(* it: searches of the others notice nothing.                               *)
RebuildsStayHome ==
    [][\A r \in Rebuilds : rebuild[r].phase = "clearing" /\ rebuild'[r].phase # "clearing" =>
         \A w \in WorkOrderIds : OrgOf[w] # rebuild[r].org => index'[w] = index[w]]_vars

Finishes(r) ==
    /\ rebuild[r].phase # "idle" /\ rebuild'[r].phase = "idle"
    /\ UNCHANGED faults /\ Admits(ProcessOf[r])

PublishedOf(org) == {w \in OfOrg(org) : \E i \in published : outbox[i].id = w}

(* "re-add every one of this organization's real, current work orders": a   *)
(* rebuild that succeeds leaves no published work order of its organization *)
(* without a document.  A work order created after the table was read and   *)
(* indexed before the delete breaks it.                                     *)
RebuildReaddsAll ==
    [][\A r \in Rebuilds : Finishes(r) =>
         \A w \in PublishedOf(rebuild[r].org) : index'[w] # None]_vars

(* Nothing else does but a second rebuild of the organization at the same   *)
(* time and a loss of the index: not the publisher that runs on during the  *)
(* rebuild, nor requests that change work orders or create some later, nor  *)
(* failures, retries and breaks of either.                                  *)
UnracedRebuildReaddsAll ==
    [][\A r \in Rebuilds : Finishes(r) /\ ~rebuild[r].raced =>
         \A w \in PublishedOf(rebuild[r].org) : index'[w] # None]_vars

(* Neither the publisher nor a rebuild has anything left to do.             *)
Quiet ==
    /\ published = DOMAIN outbox
    /\ \A p \in Publishers : publisher[p].batch = {}
    /\ \A r \in Rebuilds : rebuild[r].phase = "idle"

Mirrored == \A w \in WorkOrderIds : status[w] = "Completed" => index[w] = "Completed"

(* Work orders are mirrored: in quiet the index shows a work order that is  *)
(* Completed as Completed, through failed calls and saves, retries, breaks  *)
(* and stops.  Four things are excepted, and no more: the table changes     *)
(* during a rebuild; a rebuild is cut short after its delete, or in it; the *)
(* index is lost; a row is passed over in a tick that goes on to a later    *)
(* row of the same work order, so that the document of Create comes last.   *)
CompletionsShowInCalm == calm /\ Quiet => Mirrored

(* Every announcement is published in the end: failures of searches and     *)
(* rebuilds may shut the publisher out, but not for ever.                   *)
EventuallyPublished == \A i \in 1 .. MaxOutbox : (i \in DOMAIN outbox) ~> (i \in published)
=============================================================================
