------------------------------- MODULE RedisCaches -------------------------------
(***************************************************************************)
(* What FieldOps.Api keeps in Redis: the responses that IdempotencyService  *)
(* remembers for a client's retries of Create, and the status report that   *)
(* WorkOrderReportService caches for an organization, with the requests     *)
(* that change a status, the reads of the report and the cache warmer.      *)
(*                                                                         *)
(* One organization.  The table is the number of status changes saved so    *)
(* far, a report is the table it was computed from, and a work order is the *)
(* change that created it.  Time passes in ticks.                           *)
(***************************************************************************)
EXTENDS Naturals, FiniteSets

CONSTANTS
    Requests,    \* requests that may run at the same time
    Readers,     \* reads of the report that may; the cache warmer is one
    Keys,        \* values of the Idempotency-Key header, each chosen by one client
    ReportTTL,   \* 30 seconds in the code
    RecordTTL,   \* 60 seconds in the code
    MaxChanges,  \* bound on the status changes of a behaviour
    MaxFaults,   \* bound on the faults of a behaviour
    None

ASSUME CachesAssumption ==
    /\ ReportTTL \in Nat \ {0} /\ RecordTTL \in Nat \ {0}
    /\ MaxChanges \in Nat /\ MaxFaults \in Nat
    /\ None \notin Keys \union (0 .. MaxChanges)

VARIABLES
    table,       \* status changes saved
    since,       \* ticks since each state of the table was overtaken, up to ReportTTL
    created,     \* work orders created by the requests of each key
    request,     \* progress of each request
    record,      \* the remembered response of each key
    report,      \* the cached report
    reader,      \* progress of each read of the report
    calm,        \* the report's readers and writers have not overlapped or failed (observer)
    sequential,  \* keys used by one request at a time, without failure or expiry (observer)
    faults

requestVars == <<table, created, request, record, sequential>>
reportVars  == <<since, report, reader, calm>>
vars == <<requestVars, reportVars, faults>>

Idle     == [phase |-> "idle", key |-> None, id |-> 0]
Resting  == [phase |-> "idle", table |-> 0]
NoRecord == [id |-> None, age |-> 0]
NoReport == [table |-> None, age |-> 0]

RequestState == [phase : {"idle", "lookup", "save", "invalidate", "store"},
                 key   : Keys \union {None},
                 id    : 0 .. MaxChanges]
ReaderState  == [phase : {"idle", "missed", "computed"}, table : 0 .. MaxChanges]

Init ==
    /\ table = 0 /\ since = [t \in 0 .. MaxChanges |-> 0]
    /\ created = [k \in Keys |-> {}]
    /\ request = [q \in Requests |-> Idle]
    /\ record = [k \in Keys |-> NoRecord]
    /\ report = NoReport
    /\ reader = [d \in Readers |-> Resting]
    /\ calm = TRUE /\ sequential = Keys
    /\ faults = 0

Fault == faults < MaxFaults /\ faults' = faults + 1
NoFault == UNCHANGED faults

-----------------------------------------------------------------------------
(* A request.  Create with a key looks it up and stores its response; one   *)
(* without, like every other endpoint that changes a status, only saves and *)
(* invalidates.                                                             *)

To(q, phase) == request' = [request EXCEPT ![q].phase = phase]
Answer(q) == request' = [request EXCEPT ![q] = Idle]

Receive(q, k) ==
    /\ request[q].phase = "idle"
    /\ request' = [request EXCEPT ![q] =
           [phase |-> IF k = None THEN "save" ELSE "lookup", key |-> k, id |-> 0]]
    /\ sequential' = IF \E o \in Requests : request[o].key = k THEN sequential \ {k} ELSE sequential
    /\ UNCHANGED <<table, created, record, reportVars>> /\ NoFault

(* A response found is replayed.                                            *)
Lookup(q) ==
    /\ request[q].phase = "lookup"
    /\ IF record[request[q].key] # NoRecord THEN Answer(q) ELSE To(q, "save")
    /\ UNCHANGED <<table, created, record, sequential, reportVars>> /\ NoFault

(* Redis fails: the request is processed as a new one.                      *)
LookupFails(q) ==
    /\ request[q].phase = "lookup"
    /\ To(q, "save")
    /\ sequential' = sequential \ {request[q].key}
    /\ UNCHANGED <<table, created, record, reportVars>> /\ Fault

\* Faulty: a refusal is remembered as well.
RefuseAndStore(q) ==
    /\ request[q].phase = "save"
    /\ To(q, IF request[q].key = None THEN "idle" ELSE "store")
    /\ UNCHANGED <<table, created, record, sequential, reportVars>> /\ NoFault

(* A customer that does not exist, or a status that does not allow it.      *)
Refuse(q) ==
    /\ request[q].phase = "save"
    /\ Answer(q)
    /\ UNCHANGED <<table, created, record, sequential, reportVars>> /\ NoFault

Save(q) ==
    LET k == request[q].key IN
    /\ request[q].phase = "save" /\ table < MaxChanges
    /\ table' = table + 1
    /\ created' = IF k = None THEN created ELSE [created EXCEPT ![k] = @ \union {table'}]
    /\ request' = [request EXCEPT ![q].phase = "invalidate", ![q].id = table']
    /\ calm' = (calm /\ \A d \in Readers : reader[d].phase # "computed")
    /\ UNCHANGED <<record, sequential, since, report, reader>> /\ NoFault

AfterInvalidate(q) == IF request[q].key = None THEN Answer(q) ELSE To(q, "store")

\* Faulty: one endpoint forgets to invalidate.
InvalidateOtherEndpoints(q) ==
    /\ request[q].phase = "invalidate"
    /\ report' = IF request[q].key = None THEN NoReport ELSE report
    /\ AfterInvalidate(q)
    /\ UNCHANGED <<table, created, record, sequential, since, reader, calm>> /\ NoFault

InvalidateCache(q) ==
    /\ request[q].phase = "invalidate"
    /\ report' = NoReport
    /\ AfterInvalidate(q)
    /\ UNCHANGED <<table, created, record, sequential, since, reader, calm>> /\ NoFault

InvalidateCacheFails(q) ==
    /\ request[q].phase = "invalidate"
    /\ calm' = FALSE
    /\ AfterInvalidate(q)
    /\ UNCHANGED <<table, created, record, sequential, since, report, reader>> /\ Fault

\* Faulty: stored only over an earlier record.
StoreOverExisting(q) ==
    /\ request[q].phase = "store"
    /\ record' = [record EXCEPT ![request[q].key] =
           IF @ = NoRecord THEN @ ELSE [id |-> request[q].id, age |-> 0]]
    /\ Answer(q)
    /\ UNCHANGED <<table, created, sequential, reportVars>> /\ NoFault

StoreResponse(q) ==
    /\ request[q].phase = "store"
    /\ record' = [record EXCEPT ![request[q].key] = [id |-> request[q].id, age |-> 0]]
    /\ Answer(q)
    /\ UNCHANGED <<table, created, sequential, reportVars>> /\ NoFault

StoreResponseFails(q) ==
    /\ request[q].phase = "store"
    /\ sequential' = sequential \ {request[q].key}
    /\ Answer(q)
    /\ UNCHANGED <<table, created, record, reportVars>> /\ Fault

-----------------------------------------------------------------------------
(* A read of the report, by a request or by the cache warmer.               *)

\* Faulty: a hit prolongs the life of the report.
GetSliding(d) ==
    /\ reader[d].phase = "idle"
    /\ IF report = NoReport
       THEN reader' = [reader EXCEPT ![d].phase = "missed"] /\ UNCHANGED report
       ELSE report' = [report EXCEPT !.age = 0] /\ UNCHANGED reader
    /\ UNCHANGED <<requestVars, since, calm>> /\ NoFault

GetReport(d) ==
    /\ reader[d].phase = "idle"
    /\ reader' = IF report = NoReport THEN [reader EXCEPT ![d].phase = "missed"] ELSE reader
    /\ UNCHANGED <<requestVars, since, report, calm>> /\ NoFault

Compute(d) ==
    /\ reader[d].phase = "missed"
    /\ reader' = [reader EXCEPT ![d] = [phase |-> "computed", table |-> table]]
    /\ UNCHANGED <<requestVars, since, report, calm>> /\ NoFault

SetReport(d) ==
    /\ reader[d].phase = "computed"
    /\ report' = [table |-> reader[d].table, age |-> 0]
    /\ reader' = [reader EXCEPT ![d] = Resting]
    /\ UNCHANGED <<requestVars, since, calm>> /\ NoFault

(* The query or the store throws, and the read with it.                     *)
ReadFails(d) ==
    /\ reader[d].phase # "idle"
    /\ reader' = [reader EXCEPT ![d] = Resting]
    /\ UNCHANGED <<requestVars, since, report, calm>> /\ Fault

-----------------------------------------------------------------------------
ApiStops ==
    /\ request' = [q \in Requests |-> Idle]
    /\ reader' = [d \in Readers |-> Resting]
    /\ calm' = (calm /\ \A q \in Requests : request[q].phase # "invalidate")
    /\ sequential' = sequential \ {request[q].key : q \in Requests}
    /\ UNCHANGED <<table, created, record, since, report>> /\ Fault

\* Faulty: entries are set without an expiry.
OlderForEver(entry, none, ttl) ==
    IF entry = none THEN none ELSE [entry EXCEPT !.age = @ + 1]

Older(entry, none, ttl) ==
    IF entry = none \/ entry.age + 1 = ttl THEN none ELSE [entry EXCEPT !.age = @ + 1]

(* Time passes between reads of the report, never within one.               *)
Tick ==
    /\ \A d \in Readers : reader[d].phase = "idle"
    /\ since' = [t \in 0 .. MaxChanges |->
           IF t < table /\ since[t] < ReportTTL THEN since[t] + 1 ELSE since[t]]
    /\ report' = Older(report, NoReport, ReportTTL)
    /\ record' = [k \in Keys |-> Older(record[k], NoRecord, RecordTTL)]
    /\ sequential' = sequential \ {k \in Keys : record[k] # NoRecord /\ record'[k] = NoRecord}
    /\ UNCHANGED <<table, created, request, reader, calm>> /\ NoFault

RequestStep(q) ==
    \/ Lookup(q) \/ LookupFails(q) \/ Refuse(q) \/ Save(q)
    \/ InvalidateCache(q) \/ InvalidateCacheFails(q)
    \/ StoreResponse(q) \/ StoreResponseFails(q)
    \/ \E k \in Keys \union {None} : Receive(q, k)

ReadOn(d) == Compute(d) \/ SetReport(d)

Next ==
    \/ \E q \in Requests : RequestStep(q)
    \/ \E d \in Readers : GetReport(d) \/ ReadOn(d) \/ ReadFails(d)
    \/ ApiStops
    \/ Tick

Spec == Init /\ [][Next]_vars

(* Time passes and a read that has begun goes on.                           *)
FairSpec == Spec /\ WF_vars(Tick) /\ \A d \in Readers : WF_vars(ReadOn(d))

-----------------------------------------------------------------------------
(***************************************************************************)
(* Properties.                                                              *)
(***************************************************************************)

(* Every variable has its type.                                             *)
TypeOK ==
    /\ table \in 0 .. MaxChanges
    /\ since \in [0 .. MaxChanges -> 0 .. ReportTTL]
    /\ created \in [Keys -> SUBSET (1 .. MaxChanges)]
    /\ request \in [Requests -> RequestState]
    /\ record \in [Keys -> [id : (0 .. MaxChanges) \union {None}, age : 0 .. RecordTTL - 1]]
    /\ report \in [table : (0 .. MaxChanges) \union {None}, age : 0 .. ReportTTL - 1]
    /\ reader \in [Readers -> ReaderState]
    /\ calm \in BOOLEAN /\ sequential \subseteq Keys
    /\ faults \in 0 .. MaxFaults

(* A response replayed to a retry is of a work order that a request with    *)
(* the same key created: refusals and interrupted requests leave none.      *)
ReplayIsReal == \A k \in Keys : record[k] # NoRecord => record[k].id \in created[k]

(* "replay the original result instead of creating a second work order":    *)
(* so it is for a key whose requests come one after the other, while Redis  *)
(* answers and remembers.  A retry that overlaps the original request       *)
(* breaks it, since nothing claims a key before its response is stored.     *)
OneWorkOrderPerKeyInSequence == \A k \in sequential : Cardinality(created[k]) <= 1

(* "Worst case: a stale cached report for up to the remaining TTL": however *)
(* reads, saves and failed invalidations overlap, no cached report shows a  *)
(* table that was overtaken ReportTTL ago, if reading takes no time.        *)
StaleAtMostTTL == report # NoReport => since[report.table] < ReportTTL

(* A client sees its own change in the report: once its request has         *)
(* invalidated the cache the report is current, unless a read overlapped a  *)
(* save or an invalidation failed.                                          *)
CurrentInCalm ==
    calm /\ report # NoReport =>
        report.table = table \/ \E q \in Requests : request[q].phase = "invalidate"

(* When no more changes come, the report is right in the end, and stays so. *)
RightInTheEnd == <>[](report = NoReport \/ report.table = table)
=============================================================================
