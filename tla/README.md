# TLA+ models of FieldOps and StockPilot

This directory holds TLA+ models of the stateful parts of this repository, TLC
configurations that check them on small instances, and TLAPS proofs of what
matters most. Paths are relative to the repository root.

    tlc -workers 2 -config WorkOrdersConcurrent.cfg MCWorkOrders.tla
    tlapm WorkOrders_proofs.tla

`PROJECT.json` lists every run with its properties, for every definition the
source lines it models, for every property a faulty variant of the code that it
detects (operators commented "Faulty"), the hazards and the theorems.

## 1. The system

The repository holds three applications.

**FieldOps** (`src/FieldOps.Api`, `src/FieldOps.Modules.*`,
`src/FieldOps.NotificationService`) is a modular monolith for
several organizations: employees assign, start, complete and reopen work orders;
customers approve them. `src/fieldops-web` is its Angular front end. **StockPilot** (`src/StockPilot.Api`) is a product
catalogue with tokens. **RoadmapOS** (`src/RoadmapOS.Web`) keeps a list of skills and
shows progress towards their targets.

| Component | State it keeps | Operations | Talks to |
|---|---|---|---|
| Work order endpoints and module (`WorkOrdersController`, `EfWorkOrderDirectory`, `WorkOrderAssignmentService`) | `WorkOrders`, `OutboxMessages` in SQL Server; per request a DbContext with tracked entities | Create, Assign, Reassign, Unassign, Start, Complete, Reopen, AddEvidence, Approve | audit writer, report cache, idempotency, employee/organization/customer directories |
| Audit log (`EfAuditLogWriter`) | `AuditLogEntries`, own DbContext | Record | called after the save of the work order |
| Outbox publisher (`OutboxPublisher`) | `PublishedAtUtc` of outbox rows; entities its tick tracks | one tick every few seconds | RabbitMQ, Elasticsearch |
| RabbitMQ delivery (`RabbitMqEventPublisher`) | a lazily opened connection; the broker's exchange, queues and copies | publish | consumers |
| Consumers and inbox (`EventConsumerBase` in both processes, `WorkOrderInboxStore`, `NotificationServiceInboxStore`) | `ProcessedMessages`, `FailedMessageAttempts`, dead-letter queues | receive, handle, mark, acknowledge, retry, bury | RabbitMQ, their databases |
| Search index (`ElasticsearchWorkOrderSearchIndex`) | documents in Elasticsearch; in each process one circuit breaker for all its calls | index, clear an organization, search | publisher, rebuild endpoint |
| Idempotency (`IdempotencyService`) | responses in Redis with a TTL | try get, store | Create |
| Status report cache and warmer | one report per organization in Redis with a TTL | get, invalidate, warm | every status change |
| Angular front end (`app.routes.ts`, `AuthService`, `authInterceptor`, `WorkOrderService`, five components) | the address, the component in the router outlet, the session in memory, HTTP calls under way | log in, follow a link, open an address, create a work order, show list, detail and dashboard | `AuthController`, `WorkOrdersController` |
| Rate limiter, health, metrics, billing, summaries | see section 8 | | |
| StockPilot products (`ProductsController`, `EfProductStore`) | `Products` with a unique index on `Sku` and a `rowversion` | create, bulk create, update, delete | SQL Server |
| StockPilot refresh tokens | in-memory dictionary | login, refresh | |
| RoadmapOS (`SkillsController`, `EfSkillCatalog`, `ProgressCalculator`) | `Skills` in SQL Server | create, edit, progress calculation, pages | |

### What is hard

* **Requests overlap.** An endpoint loads a work order, checks it, and saves later.
  The DbContext returns the tracked instance when it is queried again, the UPDATE
  writes the changed columns `WHERE Id = w`, and there is no concurrency token.
* **Two systems, no common transaction.** The audit entry, the cache invalidation and
  the idempotency record follow the save; messages follow the outbox row.
* **Delivery is at least once or less.** A stop between send and mark repeats a
  message; queues that are not durable lose it; acknowledgements meet channels that
  are gone.
* **Copies go stale.** Search documents, reports and remembered responses are written
  from what was read earlier.
* **Answers are late.** Nothing cancels a call of the front end when its component is
  left, and nothing disables a form while its call is under way: callbacks run on pages
  that did not ask, in another session, in any order.
* **A shared circuit breaker.** Two failures of any caller shut out every caller of the
  process, the publisher included.
* **Locks.** A bulk creation holds the keys of its products until it commits.

`PROJECT.json` lists each hazard at its line with the properties that watch it.

## 2. Modules

| Module | Models | Composes with |
|---|---|---|
| `WorkOrderRows` | the row of a work order and the change each method of `EfWorkOrderDirectory` makes to it; no state | extended by the next two |
| `WorkOrderLifecycle` | abstract specification: one transition of the state machine at a time | implemented by `WorkOrders` |
| `WorkOrders` | endpoints with requests in flight, outbox, audit | `MCWorkOrders`, `WorkOrders_proofs` |
| `EventDelivery` | publisher, broker, consumers, inbox | takes over where `WorkOrders` leaves `WorkOrderCompletedEvent` rows; `EventDelivery_proofs`, `EventFailures_proofs` |
| `SearchIndex` | search documents, publisher, Elasticsearch, rebuild | takes over where `WorkOrders` leaves `WorkOrderSearchDocument` rows; `SearchIndex_proofs`, `SearchCalm_proofs` |
| `RedisCaches` | idempotency and report cache with their requests and readers | `RedisCaches_proofs` |
| `ProductStore` | StockPilot's products | `MCProductStore`, `ProductStore_proofs` |
| `WebPages` | abstract specification: what a page promises its reader | implemented by `WebClient` |
| `WebClient` | the front end in one tab: router, session, calls, answers | `WebClient_proofs`; takes `WorkOrders`' table as a history of statuses |

### WorkOrders

`rows`, `outbox` and `audit` are tables; `requests[r]` is what a request has read
(`read`), the entity as the handler left it (`tracked`) and how far it got
(`phase`). One action per endpoint makes every check of its handler on the row as it
is at that moment and remembers both copies; `Save` writes the columns in which they
differ (`Merge`) together with the outbox rows, `Record` writes the audit entry,
`Abandon` ends a request at any point (a failed save, a swallowed audit failure, a
stopped process). Two reads inside one handler are one step because the second
returns the tracked instance. `Create` is one step: its two saves are one
transaction and it reads nothing that changes. Employees, admins and customers are
constants; their rows never change after creation. Notes are a set, titles are left
out. A request that is refused changes nothing and is not a step.

### EventDelivery

`publisher[p]` is the rest of a tick: rows to try, the row just sent, and rows whose
mark could not be saved but is still tracked by the tick's DbContext, so that the
next successful save writes it too. `ready` and `unacked` count copies; `worker[w]`
is the position of `ReceivedAsync`/`HandleDeliveryFailureAsync` and whether its
delivery belongs to the present channel (`live`). An acknowledgement for a channel that is
gone is a failed delivery in the first and only logged in the second, so `acking` and
`releasing` are two phases. The channel publishes without confirms: a send returns once the
message is written, and `PublishLost` is the connection that breaks before RabbitMQ has
read it, after which the row is marked all the same. The client library's recovery and
the connect loop of `ExecuteAsync` are `Connect`. A stop of the broker forgets
queues, bindings and copies, as `durable: false` says. `handled` and `dropped` are
observers: no action's guard reads them. `RecordFailedAttempt` of the inbox stores is two
steps: `ReadAttempts` loads the count, and the action of that name stores it one higher,
whatever the table holds by then, or is refused by the unique index if it would insert a
second row.

Two outcomes of a call are represented by others that leave the same state. A publish that
throws after RabbitMQ has the message is `Publish` followed by a mark that never happens
(`PublisherStops`, or `MarkPublishedFails` without a later success). A dead letter written
to a connection that breaks is `Bury` followed by `Disconnect`: `dead` then names a message
that is also back in its queue, where it will be handled or buried again.

### SearchIndex

A document is a work order and the status it shows; `Underway` stands for Assigned and
InProgress, which no step here tells apart. A request may find a work order in any status
that is not the one it sets, and `Complete` in any at all: the checks of the endpoints
are made on a copy read earlier (`WorkOrders` shows a Start saved after an Unassign), so
nothing is assumed of the order of statuses a rebuild can read. The publisher takes the rows of
a tick in the order of `CreatedAtUtc`, and a failed row does not hold back the rows
after it. A failed call may have taken effect (`StoreFails`). The rebuild endpoint
reads the table (`ReadTable`), deletes by query (`Clear`) and writes one document
after the other (`Write`); it ends at the first failure. `removed`, `calm` and
the `raced` of a rebuild are observers.

`breaker[p]` is the circuit breaker of process `p`. Polly opens it when all calls of
the last ten seconds failed and there were at least two: `suspect` is a failure with no
success remembered, and a failure may find the earlier ones, or an earlier success,
still remembered or not (`AfterFailure`). An open breaker rejects every call of the
process without Elasticsearch hearing of it (`IndexRowRejected`, `RebuildRejected`);
after the break (`BreakEnds`) the next call closes or reopens it. A call is one step, so
two calls never overlap at the breaker. A search, and `EnsureIndexExistsAsync` at the
start, change no document and are `Search` and `SearchFails`. A process that stops
loses its tick, its rebuilds and its breaker.

### RedisCaches

One organization's table is the number of status changes; a report is the number it
was computed from. A `Create` with a key looks up, saves, invalidates and stores; a
request without a key stands for every other endpoint that changes a status. Entries
carry their age, and `Tick` advances time for all of them. `Tick` waits for reads of
the report that are under way: the comment on `StaleAtMostTTL` says so. A response
is remembered as the work order it returns.

### ProductStore

`products` holds uncommitted rows too; a row in some request's `rows` is not
committed, and asking for its Sku waits (`Held`), which is how SQL Server's unique
index behaves under its default isolation. A cycle of such waits is resolved by
failing one transaction (`DeadlockVictim`). Name and price are abstracted to the set
of edits they went through, which is what a lost update is about. When the sent
values equal the row found, EF Core sends no statement and the version is not
compared (`FindUnchanged`). `acknowledged` is an observer: an edit enters it when its
update is answered with Ok and leaves it only with a deletion that had read it, so
`NoEditLost` also speaks of a delete that races an update.

### WebClient

`address` is what the address bar shows, `view` the component in the outlet, `session`
the two signals of `AuthService`, `calls` the HTTP calls under way. A list, a work order
or a report is represented by the position in `history` of the table it was read from;
`view.content` is that position, 0 while the page is empty. `history` is one
organization's table, which others change too (`OthersCreate`, `OthersMove`).

* `Navigate` does what the router does: while the route stays the same the component is
  kept and its `ngOnInit` does not run again, so only the address changes; otherwise
  `Enter` makes a new component and starts its call. A call of a component that is gone
  stays (`Left`) and its callback runs on signals nobody shows (`Fills`); what it does to
  `Router` and `AuthService` takes effect all the same (`LoggedIn`, `Created`).
* An answer is made in one step (`AnswerRead`, `AnswerReport`, `AnswerCreate`,
  `AnswerLogin` for `AuthController`) and arrives in another. A report may be a cached
  one, of any age. A call may also fail, or end where no callback listens (`Unheard`,
  `LoginFailed`).
* `Load` is a document loaded anew, by a reload or an address typed in: session,
  components and calls start over.

`WebPages` says what a reader may rely on: a page is opened, is empty, and then shows
once the table as it was at one moment since (on the dashboard, at one moment at all).

## 3. Runs

| Run | Module, instance | Question |
|---|---|---|
| `work_orders_concurrent` | `WorkOrders`, 2 organizations, 3 employees, 2 customers, 1 work order, 2 notes, 2 requests, 4 outbox rows | What survives every interleaving of reads and saves: tenant isolation, the outbox guarantee, truthful audit, approvals only of completed work, notes lost only to another note |
| `work_orders_exclusive` | the same with 1 note and 5 outbox rows, under `ExclusiveSpec` | Without overlap on one work order the endpoints implement `WorkOrderLifecycle`; assignee and status agree; every event is of a completion |
| `work_orders_raced_transition` | `Spec`, 2 requests | Violation: two overlapping requests break a precondition (section 6) |
| `event_delivery` | 1 message, 1 publisher, one worker for each of 2 consumers, 3 attempts, 3 faults | Safety and liveness of delivery through stops, disconnections and failed database calls |
| `event_delivery_outage` | 1 fault | Violation: a broker restart loses a published event |
| `event_delivery_replicas` | 2 publishers, 2 workers of one consumer, no fault | Violation: a message recorded as processed is handled again |
| `search_index` | 2 work orders, 2 organizations, 1 process with its publisher, searches and 1 rebuild, 2 outbox rows, 2 faults | What the index may show, what a rebuild and the publisher bring back, and that every row is published although others may open the breaker |
| `search_index_rebuild_race` | no fault | Violation: a rebuild drops a work order created meanwhile |
| `redis_caches` | 2 requests, 2 readers, 1 key, 2 changes, 1 fault | Replays are real, staleness is bounded, reports are right in the end |
| `product_store` | 2 Skus, 4 rows, 2 edits, 2 requests, versions to 3 | Unique Skus, atomic batches, no lost edit, every request is answered |
| `web_client` | 2 work orders, an Admin, a Member, 2 calls under way, 2 changes of the table | The pages implement `WebPages`; who sees what; every page that waits stops waiting |
| `web_client_late_answer` | the same | Violation: a late answer changes the address under another work order's page |

### Bounds, and why they are enough to show the interesting cases

* *Two requests* are what an overlap needs; no check or save in these handlers
  involves a third. The proofs of section 5 are for any number.
* *Two notes* are one that is stored and one that goes over it.
* *One work order* in `WorkOrders`: no action relates two. Two organizations and a
  foreign admin and customer are there so that isolation can fail.
* *`MaxOutbox`* is one document for the creation and two rows for each completion. 5 allows
  complete, reopen, complete again; 4 allows one completion to be saved while others are in
  flight, overlap it and may fail, which is what keeps the larger instance of
  `work_orders_concurrent` within minutes. What that run checks is proved for any number
  of rows (section 5). A `Save` that would exceed the bound is not taken.
* *One message*: copies of different messages never meet except in the order of a
  queue, which the model leaves open. *Three faults* let a message use all three
  attempts, and let a crash, a duplicate and a failed handler combine.
* *Two outbox rows* in `SearchIndex` are a creation and a completion of one work order,
  or two creations: the shortest histories in which order matters and a rebuild can
  miss one. *Two faults* let a retry fail as well, and are what opens the breaker (a probe
  that fails after the break would be a third, and leaves the breaker where it was). *One
  rebuild*: with two the run does not end in reasonable time; what two rebuilds of one
  organization, or of two, do to each other is left to the proof of
  `UnracedRebuildsReaddAll`, which is for any number.
* *`ReportTTL` 3, `RecordTTL` 4* keep the order of the real 30 and 60 seconds and leave
  room for a report to be read in the middle of its life.
* *Four rows* leave room for two bulk creations of two at once, in opposite orders.
  `Room` keeps a behaviour from running out of Ids in the middle of a request.

* *Two calls* in `WebClient`: a late one and the one of the page that is open, or two of
  the same kind, answered in either order. A call beyond the bound is not started, and
  the navigation that would start it waits. *Two changes* of the table are a creation and
  a later change, or two creations, before, between and after the reads. The proofs of
  section 5 are for any number of both.

`CHECK_DEADLOCK FALSE` is used in the `EventDelivery` runs only: when every message
is settled and the faults are spent nothing is left to do. Symmetry is used in
`work_orders_concurrent` only, over request slots and over notes, which no definition tells
apart; everything that run checks is a safety property.

### Faulty variants

Each property of a passing run has a variant of one mapped definition that breaks
it: a dropped guard, a swapped order, a missing reset. The variants sit in the
modules just before the definition they replace and nothing uses them.

## 4. Fairness

* `EventDelivery`: the timer of `OutboxPublisher` fires again whatever a tick did (its
  loop catches), so `PublisherStep` is weakly fair; the connect loop retries for ever and
  the client library recovers (`Connect`); a handler that has started runs on
  (`HandlerStep`). That a RabbitMQ or a process which has stopped comes back
  (`BrokerStarts`; a stopped process begins again in its first state) is owed by whoever operates
  them: `docker-compose.yml` has no restart policy, and of these only FieldOps.Api is in
  `k8s/`, as a Deployment, which Kubernetes restarts. Requests, failures and the mark that a
  search document's row brings along are not fair. `EventuallySettled` admits two ends that
  the code allows: RabbitMQ dropped the copy or never received it, or
  `HandleDeliveryFailureAsync` itself failed, after which the copy waits for the connection
  to be lost.
* `SearchIndex`: the publisher is fair, and a break of the circuit breaker ends after its
  15 seconds. Requests, searches and rebuilds are not.
* `RedisCaches`: time passes, and a read that has begun goes on.
* `ProductStore`: a request that has begun goes on. It does not include
  `Cancelled`; a wait in a cycle ends because SQL Server picks a victim.
* `WebClient`: the API answers a read that was sent, and an answer runs its callback. What
  a user does, logins and creations are not fair. `PagesSettle` supposes that the
  document is not reloaded for ever: each reload drops the calls under way.
* `WorkOrders` has no fairness: nothing in it must happen.

Liveness is only model-checked (section 5).

## 5. Proofs

All theorems hold for every value of the constants that satisfies the `ASSUME` of
their module (typing of the constants, `None` being no element of the sets it is
added to, employees being no customers); each `ASSUME` is evaluated by the runs.

**`WorkOrders_proofs`**. The invariants of `work_orders_concurrent` are not inductive:
they say nothing of what is in flight. `IInv` adds `RequestsSound` (the checks of the
handler held on the copy it read; organization and customer of that copy are those of
the row, since nothing changes them; an approval in flight implies a completion
event; a saved completion has its event, a saved approval its flag) and
`NothingDangling` (outbox rows and audit entries are of work orders that exist). The
argument: columns that decide isolation never change after creation, and `approved` and
events are never taken back, so whatever a stale copy overwrites stays within what the
invariants allow. Proved from it: `TypeCorrect`, `TenantsAreIsolated`,
`OutboxIsComplete`, `ApprovalsFollowCompletion`, `AuditIsTruthful`. For
`ExclusiveSpec`, `CopyIsFresh` (an unsaved request's copy is the row itself) makes
every `Save` a transition of the abstract machine: `ExclusiveImplementsLifecycle`,
`AssigneeIsOnRecord`, `EventsAreOfCompletions`, and
`TransitionsKeepPreconditions`: the property that `work_orders_raced_transition` shows
violated holds once requests for one work order do not overlap. `NotesAreLostOnlyToNotes`
is again for any overlap: the decision of a request that is not an AddEvidence leaves the
notes of its copy as it read them (`DecisionOnNotes`), so its save does not write that
column, and an AddEvidence writes at least what it has read.

**`EventDelivery_proofs`**. `IInv` adds `HandlersSound` (a handler whose delivery is
live has an unacknowledged copy of its message; one that is marking has handled it; one
that is acknowledging has handled it, or the message was given up or dropped) and
`SentReached` (what a tick has sent, marked or not, has reached every consumer or is among
what was lost on the way).
`Keeps` states once that reaching a consumer is never undone, and each action is shown
to keep it. Proved: `TypeCorrect` (copy counts never go below zero),
`PublishedIsAccounted`, `InboxIsTruthful`.

**`EventFailures_proofs`** goes on from that invariant. Which step leaves a handler in
which phase is stated once (`EveryHandlerMoves`); the rest asks what the phases promise.

* `BuriedOnlyAfterAttempts`: a dead letter has all its recorded attempts. It needs
  `BuriesAfterAttempts` (a handler that buries has seen them) and `ReadsCurrent` (the
  count a handler is about to store is still the one it read), and the latter needs
  `OneWorkerPerConsumer`, which `docker-compose.yml` (one container of each) and `k8s/`
  (`replicas: 1` of FieldOps.Api) satisfy, but for the moment of a rolling update. With two
  workers of one name and four failures TLC stores a stale count over a later one, and a
  dead letter is left with fewer attempts than it had.
* `HandledOncePerInboxEntry`: under the same assumption what the inbox calls processed is
  not handled again. The invariant is `HandlesNew`: what a handler is handling is not in
  the inbox. `event_delivery_replicas` shows the assumption is needed.
* `OnlyBrokerLoses`: a copy that RabbitMQ holds for a consumer leaves it handled or
  dead-lettered, in every step but a stop of RabbitMQ. The invariant is `AcksBacked`: who is
  about to acknowledge its own delivery has settled the message. It speaks of
  copies RabbitMQ holds, not of every published row: one that was published while a queue
  was not bound, or was lost on the way (`PublishLost`), never was such a copy.

**`SearchIndex_proofs`**. `IInv` says where documents come from: every status in the
table and every announcement is `Honest` (the work order exists; a completion was
announced), every document in the index or in a rebuild's hands is a copy of an honest
one, and the rows a tick has sent but not marked are indexed unless removed
(`TicksSound`). Honest things stay honest because the outbox only grows. The breaker
appears in no conjunct: `BreakersOK` is inductive by itself (`BreakersKeep`), so nothing
that is proved depends on what it lets through. Proved: `TypeCorrect`,
`MarksAreIndexed`, `SearchesAreHonest`, `RebuildsAreLocal`.

**`SearchCalm_proofs`** proves what rebuilds and the publisher bring back.

* `UnracedRebuildsReaddAll`: a rebuild that succeeds leaves every published work order of
  its organization with a document, unless a work order of the organization was created
  between its read and its delete, a second rebuild of the organization was in flight, or
  the index was lost (`raced`). No assumption is needed: failures, retries, breaks and any
  number of publishers and other rebuilds are allowed. `UnracedInv` says that an unraced
  rebuild holds its whole organization before the delete (`Whole`) and afterwards every
  document of it that is missing (`Returning`), and that two rebuilds of one
  organization are both raced (`Apart`). Nothing in the endpoint prevents a second one; TLC
  finds the promise broken by it when `raced` does not say so.
* `CalmCompletionsShow`, with `OnePublisher`: when nothing is left to do, what is Completed
  is shown as Completed. `calm` excepts four things only: the table changes during a
  rebuild; a rebuild is cut short in or after its delete; the index is lost; a row is passed
  over in a tick that goes on to a later row of the same work order. All other failed
  calls, failed marks, breaks and stops are inside. The document of a creation is the first
  of its work order (`CreationsFirst`), a rebuild holds what the table says
  (`RebuildsCurrent`), rows are indexed in the order they were written, those whose
  marks were lost included (`RowsInOrder`), and a completion is shown or on its way in a
  row or a rebuild (`CompletionsComing`). With two publishers TLC finds the property
  violated without any failure: one that read the outbox before the completion was
  announced indexes the document of Create after the other has indexed that of Complete.

**`RedisCaches_proofs`**. A remembered response says nothing of the request about to store
one, so `IInv` adds `RequestsSound` (what a request will store is a work order of its key),
`SequencesSound` (a key used in sequence has one request at a time; what it created is
remembered or about to be, or is nothing when that request comes to save) and `AgesSound`
(a report is of a table that was current when it was set or since, a read takes no time, and
nothing has been overtaken that is current). Proved for any keys, requests, readers and
times to live: `TypesCorrect`, `ReplaysAreReal`, `OnePerKeyInSequence`,
`StaleForTTLAtMost`, `ReportCurrentInCalm`. The assumption that `None` is no key and no
number is what the JSON null and an absent key are in Redis.

**`ProductStore_proofs`**. Uniqueness is kept by the check at the moment of insertion, so
`UniqueSkus` only needs that a row which is not committed belongs to one bulk creation
(`RowsSound`). `NoEditLost` needs more: whoever has read a row holds a version the row has
or has had, and while it still has it, has seen every edit of it (`ReadsSound`); versions
only grow, so a save that passes the comparison overwrites nothing it has not seen.
`StepShape` says once what any step may do to the table. Proved for any Skus, rows, requests
and versions: `TypesCorrect`, `SkusAreUnique`, `EditsAreKept`, `BatchesAreWhole`.

**`WebClient_proofs`**. Nothing in the properties speaks of calls, and every one of them
depends on what calls will bring. `IInv` adds `CallsSound` and `FetchSound` (an answer is
one the API gives to such a call; a call that may still fill a page was made by the page
that is open and is empty, and its answer, reports aside, was read since that page was
opened), `OneFetch` (a page waits for at most one answer), `ViewSound` (what a page shows was
read since it was opened), `TablesGrow` (a work order once in the table stays) and `OpenedExists` (the work order of a page opened
by a link or by a creation was in the table by then). Proved for any work orders,
employees, calls and changes: `TypeCorrect`, `OpenedIsAlwaysFound`,
`CreateFormIsForAdmins`, `CallsAreSignedIn`, and the refinement
`ClientImplementsPages`: a callback of a page that is open is a `Display`, a new
component is an `Open`, a change of the table a `Change`, and all else stutters.

Every safety property of the passing runs is stated by one of these theorems, where
needed with an assumption that a counterexample of TLC shows necessary. Only
model-checked: liveness (`EventuallyPublished` of both modules, `EventuallySettled`,
`RightInTheEnd`, `EventuallyAnswered`, `PagesSettle`), whose proofs would need `ENABLED`.

## 6. Where the code and its documentation part

* **A transition whose precondition fails** (`work_orders_raced_transition`). A Start
  that read an assigned work order saves after an Unassign did: an Open work order
  becomes InProgress, with nobody on record.
* **A broker restart loses published events** (`event_delivery_outage`). Exchange,
  queues and messages are not durable and publishing is not confirmed, while the
  comment on the publisher says a transient outage loses nothing.
* **Two replicas handle a message twice** (`event_delivery_replicas`). The inbox is
  asked before and written after the handler; a second copy sent by a second publisher
  passes the check meanwhile.
* **A rebuild drops work orders** (`search_index_rebuild_race`). The list is read before
  the delete: what is created and indexed in between is deleted and not added again.
* **A late answer changes the address of another page** (`web_client_late_answer`). The
  form for a new work order can be submitted twice. Each submit creates (the front end
  sends no idempotency key); the second answer changes the address under the page of the
  first work order, which the router keeps and which goes on showing the first.

Each is quoted with its lines under `findings` in `PROJECT.json`. The passing runs say
what holds nevertheless, and under which condition (`...InCalm`, `...InSequence`,
`Unraced...`, `ExclusiveSpec`) the documented behaviour is met. Such a condition excludes
what the code can do, and the reader should know it:

* Two AddEvidence requests that overlap lose a note: the second writes the list it has read,
  and its own note, over the first. `NotesLostOnlyToNotes` shows that nothing else does. No
  document promises otherwise, so no run reports it.
* A call to index Create's document that fails, in a tick that goes on to the document of
  Complete, is retried in the next tick and overwrites that document: the search
  shows the work order as Open (the fourth exception of `CompletionsShowInCalm`).
* A retry that overlaps its original creates a second work order, since nothing claims an
  idempotency key until the response is stored (`OneWorkOrderPerKeyInSequence`).
* The dashboard has no error callback, so after a failed call it goes on showing that it is
  loading. `PagesSettle` counts that call as settled: it says that no call stays under way.

## 7. Plan

Done: the modules above, in the order of section 2, and the proofs of section 5. Left:

1. StockPilot's refresh tokens: one-time tokens, concurrent refreshes, lost answers.
2. One composed instance of `WorkOrders`, `EventDelivery` and `SearchIndex`. Today they
   meet in the outbox only: `OutboxComplete` says which rows a save leaves, and the other
   two start from any rows that can be left.
3. An abstract specification of delivery (a message is pending, then settled, for each
   consumer) that `EventDelivery` without a stop of the broker implements; the proof has its
   steps in `OnlyBrokerLoses`.

Runs are kept few: a new question extends an existing run where its instance allows.

## 8. Not modelled

* Employees, organizations and customers are constants: their endpoints insert rows
  behind checks of rows that never change.
* The signature and expiry of FieldOps' tokens: the endpoints take the employee from a
  header and look at no token. Billing makes one stateless call; note summaries read one
  row; health checks, metrics, tracing and correlation ids are only written.
* The browser's history buttons, addresses the router does not know, form validation,
  titles and texts in the front end; several tabs share nothing and are several clients.
* The rate limiter of Create is the library's; a rejected request changes nothing.
* `InMemoryProductStore` and `InMemorySkillCatalog` are not registered by the programs.
* RoadmapOS: pages over single inserts and updates, last write wins, nothing promised
  beyond; its progress calculator is a pure function without state.
* StockPilot's refresh tokens: one in-memory dictionary with atomic operations, apart
  from everything else (section 7).
* Isolation levels other than SQL Server's default, clock skew between processes, and
  the contents of messages and documents beyond the work order and its status.
