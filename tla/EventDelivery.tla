----------------------------- MODULE EventDelivery -----------------------------
(***************************************************************************)
(* The road of a WorkOrderCompletedEvent from the outbox table to the       *)
(* consumers: OutboxPublisher and RabbitMqEventPublisher in FieldOps.Api,   *)
(* the RabbitMQ fanout exchange with one queue per consumer name, and       *)
(* EventConsumerBase with its inbox, as FieldOps.Api ("audit") and          *)
(* FieldOps.NotificationService ("notifications") run it.                   *)
(*                                                                         *)
(* Exchange, queues and dead-letter queues are declared durable: false: a   *)
(* broker that stops forgets them.  The channel publishes with mandatory:   *)
(* false, so a message for a queue that is not bound vanishes without an    *)
(* error, and does not ask for publisher confirms, so a message that is     *)
(* written to a connection RabbitMQ then loses vanishes just as quietly.    *)
(*                                                                         *)
(* What can go wrong (a process stops, a connection drops, a message is     *)
(* lost on the way, the broker stops, a handler or a database call throws)  *)
(* happens at most MaxFaults times in a behaviour.                          *)
(***************************************************************************)
EXTENDS Naturals, FiniteSets

CONSTANTS
    Messages,             \* outbox rows, by Id: the Id is the MessageId on the wire
    Publishers,           \* running OutboxPublishers, one per FieldOps.Api process
    Consumers,            \* consumer names, each with its own queue
    Workers,              \* running EventConsumerBase instances
    ConsumerOf,           \* the consumer name of each
    MaxDeliveryAttempts,  \* 3 in the code
    MaxFaults,            \* bound on the faults of a behaviour
    None

ASSUME DeliveryAssumption ==
    /\ ConsumerOf \in [Workers -> Consumers]
    /\ MaxDeliveryAttempts \in Nat \ {0}
    /\ MaxFaults \in Nat
    /\ None \notin Messages

VARIABLES
    outbox,     \* rows written by Complete
    published,  \* rows with PublishedAtUtc set
    publisher,  \* what is left of each publisher's tick, and the row it has just sent
    brokerUp,
    bound,      \* consumers whose queue exists and is bound to the exchange
    ready,      \* ready[c][m]: copies of m waiting in the queue of c
    unacked,    \* unacked[w][m]: copies delivered to w and not yet acknowledged
    worker,     \* each worker's connection, and the message its handler is at
    inbox,      \* ProcessedMessages
    attempts,   \* FailedMessageAttempts
    dead,       \* contents of the dead-letter queues
    handled,    \* how often HandleAsync has completed for a message (observer)
    dropped,    \* what RabbitMQ has thrown away or never received (observer)
    faults

brokerVars   == <<brokerUp, bound, ready, unacked, dead, dropped>>
databaseVars == <<inbox, attempts>>
vars == <<outbox, published, publisher, brokerVars, worker, databaseVars, handled, faults>>

Phases == {"idle", "checking", "handling", "marking", "acking",
           "failing", "recording", "retrying", "burying", "releasing"}

(* live: the delivery being handled belongs to the worker's present channel, *)
(* so that acknowledging it still means something.  read: the attempts it    *)
(* has read and is about to count up.                                        *)
Offline == [connected |-> FALSE, phase |-> "idle", msg |-> None, live |-> FALSE, read |-> 0]

Handler == [connected : BOOLEAN, phase : Phases,
            msg : Messages \union {None}, live : BOOLEAN, read : Nat]

(* batch: rows still to be tried; sent: the row just sent; unsaved: rows    *)
(* whose mark failed to be saved, still tracked as modified by the          *)
(* DbContext of the tick.                                                   *)
TickState == [batch : SUBSET Messages, sent : Messages \union {None}, unsaved : SUBSET Messages]
NoTick == [batch |-> {}, sent |-> None, unsaved |-> {}]

SentIn(tick) == tick.unsaved \union ({tick.sent} \ {None})

Nothing == [m \in Messages |-> 0]
Add(count, m)    == [count EXCEPT ![m] = @ + 1]
Remove(count, m) == [count EXCEPT ![m] = @ - 1]
Sum(c1, c2)      == [m \in Messages |-> c1[m] + c2[m]]

Fault == faults < MaxFaults /\ faults' = faults + 1
NoFault == UNCHANGED faults

Init ==
    /\ outbox = {} /\ published = {}
    /\ publisher = [p \in Publishers |-> NoTick]
    /\ brokerUp \in BOOLEAN
    /\ bound = {}
    /\ ready = [c \in Consumers |-> Nothing]
    /\ unacked = [w \in Workers |-> Nothing]
    /\ worker = [w \in Workers |-> Offline]
    /\ inbox = [c \in Consumers |-> {}]
    /\ attempts = [c \in Consumers |-> Nothing]
    /\ dead = [c \in Consumers |-> {}]
    /\ handled = [c \in Consumers |-> Nothing]
    /\ dropped = [c \in Consumers |-> {}]
    /\ faults = 0

-----------------------------------------------------------------------------
(* The outbox and its publisher.                                            *)

(* WorkOrdersController.Complete commits its outbox row.                    *)
Enqueue(m) ==
    /\ m \notin outbox
    /\ outbox' = outbox \union {m}
    /\ UNCHANGED <<published, publisher, brokerVars, worker, databaseVars, handled>> /\ NoFault

\* Faulty: an exception escapes the loop, and it never ticks again.
TickUntilFault(p) ==
    /\ publisher[p].batch = {} /\ publisher[p].sent = None
    /\ outbox \ published # {} /\ faults = 0
    /\ publisher' = [publisher EXCEPT ![p] = [NoTick EXCEPT !.batch = outbox \ published]]
    /\ UNCHANGED <<outbox, published, brokerVars, worker, databaseVars, handled>> /\ NoFault

(* The timer fires after the last tick is done.  The order of the rows in a *)
(* tick is left open: nothing here depends on it.                           *)
Tick(p) ==
    /\ publisher[p].batch = {} /\ publisher[p].sent = None
    /\ outbox \ published # {}
    /\ publisher' = [publisher EXCEPT ![p] = [NoTick EXCEPT !.batch = outbox \ published]]
    /\ UNCHANGED <<outbox, published, brokerVars, worker, databaseVars, handled>> /\ NoFault

\* Faulty: the row is marked before it is sent.
PublishMarked(p, m) ==
    /\ publisher[p].sent = None /\ m \in publisher[p].batch
    /\ published' = published \union {m}
    /\ publisher' = [publisher EXCEPT ![p].batch = @ \ {m}, ![p].sent = m]
    /\ UNCHANGED <<outbox, brokerVars, worker, databaseVars, handled>> /\ NoFault

(* The exchange copies the message to every bound queue, and to no other.   *)
Publish(p, m) ==
    /\ publisher[p].sent = None /\ m \in publisher[p].batch
    /\ brokerUp
    /\ ready' = [c \in Consumers |-> IF c \in bound THEN Add(ready[c], m) ELSE ready[c]]
    /\ dropped' = [c \in Consumers |-> IF c \in bound THEN dropped[c] ELSE dropped[c] \union {m}]
    /\ publisher' = [publisher EXCEPT ![p].batch = @ \ {m}, ![p].sent = m]
    /\ UNCHANGED <<outbox, published, brokerUp, bound, unacked, dead, worker, databaseVars, handled>>
    /\ NoFault

(* The send returns once the message is written to its connection.  The     *)
(* connection breaks before RabbitMQ has read it, and nobody is told.       *)
PublishLost(p, m) ==
    /\ publisher[p].sent = None /\ m \in publisher[p].batch
    /\ brokerUp
    /\ dropped' = [c \in Consumers |-> dropped[c] \union {m}]
    /\ publisher' = [publisher EXCEPT ![p].batch = @ \ {m}, ![p].sent = m]
    /\ UNCHANGED <<outbox, published, brokerUp, bound, ready, unacked, dead, worker,
                   databaseVars, handled>>
    /\ Fault

(* Connecting or publishing throws: the row is left for the next tick.      *)
PublishFails(p, m) ==
    /\ publisher[p].sent = None /\ m \in publisher[p].batch
    /\ publisher' = [publisher EXCEPT ![p].batch = @ \ {m}]
    /\ UNCHANGED <<outbox, published, brokerVars, worker, databaseVars, handled>>
    /\ IF brokerUp THEN Fault ELSE NoFault

(* SaveChanges also saves the marks that failed earlier in the tick.        *)
MarkPublished(p) ==
    /\ publisher[p].sent # None
    /\ published' = published \union SentIn(publisher[p])
    /\ publisher' = [publisher EXCEPT ![p].sent = None, ![p].unsaved = {}]
    /\ UNCHANGED <<outbox, brokerVars, worker, databaseVars, handled>> /\ NoFault

(* So does the mark of a WorkOrderSearchDocument row of the same tick.      *)
MarkDocumentPublished(p) ==
    /\ publisher[p].sent = None /\ publisher[p].unsaved # {}
    /\ published' = published \union SentIn(publisher[p])
    /\ publisher' = [publisher EXCEPT ![p].unsaved = {}]
    /\ UNCHANGED <<outbox, brokerVars, worker, databaseVars, handled>> /\ NoFault

(* SaveChanges throws after the message was sent.                           *)
MarkPublishedFails(p) ==
    /\ publisher[p].sent # None
    /\ publisher' = [publisher EXCEPT ![p].sent = None, ![p].unsaved = SentIn(publisher[p])]
    /\ UNCHANGED <<outbox, published, brokerVars, worker, databaseVars, handled>> /\ Fault

PublisherStops(p) ==
    /\ publisher[p] # NoTick
    /\ publisher' = [publisher EXCEPT ![p] = NoTick]
    /\ UNCHANGED <<outbox, published, brokerVars, worker, databaseVars, handled>> /\ Fault

-----------------------------------------------------------------------------
(* A consumer's connection.                                                 *)

\* Faulty: a consumer that has lost its connection gives up for good.
ConnectOnce(w) ==
    /\ ~worker[w].connected /\ brokerUp /\ faults = 0
    /\ worker' = [worker EXCEPT ![w].connected = TRUE]
    /\ bound' = bound \union {ConsumerOf[w]}
    /\ UNCHANGED <<outbox, published, publisher, brokerUp, ready, unacked, dead, dropped,
                   databaseVars, handled>>
    /\ NoFault

(* The connect-declare-bind-consume sequence of ExecuteAsync, or the        *)
(* client library doing the same after a lost connection.                   *)
Connect(w) ==
    /\ ~worker[w].connected /\ brokerUp
    /\ worker' = [worker EXCEPT ![w].connected = TRUE]
    /\ bound' = bound \union {ConsumerOf[w]}
    /\ UNCHANGED <<outbox, published, publisher, brokerUp, ready, unacked, dead, dropped,
                   databaseVars, handled>>
    /\ NoFault

(* The broker requeues what it has delivered to w and not seen acknowledged. *)
Requeue(w) ==
    /\ ready' = [ready EXCEPT ![ConsumerOf[w]] = Sum(@, unacked[w])]
    /\ unacked' = [unacked EXCEPT ![w] = Nothing]

(* The handler in progress runs on; its delivery is no longer its own.      *)
Disconnect(w) ==
    /\ worker[w].connected
    /\ worker' = [worker EXCEPT ![w].connected = FALSE, ![w].live = FALSE]
    /\ Requeue(w)
    /\ UNCHANGED <<outbox, published, publisher, brokerUp, bound, dead, dropped,
                   databaseVars, handled>>
    /\ Fault

WorkerStops(w) ==
    /\ worker[w] # Offline
    /\ worker' = [worker EXCEPT ![w] = Offline]
    /\ Requeue(w)
    /\ UNCHANGED <<outbox, published, publisher, brokerUp, bound, dead, dropped,
                   databaseVars, handled>>
    /\ Fault

(* Nothing is durable: queues, bindings and every copy go.                  *)
BrokerStops ==
    /\ brokerUp
    /\ brokerUp' = FALSE
    /\ bound' = {}
    /\ ready' = [c \in Consumers |-> Nothing]
    /\ unacked' = [w \in Workers |-> Nothing]
    /\ dead' = [c \in Consumers |-> {}]
    /\ dropped' = [c \in Consumers |-> dropped[c] \union dead[c] \union
                     {m \in Messages : \/ ready[c][m] > 0
                                       \/ \E w \in Workers : ConsumerOf[w] = c /\ unacked[w][m] > 0}]
    /\ worker' = [w \in Workers |-> [worker[w] EXCEPT !.connected = FALSE, !.live = FALSE]]
    /\ UNCHANGED <<outbox, published, publisher, databaseVars, handled>> /\ Fault

BrokerStarts ==
    /\ ~brokerUp
    /\ brokerUp' = TRUE
    /\ UNCHANGED <<outbox, published, publisher, bound, ready, unacked, dead, dropped, worker,
                   databaseVars, handled>>
    /\ NoFault

-----------------------------------------------------------------------------
(* The handler of one delivery: ReceivedAsync, then HandleDeliveryFailureAsync *)
(* when it throws.  A worker handles one delivery at a time.                *)

To(w, phase) == worker' = [worker EXCEPT ![w].phase = phase]

(* The handler returns.                                                     *)
Done(w) ==
    worker' = [worker EXCEPT ![w] = [Offline EXCEPT !.connected = worker[w].connected]]

Deliver(w, m) ==
    LET c == ConsumerOf[w] IN
    /\ worker[w].connected /\ worker[w].phase = "idle"
    /\ ready[c][m] > 0
    /\ ready' = [ready EXCEPT ![c] = Remove(@, m)]
    /\ unacked' = [unacked EXCEPT ![w] = Add(@, m)]
    /\ worker' = [worker EXCEPT ![w].phase = "checking", ![w].msg = m, ![w].live = TRUE]
    /\ UNCHANGED <<outbox, published, publisher, brokerUp, bound, dead, dropped,
                   databaseVars, handled>>
    /\ NoFault

\* Faulty: the inbox is never asked.
SkipInbox(w) ==
    /\ worker[w].phase = "checking"
    /\ To(w, "handling")
    /\ UNCHANGED <<outbox, published, publisher, brokerVars, databaseVars, handled>> /\ NoFault

\* Faulty: the message is marked as processed before it is.
ClaimInbox(w) ==
    LET c == ConsumerOf[w] IN
    /\ worker[w].phase = "checking"
    /\ To(w, IF worker[w].msg \in inbox[c] THEN "acking" ELSE "handling")
    /\ inbox' = [inbox EXCEPT ![c] = @ \union {worker[w].msg}]
    /\ UNCHANGED <<outbox, published, publisher, brokerVars, attempts, handled>> /\ NoFault

CheckInbox(w) ==
    /\ worker[w].phase = "checking"
    /\ To(w, IF worker[w].msg \in inbox[ConsumerOf[w]] THEN "acking" ELSE "handling")
    /\ UNCHANGED <<outbox, published, publisher, brokerVars, databaseVars, handled>> /\ NoFault

Handle(w) ==
    LET c == ConsumerOf[w] IN
    /\ worker[w].phase = "handling"
    /\ handled' = [handled EXCEPT ![c] = Add(@, worker[w].msg)]
    /\ To(w, "marking")
    /\ UNCHANGED <<outbox, published, publisher, brokerVars, databaseVars>> /\ NoFault

MarkProcessed(w) ==
    LET c == ConsumerOf[w] IN
    /\ worker[w].phase = "marking"
    /\ inbox' = [inbox EXCEPT ![c] = @ \union {worker[w].msg}]
    /\ To(w, "acking")
    /\ UNCHANGED <<outbox, published, publisher, brokerVars, attempts, handled>> /\ NoFault

(* MarkProcessed swallows a DbUpdateException whatever its cause.           *)
MarkProcessedSwallows(w) ==
    /\ worker[w].phase = "marking"
    /\ To(w, "acking")
    /\ UNCHANGED <<outbox, published, publisher, brokerVars, databaseVars, handled>> /\ Fault

(* BasicAck comes last of the delivery, or of burying it.                   *)
Acknowledging(w) == worker[w].phase \in {"acking", "releasing"}

\* Faulty: an old delivery is acknowledged on the new channel.
AckAnyDelivery(w) ==
    /\ Acknowledging(w)
    /\ unacked' = [unacked EXCEPT ![w] = Remove(@, worker[w].msg)]
    /\ Done(w)
    /\ UNCHANGED <<outbox, published, publisher, brokerUp, bound, ready, dead, dropped,
                   databaseVars, handled>>
    /\ NoFault

Ack(w) ==
    /\ Acknowledging(w) /\ worker[w].live
    /\ unacked' = [unacked EXCEPT ![w] = Remove(@, worker[w].msg)]
    /\ Done(w)
    /\ UNCHANGED <<outbox, published, publisher, brokerUp, bound, ready, dead, dropped,
                   databaseVars, handled>>
    /\ NoFault

(* An acknowledgement for a channel that is gone: ignored after the library *)
(* has reconnected, an exception before.  It is a failed delivery in        *)
(* ReceivedAsync and only logged in HandleDeliveryFailureAsync.             *)
StaleAck(w) ==
    /\ Acknowledging(w) /\ ~worker[w].live
    /\ IF worker[w].connected \/ worker[w].phase = "releasing"
         THEN Done(w)
         ELSE To(w, "failing")
    /\ UNCHANGED <<outbox, published, publisher, brokerVars, databaseVars, handled>> /\ NoFault

(* The inbox query, HandleAsync or the inbox insert throws.                 *)
Throw(w) ==
    /\ worker[w].phase \in {"checking", "handling", "marking"}
    /\ To(w, "failing")
    /\ UNCHANGED <<outbox, published, publisher, brokerVars, databaseVars, handled>> /\ Fault

Count(w, phase, read) == worker' = [worker EXCEPT ![w].phase = phase, ![w].read = read]

(* RecordFailedAttempt loads the row that counts the attempts ...           *)
ReadAttempts(w) ==
    /\ worker[w].phase = "failing"
    /\ Count(w, "recording", attempts[ConsumerOf[w]][worker[w].msg])
    /\ UNCHANGED <<outbox, published, publisher, brokerVars, databaseVars, handled>> /\ NoFault

(* ... and stores it one higher, whatever it is by then.  It is inserted if *)
(* there was none, which the unique index refuses if there is one by now.   *)
InsertRefused(w) ==
    worker[w].read = 0 /\ attempts[ConsumerOf[w]][worker[w].msg] > 0

\* Faulty: the attempt being recorded is counted twice.
RecordTwice(w) ==
    LET c == ConsumerOf[w]
        m == worker[w].msg IN
    /\ worker[w].phase = "recording"
    /\ attempts' = [attempts EXCEPT ![c][m] = worker[w].read + 1]
    /\ Count(w, IF worker[w].read + 2 < MaxDeliveryAttempts THEN "retrying" ELSE "burying", 0)
    /\ UNCHANGED <<outbox, published, publisher, brokerVars, inbox, handled>> /\ NoFault

RecordFailedAttempt(w) ==
    LET c == ConsumerOf[w]
        m == worker[w].msg IN
    /\ worker[w].phase = "recording"
    /\ IF InsertRefused(w)
         THEN Done(w) /\ UNCHANGED attempts
         ELSE /\ attempts' = [attempts EXCEPT ![c][m] = worker[w].read + 1]
              /\ Count(w, IF worker[w].read + 1 < MaxDeliveryAttempts
                          THEN "retrying" ELSE "burying", 0)
    /\ UNCHANGED <<outbox, published, publisher, brokerVars, inbox, handled>> /\ NoFault

(* BasicNack with requeue: true.                                            *)
Nack(w) ==
    LET c == ConsumerOf[w]
        m == worker[w].msg IN
    /\ worker[w].phase = "retrying" /\ worker[w].live
    /\ unacked' = [unacked EXCEPT ![w] = Remove(@, m)]
    /\ ready' = [ready EXCEPT ![c] = Add(@, m)]
    /\ Done(w)
    /\ UNCHANGED <<outbox, published, publisher, brokerUp, bound, dead, dropped,
                   databaseVars, handled>>
    /\ NoFault

StaleNack(w) ==
    /\ worker[w].phase = "retrying" /\ ~worker[w].live
    /\ Done(w)
    /\ UNCHANGED <<outbox, published, publisher, brokerVars, databaseVars, handled>> /\ NoFault

(* The message goes to the dead-letter queue; acknowledging comes after.    *)
Bury(w) ==
    LET c == ConsumerOf[w] IN
    /\ worker[w].phase = "burying" /\ worker[w].connected
    /\ dead' = [dead EXCEPT ![c] = @ \union {worker[w].msg}]
    /\ To(w, "releasing")
    /\ UNCHANGED <<outbox, published, publisher, brokerUp, bound, ready, unacked, dropped,
                   databaseVars, handled>>
    /\ NoFault

(* HandleDeliveryFailureAsync throws and its caller logs it: the delivery,  *)
(* if it is still the worker's, stays unacknowledged.                       *)
GiveUp(w) ==
    /\ worker[w].phase \in {"failing", "recording", "retrying", "burying"}
    /\ Done(w)
    /\ UNCHANGED <<outbox, published, publisher, brokerVars, databaseVars, handled>> /\ Fault

(* Likewise when there is no broker to declare the dead-letter queue at.    *)
BuryFails(w) ==
    /\ worker[w].phase = "burying" /\ ~worker[w].connected
    /\ Done(w)
    /\ UNCHANGED <<outbox, published, publisher, brokerVars, databaseVars, handled>> /\ NoFault

-----------------------------------------------------------------------------
PublisherStep(p) ==
    \/ Tick(p) \/ MarkPublished(p)
    \/ \E m \in Messages : Publish(p, m) \/ PublishFails(p, m)

HandlerStep(w) ==
    \/ CheckInbox(w) \/ Handle(w) \/ MarkProcessed(w) \/ Ack(w) \/ StaleAck(w)
    \/ ReadAttempts(w) \/ RecordFailedAttempt(w) \/ Nack(w) \/ StaleNack(w)
    \/ Bury(w) \/ BuryFails(w)
    \/ \E m \in Messages : Deliver(w, m)

Failure ==
    \/ BrokerStops
    \/ \E p \in Publishers :
         \/ MarkPublishedFails(p) \/ PublisherStops(p)
         \/ \E m \in Messages : PublishLost(p, m)
    \/ \E w \in Workers :
         Disconnect(w) \/ WorkerStops(w) \/ MarkProcessedSwallows(w) \/ Throw(w) \/ GiveUp(w)

Next ==
    \/ \E m \in Messages : Enqueue(m)
    \/ \E p \in Publishers : PublisherStep(p) \/ MarkDocumentPublished(p)
    \/ BrokerStarts
    \/ \E w \in Workers : Connect(w) \/ HandlerStep(w)
    \/ Failure

Spec == Init /\ [][Next]_vars

(* The timer keeps firing, code that has begun runs on, a stopped broker is *)
(* restarted and a lost connection is retried for ever.                     *)
Fairness ==
    /\ \A p \in Publishers : WF_vars(PublisherStep(p))
    /\ WF_vars(BrokerStarts)
    /\ \A w \in Workers : WF_vars(Connect(w)) /\ WF_vars(HandlerStep(w))

FairSpec == Spec /\ Fairness

-----------------------------------------------------------------------------
(***************************************************************************)
(* Properties.                                                              *)
(***************************************************************************)

(* Every variable has its type.                                             *)
TypeOK ==
    /\ outbox \subseteq Messages /\ published \subseteq Messages
    /\ publisher \in [Publishers -> TickState]
    /\ brokerUp \in BOOLEAN
    /\ bound \subseteq Consumers
    /\ ready \in [Consumers -> [Messages -> Nat]]
    /\ unacked \in [Workers -> [Messages -> Nat]]
    /\ worker \in [Workers -> Handler]
    /\ inbox \in [Consumers -> SUBSET Messages]
    /\ attempts \in [Consumers -> [Messages -> Nat]]
    /\ dead \in [Consumers -> SUBSET Messages]
    /\ handled \in [Consumers -> [Messages -> Nat]]
    /\ dropped \in [Consumers -> SUBSET Messages]
    /\ faults \in 0 .. MaxFaults

(* A copy of m for consumer c is in RabbitMQ, waiting or delivered.         *)
InBroker(c, m) ==
    \/ ready[c][m] > 0
    \/ \E w \in Workers : ConsumerOf[w] = c /\ unacked[w][m] > 0

Settled(c, m) == handled[c][m] > 0 \/ m \in dead[c]

Reached(c, m) == InBroker(c, m) \/ Settled(c, m) \/ m \in dropped[c]

(* No silent loss in the code itself: a row marked published has, for every *)
(* consumer, a copy in the broker, or was handled, or lies in the           *)
(* dead-letter queue, or was lost by RabbitMQ or on the way to it.          *)
(* Acknowledgements, inbox entries and marks on the outbox come early in no *)
(* interleaving.                                                            *)
Accounted == \A m \in published, c \in Consumers : Reached(c, m)

(* The inbox tells the truth, through every crash and duplicate: a message  *)
(* it calls processed has been handled.                                     *)
InboxTruthful == \A c \in Consumers : \A m \in inbox[c] : handled[c][m] > 0

(* A message is given up only after MaxDeliveryAttempts recorded failures,  *)
(* counted across restarts, reconnects and duplicates.  With two workers of *)
(* one consumer name a stale count may be stored over a later one.          *)
BuriedAfterAttempts ==
    \A c \in Consumers : \A m \in dead[c] : attempts[c][m] >= MaxDeliveryAttempts

(* What the inbox is for: a message that is recorded as processed is not    *)
(* handled again.  One worker per consumer name keeps this; two do not.     *)
InboxRespected ==
    [][\A c \in Consumers, m \in Messages :
         handled'[c][m] > handled[c][m] => m \notin inbox[c]]_vars

(* Nothing is lost to a transient outage, as OutboxPublisher says: a row    *)
(* marked published stays on its way to every consumer it had reached.  A   *)
(* RabbitMQ that restarts breaks it.                                        *)
NothingLost ==
    [][\A c \in Consumers, m \in published :
         InBroker(c, m) => InBroker(c, m)' \/ Settled(c, m)']_vars

(* Every outbox row is published in the end.                                *)
EventuallyPublished == \A m \in Messages : (m \in outbox) ~> (m \in published)

(* A delivery whose failure handling failed: nobody will acknowledge it     *)
(* while the connection lasts.                                              *)
Stuck(c, m) ==
    \E w \in Workers : ConsumerOf[w] = c /\ worker[w].phase = "idle" /\ unacked[w][m] > 0

(* Every published event is, for every consumer, handled or dead-lettered   *)
(* in the end, unless it was lost by RabbitMQ or on the way to it, or its   *)
(* failure handling failed.                                                 *)
EventuallySettled ==
    \A m \in Messages, c \in Consumers :
        (m \in published) ~> (Settled(c, m) \/ m \in dropped[c] \/ Stuck(c, m))

-----------------------------------------------------------------------------
(***************************************************************************)
(* The strengthening of the invariants above that steps preserve.           *)
(***************************************************************************)

(* A handler h whose channel holds the unacknowledged copies, for a consumer *)
(* that has handled done and gave up or was robbed of out: its claim on its *)
(* delivery, and what its position says about the message it is at.         *)
ClaimSound(h, copies, done, out) ==
    /\ h.phase = "idle" => ~h.live
    /\ h.phase # "idle" => h.msg \in Messages
    /\ h.live => copies[h.msg] > 0
    /\ h.phase = "marking" => done[h.msg] > 0
    /\ h.phase \in {"acking", "releasing"} => done[h.msg] > 0 \/ h.msg \in out

Out(c) == dead[c] \union dropped[c]

HandlersSound ==
    \A w \in Workers :
        ClaimSound(worker[w], unacked[w], handled[ConsumerOf[w]], Out(ConsumerOf[w]))

SentReached ==
    \A p \in Publishers, c \in Consumers : \A m \in SentIn(publisher[p]) : Reached(c, m)
=============================================================================
