-------------------------- MODULE EventFailures_proofs --------------------------
(***************************************************************************)
(* What EventDelivery promises about messages that fail, that come twice    *)
(* and that are on their way, proved for any numbers of messages,           *)
(* publishers, consumers, workers and faults.                               *)
(***************************************************************************)
EXTENDS EventDelivery_proofs

(* As the repository deploys it: one process per consumer name.             *)
OneWorkerPerConsumer ==
    \A v, w \in Workers : ConsumerOf[v] = ConsumerOf[w] => v = w

(* The number of attempts that a handler is about to count up is current.   *)
ReadsCurrent ==
    \A w \in Workers :
        worker[w].phase = "recording" =>
            worker[w].read = attempts[ConsumerOf[w]][worker[w].msg]

(* A handler that gives its message up has seen it fail often enough.       *)
BuriesAfterAttempts ==
    \A w \in Workers :
        worker[w].phase = "burying" =>
            attempts[ConsumerOf[w]][worker[w].msg] >= MaxDeliveryAttempts

(* A handler that is about to acknowledge its own delivery has handled the  *)
(* message, or put it into the dead-letter queue of a broker that has not   *)
(* stopped since.                                                           *)
AcksBacked ==
    \A w \in Workers :
        Acknowledging(w) /\ worker[w].live =>
            Settled(ConsumerOf[w], worker[w].msg)

AttemptsSound == IInv /\ ReadsCurrent /\ BuriesAfterAttempts /\ BuriedAfterAttempts

CopiesSound == IInv /\ AcksBacked

(* What a handler works on is not in the inbox yet.                         *)
HandlesNew ==
    \A w \in Workers :
        worker[w].phase = "handling" => worker[w].msg \notin inbox[ConsumerOf[w]]

(* What is in RabbitMQ for a consumer stays there until it is settled, and  *)
(* only a stop of the broker makes an exception.                            *)
NothingLostButByBroker ==
    [][~BrokerStops =>
         \A c \in Consumers, m \in Messages :
             InBroker(c, m) => InBroker(c, m)' \/ Settled(c, m)']_vars

-----------------------------------------------------------------------------
(* How a step leaves a handler: where it was, with nothing in doubt, or at  *)
(* acknowledging, handling, counting or burying by a step of its own.       *)
LeftAlone(w) ==
    /\ worker'[w].phase = worker[w].phase /\ worker'[w].msg = worker[w].msg
    /\ worker'[w].read = worker[w].read
    /\ worker'[w].live => worker[w].live

MovedOn(w) ==
    /\ worker'[w].msg = worker[w].msg /\ worker'[w].live = worker[w].live
    /\ \/ CheckInbox(w) \/ MarkProcessed(w) \/ MarkProcessedSwallows(w)
       \/ ReadAttempts(w) \/ RecordFailedAttempt(w) \/ Bury(w)

Harmless == {"idle", "checking", "marking", "failing", "retrying"}

HandlerMove(w) ==
    LeftAlone(w) \/ MovedOn(w) \/ worker'[w].phase \in Harmless

LEMMA ToFields ==
    ASSUME TypeOK, NEW w \in Workers, NEW phase \in Phases, To(w, phase)
    PROVE  /\ worker'[w].phase = phase
           /\ worker'[w].msg = worker[w].msg /\ worker'[w].live = worker[w].live
           /\ \A v \in Workers \ {w} : worker'[v] = worker[v]
<1>1. worker[w] \in Handler
  BY DEF TypeOK
<1>2. worker'[w] = [worker[w] EXCEPT !.phase = phase]
  BY DEF TypeOK, To
<1>3. QED
  BY <1>1, <1>2, HandlerUpdates DEF TypeOK, To

LEMMA CountFields ==
    ASSUME TypeOK, NEW w \in Workers, NEW phase \in Phases, NEW read \in Nat,
           Count(w, phase, read)
    PROVE  /\ worker'[w].phase = phase /\ worker'[w].read = read
           /\ worker'[w].msg = worker[w].msg /\ worker'[w].live = worker[w].live
           /\ \A v \in Workers \ {w} : worker'[v] = worker[v]
<1>1. worker[w] \in Handler
  BY DEF TypeOK
<1>2. worker'[w] = [worker[w] EXCEPT !.phase = phase, !.read = read]
  BY DEF TypeOK, Count
<1>3. QED
  BY <1>1, <1>2 DEF Handler, TypeOK, Count

LEMMA DoneFields ==
    ASSUME TypeOK, NEW w \in Workers, Done(w)
    PROVE  worker'[w].phase = "idle" /\ \A v \in Workers \ {w} : worker'[v] = worker[v]
<1>1. worker[w] \in Handler
  BY DEF TypeOK
<1>2. worker'[w] = [Offline EXCEPT !.connected = worker[w].connected]
  BY DEF TypeOK, Done
<1>3. QED
  BY <1>1, <1>2, HandlerUpdates DEF TypeOK, Done

(* The steps of a handler that is not left alone.                           *)
OwnStep(v) ==
    \/ HandlerStep(v) \/ MarkProcessedSwallows(v) \/ Throw(v) \/ GiveUp(v)
    \/ Connect(v) \/ Disconnect(v) \/ WorkerStops(v)

LEMMA OwnMove ==
    ASSUME Sound, NEW v \in Workers, OwnStep(v)
    PROVE  HandlerMove(v) /\ \A w \in Workers \ {v} : worker'[w] = worker[w]
<1>1. worker[v] \in Handler /\ TypeOK
  BY DEF Sound, TypeOK
<1>2. CASE \/ Ack(v) \/ Nack(v) \/ StaleNack(v) \/ BuryFails(v) \/ GiveUp(v)
           \/ StaleAck(v) /\ (worker[v].connected \/ worker[v].phase = "releasing")
           \/ RecordFailedAttempt(v) /\ InsertRefused(v)
  <2>1. Done(v)
    BY <1>2 DEF Ack, Nack, StaleNack, BuryFails, GiveUp, StaleAck, RecordFailedAttempt
  <2>2. QED
    BY <1>1, <2>1, DoneFields DEF HandlerMove, Harmless
<1>3. CASE \/ Handle(v) \/ Throw(v)
           \/ StaleAck(v) /\ ~(worker[v].connected \/ worker[v].phase = "releasing")
  <2>1. PICK phase \in {"marking", "failing"} : To(v, phase)
    BY <1>3 DEF Handle, Throw, StaleAck
  <2>2. QED
    BY <1>1, <2>1, ToFields DEF HandlerMove, Harmless, Phases
<1>4. CASE \/ CheckInbox(v) \/ MarkProcessed(v) \/ MarkProcessedSwallows(v)
           \/ Bury(v)
  <2>1. PICK phase \in {"acking", "handling", "releasing"} : To(v, phase)
    BY <1>4 DEF CheckInbox, MarkProcessed, MarkProcessedSwallows, Bury
  <2>2. QED
    BY <1>1, <1>4, <2>1, ToFields DEF HandlerMove, MovedOn, Phases
<1>10. CASE ReadAttempts(v)
  <2>1. attempts[ConsumerOf[v]][worker[v].msg] \in Nat
    BY <1>1, <1>10, Busy DEF ReadAttempts, TypeOK
  <2>2. QED
    BY <1>10, <2>1, <1>1, CountFields DEF ReadAttempts, HandlerMove, MovedOn, Phases
<1>11. CASE RecordFailedAttempt(v) /\ ~InsertRefused(v)
  <2>1. PICK phase \in {"retrying", "burying"} : Count(v, phase, 0)
    BY <1>11 DEF RecordFailedAttempt
  <2>2. QED
    BY <1>11, <2>1, <1>1, CountFields DEF HandlerMove, MovedOn, Phases
<1>5. ASSUME NEW m \in Messages, Deliver(v, m)
      PROVE  HandlerMove(v) /\ \A w \in Workers \ {v} : worker'[w] = worker[w]
  <2>1. PICK h : h = [worker[v] EXCEPT !.phase = "checking", !.msg = m, !.live = TRUE]
    OBVIOUS
  <2>2. h.phase = "checking"
    BY <1>1, <2>1 DEF Handler
  <2>3. worker' = [worker EXCEPT ![v] = h]
    BY <1>5, <2>1 DEF Deliver
  <2>4. QED
    BY <2>2, <2>3 DEF Sound, TypeOK, HandlerMove, Harmless
<1>6. CASE Connect(v)
  <2>1. PICK h : h = [worker[v] EXCEPT !.connected = TRUE]
    OBVIOUS
  <2>2. worker' = [worker EXCEPT ![v] = h]
    BY <1>6, <2>1 DEF Connect
  <2>3. /\ h.phase = worker[v].phase /\ h.msg = worker[v].msg
        /\ h.live = worker[v].live /\ h.read = worker[v].read
    BY <1>1, <2>1 DEF Handler
  <2>4. QED
    BY <2>2, <2>3 DEF Sound, TypeOK, HandlerMove, LeftAlone
<1>7. CASE Disconnect(v)
  <2>1. PICK h : h = [worker[v] EXCEPT !.connected = FALSE, !.live = FALSE]
    OBVIOUS
  <2>2. worker' = [worker EXCEPT ![v] = h]
    BY <1>7, <2>1 DEF Disconnect
  <2>3. /\ h.phase = worker[v].phase /\ h.msg = worker[v].msg
        /\ h.live = FALSE /\ h.read = worker[v].read
    BY <1>1, <2>1 DEF Handler
  <2>4. QED
    BY <2>2, <2>3 DEF Sound, TypeOK, HandlerMove, LeftAlone
<1>8. CASE WorkerStops(v)
  BY <1>8, ConnectionUpdates DEF WorkerStops, Sound, TypeOK, HandlerMove, Harmless
<1>9. QED
  BY <1>2, <1>3, <1>4, <1>5, <1>6, <1>7, <1>8, <1>10, <1>11 DEF OwnStep, HandlerStep

(* The steps of nobody's handler.                                           *)
Elsewhere ==
    \/ \E m \in Messages : Enqueue(m)
    \/ \E p \in Publishers :
         \/ PublisherStep(p) \/ MarkDocumentPublished(p)
         \/ MarkPublishedFails(p) \/ PublisherStops(p)
         \/ \E m \in Messages : PublishLost(p, m)
    \/ BrokerStarts \/ BrokerStops

LEMMA Steps ==
    ASSUME Next
    PROVE  Elsewhere \/ \E v \in Workers : OwnStep(v)
  BY DEF Next, Failure, Elsewhere, OwnStep

LEMMA ElsewhereMove ==
    ASSUME TypeOK, Elsewhere, NEW w \in Workers
    PROVE  LeftAlone(w) /\ UNCHANGED databaseVars
<1>1. worker[w] \in Handler
  BY DEF TypeOK
<1>2. UNCHANGED databaseVars
  BY DEF Elsewhere, Enqueue, PublisherStep, Tick, MarkPublished, Publish, PublishFails,
     MarkDocumentPublished, MarkPublishedFails, PublisherStops, PublishLost, BrokerStarts, BrokerStops
<1>3. CASE BrokerStops
  <2>1. worker'[w] = [worker[w] EXCEPT !.connected = FALSE, !.live = FALSE]
    BY <1>3 DEF BrokerStops
  <2>2. QED
    BY <1>1, <1>2, <2>1 DEF LeftAlone, Handler
<1>4. CASE UNCHANGED worker
  BY <1>2, <1>4 DEF LeftAlone
<1>5. QED
  BY <1>3, <1>4 DEF Elsewhere, Enqueue, PublisherStep, Tick, MarkPublished, Publish, PublishFails,
     MarkDocumentPublished, MarkPublishedFails, PublisherStops, PublishLost, BrokerStarts

LEMMA EveryHandlerMoves ==
    ASSUME Sound, Next, NEW w \in Workers
    PROVE  HandlerMove(w)
<1>1. ASSUME NEW v \in Workers, OwnStep(v)
      PROVE  HandlerMove(w)
  BY <1>1, OwnMove DEF HandlerMove, LeftAlone
<1>2. QED
  BY <1>1, Steps, ElsewhereMove DEF HandlerMove, Sound

-----------------------------------------------------------------------------
(* Failures are recorded before a message is given up, and stay recorded.   *)
LEMMA AttemptsWrites ==
    ASSUME Next
    PROVE  UNCHANGED attempts \/ \E w \in Workers : RecordFailedAttempt(w)
<1>1. ASSUME NEW w \in Workers, OwnStep(w)
      PROVE  RecordFailedAttempt(w) \/ UNCHANGED attempts
  BY <1>1 DEF OwnStep, HandlerStep, Connect, CheckInbox, Handle, MarkProcessed, Ack, StaleAck,
     ReadAttempts, Nack, StaleNack, Bury, BuryFails, Deliver, Disconnect, WorkerStops,
     MarkProcessedSwallows, Throw, GiveUp, databaseVars
<1>2. ASSUME Elsewhere
      PROVE  UNCHANGED attempts
  BY <1>2 DEF Elsewhere, Enqueue, PublisherStep, Tick, MarkPublished, Publish, PublishFails,
     MarkDocumentPublished, MarkPublishedFails, PublisherStops, PublishLost, BrokerStarts, BrokerStops,
     databaseVars
<1>3. QED
  BY <1>1, <1>2, Steps

LEMMA AttemptsGrow ==
    ASSUME IInv, ReadsCurrent, Next, NEW c \in Consumers, NEW m \in Messages
    PROVE  /\ attempts[c][m] \in Nat /\ attempts'[c][m] \in Nat
           /\ attempts'[c][m] >= attempts[c][m]
<1>1. Sound /\ TypeOK
  BY DEF IInv, Sound
<1>2. /\ attempts[c][m] \in Nat /\ attempts'[c][m] \in Nat
  <2>1. TypeOK'
    BY StepKeeps DEF Sound
  <2>2. QED
    BY <1>1, <2>1 DEF TypeOK
<1>3. ASSUME NEW w \in Workers, RecordFailedAttempt(w), attempts' # attempts
      PROVE  attempts'[c][m] >= attempts[c][m]
  <2> DEFINE d == ConsumerOf[w]
             x == worker[w].msg
  <2>1. /\ x \in Messages /\ d \in Consumers
        /\ attempts' = [attempts EXCEPT ![d][x] = worker[w].read + 1]
    BY <1>1, <1>3, Busy DEF RecordFailedAttempt
  <2>2. worker[w].read = attempts[d][x]
    BY <1>3 DEF RecordFailedAttempt, ReadsCurrent
  <2>3. attempts[d] \in [Messages -> Nat] /\ attempts[c] \in [Messages -> Nat]
    BY <1>1, <2>1 DEF TypeOK
  <2>4. CASE c = d /\ m = x
    BY <1>1, <1>2, <2>1, <2>2, <2>3, <2>4 DEF TypeOK
  <2>5. CASE ~(c = d /\ m = x)
    BY <1>1, <1>2, <2>1, <2>3, <2>5 DEF TypeOK
  <2>6. QED
    BY <2>4, <2>5
<1>4. QED
  BY <1>2, <1>3, AttemptsWrites

(* One process per name reads a count and stores it with nobody in between. *)
LEMMA ReadsStep ==
    ASSUME OneWorkerPerConsumer, IInv, ReadsCurrent, Next
    PROVE  ReadsCurrent'
<1>1. Sound /\ TypeOK
  BY DEF IInv, Sound
<1>2. SUFFICES ASSUME NEW w \in Workers, worker'[w].phase = "recording"
               PROVE  worker'[w].read = attempts'[ConsumerOf[w]][worker'[w].msg]
  BY DEF ReadsCurrent
<1> DEFINE c == ConsumerOf[w]
<1>3. c \in Consumers
  BY DeliveryAssumption
<1>4. ASSUME RecordFailedAttempt(w)
      PROVE  FALSE
  <2>1. CASE InsertRefused(w)
    BY <1>1, <1>2, <1>4, <2>1, DoneFields DEF RecordFailedAttempt
  <2>2. CASE ~InsertRefused(w)
    <3>1. PICK phase \in {"retrying", "burying"} : Count(w, phase, 0)
      BY <1>4, <2>2 DEF RecordFailedAttempt
    <3>2. QED
      BY <1>1, <1>2, <3>1, CountFields DEF Phases
  <2>3. QED
    BY <2>1, <2>2
<1>5. CASE LeftAlone(w)
  <2>1. /\ worker'[w].msg = worker[w].msg
        /\ worker'[w].read = attempts[c][worker[w].msg]
    BY <1>2, <1>5 DEF LeftAlone, ReadsCurrent
  <2>2. attempts'[c] = attempts[c]
    <3>1. ASSUME NEW v \in Workers, RecordFailedAttempt(v)
          PROVE  attempts'[c] = attempts[c]
      <4>1. ConsumerOf[v] # c
        BY <1>4, <3>1 DEF OneWorkerPerConsumer
      <4>2. QED
        BY <1>1, <1>3, <3>1, <4>1 DEF RecordFailedAttempt, TypeOK
    <3>2. QED
      BY <3>1, AttemptsWrites
  <2>3. QED
    BY <2>1, <2>2
<1>6. CASE MovedOn(w)
  <2>1. ASSUME NEW phase \in {"acking", "handling", "releasing"}, To(w, phase)
        PROVE  FALSE
    BY <1>1, <1>2, <2>1, ToFields DEF Phases
  <2>2. ReadAttempts(w)
    BY <1>4, <1>6, <2>1 DEF MovedOn, CheckInbox, MarkProcessed, MarkProcessedSwallows, Bury
  <2>3. attempts[c][worker[w].msg] \in Nat
    BY <1>1, <1>3, <2>2, Busy DEF ReadAttempts, TypeOK
  <2>4. /\ worker'[w].read = attempts[c][worker[w].msg]
        /\ worker'[w].msg = worker[w].msg /\ attempts' = attempts
    BY <1>1, <2>2, <2>3, CountFields DEF ReadAttempts, Phases, databaseVars
  <2>5. QED
    BY <2>4
<1>7. QED
  BY <1>1, <1>2, <1>5, <1>6, EveryHandlerMoves DEF HandlerMove, Harmless

LEMMA BurialsStep ==
    ASSUME IInv, ReadsCurrent, BuriesAfterAttempts, Next
    PROVE  BuriesAfterAttempts'
<1>1. Sound /\ TypeOK
  BY DEF IInv, Sound
<1>2. SUFFICES ASSUME NEW w \in Workers, worker'[w].phase = "burying"
               PROVE  attempts'[ConsumerOf[w]][worker'[w].msg] >= MaxDeliveryAttempts
  BY DEF BuriesAfterAttempts
<1> DEFINE c == ConsumerOf[w]
           m == worker[w].msg
<1>3. c \in Consumers /\ (worker[w].phase # "idle" => m \in Messages)
  BY <1>1, Busy
<1>4. MaxDeliveryAttempts \in Nat
  BY DeliveryAssumption
<1>5. CASE LeftAlone(w)
  <2>1. worker[w].phase = "burying" /\ worker'[w].msg = m
    BY <1>2, <1>5 DEF LeftAlone
  <2>2. attempts[c][m] >= MaxDeliveryAttempts /\ m \in Messages
    BY <1>3, <2>1 DEF BuriesAfterAttempts
  <2>3. QED
    BY <1>3, <1>4, <2>1, <2>2, AttemptsGrow
<1>6. CASE MovedOn(w)
  <2>1. ASSUME NEW phase \in {"acking", "handling", "releasing"}, To(w, phase)
        PROVE  FALSE
    BY <1>1, <1>2, <2>1, ToFields DEF Phases
  <2>2. ASSUME NEW phase \in {"recording", "retrying"}, NEW read \in Nat, Count(w, phase, read)
        PROVE  FALSE
    BY <1>1, <1>2, <2>2, CountFields DEF Phases
  <2>3. ~ReadAttempts(w)
    <3>1. ReadAttempts(w) => attempts[c][m] \in Nat
      BY <1>1, <1>3 DEF ReadAttempts, TypeOK
    <3>2. QED
      BY <2>2, <3>1 DEF ReadAttempts
  <2>4. RecordFailedAttempt(w)
    BY <1>6, <2>1, <2>3 DEF MovedOn, CheckInbox, MarkProcessed, MarkProcessedSwallows, Bury
  <2>5. m \in Messages /\ worker'[w].msg = m /\ ~InsertRefused(w)
    BY <1>1, <1>2, <1>3, <1>6, <2>4, DoneFields DEF RecordFailedAttempt, MovedOn
  <2>6. ~(worker[w].read + 1 < MaxDeliveryAttempts)
    BY <2>2, <2>4, <2>5 DEF RecordFailedAttempt
  <2>7. attempts' = [attempts EXCEPT ![c][m] = worker[w].read + 1]
    BY <2>4, <2>5 DEF RecordFailedAttempt
  <2>8. attempts'[c][m] = worker[w].read + 1 /\ worker[w].read \in Nat
    BY <1>1, <1>3, <2>5, <2>7, Busy DEF TypeOK, Handler
  <2>9. QED
    BY <1>4, <2>5, <2>6, <2>8
<1>7. QED
  BY <1>1, <1>2, <1>5, <1>6, EveryHandlerMoves DEF HandlerMove, Harmless

LEMMA BuriedStep ==
    ASSUME IInv, ReadsCurrent, BuriesAfterAttempts, BuriedAfterAttempts, Next
    PROVE  BuriedAfterAttempts'
<1>1. Sound /\ TypeOK
  BY DEF IInv, Sound
<1>2. SUFFICES ASSUME NEW c \in Consumers, NEW m \in dead'[c]
               PROVE  m \in Messages /\ attempts[c][m] >= MaxDeliveryAttempts
  <2>1. MaxDeliveryAttempts \in Nat
    BY DeliveryAssumption
  <2>2. QED
    BY <1>2, <2>1, AttemptsGrow DEF BuriedAfterAttempts
<1>3. CASE m \in dead[c]
  BY <1>1, <1>3 DEF BuriedAfterAttempts, TypeOK
<1>4. ASSUME NEW w \in Workers, Bury(w), m \notin dead[c]
      PROVE  m \in Messages /\ attempts[c][m] >= MaxDeliveryAttempts
  <2>1. c = ConsumerOf[w] /\ m = worker[w].msg
    BY <1>1, <1>4, Busy DEF Bury, TypeOK
  <2>2. QED
    BY <1>1, <1>4, <2>1, Busy DEF Bury, BuriesAfterAttempts
<1>5. m \in dead[c] \/ \E w \in Workers : Bury(w)
  <2>1. ASSUME NEW w \in Workers, OwnStep(w)
        PROVE  Bury(w) \/ UNCHANGED dead
    BY <2>1 DEF OwnStep, HandlerStep, Connect, CheckInbox, Handle, MarkProcessed, Ack, StaleAck,
       ReadAttempts, RecordFailedAttempt, Nack, StaleNack, BuryFails, Deliver, Disconnect,
       WorkerStops,
       MarkProcessedSwallows, Throw, GiveUp, brokerVars
  <2>2. ASSUME Elsewhere
        PROVE  dead' = dead \/ dead' = [d \in Consumers |-> {}]
    BY <2>2 DEF Elsewhere, Enqueue, PublisherStep, Tick, MarkPublished, Publish, PublishFails,
       MarkDocumentPublished, MarkPublishedFails, PublisherStops, PublishLost, BrokerStarts, BrokerStops,
       brokerVars
  <2>3. QED
    BY <2>1, <2>2, Steps
<1>6. QED
  BY <1>3, <1>4, <1>5

LEMMA AttemptsInvariance ==
    ASSUME OneWorkerPerConsumer
    PROVE  Spec => []AttemptsSound
<1>1. Init => ReadsCurrent /\ BuriesAfterAttempts /\ BuriedAfterAttempts
  BY DEF Init, ReadsCurrent, BuriesAfterAttempts, BuriedAfterAttempts, Offline
<1>2. IInv /\ ReadsCurrent /\ BuriesAfterAttempts /\ BuriedAfterAttempts /\ [Next]_vars =>
        (ReadsCurrent /\ BuriesAfterAttempts /\ BuriedAfterAttempts)'
  <2>1. CASE Next
    BY <2>1, ReadsStep, BurialsStep, BuriedStep
  <2>2. CASE UNCHANGED vars
    BY <2>2 DEF vars, brokerVars, databaseVars, ReadsCurrent, BuriesAfterAttempts,
       BuriedAfterAttempts
  <2>3. QED
    BY <2>1, <2>2
<1>3. QED
  BY <1>1, <1>2, Invariance, PTL DEF Spec, AttemptsSound

(* With one process per consumer name, as the repository deploys it, a      *)
(* message is given up only after MaxDeliveryAttempts recorded failures,    *)
(* whatever crashes, reconnects and duplicates come in between.  Two        *)
(* processes could store a stale count over a later one.                    *)
THEOREM BuriedOnlyAfterAttempts ==
    ASSUME OneWorkerPerConsumer
    PROVE  Spec => []BuriedAfterAttempts
<1>1. AttemptsSound => BuriedAfterAttempts
  BY DEF AttemptsSound
<1>2. QED
  BY <1>1, AttemptsInvariance, PTL

-----------------------------------------------------------------------------
(* What is acknowledged is settled.                                         *)

(* Only a stop of the broker empties a dead-letter queue.                   *)
LEMMA DeadStays ==
    ASSUME TypeOK, Next, ~BrokerStops, NEW c \in Consumers
    PROVE  dead[c] \subseteq dead'[c]
<1>1. ASSUME NEW w \in Workers, OwnStep(w)
      PROVE  UNCHANGED dead \/ dead' = [dead EXCEPT ![ConsumerOf[w]] = @ \union {worker[w].msg}]
  BY <1>1 DEF OwnStep, HandlerStep, Connect, CheckInbox, Handle, MarkProcessed, Ack, StaleAck,
     ReadAttempts, RecordFailedAttempt, Nack, StaleNack, Bury, BuryFails, Deliver, Disconnect,
     WorkerStops,
     MarkProcessedSwallows, Throw, GiveUp, brokerVars
<1>2. ASSUME Elsewhere
      PROVE  UNCHANGED dead
  BY <1>2 DEF Elsewhere, Enqueue, PublisherStep, Tick, MarkPublished, Publish, PublishFails,
     MarkDocumentPublished, MarkPublishedFails, PublisherStops, PublishLost, BrokerStarts, brokerVars
<1>3. ASSUME NEW w \in Workers, dead' = [dead EXCEPT ![ConsumerOf[w]] = @ \union {worker[w].msg}]
      PROVE  dead[c] \subseteq dead'[c]
  BY <1>3 DEF TypeOK
<1>4. QED
  BY <1>1, <1>2, <1>3, Steps

LEMMA AcksStep ==
    ASSUME IInv, AcksBacked, Next
    PROVE  AcksBacked'
<1>1. Sound /\ TypeOK /\ Keeps
  BY StepKeeps DEF IInv, Sound
<1> SUFFICES ASSUME NEW w \in Workers, Acknowledging(w)', worker'[w].live,
                    NEW m, m = worker'[w].msg
             PROVE  handled'[ConsumerOf[w]][m] > 0 \/ m \in dead'[ConsumerOf[w]]
  BY DEF AcksBacked, Settled
<1> DEFINE c == ConsumerOf[w]
<1>2. /\ c \in Consumers
      /\ ClaimSound(worker[w], unacked[w], handled[c], Out(c))
      /\ worker[w].phase # "idle" => worker[w].msg \in Messages
  BY <1>1, Busy
<1>3. CASE LeftAlone(w)
  <2>1. m = worker[w].msg /\ m \in Messages /\ Acknowledging(w) /\ worker[w].live
    BY <1>2, <1>3 DEF LeftAlone, Acknowledging, ClaimSound
  <2>2. handled[c][m] > 0 \/ m \in dead[c]
    BY <2>1 DEF AcksBacked, Settled
  <2>3. ~BrokerStops
    <3>1. SUFFICES ASSUME BrokerStops PROVE FALSE
      OBVIOUS
    <3>2. worker'[w] = [worker[w] EXCEPT !.connected = FALSE, !.live = FALSE]
      BY <3>1 DEF BrokerStops
    <3>3. worker'[w].live = FALSE
      BY <1>1, <3>2, Busy, ConnectionUpdates
    <3>4. QED
      BY <3>3
  <2>4. QED
    BY <1>1, <1>2, <2>1, <2>2, <2>3, DeadStays DEF Keeps
<1>4. CASE MovedOn(w)
  <2>1. m = worker[w].msg /\ worker[w].live
    BY <1>4 DEF MovedOn
  <2>2. CASE CheckInbox(w)
    <3>1. m \in inbox[c]
      <4>1. ~To(w, "handling")
        BY <1>1, ToFields DEF Acknowledging, Phases
      <4>2. QED
        BY <2>1, <2>2, <4>1 DEF CheckInbox
    <3>2. handled[c][m] > 0
      BY <1>2, <3>1 DEF IInv, InboxTruthful
    <3>3. QED
      BY <2>2, <3>2 DEF CheckInbox
  <2>3. CASE MarkProcessed(w) \/ MarkProcessedSwallows(w)
    BY <1>2, <2>1, <2>3 DEF MarkProcessed, MarkProcessedSwallows, ClaimSound
  <2>4. CASE RecordFailedAttempt(w)
    <3>1. CASE InsertRefused(w)
      BY <1>1, <2>4, <3>1, DoneFields DEF RecordFailedAttempt, Acknowledging
    <3>2. CASE ~InsertRefused(w)
      <4>1. PICK phase \in {"retrying", "burying"} : Count(w, phase, 0)
        BY <2>4, <3>2 DEF RecordFailedAttempt
      <4>2. QED
        BY <1>1, <4>1, CountFields DEF Acknowledging, Phases
    <3>3. QED
      BY <3>1, <3>2
  <2>5. CASE ReadAttempts(w)
    <3>1. attempts[c][worker[w].msg] \in Nat
      BY <1>1, <1>2, <2>5 DEF ReadAttempts, TypeOK
    <3>2. QED
      BY <1>1, <2>5, <3>1, CountFields DEF ReadAttempts, Acknowledging, Phases
  <2>6. CASE Bury(w)
    BY <1>1, <1>2, <2>1, <2>6 DEF Bury, TypeOK
  <2>7. QED
    BY <1>4, <2>2, <2>3, <2>4, <2>5, <2>6 DEF MovedOn
<1>5. QED
  BY <1>1, <1>3, <1>4, EveryHandlerMoves DEF HandlerMove, Harmless, Acknowledging

LEMMA CopiesInvariance == Spec => []CopiesSound
<1>1. Init => AcksBacked
  BY DEF Init, AcksBacked, Acknowledging, Offline
<1>2. IInv /\ AcksBacked /\ [Next]_vars => AcksBacked'
  <2>1. CASE Next
    BY <2>1, AcksStep
  <2>2. CASE UNCHANGED vars
    BY <2>2 DEF vars, brokerVars, databaseVars, AcksBacked, Acknowledging, Settled
  <2>3. QED
    BY <2>1, <2>2
<1>3. QED
  BY <1>1, <1>2, Invariance, PTL DEF Spec, CopiesSound

-----------------------------------------------------------------------------
(* Copies in RabbitMQ.                                                      *)

LEMMA CopiesStay ==
    ASSUME CopiesSound, Next, ~BrokerStops,
           NEW c \in Consumers, NEW m \in Messages, InBroker(c, m)
    PROVE  InBroker(c, m)' \/ Settled(c, m)'
<1>1. IInv /\ Sound /\ TypeOK
  BY DEF CopiesSound, IInv, Sound
<1>2. CASE UNCHANGED <<ready, unacked>>
  BY <1>2 DEF InBroker
<1>3. ASSUME NEW p \in Publishers, NEW x \in Messages, Publish(p, x)
      PROVE  InBroker(c, m)'
  <2>1. ready[c][m] > 0 => ready'[c][m] > 0
    BY <1>1, <1>3, AddCounts DEF Publish, TypeOK
  <2>2. unacked' = unacked
    BY <1>3 DEF Publish
  <2>3. QED
    BY <2>1, <2>2 DEF InBroker
<1>4. ASSUME NEW w \in Workers, Requeue(w)
      PROVE  InBroker(c, m)'
  <2>1. /\ ConsumerOf[w] \in Consumers
        /\ unacked[w] \in [Messages -> Nat] /\ ready[ConsumerOf[w]] \in [Messages -> Nat]
    BY <1>1, Busy
  <2>2. /\ ready'[ConsumerOf[w]] = Sum(ready[ConsumerOf[w]], unacked[w])
        /\ \A d \in Consumers \ {ConsumerOf[w]} : ready'[d] = ready[d]
        /\ \A v \in Workers \ {w} : unacked'[v] = unacked[v]
    BY <1>1, <1>4, <2>1 DEF Requeue, TypeOK
  <2>3. \A x \in Messages : Sum(ready[ConsumerOf[w]], unacked[w])[x] > 0
                              <=> ready[ConsumerOf[w]][x] > 0 \/ unacked[w][x] > 0
    BY <2>1, SumCounts
  <2>4. QED
    BY <2>2, <2>3 DEF InBroker
<1>5. ASSUME NEW w \in Workers, NEW x \in Messages, Deliver(w, x)
      PROVE  InBroker(c, m)'
  <2>1. /\ ConsumerOf[w] \in Consumers
        /\ unacked[w] \in [Messages -> Nat] /\ ready[ConsumerOf[w]] \in [Messages -> Nat]
    BY <1>1, Busy
  <2>2. /\ ready'[ConsumerOf[w]] = Remove(ready[ConsumerOf[w]], x)
        /\ unacked'[w] = Add(unacked[w], x)
        /\ \A d \in Consumers \ {ConsumerOf[w]} : ready'[d] = ready[d]
        /\ \A v \in Workers \ {w} : unacked'[v] = unacked[v]
    BY <1>1, <1>5, <2>1 DEF Deliver, TypeOK
  <2>3. /\ \A y \in Messages :
             y # x => Remove(ready[ConsumerOf[w]], x)[y] = ready[ConsumerOf[w]][y]
        /\ Add(unacked[w], x)[x] > 0
        /\ \A y \in Messages : unacked[w][y] > 0 => Add(unacked[w], x)[y] > 0
    BY <1>5, <2>1, AddCounts, RemoveCounts DEF Deliver
  <2>4. QED
    BY <2>2, <2>3 DEF InBroker
<1>6. ASSUME NEW w \in Workers, Ack(w) \/ Nack(w)
      PROVE  InBroker(c, m)' \/ Settled(c, m)'
  <2> DEFINE d == ConsumerOf[w]
             x == worker[w].msg
  <2>1. /\ d \in Consumers /\ x \in Messages
        /\ unacked[w] \in [Messages -> Nat] /\ ready[d] \in [Messages -> Nat]
        /\ unacked[w][x] > 0
    BY <1>1, <1>6, Busy DEF Ack, Nack, ClaimSound
  <2>2. /\ unacked'[w] = Remove(unacked[w], x)
        /\ \A v \in Workers \ {w} : unacked'[v] = unacked[v]
    BY <1>1, <1>6 DEF Ack, Nack, TypeOK
  <2>3. \A y \in Messages : y # x => Remove(unacked[w], x)[y] = unacked[w][y]
    BY <2>1, RemoveCounts
  <2>4. /\ Add(ready[d], x)[x] > 0
        /\ \A y \in Messages : ready[d][y] > 0 => Add(ready[d], x)[y] > 0
    BY <2>1, AddCounts
  <2>5. CASE Ack(w)
    <3>1. ready' = ready /\ handled' = handled /\ dead' = dead
      BY <2>5 DEF Ack, databaseVars
    <3>2. CASE c = d /\ m = x
      BY <2>5, <3>1, <3>2 DEF Ack, CopiesSound, AcksBacked, Settled
    <3>3. CASE ~(c = d /\ m = x)
      BY <2>2, <2>3, <3>1, <3>3 DEF InBroker
    <3>4. QED
      BY <3>2, <3>3
  <2>6. CASE Nack(w)
    <3>1. ready'[d] = Add(ready[d], x) /\ \A e \in Consumers \ {d} : ready'[e] = ready[e]
      BY <1>1, <2>1, <2>6 DEF Nack, TypeOK
    <3>2. QED
      BY <2>2, <2>3, <2>4, <3>1 DEF InBroker
  <2>7. QED
    BY <1>6, <2>5, <2>6
<1>7. \/ UNCHANGED <<ready, unacked>>
      \/ \E p \in Publishers, x \in Messages : Publish(p, x)
      \/ \E w \in Workers : Requeue(w) \/ Ack(w) \/ Nack(w) \/ \E x \in Messages : Deliver(w, x)
  <2>1. ASSUME NEW w \in Workers, OwnStep(w)
        PROVE  \/ UNCHANGED <<ready, unacked>>
               \/ Requeue(w) \/ Ack(w) \/ Nack(w) \/ \E x \in Messages : Deliver(w, x)
    BY <2>1 DEF OwnStep, HandlerStep, Connect, CheckInbox, Handle, MarkProcessed, StaleAck,
       ReadAttempts, RecordFailedAttempt, StaleNack, Bury, BuryFails, Disconnect, WorkerStops,
       MarkProcessedSwallows, Throw, GiveUp, brokerVars
  <2>2. ASSUME Elsewhere
        PROVE  \/ UNCHANGED <<ready, unacked>>
               \/ \E p \in Publishers, x \in Messages : Publish(p, x)
    BY <2>2 DEF Elsewhere, Enqueue, PublisherStep, Tick, MarkPublished, PublishFails,
       MarkDocumentPublished, MarkPublishedFails, PublisherStops, PublishLost, BrokerStarts, brokerVars
  <2>3. QED
    BY <2>1, <2>2, Steps
<1>8. QED
  BY <1>2, <1>3, <1>4, <1>5, <1>6, <1>7

(* No acknowledgement, requeueing, reconnect or crash of a process loses a  *)
(* message that RabbitMQ holds for a consumer: it leaves only handled or    *)
(* dead-lettered, unless RabbitMQ itself stops.                             *)
THEOREM OnlyBrokerLoses == Spec => NothingLostButByBroker
<1>1. CopiesSound /\ [Next]_vars =>
        [~BrokerStops =>
           \A c \in Consumers, m \in Messages :
               InBroker(c, m) => InBroker(c, m)' \/ Settled(c, m)']_vars
  BY CopiesStay
<1>2. QED
  BY <1>1, CopiesInvariance, PTL DEF Spec, NothingLostButByBroker

-----------------------------------------------------------------------------
(* One process per consumer name.                                           *)

LEMMA InboxWrites ==
    ASSUME Next
    PROVE  UNCHANGED inbox \/ \E w \in Workers : MarkProcessed(w)
<1>1. ASSUME NEW w \in Workers, OwnStep(w)
      PROVE  MarkProcessed(w) \/ UNCHANGED inbox
  BY <1>1 DEF OwnStep, HandlerStep, Connect, CheckInbox, Handle, Ack, StaleAck,
     ReadAttempts, RecordFailedAttempt, Nack, StaleNack, Bury, BuryFails, Deliver, Disconnect,
     WorkerStops,
     MarkProcessedSwallows, Throw, GiveUp, databaseVars
<1>2. ASSUME Elsewhere
      PROVE  UNCHANGED inbox
  BY <1>2 DEF Elsewhere, Enqueue, PublisherStep, Tick, MarkPublished, Publish, PublishFails,
     MarkDocumentPublished, MarkPublishedFails, PublisherStops, PublishLost, BrokerStarts, BrokerStops,
     databaseVars
<1>3. QED
  BY <1>1, <1>2, Steps

LEMMA HandlesNewStep ==
    ASSUME OneWorkerPerConsumer, Sound, HandlesNew, Next
    PROVE  HandlesNew'
<1>1. TypeOK
  BY DEF Sound
<1>2. SUFFICES ASSUME NEW w \in Workers, worker'[w].phase = "handling",
                      worker'[w].msg \in inbox'[ConsumerOf[w]]
               PROVE  FALSE
  BY DEF HandlesNew
<1>3. ConsumerOf[w] \in Consumers
  BY DeliveryAssumption
<1>4. CASE LeftAlone(w)
  <2>1. /\ worker[w].phase = "handling"
        /\ worker'[w].msg = worker[w].msg /\ worker[w].msg \notin inbox[ConsumerOf[w]]
    BY <1>2, <1>4 DEF LeftAlone, HandlesNew
  <2>2. PICK v \in Workers : MarkProcessed(v)
    BY <1>2, <2>1, InboxWrites
  <2>3. v # w
    BY <2>1, <2>2 DEF MarkProcessed
  <2>4. inbox'[ConsumerOf[w]] = inbox[ConsumerOf[w]]
    BY <1>1, <1>3, <2>2, <2>3 DEF MarkProcessed, OneWorkerPerConsumer, TypeOK
  <2>5. QED
    BY <1>2, <2>1, <2>4
<1>5. CASE MovedOn(w)
  <2>1. ~To(w, "acking") /\ ~To(w, "releasing")
    BY <1>1, <1>2, ToFields DEF Phases
  <2>2. CheckInbox(w)
    <3>1. ~ReadAttempts(w)
      <4>1. ReadAttempts(w) => attempts[ConsumerOf[w]][worker[w].msg] \in Nat
        BY <1>1, <1>3, Busy DEF ReadAttempts, TypeOK
      <4>2. QED
        BY <1>1, <1>2, <4>1, CountFields DEF ReadAttempts, Phases
    <3>2. ~RecordFailedAttempt(w)
      <4>1. ASSUME NEW phase \in {"retrying", "burying"}
            PROVE  ~Count(w, phase, 0)
        BY <1>1, <1>2, <4>1, CountFields DEF Phases
      <4>2. QED
        BY <1>1, <1>2, <4>1, DoneFields DEF RecordFailedAttempt
    <3>3. QED
      BY <1>5, <2>1, <3>1, <3>2 DEF MovedOn, MarkProcessed, MarkProcessedSwallows, Bury
  <2>3. worker[w].msg \notin inbox[ConsumerOf[w]] /\ inbox' = inbox
    BY <2>1, <2>2 DEF CheckInbox, databaseVars
  <2>4. worker'[w].msg = worker[w].msg
    BY <1>5 DEF MovedOn
  <2>5. QED
    BY <1>2, <2>3, <2>4
<1>6. QED
  BY <1>1, <1>2, <1>4, <1>5, EveryHandlerMoves DEF HandlerMove, Harmless

(* Only a handler adds to what is handled, and only its own message.        *)
LEMMA HandlesOwn ==
    ASSUME TypeOK, HandlesNew, Next, NEW c \in Consumers, NEW m \in Messages,
           handled'[c][m] > handled[c][m]
    PROVE  m \notin inbox[c]
<1>1. handled[c][m] \in Nat
  BY DEF TypeOK
<1>2. PICK w \in Workers : Handle(w)
  <2>1. ASSUME NEW w \in Workers, OwnStep(w)
        PROVE  Handle(w) \/ UNCHANGED handled
    BY <2>1 DEF OwnStep, HandlerStep, Connect, CheckInbox, MarkProcessed, Ack, StaleAck,
       ReadAttempts, RecordFailedAttempt, Nack, StaleNack, Bury, BuryFails, Deliver, Disconnect,
       WorkerStops,
       MarkProcessedSwallows, Throw, GiveUp
  <2>2. ASSUME Elsewhere
        PROVE  UNCHANGED handled
    BY <2>2 DEF Elsewhere, Enqueue, PublisherStep, Tick, MarkPublished, Publish, PublishFails,
       MarkDocumentPublished, MarkPublishedFails, PublisherStops, PublishLost, BrokerStarts, BrokerStops
  <2>3. handled' # handled
    BY <1>1
  <2>4. QED
    BY <2>1, <2>2, <2>3, Steps
<1>3. /\ worker[w].phase = "handling"
      /\ handled' = [handled EXCEPT ![ConsumerOf[w]] = Add(@, worker[w].msg)]
  BY <1>2 DEF Handle
<1>4. c = ConsumerOf[w] /\ m = worker[w].msg
  BY <1>1, <1>3 DEF TypeOK, Add
<1>5. QED
  BY <1>3, <1>4 DEF HandlesNew

(* With one process per consumer name, as the repository deploys it, a      *)
(* message that is in the inbox is never handled again, whatever crashes,   *)
(* reconnects and redeliveries come in between.  The run of two processes   *)
(* per name shows that the assumption is needed.                            *)
THEOREM HandledOncePerInboxEntry ==
    ASSUME OneWorkerPerConsumer
    PROVE  Spec => InboxRespected
<1>1. Init => HandlesNew
  BY DEF Init, HandlesNew, Offline
<1>2. HandlesNew /\ IInv /\ [Next]_vars => HandlesNew'
  <2>1. CASE Next
    BY <2>1, HandlesNewStep DEF IInv
  <2>2. CASE UNCHANGED vars
    BY <2>2 DEF vars, databaseVars, HandlesNew
  <2>3. QED
    BY <2>1, <2>2
<1>3. HandlesNew /\ IInv /\ [Next]_vars =>
        [\A c \in Consumers, m \in Messages :
             handled'[c][m] > handled[c][m] => m \notin inbox[c]]_vars
  BY HandlesOwn DEF IInv, Sound
<1>4. QED
  BY <1>1, <1>2, <1>3, Invariance, PTL DEF Spec, InboxRespected
=============================================================================
