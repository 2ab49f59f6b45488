-------------------------- MODULE EventDelivery_proofs --------------------------
(***************************************************************************)
(* Proofs about EventDelivery, for any numbers of messages, publishers,     *)
(* consumers, workers and faults.                                           *)
(***************************************************************************)
EXTENDS EventDelivery, TLAPS

-----------------------------------------------------------------------------
(* Counts of copies.                                                        *)

LEMMA AddCounts ==
    ASSUME NEW count \in [Messages -> Nat], NEW m \in Messages
    PROVE  /\ Add(count, m) \in [Messages -> Nat]
           /\ Add(count, m)[m] > 0
           /\ \A x \in Messages : count[x] > 0 => Add(count, m)[x] > 0
           /\ \A x \in Messages : x # m => Add(count, m)[x] = count[x]
  BY DEF Add

LEMMA RemoveCounts ==
    ASSUME NEW count \in [Messages -> Nat], NEW m \in Messages, count[m] > 0
    PROVE  /\ Remove(count, m) \in [Messages -> Nat]
           /\ \A x \in Messages : x # m => Remove(count, m)[x] = count[x]
  BY DEF Remove

LEMMA SumCounts ==
    ASSUME NEW c1 \in [Messages -> Nat], NEW c2 \in [Messages -> Nat]
    PROVE  /\ Sum(c1, c2) \in [Messages -> Nat]
           /\ \A x \in Messages : Sum(c1, c2)[x] > 0 <=> c1[x] > 0 \/ c2[x] > 0
  BY DEF Sum

LEMMA NothingCounts ==
    Nothing \in [Messages -> Nat] /\ \A x \in Messages : Nothing[x] = 0
  BY DEF Nothing

-----------------------------------------------------------------------------
(* What every step keeps.                                                   *)

(* A claim stays sound when copies, handled messages and given up ones only *)
(* grow in number.                                                          *)
LEMMA ClaimStable ==
    ASSUME NEW h, NEW copies, NEW copies2, NEW done, NEW done2, NEW out, NEW out2,
           ClaimSound(h, copies, done, out), h.live => h.phase # "idle",
           \A m \in Messages : /\ copies[m] > 0 => copies2[m] > 0
                               /\ done[m] > 0 => done2[m] > 0,
           out \subseteq out2
    PROVE  ClaimSound(h, copies2, done2, out2)
  BY DEF ClaimSound

(* A message that has reached a consumer stays accounted for, and nothing   *)
(* is unhandled.                                                            *)
Keeps ==
    /\ \A c \in Consumers, m \in Messages : Reached(c, m) => Reached(c, m)'
    /\ \A c \in Consumers, m \in Messages : handled[c][m] > 0 => handled'[c][m] > 0

Sound == TypeOK /\ HandlersSound

(* Steps that leave RabbitMQ, the observers and the handlers alone.         *)
LEMMA QuietSteps ==
    ASSUME Sound, UNCHANGED <<brokerVars, worker, handled>>
    PROVE  Keeps /\ HandlersSound'
  BY DEF Sound, brokerVars, Keeps, Reached, InBroker, Settled, HandlersSound, Out

LEMMA FaultType ==
    ASSUME TypeOK, Fault \/ NoFault
    PROVE  faults' \in 0 .. MaxFaults
  BY DeliveryAssumption DEF TypeOK, Fault, NoFault

LEMMA TickUpdates ==
    ASSUME NEW t \in TickState
    PROVE  /\ \A m \in Messages : [t EXCEPT !.batch = @ \ {m}, !.sent = m] \in TickState
           /\ \A m \in Messages : [t EXCEPT !.batch = @ \ {m}] \in TickState
           /\ \A b \in SUBSET Messages : [NoTick EXCEPT !.batch = b] \in TickState
           /\ [t EXCEPT !.unsaved = {}] \in TickState
           /\ [t EXCEPT !.sent = None, !.unsaved = {}] \in TickState
           /\ [t EXCEPT !.sent = None, !.unsaved = SentIn(t)] \in TickState
           /\ NoTick \in TickState
           /\ SentIn(t) \subseteq Messages
  BY DEF TickState, NoTick, SentIn

LEMMA PublisherKeeps ==
    ASSUME Sound, NEW p \in Publishers,
           \/ PublisherStep(p) \/ MarkDocumentPublished(p)
           \/ MarkPublishedFails(p) \/ PublisherStops(p)
           \/ \E m \in Messages : PublishLost(p, m)
    PROVE  TypeOK' /\ HandlersSound' /\ Keeps
  <1> USE DEF Sound
  <1>0. publisher[p] \in TickState
    BY DEF TypeOK
  <1>1. CASE Tick(p)
    <2>1. publisher' \in [Publishers -> TickState]
      BY <1>0, <1>1, TickUpdates DEF Tick, TypeOK
    <2> QED
      BY <1>1, <2>1, QuietSteps DEF Tick, TypeOK, brokerVars, databaseVars, NoFault
  <1>7. CASE MarkDocumentPublished(p)
    <2>1. SentIn(publisher[p]) \subseteq Messages
      BY <1>0, TickUpdates
    <2>2. publisher' \in [Publishers -> TickState]
      BY <1>0, <1>7, TickUpdates DEF MarkDocumentPublished, TypeOK
    <2> QED
      BY <1>7, <2>1, <2>2, QuietSteps
      DEF MarkDocumentPublished, TypeOK, brokerVars, databaseVars, NoFault
  <1>2. CASE MarkPublished(p)
    <2>1. SentIn(publisher[p]) \subseteq Messages
      BY <1>0, TickUpdates
    <2>2. publisher' \in [Publishers -> TickState]
      BY <1>0, <1>2, TickUpdates DEF MarkPublished, TypeOK
    <2> QED
      BY <1>2, <2>1, <2>2, QuietSteps DEF MarkPublished, TypeOK, brokerVars, databaseVars, NoFault
  <1>3. CASE MarkPublishedFails(p)
    <2>1. publisher' \in [Publishers -> TickState]
      BY <1>0, <1>3, TickUpdates DEF MarkPublishedFails, TypeOK
    <2> QED
      BY <1>3, <2>1, QuietSteps, FaultType DEF MarkPublishedFails, TypeOK, brokerVars, databaseVars
  <1>4. CASE PublisherStops(p)
    <2>1. publisher' \in [Publishers -> TickState]
      BY <1>0, <1>4, TickUpdates DEF PublisherStops, TypeOK
    <2> QED
      BY <1>4, <2>1, QuietSteps, FaultType DEF PublisherStops, TypeOK, brokerVars, databaseVars
  <1>5. ASSUME NEW m \in Messages, PublishFails(p, m)
        PROVE  TypeOK' /\ HandlersSound' /\ Keeps
    <2>1. publisher' \in [Publishers -> TickState]
      BY <1>0, <1>5, TickUpdates DEF PublishFails, TypeOK
    <2>2. Fault \/ NoFault
      BY <1>5 DEF PublishFails
    <2> QED
      BY <1>5, <2>1, <2>2, QuietSteps, FaultType DEF PublishFails, TypeOK, brokerVars, databaseVars
  <1>6. ASSUME NEW m \in Messages, Publish(p, m) \/ PublishLost(p, m)
        PROVE  TypeOK' /\ HandlersSound' /\ Keeps
    <2>1. \A c \in Consumers :
            /\ ready'[c] \in [Messages -> Nat]
            /\ \A x \in Messages : ready[c][x] > 0 => ready'[c][x] > 0
            /\ dropped[c] \subseteq dropped'[c] /\ dropped'[c] \subseteq Messages
      <3>1. CASE Publish(p, m)
        BY <3>1, AddCounts DEF Publish, TypeOK
      <3>2. CASE PublishLost(p, m)
        BY <3>2 DEF PublishLost, TypeOK
      <3> QED
        BY <1>6, <3>1, <3>2
    <2>2. publisher' \in [Publishers -> TickState]
      <3>1. CASE Publish(p, m)
        BY <1>0, <3>1, TickUpdates DEF Publish, TypeOK
      <3>2. CASE PublishLost(p, m)
        BY <1>0, <3>2, TickUpdates DEF PublishLost, TypeOK
      <3> QED
        BY <1>6, <3>1, <3>2
    <2>6. TypeOK'
      BY <1>6, <2>1, <2>2, FaultType DEF Publish, PublishLost, TypeOK, databaseVars
    <2>3. Keeps
      BY <1>6, <2>1 DEF Publish, PublishLost, Keeps, Reached, InBroker, Settled
    <2>4. \A c \in Consumers : Out(c) \subseteq Out(c)'
      BY <1>6, <2>1 DEF Publish, PublishLost, Out
    <2>5. HandlersSound'
      <3> SUFFICES ASSUME NEW w \in Workers
                   PROVE  ClaimSound(worker[w], unacked[w], handled[ConsumerOf[w]],
                                     Out(ConsumerOf[w])')
        BY <1>6 DEF Publish, PublishLost, HandlersSound
      <3>1. ConsumerOf[w] \in Consumers
        BY DeliveryAssumption
      <3> QED
        BY <3>1, <2>4, ClaimStable DEF HandlersSound, ClaimSound
    <2> QED
      BY <2>3, <2>5, <2>6
  <1> QED
    BY <1>1, <1>2, <1>3, <1>4, <1>5, <1>6, <1>7 DEF PublisherStep

-----------------------------------------------------------------------------
(* Steps of one handler that leave RabbitMQ and the observers alone.        *)

(* The handler changes, and nothing its claim or the accounts rest on.      *)
HandlerMoves(w, h) ==
    /\ worker' = [worker EXCEPT ![w] = h]
    /\ UNCHANGED <<brokerVars, handled>>

LEMMA HandlerMovesKeeps ==
    ASSUME Sound, NEW w \in Workers, NEW h \in Handler, HandlerMoves(w, h),
           ClaimSound(h, unacked[w], handled[ConsumerOf[w]], Out(ConsumerOf[w]))
    PROVE  HandlersSound' /\ Keeps /\ worker' \in [Workers -> Handler]
  <1>1. worker' \in [Workers -> Handler]
    BY DEF Sound, TypeOK, HandlerMoves
  <1>2. Keeps
    BY DEF HandlerMoves, Keeps, Reached, InBroker, Settled, brokerVars
  <1>3. worker'[w] = h /\ \A v \in Workers \ {w} : worker'[v] = worker[v]
    BY DEF HandlerMoves, Sound, TypeOK
  <1>4. HandlersSound'
    BY <1>3 DEF HandlerMoves, brokerVars, HandlersSound, Sound, Out
  <1> QED
    BY <1>1, <1>2, <1>4

(* The updates of a handler.                                                *)
LEMMA HandlerUpdates ==
    ASSUME NEW h \in Handler
    PROVE  /\ \A phase \in Phases :
                LET n == [h EXCEPT !.phase = phase] IN
                n \in Handler /\ n.phase = phase /\ n.msg = h.msg /\ n.live = h.live
           /\ \A phase \in Phases, read \in Nat :
                LET n == [h EXCEPT !.phase = phase, !.read = read] IN
                /\ n \in Handler /\ n.phase = phase /\ n.read = read
                /\ n.msg = h.msg /\ n.live = h.live
           /\ LET n == [Offline EXCEPT !.connected = h.connected] IN
                n \in Handler /\ n.phase = "idle" /\ n.msg = None /\ n.live = FALSE
  BY DEF Handler, Offline, Phases

(* Moving on from phase to phase keeps the claim if the next phase says     *)
(* nothing new.                                                             *)
LEMMA ToMoves ==
    ASSUME Sound, NEW w \in Workers, NEW phase \in Phases \ {"idle"},
           worker[w].phase # "idle", To(w, phase), UNCHANGED <<brokerVars, handled>>,
           phase = "marking" => handled[ConsumerOf[w]][worker[w].msg] > 0,
           phase \in {"acking", "releasing"} => \/ handled[ConsumerOf[w]][worker[w].msg] > 0
                                                \/ worker[w].msg \in Out(ConsumerOf[w])
    PROVE  HandlersSound' /\ Keeps /\ worker' \in [Workers -> Handler]
  <1> DEFINE h == [worker[w] EXCEPT !.phase = phase]
  <1>1. worker[w] \in Handler
    BY DEF Sound, TypeOK
  <1>2. h \in Handler /\ h.phase = phase /\ h.msg = worker[w].msg /\ h.live = worker[w].live
    BY <1>1, HandlerUpdates
  <1>3. HandlerMoves(w, h)
    BY DEF To, HandlerMoves
  <1>4. ClaimSound(worker[w], unacked[w], handled[ConsumerOf[w]], Out(ConsumerOf[w]))
    BY DEF Sound, HandlersSound
  <1> HIDE DEF h
  <1>5. ClaimSound(h, unacked[w], handled[ConsumerOf[w]], Out(ConsumerOf[w]))
    BY <1>2, <1>4 DEF ClaimSound
  <1> QED
    BY <1>2, <1>3, <1>5, HandlerMovesKeeps

(* Nor does counting an attempt.                                            *)
LEMMA CountMoves ==
    ASSUME Sound, NEW w \in Workers, NEW phase \in {"recording", "retrying", "burying"},
           NEW read \in Nat, worker[w].phase # "idle", Count(w, phase, read),
           UNCHANGED <<brokerVars, handled>>
    PROVE  HandlersSound' /\ Keeps /\ worker' \in [Workers -> Handler]
  <1> DEFINE h == [worker[w] EXCEPT !.phase = phase, !.read = read]
  <1>1. worker[w] \in Handler /\ phase \in Phases
    BY DEF Sound, TypeOK, Phases
  <1>2. h \in Handler /\ h.phase = phase /\ h.msg = worker[w].msg /\ h.live = worker[w].live
    BY <1>1 DEF Handler
  <1>3. HandlerMoves(w, h)
    BY DEF Count, HandlerMoves
  <1>4. ClaimSound(worker[w], unacked[w], handled[ConsumerOf[w]], Out(ConsumerOf[w]))
    BY DEF Sound, HandlersSound
  <1> HIDE DEF h
  <1>5. ClaimSound(h, unacked[w], handled[ConsumerOf[w]], Out(ConsumerOf[w]))
    BY <1>2, <1>4 DEF ClaimSound
  <1> QED
    BY <1>2, <1>3, <1>5, HandlerMovesKeeps

LEMMA DoneMoves ==
    ASSUME Sound, NEW w \in Workers, Done(w), UNCHANGED <<brokerVars, handled>>
    PROVE  HandlersSound' /\ Keeps /\ worker' \in [Workers -> Handler]
  <1> DEFINE h == [Offline EXCEPT !.connected = worker[w].connected]
  <1>1. worker[w] \in Handler
    BY DEF Sound, TypeOK
  <1>2. h \in Handler /\ h.phase = "idle" /\ h.live = FALSE
    BY <1>1, HandlerUpdates
  <1>3. HandlerMoves(w, h)
    BY DEF Done, HandlerMoves
  <1> HIDE DEF h
  <1>4. ClaimSound(h, unacked[w], handled[ConsumerOf[w]], Out(ConsumerOf[w]))
    BY <1>2 DEF ClaimSound
  <1> QED
    BY <1>2, <1>3, <1>4, HandlerMovesKeeps

-----------------------------------------------------------------------------
(* Steps of one handler that move copies or observers.                      *)

LEMMA OthersSound ==
    ASSUME Sound, NEW w \in Workers,
           \A v \in Workers \ {w} : worker'[v] = worker[v] /\ unacked'[v] = unacked[v],
           \A c \in Consumers, m \in Messages : handled[c][m] > 0 => handled'[c][m] > 0,
           \A c \in Consumers : Out(c) \subseteq Out(c)',
           ClaimSound(worker'[w], unacked'[w], handled'[ConsumerOf[w]], Out(ConsumerOf[w])')
    PROVE  HandlersSound'
  <1> SUFFICES ASSUME NEW v \in Workers \ {w}
               PROVE  ClaimSound(worker[v], unacked[v], handled'[ConsumerOf[v]],
                                 Out(ConsumerOf[v])')
    BY DEF HandlersSound
  <1>1. ConsumerOf[v] \in Consumers
    BY DeliveryAssumption
  <1>2. ClaimSound(worker[v], unacked[v], handled[ConsumerOf[v]], Out(ConsumerOf[v]))
    BY DEF Sound, HandlersSound
  <1> QED
    BY <1>1, <1>2, ClaimStable DEF ClaimSound

(* The state of a handler's delivery.                                       *)
LEMMA Busy ==
    ASSUME Sound, NEW w \in Workers
    PROVE  /\ worker[w] \in Handler /\ ConsumerOf[w] \in Consumers
           /\ ClaimSound(worker[w], unacked[w], handled[ConsumerOf[w]], Out(ConsumerOf[w]))
           /\ worker[w].phase # "idle" => worker[w].msg \in Messages
           /\ unacked[w] \in [Messages -> Nat] /\ ready[ConsumerOf[w]] \in [Messages -> Nat]
  BY DeliveryAssumption DEF Sound, TypeOK, HandlersSound, ClaimSound

LEMMA DeliverKeeps ==
    ASSUME Sound, NEW w \in Workers, NEW m \in Messages, Deliver(w, m)
    PROVE  TypeOK' /\ HandlersSound' /\ Keeps
  <1> DEFINE c == ConsumerOf[w]
             h == [worker[w] EXCEPT !.phase = "checking", !.msg = m, !.live = TRUE]
  <1>1. /\ worker[w] \in Handler /\ c \in Consumers
        /\ unacked[w] \in [Messages -> Nat] /\ ready[c] \in [Messages -> Nat] /\ ready[c][m] > 0
    BY Busy DEF Deliver
  <1>2. h \in Handler /\ h.phase = "checking" /\ h.msg = m /\ h.live = TRUE
    BY <1>1 DEF Handler, Phases
  <1>3. worker' = [worker EXCEPT ![w] = h]
    BY DEF Deliver
  <1>4. /\ worker' \in [Workers -> Handler] /\ worker'[w] = h
        /\ \A v \in Workers \ {w} : worker'[v] = worker[v]
    BY <1>2, <1>3 DEF Sound, TypeOK
  <1> HIDE DEF h
  <1>5. /\ ready'[c] = Remove(ready[c], m) /\ unacked'[w] = Add(unacked[w], m)
        /\ \A d \in Consumers \ {c} : ready'[d] = ready[d]
        /\ \A v \in Workers \ {w} : unacked'[v] = unacked[v]
        /\ ready' = [ready EXCEPT ![c] = Remove(ready[c], m)]
        /\ unacked' = [unacked EXCEPT ![w] = Add(unacked[w], m)]
    BY <1>1 DEF Deliver, Sound, TypeOK
  <1>6. /\ Remove(ready[c], m) \in [Messages -> Nat]
        /\ \A x \in Messages : x # m => Remove(ready[c], m)[x] = ready[c][x]
        /\ Add(unacked[w], m) \in [Messages -> Nat] /\ Add(unacked[w], m)[m] > 0
        /\ \A x \in Messages : unacked[w][x] > 0 => Add(unacked[w], m)[x] > 0
    BY <1>1, AddCounts, RemoveCounts
  <1>11. ready' \in [Consumers -> [Messages -> Nat]] /\ unacked' \in [Workers -> [Messages -> Nat]]
    BY <1>5, <1>6 DEF Sound, TypeOK
  <1>7. TypeOK'
    BY <1>4, <1>11 DEF Deliver, Sound, TypeOK, databaseVars, NoFault
  <1>8. Keeps
    BY <1>1, <1>5, <1>6 DEF Deliver, Keeps, Reached, InBroker, Settled
  <1>9. ClaimSound(worker'[w], unacked'[w], handled'[ConsumerOf[w]], Out(ConsumerOf[w])')
    BY <1>2, <1>4, <1>5, <1>6 DEF ClaimSound
  <1>10. HandlersSound'
    BY <1>4, <1>5, <1>9, OthersSound DEF Deliver, Out
  <1> QED
    BY <1>7, <1>8, <1>10

(* Ack and Nack give one claimed copy away; what keeps the message          *)
(* accounted for is that it is settled or back in the queue.                *)
LEMMA ReleaseKeeps ==
    ASSUME Sound, NEW w \in Workers, Ack(w) \/ Nack(w)
    PROVE  TypeOK' /\ HandlersSound' /\ Keeps
  <1> DEFINE c == ConsumerOf[w]
             m == worker[w].msg
             h == [Offline EXCEPT !.connected = worker[w].connected]
  <1>1. /\ worker[w] \in Handler /\ c \in Consumers /\ m \in Messages
        /\ unacked[w] \in [Messages -> Nat] /\ ready[c] \in [Messages -> Nat]
        /\ unacked[w][m] > 0
        /\ Ack(w) => handled[c][m] > 0 \/ m \in Out(c)
    BY Busy DEF Ack, Nack, Acknowledging, ClaimSound
  <1>2. h \in Handler /\ h.phase = "idle" /\ h.live = FALSE
    BY <1>1, HandlerUpdates
  <1>3. worker' = [worker EXCEPT ![w] = h]
    BY DEF Ack, Nack, Done
  <1>4. /\ worker' \in [Workers -> Handler] /\ worker'[w] = h
        /\ \A v \in Workers \ {w} : worker'[v] = worker[v]
    BY <1>2, <1>3 DEF Sound, TypeOK
  <1>5. ClaimSound(worker'[w], unacked'[w], handled'[ConsumerOf[w]], Out(ConsumerOf[w])')
    BY <1>2, <1>4 DEF ClaimSound
  <1> HIDE DEF h, m
  <1>6. /\ unacked'[w] = Remove(unacked[w], m)
        /\ \A v \in Workers \ {w} : unacked'[v] = unacked[v]
        /\ unacked' = [unacked EXCEPT ![w] = Remove(unacked[w], m)]
    BY <1>1 DEF Ack, Nack, Sound, TypeOK, m
  <1>7. /\ Remove(unacked[w], m) \in [Messages -> Nat]
        /\ \A x \in Messages : x # m => Remove(unacked[w], m)[x] = unacked[w][x]
    BY <1>1, RemoveCounts
  <1>11. unacked' \in [Workers -> [Messages -> Nat]]
    BY <1>6, <1>7 DEF Sound, TypeOK
  <1>8. HandlersSound'
    BY <1>4, <1>5, <1>6, OthersSound DEF Ack, Nack, Out
  <1>9. CASE Ack(w)
    <2>1. TypeOK'
      BY <1>4, <1>11, <1>9 DEF Ack, Sound, TypeOK, databaseVars, NoFault
    <2>2. Keeps
      <3> SUFFICES ASSUME NEW d \in Consumers, NEW x \in Messages, Reached(d, x)
                   PROVE  Reached(d, x)'
        BY <1>9 DEF Keeps, Ack
      <3>1. CASE d = c /\ x = m
        BY <1>1, <1>9, <3>1 DEF Ack, Reached, Settled, Out
      <3>2. CASE ~(d = c /\ x = m)
        <4>1. \A v \in Workers : ConsumerOf[v] = d => unacked'[v][x] = unacked[v][x]
          BY <1>6, <1>7, <3>2
        <4> QED
          BY <1>9, <4>1 DEF Ack, Reached, InBroker, Settled
      <3> QED
        BY <3>1, <3>2
    <2> QED
      BY <1>8, <2>1, <2>2
  <1>10. CASE Nack(w)
    <2>1. /\ ready'[c] = Add(ready[c], m) /\ \A d \in Consumers \ {c} : ready'[d] = ready[d]
          /\ ready' = [ready EXCEPT ![c] = Add(ready[c], m)]
      BY <1>1, <1>10 DEF Nack, Sound, TypeOK, m
    <2>2. /\ Add(ready[c], m) \in [Messages -> Nat] /\ Add(ready[c], m)[m] > 0
          /\ \A x \in Messages : ready[c][x] > 0 => Add(ready[c], m)[x] > 0
      BY <1>1, AddCounts
    <2>5. ready' \in [Consumers -> [Messages -> Nat]]
      BY <2>1, <2>2 DEF Sound, TypeOK
    <2>3. TypeOK'
      BY <1>4, <1>11, <1>10, <2>5 DEF Nack, Sound, TypeOK, databaseVars, NoFault
    <2>4. Keeps
      BY <1>1, <1>6, <1>7, <1>10, <2>1, <2>2 DEF Nack, Keeps, Reached, InBroker, Settled
    <2> QED
      BY <1>8, <2>3, <2>4
  <1> QED
    BY <1>9, <1>10

(* The steps of a handler that move neither copies nor observers.           *)
LEMMA QuietHandlerKeeps ==
    ASSUME Sound, InboxTruthful, NEW w \in Workers,
           \/ CheckInbox(w) \/ MarkProcessed(w) \/ MarkProcessedSwallows(w) \/ StaleAck(w)
           \/ Throw(w) \/ ReadAttempts(w) \/ RecordFailedAttempt(w)
           \/ StaleNack(w) \/ GiveUp(w) \/ BuryFails(w)
    PROVE  TypeOK' /\ HandlersSound' /\ Keeps
  <1> DEFINE c == ConsumerOf[w]
             m == worker[w].msg
  <1>1. /\ worker[w] \in Handler /\ c \in Consumers
        /\ ClaimSound(worker[w], unacked[w], handled[c], Out(c))
        /\ worker[w].phase # "idle" => m \in Messages
    BY Busy
  <1>2. SUFFICES /\ HandlersSound' /\ Keeps /\ worker' \in [Workers -> Handler]
                 /\ inbox' \in [Consumers -> SUBSET Messages]
                 /\ attempts' \in [Consumers -> [Messages -> Nat]]
                 /\ Fault \/ NoFault
    BY FaultType DEF Sound, TypeOK, CheckInbox, MarkProcessed, MarkProcessedSwallows, StaleAck,
       Throw, ReadAttempts, RecordFailedAttempt, StaleNack, GiveUp, BuryFails, brokerVars,
       databaseVars
  <1>3. CASE CheckInbox(w)
    <2>1. /\ worker[w].phase # "idle"
          /\ m \in inbox[c] => handled[c][m] > 0
      BY <1>1, <1>3 DEF CheckInbox, InboxTruthful
    <2>2. CASE m \in inbox[c]
      <3>1. To(w, "acking")
        BY <1>3, <2>2 DEF CheckInbox
      <3> QED
        BY <1>3, <2>1, <2>2, <3>1, ToMoves DEF CheckInbox, Sound, TypeOK, databaseVars, Phases
    <2>3. CASE m \notin inbox[c]
      <3>1. To(w, "handling")
        BY <1>3, <2>3 DEF CheckInbox
      <3> QED
        BY <1>3, <2>1, <3>1, ToMoves DEF CheckInbox, Sound, TypeOK, databaseVars, Phases
    <2> QED
      BY <2>2, <2>3
  <1>4. CASE MarkProcessed(w)
    <2>1. handled[c][m] > 0 /\ m \in Messages
      BY <1>1, <1>4 DEF MarkProcessed, ClaimSound
    <2>2. inbox' \in [Consumers -> SUBSET Messages]
      BY <1>4, <2>1 DEF MarkProcessed, Sound, TypeOK
    <2> QED
      BY <1>4, <2>1, <2>2, ToMoves DEF MarkProcessed, Sound, TypeOK, Phases
  <1>5. CASE MarkProcessedSwallows(w)
    <2>1. handled[c][m] > 0
      BY <1>1, <1>5 DEF MarkProcessedSwallows, ClaimSound
    <2> QED
      BY <1>5, <2>1, ToMoves DEF MarkProcessedSwallows, Sound, TypeOK, Phases, databaseVars
  <1>6. CASE StaleAck(w)
    <2>1. CASE worker[w].connected \/ worker[w].phase = "releasing"
      BY <1>6, <2>1, DoneMoves DEF StaleAck, Sound, TypeOK, databaseVars
    <2>2. CASE ~(worker[w].connected \/ worker[w].phase = "releasing")
      BY <1>6, <2>2, ToMoves DEF StaleAck, Acknowledging, Sound, TypeOK, Phases, databaseVars
    <2> QED
      BY <2>1, <2>2
  <1>7. CASE Throw(w)
    BY <1>7, ToMoves DEF Throw, Sound, TypeOK, Phases, databaseVars
  <1>8. CASE ReadAttempts(w)
    <2>1. m \in Messages /\ attempts[c][m] \in Nat
      BY <1>1, <1>8 DEF ReadAttempts, Sound, TypeOK
    <2> QED
      BY <1>8, <2>1, CountMoves DEF ReadAttempts, Sound, TypeOK, databaseVars
  <1>12. CASE RecordFailedAttempt(w)
    <2>1. CASE InsertRefused(w)
      BY <1>12, <2>1, DoneMoves DEF RecordFailedAttempt, Sound, TypeOK
    <2>2. CASE ~InsertRefused(w)
      <3>1. m \in Messages /\ worker[w].read + 1 \in Nat
        BY <1>1, <1>12 DEF RecordFailedAttempt, Handler
      <3>2. attempts' \in [Consumers -> [Messages -> Nat]]
        <4>1. [attempts[c] EXCEPT ![m] = worker[w].read + 1] \in [Messages -> Nat]
          BY <1>1, <3>1 DEF Sound, TypeOK
        <4>2. attempts' = [attempts EXCEPT ![c] = [attempts[c] EXCEPT ![m] = worker[w].read + 1]]
          BY <1>12, <2>2 DEF RecordFailedAttempt
        <4> QED
          BY <1>1, <4>1, <4>2 DEF Sound, TypeOK
      <3>3. PICK phase \in {"retrying", "burying"} : Count(w, phase, 0)
        BY <1>12, <2>2 DEF RecordFailedAttempt
      <3> QED
        BY <1>12, <3>2, <3>3, CountMoves DEF RecordFailedAttempt, Sound, TypeOK
    <2> QED
      BY <2>1, <2>2
  <1>9. CASE StaleNack(w)
    BY <1>9, DoneMoves DEF StaleNack, Sound, TypeOK, databaseVars
  <1>10. CASE GiveUp(w)
    BY <1>10, DoneMoves DEF GiveUp, Sound, TypeOK, databaseVars
  <1>11. CASE BuryFails(w)
    BY <1>11, DoneMoves DEF BuryFails, Sound, TypeOK, databaseVars
  <1> QED
    BY <1>3, <1>4, <1>5, <1>6, <1>7, <1>8, <1>9, <1>10, <1>11, <1>12

(* Handling a message, or giving it up, lets its handler move on.           *)
LEMMA SettleKeeps ==
    ASSUME Sound, NEW w \in Workers, Handle(w) \/ Bury(w)
    PROVE  TypeOK' /\ HandlersSound' /\ Keeps
  <1> DEFINE c == ConsumerOf[w]
             m == worker[w].msg
  <1>1. /\ worker[w] \in Handler /\ c \in Consumers /\ m \in Messages
        /\ handled[c] \in [Messages -> Nat]
        /\ ClaimSound(worker[w], unacked[w], handled[c], Out(c))
    BY Busy DEF Handle, Bury, Sound, TypeOK
  <1>2. PICK phase \in {"marking", "releasing"} :
          /\ To(w, phase)
          /\ phase = "marking" <=> Handle(w)
    BY DEF Handle, Bury
  <1> DEFINE h == [worker[w] EXCEPT !.phase = phase]
  <1>3. h \in Handler /\ h.phase = phase /\ h.msg = m /\ h.live = worker[w].live
    <2>1. phase \in Phases
      BY <1>2 DEF Phases
    <2> QED
      BY <1>1, <2>1, HandlerUpdates
  <1>4. /\ worker' \in [Workers -> Handler] /\ worker'[w] = h
        /\ \A v \in Workers \ {w} : worker'[v] = worker[v]
    BY <1>2, <1>3 DEF To, Sound, TypeOK
  <1> HIDE DEF h, m
  <1>5. CASE Handle(w)
    <2>1. /\ Add(handled[c], m) \in [Messages -> Nat] /\ Add(handled[c], m)[m] > 0
          /\ \A x \in Messages : handled[c][x] > 0 => Add(handled[c], m)[x] > 0
      BY <1>1, AddCounts
    <2>2. /\ handled' = [handled EXCEPT ![c] = Add(handled[c], m)]
          /\ handled' \in [Consumers -> [Messages -> Nat]]
          /\ handled'[c][m] > 0
          /\ \A d \in Consumers, x \in Messages : handled[d][x] > 0 => handled'[d][x] > 0
      BY <1>1, <1>5, <2>1 DEF Handle, Sound, TypeOK, m
    <2>3. TypeOK'
      BY <1>4, <1>5, <2>2 DEF Handle, Sound, TypeOK, databaseVars, brokerVars, NoFault
    <2>4. Keeps
      BY <1>5, <2>2 DEF Handle, brokerVars, Keeps, Reached, InBroker, Settled
    <2>5. ClaimSound(worker'[w], unacked'[w], handled'[c], Out(c)')
      BY <1>1, <1>2, <1>3, <1>4, <1>5, <2>2 DEF Handle, brokerVars, ClaimSound, m
    <2>6. HandlersSound'
      BY <1>4, <1>5, <2>2, <2>5, OthersSound DEF Handle, brokerVars, Out
    <2> QED
      BY <2>3, <2>4, <2>6
  <1>6. CASE Bury(w)
    <2>1. /\ dead' \in [Consumers -> SUBSET Messages] /\ m \in dead'[c]
          /\ \A d \in Consumers : dead[d] \subseteq dead'[d]
      BY <1>1, <1>6 DEF Bury, Sound, TypeOK, m
    <2>2. TypeOK'
      BY <1>4, <1>6, <2>1 DEF Bury, Sound, TypeOK, databaseVars, NoFault
    <2>3. Keeps
      BY <1>6, <2>1 DEF Bury, Keeps, Reached, InBroker, Settled
    <2>4. phase = "releasing"
      BY <1>2, <1>6 DEF Handle, Bury
    <2>5. ClaimSound(worker'[w], unacked'[w], handled'[c], Out(c)')
      BY <1>1, <1>3, <1>4, <1>6, <2>1, <2>4 DEF Bury, ClaimSound, Out, m
    <2>6. HandlersSound'
      BY <1>4, <1>6, <2>1, <2>5, OthersSound DEF Bury, Out
    <2> QED
      BY <2>2, <2>3, <2>6
  <1> QED
    BY <1>5, <1>6

-----------------------------------------------------------------------------
(* Connections, the broker, the outbox.                                     *)

LEMMA ConnectionUpdates ==
    ASSUME NEW h \in Handler
    PROVE  /\ LET n == [h EXCEPT !.connected = TRUE] IN
                n \in Handler /\ n.phase = h.phase /\ n.msg = h.msg /\ n.live = h.live
           /\ LET n == [h EXCEPT !.connected = FALSE, !.live = FALSE] IN
                n \in Handler /\ n.phase = h.phase /\ n.msg = h.msg /\ n.live = FALSE
           /\ Offline \in Handler /\ Offline.phase = "idle" /\ Offline.live = FALSE
  BY DEF Handler, Offline, Phases

LEMMA ConnectKeeps ==
    ASSUME Sound, NEW w \in Workers, Connect(w)
    PROVE  TypeOK' /\ HandlersSound' /\ Keeps
  <1> DEFINE h == [worker[w] EXCEPT !.connected = TRUE]
  <1>1. /\ worker[w] \in Handler /\ ConsumerOf[w] \in Consumers
        /\ ClaimSound(worker[w], unacked[w], handled[ConsumerOf[w]], Out(ConsumerOf[w]))
    BY Busy
  <1>2. h \in Handler /\ h.phase = worker[w].phase /\ h.msg = worker[w].msg
          /\ h.live = worker[w].live
    BY <1>1, ConnectionUpdates
  <1>3. worker' = [worker EXCEPT ![w] = h]
    BY DEF Connect
  <1>4. /\ worker' \in [Workers -> Handler] /\ worker'[w] = h
        /\ \A v \in Workers \ {w} : worker'[v] = worker[v]
    BY <1>2, <1>3 DEF Sound, TypeOK
  <1> HIDE DEF h
  <1>5. ClaimSound(worker'[w], unacked'[w], handled'[ConsumerOf[w]], Out(ConsumerOf[w])')
    BY <1>1, <1>2, <1>4 DEF Connect, ClaimSound, Out
  <1>6. HandlersSound'
    BY <1>4, <1>5, OthersSound DEF Connect, Out
  <1>7. TypeOK'
    BY <1>1, <1>4 DEF Connect, Sound, TypeOK, databaseVars, NoFault
  <1>8. Keeps
    BY DEF Connect, Keeps, Reached, InBroker, Settled
  <1> QED
    BY <1>6, <1>7, <1>8

(* Requeueing moves the copies of one worker back to its consumer's queue.  *)
LEMMA RequeueKeeps ==
    ASSUME Sound, NEW w \in Workers, Disconnect(w) \/ WorkerStops(w)
    PROVE  TypeOK' /\ HandlersSound' /\ Keeps
  <1> DEFINE c == ConsumerOf[w]
  <1>1. /\ worker[w] \in Handler /\ c \in Consumers
        /\ unacked[w] \in [Messages -> Nat] /\ ready[c] \in [Messages -> Nat]
        /\ ClaimSound(worker[w], unacked[w], handled[c], Out(c))
    BY Busy
  <1>2. PICK h \in Handler :
          /\ worker' = [worker EXCEPT ![w] = h] /\ h.live = FALSE
          /\ \/ h.phase = worker[w].phase /\ h.msg = worker[w].msg
             \/ h.phase = "idle"
    <2>1. CASE Disconnect(w)
      <3> DEFINE n == [worker[w] EXCEPT !.connected = FALSE, !.live = FALSE]
      <3>1. /\ n \in Handler /\ n.live = FALSE
            /\ n.phase = worker[w].phase /\ n.msg = worker[w].msg
        BY <1>1, ConnectionUpdates
      <3>2. worker' = [worker EXCEPT ![w] = n]
        BY <2>1 DEF Disconnect
      <3> HIDE DEF n
      <3> QED
        BY <3>1, <3>2
    <2>2. CASE WorkerStops(w)
      BY <1>1, <2>2, ConnectionUpdates DEF WorkerStops
    <2> QED
      BY <2>1, <2>2
  <1>3. /\ worker' \in [Workers -> Handler] /\ worker'[w] = h
        /\ \A v \in Workers \ {w} : worker'[v] = worker[v]
    BY <1>2 DEF Sound, TypeOK
  <1>4. /\ ready' = [ready EXCEPT ![c] = Sum(ready[c], unacked[w])]
        /\ unacked' = [unacked EXCEPT ![w] = Nothing]
    BY DEF Disconnect, WorkerStops, Requeue
  <1>5. /\ Sum(ready[c], unacked[w]) \in [Messages -> Nat] /\ Nothing \in [Messages -> Nat]
        /\ \A x \in Messages : Sum(ready[c], unacked[w])[x] > 0 <=> ready[c][x] > 0 \/ unacked[w][x] > 0
    BY <1>1, SumCounts, NothingCounts
  <1>6. /\ ready' \in [Consumers -> [Messages -> Nat]] /\ unacked' \in [Workers -> [Messages -> Nat]]
        /\ \A v \in Workers \ {w} : unacked'[v] = unacked[v]
        /\ ready'[c] = Sum(ready[c], unacked[w])
        /\ \A d \in Consumers \ {c} : ready'[d] = ready[d]
    BY <1>1, <1>4, <1>5 DEF Sound, TypeOK
  <1>7. /\ UNCHANGED <<outbox, published, publisher, brokerUp, bound, dead, dropped,
                       databaseVars, handled>>
        /\ Fault
    BY DEF Disconnect, WorkerStops
  <1>8. TypeOK'
    BY <1>3, <1>6, <1>7, FaultType DEF Sound, TypeOK, databaseVars
  <1>9. Keeps
    <2> SUFFICES ASSUME NEW d \in Consumers, NEW x \in Messages, InBroker(d, x)
                 PROVE  InBroker(d, x)'
      BY <1>7 DEF Keeps, Reached, Settled
    <2>1. CASE ready[d][x] > 0
      BY <1>5, <1>6, <2>1 DEF InBroker
    <2>2. CASE \E v \in Workers : ConsumerOf[v] = d /\ unacked[v][x] > 0
      BY <1>5, <1>6, <2>2 DEF InBroker
    <2> QED
      BY <2>1, <2>2 DEF InBroker
  <1>10. ClaimSound(worker'[w], unacked'[w], handled'[c], Out(c)')
    BY <1>1, <1>2, <1>3, <1>7 DEF ClaimSound, Out
  <1>11. HandlersSound'
    BY <1>3, <1>6, <1>7, <1>10, OthersSound DEF Out
  <1> QED
    BY <1>8, <1>9, <1>11

LEMMA BrokerKeeps ==
    ASSUME Sound, BrokerStops \/ BrokerStarts
    PROVE  TypeOK' /\ HandlersSound' /\ Keeps
  <1>1. CASE BrokerStarts
    BY <1>1 DEF BrokerStarts, Sound, TypeOK, databaseVars, NoFault, HandlersSound, Keeps,
       Reached, InBroker, Settled, Out
  <1>2. CASE BrokerStops
    <2>1. \A w \in Workers :
            /\ worker'[w] \in Handler /\ worker'[w].live = FALSE
            /\ worker'[w].phase = worker[w].phase /\ worker'[w].msg = worker[w].msg
      BY <1>2, Busy, ConnectionUpdates DEF BrokerStops
    <2>2. worker' \in [Workers -> Handler]
      BY <1>2, <2>1 DEF BrokerStops
    <2>3. /\ dropped' \in [Consumers -> SUBSET Messages]
          /\ \A c \in Consumers : dropped'[c] = dropped[c] \union dead[c] \union
                                                {m \in Messages : InBroker(c, m)}
          /\ \A c \in Consumers : dead'[c] = {}
      BY <1>2 DEF BrokerStops, InBroker, Sound, TypeOK
    <2>4. TypeOK'
      BY <1>2, <2>2, <2>3, FaultType, NothingCounts DEF BrokerStops, Sound, TypeOK, databaseVars
    <2>5. Keeps
      BY <1>2, <2>3 DEF BrokerStops, Keeps, Reached, Settled
    <2>6. \A c \in Consumers : Out(c) \subseteq Out(c)'
      BY <2>3 DEF Out
    <2>7. HandlersSound'
      <3> SUFFICES ASSUME NEW w \in Workers
                   PROVE  ClaimSound(worker'[w], unacked'[w], handled'[ConsumerOf[w]],
                                     Out(ConsumerOf[w])')
        BY DEF HandlersSound
      <3> QED
        BY <1>2, <2>1, <2>6, Busy DEF BrokerStops, ClaimSound
    <2> QED
      BY <2>4, <2>5, <2>7
  <1> QED
    BY <1>1, <1>2

LEMMA EnqueueKeeps ==
    ASSUME Sound, NEW m \in Messages, Enqueue(m)
    PROVE  TypeOK' /\ HandlersSound' /\ Keeps
  BY QuietSteps DEF Enqueue, Sound, TypeOK, brokerVars, databaseVars, NoFault

-----------------------------------------------------------------------------
(* The theorems.                                                            *)

IInv == Sound /\ InboxTruthful /\ SentReached /\ Accounted

LEMMA StepKeeps ==
    ASSUME IInv, Next
    PROVE  Sound' /\ Keeps
  <1> Sound /\ InboxTruthful
    BY DEF IInv
  <1> SUFFICES TypeOK' /\ HandlersSound' /\ Keeps
    BY DEF Sound
  <1>1. ASSUME NEW m \in Messages, Enqueue(m)
        PROVE  TypeOK' /\ HandlersSound' /\ Keeps
    BY <1>1, EnqueueKeeps
  <1>2. ASSUME NEW p \in Publishers,
               \/ PublisherStep(p) \/ MarkDocumentPublished(p)
               \/ MarkPublishedFails(p) \/ PublisherStops(p)
               \/ \E m \in Messages : PublishLost(p, m)
        PROVE  TypeOK' /\ HandlersSound' /\ Keeps
    BY <1>2, PublisherKeeps
  <1>3. CASE BrokerStops \/ BrokerStarts
    BY <1>3, BrokerKeeps
  <1>4. ASSUME NEW w \in Workers, Connect(w)
        PROVE  TypeOK' /\ HandlersSound' /\ Keeps
    BY <1>4, ConnectKeeps
  <1>5. ASSUME NEW w \in Workers, HandlerStep(w)
        PROVE  TypeOK' /\ HandlersSound' /\ Keeps
    BY <1>5, DeliverKeeps, ReleaseKeeps, QuietHandlerKeeps, SettleKeeps DEF HandlerStep
  <1>6. ASSUME NEW w \in Workers,
               \/ Disconnect(w) \/ WorkerStops(w) \/ MarkProcessedSwallows(w)
               \/ Throw(w) \/ GiveUp(w)
        PROVE  TypeOK' /\ HandlersSound' /\ Keeps
    BY <1>6, RequeueKeeps, QuietHandlerKeeps
  <1> QED
    BY <1>1, <1>2, <1>3, <1>4, <1>5, <1>6 DEF Next, Failure

(* Only MarkProcessed adds to the inbox, and its handler has just handled   *)
(* the message.                                                             *)
LEMMA InboxStep ==
    ASSUME IInv, Next
    PROVE  InboxTruthful'
  <1>1. Keeps /\ Sound
    BY StepKeeps DEF IInv
  <1>2. CASE UNCHANGED inbox
    BY <1>1, <1>2 DEF IInv, InboxTruthful, Keeps, Sound, TypeOK
  <1>3. ASSUME NEW w \in Workers, MarkProcessed(w)
        PROVE  InboxTruthful'
    <2>1. /\ ConsumerOf[w] \in Consumers
          /\ handled[ConsumerOf[w]][worker[w].msg] > 0
      BY <1>1, <1>3, Busy DEF MarkProcessed, ClaimSound
    <2> QED
      BY <1>3, <2>1 DEF MarkProcessed, IInv, InboxTruthful, Sound, TypeOK
  <1>4. (\E w \in Workers : MarkProcessed(w)) \/ UNCHANGED inbox
    BY DEF Next, Failure, PublisherStep, HandlerStep, Enqueue, Tick, MarkPublished,
       MarkDocumentPublished,
       Publish, PublishLost, PublishFails, BrokerStarts, Connect, CheckInbox, Handle, Ack, StaleAck,
       ReadAttempts, RecordFailedAttempt, Nack, StaleNack, Bury, BuryFails, Deliver, BrokerStops,
       MarkPublishedFails, PublisherStops, Disconnect, WorkerStops, MarkProcessedSwallows,
       Throw, GiveUp, databaseVars
  <1> QED
    BY <1>2, <1>3, <1>4

LEMMA SentIsMessages ==
    ASSUME TypeOK, NEW p \in Publishers
    PROVE  SentIn(publisher[p]) \subseteq Messages
  BY TickUpdates DEF TypeOK

(* A row is marked published only after it was sent, and sending it makes   *)
(* it reach every consumer, or loses it on the way.                         *)
LEMMA AccountsStep ==
    ASSUME IInv, Next
    PROVE  SentReached' /\ Accounted'
  <1>1. Keeps /\ Sound /\ TypeOK'
    BY StepKeeps DEF IInv, Sound
  <1>2. CASE UNCHANGED <<published, publisher>>
    BY <1>1, <1>2, SentIsMessages DEF IInv, SentReached, Accounted, Keeps, Sound, TypeOK
  <1>3. ASSUME NEW p \in Publishers, NEW m \in Messages, Publish(p, m) \/ PublishLost(p, m)
        PROVE  SentReached' /\ Accounted'
    <2>1. \A c \in Consumers : Reached(c, m)'
      <3>1. CASE Publish(p, m)
        BY <1>1, <3>1, AddCounts DEF Publish, Reached, InBroker, Sound, TypeOK
      <3>2. CASE PublishLost(p, m)
        BY <1>1, <3>2 DEF PublishLost, Reached, Sound, TypeOK
      <3> QED
        BY <1>3, <3>1, <3>2
    <2>2. /\ published' = published
          /\ \A q \in Publishers : SentIn(publisher'[q]) \subseteq SentIn(publisher[q]) \union {m}
      <3>1. CASE Publish(p, m)
        BY <1>1, <3>1 DEF Publish, Sound, TypeOK, SentIn, TickState
      <3>2. CASE PublishLost(p, m)
        BY <1>1, <3>2 DEF PublishLost, Sound, TypeOK, SentIn, TickState
      <3> QED
        BY <1>3, <3>1, <3>2
    <2>3. SentReached'
      <3> SUFFICES ASSUME NEW q \in Publishers, NEW c \in Consumers, NEW x \in SentIn(publisher'[q])
                   PROVE  Reached(c, x)'
        BY DEF SentReached
      <3>1. x = m \/ x \in SentIn(publisher[q])
        BY <2>2
      <3>2. x \in SentIn(publisher[q]) => x \in Messages /\ Reached(c, x)
        BY <1>1, SentIsMessages DEF IInv, SentReached, Sound
      <3> QED
        BY <1>1, <2>1, <3>1, <3>2 DEF Keeps
    <2>4. Accounted'
      BY <1>1, <2>2 DEF IInv, Accounted, Keeps, Sound, TypeOK
    <2> QED
      BY <2>3, <2>4
  <1>4. ASSUME NEW p \in Publishers,
               \/ Tick(p) \/ MarkPublished(p) \/ MarkDocumentPublished(p)
               \/ MarkPublishedFails(p) \/ PublisherStops(p)
               \/ \E m \in Messages : PublishFails(p, m)
        PROVE  SentReached' /\ Accounted'
    <2>1. \A q \in Publishers : SentIn(publisher'[q]) \subseteq SentIn(publisher[q])
      <3>1. publisher \in [Publishers -> TickState]
        BY <1>1 DEF Sound, TypeOK
      <3>2. CASE Tick(p)
        BY <3>1, <3>2 DEF Tick, TickState, SentIn, NoTick
      <3>3. CASE MarkPublished(p)
        BY <3>1, <3>3 DEF MarkPublished, TickState, SentIn
      <3>4. CASE MarkDocumentPublished(p)
        BY <3>1, <3>4 DEF MarkDocumentPublished, TickState, SentIn
      <3>5. CASE MarkPublishedFails(p)
        BY <3>1, <3>5 DEF MarkPublishedFails, TickState, SentIn
      <3>6. CASE PublisherStops(p)
        BY <3>1, <3>6 DEF PublisherStops, TickState, SentIn, NoTick
      <3>7. CASE \E m \in Messages : PublishFails(p, m)
        BY <3>1, <3>7 DEF PublishFails, TickState, SentIn
      <3> QED
        BY <1>4, <3>2, <3>3, <3>4, <3>5, <3>6, <3>7
    <2>2. published' \subseteq published \union SentIn(publisher[p])
      BY <1>4 DEF Tick, MarkPublished, MarkDocumentPublished, MarkPublishedFails,
         PublisherStops, PublishFails
    <2>3. SentReached'
      BY <1>1, <2>1, SentIsMessages DEF IInv, SentReached, Keeps, Sound, TypeOK
    <2>4. Accounted'
      BY <1>1, <2>2, SentIsMessages DEF IInv, SentReached, Accounted, Keeps, Sound, TypeOK
    <2> QED
      BY <2>3, <2>4
  <1>5. \/ UNCHANGED <<published, publisher>>
        \/ \E p \in Publishers :
             \/ Tick(p) \/ MarkPublished(p) \/ MarkDocumentPublished(p)
             \/ MarkPublishedFails(p) \/ PublisherStops(p)
             \/ \E m \in Messages : PublishFails(p, m) \/ Publish(p, m) \/ PublishLost(p, m)
    BY DEF Next, Failure, PublisherStep, HandlerStep, Enqueue, BrokerStarts, Connect,
       CheckInbox, Handle, MarkProcessed, Ack, StaleAck, ReadAttempts, RecordFailedAttempt, Nack,
       StaleNack, Bury, BuryFails, Deliver, BrokerStops, Disconnect, WorkerStops,
       MarkProcessedSwallows, Throw, GiveUp
  <1> QED
    BY <1>2, <1>3, <1>4, <1>5

LEMMA Invariance == Spec => []IInv
  <1>1. Init => IInv
    BY NothingCounts, DeliveryAssumption DEF Init, IInv, Sound, TypeOK, HandlersSound,
       ClaimSound, InboxTruthful, SentReached, Accounted, Offline, Handler, Phases, TickState,
       NoTick,
       SentIn
  <1>2. IInv /\ [Next]_vars => IInv'
    <2>1. CASE Next
      BY <2>1, StepKeeps, InboxStep, AccountsStep DEF IInv
    <2>2. CASE UNCHANGED vars
      BY <2>2 DEF vars, brokerVars, databaseVars, IInv, Sound, TypeOK, HandlersSound,
         InboxTruthful, SentReached, Accounted, Reached, InBroker, Settled, Out
    <2> QED
      BY <2>1, <2>2
  <1> QED
    BY <1>1, <1>2, PTL DEF Spec

(* Every variable keeps its type: no copy count goes below zero, although   *)
(* acknowledgements of lost channels come late.                             *)
THEOREM TypeCorrect == Spec => []TypeOK
  <1>1. IInv => TypeOK
    BY DEF IInv, Sound
  <1> QED
    BY <1>1, Invariance, PTL

(* Whatever crashes, drops and repeats, a row marked published has reached  *)
(* every consumer, or was lost by the broker or on the way to it.           *)
THEOREM PublishedIsAccounted == Spec => []Accounted
  <1>1. IInv => Accounted
    BY DEF IInv
  <1> QED
    BY <1>1, Invariance, PTL

(* The inbox never calls a message processed that was not handled.          *)
THEOREM InboxIsTruthful == Spec => []InboxTruthful
  <1>1. IInv => InboxTruthful
    BY DEF IInv
  <1> QED
    BY <1>1, Invariance, PTL
=============================================================================
