--------------------------- MODULE RedisCaches_proofs ---------------------------
(***************************************************************************)
(* Proofs about RedisCaches, for any requests, readers and keys, any times  *)
(* to live and any numbers of changes and faults.                           *)
(***************************************************************************)
EXTENDS RedisCaches, TLAPS, FiniteSetTheorems

(* A request has a key while it looks it up or stores under it, and none    *)
(* when it is over; what it will store is a work order that its key created.*)
RequestSound(q) ==
    /\ request[q].phase = "idle" => request[q].key = None
    /\ request[q].phase \in {"lookup", "store"} => request[q].key \in Keys
    /\ request[q].phase \in {"invalidate", "store"} /\ request[q].key # None =>
         request[q].id \in created[request[q].key]

RequestsSound == \A q \in Requests : RequestSound(q)

(* The request has saved a work order of the key and has not remembered it. *)
Owes(q, k) == request[q].key = k /\ request[q].phase \in {"invalidate", "store"}

(* A key used in sequence has one request, has created one work order at    *)
(* most, and what it has created is remembered, or about to be, or the key  *)
(* has created nothing when its request comes to save.                      *)
InSequence(k) ==
    /\ \A q, o \in Requests : request[q].key = k /\ request[o].key = k => q = o
    /\ \A i, j \in created[k] : i = j
    /\ created[k] = {} \/ record[k] # NoRecord \/ \E q \in Requests : Owes(q, k)
    /\ \A q \in Requests :
         request[q].key = k /\ request[q].phase = "save" => created[k] = {}

SequencesSound == \A k \in sequential : InSequence(k)

(* No time has passed since the table was overtaken when it has not been.   *)
SinceSound == \A t \in 0 .. MaxChanges : t >= table => since[t] = 0

(* A report is of a table that was current when the report was set or since,*)
(* and a read takes no time.                                                *)
ReportSound ==
    report # NoReport => report.table \in 0 .. table /\ since[report.table] <= report.age

ReadSound(d) ==
    reader[d].phase = "computed" =>
        /\ reader[d].table \in 0 .. table /\ since[reader[d].table] = 0
        /\ calm => reader[d].table = table

ReadsSound == \A d \in Readers : ReadSound(d)

AgesSound == SinceSound /\ ReportSound /\ ReadsSound

IInv ==
    /\ TypeOK /\ RequestsSound /\ ReplayIsReal
    /\ SequencesSound
    /\ AgesSound /\ CurrentInCalm

-----------------------------------------------------------------------------
(* The first table is empty and so is every cache.                          *)
LEMMA InitIInv == Init => IInv
<1> SUFFICES ASSUME Init PROVE IInv
  OBVIOUS
<1>1. TypeOK
  BY CachesAssumption DEF Init, TypeOK, RequestState, ReaderState, Idle, Resting, NoRecord,
     NoReport
<1>2. RequestsSound /\ ReplayIsReal
  BY DEF Init, RequestsSound, RequestSound, ReplayIsReal, Idle
<1>3. SequencesSound
  BY CachesAssumption DEF Init, SequencesSound, InSequence, Idle
<1>4. AgesSound /\ CurrentInCalm
  BY DEF Init, AgesSound, SinceSound, ReportSound, ReadsSound, ReadSound, CurrentInCalm, Resting
<1>5. QED
  BY <1>1, <1>2, <1>3, <1>4 DEF IInv

(* What the moves of a request do to it and to the others.                  *)
Moved(q, phase) ==
    /\ request' \in [Requests -> RequestState]
    /\ request'[q] = [request[q] EXCEPT !.phase = phase]
    /\ \A o \in Requests : o # q => request'[o] = request[o]

Answered(q) ==
    /\ request' \in [Requests -> RequestState]
    /\ request'[q] = Idle
    /\ \A o \in Requests : o # q => request'[o] = request[o]

LEMMA ToMoves ==
    ASSUME TypeOK, NEW q \in Requests, NEW phase, To(q, phase),
           phase \in {"lookup", "save", "invalidate", "store"}
    PROVE  Moved(q, phase)
  BY DEF TypeOK, To, Moved, RequestState

LEMMA AnswerAnswers ==
    ASSUME TypeOK, NEW q \in Requests, Answer(q)
    PROVE  Answered(q)
<1>1. Idle \in RequestState
  BY CachesAssumption DEF Idle, RequestState
<1>2. QED
  BY <1>1 DEF TypeOK, Answer, Answered

LEMMA AfterInvalidateMoves ==
    ASSUME TypeOK, NEW q \in Requests, AfterInvalidate(q)
    PROVE  IF request[q].key = None THEN Answered(q) ELSE Moved(q, "store")
  BY ToMoves, AnswerAnswers DEF AfterInvalidate

Saved(q) ==
    /\ request' \in [Requests -> RequestState]
    /\ request'[q] = [phase |-> "invalidate", key |-> request[q].key, id |-> table']
    /\ \A o \in Requests : o # q => request'[o] = request[o]

LEMMA SaveMoves ==
    ASSUME TypeOK, NEW q \in Requests, Save(q)
    PROVE  Saved(q)
<1> DEFINE saved == [request[q] EXCEPT !.phase = "invalidate", !.id = table']
<1>1. request[q] \in RequestState /\ table' \in 0 .. MaxChanges
  BY CachesAssumption DEF TypeOK, Save
<1>2. saved = [phase |-> "invalidate", key |-> request[q].key, id |-> table']
  <2> DEFINE invalidating == [request[q] EXCEPT !.phase = "invalidate"]
  <2>1. /\ invalidating \in RequestState
        /\ invalidating.phase = "invalidate" /\ invalidating.key = request[q].key
    BY <1>1 DEF RequestState
  <2>2. saved = [invalidating EXCEPT !.id = table']
    OBVIOUS
  <2> HIDE DEF saved, invalidating
  <2>3. QED
    BY <2>1, <2>2 DEF RequestState
<1>3. saved \in RequestState
  BY <1>1, <1>2 DEF RequestState
<1>4. request' = [request EXCEPT ![q] = saved]
  BY DEF Save
<1>5. QED
  BY <1>2, <1>3, <1>4 DEF TypeOK, Saved

(* The types of the requests' side and of the report's.                     *)
RequestTypes ==
    /\ table \in 0 .. MaxChanges
    /\ created \in [Keys -> SUBSET (1 .. MaxChanges)]
    /\ request \in [Requests -> RequestState]
    /\ record \in [Keys -> [id : (0 .. MaxChanges) \union {None}, age : 0 .. RecordTTL - 1]]
    /\ sequential \subseteq Keys

ReportTypes ==
    /\ since \in [0 .. MaxChanges -> 0 .. ReportTTL]
    /\ report \in [table : (0 .. MaxChanges) \union {None}, age : 0 .. ReportTTL - 1]
    /\ reader \in [Readers -> ReaderState]
    /\ calm \in BOOLEAN

LEMMA RequestTypeStep ==
    ASSUME TypeOK, NEW q \in Requests, RequestStep(q)
    PROVE  RequestTypes'
<1> USE CachesAssumption
<1>1. RequestTypes /\ request[q] \in RequestState
  BY DEF TypeOK, RequestTypes
<1>2. ASSUME NEW k \in Keys \union {None}, Receive(q, k)
      PROVE  RequestTypes'
  <2>1. [phase |-> IF k = None THEN "save" ELSE "lookup", key |-> k, id |-> 0] \in RequestState
    BY DEF RequestState
  <2>2. QED
    BY <1>1, <1>2, <2>1 DEF Receive, RequestTypes
<1>3. CASE Lookup(q) \/ LookupFails(q) \/ Refuse(q)
  <2>1. request' \in [Requests -> RequestState]
    BY <1>3, ToMoves, AnswerAnswers DEF Lookup, LookupFails, Refuse, Moved, Answered
  <2>2. QED
    BY <1>1, <1>3, <2>1 DEF Lookup, LookupFails, Refuse, RequestTypes
<1>4. CASE Save(q)
  <2>1. table' = table + 1 /\ table' \in 1 .. MaxChanges
    BY <1>1, <1>4 DEF Save, RequestTypes
  <2>2. created' \in [Keys -> SUBSET (1 .. MaxChanges)]
    BY <1>1, <1>4, <2>1 DEF Save, RequestTypes
  <2>3. request' \in [Requests -> RequestState]
    BY <1>4, SaveMoves DEF Saved
  <2>4. QED
    BY <1>1, <1>4, <2>1, <2>2, <2>3 DEF Save, RequestTypes
<1>5. CASE InvalidateCache(q) \/ InvalidateCacheFails(q)
  <2>1. request' \in [Requests -> RequestState]
    BY <1>5, AfterInvalidateMoves DEF InvalidateCache, InvalidateCacheFails, Moved, Answered
  <2>2. QED
    BY <1>1, <1>5, <2>1 DEF InvalidateCache, InvalidateCacheFails, RequestTypes
<1>6. CASE StoreResponse(q) \/ StoreResponseFails(q)
  <2>1. request' \in [Requests -> RequestState]
    BY <1>6, AnswerAnswers DEF StoreResponse, StoreResponseFails, Answered
  <2>2. [id |-> request[q].id, age |-> 0]
          \in [id : (0 .. MaxChanges) \union {None}, age : 0 .. RecordTTL - 1]
    BY <1>1 DEF RequestState
  <2>3. QED
    BY <1>1, <1>6, <2>1, <2>2 DEF StoreResponse, StoreResponseFails, RequestTypes
<1>7. QED
  BY <1>2, <1>3, <1>4, <1>5, <1>6 DEF RequestStep

LEMMA ReportTypeStep ==
    ASSUME TypeOK, NEW q \in Requests, RequestStep(q)
    PROVE  ReportTypes'
<1> USE CachesAssumption
<1>1. ReportTypes
  BY DEF TypeOK, ReportTypes
<1>2. UNCHANGED <<since, reader>> /\ (report' = report \/ report' = NoReport)
  BY DEF RequestStep, Receive, Lookup, LookupFails, Refuse, Save, InvalidateCache,
     InvalidateCacheFails, StoreResponse, StoreResponseFails, reportVars
<1>3. calm' \in BOOLEAN
  <2>1. CASE Save(q)
    BY <1>1, <2>1, Zenon DEF Save
  <2>2. CASE ~Save(q)
    <3>1. calm' = calm \/ calm' = FALSE
      BY <2>2 DEF RequestStep, Receive, Lookup, LookupFails, Refuse, InvalidateCache,
         InvalidateCacheFails, StoreResponse, StoreResponseFails, reportVars
    <3>2. QED
      BY <1>1, <3>1, Zenon DEF ReportTypes
  <2>3. QED
    BY <2>1, <2>2
<1>4. QED
  BY <1>1, <1>2, <1>3 DEF ReportTypes, NoReport

LEMMA FaultsStep ==
    ASSUME TypeOK, Next
    PROVE  faults' \in 0 .. MaxFaults
<1>1. Fault \/ NoFault
  BY DEF Next, RequestStep, Receive, Lookup, LookupFails, Refuse, Save, InvalidateCache,
     InvalidateCacheFails, StoreResponse, StoreResponseFails, GetReport, ReadOn, Compute,
     SetReport, ReadFails, ApiStops, Tick
<1>2. QED
  BY <1>1, CachesAssumption DEF TypeOK, Fault, NoFault

LEMMA TypeStep ==
    ASSUME TypeOK, [Next]_vars
    PROVE  TypeOK'
<1> USE CachesAssumption
<1>1. RequestTypes /\ ReportTypes
  BY DEF TypeOK, RequestTypes, ReportTypes
<1>2. ASSUME NEW q \in Requests, RequestStep(q)
      PROVE  RequestTypes' /\ ReportTypes'
  BY <1>2, RequestTypeStep, ReportTypeStep
<1>3. ASSUME NEW d \in Readers, GetReport(d) \/ ReadOn(d) \/ ReadFails(d)
      PROVE  RequestTypes' /\ ReportTypes'
  <2>1. RequestTypes'
    BY <1>1, <1>3 DEF GetReport, ReadOn, Compute, SetReport, ReadFails, requestVars, RequestTypes
  <2>2. reader' \in [Readers -> ReaderState]
    <3>1. Resting \in ReaderState /\ [phase |-> "computed", table |-> table] \in ReaderState
      BY <1>1 DEF Resting, ReaderState, RequestTypes
    <3>2. [reader[d] EXCEPT !.phase = "missed"] \in ReaderState
      BY <1>1 DEF ReportTypes, ReaderState
    <3>3. CASE reader' = [reader EXCEPT ![d].phase = "missed"]
      BY <1>1, <3>2, <3>3 DEF ReportTypes
    <3>4. QED
      BY <1>1, <1>3, <3>1, <3>3 DEF GetReport, ReadOn, Compute, SetReport, ReadFails, ReportTypes
  <2>3. report' \in [table : (0 .. MaxChanges) \union {None}, age : 0 .. ReportTTL - 1]
    BY <1>1, <1>3 DEF GetReport, ReadOn, Compute, SetReport, ReadFails, ReportTypes, ReaderState
  <2>4. QED
    BY <1>1, <1>3, <2>1, <2>2, <2>3 DEF GetReport, ReadOn, Compute, SetReport, ReadFails,
       ReportTypes
<1>4. ASSUME ApiStops
      PROVE  RequestTypes' /\ ReportTypes'
  <2>1. calm' \in BOOLEAN
    BY <1>4, Zenon DEF ApiStops
  <2>2. QED
    BY <1>1, <1>4, <2>1 DEF ApiStops, RequestTypes, ReportTypes, Idle, Resting, RequestState,
       ReaderState
<1>5. ASSUME Tick
      PROVE  RequestTypes' /\ ReportTypes'
  <2>1. record' \in [Keys -> [id : (0 .. MaxChanges) \union {None}, age : 0 .. RecordTTL - 1]]
    <3>1. ASSUME NEW k \in Keys
          PROVE  Older(record[k], NoRecord, RecordTTL)
                   \in [id : (0 .. MaxChanges) \union {None}, age : 0 .. RecordTTL - 1]
      <4>1. record[k] \in [id : (0 .. MaxChanges) \union {None}, age : 0 .. RecordTTL - 1]
        BY <1>1 DEF RequestTypes
      <4>2. QED
        BY <4>1 DEF Older, NoRecord
    <3>2. QED
      BY <1>5, <3>1 DEF Tick
  <2>2. report' \in [table : (0 .. MaxChanges) \union {None}, age : 0 .. ReportTTL - 1]
    BY <1>1, <1>5 DEF Tick, Older, ReportTypes, NoReport
  <2>3. since' \in [0 .. MaxChanges -> 0 .. ReportTTL]
    BY <1>1, <1>5 DEF Tick, ReportTypes, RequestTypes
  <2>4. QED
    BY <1>1, <1>5, <2>1, <2>2, <2>3 DEF Tick, RequestTypes, ReportTypes
<1>6. CASE UNCHANGED vars
  BY <1>6 DEF vars, requestVars, reportVars, TypeOK
<1>7. CASE Next
  <2>1. RequestTypes' /\ ReportTypes'
    BY <1>2, <1>3, <1>4, <1>5, <1>7 DEF Next
  <2>2. QED
    BY <1>7, <2>1, FaultsStep DEF TypeOK, RequestTypes, ReportTypes
<1>8. QED
  BY <1>6, <1>7

-----------------------------------------------------------------------------
(* What a key has created stays created, so what is sound of a request that *)
(* a step leaves alone stays sound, and so does a record.                   *)
CreatedGrows == \A k \in Keys : created[k] \subseteq created'[k]

LEMMA CreatedOnlyGrows ==
    ASSUME TypeOK, [Next]_vars
    PROVE  CreatedGrows
<1>1. CASE UNCHANGED created
  BY <1>1 DEF CreatedGrows
<1>2. ASSUME NEW q \in Requests, Save(q)
      PROVE  CreatedGrows
  BY <1>2 DEF Save, TypeOK, CreatedGrows
<1>3. QED
  BY <1>1, <1>2 DEF Next, vars, requestVars, RequestStep, Receive, Lookup, LookupFails, Refuse,
     InvalidateCache, InvalidateCacheFails, StoreResponse, StoreResponseFails, GetReport, ReadOn,
     Compute, SetReport, ReadFails, ApiStops, Tick

LEMMA OtherRequestsSound ==
    ASSUME RequestsSound, CreatedGrows, TypeOK, NEW o \in Requests, request'[o] = request[o]
    PROVE  RequestSound(o)'
  BY DEF RequestsSound, RequestSound, CreatedGrows, TypeOK, RequestState

LEMMA AnsweredSound ==
    ASSUME RequestsSound, CreatedGrows, TypeOK, NEW q \in Requests, Answered(q)
    PROVE  RequestsSound'
<1>1. RequestSound(q)'
  BY DEF Answered, RequestSound, Idle
<1>2. ASSUME NEW o \in Requests, o # q
      PROVE  RequestSound(o)'
  BY <1>2, OtherRequestsSound DEF Answered
<1>3. QED
  BY <1>1, <1>2 DEF RequestsSound

LEMMA RequestsStep ==
    ASSUME IInv, [Next]_vars
    PROVE  RequestsSound'
<1> USE CachesAssumption
<1>1. TypeOK /\ RequestsSound /\ CreatedGrows
  BY CreatedOnlyGrows DEF IInv
<1>2. CASE UNCHANGED request
  BY <1>1, <1>2, OtherRequestsSound DEF RequestsSound
<1>3. ASSUME NEW q \in Requests, RequestStep(q)
      PROVE  RequestsSound'
  <2>1. request[q] \in RequestState /\ RequestSound(q)
    BY <1>1 DEF TypeOK, RequestsSound
  <2>2. ASSUME NEW phase, Moved(q, phase), RequestSound(q)'
        PROVE  RequestsSound'
    BY <1>1, <2>2, OtherRequestsSound DEF Moved, RequestsSound
  <2>3. ASSUME NEW k \in Keys \union {None}, Receive(q, k)
        PROVE  RequestsSound'
    <3>1. /\ request'[q] = [phase |-> IF k = None THEN "save" ELSE "lookup", key |-> k, id |-> 0]
          /\ \A o \in Requests : o # q => request'[o] = request[o]
      BY <1>1, <2>3 DEF Receive, TypeOK
    <3>2. RequestSound(q)'
      BY <3>1 DEF RequestSound
    <3>3. QED
      BY <1>1, <3>1, <3>2, OtherRequestsSound DEF RequestsSound
  <2>4. CASE Lookup(q) \/ LookupFails(q)
    <3>1. Answered(q) \/ Moved(q, "save")
      BY <1>1, <2>4, ToMoves, AnswerAnswers DEF Lookup, LookupFails
    <3>2. Moved(q, "save") => RequestSound(q)'
      BY <2>1 DEF Moved, RequestSound, RequestState
    <3>3. QED
      BY <1>1, <2>2, <3>1, <3>2, AnsweredSound
  <2>5. CASE Refuse(q) \/ StoreResponse(q) \/ StoreResponseFails(q)
    <3>1. Answered(q)
      BY <1>1, <2>5, AnswerAnswers DEF Refuse, StoreResponse, StoreResponseFails
    <3>2. QED
      BY <1>1, <3>1, AnsweredSound
  <2>6. CASE Save(q)
    <3>1. Saved(q)
      BY <1>1, <2>6, SaveMoves
    <3>2. RequestSound(q)'
      BY <1>1, <2>1, <2>6, <3>1 DEF Save, Saved, RequestSound, RequestState, TypeOK
    <3>3. QED
      BY <1>1, <3>1, <3>2, OtherRequestsSound DEF Saved, RequestsSound
  <2>7. CASE InvalidateCache(q) \/ InvalidateCacheFails(q)
    <3>1. /\ request[q].phase = "invalidate"
          /\ IF request[q].key = None THEN Answered(q) ELSE Moved(q, "store")
      BY <1>1, <2>7, AfterInvalidateMoves DEF InvalidateCache, InvalidateCacheFails
    <3>2. request[q].key # None => RequestSound(q)'
      BY <1>1, <2>1, <3>1 DEF Moved, RequestSound, RequestState, CreatedGrows
    <3>3. QED
      BY <1>1, <2>2, <3>1, <3>2, AnsweredSound
  <2>8. QED
    BY <1>3, <2>3, <2>4, <2>5, <2>6, <2>7 DEF RequestStep
<1>4. CASE ApiStops
  BY <1>4 DEF ApiStops, RequestsSound, RequestSound, Idle
<1>5. QED
  BY <1>2, <1>3, <1>4 DEF Next, vars, requestVars, GetReport, ReadOn, Compute, SetReport,
     ReadFails, Tick

LEMMA ReplayStep ==
    ASSUME IInv, [Next]_vars
    PROVE  ReplayIsReal'
<1> USE CachesAssumption
<1>1. TypeOK /\ RequestsSound /\ ReplayIsReal /\ CreatedGrows
  BY CreatedOnlyGrows DEF IInv
<1>2. CASE UNCHANGED record
  BY <1>1, <1>2 DEF ReplayIsReal, CreatedGrows
<1>3. ASSUME NEW q \in Requests, StoreResponse(q)
      PROVE  ReplayIsReal'
  <2>1. request[q].key \in Keys /\ request[q].id \in created[request[q].key]
    BY <1>1, <1>3 DEF StoreResponse, RequestsSound, RequestSound
  <2>2. QED
    BY <1>1, <1>3, <2>1 DEF StoreResponse, ReplayIsReal, TypeOK
<1>4. CASE Tick
  <2>1. ASSUME NEW k \in Keys, record'[k] # NoRecord
        PROVE  record'[k].id \in created'[k]
    <3>1. record'[k] = Older(record[k], NoRecord, RecordTTL) /\ created' = created
      BY <1>4 DEF Tick
    <3>2. record[k] # NoRecord /\ record'[k].id = record[k].id
      BY <1>1, <2>1, <3>1 DEF Older, TypeOK
    <3>3. QED
      BY <1>1, <3>1, <3>2 DEF ReplayIsReal
  <2>2. QED
    BY <2>1 DEF ReplayIsReal
<1>5. QED
  BY <1>2, <1>3, <1>4 DEF Next, vars, requestVars, RequestStep, Receive, Lookup, LookupFails,
     Refuse, Save, InvalidateCache, InvalidateCacheFails, StoreResponseFails, GetReport, ReadOn,
     Compute, SetReport, ReadFails, ApiStops

-----------------------------------------------------------------------------
(* A step of a request under another key leaves a key's sequence alone.     *)
LEMMA OtherKeyStep ==
    ASSUME NEW k \in Keys, InSequence(k), NEW q \in Requests,
           request[q].key # k, request'[q].key # k,
           \A o \in Requests : o # q => request'[o] = request[o],
           created'[k] = created[k], record'[k] = record[k]
    PROVE  InSequence(k)'
  BY DEF InSequence, Owes

LEMMA SequenceRequestStep ==
    ASSUME IInv, NEW q \in Requests, RequestStep(q), NEW k \in sequential'
    PROVE  InSequence(k)'
<1> USE CachesAssumption
<1>1. TypeOK /\ RequestsSound /\ RequestSound(q) /\ request[q] \in RequestState
  BY DEF IInv, TypeOK, RequestsSound
<1>2. k \in sequential /\ k \in Keys /\ InSequence(k) /\ k # None
  BY <1>1 DEF IInv, SequencesSound, TypeOK, RequestStep, Receive, Lookup, LookupFails, Refuse,
     Save, InvalidateCache, InvalidateCacheFails, StoreResponse, StoreResponseFails
<1>3. ASSUME NEW r \in Keys \union {None}, Receive(q, r)
      PROVE  InSequence(k)'
  <2>1. /\ request[q].key = None
        /\ request'[q].key = r /\ request'[q].phase \notin {"invalidate", "store"}
        /\ request'[q].phase = "save" => r = None
        /\ \A o \in Requests : o # q => request'[o] = request[o]
        /\ created' = created /\ record' = record
    BY <1>1, <1>3 DEF Receive, TypeOK, RequestSound
  <2>2. CASE r = k
    <3>1. \A o \in Requests : request[o].key # k
      BY <1>2, <1>3, <2>2 DEF Receive
    <3>2. QED
      BY <1>2, <2>1, <2>2, <3>1 DEF InSequence, Owes
  <2>3. CASE r # k
    BY <1>2, <2>1, <2>3, OtherKeyStep
  <2>4. QED
    BY <2>2, <2>3
<1>4. CASE request[q].key # k /\ ~\E r \in Keys \union {None} : Receive(q, r)
  <2>1. /\ request'[q].key # k
        /\ \A o \in Requests : o # q => request'[o] = request[o]
    <3>1. \/ Answered(q) \/ Saved(q)
          \/ \E phase \in {"save", "store"} : Moved(q, phase)
      BY <1>1, <1>4, ToMoves, AnswerAnswers, SaveMoves, AfterInvalidateMoves DEF RequestStep,
         Lookup, LookupFails, Refuse, Save, InvalidateCache, InvalidateCacheFails, StoreResponse,
         StoreResponseFails
    <3>2. CASE Answered(q)
      BY <1>2, <3>2 DEF Answered, Idle
    <3>3. CASE Saved(q)
      BY <1>4, <3>3 DEF Saved
    <3>4. ASSUME NEW phase, Moved(q, phase)
          PROVE  /\ request'[q].key # k
                 /\ \A o \in Requests : o # q => request'[o] = request[o]
      BY <1>1, <1>4, <3>4 DEF Moved, RequestState
    <3>5. QED
      BY <3>1, <3>2, <3>3, <3>4
  <2>2. created'[k] = created[k] /\ record'[k] = record[k]
    BY <1>1, <1>2, <1>4 DEF RequestStep, Lookup, LookupFails, Refuse, Save, InvalidateCache,
       InvalidateCacheFails, StoreResponse, StoreResponseFails, TypeOK
  <2>3. QED
    BY <1>2, <1>4, <2>1, <2>2, OtherKeyStep
<1>5. CASE request[q].key = k /\ Lookup(q)
  <2>1. created' = created /\ record' = record
    BY <1>5 DEF Lookup
  <2>2. CASE record[k] # NoRecord
    BY <1>1, <1>2, <1>5, <2>1, <2>2, AnswerAnswers DEF Lookup, Answered, Idle, InSequence
  <2>3. CASE record[k] = NoRecord
    <3>1. Moved(q, "save")
      BY <1>1, <1>5, <2>3, ToMoves DEF Lookup
    <3>2. created[k] = {}
      BY <1>2, <1>5, <2>3 DEF Lookup, InSequence, Owes
    <3>3. QED
      BY <1>2, <1>5, <2>1, <3>1, <3>2 DEF Moved, InSequence
  <2>4. QED
    BY <2>2, <2>3
<1>6. CASE request[q].key = k /\ Refuse(q)
  <2>1. Answered(q) /\ created[k] = {} /\ created' = created
    BY <1>1, <1>2, <1>6, AnswerAnswers DEF Refuse, InSequence
  <2>2. QED
    BY <1>2, <2>1 DEF Answered, Idle, InSequence
<1>7. CASE request[q].key = k /\ Save(q)
  <2>1. Saved(q) /\ created[k] = {} /\ created'[k] = {table'}
    BY <1>1, <1>2, <1>7, SaveMoves DEF Save, InSequence, TypeOK
  <2>2. QED
    BY <1>2, <1>7, <2>1 DEF Saved, InSequence, Owes
<1>8. CASE request[q].key = k /\ (InvalidateCache(q) \/ InvalidateCacheFails(q))
  <2>1. Moved(q, "store") /\ created' = created
    BY <1>1, <1>2, <1>8, AfterInvalidateMoves DEF InvalidateCache, InvalidateCacheFails
  <2>2. QED
    BY <1>1, <1>2, <1>8, <2>1 DEF Moved, RequestState, InSequence, Owes
<1>9. CASE request[q].key = k /\ StoreResponse(q)
  <2>1. Answered(q) /\ created' = created
    BY <1>1, <1>9, AnswerAnswers DEF StoreResponse
  <2>2. record'[k] # NoRecord
    BY <1>1, <1>2, <1>9 DEF StoreResponse, TypeOK, RequestState, NoRecord
  <2>3. QED
    BY <1>2, <2>1, <2>2 DEF Answered, Idle, InSequence
<1>10. CASE request[q].key = k /\ (LookupFails(q) \/ StoreResponseFails(q))
  BY <1>10 DEF LookupFails, StoreResponseFails
<1>11. QED
  BY <1>3, <1>4, <1>5, <1>6, <1>7, <1>8, <1>9, <1>10 DEF RequestStep

LEMMA SequencesStep ==
    ASSUME IInv, [Next]_vars
    PROVE  SequencesSound'
<1> USE CachesAssumption
<1>1. TypeOK /\ SequencesSound
  BY DEF IInv
<1>2. ASSUME NEW q \in Requests, RequestStep(q)
      PROVE  SequencesSound'
  BY <1>2, SequenceRequestStep DEF SequencesSound
<1>3. CASE UNCHANGED requestVars
  BY <1>1, <1>3 DEF requestVars, SequencesSound, InSequence, Owes
<1>4. CASE ApiStops
  <2>1. ASSUME NEW k \in sequential'
        PROVE  InSequence(k)'
    <3>1. /\ k \in sequential /\ \A q \in Requests : request[q].key # k
          /\ \A q \in Requests : request'[q] = Idle
          /\ created' = created /\ record' = record /\ k # None
      BY <1>1, <1>4, <2>1 DEF ApiStops, TypeOK
    <3>2. QED
      BY <1>1, <3>1 DEF SequencesSound, InSequence, Owes, Idle
  <2>2. QED
    BY <2>1 DEF SequencesSound
<1>5. CASE Tick
  <2>1. ASSUME NEW k \in sequential'
        PROVE  InSequence(k)'
    <3>1. /\ k \in sequential /\ created' = created /\ request' = request
          /\ record[k] # NoRecord => record'[k] # NoRecord
      BY <1>1, <1>5, <2>1 DEF Tick, TypeOK
    <3>2. QED
      BY <1>1, <3>1 DEF SequencesSound, InSequence, Owes
  <2>2. QED
    BY <2>1 DEF SequencesSound
<1>6. QED
  BY <1>2, <1>3, <1>4, <1>5 DEF Next, vars, GetReport, ReadOn, Compute, SetReport, ReadFails

-----------------------------------------------------------------------------
(* The ages of the tables: only Tick ages them, and only those overtaken;   *)
(* a save overtakes a table whose age is none.                              *)
LEMMA SinceStep ==
    ASSUME IInv, [Next]_vars
    PROVE  SinceSound'
<1>1. TypeOK /\ SinceSound
  BY DEF IInv, AgesSound
<1>2. CASE UNCHANGED <<table, since>>
  BY <1>1, <1>2 DEF SinceSound
<1>3. ASSUME NEW q \in Requests, Save(q)
      PROVE  SinceSound'
  BY <1>1, <1>3, CachesAssumption DEF Save, SinceSound, TypeOK
<1>4. CASE Tick
  BY <1>1, <1>4 DEF Tick, SinceSound, TypeOK
<1>5. QED
  BY <1>2, <1>3, <1>4 DEF Next, vars, requestVars, reportVars, RequestStep, Receive, Lookup,
     LookupFails, Refuse, InvalidateCache, InvalidateCacheFails, StoreResponse,
     StoreResponseFails, GetReport, ReadOn, Compute, SetReport, ReadFails, ApiStops

(* What is read stays as old as it was: a tick waits for it.                *)
LEMMA ReadsStep ==
    ASSUME IInv, [Next]_vars
    PROVE  ReadsSound'
<1>1. TypeOK /\ SinceSound /\ ReadsSound
  BY DEF IInv, AgesSound
<1>2. CASE UNCHANGED <<table, since, reader>> /\ (calm' => calm)
  BY <1>1, <1>2 DEF ReadsSound, ReadSound
<1>3. ASSUME NEW q \in Requests, Save(q)
      PROVE  ReadsSound'
  <2>1. UNCHANGED <<since, reader>> /\ table' = table + 1 /\ table \in Nat
    BY <1>1, <1>3, CachesAssumption DEF Save, TypeOK
  <2>2. calm' => \A d \in Readers : reader[d].phase # "computed"
    BY <1>3 DEF Save
  <2>3. QED
    BY <1>1, <2>1, <2>2 DEF ReadsSound, ReadSound
<1>4. ASSUME NEW d \in Readers, GetReport(d) \/ ReadOn(d) \/ ReadFails(d)
      PROVE  ReadsSound'
  <2>1. UNCHANGED <<table, since, calm>>
    BY <1>4 DEF GetReport, ReadOn, Compute, SetReport, ReadFails, requestVars
  <2>2. ASSUME NEW o \in Readers
        PROVE  ReadSound(o)'
    <3>1. CASE reader'[o] = reader[o]
      BY <1>1, <2>1, <3>1 DEF ReadsSound, ReadSound
    <3>2. CASE reader'[o].phase # "computed"
      BY <3>2 DEF ReadSound
    <3>3. CASE reader'[o].table = table
      BY <1>1, <2>1, <3>3 DEF ReadSound, SinceSound, TypeOK
    <3>4. QED
      BY <1>1, <1>4, <3>1, <3>2, <3>3 DEF GetReport, ReadOn, Compute, SetReport, ReadFails,
         TypeOK, ReaderState, Resting
  <2>3. QED
    BY <2>2 DEF ReadsSound
<1>5. CASE ApiStops
  BY <1>5 DEF ApiStops, ReadsSound, ReadSound, Resting
<1>6. CASE Tick
  BY <1>6 DEF Tick, ReadsSound, ReadSound
<1>7. QED
  <2>1. ASSUME NEW q \in Requests, RequestStep(q), ~Save(q)
        PROVE  UNCHANGED <<table, since, reader>> /\ (calm' => calm)
    BY <2>1 DEF RequestStep, Receive, Lookup, LookupFails, Refuse, InvalidateCache,
       InvalidateCacheFails, StoreResponse, StoreResponseFails, reportVars
  <2>2. CASE UNCHANGED vars
    BY <1>2, <2>2 DEF vars, requestVars, reportVars
  <2>3. QED
    BY <1>2, <1>3, <1>4, <1>5, <1>6, <2>1, <2>2 DEF Next

(* A report is set at the age of a table no time has passed since, and from *)
(* then on ages as fast as its table at least.                              *)
LEMMA ReportStep ==
    ASSUME IInv, [Next]_vars
    PROVE  ReportSound'
<1> USE CachesAssumption
<1>1. TypeOK /\ ReportSound /\ ReadsSound
  BY DEF IInv, AgesSound
<1>2. CASE /\ UNCHANGED since
           /\ report' = report \/ report' = NoReport
           /\ table' = table \/ table' = table + 1
  BY <1>1, <1>2 DEF ReportSound, TypeOK
<1>3. ASSUME NEW d \in Readers, SetReport(d)
      PROVE  ReportSound'
  BY <1>1, <1>3 DEF SetReport, ReadsSound, ReadSound, ReportSound, requestVars
<1>4. CASE Tick
  <2>1. ASSUME report' # NoReport
        PROVE  report'.table \in 0 .. table' /\ since'[report'.table] <= report'.age
    <3>1. /\ report # NoReport /\ table' = table
          /\ report'.table = report.table /\ report'.age = report.age + 1
      BY <1>1, <1>4, <2>1 DEF Tick, Older, TypeOK
    <3>2. since'[report.table] <= since[report.table] + 1
      BY <1>1, <1>4, <3>1 DEF Tick, TypeOK, ReportSound
    <3>3. report.table \in 0 .. MaxChanges /\ since'[report.table] \in Nat
      BY <1>1, <1>4, <3>1 DEF Tick, TypeOK, ReportSound
    <3>4. QED
      BY <1>1, <3>1, <3>2, <3>3 DEF ReportSound, TypeOK
  <2>2. QED
    BY <2>1 DEF ReportSound
<1>5. QED
  <2>1. ASSUME NEW q \in Requests, RequestStep(q)
        PROVE  /\ UNCHANGED since
               /\ report' = report \/ report' = NoReport
               /\ table' = table \/ table' = table + 1
    BY <2>1 DEF RequestStep, Receive, Lookup, LookupFails, Refuse, Save, InvalidateCache,
       InvalidateCacheFails, StoreResponse, StoreResponseFails, reportVars
  <2>2. CASE UNCHANGED vars \/ ApiStops
    BY <1>2, <2>2 DEF vars, requestVars, reportVars, ApiStops
  <2>3. ASSUME NEW d \in Readers, GetReport(d) \/ Compute(d) \/ ReadFails(d)
        PROVE  ReportSound'
    BY <1>2, <2>3 DEF GetReport, Compute, ReadFails, requestVars
  <2>4. QED
    BY <1>2, <1>3, <1>4, <2>1, <2>2, <2>3 DEF Next, ReadOn

(* In calm, a save finds no read to overtake, and a read that is over shows *)
(* the table as it is.                                                      *)
LEMMA CalmStep ==
    ASSUME IInv, [Next]_vars
    PROVE  CurrentInCalm'
<1> USE CachesAssumption
<1>1. TypeOK /\ RequestsSound /\ ReadsSound /\ CurrentInCalm
  BY DEF IInv, AgesSound
<1>2. ASSUME NEW q \in Requests, RequestStep(q), ~Save(q)
      PROVE  CurrentInCalm'
  <2>1. CASE InvalidateCache(q) \/ InvalidateCacheFails(q)
    BY <2>1 DEF InvalidateCache, InvalidateCacheFails, CurrentInCalm
  <2>2. CASE ~(InvalidateCache(q) \/ InvalidateCacheFails(q))
    <3>1. /\ UNCHANGED <<table, report, calm>> /\ request[q].phase # "invalidate"
          /\ \A o \in Requests : o # q => request'[o] = request[o]
      BY <1>1, <1>2, <2>2, ToMoves, AnswerAnswers DEF RequestStep, Receive, Lookup, LookupFails,
         Refuse, StoreResponse, StoreResponseFails, reportVars, Moved, Answered, TypeOK
    <3>2. QED
      BY <1>1, <3>1 DEF CurrentInCalm
  <2>3. QED
    BY <2>1, <2>2
<1>3. ASSUME NEW q \in Requests, Save(q)
      PROVE  CurrentInCalm'
  <2>1. Saved(q)
    BY <1>1, <1>3, SaveMoves
  <2>2. request'[q].phase = "invalidate"
    BY <2>1 DEF Saved
  <2>3. QED
    BY <2>2 DEF CurrentInCalm
<1>4. ASSUME NEW d \in Readers, GetReport(d) \/ Compute(d) \/ ReadFails(d)
      PROVE  CurrentInCalm'
  BY <1>1, <1>4 DEF GetReport, Compute, ReadFails, requestVars, CurrentInCalm
<1>5. ASSUME NEW d \in Readers, SetReport(d)
      PROVE  CurrentInCalm'
  BY <1>1, <1>5 DEF SetReport, requestVars, ReadsSound, ReadSound, CurrentInCalm
<1>6. CASE ApiStops
  BY <1>1, <1>6 DEF ApiStops, CurrentInCalm
<1>7. CASE Tick
  <2>1. /\ UNCHANGED <<table, request, calm>>
        /\ report' # NoReport => report # NoReport /\ report'.table = report.table
    BY <1>1, <1>7 DEF Tick, Older, TypeOK
  <2>2. QED
    BY <1>1, <2>1 DEF CurrentInCalm
<1>8. CASE UNCHANGED vars
  BY <1>1, <1>8 DEF vars, requestVars, reportVars, CurrentInCalm
<1>9. QED
  BY <1>2, <1>3, <1>4, <1>5, <1>6, <1>7, <1>8 DEF Next, ReadOn

-----------------------------------------------------------------------------
(* The caches' invariant is one.                                            *)
THEOREM InvariantHolds == Spec => []IInv
<1>1. Init => IInv
  BY InitIInv
<1>2. IInv /\ [Next]_vars => IInv'
  <2> SUFFICES ASSUME IInv, [Next]_vars
               PROVE  IInv'
    OBVIOUS
  <2>1. TypeOK'
    BY TypeStep DEF IInv
  <2>2. QED
    BY <2>1, RequestsStep, ReplayStep, SequencesStep, SinceStep, ReadsStep, ReportStep, CalmStep
       DEF IInv, AgesSound
<1>3. QED
  BY <1>1, <1>2, PTL DEF Spec

(* Every variable has its type: no age reaches its time to live, as Redis   *)
(* drops the entry then, and no request works on an unknown key.            *)
THEOREM TypesCorrect == Spec => []TypeOK
<1>1. IInv => TypeOK
  BY DEF IInv
<1>2. QED
  BY <1>1, InvariantHolds, PTL

(* A replayed response is of a work order that its key created, whatever    *)
(* fails between IdempotencyService's lookup, the save and the store.       *)
THEOREM ReplaysAreReal == Spec => []ReplayIsReal
<1>1. IInv => ReplayIsReal
  BY DEF IInv
<1>2. QED
  BY <1>1, InvariantHolds, PTL

(* A key used by one request at a time creates one work order at most, for  *)
(* any number of keys, requests and retries, while Redis answers and the    *)
(* response has not expired.                                                *)
THEOREM OnePerKeyInSequence == Spec => []OneWorkOrderPerKeyInSequence
<1>1. IInv => OneWorkOrderPerKeyInSequence
  <2> SUFFICES ASSUME IInv, NEW k \in sequential
               PROVE  Cardinality(created[k]) <= 1
    BY DEF OneWorkOrderPerKeyInSequence
  <2>1. created[k] = {} \/ \E x : created[k] = {x}
    <3>1. \A i, j \in created[k] : i = j
      BY DEF IInv, SequencesSound, InSequence
    <3>2. QED
      BY <3>1, Zenon
  <2>2. CASE created[k] = {}
    BY <2>2, FS_EmptySet
  <2>3. CASE \E x : created[k] = {x}
    BY <2>3, FS_Singleton
  <2>4. QED
    BY <2>1, <2>2, <2>3
<1>2. QED
  BY <1>1, InvariantHolds, PTL

(* No cached report shows a table overtaken ReportTTL ago, for any time to  *)
(* live, however WorkOrderReportService's reads, the saves and the failed   *)
(* invalidations overlap.                                                   *)
THEOREM StaleForTTLAtMost == Spec => []StaleAtMostTTL
<1>1. IInv => StaleAtMostTTL
  BY CachesAssumption DEF IInv, AgesSound, ReportSound, StaleAtMostTTL, TypeOK
<1>2. QED
  BY <1>1, InvariantHolds, PTL

(* Unless a read overlapped a save or an invalidation failed, a client that *)
(* has its answer finds its change in the report.                           *)
THEOREM ReportCurrentInCalm == Spec => []CurrentInCalm
<1>1. IInv => CurrentInCalm
  BY DEF IInv
<1>2. QED
  BY <1>1, InvariantHolds, PTL
=============================================================================
