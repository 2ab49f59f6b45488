--------------------------- MODULE SearchIndex_proofs ---------------------------
(***************************************************************************)
(* Proofs about SearchIndex, for any work orders, organizations, publishers *)
(* and rebuilds and any numbers of rows and faults.                         *)
(***************************************************************************)
EXTENDS SearchIndex, TLAPS, SequenceTheorems

(* The types of everything but the circuit breakers and the observers of    *)
(* trouble: no document depends on what they let through or have seen.      *)
DataOK ==
    /\ status \in [WorkOrderIds -> Statuses \union {"Absent"}]
    /\ outbox \in Seq(Document)
    /\ published \subseteq DOMAIN outbox
    /\ publisher \in [Publishers -> Tick]
    /\ index \in [WorkOrderIds -> Statuses \union {None}]
    /\ rebuild \in [Rebuilds -> RebuildState]
    /\ removed \subseteq WorkOrderIds

BreakersOK == breaker \in [Publishers -> BreakerStates]

ObserversOK == calm \in BOOLEAN /\ faults \in 0 .. MaxFaults

(* A document kept anywhere, in the index or in a rebuild's hands, is of a  *)
(* work order that exists, and shows a completion only if it was announced. *)
Honest(w, s) ==
    /\ status[w] # "Absent"
    /\ s = "Completed" => Announced(w, "Completed")

(* What is in the table or was announced may be shown...                    *)
SourcesHonest ==
    /\ \A w \in WorkOrderIds : status[w] # "Absent" => Honest(w, status[w])
    /\ \A i \in DOMAIN outbox : Honest(outbox[i].id, outbox[i].status)

(* ... and nothing else is.                                                 *)
CopiesHonest ==
    /\ \A w \in WorkOrderIds : index[w] # None => Honest(w, index[w])
    /\ \A r \in Rebuilds, w \in WorkOrderIds :
         rebuild[r].docs[w] # None => Honest(w, rebuild[r].docs[w])

SentIn(tick) == tick.unsaved \union ({tick.sent} \ {0})

(* Rows a tick still has to try are in the outbox; those it has sent have   *)
(* been indexed.                                                            *)
Rows == DOMAIN outbox

Indexed(i) == index[outbox[i].id] # None \/ outbox[i].id \in removed

TickSound(t) ==
    /\ t.batch \subseteq Rows
    /\ SentIn(t) \subseteq Rows
    /\ \A i \in SentIn(t) : Indexed(i)

TicksSound == \A p \in Publishers : TickSound(publisher[p])

IInv == DataOK /\ SourcesHonest /\ CopiesHonest /\ TicksSound /\ PublishedIsIndexed

-----------------------------------------------------------------------------
(* What every step keeps.                                                   *)

Copies == [WorkOrderIds -> Statuses \union {None}]

(* Announcements stay, and so do work orders.                               *)
TableGrows ==
    /\ \A i \in DOMAIN outbox : i \in DOMAIN outbox' /\ outbox'[i] = outbox[i]
    /\ \A w \in WorkOrderIds : status[w] # "Absent" => status'[w] # "Absent"

(* A document only goes away by being removed.                              *)
IndexKeeps ==
    \A w \in WorkOrderIds :
        index[w] # None \/ w \in removed => index'[w] # None \/ w \in removed'

LEMMA HonestStays ==
    ASSUME TableGrows, NEW w \in WorkOrderIds, NEW s, Honest(w, s)
    PROVE  Honest(w, s)'
  BY DEF TableGrows, Honest, Announced

LEMMA OutboxRows ==
    ASSUME DataOK, NEW i \in DOMAIN outbox
    PROVE  /\ i \in Nat \ {0}
           /\ outbox[i].id \in WorkOrderIds /\ outbox[i].status \in Statuses
  <1>1. outbox \in Seq(Document)
    BY DEF DataOK
  <1>2. outbox[i] \in Document /\ i \in 1 .. Len(outbox)
    BY <1>1
  <1> QED
    BY <1>1, <1>2 DEF Document

LEMMA IndexedStays ==
    ASSUME DataOK, TableGrows, IndexKeeps, NEW i \in DOMAIN outbox, Indexed(i)
    PROVE  i \in DOMAIN outbox' /\ Indexed(i)'
  <1>1. outbox[i].id \in WorkOrderIds
    BY OutboxRows
  <1> QED
    BY <1>1 DEF TableGrows, IndexKeeps, Indexed

(* Steps that leave the table alone.                                        *)
LEMMA SameTable ==
    ASSUME UNCHANGED tableVars
    PROVE  TableGrows
  BY DEF tableVars, TableGrows

LEMMA SameIndex ==
    ASSUME UNCHANGED <<index, removed>>
    PROVE  IndexKeeps
  BY DEF IndexKeeps

LEMMA StoreKeeps ==
    ASSUME DataOK, NEW w \in WorkOrderIds, NEW s \in Statuses, Store(w, s)
    PROVE  /\ IndexKeeps
           /\ index' \in Copies /\ removed' \subseteq WorkOrderIds
           /\ \A x \in WorkOrderIds : index'[x] = index[x] \/ (x = w /\ index'[x] = s)
           /\ index'[w] # None
  BY SearchAssumption DEF DataOK, Store, IndexKeeps, Copies

LEMMA StoreFailsKeeps ==
    ASSUME DataOK, NEW w \in WorkOrderIds, NEW s \in Statuses, StoreFails(w, s)
    PROVE  /\ IndexKeeps
           /\ index' \in Copies /\ removed' \subseteq WorkOrderIds
           /\ \A x \in WorkOrderIds : index'[x] = index[x] \/ (x = w /\ index'[x] = s)
  <1>1. CASE Store(w, s)
    BY <1>1, StoreKeeps
  <1>2. CASE UNCHANGED <<index, removed>>
    BY <1>2, SameIndex DEF DataOK, Copies
  <1> QED
    BY <1>1, <1>2 DEF StoreFails

LEMMA DeleteKeeps ==
    ASSUME DataOK, NEW ids \in SUBSET WorkOrderIds, Delete(ids)
    PROVE  /\ IndexKeeps
           /\ index' \in Copies /\ removed' \subseteq WorkOrderIds
           /\ \A x \in WorkOrderIds : index'[x] = index[x] \/ index'[x] = None
           /\ \A x \in WorkOrderIds \ ids : index'[x] = index[x]
  BY DEF DataOK, Delete, IndexKeeps, Copies

(* To be raced changes nothing else of a rebuild.                           *)
LEMMA RacedRebuilds ==
    ASSUME DataOK, NEW rs
    PROVE  /\ Raced(rs) \in [Rebuilds -> RebuildState]
           /\ \A r \in Rebuilds :
                /\ Raced(rs)[r].phase = rebuild[r].phase
                /\ Raced(rs)[r].org = rebuild[r].org
                /\ Raced(rs)[r].docs = rebuild[r].docs
                /\ r \notin rs => Raced(rs)[r] = rebuild[r]
                /\ r \in rs => Raced(rs)[r].raced = TRUE
  <1>1. ASSUME NEW r \in Rebuilds
        PROVE  LET b == [rebuild[r] EXCEPT !.raced = TRUE] IN
               /\ b \in RebuildState /\ b.phase = rebuild[r].phase
               /\ b.org = rebuild[r].org /\ b.docs = rebuild[r].docs /\ b.raced = TRUE
    BY DEF DataOK, RebuildState
  <1> QED
    BY <1>1 DEF DataOK, Raced

LEMMA TickUpdates ==
    ASSUME NEW t \in Tick, NEW i \in Nat
    PROVE  /\ [t EXCEPT !.batch = @ \ {i}, !.sent = i] \in Tick
           /\ [t EXCEPT !.batch = @ \ {i}] \in Tick
           /\ [t EXCEPT !.sent = 0, !.unsaved = {}] \in Tick
           /\ [t EXCEPT !.unsaved = {}] \in Tick
           /\ [t EXCEPT !.sent = 0, !.unsaved = @ \union {t.sent}] \in Tick
  BY DEF Tick

LEMMA NewTick ==
    ASSUME NEW b \in SUBSET Nat
    PROVE  NoTick \in Tick /\ [NoTick EXCEPT !.batch = b] \in Tick
  BY DEF Tick, NoTick

LEMMA RebuildUpdates ==
    ASSUME NEW b \in RebuildState, NEW docs \in Copies
    PROVE  /\ [b EXCEPT !.phase = "writing", !.docs = docs] \in RebuildState
           /\ [b EXCEPT !.phase = "writing", !.docs = docs].docs = docs
           /\ NoRebuild \in RebuildState /\ NoRebuild.docs = NoDocuments
           /\ NoDocuments \in Copies /\ \A w \in WorkOrderIds : NoDocuments[w] = None
  BY DEF RebuildState, NoRebuild, NoDocuments, Copies

-----------------------------------------------------------------------------
(* The table.                                                               *)

LEMMA AnnounceGrows ==
    ASSUME DataOK, NEW w \in WorkOrderIds, NEW s \in Statuses, Announce(w, s)
    PROVE  /\ outbox' \in Seq(Document)
           /\ \A i \in DOMAIN outbox : i \in DOMAIN outbox' /\ outbox'[i] = outbox[i]
           /\ \A i \in DOMAIN outbox' \ DOMAIN outbox : outbox'[i] = [id |-> w, status |-> s]
           /\ Announced(w, s)'
  <1> DEFINE d == [id |-> w, status |-> s]
  <1>1. d \in Document
    BY DEF Document
  <1> HIDE DEF d
  <1>2. outbox' = Append(outbox, d) /\ outbox \in Seq(Document)
    BY DEF Announce, DataOK, d
  <1>3. /\ outbox' \in Seq(Document) /\ Len(outbox') = Len(outbox) + 1
        /\ outbox'[Len(outbox) + 1] = d /\ Len(outbox) \in Nat
        /\ \A i \in 1 .. Len(outbox) : outbox'[i] = outbox[i]
        /\ DOMAIN outbox = 1 .. Len(outbox) /\ DOMAIN outbox' = 1 .. Len(outbox) + 1
    BY <1>1, <1>2
  <1>4. Len(outbox) + 1 \in DOMAIN outbox'
    BY <1>3
  <1>5. Announced(w, s)'
    BY <1>3, <1>4 DEF Announced, d
  <1>6. \A i \in DOMAIN outbox' \ DOMAIN outbox : i = Len(outbox) + 1
    BY <1>3
  <1> QED
    BY <1>3, <1>5, <1>6 DEF d

(* What a change of the table leaves to be shown.                           *)
LEMMA TableKeeps ==
    ASSUME IInv, NEW w \in WorkOrderIds, TableStep(w)
    PROVE  DataOK' /\ SourcesHonest' /\ TableGrows /\ IndexKeeps
  <1> USE DEF IInv
  <1>1. CASE Create(w)
    <2>1. /\ Announce(w, "Open") /\ status' = [status EXCEPT ![w] = "Open"]
          /\ UNCHANGED <<published, publisher, index, removed>>
          /\ status[w] = "Absent"
          /\ \E rs : rebuild' = Raced(rs)
      BY <1>1 DEF Create
    <2>0. rebuild' \in [Rebuilds -> RebuildState]
      BY <2>1, RacedRebuilds
    <2>2. /\ outbox' \in Seq(Document)
          /\ \A i \in DOMAIN outbox : i \in DOMAIN outbox' /\ outbox'[i] = outbox[i]
          /\ \A i \in DOMAIN outbox' \ DOMAIN outbox : outbox'[i] = [id |-> w, status |-> "Open"]
      BY <2>1, AnnounceGrows DEF Statuses
    <2>3. DataOK'
      BY <2>0, <2>1, <2>2 DEF DataOK, Statuses
    <2>4. TableGrows
      BY <2>1, <2>2 DEF TableGrows, DataOK
    <2>5. \A x \in WorkOrderIds : (status[x] # "Absent" => Honest(x, status[x]))'
      BY <2>1, <2>4, HonestStays DEF SourcesHonest, DataOK, Honest
    <2>6. \A i \in DOMAIN outbox' : Honest(outbox[i].id, outbox[i].status)'
      <3> SUFFICES ASSUME NEW i \in DOMAIN outbox' PROVE Honest(outbox[i].id, outbox[i].status)'
        OBVIOUS
      <3>1. CASE i \in DOMAIN outbox
        BY <3>1, <2>2, <2>4, HonestStays, OutboxRows DEF SourcesHonest
      <3>2. CASE i \notin DOMAIN outbox
        BY <3>2, <2>1, <2>2 DEF Honest, DataOK
      <3> QED
        BY <3>1, <3>2
    <2> QED
      BY <2>1, <2>3, <2>4, <2>5, <2>6, SameIndex DEF SourcesHonest
  <1>2. CASE Complete(w)
    <2>1. /\ Announce(w, "Completed") /\ status' = [status EXCEPT ![w] = "Completed"]
          /\ UNCHANGED <<published, publisher, index, rebuild, removed>>
      BY <1>2 DEF Complete
    <2>2. /\ outbox' \in Seq(Document)
          /\ \A i \in DOMAIN outbox : i \in DOMAIN outbox' /\ outbox'[i] = outbox[i]
          /\ \A i \in DOMAIN outbox' \ DOMAIN outbox :
               outbox'[i] = [id |-> w, status |-> "Completed"]
          /\ Announced(w, "Completed")'
      BY <2>1, AnnounceGrows DEF Statuses
    <2>3. DataOK'
      BY <2>1, <2>2 DEF DataOK, Statuses
    <2>4. TableGrows
      BY <2>1, <2>2 DEF TableGrows, DataOK
    <2>7. Honest(w, "Completed")'
      BY <2>1, <2>2 DEF Honest, DataOK
    <2>5. \A x \in WorkOrderIds : (status[x] # "Absent" => Honest(x, status[x]))'
      BY <2>1, <2>4, <2>7, HonestStays DEF SourcesHonest, DataOK
    <2>6. \A i \in DOMAIN outbox' : Honest(outbox[i].id, outbox[i].status)'
      <3> SUFFICES ASSUME NEW i \in DOMAIN outbox' PROVE Honest(outbox[i].id, outbox[i].status)'
        OBVIOUS
      <3>1. CASE i \in DOMAIN outbox
        BY <3>1, <2>2, <2>4, HonestStays, OutboxRows DEF SourcesHonest
      <3>2. CASE i \notin DOMAIN outbox
        BY <3>2, <2>2, <2>7
      <3> QED
        BY <3>1, <3>2
    <2> QED
      BY <2>1, <2>3, <2>4, <2>5, <2>6, SameIndex DEF SourcesHonest
  <1>3. ASSUME NEW new \in Statuses, Change(w, new)
        PROVE  DataOK' /\ SourcesHonest' /\ TableGrows /\ IndexKeeps
    <2>1. /\ status' = [status EXCEPT ![w] = new] /\ new # "Completed" /\ new # "Absent"
          /\ UNCHANGED <<outbox, published, publisher, index, rebuild, removed>>
          /\ status[w] # "Absent"
      BY <1>3 DEF Change, Statuses
    <2>3. DataOK'
      BY <2>1 DEF DataOK
    <2>4. TableGrows
      BY <2>1 DEF TableGrows, DataOK
    <2>5. \A x \in WorkOrderIds : (status[x] # "Absent" => Honest(x, status[x]))'
      BY <2>1, <2>4, HonestStays DEF SourcesHonest, DataOK, Honest
    <2>6. \A i \in DOMAIN outbox' : Honest(outbox[i].id, outbox[i].status)'
      BY <2>1, <2>4, HonestStays, OutboxRows DEF SourcesHonest
    <2> QED
      BY <2>1, <2>3, <2>4, <2>5, <2>6, SameIndex DEF SourcesHonest
  <1> QED
    BY <1>1, <1>2, <1>3 DEF TableStep

-----------------------------------------------------------------------------
(* Steps that show nothing new and mark nothing that was not indexed.       *)

LEMMA TickStays ==
    ASSUME DataOK, TableGrows, IndexKeeps, NEW t, TickSound(t)
    PROVE  TickSound(t)'
  <1>1. Rows \subseteq Rows'
    BY DEF TableGrows, Rows
  <1>2. \A i \in SentIn(t) : Indexed(i)'
    BY IndexedStays DEF TickSound, Rows
  <1> QED
    BY <1>1, <1>2 DEF TickSound, SentIn

LEMMA PublishedStays ==
    ASSUME IInv, TableGrows, IndexKeeps,
           \A i \in published' \ published : i \in DOMAIN outbox /\ Indexed(i)
    PROVE  PublishedIsIndexed'
  <1>1. \A i \in published : i \in DOMAIN outbox /\ Indexed(i)
    BY DEF IInv, DataOK, PublishedIsIndexed, Indexed
  <1>2. \A i \in published' : Indexed(i)'
    BY <1>1, IndexedStays DEF IInv
  <1> QED
    BY <1>2 DEF PublishedIsIndexed, Indexed

LEMMA CopiesStay ==
    ASSUME IInv, TableGrows,
           \A w \in WorkOrderIds :
               index'[w] # None => index'[w] = index[w] \/ Honest(w, index'[w]),
           \A r \in Rebuilds, w \in WorkOrderIds :
               rebuild'[r].docs[w] # None =>
                   rebuild'[r].docs[w] = rebuild[r].docs[w] \/ Honest(w, rebuild'[r].docs[w])
    PROVE  CopiesHonest'
  <1>1. \A w \in WorkOrderIds : (index[w] # None => Honest(w, index[w]))'
    BY HonestStays DEF IInv, CopiesHonest
  <1>2. \A r \in Rebuilds, w \in WorkOrderIds :
           (rebuild[r].docs[w] # None => Honest(w, rebuild[r].docs[w]))'
    BY HonestStays DEF IInv, CopiesHonest
  <1> QED
    BY <1>1, <1>2 DEF CopiesHonest

LEMMA SourcesStay ==
    ASSUME IInv, UNCHANGED tableVars
    PROVE  SourcesHonest'
  BY DEF IInv, SourcesHonest, Honest, Announced, tableVars

LEMMA TableStepKeeps ==
    ASSUME IInv, NEW w \in WorkOrderIds, TableStep(w)
    PROVE  IInv'
  <1>1. DataOK' /\ SourcesHonest' /\ TableGrows /\ IndexKeeps
    BY TableKeeps
  <1>2. UNCHANGED <<published, publisher, index, removed>>
    BY DEF TableStep, Create, Complete, Change
  <1>6. \A r \in Rebuilds : rebuild'[r].docs = rebuild[r].docs
    <2>1. (\E rs : rebuild' = Raced(rs)) \/ UNCHANGED rebuild
      BY DEF TableStep, Create, Complete, Change
    <2> QED
      BY <2>1, RacedRebuilds DEF IInv
  <1>3. TicksSound'
    BY <1>1, <1>2, TickStays DEF IInv, TicksSound
  <1>4. PublishedIsIndexed'
    BY <1>1, <1>2, PublishedStays
  <1>5. CopiesHonest'
    BY <1>1, <1>2, <1>6, CopiesStay
  <1> QED
    BY <1>1, <1>3, <1>4, <1>5 DEF IInv

-----------------------------------------------------------------------------
(* The publisher.                                                           *)

(* One tick goes on to t.                                                   *)
LEMMA TickMoves ==
    ASSUME IInv, TableGrows, IndexKeeps, NEW p \in Publishers, NEW t \in Tick,
           publisher' = [publisher EXCEPT ![p] = t], TickSound(t)'
    PROVE  publisher' \in [Publishers -> Tick] /\ TicksSound'
  <1>1. \A o \in Publishers \ {p} : TickSound(publisher[o])'
    BY TickStays DEF IInv, TicksSound, DataOK
  <1>2. TickSound(publisher[p])'
    BY DEF IInv, DataOK
  <1> QED
    BY <1>1, <1>2 DEF IInv, DataOK, TicksSound

LEMMA RowIsHonest ==
    ASSUME IInv, NEW i \in DOMAIN outbox
    PROVE  Honest(outbox[i].id, outbox[i].status)
  BY DEF IInv, SourcesHonest

LEMMA PublisherKeeps ==
    ASSUME IInv, NEW p \in Publishers,
           PublisherStep(p) \/ MarkEventPublished(p) \/ MarkPublishedFails(p)
    PROVE  IInv'
  <1>a. publisher[p] \in Tick /\ TickSound(publisher[p])
    BY DEF IInv, DataOK, TicksSound
  <1>b. PICK t \in Tick : t = publisher[p]
    BY <1>a
  <1>0. t = publisher[p] /\ TickSound(t)
    BY <1>a, <1>b DEF TickSound
  <1>1. CASE StartTick(p)
    <2>1. DOMAIN outbox \in SUBSET Nat
      BY OutboxRows DEF IInv
    <2>2. PICK n \in Tick : n = [NoTick EXCEPT !.batch = DOMAIN outbox \ published]
      BY <2>1, NewTick
    <2>3. n.batch = DOMAIN outbox \ published /\ n.unsaved = {} /\ n.sent = 0
      BY <2>2 DEF NoTick
    <2>4. /\ publisher' = [publisher EXCEPT ![p] = n]
          /\ UNCHANGED <<tableVars, published, index, rebuild, removed>>
      BY <1>1, <2>2 DEF StartTick
    <2>5. TableGrows /\ IndexKeeps
      BY <2>4, SameTable, SameIndex
    <2>6. TickSound(n)'
      BY <2>3, <2>4 DEF TickSound, SentIn, Rows, tableVars
    <2>7. publisher' \in [Publishers -> Tick] /\ TicksSound'
      BY <2>4, <2>5, <2>6, TickMoves
    <2>8. DataOK'
      BY <2>4, <2>7 DEF IInv, DataOK, tableVars
    <2> QED
      BY <2>4, <2>5, <2>7, <2>8, SourcesStay, PublishedStays, CopiesStay DEF IInv
  <1>2. ASSUME NEW i \in DOMAIN outbox, IndexRow(p, i)
        PROVE  IInv'
    <2>1. i \in Nat \ {0} /\ outbox[i].id \in WorkOrderIds /\ outbox[i].status \in Statuses
      BY OutboxRows DEF IInv
    <2>2. PICK n \in Tick : n = [t EXCEPT !.batch = @ \ {i}, !.sent = i]
      BY <2>1, TickUpdates
    <2>3. n.batch = t.batch \ {i} /\ n.unsaved = t.unsaved /\ n.sent = i
      BY <2>2 DEF Tick
    <2>4. /\ publisher' = [publisher EXCEPT ![p] = n]
          /\ UNCHANGED <<tableVars, published, rebuild>>
          /\ Store(outbox[i].id, outbox[i].status)
      BY <1>0, <1>2, <2>2 DEF IndexRow
    <2>5. /\ IndexKeeps
          /\ index' \in Copies /\ removed' \subseteq WorkOrderIds
          /\ \A x \in WorkOrderIds :
               index'[x] = index[x] \/ (x = outbox[i].id /\ index'[x] = outbox[i].status)
          /\ index'[outbox[i].id] # None
      BY <2>1, <2>4, StoreKeeps DEF IInv
    <2>6. TableGrows
      BY <2>4, SameTable
    <2>7. Indexed(i)'
      BY <2>4, <2>5 DEF Indexed, tableVars
    <2>8. TickSound(n)'
      <3>1. \A j \in t.unsaved : j \in Rows /\ Indexed(j)
        BY <1>0 DEF TickSound, SentIn
      <3>2. \A j \in t.unsaved : j \in Rows' /\ Indexed(j)'
        BY <3>1, <2>5, <2>6, IndexedStays DEF IInv, Rows
      <3>3. t.batch \subseteq Rows' /\ i \in Rows'
        BY <1>0, <2>6 DEF TickSound, TableGrows, Rows
      <3> QED
        BY <2>3, <2>7, <3>2, <3>3 DEF TickSound, SentIn
    <2>9. publisher' \in [Publishers -> Tick] /\ TicksSound'
      BY <2>4, <2>5, <2>6, <2>8, TickMoves
    <2>10. DataOK'
      BY <2>4, <2>5, <2>9 DEF IInv, DataOK, tableVars, Copies
    <2>11. CopiesHonest'
      BY <2>4, <2>5, <2>6, CopiesStay, RowIsHonest
    <2> QED
      BY <2>4, <2>5, <2>6, <2>9, <2>10, <2>11, SourcesStay, PublishedStays DEF IInv
  <1>3. ASSUME NEW i \in DOMAIN outbox, IndexRowFails(p, i)
        PROVE  IInv'
    <2>1. i \in Nat \ {0} /\ outbox[i].id \in WorkOrderIds /\ outbox[i].status \in Statuses
      BY OutboxRows DEF IInv
    <2>2. PICK n \in Tick : n = [t EXCEPT !.batch = @ \ {i}]
      BY <2>1, TickUpdates
    <2>3. n.batch = t.batch \ {i} /\ n.unsaved = t.unsaved /\ n.sent = t.sent
      BY <2>2 DEF Tick
    <2>4. /\ publisher' = [publisher EXCEPT ![p] = n]
          /\ UNCHANGED <<tableVars, published, rebuild>>
          /\ StoreFails(outbox[i].id, outbox[i].status)
      BY <1>0, <1>3, <2>2 DEF IndexRowFails
    <2>5. /\ IndexKeeps
          /\ index' \in Copies /\ removed' \subseteq WorkOrderIds
          /\ \A x \in WorkOrderIds :
               index'[x] = index[x] \/ (x = outbox[i].id /\ index'[x] = outbox[i].status)
      BY <2>1, <2>4, StoreFailsKeeps DEF IInv
    <2>6. TableGrows
      BY <2>4, SameTable
    <2>7. TickSound(n)
      BY <1>0, <2>3 DEF TickSound, SentIn
    <2>8. TickSound(n)'
      BY <2>5, <2>6, <2>7, TickStays DEF IInv
    <2>9. publisher' \in [Publishers -> Tick] /\ TicksSound'
      BY <2>4, <2>5, <2>6, <2>8, TickMoves
    <2>10. DataOK'
      BY <2>4, <2>5, <2>9 DEF IInv, DataOK, tableVars, Copies
    <2>11. CopiesHonest'
      BY <2>4, <2>5, <2>6, CopiesStay, RowIsHonest
    <2> QED
      BY <2>4, <2>5, <2>6, <2>9, <2>10, <2>11, SourcesStay, PublishedStays DEF IInv
  <1>4. CASE MarkPublished(p)
    <2>1. PICK n \in Tick : n = [t EXCEPT !.sent = 0, !.unsaved = {}]
      BY TickUpdates
    <2>2. n.batch \subseteq t.batch /\ SentIn(n) \subseteq SentIn(t)
      BY <2>1 DEF Tick, NoTick, SentIn
    <2>3. /\ publisher' = [publisher EXCEPT ![p] = n]
          /\ UNCHANGED <<tableVars, index, rebuild, removed>>
          /\ published' \subseteq published \union SentIn(t)
      BY <1>0, <1>4, <2>1 DEF MarkPublished, SentIn
    <2>4. TableGrows /\ IndexKeeps
      BY <2>3, SameTable, SameIndex
    <2>5. TickSound(n)'
      BY <1>0, <2>2, <2>4, TickStays DEF IInv, TickSound
    <2>6. publisher' \in [Publishers -> Tick] /\ TicksSound'
      BY <2>3, <2>4, <2>5, TickMoves
    <2>7. published' \subseteq DOMAIN outbox'
      BY <1>0, <2>3 DEF IInv, DataOK, TickSound, Rows, tableVars
    <2>8. DataOK'
      BY <2>3, <2>6, <2>7 DEF IInv, DataOK, tableVars
    <2>9. PublishedIsIndexed'
      BY <1>0, <2>3, <2>4, PublishedStays DEF TickSound, Rows
    <2> QED
      BY <2>3, <2>4, <2>6, <2>8, <2>9, SourcesStay, CopiesStay DEF IInv
  <1>5. CASE MarkEventPublished(p)
    <2>1. PICK n \in Tick : n = [t EXCEPT !.unsaved = {}]
      BY TickUpdates
    <2>2. n.batch \subseteq t.batch /\ SentIn(n) \subseteq SentIn(t)
      BY <2>1 DEF Tick, NoTick, SentIn
    <2>3. /\ publisher' = [publisher EXCEPT ![p] = n]
          /\ UNCHANGED <<tableVars, index, rebuild, removed>>
          /\ published' \subseteq published \union SentIn(t)
      BY <1>0, <1>5, <2>1 DEF MarkEventPublished, SentIn
    <2>4. TableGrows /\ IndexKeeps
      BY <2>3, SameTable, SameIndex
    <2>5. TickSound(n)'
      BY <1>0, <2>2, <2>4, TickStays DEF IInv, TickSound
    <2>6. publisher' \in [Publishers -> Tick] /\ TicksSound'
      BY <2>3, <2>4, <2>5, TickMoves
    <2>7. published' \subseteq DOMAIN outbox'
      BY <1>0, <2>3 DEF IInv, DataOK, TickSound, Rows, tableVars
    <2>8. DataOK'
      BY <2>3, <2>6, <2>7 DEF IInv, DataOK, tableVars
    <2>9. PublishedIsIndexed'
      BY <1>0, <2>3, <2>4, PublishedStays DEF TickSound, Rows
    <2> QED
      BY <2>3, <2>4, <2>6, <2>8, <2>9, SourcesStay, CopiesStay DEF IInv
  <1>6. CASE MarkPublishedFails(p)
    <2>1. PICK n \in Tick : n = [t EXCEPT !.sent = 0, !.unsaved = @ \union {t.sent}]
      BY TickUpdates
    <2>2. n.batch \subseteq t.batch /\ SentIn(n) \subseteq SentIn(t)
      <3>1. t.sent # 0
        BY <1>0, <1>6 DEF MarkPublishedFails
      <3>2. n.batch = t.batch /\ n.unsaved = t.unsaved \union {t.sent} /\ n.sent = 0
        BY <2>1 DEF Tick
      <3> QED
        BY <3>1, <3>2 DEF SentIn
    <2>3. /\ publisher' = [publisher EXCEPT ![p] = n]
          /\ UNCHANGED <<tableVars, index, rebuild, removed>>
          /\ published' \subseteq published \union SentIn(t)
      BY <1>0, <1>6, <2>1 DEF MarkPublishedFails, SentIn
    <2>4. TableGrows /\ IndexKeeps
      BY <2>3, SameTable, SameIndex
    <2>5. TickSound(n)'
      BY <1>0, <2>2, <2>4, TickStays DEF IInv, TickSound
    <2>6. publisher' \in [Publishers -> Tick] /\ TicksSound'
      BY <2>3, <2>4, <2>5, TickMoves
    <2>7. published' \subseteq DOMAIN outbox'
      BY <1>0, <2>3 DEF IInv, DataOK, TickSound, Rows, tableVars
    <2>8. DataOK'
      BY <2>3, <2>6, <2>7 DEF IInv, DataOK, tableVars
    <2>9. PublishedIsIndexed'
      BY <1>0, <2>3, <2>4, PublishedStays DEF TickSound, Rows
    <2> QED
      BY <2>3, <2>4, <2>6, <2>8, <2>9, SourcesStay, CopiesStay DEF IInv
  <1>7. ASSUME NEW i \in DOMAIN outbox, IndexRowRejected(p, i)
        PROVE  IInv'
    <2>1. i \in Nat \ {0}
      BY OutboxRows DEF IInv
    <2>2. PICK n \in Tick : n = [t EXCEPT !.batch = @ \ {i}]
      BY <2>1, TickUpdates
    <2>3. n.batch \subseteq t.batch /\ SentIn(n) \subseteq SentIn(t)
      BY <2>2 DEF Tick, SentIn
    <2>4. /\ publisher' = [publisher EXCEPT ![p] = n]
          /\ UNCHANGED <<tableVars, published, index, rebuild, removed>>
      BY <1>0, <1>7, <2>2 DEF IndexRowRejected
    <2>5. TableGrows /\ IndexKeeps
      BY <2>4, SameTable, SameIndex
    <2>6. TickSound(n)'
      BY <1>0, <2>3, <2>5, TickStays DEF IInv, TickSound
    <2>7. publisher' \in [Publishers -> Tick] /\ TicksSound'
      BY <2>4, <2>5, <2>6, TickMoves
    <2>8. DataOK'
      BY <2>4, <2>7 DEF IInv, DataOK, tableVars
    <2> QED
      BY <2>4, <2>5, <2>7, <2>8, SourcesStay, PublishedStays, CopiesStay DEF IInv
  <1> QED
    BY <1>1, <1>2, <1>3, <1>4, <1>5, <1>6, <1>7 DEF PublisherStep

(* Searches, and the end of a break, touch nothing but the breaker.         *)
LEMMA SearchKeeps ==
    ASSUME IInv, NEW p \in Publishers, Search(p) \/ SearchFails(p) \/ BreakEnds(p)
    PROVE  IInv'
  <1>1. /\ UNCHANGED <<tableVars, published, publisher, index, rebuild, removed>>
    BY DEF Search, SearchFails, BreakEnds
  <1>2. TableGrows /\ IndexKeeps
    BY <1>1, SameTable, SameIndex
  <1>3. DataOK'
    BY <1>1 DEF IInv, DataOK, tableVars
  <1>4. TicksSound'
    BY <1>1, <1>2, TickStays DEF IInv, TicksSound
  <1> QED
    BY <1>1, <1>2, <1>3, <1>4, SourcesStay, PublishedStays, CopiesStay DEF IInv

(* A process that stops forgets; it shows and marks nothing.                *)
LEMMA StopKeeps ==
    ASSUME IInv, NEW p \in Publishers, ProcessStops(p)
    PROVE  IInv'
  <1>1. /\ publisher' = [publisher EXCEPT ![p] = NoTick]
        /\ rebuild' = [r \in Rebuilds |-> IF ProcessOf[r] = p THEN NoRebuild ELSE rebuild[r]]
        /\ UNCHANGED <<tableVars, published, index, removed>>
    BY DEF ProcessStops
  <1>2. TableGrows /\ IndexKeeps
    BY <1>1, SameTable, SameIndex
  <1>3. PICK n \in Tick : n = NoTick
    BY NewTick
  <1>4. TickSound(n)'
    <2>1. n.batch = {} /\ SentIn(n) = {}
      BY <1>3 DEF NoTick, SentIn
    <2> QED
      BY <2>1 DEF TickSound, SentIn
  <1>5. publisher' \in [Publishers -> Tick] /\ TicksSound'
    BY <1>1, <1>2, <1>3, <1>4, TickMoves
  <1>6. NoRebuild \in RebuildState /\ \A w \in WorkOrderIds : NoRebuild.docs[w] = None
    BY DEF RebuildState, NoRebuild, NoDocuments
  <1>7. rebuild' \in [Rebuilds -> RebuildState]
    BY <1>1, <1>6 DEF IInv, DataOK
  <1>8. \A r \in Rebuilds, w \in WorkOrderIds :
           rebuild'[r].docs[w] # None => rebuild'[r].docs[w] = rebuild[r].docs[w]
    BY <1>1, <1>6 DEF IInv, DataOK
  <1>9. DataOK'
    BY <1>1, <1>5, <1>7 DEF IInv, DataOK, tableVars
  <1> QED
    BY <1>1, <1>2, <1>5, <1>8, <1>9, SourcesStay, PublishedStays, CopiesStay DEF IInv

-----------------------------------------------------------------------------
(* Rebuilds.                                                                *)

LEMMA RebuildsMove ==
    ASSUME IInv, IndexKeeps, UNCHANGED <<tableVars, published, publisher>>,
           rebuild' \in [Rebuilds -> RebuildState],
           index' \in Copies, removed' \subseteq WorkOrderIds,
           \A w \in WorkOrderIds :
               index'[w] # None => index'[w] = index[w] \/ Honest(w, index'[w]),
           \A o \in Rebuilds, w \in WorkOrderIds :
               rebuild'[o].docs[w] # None =>
                   rebuild'[o].docs[w] = rebuild[o].docs[w] \/ Honest(w, rebuild'[o].docs[w])
    PROVE  IInv'
  <1>1. TableGrows
    BY SameTable
  <1>2. DataOK'
    BY DEF IInv, DataOK, tableVars, Copies
  <1>3. CopiesHonest'
    BY <1>1, CopiesStay
  <1>4. TicksSound'
    BY <1>1, TickStays DEF IInv, TicksSound
  <1>5. PublishedIsIndexed'
    BY <1>1, PublishedStays
  <1> QED
    BY <1>2, <1>3, <1>4, <1>5, SourcesStay DEF IInv

(* A rebuild goes on to b.                                                  *)
LEMMA RebuildMoves ==
    ASSUME IInv, IndexKeeps, UNCHANGED <<tableVars, published, publisher>>,
           NEW r \in Rebuilds, NEW b \in RebuildState, rebuild' = [rebuild EXCEPT ![r] = b],
           index' \in Copies, removed' \subseteq WorkOrderIds,
           \A w \in WorkOrderIds :
               index'[w] # None => index'[w] = index[w] \/ Honest(w, index'[w]),
           \A w \in WorkOrderIds :
               b.docs[w] # None => b.docs[w] = rebuild[r].docs[w] \/ Honest(w, b.docs[w])
    PROVE  IInv'
  <1>1. rebuild' \in [Rebuilds -> RebuildState]
    BY DEF IInv, DataOK
  <1>2. \A o \in Rebuilds, w \in WorkOrderIds :
           rebuild'[o].docs[w] # None =>
               rebuild'[o].docs[w] = rebuild[o].docs[w] \/ Honest(w, rebuild'[o].docs[w])
    BY DEF IInv, DataOK
  <1> QED
    BY <1>1, <1>2, RebuildsMove

(* The documents a rebuild goes on with are in the state it goes on to.     *)
LEMMA ContinueMoves ==
    ASSUME DataOK, NEW r \in Rebuilds, NEW docs \in Copies, Continue(r, docs)
    PROVE  \E b \in RebuildState :
               /\ rebuild' = [rebuild EXCEPT ![r] = b] /\ b.docs = docs
               /\ b.phase # "clearing"
  <1>1. rebuild[r] \in RebuildState
    BY DEF DataOK
  <1>2. CASE docs = NoDocuments
    <2>1. rebuild' = [rebuild EXCEPT ![r] = NoRebuild]
      BY <1>2 DEF Continue
    <2>2. NoRebuild \in RebuildState /\ NoRebuild.docs = docs /\ NoRebuild.phase # "clearing"
      BY <1>1, <1>2, RebuildUpdates DEF NoRebuild
    <2> QED
      BY <2>1, <2>2
  <1>3. CASE docs # NoDocuments
    <2> DEFINE b == [rebuild[r] EXCEPT !.phase = "writing", !.docs = docs]
    <2>1. rebuild' = [rebuild EXCEPT ![r] = b]
      BY <1>3 DEF Continue
    <2>2. b \in RebuildState /\ b.docs = docs /\ b.phase = "writing"
      BY <1>1, RebuildUpdates DEF RebuildState
    <2> QED
      BY <2>1, <2>2
  <1> QED
    BY <1>2, <1>3

LEMMA RebuildKeeps ==
    ASSUME IInv, NEW r \in Rebuilds, RebuildStep(r)
    PROVE  IInv'
  <1>0. /\ rebuild[r] \in RebuildState /\ rebuild[r].docs \in Copies
        /\ rebuild[r].org \in Organizations \union {None}
        /\ index \in Copies /\ removed \subseteq WorkOrderIds
        /\ \A w \in WorkOrderIds : rebuild[r].docs[w] # None => Honest(w, rebuild[r].docs[w])
    BY DEF IInv, DataOK, CopiesHonest, RebuildState, Copies
  <1>a. NoRebuild \in RebuildState /\ \A w \in WorkOrderIds : NoRebuild.docs[w] = None
    BY <1>0, RebuildUpdates
  <1>1. ASSUME NEW org \in Organizations, ReadTable(r, org)
        PROVE  IInv'
    <2>1. Snapshot(org) \in Copies
      BY DEF IInv, DataOK, Snapshot, Copies
    <2>2. PICK rs : rebuild' = [Raced(rs) EXCEPT ![r] = [phase |-> "clearing", org |-> org,
                                                         docs |-> Snapshot(org), raced |-> rs # {}]]
      BY <1>1 DEF ReadTable
    <2>3. PICK n : n = [phase |-> "clearing", org |-> org, docs |-> Snapshot(org), raced |-> rs # {}]
      OBVIOUS
    <2>4. n \in RebuildState /\ n.docs = Snapshot(org)
      BY <2>1, <2>3 DEF RebuildState, Copies
    <2>5. \A w \in WorkOrderIds : Snapshot(org)[w] # None => Honest(w, Snapshot(org)[w])
      BY DEF Snapshot, IInv, SourcesHonest
    <2>6. /\ rebuild' \in [Rebuilds -> RebuildState] /\ rebuild'[r] = n
          /\ \A o \in Rebuilds \ {r} : rebuild'[o].docs = rebuild[o].docs
      BY <2>2, <2>3, <2>4, RacedRebuilds DEF IInv
    <2>7. UNCHANGED <<tableVars, published, publisher, index, removed>>
      BY <1>1 DEF ReadTable
    <2>8. \A o \in Rebuilds, w \in WorkOrderIds :
            rebuild'[o].docs[w] # None =>
              rebuild'[o].docs[w] = rebuild[o].docs[w] \/ Honest(w, rebuild'[o].docs[w])
      BY <2>4, <2>5, <2>6
    <2> QED
      BY <1>0, <2>6, <2>7, <2>8, SameIndex, RebuildsMove
  <1>2. CASE Clear(r)
    <2>1. Continue(r, rebuild[r].docs) /\ Delete(OfOrg(rebuild[r].org))
          /\ UNCHANGED <<tableVars, published, publisher>>
      BY <1>2 DEF Clear
    <2>2. PICK b \in RebuildState : rebuild' = [rebuild EXCEPT ![r] = b] /\ b.docs = rebuild[r].docs
      BY <1>0, <2>1, ContinueMoves DEF IInv
    <2>3. OfOrg(rebuild[r].org) \in SUBSET WorkOrderIds
      BY DEF OfOrg
    <2>4. /\ IndexKeeps /\ index' \in Copies /\ removed' \subseteq WorkOrderIds
          /\ \A x \in WorkOrderIds : index'[x] = index[x] \/ index'[x] = None
      BY <2>1, <2>3, DeleteKeeps DEF IInv
    <2> QED
      BY <2>1, <2>2, <2>4, RebuildMoves
  <1>3. CASE ClearFails(r)
    <2>1. PICK ids \in SUBSET OfOrg(rebuild[r].org) : Delete(ids)
      BY <1>3 DEF ClearFails
    <2>2. /\ rebuild' = [rebuild EXCEPT ![r] = NoRebuild]
          /\ UNCHANGED <<tableVars, published, publisher>>
      BY <1>3 DEF ClearFails, Abort
    <2>3. ids \in SUBSET WorkOrderIds
      BY DEF OfOrg
    <2>4. /\ IndexKeeps /\ index' \in Copies /\ removed' \subseteq WorkOrderIds
          /\ \A x \in WorkOrderIds : index'[x] = index[x] \/ index'[x] = None
      BY <2>1, <2>3, DeleteKeeps DEF IInv
    <2> QED
      BY <1>a, <2>2, <2>4, RebuildMoves
  <1>4. ASSUME NEW w \in WorkOrderIds, Write(r, w)
        PROVE  IInv'
    <2>1. /\ Continue(r, [rebuild[r].docs EXCEPT ![w] = None])
          /\ Store(w, rebuild[r].docs[w]) /\ rebuild[r].docs[w] # None
          /\ UNCHANGED <<tableVars, published, publisher>>
      BY <1>4 DEF Write
    <2>2. rebuild[r].docs[w] \in Statuses /\ [rebuild[r].docs EXCEPT ![w] = None] \in Copies
      BY <1>0, <2>1 DEF Copies
    <2>3. PICK b \in RebuildState :
             rebuild' = [rebuild EXCEPT ![r] = b] /\ b.docs = [rebuild[r].docs EXCEPT ![w] = None]
      BY <2>1, <2>2, ContinueMoves DEF IInv
    <2>4. \A x \in WorkOrderIds : b.docs[x] # None => b.docs[x] = rebuild[r].docs[x]
      BY <1>0, <2>3 DEF Copies
    <2>5. /\ IndexKeeps /\ index' \in Copies /\ removed' \subseteq WorkOrderIds
          /\ \A x \in WorkOrderIds :
               index'[x] = index[x] \/ (x = w /\ index'[x] = rebuild[r].docs[w])
      BY <2>1, <2>2, StoreKeeps DEF IInv
    <2>6. Honest(w, rebuild[r].docs[w])
      BY <1>0, <2>1
    <2>7. \A x \in WorkOrderIds :
            index'[x] # None => index'[x] = index[x] \/ Honest(x, index'[x])
      BY <2>5, <2>6
    <2>8. \A x \in WorkOrderIds :
            b.docs[x] # None => b.docs[x] = rebuild[r].docs[x] \/ Honest(x, b.docs[x])
      BY <2>4
    <2>9. /\ UNCHANGED <<tableVars, published, publisher>>
          /\ rebuild' = [rebuild EXCEPT ![r] = b]
          /\ IndexKeeps /\ index' \in Copies /\ removed' \subseteq WorkOrderIds
      BY <2>1, <2>3, <2>5
    <2> QED
      BY <2>7, <2>8, <2>9, RebuildMoves
  <1>5. ASSUME NEW w \in WorkOrderIds, WriteFails(r, w)
        PROVE  IInv'
    <2>1. /\ rebuild' = [rebuild EXCEPT ![r] = NoRebuild]
          /\ StoreFails(w, rebuild[r].docs[w]) /\ rebuild[r].docs[w] # None
          /\ UNCHANGED <<tableVars, published, publisher>>
      BY <1>5 DEF WriteFails, Abort
    <2>2. rebuild[r].docs[w] \in Statuses
      BY <1>0, <2>1 DEF Copies
    <2>3. /\ IndexKeeps /\ index' \in Copies /\ removed' \subseteq WorkOrderIds
          /\ \A x \in WorkOrderIds :
               index'[x] = index[x] \/ (x = w /\ index'[x] = rebuild[r].docs[w])
      BY <2>1, <2>2, StoreFailsKeeps DEF IInv
    <2>4. Honest(w, rebuild[r].docs[w])
      BY <1>0, <2>1
    <2> QED
      BY <1>a, <2>1, <2>3, <2>4, RebuildMoves
  <1>6. CASE RebuildRejected(r)
    <2>1. /\ rebuild' = [rebuild EXCEPT ![r] = NoRebuild]
          /\ UNCHANGED <<tableVars, published, publisher, index, removed>>
      BY <1>6 DEF RebuildRejected, Abort
    <2>2. IndexKeeps
      BY <2>1, SameIndex
    <2> QED
      BY <1>0, <1>a, <2>1, <2>2, RebuildMoves
  <1> QED
    BY <1>1, <1>2, <1>3, <1>4, <1>5, <1>6 DEF RebuildStep

LEMMA LossKeeps ==
    ASSUME IInv, LoseIndex
    PROVE  IInv'
  <1>1. /\ Delete(WorkOrderIds) /\ rebuild' = Raced(InFlight)
        /\ UNCHANGED <<tableVars, published, publisher>>
    BY DEF LoseIndex
  <1>2. /\ IndexKeeps /\ index' \in Copies /\ removed' \subseteq WorkOrderIds
        /\ \A x \in WorkOrderIds : index'[x] = index[x] \/ index'[x] = None
    BY <1>1, DeleteKeeps DEF IInv
  <1>3. /\ rebuild' \in [Rebuilds -> RebuildState]
        /\ \A r \in Rebuilds : rebuild'[r].docs = rebuild[r].docs
    BY <1>1, RacedRebuilds DEF IInv
  <1> QED
    BY <1>1, <1>2, <1>3, RebuildsMove

-----------------------------------------------------------------------------
(* The theorems.                                                            *)

LEMMA InitIInv ==
    ASSUME Init
    PROVE  IInv
  <1>1. NoTick \in Tick /\ SentIn(NoTick) = {} /\ NoTick.batch = {}
    BY DEF Tick, NoTick, SentIn
  <1>2. NoRebuild \in RebuildState /\ NoDocuments \in Copies
        /\ \A w \in WorkOrderIds : NoRebuild.docs[w] = None /\ NoDocuments[w] = None
    BY DEF RebuildState, NoRebuild, NoDocuments, Copies
  <1>3. outbox = <<>> /\ outbox \in Seq(Document) /\ DOMAIN outbox = {}
    BY DEF Init
  <1>4. DataOK
    BY <1>1, <1>2, <1>3, SearchAssumption DEF Init, DataOK, Copies
  <1>5. SourcesHonest /\ CopiesHonest
    BY <1>2, <1>3 DEF Init, SourcesHonest, CopiesHonest
  <1>6. TicksSound /\ PublishedIsIndexed
    BY <1>1 DEF Init, TicksSound, TickSound, PublishedIsIndexed
  <1> QED
    BY <1>4, <1>5, <1>6 DEF IInv

LEMMA StutterKeeps ==
    ASSUME IInv, UNCHANGED vars
    PROVE  IInv'
  BY DEF IInv, vars, tableVars, DataOK, SourcesHonest, CopiesHonest, TicksSound, TickSound, SentIn,
         Rows, Indexed, Honest, Announced, PublishedIsIndexed

THEOREM Inductive == Spec => []IInv
  <1>1. Init => IInv
    BY InitIInv
  <1>2. IInv /\ [Next]_vars => IInv'
    <2> SUFFICES ASSUME IInv, [Next]_vars PROVE IInv'
      OBVIOUS
    <2> QED
      BY TableStepKeeps, PublisherKeeps, SearchKeeps, StopKeeps, RebuildKeeps, LossKeeps,
         StutterKeeps DEF Next, ProcessStep
  <1> QED
    BY <1>1, <1>2, PTL DEF Spec

(* A call moves the breaker of its own process from one state to another.   *)
LEMMA BreakerMoves ==
    ASSUME BreakersOK, NEW p \in Publishers, Fails(p) \/ Succeeds(p)
    PROVE  BreakersOK'
  BY DEF BreakersOK, Fails, AfterFailure, Succeeds, BreakerStates

LEMMA BreakersKeep ==
    ASSUME BreakersOK, [Next]_vars
    PROVE  BreakersOK'
  <1>1. ASSUME NEW w \in WorkOrderIds, TableStep(w) PROVE BreakersOK'
    BY <1>1 DEF TableStep, Create, Complete, Change, BreakersOK
  <1>2. ASSUME NEW p \in Publishers, PublisherStep(p) PROVE BreakersOK'
    <2>1. UNCHANGED breaker \/ Fails(p) \/ Succeeds(p)
      BY <1>2 DEF PublisherStep, StartTick, MarkPublished, IndexRow, IndexRowFails,
             IndexRowRejected
    <2> QED
      BY <2>1, BreakerMoves DEF BreakersOK
  <1>3. ASSUME NEW p \in Publishers, ProcessStep(p) PROVE BreakersOK'
    <2>1. CASE UNCHANGED breaker \/ Fails(p) \/ Succeeds(p)
      BY <2>1, BreakerMoves DEF BreakersOK
    <2>2. CASE \E state \in BreakerStates : breaker' = [breaker EXCEPT ![p] = state]
      BY <2>2 DEF BreakersOK
    <2> QED
      BY <1>3, <2>1, <2>2 DEF ProcessStep, MarkEventPublished, MarkPublishedFails, ProcessStops,
             Search, SearchFails, BreakEnds, BreakerStates
  <1>4. ASSUME NEW r \in Rebuilds, RebuildStep(r) PROVE BreakersOK'
    <2>1. UNCHANGED breaker \/ Fails(ProcessOf[r]) \/ Succeeds(ProcessOf[r])
      BY <1>4 DEF RebuildStep, ReadTable, Clear, ClearFails, Write, WriteFails, RebuildRejected,
             FailsOrCancelled
    <2>2. ProcessOf[r] \in Publishers
      BY SearchAssumption
    <2> QED
      BY <2>1, <2>2, BreakerMoves DEF BreakersOK
  <1>5. ASSUME LoseIndex \/ UNCHANGED vars PROVE BreakersOK'
    BY <1>5 DEF LoseIndex, vars, BreakersOK
  <1> QED
    BY <1>1, <1>2, <1>3, <1>4, <1>5 DEF Next

LEMMA ObserversKeep ==
    ASSUME ObserversOK, [Next]_vars
    PROVE  ObserversOK'
  <1>1. faults' \in 0 .. MaxFaults
    <2>1. UNCHANGED faults \/ (faults < MaxFaults /\ faults' = faults + 1)
      BY Zenon DEF Next, TableStep, Create, Complete, Change, Request,
         PublisherStep, StartTick, MarkPublished, IndexRow, IndexRowFails, IndexRowRejected,
         ProcessStep, MarkEventPublished, MarkPublishedFails, ProcessStops, Search, SearchFails,
         BreakEnds, RebuildStep, ReadTable, Clear, ClearFails, Write, WriteFails, RebuildRejected,
         LoseIndex, Fault, NoFault, vars
    <2> QED
      BY <2>1, SearchAssumption DEF ObserversOK
  <1>2. calm' \in BOOLEAN
    BY Zenon DEF ObserversOK, Next, TableStep, Create, Complete, Change, Request,
       PublisherStep, StartTick, MarkPublished, IndexRow, IndexRowFails, IndexRowRejected,
       ProcessStep, MarkEventPublished, MarkPublishedFails, ProcessStops, Search, SearchFails,
       BreakEnds, RebuildStep, ReadTable, Clear, ClearFails, Write, WriteFails, RebuildRejected,
       LoseIndex, Fault, NoFault, vars
  <1> QED
    BY <1>1, <1>2 DEF ObserversOK

(* Every variable has its type, for any number of work orders, publishers   *)
(* and rebuilds and any bounds.                                             *)
THEOREM TypeCorrect == Spec => []TypeOK
  <1>1. Init => BreakersOK
    BY DEF Init, BreakersOK, BreakerStates
  <1>2. BreakersOK /\ [Next]_vars => BreakersOK'
    BY BreakersKeep
  <1>3. DataOK /\ BreakersOK /\ ObserversOK => TypeOK
    BY DEF DataOK, BreakersOK, ObserversOK, TypeOK
  <1>4. Init => ObserversOK
    BY SearchAssumption DEF Init, ObserversOK
  <1> QED
    BY <1>1, <1>2, <1>3, <1>4, ObserversKeep, Inductive, PTL DEF Spec, IInv

(* A row is only marked published after its document was indexed, and the   *)
(* document is there unless something deleted it.                           *)
THEOREM MarksAreIndexed == Spec => []PublishedIsIndexed
  BY Inductive, PTL DEF IInv

(* Searches find only work orders that exist, and no completion that was    *)
(* not announced, whatever is retried, rebuilt or lost.                     *)
THEOREM SearchesAreHonest == Spec => []ShowsWhatHappened
  <1>1. IInv => ShowsWhatHappened
    BY DEF IInv, CopiesHonest, Honest, ShowsWhatHappened
  <1> QED
    BY <1>1, Inductive, PTL

(* Only a rebuild's own steps and its process's stop take it from one phase *)
(* to another.                                                              *)
LEMMA PhaseMoves ==
    ASSUME IInv, [Next]_vars, NEW r \in Rebuilds, rebuild'[r].phase # rebuild[r].phase
    PROVE  RebuildStep(r) \/ ProcessStops(ProcessOf[r])
  <1>1. ASSUME NEW rs, rebuild' = Raced(rs) PROVE FALSE
    BY <1>1, RacedRebuilds DEF IInv
  <1>2. ASSUME NEW o \in Rebuilds, RebuildStep(o) PROVE o = r
    <2>1. CASE \E org \in Organizations : ReadTable(o, org)
      <3>1. PICK rs, b : rebuild' = [Raced(rs) EXCEPT ![o] = b]
        BY <2>1 DEF ReadTable
      <3> QED
        BY <3>1, RacedRebuilds DEF IInv
    <2>2. CASE ~\E org \in Organizations : ReadTable(o, org)
      <3>1. PICK b : rebuild' = [rebuild EXCEPT ![o] = b]
        BY <1>2, <2>2 DEF RebuildStep, Clear, ClearFails, Write, WriteFails, RebuildRejected,
               Continue, Abort
      <3> QED
        BY <3>1 DEF IInv, DataOK
    <2> QED
      BY <2>1, <2>2
  <1>3. ASSUME NEW p \in Publishers, ProcessStops(p) PROVE p = ProcessOf[r]
    BY <1>3 DEF ProcessStops
  <1>4. ~UNCHANGED rebuild
    OBVIOUS
  <1>5. ~LoseIndex /\ \A w \in WorkOrderIds : ~TableStep(w)
    BY <1>1, <1>4 DEF LoseIndex, TableStep, Create, Complete, Change
  <1>6. \A p \in Publishers : ~PublisherStep(p) /\ (ProcessStep(p) => ProcessStops(p))
    BY <1>4 DEF PublisherStep, StartTick, MarkPublished, IndexRow, IndexRowFails, IndexRowRejected,
           ProcessStep, MarkEventPublished, MarkPublishedFails, Search, SearchFails, BreakEnds
  <1>7. Next
    BY <1>4 DEF vars
  <1> QED
    BY <1>2, <1>3, <1>5, <1>6, <1>7 DEF Next

(* A rebuild deletes documents of its own organization only.                *)
THEOREM RebuildsAreLocal == Spec => RebuildsStayHome
  <1> DEFINE Local == \A r \in Rebuilds : rebuild[r].phase = "clearing" /\ rebuild'[r].phase # "clearing" =>
                        \A w \in WorkOrderIds : OrgOf[w] # rebuild[r].org => index'[w] = index[w]
  <1>1. IInv /\ [Next]_vars => [Local]_vars
    <2> SUFFICES ASSUME IInv, [Next]_vars, NEW r \in Rebuilds, NEW w \in WorkOrderIds,
                        rebuild[r].phase = "clearing", rebuild'[r].phase # "clearing",
                        OrgOf[w] # rebuild[r].org
                 PROVE  index'[w] = index[w]
      OBVIOUS
    <2>1. RebuildStep(r) \/ ProcessStops(ProcessOf[r])
      BY PhaseMoves
    <2>2. CASE ProcessStops(ProcessOf[r]) \/ RebuildRejected(r)
      BY <2>2 DEF ProcessStops, RebuildRejected
    <2>3. CASE RebuildStep(r) /\ ~RebuildRejected(r)
      <3>1. Clear(r) \/ ClearFails(r)
        BY <2>3 DEF RebuildStep, ReadTable, Write, WriteFails
      <3>2. PICK ids \in SUBSET OfOrg(rebuild[r].org) : Delete(ids)
        BY <3>1 DEF Clear, ClearFails
      <3>3. ids \in SUBSET WorkOrderIds /\ w \notin ids
        BY DEF OfOrg
      <3> QED
        BY <3>2, <3>3, DeleteKeeps DEF IInv
    <2> QED
      BY <2>1, <2>2, <2>3
  <1> QED
    BY <1>1, Inductive, PTL DEF Spec, RebuildsStayHome
=============================================================================
