--------------------------- MODULE SearchCalm_proofs ---------------------------
(***************************************************************************)
(* What SearchIndex promises when nothing gets in the way: an unraced       *)
(* rebuild re-adds all, with any number of publishers and rebuilds; in      *)
(* calm, with one publisher, completions are shown.                         *)
(***************************************************************************)
EXTENDS SearchIndex_proofs

-----------------------------------------------------------------------------
(* The steps of a rebuild.                                                  *)

(* A rebuild stays where it is; it may become raced.                        *)
Stays(r) ==
    /\ rebuild'[r].phase = rebuild[r].phase
    /\ rebuild'[r].org = rebuild[r].org
    /\ rebuild'[r].docs = rebuild[r].docs
    /\ rebuild[r].raced => rebuild'[r].raced

LEMMA RacedStays ==
    ASSUME DataOK, NEW rs, rebuild' = Raced(rs), NEW r \in Rebuilds
    PROVE  Stays(r) /\ (r \in rs => rebuild'[r].raced)
<1>1. CASE r \in rs
  BY <1>1, RacedRebuilds, Zenon DEF Stays
<1>2. CASE r \notin rs
  BY <1>2, RacedRebuilds, Zenon DEF Stays
<1>3. QED
  BY <1>1, <1>2

(* What a rebuild goes on to.                                               *)
LEMMA ContinueGoes ==
    ASSUME DataOK, NEW r \in Rebuilds, NEW docs \in Copies, Continue(r, docs)
    PROVE  /\ rebuild'[r].docs = docs
           /\ rebuild'[r].phase = IF docs = NoDocuments THEN "idle" ELSE "writing"
           /\ docs # NoDocuments => rebuild'[r].org = rebuild[r].org
           /\ docs # NoDocuments /\ rebuild[r].raced => rebuild'[r].raced
           /\ \A o \in Rebuilds \ {r} : rebuild'[o] = rebuild[o]
<1>1. rebuild[r] \in RebuildState
  BY DEF DataOK
<1>2. CASE docs = NoDocuments
  <2>1. rebuild' = [rebuild EXCEPT ![r] = NoRebuild]
    BY <1>2 DEF Continue
  <2>2. QED
    BY <1>2, <2>1 DEF DataOK, NoRebuild
<1>3. CASE docs # NoDocuments
  <2>1. PICK b : b = [rebuild[r] EXCEPT !.phase = "writing", !.docs = docs]
    OBVIOUS
  <2>2. /\ b.docs = docs /\ b.phase = "writing" /\ b.org = rebuild[r].org
        /\ b.raced = rebuild[r].raced
    BY <1>1, <2>1 DEF RebuildState
  <2>3. rebuild' = [rebuild EXCEPT ![r] = b]
    BY <1>3, <2>1 DEF Continue
  <2>4. rebuild'[r] = b /\ \A o \in Rebuilds \ {r} : rebuild'[o] = rebuild[o]
    BY <2>3 DEF DataOK
  <2>5. QED
    BY <1>3, <2>2, <2>4
<1>4. QED
  BY <1>2, <1>3

LEMMA ReadTableReads ==
    ASSUME DataOK, NEW r \in Rebuilds, NEW org \in Organizations, ReadTable(r, org)
    PROVE  /\ rebuild'[r].phase = "clearing" /\ rebuild'[r].org = org
           /\ rebuild'[r].docs = Snapshot(org)
           /\ \A o \in Rebuilds \ {r} : Stays(o)
           /\ \A o \in InFlight : rebuild[o].org = org => rebuild'[o].raced /\ rebuild'[r].raced
<1> DEFINE others == {o \in InFlight : rebuild[o].org = org}
<1>1. PICK b : b = [phase |-> "clearing", org |-> org, docs |-> Snapshot(org),
                    raced |-> others # {}]
  OBVIOUS
<1>2. /\ b.phase = "clearing" /\ b.org = org /\ b.docs = Snapshot(org)
      /\ b.raced <=> others # {}
  BY <1>1
<1>3. rebuild' = [Raced(others) EXCEPT ![r] = b]
  BY <1>1 DEF ReadTable
<1>4. r \notin others /\ others \subseteq Rebuilds
  BY DEF ReadTable, InFlight
<1>5. /\ rebuild'[r] = b
      /\ \A o \in Rebuilds \ {r} : rebuild'[o] = Raced(others)[o]
  BY <1>3, RacedRebuilds
<1>6. \A o \in Rebuilds \ {r} : Stays(o) /\ (o \in others => rebuild'[o].raced)
  <2>1. ASSUME NEW o \in Rebuilds \ {r}
        PROVE  Stays(o) /\ (o \in others => rebuild'[o].raced)
    <3>1. CASE o \in others
      <4>1. /\ Raced(others)[o].phase = rebuild[o].phase /\ Raced(others)[o].org = rebuild[o].org
            /\ Raced(others)[o].docs = rebuild[o].docs /\ Raced(others)[o].raced = TRUE
        BY <3>1, RacedRebuilds
      <4>2. rebuild'[o] = Raced(others)[o]
        BY <1>5
      <4>3. QED
        BY <4>1, <4>2, Zenon DEF Stays
    <3>2. CASE o \notin others
      BY <1>5, <3>2, RacedRebuilds, Zenon DEF Stays
    <3>3. QED
      BY <3>1, <3>2
  <2>2. QED
    BY <2>1
<1>7. \A o \in others : rebuild'[o].raced /\ rebuild'[r].raced
  BY <1>2, <1>4, <1>5, <1>6
<1>8. QED
  BY <1>2, <1>5, <1>6, <1>7

-----------------------------------------------------------------------------
(* What a rebuild deletes it writes again.                                  *)

(* Two rebuilds of one organization know of each other.                     *)
Apart ==
    \A r, o \in InFlight : r # o /\ rebuild[r].org = rebuild[o].org => rebuild[r].raced

(* Before its delete, an unraced rebuild has its whole organization...      *)
Whole ==
    \A r \in Rebuilds, w \in WorkOrderIds :
        rebuild[r].phase = "clearing" /\ ~rebuild[r].raced
            /\ OrgOf[w] = rebuild[r].org /\ status[w] # "Absent" => rebuild[r].docs[w] # None

(* ... and afterwards whatever has no document any more.                    *)
Returning ==
    \A r \in Rebuilds, w \in removed :
        rebuild[r].phase = "writing" /\ ~rebuild[r].raced /\ OrgOf[w] = rebuild[r].org =>
            rebuild[r].docs[w] # None

RemovedExist == \A w \in removed : status[w] # "Absent"

UnracedInv == Apart /\ Whole /\ Returning /\ RemovedExist

Bystander(r, w) == rebuild'[r] = NoRebuild \/ rebuild'[r].raced \/ rebuild[r].org # OrgOf[w]

(* Rebuilds stay or end, and those that what is new concerns are raced.     *)
LEMMA UnracedStays ==
    ASSUME IInv, UnracedInv, TableGrows,
           \A r \in Rebuilds : Stays(r) \/ rebuild'[r] = NoRebuild,
           \A w \in WorkOrderIds : status'[w] # "Absent" =>
               \/ status[w] # "Absent"
               \/ \A r \in Rebuilds : rebuild[r].phase = "clearing" => Bystander(r, w),
           \A w \in removed' : w \in removed
               \/ (/\ w \in WorkOrderIds /\ status[w] # "Absent"
                   /\ \A r \in Rebuilds : rebuild[r].phase = "writing" => Bystander(r, w))
    PROVE  UnracedInv'
<1>1. NoRebuild.phase = "idle"
  BY DEF NoRebuild
<1>2. Apart'
  BY <1>1 DEF UnracedInv, Apart, InFlight, Stays
<1>3. Whole'
  BY <1>1 DEF UnracedInv, Whole, Stays, Bystander
<1>4. removed \subseteq WorkOrderIds
  BY DEF IInv, DataOK
<1>5. Returning'
  BY <1>1 DEF UnracedInv, Returning, Stays, Bystander
<1>6. RemovedExist'
  BY <1>4 DEF UnracedInv, RemovedExist, TableGrows
<1>7. QED
  BY <1>2, <1>3, <1>5, <1>6 DEF UnracedInv

LEMMA TableStepUnraced ==
    ASSUME IInv, UnracedInv, NEW w \in WorkOrderIds, TableStep(w)
    PROVE  UnracedInv'
<1>1. TableGrows /\ removed' = removed
  BY TableKeeps DEF TableStep, Create, Complete, Change
<1>2. CASE Create(w)
  <2>1. PICK rs : /\ rebuild' = Raced(rs)
                  /\ rs = {r \in Rebuilds : rebuild[r].phase = "clearing" /\ rebuild[r].org = OrgOf[w]}
    BY <1>2 DEF Create
  <2>2. \A r \in Rebuilds : Stays(r) /\ (r \in rs => rebuild'[r].raced)
    BY <2>1, RacedStays DEF IInv
  <2>3. \A r \in Rebuilds : rebuild[r].phase = "clearing" => Bystander(r, w)
    BY <2>1, <2>2 DEF Bystander
  <2>4. status' = [status EXCEPT ![w] = "Open"]
    BY <1>2 DEF Create
  <2>5. \A x \in WorkOrderIds : x # w => status'[x] = status[x]
    BY <2>4 DEF IInv, DataOK
  <2>6. QED
    BY <1>1, <2>2, <2>3, <2>5, UnracedStays
<1>3. CASE ~Create(w)
  <2>1. rebuild' = rebuild /\ status[w] # "Absent" /\ \E s : status' = [status EXCEPT ![w] = s]
    BY <1>3 DEF TableStep, Complete, Change
  <2>2. \A x \in WorkOrderIds : x # w => status'[x] = status[x]
    BY <2>1 DEF IInv, DataOK
  <2>3. QED
    BY <1>1, <2>1, <2>2, UnracedStays DEF Stays
<1>4. QED
  BY <1>2, <1>3

LEMMA PublisherUnraced ==
    ASSUME IInv, UnracedInv, NEW p \in Publishers, PublisherStep(p) \/ ProcessStep(p)
    PROVE  UnracedInv'
<1>1. UNCHANGED tableVars
  BY DEF PublisherStep, StartTick, MarkPublished, IndexRow, IndexRowFails, IndexRowRejected,
     ProcessStep, MarkEventPublished, MarkPublishedFails, ProcessStops, Search, SearchFails, BreakEnds
<1>2. removed' \subseteq removed
  BY DEF PublisherStep, StartTick, MarkPublished, IndexRow, IndexRowFails, IndexRowRejected,
     ProcessStep, MarkEventPublished, MarkPublishedFails, ProcessStops, Search, SearchFails,
     BreakEnds, Store, StoreFails
<1>3. \A r \in Rebuilds : Stays(r) \/ rebuild'[r] = NoRebuild
  BY DEF PublisherStep, StartTick, MarkPublished, IndexRow, IndexRowFails, IndexRowRejected,
     ProcessStep, MarkEventPublished, MarkPublishedFails, ProcessStops, Search, SearchFails,
     BreakEnds, Stays
<1>4. QED
  BY <1>1, <1>2, <1>3, SameTable, UnracedStays DEF tableVars

(* What is deleted existed.                                                 *)
LEMMA DeletedExist ==
    ASSUME IInv, NEW ids \in SUBSET WorkOrderIds, Delete(ids)
    PROVE  \A w \in removed' : w \in removed \/ (w \in ids /\ status[w] # "Absent")
BY DEF Delete, IInv, CopiesHonest, Honest

LEMMA AbortUnraced ==
    ASSUME IInv, UnracedInv, NEW r \in Rebuilds,
           ClearFails(r) \/ RebuildRejected(r) \/ \E w \in WorkOrderIds : WriteFails(r, w)
    PROVE  UnracedInv'
<1>1. UNCHANGED tableVars /\ rebuild' = [rebuild EXCEPT ![r] = NoRebuild] /\ rebuild[r].phase # "idle"
  BY DEF ClearFails, RebuildRejected, WriteFails, Abort
<1>2. rebuild'[r] = NoRebuild /\ \A o \in Rebuilds \ {r} : rebuild'[o] = rebuild[o]
  BY <1>1 DEF IInv, DataOK
<1>3. \A o \in Rebuilds : Stays(o) \/ rebuild'[o] = NoRebuild
  BY <1>2 DEF Stays
<1>4. CASE ClearFails(r)
  <2>1. PICK ids \in SUBSET OfOrg(rebuild[r].org) : Delete(ids)
    BY <1>4 DEF ClearFails
  <2>2. ids \subseteq WorkOrderIds /\ \A w \in ids : OrgOf[w] = rebuild[r].org
    BY DEF OfOrg
  <2>3. \A w \in removed' : w \in removed \/ (w \in ids /\ status[w] # "Absent")
    BY <2>1, <2>2, DeletedExist
  <2>4. ASSUME NEW w \in ids, NEW o \in Rebuilds, rebuild[o].phase = "writing"
        PROVE  Bystander(o, w)
    BY <1>1, <1>2, <2>2, <2>4 DEF UnracedInv, Apart, InFlight, Bystander
  <2>5. QED
    BY <1>1, <1>3, <2>2, <2>3, <2>4, SameTable, UnracedStays DEF tableVars
<1>5. CASE ~ClearFails(r)
  <2>1. removed' \subseteq removed
    BY <1>5 DEF RebuildRejected, WriteFails, StoreFails, Store
  <2>2. QED
    BY <1>1, <1>3, <2>1, SameTable, UnracedStays DEF tableVars
<1>6. QED
  BY <1>4, <1>5

LEMMA LossUnraced ==
    ASSUME IInv, UnracedInv, LoseIndex
    PROVE  UnracedInv'
<1>1. Delete(WorkOrderIds) /\ UNCHANGED tableVars /\ rebuild' = Raced(InFlight)
  BY DEF LoseIndex
<1>2. \A r \in Rebuilds : Stays(r) /\ (r \in InFlight => rebuild'[r].raced)
  BY <1>1, RacedStays DEF IInv
<1>3. \A w \in removed' : w \in removed \/ (w \in WorkOrderIds /\ status[w] # "Absent")
  BY <1>1, DeletedExist
<1>4. \A w \in WorkOrderIds, r \in Rebuilds : rebuild[r].phase = "writing" => Bystander(r, w)
  BY <1>2 DEF Bystander, InFlight
<1>5. QED
  BY <1>1, <1>2, <1>3, <1>4, SameTable, UnracedStays DEF tableVars

LEMMA ReadTableUnraced ==
    ASSUME IInv, UnracedInv, NEW r \in Rebuilds, NEW org \in Organizations, ReadTable(r, org)
    PROVE  UnracedInv'
<1>1. /\ rebuild'[r].phase = "clearing" /\ rebuild'[r].org = org
      /\ rebuild'[r].docs = Snapshot(org)
      /\ \A o \in Rebuilds \ {r} : Stays(o)
      /\ \A o \in InFlight : rebuild[o].org = org => rebuild'[o].raced /\ rebuild'[r].raced
  BY ReadTableReads DEF IInv
<1>2. rebuild[r].phase = "idle" /\ UNCHANGED <<status, removed>>
  BY DEF ReadTable, tableVars
<1>3. Apart'
  BY <1>1, <1>2 DEF UnracedInv, Apart, InFlight, Stays
<1>4. \A w \in WorkOrderIds : OrgOf[w] = org /\ status[w] # "Absent" => Snapshot(org)[w] # None
  BY SearchAssumption DEF Snapshot, IInv, DataOK
<1>5. Whole'
  BY <1>1, <1>2, <1>4 DEF UnracedInv, Whole, Stays
<1>6. Returning' /\ RemovedExist'
  BY <1>1, <1>2 DEF UnracedInv, Returning, RemovedExist, Stays
<1>7. QED
  BY <1>3, <1>5, <1>6 DEF UnracedInv

LEMMA ClearUnraced ==
    ASSUME IInv, UnracedInv, NEW r \in Rebuilds, Clear(r)
    PROVE  UnracedInv'
<1>0. DataOK /\ rebuild[r].docs \in Copies
  BY DEF IInv, DataOK, RebuildState, Copies
<1>1. /\ rebuild[r].phase = "clearing" /\ Continue(r, rebuild[r].docs) /\ status' = status
      /\ Delete(OfOrg(rebuild[r].org))
  BY DEF Clear, tableVars
<1>2. /\ rebuild'[r].docs = rebuild[r].docs
      /\ rebuild'[r].phase \in {"idle", "writing"}
      /\ rebuild'[r].phase # "idle" =>
           rebuild'[r].org = rebuild[r].org /\ (rebuild[r].raced => rebuild'[r].raced)
      /\ \A o \in Rebuilds \ {r} : rebuild'[o] = rebuild[o]
  BY <1>0, <1>1, ContinueGoes
<1>3. \A w \in removed' :
        w \in removed \/ (w \in WorkOrderIds /\ OrgOf[w] = rebuild[r].org /\ status[w] # "Absent")
  BY <1>1, DeletedExist DEF OfOrg
<1>4. removed \subseteq WorkOrderIds
  BY <1>0 DEF DataOK
<1>5. Apart'
  BY <1>1, <1>2 DEF UnracedInv, Apart, InFlight
<1>6. Whole'
  BY <1>1, <1>2 DEF UnracedInv, Whole
<1>7. RemovedExist'
  BY <1>1, <1>3 DEF UnracedInv, RemovedExist
<1>8. Returning'
  <2> SUFFICES ASSUME NEW o \in Rebuilds, NEW w \in removed', rebuild'[o].phase = "writing",
                      ~rebuild'[o].raced, OrgOf[w] = rebuild'[o].org
               PROVE  rebuild'[o].docs[w] # None
    BY DEF Returning
  <2>1. CASE o = r
    BY <1>1, <1>2, <1>3, <1>4, <2>1 DEF UnracedInv, Whole, RemovedExist
  <2>2. CASE o # r
    BY <1>1, <1>2, <1>3, <2>2 DEF UnracedInv, Returning, Apart, InFlight
  <2>3. QED
    BY <2>1, <2>2
<1>9. QED
  BY <1>5, <1>6, <1>7, <1>8 DEF UnracedInv

LEMMA WriteUnraced ==
    ASSUME IInv, UnracedInv, NEW r \in Rebuilds, NEW w \in WorkOrderIds, Write(r, w)
    PROVE  UnracedInv'
<1>0. DataOK /\ rebuild[r].docs \in Copies
  BY DEF IInv, DataOK, RebuildState, Copies
<1>1. PICK docs \in Copies : docs = [rebuild[r].docs EXCEPT ![w] = None]
  BY <1>0 DEF Copies
<1>2. /\ rebuild[r].phase = "writing" /\ Continue(r, docs) /\ status' = status
      /\ removed' = removed \ {w}
  BY <1>1 DEF Write, Store, tableVars
<1>3. /\ rebuild'[r].docs = docs
      /\ rebuild'[r].phase \in {"idle", "writing"}
      /\ rebuild'[r].phase # "idle" =>
           rebuild'[r].org = rebuild[r].org /\ (rebuild[r].raced => rebuild'[r].raced)
      /\ \A o \in Rebuilds \ {r} : rebuild'[o] = rebuild[o]
  BY <1>0, <1>2, ContinueGoes
<1>4. \A x \in WorkOrderIds : x # w => docs[x] = rebuild[r].docs[x]
  BY <1>0, <1>1 DEF Copies
<1>5. removed \subseteq WorkOrderIds
  BY <1>0 DEF DataOK
<1>6. Apart'
  BY <1>2, <1>3 DEF UnracedInv, Apart, InFlight
<1>7. Whole' /\ RemovedExist'
  BY <1>2, <1>3 DEF UnracedInv, Whole, RemovedExist
<1>8. Returning'
  BY <1>2, <1>3, <1>4, <1>5 DEF UnracedInv, Returning
<1>9. QED
  BY <1>6, <1>7, <1>8 DEF UnracedInv

LEMMA UnracedInvariance == Spec => [](IInv /\ UnracedInv)
<1>1. Init => UnracedInv
  BY DEF Init, UnracedInv, Apart, Whole, Returning, RemovedExist, InFlight, NoRebuild
<1>2. IInv /\ UnracedInv /\ [Next]_vars => UnracedInv'
  <2> SUFFICES ASSUME IInv, UnracedInv, [Next]_vars PROVE UnracedInv'
    OBVIOUS
  <2>1. ASSUME UNCHANGED vars PROVE UnracedInv'
    BY <2>1 DEF vars, tableVars, UnracedInv, Apart, Whole, Returning, RemovedExist, InFlight
  <2>2. ASSUME NEW r \in Rebuilds, RebuildStep(r) PROVE UnracedInv'
    BY <2>2, ReadTableUnraced, ClearUnraced, WriteUnraced, AbortUnraced DEF RebuildStep
  <2>3. QED
    BY <2>1, <2>2, TableStepUnraced, PublisherUnraced, LossUnraced DEF Next
<1>3. QED
  BY <1>1, <1>2, Inductive, PTL DEF Spec

(* The last step of an unraced rebuild that succeeds.                       *)
LEMMA FinishReadds ==
    ASSUME IInv, IInv', UnracedInv, faults \in Nat, [Next]_vars, NEW r \in Rebuilds, Finishes(r),
           ~rebuild[r].raced, NEW w \in PublishedOf(rebuild[r].org)
    PROVE  index'[w] # None
<1>0. DataOK
  BY DEF IInv
<1>1. w \in WorkOrderIds /\ OrgOf[w] = rebuild[r].org /\ \E i \in published : outbox[i].id = w
  BY DEF PublishedOf, OfOrg
<1>2. PICK i \in published : outbox[i].id = w
  BY <1>1
<1>3. rebuild[r].phase # "idle" /\ rebuild'[r].phase = "idle" /\ Admits(ProcessOf[r]) /\ faults' = faults
  BY DEF Finishes
<1>4. status[w] # "Absent"
  BY <1>0, <1>2 DEF IInv, DataOK, SourcesHonest, Honest
<1>5. NoDocuments[w] = None /\ rebuild[r].docs \in Copies
  BY <1>0, <1>1 DEF NoDocuments, DataOK, RebuildState, Copies
<1>6. \A d : ~Fault(d)
  BY <1>3 DEF Fault
<1>7. RebuildStep(r)
  <2>1. ~ProcessStops(ProcessOf[r])
    BY <1>6 DEF ProcessStops
  <2>2. QED
    BY <1>3, <2>1, PhaseMoves
<1>8. Clear(r) \/ \E x \in WorkOrderIds : Write(r, x)
  BY <1>3, <1>6, <1>7 DEF RebuildStep, ReadTable, ClearFails, WriteFails, RebuildRejected
<1>9. ~Clear(r)
  <2>1. SUFFICES ASSUME Clear(r) PROVE FALSE
    OBVIOUS
  <2>2. rebuild[r].phase = "clearing" /\ Continue(r, rebuild[r].docs)
    BY <2>1 DEF Clear
  <2>3. rebuild[r].docs = NoDocuments
    BY <1>0, <1>3, <1>5, <2>2, ContinueGoes
  <2>4. QED
    BY <1>1, <1>4, <1>5, <2>2, <2>3 DEF UnracedInv, Whole
<1>10. PICK x \in WorkOrderIds : Write(r, x)
  BY <1>8, <1>9
<1>11. PICK docs \in Copies : docs = [rebuild[r].docs EXCEPT ![x] = None]
  BY <1>5 DEF Copies
<1>12. /\ rebuild[r].phase = "writing" /\ Continue(r, docs)
       /\ removed' = removed \ {x} /\ outbox' = outbox /\ published' = published
  BY <1>10, <1>11 DEF Write, Store, tableVars
<1>13. docs = NoDocuments
  BY <1>0, <1>3, <1>12, ContinueGoes
<1>14. w # x => rebuild[r].docs[w] = None
  BY <1>1, <1>5, <1>11, <1>13 DEF Copies
<1>15. w \notin removed'
  BY <1>1, <1>12, <1>14 DEF UnracedInv, Returning
<1>16. QED
  BY <1>2, <1>12, <1>15 DEF IInv, PublishedIsIndexed

(* A rebuild that is not raced and succeeds leaves every published work     *)
(* order of its organization with a document, with any number of publishers *)
(* and of rebuilds of other organizations at the same time, and whatever    *)
(* fails meanwhile.                                                         *)
THEOREM UnracedRebuildsReaddAll == Spec => UnracedRebuildReaddsAll
<1> DEFINE Readds ==
      \A r \in Rebuilds : Finishes(r) /\ ~rebuild[r].raced =>
         \A w \in PublishedOf(rebuild[r].org) : index'[w] # None
<1>1. TypeOK => faults \in Nat
  BY SearchAssumption DEF TypeOK
<1>2. IInv /\ IInv' /\ UnracedInv /\ faults \in Nat /\ [Next]_vars => [Readds]_vars
  BY FinishReadds
<1>3. QED
  BY <1>1, <1>2, UnracedInvariance, TypeCorrect, PTL DEF Spec, UnracedRebuildReaddsAll

-----------------------------------------------------------------------------
(* Calm: what completions need.                                             *)

(* As the repository deploys it: one FieldOps.Api process.                  *)
OnePublisher == \A p, q \in Publishers : p = q

(* The document of Create is the first of its work order.                   *)
CreationsFirst ==
    /\ \A i \in Rows : outbox[i].status \in {"Open", "Completed"}
    /\ \A i, j \in Rows :
         outbox[i].id = outbox[j].id /\ outbox[j].status = "Open" /\ i # j => j < i

(* The documents a rebuild holds are as the table is now; before it has     *)
(* deleted the old ones it holds those of its whole organization.           *)
RebuildsCurrent ==
    \A r \in Rebuilds, w \in WorkOrderIds :
        /\ rebuild[r].docs[w] # None => rebuild[r].docs[w] = status[w]
        /\ rebuild[r].phase = "idle" => rebuild[r].docs[w] = None
        /\ rebuild[r].phase = "clearing" /\ OrgOf[w] = rebuild[r].org /\ status[w] # "Absent" =>
             rebuild[r].docs[w] # None

CalmInv == IInv /\ CreationsFirst /\ (calm => RebuildsCurrent)

(* Rows the current tick has indexed or an earlier one has marked, and rows *)
(* still to come; a mark that is not saved in the end makes its row come    *)
(* again.                                                                   *)
DoneRows == published \union UNION {SentIn(publisher[p]) : p \in Publishers}
Pending  == Rows \ DoneRows

(* Of one work order, the rows in A come before those in B.                 *)
Ordered(A, B) == \A i \in A, j \in B : outbox[i].id = outbox[j].id => i < j

(* The rows of each work order are indexed in the order they were written,  *)
(* and stay so when the marks of the tick are lost.                         *)
InOrder(marked, sent, batch) ==
    LET pending == Rows \ (marked \union sent) IN
    /\ Ordered(marked \union sent, pending) /\ Ordered(marked, Rows \ marked)
    /\ batch \subseteq pending /\ Ordered(batch, pending \ batch)

RowsInOrder ==
    \A p \in Publishers : InOrder(published, SentIn(publisher[p]), publisher[p].batch)

(* A completion is shown, or will be: by a row to come or by a rebuild.     *)
Completion(x) == [id |-> x, status |-> "Completed"]

Coming(x) ==
    \/ index[x] = "Completed"
    \/ \E i \in Pending : outbox[i] = Completion(x)
    \/ \E r \in Rebuilds : rebuild[r].phase = "writing" /\ rebuild[r].docs[x] = "Completed"

CompletionsComing == \A x \in WorkOrderIds : status[x] = "Completed" => Coming(x)

MirrorInv == calm => RowsInOrder /\ CompletionsComing

-----------------------------------------------------------------------------
(* Steps in calm.                                                           *)

LEMMA FaultsInCalm ==
    ASSUME NEW d, Fault(d), calm'
    PROVE  calm /\ ~d
  BY Zenon DEF Fault

LEMMA RequestsWait ==
    ASSUME Request, calm'
    PROVE  calm /\ InFlight = {}
  BY Zenon DEF Request

LEMMA NoFaultCalm ==
    ASSUME NoFault, calm'
    PROVE  calm
  BY Zenon DEF NoFault

(* Row i stays to be indexed, maybe indexed all the same, and no row of its *)
(* work order is tried before it is its turn again.                         *)
PassesOver(p, i) == (IndexRowFails(p, i) \/ IndexRowRejected(p, i)) /\ ~Overtaken(p, i)

Marks(p) == MarkPublished(p) \/ MarkEventPublished(p)

StopsUnheard(p) ==
    /\ ProcessStops(p)
    /\ \A r \in Rebuilds : ProcessOf[r] = p => rebuild[r].phase # "writing"

Indexes(p) ==
    \/ StartTick(p) \/ Marks(p) \/ MarkPublishedFails(p) \/ StopsUnheard(p)
    \/ \E i \in DOMAIN outbox : IndexRow(p, i) \/ PassesOver(p, i)

Rebuilding(r) ==
    \/ \E org \in Organizations : ReadTable(r, org)
    \/ Clear(r) \/ \E w \in WorkOrderIds : Write(r, w)
    \/ RebuildRejected(r) /\ rebuild[r].phase # "writing"

Idles == UNCHANGED <<tableVars, published, publisher, index, rebuild>>

CalmStep ==
    \/ InFlight = {} /\ \E w \in WorkOrderIds : TableStep(w)
    \/ \E p \in Publishers : Indexes(p)
    \/ \E r \in Rebuilds : Rebuilding(r)
    \/ Idles

LEMMA CalmSteps ==
    ASSUME [Next]_vars, calm'
    PROVE  calm /\ CalmStep
<1>1. ASSUME NEW w \in WorkOrderIds, TableStep(w)
      PROVE  calm /\ CalmStep
  <2>1. Request
    BY <1>1 DEF TableStep, Create, Complete, Change
  <2>2. QED
    BY <1>1, <2>1, RequestsWait DEF CalmStep
<1>2. ASSUME NEW p \in Publishers, NEW i \in DOMAIN outbox,
             IndexRowFails(p, i) \/ IndexRowRejected(p, i)
      PROVE  calm /\ CalmStep
  <2>1. CASE IndexRowFails(p, i)
    <3>1. Fault(Overtaken(p, i))
      BY <2>1 DEF IndexRowFails
    <3>2. calm /\ ~Overtaken(p, i)
      BY <3>1, FaultsInCalm
    <3>3. QED
      BY <2>1, <3>2 DEF CalmStep, Indexes, PassesOver
  <2>2. CASE IndexRowRejected(p, i)
    <3>1. calm' = (calm /\ ~Overtaken(p, i))
      BY <2>2 DEF IndexRowRejected
    <3>2. calm /\ ~Overtaken(p, i)
      BY <3>1, Zenon
    <3>3. QED
      BY <2>2, <3>2 DEF CalmStep, Indexes, PassesOver
  <2>3. QED
    BY <1>2, <2>1, <2>2
<1>3. ASSUME NEW p \in Publishers, ProcessStops(p)
      PROVE  calm /\ CalmStep
  <2>1. Fault(\E r \in Rebuilds : ProcessOf[r] = p /\ rebuild[r].phase = "writing")
    BY <1>3 DEF ProcessStops
  <2>2. calm /\ ~\E r \in Rebuilds : ProcessOf[r] = p /\ rebuild[r].phase = "writing"
    BY <2>1, FaultsInCalm
  <2>3. StopsUnheard(p)
    BY <1>3, <2>2 DEF StopsUnheard
  <2>4. QED
    BY <2>2, <2>3 DEF CalmStep, Indexes
<1>4. ASSUME NEW p \in Publishers, NoFault \/ Fault(FALSE),
             \/ StartTick(p) \/ Marks(p) \/ MarkPublishedFails(p)
             \/ \E i \in DOMAIN outbox : IndexRow(p, i)
             \/ Idles
      PROVE  calm /\ CalmStep
  <2>1. calm
    BY <1>4, NoFaultCalm, FaultsInCalm
  <2>2. QED
    BY <1>4, <2>1 DEF CalmStep, Indexes
<1>5. ASSUME NEW p \in Publishers, PublisherStep(p) \/ ProcessStep(p)
      PROVE  calm /\ CalmStep
  <2>1. CASE Search(p) \/ SearchFails(p) \/ BreakEnds(p)
    <3>1. Idles /\ (NoFault \/ Fault(FALSE))
      BY <2>1 DEF Search, SearchFails, BreakEnds, Idles
    <3>2. QED
      BY <1>4, <3>1
  <2>2. CASE StartTick(p) \/ Marks(p) \/ MarkPublishedFails(p)
    <3>1. NoFault \/ Fault(FALSE)
      BY <2>2 DEF StartTick, Marks, MarkPublished, MarkEventPublished, MarkPublishedFails
    <3>2. QED
      BY <1>4, <2>2, <3>1
  <2>3. ASSUME NEW i \in DOMAIN outbox, IndexRow(p, i)
        PROVE  calm /\ CalmStep
    <3>1. NoFault
      BY <2>3 DEF IndexRow
    <3>2. QED
      BY <1>4, <2>3, <3>1
  <2>4. QED
    BY <1>2, <1>3, <1>5, <2>1, <2>2, <2>3 DEF PublisherStep, ProcessStep, Marks
<1>6. ASSUME NEW r \in Rebuilds, RebuildStep(r)
      PROVE  calm /\ CalmStep
  <2>1. ~Fault(TRUE)
    BY FaultsInCalm
  <2>2. ~ClearFails(r) /\ \A w \in WorkOrderIds : ~WriteFails(r, w)
    BY <2>1 DEF ClearFails, WriteFails
  <2>3. CASE RebuildRejected(r)
    <3>1. calm' = (calm /\ rebuild[r].phase # "writing")
      BY <2>3 DEF RebuildRejected
    <3>2. calm /\ rebuild[r].phase # "writing"
      BY <3>1, Zenon
    <3>3. QED
      BY <2>3, <3>2 DEF CalmStep, Rebuilding
  <2>4. CASE ~RebuildRejected(r)
    <3>1. NoFault /\ Rebuilding(r)
      BY <1>6, <2>2, <2>4 DEF RebuildStep, Rebuilding, ReadTable, Clear, Write
    <3>2. QED
      BY <3>1, NoFaultCalm DEF CalmStep
  <2>5. QED
    BY <2>3, <2>4
<1>7. ~LoseIndex
  BY FaultsInCalm DEF LoseIndex
<1>8. ASSUME UNCHANGED vars
      PROVE  calm /\ CalmStep
  <2>1. calm
    BY <1>8, Zenon DEF vars
  <2>2. QED
    BY <1>8, <2>1 DEF vars, CalmStep, Idles
<1>9. QED
  BY <1>1, <1>5, <1>6, <1>7, <1>8 DEF Next

-----------------------------------------------------------------------------
(* The outbox and the documents of rebuilds.                                *)

(* What a change of the table appends.                                      *)
LEMMA RowsAppended ==
    ASSUME DataOK, NEW w \in WorkOrderIds, TableStep(w)
    PROVE  \/ UNCHANGED outbox
           \/ \E s \in {"Open", "Completed"} :
                /\ s = "Open" => status[w] = "Absent"
                /\ Len(outbox') = Len(outbox) + 1
                /\ DOMAIN outbox' = Rows \union {Len(outbox) + 1}
                /\ \A i \in Rows : i < Len(outbox) + 1 /\ outbox'[i] = outbox[i]
                /\ outbox'[Len(outbox) + 1] = [id |-> w, status |-> s]
<1>1. UNCHANGED outbox \/ \E s \in {"Open", "Completed"} :
                            Announce(w, s) /\ (s = "Open" => status[w] = "Absent")
  BY DEF TableStep, Create, Complete, Change
<1>2. ASSUME NEW s \in {"Open", "Completed"}, Announce(w, s)
      PROVE  /\ Len(outbox') = Len(outbox) + 1
             /\ DOMAIN outbox' = Rows \union {Len(outbox) + 1}
             /\ \A i \in Rows : i < Len(outbox) + 1 /\ outbox'[i] = outbox[i]
             /\ outbox'[Len(outbox) + 1] = [id |-> w, status |-> s]
  <2>1. PICK d : d = [id |-> w, status |-> s]
    OBVIOUS
  <2>2. d \in Document
    BY <2>1 DEF Document, Statuses
  <2>3. outbox' = Append(outbox, d) /\ outbox \in Seq(Document)
    BY <1>2, <2>1 DEF Announce, DataOK
  <2>4. QED
    BY <2>1, <2>2, <2>3 DEF Rows
<1>3. QED
  BY <1>1, <1>2

LEMMA CreationsStayFirst ==
    ASSUME IInv, CreationsFirst, [Next]_vars
    PROVE  CreationsFirst'
<1>1. CASE UNCHANGED outbox
  BY <1>1 DEF CreationsFirst, Rows
<1>2. ASSUME NEW w \in WorkOrderIds, TableStep(w), ~UNCHANGED outbox
      PROVE  CreationsFirst'
  <2>1. PICK s \in {"Open", "Completed"} :
          /\ s = "Open" => status[w] = "Absent"
          /\ DOMAIN outbox' = Rows \union {Len(outbox) + 1}
          /\ \A i \in Rows : i < Len(outbox) + 1 /\ outbox'[i] = outbox[i]
          /\ outbox'[Len(outbox) + 1] = [id |-> w, status |-> s]
    BY <1>2, RowsAppended DEF IInv
  <2> DEFINE n == Len(outbox) + 1
  <2>2. \A i \in Rows : status[outbox[i].id] # "Absent"
    BY DEF IInv, SourcesHonest, Honest, Rows
  <2>3. outbox'[n].id = w /\ outbox'[n].status = s
    BY <2>1
  <2> HIDE DEF n
  <2>4. /\ DOMAIN outbox' = Rows \union {n}
        /\ \A i \in Rows : i < n /\ outbox'[i] = outbox[i]
    BY <2>1 DEF n
  <2>5. \A i \in Rows' : outbox'[i].status \in {"Open", "Completed"}
    BY <2>3, <2>4 DEF CreationsFirst, Rows
  <2>6. ASSUME NEW i \in Rows', NEW k \in Rows', outbox'[i].id = outbox'[k].id,
               outbox'[k].status = "Open", i # k
        PROVE  k < i
    <3>1. CASE k = n
      BY <2>1, <2>2, <2>3, <2>4, <2>6, <3>1 DEF Rows
    <3>2. CASE k \in Rows
      BY <2>4, <2>6, <3>2 DEF CreationsFirst, Rows
    <3>3. QED
      BY <2>4, <3>1, <3>2 DEF Rows
  <2>7. QED
    BY <2>5, <2>6 DEF CreationsFirst
<1>3. UNCHANGED outbox \/ \E w \in WorkOrderIds : TableStep(w)
  BY DEF Next, PublisherStep, StartTick, MarkPublished, IndexRow, IndexRowFails, IndexRowRejected,
     ProcessStep, MarkEventPublished, MarkPublishedFails, ProcessStops, Search, SearchFails,
     BreakEnds, RebuildStep, ReadTable, Clear, ClearFails, Write, WriteFails, RebuildRejected,
     LoseIndex, vars, tableVars
<1>4. QED
  BY <1>1, <1>2, <1>3

LEMMA CurrentStays ==
    ASSUME IInv, RebuildsCurrent, CalmStep
    PROVE  RebuildsCurrent'
<1>0. DataOK
  BY DEF IInv
<1>1. ASSUME NEW w \in WorkOrderIds, TableStep(w), InFlight = {}
      PROVE  RebuildsCurrent'
  <2>1. (\E rs : rebuild' = Raced(rs)) \/ UNCHANGED rebuild
    BY <1>1 DEF TableStep, Create, Complete, Change
  <2>2. \A r \in Rebuilds : rebuild'[r].phase = rebuild[r].phase /\ rebuild'[r].docs = rebuild[r].docs
    BY <1>0, <2>1, RacedRebuilds
  <2>3. \A r \in Rebuilds : rebuild[r].phase = "idle"
    BY <1>1 DEF InFlight
  <2>4. QED
    BY <2>2, <2>3 DEF RebuildsCurrent
<1>2. CASE UNCHANGED <<status, rebuild>>
  BY <1>2 DEF RebuildsCurrent
<1>3. ASSUME NEW r \in Rebuilds, UNCHANGED status,
             \A o \in Rebuilds \ {r} : rebuild'[o] = rebuild[o] \/ Stays(o),
             \A w \in WorkOrderIds :
               /\ rebuild'[r].docs[w] # None => rebuild'[r].docs[w] = status[w]
               /\ rebuild'[r].phase = "idle" => rebuild'[r].docs[w] = None
               /\ rebuild'[r].phase = "clearing" /\ OrgOf[w] = rebuild'[r].org
                    /\ status[w] # "Absent" => rebuild'[r].docs[w] # None
      PROVE  RebuildsCurrent'
  <2>1. \A o \in Rebuilds \ {r} : /\ rebuild'[o].docs = rebuild[o].docs
                                  /\ rebuild'[o].phase = rebuild[o].phase
                                  /\ rebuild'[o].org = rebuild[o].org
    BY <1>3 DEF Stays
  <2>2. QED
    BY <1>3, <2>1 DEF RebuildsCurrent
<1>4. ASSUME NEW r \in Rebuilds, NEW org \in Organizations, ReadTable(r, org)
      PROVE  RebuildsCurrent'
  <2>1. /\ rebuild'[r].phase = "clearing" /\ rebuild'[r].org = org
        /\ rebuild'[r].docs = Snapshot(org)
        /\ \A o \in Rebuilds \ {r} : Stays(o)
    BY <1>0, <1>4, ReadTableReads
  <2>2. status' = status
    BY <1>4 DEF ReadTable, tableVars
  <2>3. \A w \in WorkOrderIds :
          /\ Snapshot(org)[w] # None => Snapshot(org)[w] = status[w]
          /\ OrgOf[w] = org /\ status[w] # "Absent" => Snapshot(org)[w] # None
    BY <1>0, SearchAssumption DEF Snapshot, DataOK
  <2>4. QED
    BY <1>3, <2>1, <2>2, <2>3
<1>5. ASSUME NEW r \in Rebuilds, NEW docs \in Copies, Continue(r, docs), UNCHANGED status,
             \A w \in WorkOrderIds : docs[w] # None => docs[w] = status[w]
      PROVE  RebuildsCurrent'
  <2>1. /\ rebuild'[r].docs = docs
        /\ rebuild'[r].phase = IF docs = NoDocuments THEN "idle" ELSE "writing"
        /\ \A o \in Rebuilds \ {r} : rebuild'[o] = rebuild[o]
    BY <1>0, <1>5, ContinueGoes
  <2>2. \A w \in WorkOrderIds : NoDocuments[w] = None
    BY DEF NoDocuments
  <2>3. QED
    BY <1>3, <1>5, <2>1, <2>2
<1>6. ASSUME NEW r \in Rebuilds
      PROVE  /\ rebuild[r].docs \in Copies
             /\ \A w \in WorkOrderIds : rebuild[r].docs[w] # None => rebuild[r].docs[w] = status[w]
  BY <1>0 DEF DataOK, RebuildState, Copies, RebuildsCurrent
<1>7. ASSUME NEW r \in Rebuilds, Clear(r)
      PROVE  RebuildsCurrent'
  BY <1>5, <1>6, <1>7 DEF Clear, tableVars
<1>8. ASSUME NEW r \in Rebuilds, NEW w \in WorkOrderIds, Write(r, w)
      PROVE  RebuildsCurrent'
  <2>1. PICK docs \in Copies : docs = [rebuild[r].docs EXCEPT ![w] = None]
    BY <1>6 DEF Copies
  <2>2. \A x \in WorkOrderIds : docs[x] # None => docs[x] = status[x]
    BY <1>6, <2>1 DEF Copies
  <2>3. QED
    BY <1>5, <1>8, <2>1, <2>2 DEF Write, tableVars
<1>a. /\ NoRebuild.phase = "idle" /\ \A w \in WorkOrderIds : NoRebuild.docs[w] = None
  BY DEF NoRebuild, NoDocuments
<1>b. ASSUME UNCHANGED status, \A r \in Rebuilds : rebuild'[r] = rebuild[r] \/ rebuild'[r] = NoRebuild
      PROVE  RebuildsCurrent'
  BY <1>a, <1>b DEF RebuildsCurrent
<1>9. ASSUME NEW p \in Publishers, Indexes(p)
      PROVE  RebuildsCurrent'
  <2>1. CASE StopsUnheard(p)
    BY <1>b, <2>1 DEF StopsUnheard, ProcessStops, tableVars
  <2>2. CASE ~StopsUnheard(p)
    BY <1>2, <1>9, <2>2 DEF Indexes, StartTick, Marks, MarkPublished, MarkEventPublished,
       MarkPublishedFails, IndexRow, PassesOver, IndexRowFails, IndexRowRejected, tableVars
  <2>3. QED
    BY <2>1, <2>2
<1>c. ASSUME NEW r \in Rebuilds, RebuildRejected(r)
      PROVE  RebuildsCurrent'
  BY <1>0, <1>b, <1>c DEF RebuildRejected, Abort, tableVars, DataOK
<1>d. QED
  BY <1>1, <1>2, <1>4, <1>7, <1>8, <1>9, <1>c DEF CalmStep, Rebuilding, Idles, tableVars

LEMMA CalmInvariance == Spec => []CalmInv
<1>1. Init => CalmInv
  <2>1. Init => CreationsFirst
    BY DEF Init, CreationsFirst, Rows
  <2>2. Init => RebuildsCurrent
    BY DEF Init, RebuildsCurrent, NoRebuild, NoDocuments
  <2>3. QED
    BY <2>1, <2>2, InitIInv DEF CalmInv
<1>2. CalmInv /\ IInv' /\ [Next]_vars => CalmInv'
  <2> SUFFICES ASSUME CalmInv, IInv', [Next]_vars
               PROVE  CalmInv'
    OBVIOUS
  <2>1. CreationsFirst'
    BY CreationsStayFirst DEF CalmInv
  <2>2. ASSUME calm'
        PROVE  RebuildsCurrent'
    <3>1. calm /\ CalmStep
      BY <2>2, CalmSteps
    <3>2. QED
      BY <3>1, CurrentStays DEF CalmInv
  <2>3. QED
    BY <2>1, <2>2 DEF CalmInv
<1>3. QED
  BY <1>1, <1>2, Inductive, PTL DEF Spec

-----------------------------------------------------------------------------
(* The rows of one publisher.                                               *)

LEMMA RowsAreNumbers ==
    ASSUME IInv
    PROVE  /\ Rows \subseteq Nat \ {0} /\ DoneRows \subseteq Rows
           /\ \A i \in Rows : outbox[i].id \in WorkOrderIds
<1>1. DataOK
  BY DEF IInv
<1>2. published \subseteq Rows
  BY <1>1 DEF DataOK, Rows
<1>3. \A p \in Publishers : SentIn(publisher[p]) \subseteq Rows
  BY DEF IInv, TicksSound, TickSound
<1>4. QED
  BY <1>1, <1>2, <1>3, OutboxRows DEF Rows, DoneRows

LEMMA OneTick ==
    ASSUME OnePublisher, NEW p \in Publishers
    PROVE  /\ DoneRows = published \union SentIn(publisher[p])
           /\ DoneRows' = published' \union SentIn(publisher'[p])
  BY DEF OnePublisher, DoneRows, SentIn

(* A step of a publisher's tick, as far as the order of rows is concerned.  *)
Moves(p, marked, sent, batch) ==
    /\ outbox' = outbox /\ published' = marked
    /\ SentIn(publisher'[p]) = sent /\ publisher'[p].batch = batch

LEMMA TickMovesOn ==
    ASSUME DataOK, NEW p \in Publishers, NEW n, publisher' = [publisher EXCEPT ![p] = n]
    PROVE  publisher'[p] = n
  BY DEF DataOK

LEMMA TickGoes ==
    ASSUME IInv, NEW p \in Publishers
    PROVE  /\ StartTick(p) => Moves(p, published, {}, Rows \ published)
           /\ Marks(p) => Moves(p, published \union SentIn(publisher[p]), {}, publisher[p].batch)
           /\ MarkPublishedFails(p) =>
                Moves(p, published, SentIn(publisher[p]), publisher[p].batch)
           /\ StopsUnheard(p) => Moves(p, published, {}, {})
           /\ \A i \in Rows :
                /\ IndexRow(p, i) =>
                     Moves(p, published, SentIn(publisher[p]) \union {i}, publisher[p].batch \ {i})
                /\ PassesOver(p, i) =>
                     Moves(p, published, SentIn(publisher[p]), publisher[p].batch \ {i})
<1>0. DataOK /\ publisher[p] \in Tick
  BY DEF IInv, DataOK
<1>1. ASSUME StartTick(p)
      PROVE  Moves(p, published, {}, Rows \ published)
  <2>1. PICK n : n = [NoTick EXCEPT !.batch = Rows \ published]
    OBVIOUS
  <2>2. n.batch = Rows \ published /\ n.sent = 0 /\ n.unsaved = {}
    BY <2>1 DEF NoTick
  <2>3. publisher' = [publisher EXCEPT ![p] = n] /\ UNCHANGED <<outbox, published>>
    BY <1>1, <2>1 DEF StartTick, Rows, tableVars
  <2>4. publisher'[p] = n
    BY <1>0, <2>3, TickMovesOn
  <2>5. QED
    BY <2>2, <2>3, <2>4 DEF Moves, SentIn
<1>2. ASSUME MarkPublished(p)
      PROVE  Moves(p, published \union SentIn(publisher[p]), {}, publisher[p].batch)
  <2>1. PICK n : n = [publisher[p] EXCEPT !.sent = 0, !.unsaved = {}]
    OBVIOUS
  <2>2. n.batch = publisher[p].batch /\ n.sent = 0 /\ n.unsaved = {}
    BY <1>0, <2>1 DEF Tick
  <2>3. /\ publisher' = [publisher EXCEPT ![p] = n] /\ UNCHANGED outbox
        /\ published' = published \union SentIn(publisher[p])
    BY <1>2, <2>1 DEF MarkPublished, SentIn, tableVars
  <2>4. publisher'[p] = n
    BY <1>0, <2>3, TickMovesOn
  <2>5. QED
    BY <2>2, <2>3, <2>4 DEF Moves, SentIn
<1>3. ASSUME MarkEventPublished(p)
      PROVE  Moves(p, published \union SentIn(publisher[p]), {}, publisher[p].batch)
  <2>1. PICK n : n = [publisher[p] EXCEPT !.unsaved = {}]
    OBVIOUS
  <2>2. n.batch = publisher[p].batch /\ n.sent = publisher[p].sent /\ n.unsaved = {}
    BY <1>0, <2>1 DEF Tick
  <2>3. /\ publisher' = [publisher EXCEPT ![p] = n] /\ UNCHANGED outbox
        /\ published' = published \union SentIn(publisher[p]) /\ publisher[p].sent = 0
    BY <1>3, <2>1 DEF MarkEventPublished, SentIn, tableVars
  <2>4. publisher'[p] = n
    BY <1>0, <2>3, TickMovesOn
  <2>5. QED
    BY <2>2, <2>3, <2>4 DEF Moves, SentIn
<1>4. ASSUME MarkPublishedFails(p)
      PROVE  Moves(p, published, SentIn(publisher[p]), publisher[p].batch)
  <2>1. PICK n : n = [publisher[p] EXCEPT !.sent = 0, !.unsaved = @ \union {publisher[p].sent}]
    OBVIOUS
  <2>2. /\ n.batch = publisher[p].batch /\ n.sent = 0 /\ publisher[p].sent # 0
        /\ n.unsaved = publisher[p].unsaved \union {publisher[p].sent}
    BY <1>0, <1>4, <2>1 DEF Tick, MarkPublishedFails
  <2>3. publisher' = [publisher EXCEPT ![p] = n] /\ UNCHANGED <<outbox, published>>
    BY <1>4, <2>1 DEF MarkPublishedFails, tableVars
  <2>4. publisher'[p] = n
    BY <1>0, <2>3, TickMovesOn
  <2>5. SentIn(n) = SentIn(publisher[p])
    BY <2>2, Zenon DEF SentIn
  <2>6. QED
    BY <2>2, <2>3, <2>4, <2>5 DEF Moves
<1>5. ASSUME StopsUnheard(p)
      PROVE  Moves(p, published, {}, {})
  <2>1. publisher' = [publisher EXCEPT ![p] = NoTick] /\ UNCHANGED <<outbox, published>>
    BY <1>5 DEF StopsUnheard, ProcessStops, tableVars
  <2>2. publisher'[p] = NoTick
    BY <1>0, <2>1, TickMovesOn
  <2>3. QED
    BY <2>1, <2>2 DEF Moves, SentIn, NoTick
<1>6. ASSUME NEW i \in Rows, IndexRow(p, i)
      PROVE  Moves(p, published, SentIn(publisher[p]) \union {i}, publisher[p].batch \ {i})
  <2>1. PICK n : n = [publisher[p] EXCEPT !.batch = @ \ {i}, !.sent = i]
    OBVIOUS
  <2>2. /\ n.batch = publisher[p].batch \ {i} /\ n.sent = i /\ n.unsaved = publisher[p].unsaved
        /\ publisher[p].sent = 0 /\ i # 0
    BY <1>0, <1>6, <2>1, RowsAreNumbers DEF Tick, IndexRow, NextRow
  <2>3. publisher' = [publisher EXCEPT ![p] = n] /\ UNCHANGED <<outbox, published>>
    BY <1>6, <2>1 DEF IndexRow, tableVars
  <2>4. publisher'[p] = n
    BY <1>0, <2>3, TickMovesOn
  <2>5. SentIn(n) = SentIn(publisher[p]) \union {i}
    BY <2>2 DEF SentIn
  <2>6. QED
    BY <2>2, <2>3, <2>4, <2>5 DEF Moves
<1>7. ASSUME NEW i \in Rows, PassesOver(p, i)
      PROVE  Moves(p, published, SentIn(publisher[p]), publisher[p].batch \ {i})
  <2>1. PICK n : n = [publisher[p] EXCEPT !.batch = @ \ {i}]
    OBVIOUS
  <2>2. /\ n.batch = publisher[p].batch \ {i} /\ n.sent = publisher[p].sent
        /\ n.unsaved = publisher[p].unsaved
    BY <1>0, <2>1 DEF Tick
  <2>3. publisher' = [publisher EXCEPT ![p] = n] /\ UNCHANGED <<outbox, published>>
    BY <1>7, <2>1 DEF PassesOver, IndexRowFails, IndexRowRejected, tableVars
  <2>4. publisher'[p] = n
    BY <1>0, <2>3, TickMovesOn
  <2>5. QED
    BY <2>2, <2>3, <2>4 DEF Moves, SentIn
<1>8. QED
  BY <1>1, <1>2, <1>3, <1>4, <1>5, <1>6, <1>7 DEF Marks

LEMMA SameRows ==
    ASSUME UNCHANGED <<outbox, published, publisher>>
    PROVE  Rows' = Rows /\ DoneRows' = DoneRows /\ Pending' = Pending
  BY DEF Rows, DoneRows, Pending

(* A new row comes after all others, and is still to be indexed.            *)
LEMMA NewRowIsPending ==
    ASSUME IInv, NEW n, DOMAIN outbox' = Rows \union {n}, \A i \in Rows : i < n,
           UNCHANGED <<published, publisher>>
    PROVE  Rows' = Rows \union {n} /\ DoneRows' = DoneRows /\ Pending' = Pending \union {n}
<1>1. n \notin DoneRows
  BY RowsAreNumbers
<1>2. Rows' = Rows \union {n} /\ DoneRows' = DoneRows
  BY DEF Rows, DoneRows
<1>3. QED
  BY <1>1, <1>2 DEF Pending

(* The tick of the one publisher moves on in order.                         *)
LEMMA OrderMoves ==
    ASSUME OnePublisher, NEW p \in Publishers, NEW marked, NEW sent, NEW batch,
           Moves(p, marked, sent, batch), InOrder(marked, sent, batch)
    PROVE  RowsInOrder'
<1>1. SUFFICES (InOrder(published, SentIn(publisher[p]), publisher[p].batch))'
  BY DEF RowsInOrder, OnePublisher
<1>2. /\ outbox' = outbox /\ Rows' = Rows
      /\ published' = marked /\ SentIn(publisher[p])' = sent /\ publisher'[p].batch = batch
  BY DEF Moves, Rows, SentIn
<1>3. QED
  BY <1>2 DEF InOrder, Ordered

LEMMA OrderStep ==
    ASSUME OnePublisher, IInv, RowsInOrder, CalmStep
    PROVE  RowsInOrder'
<1>0. DataOK
  BY DEF IInv
<1>1. CASE UNCHANGED <<outbox, published, publisher>>
  BY <1>1 DEF RowsInOrder, InOrder, Ordered, Rows, SentIn
<1>2. ASSUME NEW w \in WorkOrderIds, TableStep(w), ~UNCHANGED outbox
      PROVE  RowsInOrder'
  <2>1. PICK n : /\ DOMAIN outbox' = Rows \union {n}
                 /\ \A i \in Rows : i < n /\ outbox'[i] = outbox[i]
    BY <1>0, <1>2, RowsAppended
  <2>2. UNCHANGED <<published, publisher>>
    BY <1>2 DEF TableStep, Create, Complete, Change
  <2>3. Rows' = Rows \union {n}
    BY <2>1 DEF Rows
  <2>4. SUFFICES ASSUME NEW p \in Publishers
                 PROVE  (InOrder(published, SentIn(publisher[p]), publisher[p].batch))'
    BY DEF RowsInOrder
  <2> DEFINE sent == SentIn(publisher[p])
             batch == publisher[p].batch
  <2>5. published \subseteq Rows /\ sent \subseteq Rows /\ batch \subseteq Rows
    BY <1>0 DEF DataOK, IInv, TicksSound, TickSound, Rows
  <2>6. InOrder(published, sent, batch)
    BY DEF RowsInOrder
  <2>7. sent' = sent /\ batch' = batch
    BY <2>2 DEF SentIn
  <2> HIDE DEF sent, batch
  <2>8. QED
    BY <2>1, <2>2, <2>3, <2>5, <2>6, <2>7 DEF InOrder, Ordered, sent, batch
<1>3. ASSUME NEW p \in Publishers, Indexes(p)
      PROVE  RowsInOrder'
  <2> DEFINE sent == SentIn(publisher[p])
             batch == publisher[p].batch
  <2>1. /\ InOrder(published, sent, batch)
        /\ published \subseteq Rows /\ sent \subseteq Rows /\ Rows \subseteq Nat
    BY <1>0, RowsAreNumbers DEF RowsInOrder, DataOK, IInv, TicksSound, TickSound, Rows
  <2>2. CASE StartTick(p)
    <3>1. InOrder(published, {}, Rows \ published)
      BY <2>1 DEF InOrder, Ordered
    <3>2. QED
      BY <2>2, <3>1, TickGoes, OrderMoves
  <2>3. CASE Marks(p)
    <3>1. InOrder(published \union sent, {}, batch)
      BY <2>1 DEF InOrder, Ordered
    <3>2. QED
      BY <2>3, <3>1, TickGoes, OrderMoves
  <2>4. CASE MarkPublishedFails(p)
    BY <2>1, <2>4, TickGoes, OrderMoves
  <2>5. CASE StopsUnheard(p)
    <3>1. InOrder(published, {}, {})
      BY <2>1 DEF InOrder, Ordered
    <3>2. QED
      BY <2>5, <3>1, TickGoes, OrderMoves
  <2>6. ASSUME NEW i \in Rows, IndexRow(p, i)
        PROVE  RowsInOrder'
    <3>1. i \in batch /\ \A k \in batch : i <= k
      BY <2>6 DEF IndexRow, NextRow
    <3>2. InOrder(published, sent \union {i}, batch \ {i})
      <4> HIDE DEF sent, batch
      <4>1. batch \subseteq Rows \ (published \union sent)
        BY <2>1 DEF InOrder
      <4>2. \A k \in Rows \ (published \union sent) : outbox[i].id = outbox[k].id /\ k # i => i < k
        BY <2>1, <3>1, <4>1 DEF InOrder, Ordered
      <4>3. Ordered(published \union (sent \union {i}), Rows \ (published \union (sent \union {i})))
        BY <2>1, <4>2 DEF InOrder, Ordered
      <4>4. QED
        BY <2>1, <4>1, <4>3 DEF InOrder, Ordered
    <3>3. QED
      BY <2>6, <3>2, TickGoes, OrderMoves
  <2>7. ASSUME NEW i \in Rows, PassesOver(p, i)
        PROVE  RowsInOrder'
    <3>1. \A k \in batch \ {i} : outbox[k].id # outbox[i].id
      BY <2>7 DEF PassesOver, Overtaken
    <3>2. InOrder(published, sent, batch \ {i})
      <4> HIDE DEF sent, batch
      <4>1. QED
        BY <2>1, <3>1 DEF InOrder, Ordered
    <3>3. QED
      BY <2>7, <3>2, TickGoes, OrderMoves
  <2>8. QED
    BY <1>3, <2>2, <2>3, <2>4, <2>5, <2>6, <2>7 DEF Indexes, Rows
<1>4. ASSUME NEW r \in Rebuilds, Rebuilding(r)
      PROVE  UNCHANGED <<outbox, published, publisher>>
  BY <1>4 DEF Rebuilding, ReadTable, Clear, Write, RebuildRejected, tableVars
<1>5. ASSUME NEW w \in WorkOrderIds, TableStep(w), UNCHANGED outbox
      PROVE  UNCHANGED <<outbox, published, publisher>>
  BY <1>5 DEF TableStep, Create, Complete, Change
<1>6. QED
  BY <1>1, <1>2, <1>3, <1>4, <1>5 DEF CalmStep, Idles, tableVars

-----------------------------------------------------------------------------
(* Completions come.                                                        *)

(* What is shown, to be shown or being written of x is left.                *)
LEMMA ComingStays ==
    ASSUME NEW x \in WorkOrderIds, Coming(x), index'[x] = index[x], Pending \subseteq Pending',
           \A i \in Pending : outbox'[i] = outbox[i],
           \A r \in Rebuilds : rebuild[r].phase = "writing" =>
               rebuild'[r].phase = "writing" /\ rebuild'[r].docs[x] = rebuild[r].docs[x]
    PROVE  Coming(x)'
  BY DEF Coming, Completion

LEMMA TableStepComing ==
    ASSUME IInv, NEW w \in WorkOrderIds, TableStep(w),
           NEW x \in WorkOrderIds, status[x] = "Completed" => Coming(x), status'[x] = "Completed"
    PROVE  Coming(x)'
<1>0. DataOK
  BY DEF IInv
<1>1. UNCHANGED <<published, publisher, index>>
  BY DEF TableStep, Create, Complete, Change
<1>2. \A r \in Rebuilds : rebuild'[r].phase = rebuild[r].phase /\ rebuild'[r].docs = rebuild[r].docs
  <2>1. (\E rs : rebuild' = Raced(rs)) \/ UNCHANGED rebuild
    BY DEF TableStep, Create, Complete, Change
  <2>2. QED
    BY <1>0, <2>1, RacedRebuilds
<1>3. CASE status[x] = "Completed"
  <2>1. \A i \in Rows : i \in Rows' /\ outbox'[i] = outbox[i]
    BY TableKeeps DEF TableGrows, Rows
  <2>2. DoneRows' = DoneRows
    BY <1>1 DEF DoneRows, SentIn
  <2>3. Pending \subseteq Pending' /\ \A i \in Pending : outbox'[i] = outbox[i]
    BY <2>1, <2>2 DEF Pending
  <2>4. QED
    BY <1>1, <1>2, <1>3, <2>3, ComingStays
<1>4. CASE status[x] # "Completed"
  <2>1. Complete(w) /\ x = w
    BY <1>0, <1>4 DEF TableStep, Create, Complete, Change, DataOK
  <2>2. outbox' = Append(outbox, Completion(x)) /\ outbox \in Seq(Document)
    BY <1>0, <2>1 DEF Complete, Announce, Completion, DataOK
  <2>3. Completion(x) \in Document
    BY DEF Completion, Document, Statuses
  <2> DEFINE n == Len(outbox) + 1
  <2>4. /\ DOMAIN outbox' = Rows \union {n} /\ \A i \in Rows : i < n
        /\ outbox'[n] = Completion(x)
    BY <2>2, <2>3 DEF Rows
  <2> HIDE DEF n
  <2>5. n \in Pending'
    BY <1>1, <2>4, NewRowIsPending
  <2>6. QED
    BY <2>4, <2>5 DEF Coming, Completion
<1>5. QED
  BY <1>3, <1>4

(* The document of Create overwrites a completion only while a row of the   *)
(* completion is still to come.                                             *)
LEMMA StoreComing ==
    ASSUME OnePublisher, IInv, CreationsFirst, RowsInOrder, NEW p \in Publishers,
           NEW i \in Rows, i \in publisher[p].batch, UNCHANGED <<outbox, rebuild>>,
           \/ Store(outbox[i].id, outbox[i].status) /\ Pending \ {i} \subseteq Pending'
           \/ index' = index /\ Pending \subseteq Pending',
           NEW x \in WorkOrderIds, status[x] = "Completed", Coming(x)
    PROVE  Coming(x)'
<1>0. DataOK
  BY DEF IInv
<1>1. CASE index' = index /\ Pending \subseteq Pending'
  BY <1>1, ComingStays
<1>2. SUFFICES ASSUME Store(outbox[i].id, outbox[i].status), Pending \ {i} \subseteq Pending'
               PROVE  Coming(x)'
  BY <1>1
<1>3. outbox[i].id \in WorkOrderIds /\ outbox[i].status \in Statuses
  BY <1>0, OutboxRows DEF Rows
<1>4. /\ index'[outbox[i].id] = outbox[i].status
      /\ \A w \in WorkOrderIds : w # outbox[i].id => index'[w] = index[w]
  BY <1>0, <1>2, <1>3 DEF Store, DataOK
<1>5. CASE outbox[i].id # x
  BY <1>2, <1>4, <1>5 DEF Coming, Completion
<1>6. CASE outbox[i].id = x /\ outbox[i].status = "Completed"
  BY <1>4, <1>6 DEF Coming
<1>7. CASE outbox[i].id = x /\ outbox[i].status = "Open"
  <2>1. Honest(x, "Completed")
    BY DEF IInv, SourcesHonest
  <2>2. PICK k \in Rows : outbox[k] = Completion(x)
    BY <2>1 DEF Honest, Announced, Completion, Rows
  <2>3. outbox[k].id = x /\ outbox[k].status = "Completed"
    BY <2>2 DEF Completion
  <2>4. k # i /\ i < k
    BY <1>7, <2>3 DEF CreationsFirst
  <2>5. /\ i \in Rows \ (published \union SentIn(publisher[p]))
        /\ Ordered(published \union SentIn(publisher[p]),
                   Rows \ (published \union SentIn(publisher[p])))
    BY DEF RowsInOrder, InOrder
  <2>6. DoneRows = published \union SentIn(publisher[p])
    BY OneTick
  <2>7. k \notin DoneRows
    BY <1>7, <2>3, <2>4, <2>5, <2>6, RowsAreNumbers DEF Ordered
  <2>8. k \in Pending'
    BY <1>2, <2>4, <2>7 DEF Pending
  <2>9. QED
    BY <2>2, <2>8 DEF Coming
<1>8. QED
  BY <1>5, <1>6, <1>7 DEF CreationsFirst

LEMMA PublisherComing ==
    ASSUME OnePublisher, IInv, CreationsFirst, RowsInOrder, NEW p \in Publishers, Indexes(p),
           NEW x \in WorkOrderIds, status[x] = "Completed", Coming(x)
    PROVE  Coming(x)'
<1>0. DoneRows = published \union SentIn(publisher[p])
  BY OneTick
<1>1. ASSUME NEW marked, NEW sent, NEW batch, Moves(p, marked, sent, batch)
      PROVE  /\ outbox' = outbox
             /\ DoneRows' = marked \union sent /\ Pending' = Rows \ (marked \union sent)
  BY <1>1, OneTick DEF Moves, Rows, Pending
<1>a. ASSUME NEW marked, NEW sent, NEW batch, Moves(p, marked, sent, batch),
             marked \union sent \subseteq DoneRows
      PROVE  outbox' = outbox /\ Pending \subseteq Pending'
  <2>1. outbox' = outbox /\ Pending' = Rows \ (marked \union sent)
    BY <1>1, <1>a
  <2>2. QED
    BY <1>a, <2>1 DEF Pending
<1>2. CASE StartTick(p) \/ Marks(p) \/ MarkPublishedFails(p)
  <2>1. ASSUME StartTick(p) PROVE outbox' = outbox /\ Pending \subseteq Pending'
    <3>1. Moves(p, published, {}, Rows \ published)
      BY <2>1, TickGoes
    <3>2. QED
      BY <1>0, <1>a, <3>1
  <2>2. ASSUME Marks(p) PROVE outbox' = outbox /\ Pending \subseteq Pending'
    <3>1. Moves(p, published \union SentIn(publisher[p]), {}, publisher[p].batch)
      BY <2>2, TickGoes
    <3>2. QED
      BY <1>0, <1>a, <3>1
  <2>3. ASSUME MarkPublishedFails(p) PROVE outbox' = outbox /\ Pending \subseteq Pending'
    <3>1. Moves(p, published, SentIn(publisher[p]), publisher[p].batch)
      BY <2>3, TickGoes
    <3>2. QED
      BY <1>0, <1>a, <3>1
  <2>4. outbox' = outbox /\ Pending \subseteq Pending'
    BY <1>2, <2>1, <2>2, <2>3
  <2>5. UNCHANGED <<index, rebuild>>
    BY <1>2 DEF StartTick, Marks, MarkPublished, MarkEventPublished, MarkPublishedFails
  <2>6. QED
    BY <2>5, <2>4, ComingStays
<1>3. CASE StopsUnheard(p)
  <2>1. outbox' = outbox /\ Pending \subseteq Pending'
    <3>1. Moves(p, published, {}, {})
      BY <1>3, TickGoes
    <3>2. QED
      BY <1>0, <1>a, <3>1
  <2>2. /\ index' = index
        /\ \A r \in Rebuilds : rebuild[r].phase = "writing" => rebuild'[r] = rebuild[r]
    BY <1>3 DEF StopsUnheard, ProcessStops
  <2>3. QED
    BY <2>1, <2>2, ComingStays
<1>4. ASSUME NEW i \in Rows, IndexRow(p, i)
      PROVE  Coming(x)'
  <2>1. /\ i \in publisher[p].batch /\ UNCHANGED <<outbox, rebuild>>
        /\ Store(outbox[i].id, outbox[i].status)
    BY <1>4 DEF IndexRow, NextRow, tableVars
  <2>2. Moves(p, published, SentIn(publisher[p]) \union {i}, publisher[p].batch \ {i})
    BY <1>4, TickGoes
  <2>3. Pending \ {i} \subseteq Pending'
    BY <1>0, <1>1, <2>2 DEF Pending
  <2>4. QED
    BY <2>1, <2>3, StoreComing
<1>5. ASSUME NEW i \in Rows, PassesOver(p, i)
      PROVE  Coming(x)'
  <2>1. /\ i \in publisher[p].batch /\ UNCHANGED <<outbox, rebuild>>
        /\ Store(outbox[i].id, outbox[i].status) \/ index' = index
    BY <1>5 DEF PassesOver, IndexRowFails, IndexRowRejected, StoreFails, NextRow, tableVars
  <2>2. Moves(p, published, SentIn(publisher[p]), publisher[p].batch \ {i})
    BY <1>5, TickGoes
  <2>3. Pending \subseteq Pending'
    BY <1>0, <1>1, <2>2 DEF Pending
  <2>4. QED
    BY <2>1, <2>3, StoreComing
<1>6. QED
  BY <1>2, <1>3, <1>4, <1>5 DEF Indexes, Rows

LEMMA RebuildComing ==
    ASSUME IInv, RebuildsCurrent, NEW r \in Rebuilds, Rebuilding(r),
           NEW x \in WorkOrderIds, status[x] = "Completed", Coming(x)
    PROVE  Coming(x)'
<1>0. DataOK
  BY DEF IInv
<1>1. UNCHANGED <<outbox, published, publisher>>
  BY DEF Rebuilding, ReadTable, Clear, Write, RebuildRejected, tableVars
<1>2. Pending' = Pending
  BY <1>1, SameRows
<1>3. NoDocuments[x] = None /\ None # "Completed"
  BY SearchAssumption DEF NoDocuments, Statuses
<1>4. rebuild[r].docs \in Copies
  BY <1>0 DEF DataOK, RebuildState, Copies
<1>5. ASSUME NEW org \in Organizations, ReadTable(r, org)
      PROVE  Coming(x)'
  <2>1. \A o \in Rebuilds \ {r} : Stays(o)
    BY <1>0, <1>5, ReadTableReads
  <2>2. rebuild[r].phase = "idle" /\ index' = index
    BY <1>5 DEF ReadTable
  <2>3. QED
    BY <1>1, <1>2, <2>1, <2>2, ComingStays DEF Stays
<1>a. CASE RebuildRejected(r) /\ rebuild[r].phase # "writing"
  <2>1. rebuild' = [rebuild EXCEPT ![r] = NoRebuild] /\ index' = index
    BY <1>a DEF RebuildRejected, Abort
  <2>2. \A o \in Rebuilds \ {r} : rebuild'[o] = rebuild[o]
    BY <1>0, <2>1 DEF DataOK
  <2>3. QED
    BY <1>1, <1>2, <1>a, <2>1, <2>2, ComingStays
<1>6. CASE Clear(r)
  <2>1. Continue(r, rebuild[r].docs) /\ rebuild[r].phase = "clearing" /\ Delete(OfOrg(rebuild[r].org))
    BY <1>6 DEF Clear
  <2>2. /\ rebuild'[r].docs = rebuild[r].docs
        /\ rebuild[r].docs # NoDocuments => rebuild'[r].phase = "writing"
        /\ \A o \in Rebuilds \ {r} : rebuild'[o] = rebuild[o]
    BY <1>0, <1>4, <2>1, ContinueGoes
  <2>3. CASE OrgOf[x] = rebuild[r].org
    <3>1. rebuild[r].docs[x] = "Completed"
      BY <2>1, <2>3 DEF RebuildsCurrent
    <3>2. rebuild'[r].phase = "writing"
      BY <1>3, <2>2, <3>1
    <3>3. QED
      BY <2>2, <3>1, <3>2 DEF Coming
  <2>4. CASE OrgOf[x] # rebuild[r].org
    <3>1. index'[x] = index[x]
      BY <2>1, <2>4 DEF Delete, OfOrg
    <3>2. QED
      BY <1>1, <1>2, <2>1, <2>2, <3>1 DEF Coming
  <2>5. QED
    BY <2>3, <2>4
<1>7. ASSUME NEW w \in WorkOrderIds, Write(r, w)
      PROVE  Coming(x)'
  <2>1. rebuild[r].docs[w] \in Statuses /\ rebuild[r].phase = "writing"
    BY <1>4, <1>7 DEF Write, Copies
  <2>2. PICK docs \in Copies : docs = [rebuild[r].docs EXCEPT ![w] = None]
    BY <1>4 DEF Copies
  <2>3. Store(w, rebuild[r].docs[w]) /\ Continue(r, docs) /\ rebuild[r].docs[w] # None
    BY <1>7, <2>2 DEF Write
  <2>4. /\ index'[w] = rebuild[r].docs[w]
        /\ \A y \in WorkOrderIds : y # w => index'[y] = index[y]
    BY <1>0, <2>3 DEF Store, DataOK
  <2>5. CASE x = w
    <3>1. rebuild[r].docs[x] = "Completed"
      BY <2>3, <2>5 DEF RebuildsCurrent
    <3>2. QED
      BY <2>4, <2>5, <3>1 DEF Coming
  <2>6. CASE x # w
    <3>1. /\ rebuild'[r].docs = docs
          /\ docs # NoDocuments => rebuild'[r].phase = "writing"
          /\ \A o \in Rebuilds \ {r} : rebuild'[o] = rebuild[o]
      BY <1>0, <2>3, ContinueGoes
    <3>2. docs[x] = rebuild[r].docs[x]
      BY <1>4, <2>2, <2>6 DEF Copies
    <3>3. rebuild[r].docs[x] = "Completed" =>
            rebuild'[r].phase = "writing" /\ rebuild'[r].docs[x] = "Completed"
      BY <1>3, <3>1, <3>2
    <3>4. QED
      BY <1>1, <1>2, <2>4, <2>6, <3>1, <3>3 DEF Coming
  <2>7. QED
    BY <2>5, <2>6
<1>8. QED
  BY <1>5, <1>6, <1>7, <1>a DEF Rebuilding

LEMMA ComingStep ==
    ASSUME OnePublisher, IInv, CreationsFirst, RebuildsCurrent, RowsInOrder, CompletionsComing,
           CalmStep
    PROVE  CompletionsComing'
<1>1. \A x \in WorkOrderIds : status[x] = "Completed" => Coming(x)
  BY DEF CompletionsComing
<1>2. SUFFICES ASSUME NEW x \in WorkOrderIds, status'[x] = "Completed"
               PROVE  Coming(x)'
  BY DEF CompletionsComing
<1>3. ASSUME NEW w \in WorkOrderIds, TableStep(w)
      PROVE  Coming(x)'
  BY <1>1, <1>2, <1>3, TableStepComing
<1>4. ASSUME NEW p \in Publishers, Indexes(p)
      PROVE  Coming(x)'
  <2>1. status' = status
    BY <1>4 DEF Indexes, StartTick, Marks, MarkPublished, MarkEventPublished, MarkPublishedFails,
       StopsUnheard, ProcessStops, IndexRow, PassesOver, IndexRowFails, IndexRowRejected, tableVars
  <2>2. QED
    BY <1>1, <1>2, <1>4, <2>1, PublisherComing
<1>5. ASSUME NEW r \in Rebuilds, Rebuilding(r)
      PROVE  Coming(x)'
  <2>1. status' = status
    BY <1>5 DEF Rebuilding, ReadTable, Clear, Write, RebuildRejected, tableVars
  <2>2. QED
    BY <1>1, <1>2, <1>5, <2>1, RebuildComing
<1>6. ASSUME Idles
      PROVE  Coming(x)'
  <2>1. UNCHANGED <<status, outbox, published, publisher, index, rebuild>>
    BY <1>6 DEF Idles, tableVars
  <2>2. QED
    BY <1>1, <1>2, <2>1, SameRows, ComingStays
<1>7. QED
  BY <1>3, <1>4, <1>5, <1>6 DEF CalmStep

(* With one publisher, the index shows every completed work order as        *)
(* Completed when nothing is left to do, whatever calls, saves and ticks    *)
(* have failed before, but for what sets it back for good: see calm.  A     *)
(* second publisher that read the outbox before the completion was          *)
(* announced could still index the document of Create after it.             *)
THEOREM CalmCompletionsShow ==
    ASSUME OnePublisher
    PROVE  Spec => []CompletionsShowInCalm
<1>1. Init => MirrorInv
  BY DEF Init, MirrorInv, RowsInOrder, InOrder, Ordered, CompletionsComing, Rows, SentIn, NoTick
<1>2. CalmInv /\ MirrorInv /\ [Next]_vars => MirrorInv'
  <2> SUFFICES ASSUME CalmInv, MirrorInv, [Next]_vars, calm'
               PROVE  RowsInOrder' /\ CompletionsComing'
    BY DEF MirrorInv
  <2>1. calm /\ CalmStep
    BY CalmSteps
  <2>2. QED
    BY <2>1, OrderStep, ComingStep DEF CalmInv, MirrorInv
<1>3. CalmInv /\ MirrorInv => CompletionsShowInCalm
  <2> SUFFICES ASSUME CalmInv, MirrorInv, calm, Quiet, NEW w \in WorkOrderIds,
                      status[w] = "Completed"
               PROVE  index[w] = "Completed"
    BY DEF CompletionsShowInCalm, Mirrored
  <2>1. Pending = {}
    BY DEF Quiet, Pending, DoneRows, Rows
  <2>2. \A r \in Rebuilds : rebuild[r].phase # "writing"
    BY DEF Quiet
  <2>3. QED
    BY <2>1, <2>2 DEF MirrorInv, CompletionsComing, Coming
<1>4. QED
  BY <1>1, <1>2, <1>3, CalmInvariance, PTL DEF Spec
=============================================================================
