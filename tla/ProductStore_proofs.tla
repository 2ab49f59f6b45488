-------------------------- MODULE ProductStore_proofs --------------------------
(***************************************************************************)
(* Proofs about ProductStore, for any Skus, edits, Ids, requests and lists  *)
(* of Skus and any number of updates of a row.                              *)
(***************************************************************************)
EXTENDS ProductStore, TLAPS, FiniteSetTheorems, SequenceTheorems

RequestState == [phase : Phases, todo : Seq(Skus), rows : SUBSET Ids, id : Ids \union {0},
                 version : 0 .. MaxVersion, edits : SUBSET Edits, new : SUBSET Edits]

Typed == TypeOK /\ request \in [Requests -> RequestState]

(* Only a bulk creation has rows that are not committed, nobody has edited  *)
(* them, and no two have one in common; who creates has something to.       *)
RowsSound ==
    /\ \A q \in Requests :
         /\ request[q].phase # "bulk" => request[q].rows = {}
         /\ request[q].phase \in {"checking", "creating"} => request[q].todo # <<>>
         /\ \A id \in request[q].rows : products[id].edits = {}
    /\ \A q, o \in Requests : q # o => request[q].rows \cap request[o].rows = {}

Reading == {"editing", "updating", "removing"}

(* What a request has read: a committed row, at a version the row has or    *)
(* has had.  While the row has it, the request has seen every edit of it.   *)
ReadSound(q) ==
    request[q].phase \in Reading =>
        /\ request[q].id \in Ids \ (free \union Uncommitted)
        /\ request[q].phase # "removing" => request[q].version < MaxVersion
        /\ request[q].id \in DOMAIN products =>
             request[q].version <= products[request[q].id].version
        /\ Current(q) => products[request[q].id].edits \subseteq request[q].edits

ReadsSound == \A q \in Requests : ReadSound(q)

IInv == Typed /\ RowsSound /\ ReadsSound /\ UniqueSkus /\ NoEditLost

-----------------------------------------------------------------------------
(* What a step of a request does to the request and to the others.          *)
Others(q) ==
    /\ request' \in [Requests -> RequestState]
    /\ \A o \in Requests : o # q => request'[o] = request[o]

Answered(q) == Others(q) /\ request'[q] = Idle

Began(q, phase, todo) ==
    /\ Others(q)
    /\ request'[q].phase = phase /\ request'[q].todo = todo
    /\ request'[q].rows = {} /\ request'[q].new = {}

Moved(q, phase) ==
    /\ Others(q)
    /\ request'[q].phase = phase
    /\ request'[q].todo = request[q].todo /\ request'[q].rows = request[q].rows
    /\ request'[q].id = request[q].id /\ request'[q].version = request[q].version
    /\ request'[q].edits = request[q].edits /\ request'[q].new = request[q].new

ReadBy(q, phase, id, new) ==
    /\ Others(q)
    /\ request'[q].phase = phase /\ request'[q].rows = {} /\ request'[q].todo = <<>>
    /\ request'[q].id = id /\ request'[q].version = products[id].version
    /\ request'[q].edits = products[id].edits \union new /\ request'[q].new = new

LEMMA Replaces ==
    ASSUME Typed, NEW q \in Requests, NEW r \in RequestState, request' = [request EXCEPT ![q] = r]
    PROVE  Others(q) /\ request'[q] = r
  BY DEF Typed, Others

LEMMA IdleIsState ==
    /\ Idle \in RequestState
    /\ Idle.phase = "idle" /\ Idle.rows = {} /\ Idle.todo = <<>> /\ Idle.new = {}
  BY ProductAssumption DEF Idle, RequestState, Phases

LEMMA AnswerAnswers ==
    ASSUME Typed, NEW q \in Requests, Answer(q)
    PROVE  Answered(q)
  BY Replaces, IdleIsState DEF Answer, Answered

LEMMA BeginBegins ==
    ASSUME Typed, NEW q \in Requests, NEW phase \in Phases, NEW todo \in Seq(Skus),
           request' = [request EXCEPT ![q] = [Idle EXCEPT !.phase = phase, !.todo = todo]]
    PROVE  Began(q, phase, todo)
<1>1. PICK a : a = [Idle EXCEPT !.phase = phase]
  OBVIOUS
<1>2. PICK r : r = [a EXCEPT !.todo = todo]
  OBVIOUS
<1>3. a \in RequestState /\ a.phase = phase /\ a.rows = {} /\ a.new = {}
  BY <1>1, IdleIsState DEF RequestState
<1>4. /\ r \in RequestState
      /\ r.phase = phase /\ r.todo = todo /\ r.rows = {} /\ r.new = {}
  BY <1>2, <1>3 DEF RequestState
<1>5. request' = [request EXCEPT ![q] = r]
  BY <1>1, <1>2
<1>6. Others(q) /\ request'[q] = r
  BY <1>4, <1>5, Replaces
<1>7. QED
  BY <1>4, <1>6 DEF Began

LEMMA ToMoves ==
    ASSUME Typed, NEW q \in Requests, NEW phase \in Phases,
           request' = [request EXCEPT ![q].phase = phase]
    PROVE  Moved(q, phase)
<1>1. request[q] \in RequestState
  BY DEF Typed
<1>2. PICK r : r = [request[q] EXCEPT !.phase = phase]
  OBVIOUS
<1>3. /\ r \in RequestState /\ r.phase = phase
      /\ r.todo = request[q].todo /\ r.rows = request[q].rows /\ r.id = request[q].id
      /\ r.version = request[q].version /\ r.edits = request[q].edits /\ r.new = request[q].new
  BY <1>1, <1>2 DEF RequestState
<1>4. Others(q) /\ request'[q] = r
  BY <1>2, <1>3, Replaces
<1>5. QED
  BY <1>3, <1>4 DEF Moved

Read(phase, id, edits) ==
    [Idle EXCEPT !.phase = phase, !.id = id, !.version = products[id].version, !.edits = edits]

LEMMA ReadFields ==
    ASSUME Typed, NEW id \in DOMAIN products, NEW edits \in SUBSET Edits, NEW phase \in Phases,
           NEW d, d = Read(phase, id, edits)
    PROVE  /\ d \in RequestState
           /\ d.phase = phase /\ d.rows = {} /\ d.todo = <<>> /\ d.id = id /\ d.new = {}
           /\ d.version = products[id].version /\ d.edits = edits
<1>1. products[id] \in Product /\ id \in Ids
  BY DEF Typed, TypeOK
<1>2. products[id].version \in 0 .. MaxVersion
  BY <1>1, ProductAssumption DEF Product
<1>3. PICK a : a = [Idle EXCEPT !.phase = phase]
  OBVIOUS
<1>4. PICK b : b = [a EXCEPT !.id = id]
  OBVIOUS
<1>5. PICK c : c = [b EXCEPT !.version = products[id].version]
  OBVIOUS
<1>6. d = [c EXCEPT !.edits = edits]
  BY <1>3, <1>4, <1>5 DEF Read
<1>7. a \in RequestState /\ a.phase = phase /\ a.rows = {} /\ a.todo = <<>> /\ a.new = {}
  BY <1>3, IdleIsState DEF RequestState
<1>8. /\ b \in RequestState /\ b.phase = phase /\ b.rows = {} /\ b.todo = <<>> /\ b.new = {}
      /\ b.id = id
  BY <1>1, <1>4, <1>7 DEF RequestState
<1>9. /\ c \in RequestState /\ c.phase = phase /\ c.rows = {} /\ c.todo = <<>> /\ c.new = {}
      /\ c.id = id /\ c.version = products[id].version
  BY <1>2, <1>5, <1>8 DEF RequestState
<1>10. QED
  BY <1>6, <1>9 DEF RequestState

LEMMA DeleteReads ==
    ASSUME Typed, NEW q \in Requests, NEW id \in DOMAIN products, Delete(q, id)
    PROVE  ReadBy(q, "removing", id, {})
<1>1. PICK d : d = Read("removing", id, products[id].edits)
  OBVIOUS
<1>2. products[id].edits \in SUBSET Edits
  BY DEF Typed, TypeOK, Product
<1>3. /\ d \in RequestState
      /\ d.phase = "removing" /\ d.rows = {} /\ d.todo = <<>> /\ d.id = id /\ d.new = {}
      /\ d.version = products[id].version /\ d.edits = products[id].edits
  BY <1>1, <1>2, ReadFields DEF Phases
<1>4. request' = [request EXCEPT ![q] = d]
  BY <1>1 DEF Delete, Read
<1>5. Others(q) /\ request'[q] = d
  BY <1>3, <1>4, Replaces
<1>6. QED
  BY <1>3, <1>5 DEF ReadBy

LEMMA UpdateReads ==
    ASSUME Typed, NEW q \in Requests, NEW id \in DOMAIN products, NEW e \in Edits, Update(q, id, e)
    PROVE  ReadBy(q, "editing", id, {e})
<1>1. PICK d : d = Read("editing", id, products[id].edits \union {e})
  OBVIOUS
<1>2. PICK r : r = [d EXCEPT !.new = {e}]
  OBVIOUS
<1>3. products[id].edits \union {e} \in SUBSET Edits
  BY DEF Typed, TypeOK, Product
<1>4. /\ d \in RequestState
      /\ d.phase = "editing" /\ d.rows = {} /\ d.todo = <<>> /\ d.id = id
      /\ d.version = products[id].version /\ d.edits = products[id].edits \union {e}
  BY <1>1, <1>3, ReadFields DEF Phases
<1>5. /\ r \in RequestState
      /\ r.phase = "editing" /\ r.rows = {} /\ r.todo = <<>> /\ r.id = id /\ r.new = {e}
      /\ r.version = products[id].version /\ r.edits = products[id].edits \union {e}
  BY <1>2, <1>4 DEF RequestState
<1>6. request' = [request EXCEPT ![q] = r]
  BY <1>1, <1>2 DEF Update, Read
<1>7. Others(q) /\ request'[q] = r
  BY <1>5, <1>6, Replaces
<1>8. QED
  BY <1>5, <1>7 DEF ReadBy

(* A row inserted is new, and the others stay as they are.                  *)
Inserted(id, sku) ==
    /\ id \in free /\ free' = free \ {id}
    /\ id \in Ids /\ id \notin DOMAIN products
    /\ DOMAIN products' = DOMAIN products \union {id}
    /\ products'[id] = NewProduct(sku)
    /\ \A i \in DOMAIN products : products'[i] = products[i]

LEMMA InsertInserts ==
    ASSUME Typed, NEW id, NEW sku, Insert(id, sku)
    PROVE  Inserted(id, sku)
  BY DEF Typed, TypeOK, Insert, Inserted

(* A row updated has a later version and what was sent.                     *)
Updated(id, edits) ==
    /\ DOMAIN products' = DOMAIN products
    /\ products'[id].sku = products[id].sku
    /\ products'[id].version = products[id].version + 1
    /\ products'[id].edits = edits
    /\ products'[id] \in [sku : Skus, version : Nat, edits : SUBSET Edits]
    /\ \A i \in DOMAIN products : i # id => products'[i] = products[i]

LEMMA UpdateUpdates ==
    ASSUME Typed, NEW id \in DOMAIN products, NEW edits \in SUBSET Edits,
           products' = [products EXCEPT ![id].version = @ + 1, ![id].edits = edits]
    PROVE  Updated(id, edits)
<1>1. products[id] \in Product /\ MaxVersion \in Nat
  BY ProductAssumption DEF Typed, TypeOK
<1>2. PICK n : n = [products[id] EXCEPT !.version = @ + 1]
  OBVIOUS
<1>3. PICK r : r = [n EXCEPT !.edits = edits]
  OBVIOUS
<1>4. products' = [products EXCEPT ![id] = r]
  BY <1>2, <1>3
<1>5. /\ n \in [sku : Skus, version : Nat, edits : SUBSET Edits]
      /\ n.sku = products[id].sku /\ n.version = products[id].version + 1
  BY <1>1, <1>2 DEF Product
<1>6. /\ r \in [sku : Skus, version : Nat, edits : SUBSET Edits]
      /\ r.sku = products[id].sku /\ r.version = products[id].version + 1 /\ r.edits = edits
  BY <1>3, <1>5
<1>7. QED
  BY <1>4, <1>6 DEF Updated

(* Rows rolled back or deleted go, and the others stay as they are.         *)
Restricted(gone) ==
    /\ DOMAIN products' = DOMAIN products \ gone
    /\ \A i \in DOMAIN products' : products'[i] = products[i]

LEMMA RollbackRestricts ==
    ASSUME Typed, NEW q \in Requests, Rollback(q)
    PROVE  Restricted(request[q].rows) /\ Answered(q)
  BY AnswerAnswers DEF Rollback, Restricted

-----------------------------------------------------------------------------
(* The rows nobody else may see yet.                                        *)
LEMMA UncommittedRows ==
    ASSUME NEW q \in Requests, Others(q)
    PROVE  /\ request'[q].rows = request[q].rows => Uncommitted' = Uncommitted
           /\ \A id : request'[q].rows = request[q].rows \union {id} =>
                        Uncommitted' = Uncommitted \union {id}
           /\ request'[q].rows = {} /\ RowsSound => Uncommitted' = Uncommitted \ request[q].rows
<1>1. ASSUME NEW i
      PROVE  /\ i \in Uncommitted <=> \E o \in Requests : i \in request[o].rows
             /\ i \in Uncommitted' <=> \E o \in Requests : i \in request'[o].rows
  BY DEF Uncommitted
<1>2. ASSUME NEW i
      PROVE  \/ i \in request[q].rows
             \/ i \in Uncommitted <=> \E o \in Requests \ {q} : i \in request[o].rows
  BY <1>1
<1>3. ASSUME NEW i
      PROVE  \/ i \in request'[q].rows
             \/ i \in Uncommitted' <=> \E o \in Requests \ {q} : i \in request[o].rows
  BY <1>1 DEF Others
<1>4. ASSUME request'[q].rows = request[q].rows
      PROVE  Uncommitted' = Uncommitted
  <2>1. ASSUME NEW i
        PROVE  i \in Uncommitted' <=> i \in Uncommitted
    BY <1>1, <1>2, <1>3, <1>4
  <2>2. QED
    BY <2>1 DEF Uncommitted
<1>5. ASSUME NEW id, request'[q].rows = request[q].rows \union {id}
      PROVE  Uncommitted' = Uncommitted \union {id}
  <2>1. ASSUME NEW i
        PROVE  i \in Uncommitted' <=> i \in Uncommitted \union {id}
    BY <1>1, <1>2, <1>3, <1>5
  <2>2. QED
    BY <2>1 DEF Uncommitted
<1>6. ASSUME request'[q].rows = {}, RowsSound
      PROVE  Uncommitted' = Uncommitted \ request[q].rows
  <2>1. ASSUME NEW i
        PROVE  i \in Uncommitted' <=> i \in Uncommitted \ request[q].rows
    <3>1. i \in request[q].rows => ~\E o \in Requests \ {q} : i \in request[o].rows
      BY <1>6 DEF RowsSound
    <3>2. QED
      BY <1>1, <1>2, <1>3, <1>6, <3>1
  <2>2. QED
    BY <2>1 DEF Uncommitted
<1>7. QED
  BY <1>4, <1>5, <1>6

-----------------------------------------------------------------------------
(* The shapes a step can have for the table: most leave it alone, ...       *)
StepOf(q) ==
    \/ \E sku \in Skus : Create(q, sku)
    \/ \E skus \in Batches : BulkCreate(q, skus)
    \/ \E id \in Committed : Delete(q, id) \/ \E e \in Edits : Update(q, id, e)
    \/ Cancelled(q)
    \/ Proceed(q)

SameTable(q) == UNCHANGED <<products, free>> /\ request'[q].rows = request[q].rows

(* ... one ends a transaction and keeps its rows, or gives them up, ...     *)
Commits(q) ==
    /\ UNCHANGED <<products, free>>
    /\ request[q].phase = "bulk" /\ request[q].todo = <<>> /\ request'[q].rows = {}

RollsBack(q) ==
    Restricted(request[q].rows) /\ request'[q].rows = {} /\ UNCHANGED free

(* ... and one adds, changes or takes away a row.                           *)
Adds(q, id, sku) ==
    /\ Inserted(id, sku) /\ sku \in Skus
    /\ ~Held(q, sku) /\ ~Duplicate(q, sku)
    /\ \/ request[q].phase = "creating" /\ request'[q].rows = request[q].rows
       \/ request[q].phase = "bulk" /\ request'[q].rows = request[q].rows \union {id}

Changes(q) ==
    /\ request[q].phase = "updating" /\ Current(q) /\ UNCHANGED free
    /\ Updated(request[q].id, request[q].edits) /\ request'[q].rows = request[q].rows

TakesAway(q) ==
    /\ request[q].phase = "removing" /\ Current(q) /\ UNCHANGED free
    /\ Restricted({request[q].id}) /\ request'[q].rows = request[q].rows

Shape(q) ==
    \/ SameTable(q) \/ Commits(q) \/ RollsBack(q) \/ Changes(q) \/ TakesAway(q)
    \/ \E id \in Ids, sku \in Skus : Adds(q, id, sku)

LEMMA BeginnersBegin ==
    ASSUME Typed, NEW q \in Requests
    PROVE  /\ \A sku \in Skus : Create(q, sku) => Began(q, "checking", <<sku>>)
           /\ \A skus \in Batches : BulkCreate(q, skus) => Began(q, "bulk", skus)
<1>1. ASSUME NEW sku \in Skus, Create(q, sku)
      PROVE  Began(q, "checking", <<sku>>)
  <2>1. <<sku>> \in Seq(Skus)
    OBVIOUS
  <2>2. request' = [request EXCEPT ![q] = [Idle EXCEPT !.phase = "checking", !.todo = <<sku>>]]
    BY <1>1 DEF Create
  <2>3. QED
    BY <2>1, <2>2, BeginBegins DEF Phases
<1>2. ASSUME NEW skus \in Batches, BulkCreate(q, skus)
      PROVE  Began(q, "bulk", skus)
  BY <1>2, BeginBegins, ProductAssumption DEF BulkCreate, Phases
<1>3. QED
  BY <1>1, <1>2

(* The next product of a list.                                              *)
LEMMA HeadIsSku ==
    ASSUME Typed, NEW q \in Requests, request[q].todo # <<>>
    PROVE  Head(request[q].todo) \in Skus /\ Tail(request[q].todo) \in Seq(Skus)
  BY DEF Typed, RequestState

LEMMA BulkInsertInserts ==
    ASSUME Typed, NEW q \in Requests, BulkInsert(q)
    PROVE  \E id \in Ids :
             /\ Others(q) /\ Inserted(id, Head(request[q].todo))
             /\ request'[q].phase = "bulk" /\ request'[q].todo = Tail(request[q].todo)
             /\ request'[q].rows = request[q].rows \union {id}
<1>1. PICK id \in free :
        /\ Insert(id, Head(request[q].todo))
        /\ request' = [request EXCEPT ![q].todo = Tail(@), ![q].rows = @ \union {id}]
  BY DEF BulkInsert
<1>2. Inserted(id, Head(request[q].todo)) /\ id \in Ids
  BY <1>1, InsertInserts DEF Typed, TypeOK
<1>3. request[q] \in RequestState /\ Tail(request[q].todo) \in Seq(Skus)
  BY HeadIsSku DEF Typed, BulkInsert
<1>4. PICK a : a = [request[q] EXCEPT !.todo = Tail(@)]
  OBVIOUS
<1>5. PICK r : r = [a EXCEPT !.rows = @ \union {id}]
  OBVIOUS
<1>6. /\ a \in RequestState /\ a.phase = request[q].phase /\ a.rows = request[q].rows
      /\ a.todo = Tail(request[q].todo)
  BY <1>3, <1>4 DEF RequestState
<1>7. /\ r \in RequestState /\ r.phase = request[q].phase /\ r.todo = Tail(request[q].todo)
      /\ r.rows = request[q].rows \union {id}
  BY <1>2, <1>5, <1>6 DEF RequestState
<1>8. request' = [request EXCEPT ![q] = r]
  BY <1>1, <1>4, <1>5
<1>9. Others(q) /\ request'[q] = r
  BY <1>7, <1>8, Replaces
<1>10. QED
  BY <1>2, <1>7, <1>9 DEF BulkInsert

(* Every step has one of the shapes, and is a step of one request.          *)
LEMMA StepShape ==
    ASSUME IInv, NEW q \in Requests, StepOf(q)
    PROVE  Others(q) /\ Shape(q)
<1>1. Typed /\ RowsSound /\ request[q] \in RequestState
  BY DEF IInv, Typed
<1>2. request[q].phase # "bulk" => request[q].rows = {}
  BY <1>1 DEF RowsSound
<1>3. ASSUME NEW sku \in Skus, Create(q, sku)
      PROVE  Others(q) /\ SameTable(q)
  <2>1. Began(q, "checking", <<sku>>)
    BY <1>1, <1>3, BeginnersBegin
  <2>2. QED
    BY <1>2, <1>3, <2>1 DEF Create, Began, SameTable
<1>4. ASSUME NEW skus \in Batches, BulkCreate(q, skus)
      PROVE  Others(q) /\ SameTable(q)
  <2>1. Began(q, "bulk", skus)
    BY <1>1, <1>4, BeginnersBegin
  <2>2. QED
    BY <1>2, <1>4, <2>1 DEF BulkCreate, Began, SameTable
<1>5. ASSUME NEW id \in Committed, NEW e \in Edits, Update(q, id, e)
      PROVE  Others(q) /\ SameTable(q)
  <2>1. id \in DOMAIN products
    BY DEF Committed
  <2>2. ReadBy(q, "editing", id, {e})
    BY <1>1, <1>5, <2>1, UpdateReads
  <2>3. QED
    BY <1>2, <1>5, <2>2 DEF Update, ReadBy, SameTable
<1>6. ASSUME NEW id \in Committed, Delete(q, id)
      PROVE  Others(q) /\ SameTable(q)
  <2>1. id \in DOMAIN products
    BY DEF Committed
  <2>2. ReadBy(q, "removing", id, {})
    BY <1>1, <1>6, <2>1, DeleteReads
  <2>3. QED
    BY <1>2, <1>6, <2>2 DEF Delete, ReadBy, SameTable
<1>7. ASSUME Rollback(q), UNCHANGED free
      PROVE  Others(q) /\ RollsBack(q)
  BY <1>1, <1>7, RollbackRestricts, IdleIsState DEF Answered, RollsBack
<1>8. CASE Cancelled(q) \/ BulkDuplicate(q) \/ DeadlockVictim(q)
  <2>1. Rollback(q) /\ UNCHANGED free
    BY <1>8 DEF Cancelled, BulkDuplicate, DeadlockVictim, Rollback
  <2>2. QED
    BY <1>7, <2>1 DEF Shape
<1>9. CASE CheckSku(q)
  <2>1. Answered(q) \/ Moved(q, "creating")
    BY <1>1, <1>9, AnswerAnswers, ToMoves DEF CheckSku, Phases
  <2>2. QED
    BY <1>2, <1>9, <2>1, IdleIsState DEF CheckSku, Answered, Moved, SameTable, Shape
<1>10. CASE SaveCreate(q)
  <2>1. Answered(q) /\ request[q].rows = {} /\ Head(request[q].todo) \in Skus
    BY <1>1, <1>2, <1>10, AnswerAnswers, HeadIsSku DEF SaveCreate, RowsSound
  <2>2. request'[q].rows = request[q].rows /\ Others(q)
    BY <2>1, IdleIsState DEF Answered
  <2>3. CASE Duplicate(q, Head(request[q].todo))
    BY <1>10, <2>2, <2>3 DEF SaveCreate, SameTable, Shape
  <2>4. CASE ~Duplicate(q, Head(request[q].todo))
    <3>1. PICK id \in free : Insert(id, Head(request[q].todo))
      BY <1>10, <2>4 DEF SaveCreate
    <3>2. Inserted(id, Head(request[q].todo)) /\ id \in Ids
      BY <1>1, <3>1, InsertInserts DEF Inserted
    <3>3. Adds(q, id, Head(request[q].todo))
      BY <1>10, <2>1, <2>2, <2>4, <3>2 DEF SaveCreate, Adds
    <3>4. QED
      BY <2>1, <2>2, <3>2, <3>3 DEF Shape
  <2>5. QED
    BY <2>3, <2>4
<1>11. CASE BulkInsert(q)
  <2>1. PICK id \in Ids :
          /\ Others(q) /\ Inserted(id, Head(request[q].todo))
          /\ request'[q].rows = request[q].rows \union {id}
    BY <1>1, <1>11, BulkInsertInserts
  <2>2. Adds(q, id, Head(request[q].todo)) /\ Head(request[q].todo) \in Skus
    BY <1>1, <1>11, <2>1, HeadIsSku DEF BulkInsert, Adds
  <2>3. QED
    BY <2>1, <2>2 DEF Shape
<1>12. CASE Commit(q)
  BY <1>1, <1>12, AnswerAnswers, IdleIsState DEF Commit, Answered, Commits, Shape
<1>13. CASE Find(q)
  <2>1. Moved(q, "updating")
    BY <1>1, <1>13, ToMoves DEF Find, Phases
  <2>2. QED
    BY <1>13, <2>1 DEF Find, Moved, SameTable, Shape
<1>14. CASE FindUnchanged(q) \/ FindNothing(q) \/ SaveConflict(q)
  <2>1. Answered(q) /\ request[q].rows = {} /\ UNCHANGED <<products, free>>
    BY <1>1, <1>2, <1>14, AnswerAnswers DEF FindUnchanged, FindNothing, SaveConflict
  <2>2. QED
    BY <2>1, IdleIsState DEF Answered, SameTable, Shape
<1>15. CASE SaveUpdate(q)
  <2>1. Answered(q) /\ request[q].rows = {}
    BY <1>1, <1>2, <1>15, AnswerAnswers DEF SaveUpdate
  <2>2. request[q].id \in DOMAIN products /\ request[q].edits \in SUBSET Edits
    BY <1>1, <1>15 DEF SaveUpdate, Current, RequestState
  <2>3. Updated(request[q].id, request[q].edits)
    BY <1>1, <1>15, <2>2, UpdateUpdates DEF SaveUpdate
  <2>4. Changes(q)
    BY <1>15, <2>1, <2>3, IdleIsState DEF SaveUpdate, Answered, Changes
  <2>5. QED
    BY <2>1, <2>4 DEF Answered, Shape
<1>16. CASE SaveDelete(q)
  <2>1. Answered(q) /\ request[q].rows = {}
    BY <1>1, <1>2, <1>16, AnswerAnswers DEF SaveDelete
  <2>2. Others(q) /\ request'[q].rows = request[q].rows /\ UNCHANGED free
    BY <1>16, <2>1, IdleIsState DEF SaveDelete, Answered
  <2>3. CASE Current(q)
    <3>1. Restricted({request[q].id})
      BY <1>16, <2>3 DEF SaveDelete, Restricted
    <3>2. QED
      BY <1>16, <2>2, <2>3, <3>1 DEF SaveDelete, TakesAway, Shape
  <2>4. CASE ~Current(q)
    BY <1>16, <2>2, <2>4 DEF SaveDelete, SameTable, Shape
  <2>5. QED
    BY <2>3, <2>4
<1>17. QED
  BY <1>3, <1>4, <1>5, <1>6, <1>8, <1>9, <1>10, <1>11, <1>12, <1>13, <1>14, <1>15, <1>16
     DEF StepOf, Proceed, Shape

-----------------------------------------------------------------------------
(* The table's own invariant: whoever may be waiting for whom, an insert    *)
(* goes on only when nobody has the Sku.                                    *)
LEMMA SkusStep ==
    ASSUME IInv, NEW q \in Requests, Others(q), Shape(q)
    PROVE  UniqueSkus'
<1>1. Typed /\ RowsSound /\ UniqueSkus
  BY DEF IInv
<1>2. CASE SameTable(q) \/ Commits(q)
  BY <1>1, <1>2 DEF SameTable, Commits, UniqueSkus
<1>3. CASE RollsBack(q) \/ TakesAway(q)
  BY <1>1, <1>3 DEF RollsBack, TakesAway, Restricted, UniqueSkus
<1>4. CASE Changes(q)
  BY <1>1, <1>4 DEF Changes, Updated, UniqueSkus
<1>5. ASSUME NEW id \in Ids, NEW sku \in Skus, Adds(q, id, sku)
      PROVE  UniqueSkus'
  <2>1. ASSUME NEW i \in DOMAIN products
        PROVE  products[i].sku # sku
    <3>1. CASE i \in Committed \union request[q].rows
      BY <1>5, <3>1 DEF Adds, Duplicate
    <3>2. CASE i \notin Committed \union request[q].rows
      <4>1. PICK o \in Requests : i \in request[o].rows
        BY <3>2 DEF Committed, Uncommitted
      <4>2. o # q
        BY <3>2, <4>1
      <4>3. QED
        BY <1>5, <4>1, <4>2 DEF Adds, Held
    <3>3. QED
      BY <3>1, <3>2
  <2>2. products'[id].sku = sku
    BY <1>5 DEF Adds, Inserted, NewProduct
  <2>3. QED
    BY <1>1, <1>5, <2>1, <2>2 DEF Adds, Inserted, UniqueSkus
<1>6. QED
  BY <1>2, <1>3, <1>4, <1>5 DEF Shape

(* The types of the table and of the others' requests.                      *)
LEMMA TableTypeStep ==
    ASSUME IInv, NEW q \in Requests, Others(q), Shape(q)
    PROVE  /\ DOMAIN products' \subseteq Ids \ free' /\ free' \subseteq Ids
           /\ \A id \in DOMAIN products' : products'[id] \in Product
           /\ \A o \in Requests : request'[o].rows \subseteq DOMAIN products'
<1>1. Typed /\ RowsSound /\ TypeOK /\ ReadsSound
  BY DEF IInv, Typed
<1>2. CASE SameTable(q) \/ Commits(q)
  BY <1>1, <1>2 DEF SameTable, Commits, TypeOK, Others
<1>3. CASE RollsBack(q)
  BY <1>1, <1>3 DEF RollsBack, Restricted, RowsSound, TypeOK, Others
<1>4. CASE TakesAway(q)
  <2>1. \A o \in Requests : request[q].id \notin request[o].rows
    BY <1>1, <1>4 DEF TakesAway, ReadsSound, ReadSound, Reading, Uncommitted
  <2>2. QED
    BY <1>1, <1>4, <2>1 DEF TakesAway, Restricted, TypeOK, Others
<1>5. CASE Changes(q)
  <2>1. request[q].id \in DOMAIN products /\ request[q].version < MaxVersion
    BY <1>1, <1>5 DEF Changes, Current, ReadsSound, ReadSound, Reading
  <2>2. products[request[q].id].version = request[q].version
    BY <1>5 DEF Changes, Current
  <2>3. products[request[q].id].version \in 1 .. MaxVersion
    BY <1>1, <2>1 DEF TypeOK, Product
  <2>4. products'[request[q].id] \in Product
    BY <1>5, <2>1, <2>2, <2>3, ProductAssumption DEF Changes, Updated, Product
  <2>5. QED
    BY <1>1, <1>5, <2>4 DEF Changes, Updated, TypeOK, Others
<1>6. ASSUME NEW id \in Ids, NEW sku \in Skus, Adds(q, id, sku)
      PROVE  /\ DOMAIN products' \subseteq Ids \ free' /\ free' \subseteq Ids
             /\ \A i \in DOMAIN products' : products'[i] \in Product
             /\ \A o \in Requests : request'[o].rows \subseteq DOMAIN products'
  <2>1. NewProduct(sku) \in Product
    BY ProductAssumption DEF NewProduct, Product
  <2>2. QED
    BY <1>1, <1>6, <2>1 DEF Adds, Inserted, TypeOK, Others
<1>7. QED
  BY <1>2, <1>3, <1>4, <1>5, <1>6 DEF Shape

(* What the others know about their own rows stays so.                      *)
LEMMA RowsStep ==
    ASSUME IInv, NEW q \in Requests, Others(q), Shape(q),
           request'[q].phase # "bulk" => request'[q].rows = {},
           request'[q].phase \in {"checking", "creating"} => request'[q].todo # <<>>
    PROVE  RowsSound'
<1>1. Typed /\ RowsSound /\ TypeOK /\ ReadsSound
  BY DEF IInv, Typed
<1>2. \A o \in Requests : request[o].rows \subseteq DOMAIN products
  BY <1>1 DEF TypeOK
<1>3. ASSUME NEW o \in Requests, NEW i \in request'[o].rows
      PROVE  products'[i].edits = {}
  <2>1. CASE i \in request[o].rows
    <3>1. i \in DOMAIN products /\ products[i].edits = {} /\ i \in Uncommitted
      BY <1>1, <1>2, <2>1 DEF RowsSound, Uncommitted
    <3>2. CASE SameTable(q) \/ Commits(q) \/ RollsBack(q) \/ TakesAway(q)
      <4>1. i \in DOMAIN products'
        BY <1>3, TableTypeStep
      <4>2. QED
        BY <3>1, <3>2, <4>1 DEF SameTable, Commits, RollsBack, TakesAway, Restricted
    <3>3. CASE Changes(q)
      <4>1. i # request[q].id
        BY <1>1, <3>1, <3>3 DEF Changes, ReadsSound, ReadSound, Reading
      <4>2. QED
        BY <3>1, <3>3, <4>1 DEF Changes, Updated
    <3>4. ASSUME NEW id \in Ids, NEW sku \in Skus, Adds(q, id, sku)
          PROVE  products'[i].edits = {}
      BY <3>1, <3>4 DEF Adds, Inserted
    <3>5. QED
      BY <3>2, <3>3, <3>4 DEF Shape
  <2>2. CASE i \notin request[o].rows
    <3>1. PICK id \in Ids, sku \in Skus : Adds(q, id, sku) /\ i = id
      BY <1>3, <2>2 DEF Shape, SameTable, Commits, RollsBack, Changes, TakesAway, Adds, Others
    <3>2. QED
      BY <3>1 DEF Adds, Inserted, NewProduct
  <2>3. QED
    BY <2>1, <2>2
<1>4. ASSUME NEW o \in Requests, o # q
      PROVE  request'[q].rows \cap request'[o].rows = {}
  <2>1. request'[o].rows = request[o].rows /\ request[q].rows \cap request[o].rows = {}
    BY <1>1, <1>4 DEF Others, RowsSound
  <2>2. CASE request'[q].rows \subseteq request[q].rows
    BY <2>1, <2>2
  <2>3. ASSUME NEW id \in Ids, NEW sku \in Skus, Adds(q, id, sku)
        PROVE  request'[q].rows \cap request'[o].rows = {}
    BY <1>2, <2>1, <2>3 DEF Adds, Inserted
  <2>4. QED
    BY <2>2, <2>3 DEF Shape, SameTable, Commits, RollsBack, Changes, TakesAway
<1>5. QED
  BY <1>1, <1>3, <1>4 DEF Others, RowsSound

-----------------------------------------------------------------------------
(* What a request has read stays sound while others run: a row changed in   *)
(* between has a later version, and an Id is not used again.                *)
LEMMA OtherReadsStep ==
    ASSUME IInv, NEW q \in Requests, Others(q), Shape(q), NEW o \in Requests,
           request'[o].id = request[o].id, request'[o].version = request[o].version,
           request'[o].edits = request[o].edits,
           request[o].phase \in Reading, request'[o].phase \in Reading,
           request'[o].phase = "removing" <=> request[o].phase = "removing",
           ~(Changes(q) /\ o = q)
    PROVE  ReadSound(o)'
<1> DEFINE id == request[o].id
<1>1. Typed /\ RowsSound /\ TypeOK
  BY DEF IInv, Typed
<1>2. /\ id \in Ids \ (free \union Uncommitted)
      /\ request[o].phase # "removing" => request[o].version < MaxVersion
      /\ id \in DOMAIN products => request[o].version <= products[id].version
      /\ id \in DOMAIN products /\ products[id].version = request[o].version =>
           products[id].edits \subseteq request[o].edits
  BY DEF IInv, ReadsSound, ReadSound, Current
<1>3. request[o].version \in Nat
  BY <1>1, ProductAssumption DEF Typed, RequestState
<1>4. id \in DOMAIN products => products[id].version \in Nat
  BY <1>1, ProductAssumption DEF TypeOK, Product
<1> HIDE DEF id
<1>5. SUFFICES
        /\ id \notin free' \union Uncommitted'
        /\ id \in DOMAIN products' => request[o].version <= products'[id].version
        /\ id \in DOMAIN products' /\ products'[id].version = request[o].version =>
             products'[id].edits \subseteq request[o].edits
  BY <1>2 DEF id, ReadSound, Current
<1>6. CASE SameTable(q) \/ Commits(q) \/ RollsBack(q) \/ TakesAway(q)
  <2>1. Uncommitted' \subseteq Uncommitted /\ free' = free
    BY <1>1, <1>6, UncommittedRows DEF SameTable, Commits, RollsBack, TakesAway
  <2>2. id \in DOMAIN products' => id \in DOMAIN products /\ products'[id] = products[id]
    BY <1>6 DEF SameTable, Commits, RollsBack, TakesAway, Restricted
  <2>3. QED
    BY <1>2, <2>1, <2>2
<1>7. CASE Changes(q)
  <2>1. Uncommitted' = Uncommitted /\ free' = free
    BY <1>7, UncommittedRows DEF Changes
  <2>2. CASE id = request[q].id
    <3>1. id \in DOMAIN products /\ products'[id].version = products[id].version + 1
      BY <1>7, <2>2 DEF Changes, Current, Updated
    <3>2. QED
      BY <1>2, <1>3, <1>4, <2>1, <3>1
  <2>3. CASE id # request[q].id
    <3>1. id \in DOMAIN products' => id \in DOMAIN products /\ products'[id] = products[id]
      BY <1>7, <2>3 DEF Changes, Updated
    <3>2. QED
      BY <1>2, <2>1, <3>1
  <2>4. QED
    BY <2>2, <2>3
<1>8. ASSUME NEW i \in Ids, NEW sku \in Skus, Adds(q, i, sku)
      PROVE  /\ id \notin free' \union Uncommitted'
             /\ id \in DOMAIN products' => id \in DOMAIN products /\ products'[id] = products[id]
  <2>1. i \in free /\ id # i
    BY <1>2, <1>8 DEF Adds, Inserted
  <2>2. Uncommitted' \subseteq Uncommitted \union {i}
    BY <1>8, UncommittedRows DEF Adds
  <2>3. QED
    BY <1>2, <1>8, <2>1, <2>2 DEF Adds, Inserted
<1>9. QED
  BY <1>2, <1>6, <1>7, <1>8 DEF Shape

(* A request's own part of the invariant: what it has just read is current, *)
(* and a row it has found does not make what it read less sound.            *)
OwnSound(q) ==
    /\ request'[q].phase # "bulk" => request'[q].rows = {}
    /\ request'[q].phase \in {"checking", "creating"} => request'[q].todo # <<>>
    /\ request'[q].new \subseteq request'[q].edits
    /\ ReadSound(q)'

LEMMA OwnStep ==
    ASSUME IInv, NEW q \in Requests, StepOf(q)
    PROVE  OwnSound(q)
<1>1. Typed /\ TypeOK /\ RowsSound /\ request[q] \in RequestState
  BY DEF IInv, Typed
<1>2. Others(q) /\ Shape(q)
  BY StepShape
<1>3. request'[q] \in RequestState /\ request[q].new \subseteq request[q].edits
  BY <1>1, <1>2 DEF TypeOK, Others
<1>4. ASSUME Answered(q)
      PROVE  OwnSound(q)
  BY <1>4, IdleIsState DEF Answered, OwnSound, ReadSound, Reading
<1>5. ASSUME NEW sku \in Skus, Create(q, sku)
      PROVE  OwnSound(q)
  <2>1. Began(q, "checking", <<sku>>)
    BY <1>1, <1>5, BeginnersBegin
  <2>2. QED
    BY <2>1 DEF Began, OwnSound, ReadSound, Reading
<1>6. ASSUME NEW skus \in Batches, BulkCreate(q, skus)
      PROVE  OwnSound(q)
  <2>1. Began(q, "bulk", skus)
    BY <1>1, <1>6, BeginnersBegin
  <2>2. QED
    BY <2>1 DEF Began, OwnSound, ReadSound, Reading
<1>7. ASSUME NEW id \in Committed, NEW new \in SUBSET Edits, UNCHANGED <<products, free>>,
             \/ ReadBy(q, "removing", id, new)
             \/ ReadBy(q, "editing", id, new) /\ products[id].version < MaxVersion
      PROVE  OwnSound(q)
  <2>1. /\ request'[q].rows = {} /\ request'[q].new \subseteq request'[q].edits
        /\ request'[q].phase \in {"removing", "editing"}
        /\ request'[q].phase = "editing" => products[id].version < MaxVersion
        /\ request'[q].id = id /\ request'[q].version = products[id].version
        /\ request'[q].edits = products[id].edits \union new
    BY <1>7 DEF ReadBy
  <2>2. Uncommitted' \subseteq Uncommitted
    BY <1>1, <1>2, <2>1, UncommittedRows
  <2>3. id \in Ids \ (free' \union Uncommitted') /\ id \in DOMAIN products
    BY <1>1, <1>7, <2>2 DEF Committed, TypeOK
  <2>4. products[id].version \in Nat
    BY <1>1, <2>3 DEF TypeOK, Product
  <2>5. ReadSound(q)'
    BY <1>7, <2>1, <2>3, <2>4 DEF ReadSound, Current
  <2>6. QED
    BY <2>1, <2>5 DEF OwnSound
<1>8. ASSUME NEW id \in Committed, Delete(q, id)
      PROVE  OwnSound(q)
  <2>1. ReadBy(q, "removing", id, {})
    BY <1>1, <1>8, DeleteReads DEF Committed
  <2>2. QED
    BY <1>7, <1>8, <2>1 DEF Delete
<1>9. ASSUME NEW id \in Committed, NEW e \in Edits, Update(q, id, e)
      PROVE  OwnSound(q)
  <2>1. ReadBy(q, "editing", id, {e})
    BY <1>1, <1>9, UpdateReads DEF Committed
  <2>2. QED
    BY <1>7, <1>9, <2>1 DEF Update
<1>10. CASE Cancelled(q) \/ BulkDuplicate(q) \/ DeadlockVictim(q)
  <2>1. Answered(q)
    BY <1>1, <1>10, RollbackRestricts DEF Cancelled, BulkDuplicate, DeadlockVictim
  <2>2. QED
    BY <1>4, <2>1
<1>11. CASE CheckSku(q)
  <2>1. Answered(q) \/ Moved(q, "creating")
    BY <1>1, <1>11, AnswerAnswers, ToMoves DEF CheckSku, Phases
  <2>2. ASSUME Moved(q, "creating")
        PROVE  OwnSound(q)
    BY <1>1, <1>3, <1>11, <2>2 DEF CheckSku, RowsSound, Moved, OwnSound, ReadSound, Reading
  <2>3. QED
    BY <1>4, <2>1, <2>2
<1>12. CASE BulkInsert(q)
  <2>1. /\ request'[q].phase = "bulk"
        /\ request'[q].new = request[q].new /\ request'[q].edits = request[q].edits
    <3>1. PICK id \in free :
            request' = [request EXCEPT ![q].todo = Tail(@), ![q].rows = @ \union {id}]
      BY <1>12 DEF BulkInsert
    <3>2. PICK a : a = [request[q] EXCEPT !.todo = Tail(@)]
      OBVIOUS
    <3>3. request'[q] = [a EXCEPT !.rows = @ \union {id}]
      BY <1>1, <3>1, <3>2 DEF Typed
    <3>4. a.new = request[q].new /\ a.edits = request[q].edits /\ a.phase = request[q].phase
      BY <1>1, <3>2 DEF RequestState
    <3>5. QED
      BY <1>1, <1>12, <3>2, <3>3, <3>4 DEF BulkInsert, RequestState
  <2>2. QED
    BY <1>3, <2>1 DEF OwnSound, ReadSound, Reading
<1>13. CASE Find(q)
  <2>1. Moved(q, "updating") /\ request[q].phase = "editing"
    BY <1>1, <1>13, ToMoves DEF Find, Phases
  <2>2. ReadSound(q)'
    BY <1>2, <2>1, OtherReadsStep DEF Moved, Reading, Changes
  <2>3. QED
    BY <1>1, <1>3, <2>1, <2>2 DEF RowsSound, Moved, OwnSound
<1>14. CASE \/ SaveCreate(q) \/ Commit(q) \/ FindUnchanged(q) \/ FindNothing(q)
            \/ SaveUpdate(q) \/ SaveConflict(q) \/ SaveDelete(q)
  <2>1. Answered(q)
    BY <1>1, <1>14, AnswerAnswers DEF SaveCreate, Commit, FindUnchanged, FindNothing, SaveUpdate,
       SaveConflict, SaveDelete
  <2>2. QED
    BY <1>4, <2>1
<1>15. QED
  BY <1>5, <1>6, <1>8, <1>9, <1>10, <1>11, <1>12, <1>13, <1>14 DEF StepOf, Proceed

LEMMA ReadsStep ==
    ASSUME IInv, NEW q \in Requests, StepOf(q)
    PROVE  ReadsSound'
<1>1. Others(q) /\ Shape(q) /\ ReadSound(q)'
  BY StepShape, OwnStep DEF OwnSound
<1>2. ASSUME NEW o \in Requests, o # q
      PROVE  ReadSound(o)'
  <2>1. request'[o] = request[o]
    BY <1>1, <1>2 DEF Others
  <2>2. CASE request[o].phase \in Reading
    BY <1>1, <1>2, <2>1, <2>2, OtherReadsStep
  <2>3. CASE request[o].phase \notin Reading
    BY <2>1, <2>3 DEF ReadSound
  <2>4. QED
    BY <2>2, <2>3
<1>3. QED
  BY <1>1, <1>2 DEF ReadsSound

-----------------------------------------------------------------------------
(* Edits are acknowledged only by who has them in the row, and forgotten    *)
(* only by who has read them in the row it deletes.                         *)
LEMMA OnlyDeletesTakeAway ==
    ASSUME IInv, NEW q \in Requests, StepOf(q), TakesAway(q)
    PROVE  SaveDelete(q)
<1>1. request[q].phase = "removing" /\ request[q].id \in DOMAIN products
  BY DEF TakesAway, Current
<1>2. Cancelled(q) \/ SaveDelete(q) \/ DeadlockVictim(q)
  BY <1>1 DEF StepOf, Proceed, Create, BulkCreate, Delete, Update, CheckSku, SaveCreate,
     BulkInsert, BulkDuplicate, Commit, Find, FindUnchanged, FindNothing, SaveUpdate, SaveConflict
<1>3. CASE Cancelled(q) \/ DeadlockVictim(q)
  <2>1. request[q].rows = {}
    BY <1>1 DEF IInv, RowsSound
  <2>2. DOMAIN products' = DOMAIN products
    BY <1>3, <2>1 DEF Cancelled, DeadlockVictim, Rollback
  <2>3. QED
    BY <1>1, <2>2 DEF TakesAway, Restricted
<1>4. QED
  BY <1>2, <1>3

LEMMA EditsStep ==
    ASSUME IInv, NEW q \in Requests, StepOf(q)
    PROVE  NoEditLost' /\ acknowledged' \in [Ids -> SUBSET Edits]
<1>1. Typed /\ TypeOK /\ RowsSound /\ ReadSound(q) /\ NoEditLost /\ request[q] \in RequestState
  BY DEF IInv, Typed, ReadsSound
<1>2. Others(q) /\ Shape(q)
  BY StepShape
<1>3. /\ acknowledged \in [Ids -> SUBSET Edits]
      /\ request[q].new \subseteq request[q].edits /\ request[q].new \subseteq Edits
  BY <1>1 DEF TypeOK, RequestState
<1> DEFINE Edited(id) == IF id \in DOMAIN products THEN products[id].edits ELSE {}
<1>4. ASSUME ~TakesAway(q), NEW id \in Ids
      PROVE  Edited(id) \subseteq Edited(id)'
  <2>1. CASE SameTable(q) \/ Commits(q)
    BY <2>1 DEF SameTable, Commits
  <2>2. CASE RollsBack(q)
    BY <1>1, <2>2 DEF RollsBack, Restricted, RowsSound
  <2>3. CASE Changes(q)
    <3>1. products[request[q].id].edits \subseteq request[q].edits
      BY <1>1, <2>3 DEF Changes, ReadSound, Reading
    <3>2. QED
      BY <2>3, <3>1 DEF Changes, Updated
  <2>4. ASSUME NEW i \in Ids, NEW sku \in Skus, Adds(q, i, sku)
        PROVE  Edited(id) \subseteq Edited(id)'
    BY <2>4 DEF Adds, Inserted
  <2>5. QED
    BY <1>2, <1>4, <2>1, <2>2, <2>3, <2>4 DEF Shape
<1>5. CASE UNCHANGED acknowledged /\ ~TakesAway(q)
  BY <1>1, <1>3, <1>4, <1>5 DEF NoEditLost
<1>6. ASSUME ~TakesAway(q), NEW id \in Ids, Acknowledge(id, request[q].new),
             id \in DOMAIN products', request[q].new \subseteq products'[id].edits
      PROVE  NoEditLost' /\ acknowledged' \in [Ids -> SUBSET Edits]
  <2>1. /\ acknowledged' \in [Ids -> SUBSET Edits]
        /\ acknowledged'[id] = acknowledged[id] \union request[q].new
        /\ \A i \in Ids : i # id => acknowledged'[i] = acknowledged[i]
    BY <1>3, <1>6 DEF Acknowledge
  <2>2. ASSUME NEW i \in Ids
        PROVE  acknowledged'[i] \subseteq Edited(i)'
    <3>1. acknowledged[i] \subseteq Edited(i)'
      BY <1>1, <1>4, <1>6 DEF NoEditLost
    <3>2. QED
      BY <1>6, <2>1, <3>1
  <2>3. QED
    BY <2>1, <2>2 DEF NoEditLost
<1>7. CASE FindUnchanged(q)
  <2>1. ~TakesAway(q)
    BY <1>7 DEF FindUnchanged, TakesAway
  <2>2. /\ request[q].id \in Ids /\ request[q].id \in DOMAIN products'
        /\ request[q].new \subseteq products'[request[q].id].edits
    BY <1>1, <1>3, <1>7 DEF FindUnchanged, TypeOK
  <2>3. QED
    BY <1>6, <1>7, <2>1, <2>2 DEF FindUnchanged
<1>8. CASE SaveUpdate(q)
  <2>1. ~TakesAway(q)
    BY <1>8 DEF SaveUpdate, TakesAway
  <2>2. request[q].id \in DOMAIN products /\ request[q].edits \in SUBSET Edits
    BY <1>1, <1>8 DEF SaveUpdate, Current, RequestState
  <2>3. Updated(request[q].id, request[q].edits)
    BY <1>1, <1>8, <2>2, UpdateUpdates DEF SaveUpdate
  <2>4. /\ request[q].id \in Ids /\ request[q].id \in DOMAIN products'
        /\ request[q].new \subseteq products'[request[q].id].edits
    BY <1>1, <1>3, <2>2, <2>3 DEF Updated, TypeOK
  <2>5. QED
    BY <1>6, <1>8, <2>1, <2>4 DEF SaveUpdate
<1>9. CASE SaveDelete(q) /\ Current(q)
  <2> DEFINE id == request[q].id
  <2>1. id \in DOMAIN products /\ id \in Ids /\ products[id].edits \subseteq request[q].edits
    BY <1>1, <1>9 DEF SaveDelete, Current, ReadSound, Reading, TypeOK
  <2>2. acknowledged[id] \subseteq request[q].edits
    BY <1>1, <2>1 DEF NoEditLost
  <2>3. /\ acknowledged' \in [Ids -> SUBSET Edits] /\ acknowledged'[id] = {}
        /\ \A i \in Ids : i # id => acknowledged'[i] = acknowledged[i]
    BY <1>3, <1>9, <2>1, <2>2 DEF SaveDelete
  <2>4. \A i \in DOMAIN products : i # id => i \in DOMAIN products' /\ products'[i] = products[i]
    BY <1>9 DEF SaveDelete
  <2>5. ASSUME NEW i \in Ids
        PROVE  acknowledged'[i] \subseteq Edited(i)'
    BY <1>1, <2>1, <2>3, <2>4 DEF NoEditLost
  <2>6. QED
    BY <2>3, <2>5 DEF NoEditLost
<1>10. QED
  <2>1. CASE SaveDelete(q) /\ ~Current(q)
    BY <1>5, <2>1 DEF SaveDelete, TakesAway
  <2>2. CASE ~SaveDelete(q) /\ ~SaveUpdate(q) /\ ~FindUnchanged(q)
    <3>1. UNCHANGED acknowledged
      BY <2>2 DEF StepOf, Proceed, Create, BulkCreate, Delete, Update, CheckSku, SaveCreate,
         BulkInsert, BulkDuplicate, Commit, Find, FindNothing, SaveConflict, Cancelled,
         DeadlockVictim, Rollback
    <3>2. QED
      BY <1>5, <2>2, <3>1, OnlyDeletesTakeAway
  <2>3. QED
    BY <1>7, <1>8, <1>9, <2>1, <2>2

-----------------------------------------------------------------------------
(* The products' invariant is one.                                          *)
LEMMA InitIInv == Init => IInv
<1> SUFFICES ASSUME Init PROVE IInv
  OBVIOUS
<1>1. \A q \in Requests : request[q] = Idle
  BY DEF Init
<1>2. DOMAIN products = {} /\ free = Ids /\ acknowledged = [id \in Ids |-> {}]
  BY DEF Init
<1>3. request \in [Requests -> RequestState]
  BY IdleIsState DEF Init
<1>4. TypeOK
  <2>1. ASSUME NEW q \in Requests
        PROVE  /\ request[q].phase \in Phases /\ request[q].todo \in Seq(Skus)
               /\ request[q].rows \subseteq DOMAIN products
               /\ request[q].edits \subseteq Edits /\ request[q].new \subseteq request[q].edits
    BY <1>1, IdleIsState DEF RequestState
  <2>2. QED
    BY <1>2, <2>1 DEF TypeOK
<1>5. RowsSound /\ ReadsSound
  BY <1>1, IdleIsState DEF RowsSound, ReadsSound, ReadSound, Reading
<1>6. UniqueSkus /\ NoEditLost
  BY <1>2 DEF UniqueSkus, NoEditLost
<1>7. QED
  BY <1>3, <1>4, <1>5, <1>6 DEF IInv, Typed

(* The strengthened invariant: a row that is not committed belongs to one   *)
(* bulk creation, and whoever holds a row's present version has seen every  *)
(* edit of it.                                                              *)
THEOREM InvariantHolds == Spec => []IInv
<1>1. Init => IInv
  BY InitIInv
<1>2. IInv /\ [Next]_vars => IInv'
  <2> SUFFICES ASSUME IInv, [Next]_vars
               PROVE  IInv'
    OBVIOUS
  <2>1. ASSUME NEW q \in Requests, StepOf(q)
        PROVE  IInv'
    <3>1. Others(q) /\ Shape(q) /\ OwnSound(q)
      BY <2>1, StepShape, OwnStep
    <3>2. RowsSound'
      BY <3>1, RowsStep DEF OwnSound
    <3>3. Typed'
      <4>1. \A o \in Requests : request[o].new \subseteq request[o].edits
        BY DEF IInv, Typed, TypeOK
      <4>2. ASSUME NEW o \in Requests
            PROVE  /\ request'[o].phase \in Phases /\ request'[o].todo \in Seq(Skus)
                   /\ request'[o].edits \subseteq Edits
                   /\ request'[o].new \subseteq request'[o].edits
        BY <3>1, <4>1 DEF Others, OwnSound, RequestState
      <4>3. acknowledged' \in [Ids -> SUBSET Edits]
        BY <2>1, EditsStep
      <4>4. TypeOK'
        BY <3>1, <4>2, <4>3, TableTypeStep DEF TypeOK
      <4>5. QED
        BY <3>1, <4>4 DEF Typed, Others
    <3>4. QED
      BY <2>1, <3>1, <3>2, <3>3, ReadsStep, SkusStep, EditsStep DEF IInv
  <2>2. CASE UNCHANGED vars
    BY <2>2 DEF vars, IInv, Typed, TypeOK, RowsSound, ReadsSound, ReadSound, Uncommitted, Current,
       UniqueSkus, NoEditLost
  <2>3. QED
    BY <2>1, <2>2 DEF Next, StepOf
<1>3. QED
  BY <1>1, <1>2, PTL DEF Spec

(* Every variable has its type: no row leaves the table with a lock on it,  *)
(* and no version passes its bound.                                         *)
THEOREM TypesCorrect == Spec => []TypeOK
<1>1. IInv => TypeOK
  BY DEF IInv, Typed
<1>2. QED
  BY <1>1, InvariantHolds, PTL

(* No two rows share a Sku, committed or not, for any number of requests of *)
(* ProductsController.Create and BulkCreate at the same time.               *)
THEOREM SkusAreUnique == Spec => []UniqueSkus
<1>1. IInv => UniqueSkus
  BY DEF IInv
<1>2. QED
  BY <1>1, InvariantHolds, PTL

(* No edit answered with Ok is lost, for any number of readers and writers  *)
(* of a product: EfProductStore.UpdateAsync compares the version the client *)
(* has read, and versions are not used again.                               *)
THEOREM EditsAreKept == Spec => []NoEditLost
<1>1. IInv => NoEditLost
  BY DEF IInv
<1>2. QED
  BY <1>1, InvariantHolds, PTL

(* Rows are seen one at a time by Create or all at once by a bulk creation  *)
(* that has inserted every product, whatever fails, is cancelled or waits.  *)
THEOREM BatchesAreWhole == Spec => AllOrNothing
<1> DEFINE new == Committed' \ Committed
           Whole == new # {} => \E q \in Requests :
             \/ request[q].phase = "creating" /\ Cardinality(new) = 1
             \/ request[q].phase = "bulk" /\ request[q].todo = <<>> /\ new = request[q].rows
<1>1. IInv /\ [Next]_vars => [Whole]_vars
  <2> SUFFICES ASSUME IInv, NEW q \in Requests, StepOf(q)
               PROVE  Whole
    BY DEF Next, StepOf
  <2>1. Others(q) /\ Shape(q) /\ RowsSound /\ \A o \in Requests : request[o].rows \subseteq DOMAIN products
    BY StepShape DEF IInv, Typed, TypeOK
  <2>2. request[q].rows \subseteq Uncommitted /\ request[q].rows \subseteq DOMAIN products
    BY <2>1 DEF Uncommitted
  <2>3. CASE SameTable(q) \/ Changes(q) \/ TakesAway(q)
    <3>1. Uncommitted' = Uncommitted /\ DOMAIN products' \subseteq DOMAIN products
      BY <2>1, <2>3, UncommittedRows DEF SameTable, Changes, Updated, TakesAway, Restricted
    <3>2. new = {}
      BY <3>1 DEF Committed
    <3>3. QED
      BY <3>2
  <2>4. CASE RollsBack(q)
    <3>1. Uncommitted' = Uncommitted \ request[q].rows
      BY <2>1, <2>4, UncommittedRows DEF RollsBack
    <3>2. new = {}
      BY <2>4, <3>1 DEF RollsBack, Restricted, Committed
    <3>3. QED
      BY <3>2
  <2>5. CASE Commits(q)
    <3>1. Uncommitted' = Uncommitted \ request[q].rows
      BY <2>1, <2>5, UncommittedRows DEF Commits
    <3>2. new = request[q].rows
      BY <2>2, <2>5, <3>1 DEF Commits, Committed
    <3>3. QED
      BY <2>5, <3>2 DEF Commits
  <2>6. ASSUME NEW id \in Ids, NEW sku \in Skus, Adds(q, id, sku)
        PROVE  Whole
    <3>1. CASE request'[q].rows = request[q].rows \union {id}
      <4>1. Uncommitted' = Uncommitted \union {id}
        BY <2>1, <3>1, UncommittedRows
      <4>2. new = {}
        BY <2>6, <4>1 DEF Adds, Inserted, Committed
      <4>3. QED
        BY <4>2
    <3>2. CASE request[q].phase = "creating" /\ request'[q].rows = request[q].rows
      <4>1. Uncommitted' = Uncommitted /\ id \notin Uncommitted
        BY <2>1, <2>6, <3>2, UncommittedRows DEF Adds, Inserted, Uncommitted
      <4>2. new = {id}
        BY <2>6, <4>1 DEF Adds, Inserted, Committed
      <4>3. QED
        BY <3>2, <4>2, FS_Singleton
    <3>3. QED
      BY <2>6, <3>1, <3>2 DEF Adds
  <2>7. QED
    BY <2>1, <2>3, <2>4, <2>5, <2>6 DEF Shape
<1>2. QED
  BY <1>1, InvariantHolds, PTL DEF Spec, AllOrNothing
=============================================================================
