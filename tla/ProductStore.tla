------------------------------ MODULE ProductStore ------------------------------
(***************************************************************************)
(* The products of StockPilot.Api: the endpoints of ProductsController and  *)
(* EfProductStore, over a SQL Server table with a unique index on Sku and a *)
(* row version.                                                             *)
(*                                                                         *)
(* BulkCreate inserts its rows one at a time in a transaction; until it is  *)
(* over, whoever asks for one of their Skus waits, and SQL Server ends a    *)
(* cycle of waiting transactions by failing one of them.  A product's name  *)
(* and price are the set of edits they have gone through: a client sends    *)
(* the edits it has read and one of its own.                                *)
(***************************************************************************)
EXTENDS Naturals, Sequences, FiniteSets

CONSTANTS
    Skus, Edits,
    Ids,          \* bound on the rows ever inserted: an Id is not used again
    Requests,     \* requests that may run at the same time
    Batches,      \* the lists of Skus a bulk creation may ask for
    MaxVersion    \* bound on the updates of a row

ASSUME ProductAssumption ==
    /\ Ids \subseteq Nat \ {0}
    /\ Batches \subseteq Seq(Skus)
    /\ MaxVersion \in Nat \ {0}

VARIABLES
    products,      \* the table by Id, uncommitted rows included
    free,          \* Ids not used yet
    request,
    acknowledged   \* edits answered with Ok that no deletion knew of (observer)

vars == <<products, free, request, acknowledged>>

Product == [sku : Skus, version : 1 .. MaxVersion, edits : SUBSET Edits]

\* Faulty: a new row has no version.
Unversioned(sku) == [sku |-> sku, version |-> 0, edits |-> {}]

NewProduct(sku) == [sku |-> sku, version |-> 1, edits |-> {}]

(* rows: the table's rows a request has inserted and not committed; todo:   *)
(* the Skus it has still to insert; id, version: the product it updates or  *)
(* deletes, as it was read; edits: those of the product it deletes, or what  *)
(* it sends, its own being the set new.                                     *)
Idle == [phase |-> "idle", todo |-> <<>>, rows |-> {}, id |-> 0, version |-> 0, edits |-> {},
         new |-> {}]

Phases == {"idle", "checking", "creating", "bulk", "editing", "updating", "removing"}

Init ==
    /\ products = <<>> /\ free = Ids
    /\ request = [q \in Requests |-> Idle]
    /\ acknowledged = [id \in Ids |-> {}]

Uncommitted == UNION {request[q].rows : q \in Requests}
Committed == DOMAIN products \ Uncommitted
Held(q, sku) == \E o \in Requests \ {q} : \E id \in request[o].rows : products[id].sku = sku

Answer(q) == request' = [request EXCEPT ![q] = Idle]

(* The bound on Ids leaves room for what is under way and n rows more.      *)
Room(n) ==
    \E f \in [Requests -> SUBSET free] :
        /\ \A q, o \in Requests : q # o => f[q] \cap f[o] = {}
        /\ \A q \in Requests : Cardinality(f[q]) = Len(request[q].todo)
        /\ Cardinality(free \ UNION {f[q] : q \in Requests}) >= n

-----------------------------------------------------------------------------
(* Creating one product.                                                    *)

Create(q, sku) ==
    /\ request[q].phase = "idle" /\ Room(1)
    /\ request' = [request EXCEPT ![q] = [Idle EXCEPT !.phase = "checking", !.todo = <<sku>>]]
    /\ UNCHANGED <<products, free, acknowledged>>

CheckSku(q) ==
    LET sku == Head(request[q].todo) IN
    /\ request[q].phase = "checking" /\ ~Held(q, sku)
    /\ IF \E id \in Committed : products[id].sku = sku
       THEN Answer(q)
       ELSE request' = [request EXCEPT ![q].phase = "creating"]
    /\ UNCHANGED <<products, free, acknowledged>>

\* Faulty: there is no unique index.
AllowDuplicates(q, sku) == FALSE

(* What the unique index holds against an insert by q.                      *)
Duplicate(q, sku) == \E id \in Committed \union request[q].rows : products[id].sku = sku

(* Ids are given in order.                                                  *)
Insert(id, sku) ==
    /\ id \in free /\ \A i \in free : id <= i
    /\ free' = free \ {id}
    /\ products' = [i \in DOMAIN products \union {id} |->
                       IF i = id THEN NewProduct(sku) ELSE products[i]]

SaveCreate(q) ==
    LET sku == Head(request[q].todo) IN
    /\ request[q].phase = "creating" /\ ~Held(q, sku)
    /\ IF Duplicate(q, sku) THEN UNCHANGED <<products, free>>
                            ELSE \E id \in free : Insert(id, sku)
    /\ Answer(q)
    /\ UNCHANGED acknowledged

-----------------------------------------------------------------------------
(* Creating products in bulk.                                               *)

BulkCreate(q, skus) ==
    /\ request[q].phase = "idle" /\ Room(Len(skus))
    /\ request' = [request EXCEPT ![q] = [Idle EXCEPT !.phase = "bulk", !.todo = skus]]
    /\ UNCHANGED <<products, free, acknowledged>>

\* Faulty: every row is committed at once.
BulkInsertAlone(q) ==
    LET sku == Head(request[q].todo) IN
    /\ request[q].phase = "bulk" /\ request[q].todo # <<>>
    /\ ~Held(q, sku) /\ ~Duplicate(q, sku)
    /\ \E id \in free : Insert(id, sku)
    /\ request' = [request EXCEPT ![q].todo = Tail(@)]
    /\ UNCHANGED acknowledged

BulkInsert(q) ==
    LET sku == Head(request[q].todo) IN
    /\ request[q].phase = "bulk" /\ request[q].todo # <<>>
    /\ ~Held(q, sku) /\ ~Duplicate(q, sku)
    /\ \E id \in free :
          /\ Insert(id, sku)
          /\ request' = [request EXCEPT ![q].todo = Tail(@), ![q].rows = @ \union {id}]
    /\ UNCHANGED acknowledged

Commit(q) ==
    /\ request[q].phase = "bulk" /\ request[q].todo = <<>>
    /\ Answer(q)
    /\ UNCHANGED <<products, free, acknowledged>>

\* Faulty: the transaction is not disposed of, and keeps its locks.
LeaveOpen(q) ==
    /\ request' = [request EXCEPT ![q] = [Idle EXCEPT !.rows = request[q].rows]]
    /\ UNCHANGED <<products, free, acknowledged>>

(* The transaction is disposed of without a commit.                         *)
Rollback(q) ==
    /\ products' = [id \in DOMAIN products \ request[q].rows |-> products[id]]
    /\ Answer(q)
    /\ UNCHANGED <<free, acknowledged>>

BulkDuplicate(q) ==
    /\ request[q].phase = "bulk" /\ request[q].todo # <<>>
    /\ ~Held(q, Head(request[q].todo)) /\ Duplicate(q, Head(request[q].todo))
    /\ Rollback(q)

(* q waits for o: the row it wants to insert is o's.                        *)
WaitsFor(q, o) ==
    /\ request[q].phase = "bulk" /\ request[q].todo # <<>> /\ q # o
    /\ \E id \in request[o].rows : products[id].sku = Head(request[q].todo)

(* q is in a circle of waiting transactions; each waits for one other.      *)
InCircle(q) ==
    \E circle \in SUBSET Requests :
        /\ q \in circle
        /\ \A o \in circle :
             /\ \E r \in circle : WaitsFor(o, r)
             /\ \E r \in circle : WaitsFor(r, o)

DeadlockVictim(q) ==
    /\ InCircle(q)
    /\ Rollback(q)

(* The client goes away, or the process stops.                              *)
Cancelled(q) ==
    /\ request[q].phase # "idle"
    /\ Rollback(q)

-----------------------------------------------------------------------------
(* Updating and deleting.                                                   *)

(* A client reads a product and sends it back with an edit.                 *)
Update(q, id, e) ==
    /\ request[q].phase = "idle" /\ products[id].version < MaxVersion
    /\ request' = [request EXCEPT ![q] =
           [Idle EXCEPT !.phase = "editing", !.id = id, !.version = products[id].version,
                        !.edits = products[id].edits \union {e}, !.new = {e}]]
    /\ UNCHANGED <<products, free, acknowledged>>

Acknowledge(id, new) == acknowledged' = [acknowledged EXCEPT ![id] = @ \union new]

\* Faulty: the version found is trusted instead of the version sent.
FindTrusting(q) ==
    LET id == request[q].id IN
    /\ request[q].phase = "editing" /\ id \in DOMAIN products
    /\ request' = [request EXCEPT ![q].phase = "updating", ![q].version = products[id].version]
    /\ UNCHANGED <<products, free, acknowledged>>

(* What is sent differs from the row found, whatever its version.           *)
Find(q) ==
    /\ request[q].phase = "editing" /\ request[q].id \in DOMAIN products
    /\ products[request[q].id].edits # request[q].edits
    /\ request' = [request EXCEPT ![q].phase = "updating"]
    /\ UNCHANGED <<products, free, acknowledged>>

(* Nothing is modified: no statement is sent, and the answer is Ok.         *)
FindUnchanged(q) ==
    LET id == request[q].id IN
    /\ request[q].phase = "editing" /\ id \in DOMAIN products
    /\ products[id].edits = request[q].edits
    /\ Acknowledge(id, request[q].new)
    /\ Answer(q)
    /\ UNCHANGED <<products, free>>

FindNothing(q) ==
    /\ request[q].phase = "editing" /\ request[q].id \notin DOMAIN products
    /\ Answer(q)
    /\ UNCHANGED <<products, free, acknowledged>>

(* The row is still the one that was read.                                  *)
Current(q) ==
    request[q].id \in DOMAIN products /\ products[request[q].id].version = request[q].version

SaveUpdate(q) ==
    LET id == request[q].id IN
    /\ request[q].phase = "updating" /\ Current(q)
    /\ products' = [products EXCEPT ![id].version = @ + 1, ![id].edits = request[q].edits]
    /\ Acknowledge(id, request[q].new)
    /\ Answer(q)
    /\ UNCHANGED free

(* No row has the version sent: Conflict.                                   *)
SaveConflict(q) ==
    /\ request[q].phase = "updating" /\ ~Current(q)
    /\ Answer(q)
    /\ UNCHANGED <<products, free, acknowledged>>

Delete(q, id) ==
    /\ request[q].phase = "idle"
    /\ request' = [request EXCEPT ![q] =
           [Idle EXCEPT !.phase = "removing", !.id = id, !.version = products[id].version,
                        !.edits = products[id].edits]]
    /\ UNCHANGED <<products, free, acknowledged>>

(* A row changed since then makes it an error that nothing catches.         *)
SaveDelete(q) ==
    /\ request[q].phase = "removing"
    /\ IF Current(q)
       THEN /\ products' = [id \in DOMAIN products \ {request[q].id} |-> products[id]]
            /\ acknowledged' = [acknowledged EXCEPT ![request[q].id] = @ \ request[q].edits]
       ELSE UNCHANGED <<products, acknowledged>>
    /\ Answer(q)
    /\ UNCHANGED free

-----------------------------------------------------------------------------
Proceed(q) ==
    \/ CheckSku(q) \/ SaveCreate(q)
    \/ BulkInsert(q) \/ BulkDuplicate(q) \/ Commit(q) \/ DeadlockVictim(q)
    \/ Find(q) \/ FindUnchanged(q) \/ FindNothing(q) \/ SaveUpdate(q) \/ SaveConflict(q)
    \/ SaveDelete(q)

Next ==
    \E q \in Requests :
        \/ \E sku \in Skus : Create(q, sku)
        \/ \E skus \in Batches : BulkCreate(q, skus)
        \/ \E id \in Committed : Delete(q, id) \/ \E e \in Edits : Update(q, id, e)
        \/ Cancelled(q)
        \/ Proceed(q)

Spec == Init /\ [][Next]_vars

(* A request that has begun goes on.                                        *)
FairSpec == Spec /\ \A q \in Requests : WF_vars(Proceed(q))
-----------------------------------------------------------------------------
(***************************************************************************)
(* Properties.                                                              *)
(***************************************************************************)

(* Every variable has its type.                                             *)
TypeOK ==
    /\ DOMAIN products \subseteq Ids \ free /\ free \subseteq Ids
    /\ \A id \in DOMAIN products : products[id] \in Product
    /\ \A q \in Requests :
         /\ request[q].phase \in Phases
         /\ request[q].todo \in Seq(Skus)
         /\ request[q].rows \subseteq DOMAIN products
         /\ request[q].edits \subseteq Edits /\ request[q].new \subseteq request[q].edits
    /\ acknowledged \in [Ids -> SUBSET Edits]

(* No two rows share a Sku, though creations check before they insert and   *)
(* bulk creations do not check at all.                                      *)
UniqueSkus ==
    \A i, j \in DOMAIN products : products[i].sku = products[j].sku => i = j

(* Rows appear one at a time by Create or all at once by a bulk creation    *)
(* that has inserted every one of its products: what a failed, cancelled or *)
(* deadlocked one has inserted is never seen.                               *)
AllOrNothing ==
    [][LET new == Committed' \ Committed IN
       new # {} => \E q \in Requests :
           \/ request[q].phase = "creating" /\ Cardinality(new) = 1
           \/ request[q].phase = "bulk" /\ request[q].todo = <<>> /\ new = request[q].rows]_vars

(* No lost update: an edit that was answered with Ok stays in its row       *)
(* whatever other clients read before it and write after it, and goes only  *)
(* with a deletion that found the row with it.                              *)
NoEditLost ==
    \A id \in Ids :
        acknowledged[id] \subseteq (IF id \in DOMAIN products THEN products[id].edits ELSE {})

(* Every request is answered: waiting for a Sku ends, although bulk         *)
(* creations that list their Skus in different orders wait for each other.  *)
EventuallyAnswered ==
    \A q \in Requests : (request[q].phase # "idle") ~> (request[q].phase = "idle")
=============================================================================
