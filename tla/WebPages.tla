------------------------------- MODULE WebPages -------------------------------
(***************************************************************************)
(* What the pages of the FieldOps front end promise their reader.  A page   *)
(* is opened, shows nothing, and then shows at most once the work orders as *)
(* they really were at one moment after it was opened.  The dashboard may   *)
(* show counts of an earlier moment: the API caches its report.             *)
(***************************************************************************)
EXTENDS Naturals, Sequences, FiniteSets

CONSTANTS WorkOrderIds, None

VARIABLES
    history,  \* the tables of work orders there have been, the present one last
    page,     \* the open page: its component, and the work order it is about
    since,    \* the position in history when the page was opened
    shown     \* {} until the page shows something, then the one thing it shows

pageVars == <<history, page, since, shown>>

Statuses   == {"Open", "Assigned", "InProgress", "Completed"}
Components == {"WorkOrderList", "WorkOrderDetail", "WorkOrderCreate",
               "WorkOrderDashboard", "Login"}

Existing(t)   == {w \in WorkOrderIds : t[w] # "Absent"}
RowsOf(t, W)  == {<<w, t[w]>> : w \in W \intersect Existing(t)}
CountsOf(t)   == {<<st, Cardinality({w \in WorkOrderIds : t[w] = st})>> : st \in Statuses}

(* What a page shows of a table.                                            *)
Picture(p, t) ==
    CASE p.component = "WorkOrderList"      -> RowsOf(t, WorkOrderIds)
      [] p.component = "WorkOrderDetail"    -> RowsOf(t, {p.id})
      [] p.component = "WorkOrderDashboard" -> CountsOf(t)

(* Work orders are created and change, and are never deleted.               *)
Change ==
    /\ \E w \in WorkOrderIds, status \in Statuses :
         history' = Append(history, [history[Len(history)] EXCEPT ![w] = status])
    /\ UNCHANGED <<page, since, shown>>

Open ==
    /\ page' \in [component : Components, id : WorkOrderIds \union {None}]
    /\ since' = Len(history)
    /\ shown' = {}
    /\ UNCHANGED history

Display ==
    /\ shown = {}
    /\ page.component \in {"WorkOrderList", "WorkOrderDetail", "WorkOrderDashboard"}
    /\ \E v \in 1 .. Len(history) :
         /\ page.component # "WorkOrderDashboard" => v >= since
         /\ shown' = {Picture(page, history[v])}
    /\ UNCHANGED <<history, page, since>>

Init ==
    /\ history = <<[w \in WorkOrderIds |-> "Absent"]>>
    /\ page \in [component : Components, id : WorkOrderIds \union {None}]
    /\ since = 1
    /\ shown = {}

Next == Change \/ Open \/ Display
Spec == Init /\ [][Next]_pageVars
=============================================================================
