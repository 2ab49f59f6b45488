------------------------------- MODULE WebClient -------------------------------
(***************************************************************************)
(* The Angular front end of FieldOps in one browser tab: the router and the *)
(* five components, the session AuthService keeps in memory, and the calls  *)
(* under way to FieldOps.Api, whose answers arrive in any order, late, or   *)
(* not at all.  Nothing cancels a call: when its component is gone, its     *)
(* callback still runs.                                                     *)
(*                                                                         *)
(* A list of work orders or a report is represented by the position in      *)
(* history of the table it was made from; titles are left out.  The history *)
(* buttons of the browser are left out too: an address changes by a link,   *)
(* by router.navigate, or by loading the document anew.                     *)
(***************************************************************************)
EXTENDS Naturals, Sequences, FiniteSets

CONSTANTS
    WorkOrderIds,  \* the identities the IDENTITY column can hand out
    Employees,     \* those a login succeeds for
    Admins,        \* those whose role is Admin
    Slots,         \* HTTP calls that can be under way at once (a bound)
    MaxChanges,    \* changes of the table of work orders (a bound)
    None           \* null

ASSUME WebAssumption ==
    /\ Admins \subseteq Employees
    /\ MaxChanges \in Nat
    /\ None \notin WorkOrderIds \union Employees \union Nat
    /\ "new" \notin WorkOrderIds

VARIABLES
    history,  \* every table of the demo organization there has been, in order
    address,  \* what the address bar shows: the segments of its path
    view,     \* the component in the router outlet
    session,  \* the token and the role AuthService holds
    calls     \* calls[c] is a call under way, or None

vars == <<history, address, view, session, calls>>

-----------------------------------------------------------------------------
(* The table behind the API, and what an answer says of it.                 *)

Statuses == {"Open", "Assigned", "InProgress", "Completed"}
Now      == Len(history)
Existing(v) == {w \in WorkOrderIds : history[v][w] # "Absent"}

\* The statuses EfWorkOrderDirectory moves a work order between.
Moves == {<<"Open", "Assigned">>, <<"Assigned", "InProgress">>, <<"InProgress", "Completed">>,
          <<"Assigned", "Open">>, <<"InProgress", "Open">>, <<"Completed", "InProgress">>}

\* An enum is sent as the position of its member, counted from 0.
WorkOrderStatus == <<"Open", "Assigned", "InProgress", "Completed">>
AsNumber(status) == CHOOSE n \in 0 .. 3 : WorkOrderStatus[n + 1] = status

WorkOrder(v, w)       == [id |-> w, status |-> AsNumber(history[v][w])]
WorkOrders(v)         == {WorkOrder(v, w) : w \in Existing(v)}
WorkOrderStatusReport(v) ==
    [status \in Statuses |-> Cardinality({w \in WorkOrderIds : history[v][w] = status})]

-----------------------------------------------------------------------------
(* Addresses and the components the router shows for them.                  *)

OrderPath(w) == <<"work-orders", w>>
Addresses == {<<>>, <<"login">>, <<"dashboard">>, <<"work-orders", "new">>}
             \union {OrderPath(w) : w \in WorkOrderIds}

\* Faulty: the route of an id comes before "new" and takes its address.
routesIdFirst ==
          <<[path |-> <<>>,                         component |-> "WorkOrderList"],
            [path |-> <<"login">>,                  component |-> "Login"],
            [path |-> <<"dashboard">>,              component |-> "WorkOrderDashboard"],
            [path |-> <<"work-orders", ":id">>,     component |-> "WorkOrderDetail"],
            [path |-> <<"work-orders", "new">>,     component |-> "WorkOrderCreate"]>>
routes == <<[path |-> <<>>,                         component |-> "WorkOrderList"],
            [path |-> <<"login">>,                  component |-> "Login"],
            [path |-> <<"dashboard">>,              component |-> "WorkOrderDashboard"],
            [path |-> <<"work-orders", "new">>,     component |-> "WorkOrderCreate"],
            [path |-> <<"work-orders", ":id">>,     component |-> "WorkOrderDetail"]>>

Matches(pattern, path) ==
    /\ Len(pattern) = Len(path)
    /\ \A i \in 1 .. Len(path) : pattern[i] \in {path[i], ":id"}

\* The first route that matches wins.
ComponentOf(path) ==
    LET first == CHOOSE i \in 1 .. Len(routes) :
                   /\ Matches(routes[i].path, path)
                   /\ \A j \in 1 .. i - 1 : ~Matches(routes[j].path, path)
    IN  routes[first].component

ParamId(path) == IF ComponentOf(path) = "WorkOrderDetail" THEN path[2] ELSE None

-----------------------------------------------------------------------------
(* Calls.                                                                   *)

NoSession == [token |-> None, role |-> None]
RoleOf(e) == IF e \in Admins THEN "Admin" ELSE "Member"

\* authInterceptor puts the token of the moment on every call.
Request(op, arg, token) ==
    [op |-> op, arg |-> arg, bearer |-> token, live |-> TRUE, answer |-> None]

login(e, token)    == Request("login", e, token)
getAll(token)      == Request("getAll", None, token)
getById(id, token) == Request("getById", id, token)
getReport(token)   == Request("getReport", None, token)
create(token)      == Request("create", None, token)

Fetches == {"getAll", "getById", "getReport"}

\* The call a component makes in ngOnInit, if it makes one.
OnInit(component, id, token) ==
    CASE component = "WorkOrderList"      -> getAll(token)
      [] component = "WorkOrderDetail"    -> getById(id, token)
      [] component = "WorkOrderDashboard" -> getReport(token)
      [] component \in {"WorkOrderCreate", "Login"} -> None

UnderWay(c, ops) == calls[c] # None /\ calls[c].op \in ops
Answered(c, ops) == UnderWay(c, ops) /\ calls[c].answer # None
Without(c)       == [calls EXCEPT ![c] = None]

\* The component is destroyed; its subscriptions are not.
Left(under) == [c \in Slots |-> IF under[c] = None THEN None
                                ELSE [under[c] EXCEPT !.live = FALSE]]

Send(under, request) ==
    \E c \in Slots : under[c] = None /\ calls' = [under EXCEPT ![c] = request]

-----------------------------------------------------------------------------
(* Navigation.  "under" is what is left of the calls, and "token" the token *)
(* held, when the router acts.                                              *)

NewView(path, origin) ==
    [component |-> ComponentOf(path), id |-> ParamId(path), content |-> 0,
     error |-> FALSE, origin |-> origin, since |-> Now]

Enter(path, origin, under, token) ==
    LET request == OnInit(ComponentOf(path), ParamId(path), token)
    IN  /\ address' = path
        /\ view' = NewView(path, origin)
        /\ IF request = None THEN calls' = under ELSE Send(under, request)

\* The router keeps the instance while the route is the same, and the
\* component reads its parameter in ngOnInit only.
Navigate(path, origin, under, token) ==
    IF ComponentOf(path) = view.component
    THEN address' = path /\ calls' = under /\ UNCHANGED view
    ELSE Enter(path, origin, Left(under), token)

\* The document is loaded: the session, the components and their calls are new.
Load(path) ==
    /\ session' = NoSession
    /\ Enter(path, "address", [c \in Slots |-> None], None)
    /\ UNCHANGED history

isAdmin == session.role = "Admin"

\* What the page offers to follow.
ListLinks ==
    {<<"dashboard">>}
    \union (IF isAdmin THEN {<<"work-orders", "new">>} ELSE {})
    \union (IF view.content = 0 THEN {}
            ELSE {OrderPath(order.id) : order \in WorkOrders(view.content)})
DetailLinks == {<<>>}
Links ==
    {<<"login">>}
    \union (IF view.component = "WorkOrderList" THEN ListLinks ELSE {})
    \union (IF view.component = "WorkOrderDetail" THEN DetailLinks ELSE {})

Follow(path) ==
    /\ path \in Links
    /\ Navigate(path, "link", calls, session.token)
    /\ UNCHANGED <<history, session>>

-----------------------------------------------------------------------------
(* Login.                                                                   *)

SubmitLogin(e) ==
    /\ view.component = "Login"
    /\ view' = [view EXCEPT !.error = FALSE]
    /\ Send(calls, login(e, session.token))
    /\ UNCHANGED <<history, address, session>>

\* AuthController's answer: a token for the employee, and the role.
AnswerLogin(c) ==
    /\ UnderWay(c, {"login"}) /\ calls[c].answer = None
    /\ calls' = [calls EXCEPT ![c].answer = calls[c].arg]
    /\ UNCHANGED <<history, address, view, session>>

\* Faulty: navigates with what was held before the answer was stored.
LoggedInNavigatingFirst(c) ==
    /\ Answered(c, {"login"})
    /\ session' = [token |-> calls[c].answer, role |-> RoleOf(calls[c].answer)]
    /\ Navigate(<<>>, "login", Without(c), session.token)
    /\ UNCHANGED history
\* Faulty: navigates only while the form that asked is still there.
LoggedInIfStillThere(c) ==
    /\ Answered(c, {"login"})
    /\ session' = [token |-> calls[c].answer, role |-> RoleOf(calls[c].answer)]
    /\ IF calls[c].live THEN Navigate(<<>>, "login", Without(c), calls[c].answer)
       ELSE calls' = Without(c) /\ UNCHANGED <<address, view>>
    /\ UNCHANGED history
LoggedIn(c) ==
    /\ Answered(c, {"login"})
    /\ session' = [token |-> calls[c].answer, role |-> RoleOf(calls[c].answer)]
    /\ Navigate(<<>>, "login", Without(c), calls[c].answer)
    /\ UNCHANGED history

LoginFailed(c) ==
    /\ UnderWay(c, {"login"})
    /\ view' = IF calls[c].live THEN [view EXCEPT !.error = TRUE] ELSE view
    /\ calls' = Without(c)
    /\ UNCHANGED <<history, address, session>>

-----------------------------------------------------------------------------
(* Creating a work order.                                                   *)

SubmitCreate ==
    /\ view.component = "WorkOrderCreate"
    /\ Send(calls, create(session.token))
    /\ UNCHANGED <<history, address, view, session>>

Stored(w) ==
    /\ Now <= MaxChanges
    /\ w \notin Existing(Now)
    /\ history' = Append(history, [history[Now] EXCEPT ![w] = "Open"])

AnswerCreate(c) ==
    /\ UnderWay(c, {"create"}) /\ calls[c].answer = None
    /\ \E w \in WorkOrderIds :
         /\ Stored(w)
         /\ calls' = [calls EXCEPT ![c].answer = w]
    /\ UNCHANGED <<address, view, session>>

Created(c) ==
    /\ Answered(c, {"create"})
    /\ Navigate(OrderPath(calls[c].answer), "created", Without(c), session.token)
    /\ UNCHANGED <<history, session>>

-----------------------------------------------------------------------------
(* Reading.                                                                 *)

\* Faulty: a list read earlier is answered again.
AnswerReadOfAnyAge(c) ==
    /\ UnderWay(c, {"getAll", "getById"}) /\ calls[c].answer = None
    /\ \E v \in 1 .. Now : calls' = [calls EXCEPT ![c].answer = v]
    /\ UNCHANGED <<history, address, view, session>>
\* GetAll of WorkOrdersController; getById asks for the same list.
AnswerRead(c) ==
    /\ UnderWay(c, {"getAll", "getById"}) /\ calls[c].answer = None
    /\ calls' = [calls EXCEPT ![c].answer = Now]
    /\ UNCHANGED <<history, address, view, session>>

\* GetStatusReport of WorkOrdersController, whose report may be a cached one.
AnswerReport(c) ==
    /\ UnderWay(c, {"getReport"}) /\ calls[c].answer = None
    /\ \E v \in 1 .. Now : calls' = [calls EXCEPT ![c].answer = v]
    /\ UNCHANGED <<history, address, view, session>>

\* What an answer sets is a signal of the component that asked.
Fills(c) ==
    /\ view' = IF calls[c].live THEN [view EXCEPT !.content = calls[c].answer] ELSE view
    /\ calls' = Without(c)
    /\ UNCHANGED <<history, address, session>>

\* Faulty: an answer asked for under another token is left alone.
ListArrivesInSession(c) ==
    Answered(c, {"getAll"}) /\ calls[c].bearer = session.token /\ Fills(c)
ListArrives(c)   == Answered(c, {"getAll"}) /\ Fills(c)

\* Faulty: the answer is kept where the page shown now reads it.
DetailArrivesAnywhere(c) ==
    /\ Answered(c, {"getById"})
    /\ view' = IF view.component \in {"WorkOrderList", "WorkOrderDetail"}
               THEN [view EXCEPT !.content = calls[c].answer] ELSE view
    /\ calls' = Without(c)
    /\ UNCHANGED <<history, address, session>>
DetailArrives(c) == Answered(c, {"getById"}) /\ Fills(c)

ReportArrives(c) == Answered(c, {"getReport"}) /\ Fills(c)
Arrives(c)       == ListArrives(c) \/ DetailArrives(c) \/ ReportArrives(c)

\* A call of a component that gives subscribe no error callback.
Unheard(c) ==
    /\ UnderWay(c, Fetches \union {"create"})
    /\ calls' = Without(c)
    /\ UNCHANGED <<history, address, view, session>>

-----------------------------------------------------------------------------
(* Other clients of the API.                                                *)

OthersCreate ==
    /\ \E w \in WorkOrderIds : Stored(w)
    /\ UNCHANGED <<address, view, session, calls>>

OthersMove ==
    /\ Now <= MaxChanges
    /\ \E w \in Existing(Now), status \in Statuses :
         /\ <<history[Now][w], status>> \in Moves
         /\ history' = Append(history, [history[Now] EXCEPT ![w] = status])
    /\ UNCHANGED <<address, view, session, calls>>

-----------------------------------------------------------------------------
Init ==
    /\ history = <<[w \in WorkOrderIds |-> "Absent"]>>
    /\ session = NoSession
    /\ address = <<>>
    /\ view = [component |-> "WorkOrderList", id |-> None, content |-> 0,
               error |-> FALSE, origin |-> "address", since |-> 1]
    /\ \E c \in Slots :
         calls = [d \in Slots |-> IF d = c THEN getAll(None) ELSE None]

User ==
    \/ \E path \in Addresses : Load(path) \/ Follow(path)
    \/ \E e \in Employees : SubmitLogin(e)
    \/ SubmitCreate

Callback(c) == LoggedIn(c) \/ LoginFailed(c) \/ Created(c) \/ Arrives(c) \/ Unheard(c)
Api(c)      == AnswerLogin(c) \/ AnswerCreate(c) \/ AnswerRead(c) \/ AnswerReport(c)

Next ==
    \/ User
    \/ \E c \in Slots : Api(c) \/ Callback(c)
    \/ OthersCreate \/ OthersMove

Spec == Init /\ [][Next]_vars

(* The API answers what it is asked, and an answer runs its callback.       *)
Fairness ==
    \A c \in Slots : WF_vars(AnswerRead(c) \/ AnswerReport(c)) /\ WF_vars(Arrives(c))
FairSpec == Spec /\ Fairness

-----------------------------------------------------------------------------
(* Every variable keeps its type, and the view is the one the router shows  *)
(* for the address (though not always for its parameter).                   *)
View == [component : {"WorkOrderList", "WorkOrderDetail", "WorkOrderCreate",
                      "WorkOrderDashboard", "Login"},
         id : WorkOrderIds \union {None}, content : Nat, error : BOOLEAN,
         origin : {"address", "link", "login", "created"}, since : Nat]
Call == [op : {"login", "getAll", "getById", "create", "getReport"},
         arg : Employees \union WorkOrderIds \union {None},
         bearer : Employees \union {None}, live : BOOLEAN,
         answer : Nat \union Employees \union WorkOrderIds \union {None}]

TypeOK ==
    /\ history \in Seq([WorkOrderIds -> Statuses \union {"Absent"}]) /\ history # <<>>
    /\ address \in Addresses
    /\ view \in View /\ view.component = ComponentOf(address)
    /\ session \in [token : Employees \union {None}, role : {"Admin", "Member", None}]
    /\ calls \in [Slots -> Call \union {None}]

(* What is on the screen.                                                   *)
WORK_ORDER_STATUS_LABELS == <<"Open", "Assigned", "InProgress", "Completed">>
Label(order) == <<order.id, WORK_ORDER_STATUS_LABELS[order.status + 1]>>
Found(v, id) == {order \in WorkOrders(v) : order.id = id}

OnScreen ==
    CASE view.component = "WorkOrderList"   -> {Label(o) : o \in WorkOrders(view.content)}
      [] view.component = "WorkOrderDetail" -> {Label(o) : o \in Found(view.content, view.id)}
      [] view.component = "WorkOrderDashboard" ->
           {<<st, WorkOrderStatusReport(view.content)[st]>> : st \in Statuses}
      [] OTHER -> {}

notFound == view.component = "WorkOrderDetail" /\ view.content # 0 /\ OnScreen = {}

(* Whatever order answers arrive in, and whichever page has been left when  *)
(* they do, a page shows once what the table was at one moment after the    *)
(* page was opened (on the dashboard, at one moment).                       *)
Pages == INSTANCE WebPages WITH
           page  <- [component |-> view.component, id |-> view.id],
           since <- view.since,
           shown <- IF view.content = 0 THEN {} ELSE {OnScreen}
ImplementsPages == Pages!Spec

(* The page of a work order that was just created, or that was opened from  *)
(* the list, never says that there is no such work order.                   *)
OpenedIsFound == view.origin \in {"created", "link"} => ~notFound

(* The form for a new work order, reached by its link, is before an Admin,  *)
(* even when an earlier login is answered late.                             *)
CreateIsForAdmins ==
    view.component = "WorkOrderCreate" /\ view.origin = "link" => session.role = "Admin"

(* What the page a login leads to asks for is asked with a token, however   *)
(* many logins are under way: the token is stored before the page is opened.*)
SignedInCalls ==
    view.origin = "login" =>
        /\ session.token # None
        /\ \A c \in Slots : calls[c] # None /\ calls[c].live => calls[c].bearer # None

(* Unless the document is loaded anew for ever, each call a page makes to   *)
(* fill itself ends, or the page is left.                                   *)
Waiting(c)  == UnderWay(c, Fetches) /\ calls[c].live
PagesSettle ==
    <>[][\A path \in Addresses : ~Load(path)]_vars =>
        \A c \in Slots : Waiting(c) ~> ~Waiting(c)

(* Creating a work order leads to its page: the page of a work order shows  *)
(* the one its address names.  A late answer to a creation breaks it.       *)
ShowsItsAddress ==
    view.component = "WorkOrderDetail" /\ view.content # 0 => view.id = ParamId(address)
=============================================================================
