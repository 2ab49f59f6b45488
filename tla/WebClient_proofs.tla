---------------------------- MODULE WebClient_proofs ----------------------------
(***************************************************************************)
(* Proofs about WebClient, for any work orders, employees, number of calls  *)
(* under way and number of changes: its types, its safety invariants, and   *)
(* that it implements WebPages.                                             *)
(***************************************************************************)
EXTENDS WebClient, SequenceTheorems, TLAPS

-----------------------------------------------------------------------------
(* The inductive invariant.                                                 *)

\* What a call under way was asked, and what it has been answered.
CallSound(call) ==
    /\ call.op = "login" => call.arg \in Employees /\ call.answer \in {None, call.arg}
    /\ call.op = "create" => call.answer \in {None} \union Existing(Now)
    /\ call.op \in Fetches => call.answer \in {None} \union (1 .. Now)

\* A call that fills a page was made by the page that is open, which is empty.
FetchSound(call) ==
    call.live /\ call.op \in Fetches =>
        /\ call.op = "getAll"    => view.component = "WorkOrderList"
        /\ call.op = "getById"   => view.component = "WorkOrderDetail"
        /\ call.op = "getReport" => view.component = "WorkOrderDashboard"
        /\ view.content = 0
        /\ call.op # "getReport" /\ call.answer # None => call.answer >= view.since

CallsSound == \A c \in Slots : calls[c] # None => CallSound(calls[c]) /\ FetchSound(calls[c])
OneFetch   == \A c, d \in Slots : Waiting(c) /\ Waiting(d) => c = d

\* What a page shows is not older than the page (a report may be).
ViewSound ==
    /\ view.since \in 1 .. Now
    /\ view.content \in 0 .. Now
    /\ view.content # 0 /\ view.component # "WorkOrderDashboard" => view.content >= view.since

\* Work orders are never deleted.
TablesGrow == \A v, u \in 1 .. Now : v <= u => Existing(v) \subseteq Existing(u)

OpenedExists ==
    view.component = "WorkOrderDetail" /\ view.origin \in {"created", "link"} =>
        view.id \in Existing(view.since)

IInv == TypeOK /\ CallsSound /\ OneFetch /\ ViewSound /\ TablesGrow /\ OpenedExists
        /\ CreateIsForAdmins /\ SignedInCalls

-----------------------------------------------------------------------------
(* Routing.                                                                 *)

Components == {"WorkOrderList", "WorkOrderDetail", "WorkOrderCreate",
               "WorkOrderDashboard", "Login"}

(* The first route that matches decides.                                    *)
LEMMA FirstMatch ==
    ASSUME NEW path, NEW i \in 1 .. 5, Matches(routes[i].path, path),
           \A j \in 1 .. i - 1 : ~Matches(routes[j].path, path)
    PROVE  ComponentOf(path) = routes[i].component
<1> DEFINE P(k) == /\ Matches(routes[k].path, path)
                   /\ \A j \in 1 .. k - 1 : ~Matches(routes[j].path, path)
           first == CHOOSE k \in 1 .. Len(routes) : P(k)
<1>1. Len(routes) = 5
  BY DEF routes
<1>2. P(i)
  OBVIOUS
<1>3. first \in 1 .. Len(routes) /\ P(first)
  <2> HIDE DEF P
  <2> QED BY <1>1, <1>2
<1>4. first = i
  BY <1>1, <1>2, <1>3
<1>5. ComponentOf(path) = routes[first].component
  BY DEF ComponentOf
<1> QED BY <1>4, <1>5

(* Each address has the component its route names.                          *)
LEMMA Routing ==
    /\ ComponentOf(<<>>) = "WorkOrderList"
    /\ ComponentOf(<<"login">>) = "Login"
    /\ ComponentOf(<<"dashboard">>) = "WorkOrderDashboard"
    /\ ComponentOf(<<"work-orders", "new">>) = "WorkOrderCreate"
    /\ \A w \in WorkOrderIds : ComponentOf(OrderPath(w)) = "WorkOrderDetail"
<1>0. /\ routes[1].path = <<>> /\ routes[1].component = "WorkOrderList"
      /\ routes[2].path = <<"login">> /\ routes[2].component = "Login"
      /\ routes[3].path = <<"dashboard">> /\ routes[3].component = "WorkOrderDashboard"
      /\ routes[4].path = <<"work-orders", "new">> /\ routes[4].component = "WorkOrderCreate"
      /\ routes[5].path = <<"work-orders", ":id">> /\ routes[5].component = "WorkOrderDetail"
  BY DEF routes
<1>a. Matches(<<>>, <<>>) /\ (\A x : ~Matches(<<>>, <<x>>)) /\ (\A x, y : ~Matches(<<>>, <<x, y>>))
  BY DEF Matches
<1>b. \A s, x : Matches(<<s>>, <<x>>) <=> s = x \/ s = ":id"
  BY DEF Matches
<1>c. \A s, x, y : ~Matches(<<s>>, <<x, y>>)
  BY DEF Matches
<1>d. \A s, t, x : ~Matches(<<s, t>>, <<x>>)
  BY DEF Matches
<1>e. \A s, t, x, y : Matches(<<s, t>>, <<x, y>>) <=> (s = x \/ s = ":id") /\ (t = y \/ t = ":id")
  <2> TAKE s, t, x, y
  <2>1. Len(<<s, t>>) = 2 /\ Len(<<x, y>>) = 2 /\ 1 .. 2 = {1, 2}
    OBVIOUS
  <2>2. <<s, t>>[1] = s /\ <<s, t>>[2] = t /\ <<x, y>>[1] = x /\ <<x, y>>[2] = y
    OBVIOUS
  <2> QED BY <2>1, <2>2 DEF Matches
<1>1. ComponentOf(<<>>) = "WorkOrderList"
  BY <1>0, <1>a, FirstMatch
<1>2. ComponentOf(<<"login">>) = "Login"
  <2>1. Matches(routes[2].path, <<"login">>) /\ ~Matches(routes[1].path, <<"login">>)
    BY <1>0, <1>a, <1>b
  <2> QED BY <1>0, <2>1, FirstMatch
<1>3. ComponentOf(<<"dashboard">>) = "WorkOrderDashboard"
  <2> DEFINE path == <<"dashboard">>
  <2>1. Matches(routes[3].path, path) /\ ~Matches(routes[1].path, path) /\ ~Matches(routes[2].path, path)
    BY <1>0, <1>a, <1>b
  <2> QED BY <1>0, <2>1, FirstMatch
<1>4. ComponentOf(<<"work-orders", "new">>) = "WorkOrderCreate"
  <2> DEFINE path == <<"work-orders", "new">>
  <2>1. /\ Matches(routes[4].path, path) /\ ~Matches(routes[1].path, path)
        /\ ~Matches(routes[2].path, path) /\ ~Matches(routes[3].path, path)
    BY <1>0, <1>a, <1>c, <1>e
  <2> QED BY <1>0, <2>1, FirstMatch
<1>5. ASSUME NEW w \in WorkOrderIds
      PROVE  ComponentOf(OrderPath(w)) = "WorkOrderDetail"
  <2> DEFINE path == <<"work-orders", w>>
  <2>1. /\ Matches(routes[5].path, path) /\ ~Matches(routes[1].path, path)
        /\ ~Matches(routes[2].path, path) /\ ~Matches(routes[3].path, path)
    BY <1>0, <1>a, <1>c, <1>e
  <2>2. ~Matches(routes[4].path, path)
    BY <1>0, <1>e, WebAssumption
  <2> QED BY <1>0, <2>1, <2>2, FirstMatch DEF OrderPath
<1> QED BY <1>1, <1>2, <1>3, <1>4, <1>5

(* What the router makes of an address.                                     *)
LEMMA AddressParts ==
    ASSUME NEW path \in Addresses
    PROVE  /\ ComponentOf(path) \in Components
           /\ ParamId(path) \in WorkOrderIds \union {None}
           /\ ComponentOf(path) = "WorkOrderDetail" =>
                ParamId(path) \in WorkOrderIds /\ path = OrderPath(ParamId(path))
<1>1. CASE path \in {<<>>, <<"login">>, <<"dashboard">>, <<"work-orders", "new">>}
  BY <1>1, Routing DEF Components, ParamId
<1>2. ASSUME NEW w \in WorkOrderIds, path = OrderPath(w)
      PROVE  ParamId(path) = w /\ ComponentOf(path) = "WorkOrderDetail"
  BY <1>2, Routing DEF ParamId, OrderPath
<1> QED BY <1>1, <1>2 DEF Addresses, Components

-----------------------------------------------------------------------------
(* The calls under way.                                                     *)

CallSet == [Slots -> Call \union {None}]
Bearers == Employees \union {None}
Origins == {"address", "link", "login", "created"}

\* All but the table and the session is of its type, and calls and view fit.
Consistent ==
    /\ address \in Addresses
    /\ view \in View /\ view.component = ComponentOf(address)
    /\ calls \in CallSet
    /\ CallsSound /\ OneFetch /\ ViewSound

(* What a component asks for when it starts.                                *)
LEMMA OnInitAsks ==
    ASSUME NEW component \in Components, NEW id \in WorkOrderIds \union {None},
           NEW token \in Bearers, NEW request,
           request = OnInit(component, id, token), request # None
    PROVE  /\ request \in Call
           /\ request.op \in Fetches /\ request.live
           /\ request.answer = None /\ request.bearer = token
           /\ request.op = "getAll"    => component = "WorkOrderList"
           /\ request.op = "getById"   => component = "WorkOrderDetail"
           /\ request.op = "getReport" => component = "WorkOrderDashboard"
<1>0. ASSUME NEW op \in Fetches, NEW arg \in WorkOrderIds \union {None},
             request = Request(op, arg, token)
      PROVE  /\ request \in Call /\ request.op = op /\ request.live
             /\ request.answer = None /\ request.bearer = token
  <2>1. request = [op |-> op, arg |-> arg, bearer |-> token, live |-> TRUE, answer |-> None]
    BY <1>0 DEF Request
  <2> QED BY <2>1 DEF Call, Fetches, Bearers
<1>1. CASE component = "WorkOrderList"
  <2>1. request = Request("getAll", None, token)
    BY <1>1 DEF OnInit, getAll
  <2> QED BY <1>0, <1>1, <2>1 DEF Fetches
<1>2. CASE component = "WorkOrderDetail"
  <2>1. request = Request("getById", id, token)
    BY <1>2 DEF OnInit, getById
  <2> QED BY <1>0, <1>2, <2>1 DEF Fetches
<1>3. CASE component = "WorkOrderDashboard"
  <2>1. request = Request("getReport", None, token)
    BY <1>3 DEF OnInit, getReport
  <2> QED BY <1>0, <1>3, <2>1 DEF Fetches
<1>4. CASE component \in {"WorkOrderCreate", "Login"}
  BY <1>4 DEF OnInit
<1> QED BY <1>1, <1>2, <1>3, <1>4 DEF Components

(* Leaving a component keeps its calls, and none of them can fill a page.   *)
LEMMA LeftCalls ==
    ASSUME NEW under \in CallSet
    PROVE  /\ Left(under) \in CallSet
           /\ \A c \in Slots :
                /\ under[c] = None => Left(under)[c] = None
                /\ under[c] # None =>
                     /\ ~Left(under)[c].live
                     /\ CallSound(under[c]) => CallSound(Left(under)[c])
<1> SUFFICES ASSUME NEW c \in Slots
             PROVE  /\ Left(under)[c] \in Call \union {None}
                    /\ under[c] = None => Left(under)[c] = None
                    /\ under[c] # None =>
                         /\ ~Left(under)[c].live
                         /\ CallSound(under[c]) => CallSound(Left(under)[c])
  BY DEF Left, CallSet
<1>1. CASE under[c] = None
  BY <1>1 DEF Left
<1>2. CASE under[c] # None
  <2>1. under[c] \in Call /\ Left(under)[c] = [under[c] EXCEPT !.live = FALSE]
    BY <1>2 DEF Left, CallSet
  <2> QED BY <1>2, <2>1 DEF Call, CallSound
<1> QED BY <1>1, <1>2

(* A component is entered with calls that can no longer fill a page.        *)
LEMMA Entered ==
    ASSUME TypeOK, NEW path \in Addresses, NEW origin \in Origins,
           NEW under \in CallSet, NEW token \in Bearers,
           \A c \in Slots : under[c] # None => CallSound(under[c]) /\ ~under[c].live,
           Enter(path, origin, under, token), UNCHANGED history
    PROVE  /\ Consistent'
           /\ view' = NewView(path, origin)
           /\ \A c \in Slots : calls'[c] # None /\ calls'[c].live => calls'[c].bearer = token
<1> DEFINE request == OnInit(ComponentOf(path), ParamId(path), token)
           v == NewView(path, origin)
<1>1. address' = path /\ view' = v
  BY DEF Enter
<1>2. Now \in Nat /\ Now >= 1 /\ Now' = Now
  BY DEF TypeOK, Now
<1>3. /\ v \in View /\ v.component = ComponentOf(path) /\ v.id = ParamId(path)
      /\ v.content = 0 /\ v.since = Now
  BY <1>2, AddressParts DEF NewView, View, Components, Origins
<1>4. ViewSound'
  BY <1>1, <1>2, <1>3 DEF ViewSound
<1>5. \A call : CallSound(call) => CallSound(call)'
  BY <1>2 DEF CallSound, Existing
<1>6. CASE request = None
  <2>1. calls' = under
    BY <1>6 DEF Enter
  <2>2. CallsSound' /\ OneFetch'
    BY <1>5, <2>1 DEF CallsSound, FetchSound, OneFetch, Waiting, UnderWay
  <2> QED BY <1>1, <1>3, <1>4, <2>1, <2>2 DEF Consistent
<1>7. CASE request # None
  <2>1. PICK c \in Slots : under[c] = None /\ calls' = [under EXCEPT ![c] = request]
    BY <1>7 DEF Enter, Send
  <2>2. /\ request \in Call /\ request.op \in Fetches /\ request.live
        /\ request.answer = None /\ request.bearer = token
        /\ request.op = "getAll"    => v.component = "WorkOrderList"
        /\ request.op = "getById"   => v.component = "WorkOrderDetail"
        /\ request.op = "getReport" => v.component = "WorkOrderDashboard"
    <3> HIDE DEF request
    <3> QED BY <1>3, <1>7, AddressParts, OnInitAsks DEF request
  <2>3. calls' \in CallSet /\ calls'[c] = request /\ \A d \in Slots \ {c} : calls'[d] = under[d]
    <3> HIDE DEF request
    <3> QED BY <2>1, <2>2 DEF CallSet
  <2>4. CallSound(request)' /\ FetchSound(request)'
    <3> HIDE DEF request, v
    <3> QED BY <1>1, <1>3, <2>2 DEF CallSound, FetchSound, Fetches
  <2>5. CallsSound'
    <3> HIDE DEF request
    <3> QED BY <1>5, <2>3, <2>4 DEF CallsSound, FetchSound
  <2>6. OneFetch'
    <3> HIDE DEF request
    <3> QED BY <2>3 DEF OneFetch, Waiting, UnderWay
  <2>7. \A d \in Slots : calls'[d] # None /\ calls'[d].live => calls'[d].bearer = token
    <3> HIDE DEF request
    <3> QED BY <2>2, <2>3
  <2> QED BY <1>1, <1>3, <1>4, <2>3, <2>5, <2>6, <2>7 DEF Consistent
<1> QED BY <1>6, <1>7

(* With fewer calls under way, and the same page but for its error message  *)
(* and its parameter in the address, all is as before.                      *)
LEMMA Fewer ==
    ASSUME TypeOK, Consistent, NEW under \in CallSet,
           \A c \in Slots : under[c] \in {None, calls[c]},
           calls' = under, UNCHANGED history,
           view' = view \/ \E b \in BOOLEAN : view' = [view EXCEPT !.error = b],
           address' \in Addresses, ComponentOf(address') = view.component
    PROVE  Consistent'
<1>1. /\ view' \in View /\ view'.component = view.component
      /\ view'.content = view.content /\ view'.since = view.since
  BY DEF Consistent, View
<1>2. Now' = Now /\ \A v : Existing(v)' = Existing(v)
  BY DEF Now, Existing
<1>3. \A call : (CallSound(call) => CallSound(call)') /\ (FetchSound(call) => FetchSound(call)')
  BY <1>1, <1>2 DEF CallSound, FetchSound
<1>4. CallsSound'
  BY <1>3 DEF CallsSound, Consistent
<1>5. OneFetch'
  BY DEF OneFetch, Waiting, UnderWay, Consistent
<1>6. ViewSound'
  BY <1>1, <1>2 DEF ViewSound, Consistent
<1> QED BY <1>1, <1>4, <1>5, <1>6 DEF Consistent

(* The router, asked to go somewhere, keeps the page or opens another.      *)
LEMMA Navigated ==
    ASSUME TypeOK, Consistent, NEW path \in Addresses, NEW origin \in Origins,
           NEW under \in CallSet, NEW token \in Bearers,
           \A c \in Slots : under[c] \in {None, calls[c]},
           Navigate(path, origin, under, token), UNCHANGED history
    PROVE  /\ Consistent'
           /\ \/ view' = view /\ ComponentOf(path) = view.component /\ calls' = under
              \/ /\ ComponentOf(path) # view.component
                 /\ view' = NewView(path, origin)
                 /\ \A c \in Slots : calls'[c] # None /\ calls'[c].live => calls'[c].bearer = token
<1>1. CASE ComponentOf(path) = view.component
  <2>1. address' = path /\ calls' = under /\ view' = view
    BY <1>1 DEF Navigate
  <2> QED BY <1>1, <2>1, Fewer
<1>2. CASE ComponentOf(path) # view.component
  <2>1. Enter(path, origin, Left(under), token)
    BY <1>2 DEF Navigate
  <2>2. \A c \in Slots : Left(under)[c] # None => CallSound(Left(under)[c]) /\ ~Left(under)[c].live
    BY LeftCalls DEF Consistent, CallsSound
  <2>3. Left(under) \in CallSet
    BY LeftCalls
  <2> QED BY <1>2, <2>1, <2>2, <2>3, Entered
<1> QED BY <1>1, <1>2

(* Taking a call away.                                                      *)
LEMMA WithoutCall ==
    ASSUME calls \in CallSet, NEW c \in Slots
    PROVE  /\ Without(c) \in CallSet /\ Without(c)[c] = None
           /\ \A d \in Slots : Without(c)[d] \in {None, calls[d]}
BY DEF Without, CallSet

(* A call is put under way by a form, which fills no page.                  *)
LEMMA Submitted ==
    ASSUME TypeOK, Consistent, NEW call \in Call, call.op \in {"login", "create"},
           call.answer = None, call.op = "login" => call.arg \in Employees,
           Send(calls, call), UNCHANGED <<history, address>>,
           view' = view \/ \E b \in BOOLEAN : view' = [view EXCEPT !.error = b]
    PROVE  Consistent' /\ \A d \in Slots : calls'[d] \in {call, calls[d]}
<1>1. /\ view' \in View /\ view'.component = view.component
      /\ view'.content = view.content /\ view'.since = view.since
  BY DEF Consistent, View
<1>2. Now' = Now /\ \A v : Existing(v)' = Existing(v)
  BY DEF Now, Existing
<1>3. \A k : (CallSound(k) => CallSound(k)') /\ (FetchSound(k) => FetchSound(k)')
  BY <1>1, <1>2 DEF CallSound, FetchSound
<1>4. PICK c \in Slots : calls[c] = None /\ calls' = [calls EXCEPT ![c] = call]
  BY DEF Send
<1>5. calls' \in CallSet /\ calls'[c] = call /\ \A d \in Slots \ {c} : calls'[d] = calls[d]
  BY <1>4 DEF Consistent, CallSet
<1>6. CallSound(call)' /\ FetchSound(call)'
  BY DEF CallSound, FetchSound, Fetches
<1>7. CallsSound'
  BY <1>3, <1>5, <1>6 DEF CallsSound, Consistent
<1>8. OneFetch'
  BY <1>5 DEF OneFetch, Waiting, UnderWay, Consistent, Fetches
<1>9. ViewSound'
  BY <1>1, <1>2 DEF ViewSound, Consistent
<1> QED BY <1>1, <1>5, <1>7, <1>8, <1>9 DEF Consistent

(* A call is answered: nothing else changes but, perhaps, the table.        *)
LEMMA Answers ==
    ASSUME TypeOK, Consistent, NEW c \in Slots, calls[c] # None, calls[c].answer = None,
           NEW answer, calls' = [calls EXCEPT ![c].answer = answer],
           Now' >= Now, \A v \in 1 .. Now : Existing(v)' = Existing(v),
           Now' \in Nat, Existing(Now) \subseteq Existing(Now)',
           UNCHANGED <<address, view>>,
           calls[c].op = "login" => answer = calls[c].arg,
           calls[c].op = "create" => answer \in Existing(Now)',
           calls[c].op \in Fetches => answer \in 1 .. Now,
           calls[c].op \in {"getAll", "getById"} => answer = Now
    PROVE  Consistent'
<1>1. /\ calls[c] \in Call /\ calls'[c] = [calls[c] EXCEPT !.answer = answer]
      /\ \A d \in Slots \ {c} : calls'[d] = calls[d]
  BY DEF Consistent, CallSet
<1>2. CallSound(calls[c]) /\ FetchSound(calls[c])
  BY DEF Consistent, CallsSound
<1>3. answer \in Nat \union Employees \union WorkOrderIds \union {None}
  BY <1>1, <1>2 DEF Call, Existing, CallSound, Fetches
<1>4. calls' \in CallSet
  BY <1>1, <1>3 DEF Consistent, CallSet, Call
<1>5. Now \in Nat /\ Now >= 1
  BY DEF TypeOK, Now
<1>6. \A k : (CallSound(k) => CallSound(k)') /\ (FetchSound(k) => FetchSound(k)')
  BY <1>5 DEF CallSound, FetchSound
<1>7. CallSound(calls[c])'
  BY <1>1, <1>2, <1>5 DEF CallSound, Call
<1>8. FetchSound(calls[c])'
  BY <1>1, <1>2, <1>5 DEF FetchSound, Call, Fetches, Consistent, ViewSound
<1>9. CallsSound'
  BY <1>1, <1>6, <1>7, <1>8 DEF CallsSound, Consistent
<1>10. OneFetch'
  BY <1>1 DEF OneFetch, Waiting, UnderWay, Consistent, Call
<1>11. ViewSound'
  BY <1>5 DEF ViewSound, Consistent
<1> QED BY <1>4, <1>9, <1>10, <1>11 DEF Consistent

(* An answer that fills the page fills the page that asked for it.          *)
LEMMA Filled ==
    ASSUME TypeOK, Consistent, NEW c \in Slots, Answered(c, Fetches), Fills(c)
    PROVE  /\ Consistent'
           /\ \/ ~calls[c].live /\ view' = view
              \/ /\ calls[c].live /\ view.content = 0
                 /\ view' = [view EXCEPT !.content = calls[c].answer]
                 /\ calls[c].answer \in 1 .. Now
                 /\ view.component \in {"WorkOrderList", "WorkOrderDetail", "WorkOrderDashboard"}
                 /\ view.component # "WorkOrderDashboard" => calls[c].answer >= view.since
<1>1. calls[c] # None /\ calls[c].op \in Fetches /\ calls[c].answer # None
  BY DEF Answered, UnderWay
<1>2. CallSound(calls[c]) /\ FetchSound(calls[c])
  BY <1>1 DEF Consistent, CallsSound
<1>3. calls' = Without(c) /\ UNCHANGED <<history, address, session>>
  BY DEF Fills
<1>w. /\ Without(c) \in CallSet /\ Without(c)[c] = None
      /\ \A d \in Slots : Without(c)[d] \in {None, calls[d]}
  BY WithoutCall DEF Consistent
<1>4. CASE ~calls[c].live
  <2>1. view' = view
    BY <1>4 DEF Fills
  <2> QED BY <1>3, <1>4, <1>w, <2>1, Fewer DEF Consistent
<1>5. CASE calls[c].live
  <2>1. /\ view.content = 0 /\ calls[c].answer \in 1 .. Now
        /\ view.component \in {"WorkOrderList", "WorkOrderDetail", "WorkOrderDashboard"}
        /\ view.component # "WorkOrderDashboard" => calls[c].answer >= view.since
    BY <1>1, <1>2, <1>5 DEF CallSound, FetchSound, Fetches
  <2>2. view' = [view EXCEPT !.content = calls[c].answer]
    BY <1>5 DEF Fills
  <2>3. /\ view' \in View /\ view'.component = view.component
        /\ view'.since = view.since /\ view'.content = calls[c].answer
    BY <2>1, <2>2 DEF Consistent, View
  <2>4. Now' = Now /\ \A v : Existing(v)' = Existing(v)
    BY <1>3 DEF Now, Existing
  <2>5. ViewSound'
    BY <2>1, <2>3, <2>4 DEF ViewSound, Consistent
  <2>6. \A d \in Slots : ~Waiting(d)'
    BY <1>1, <1>3, <1>5, <1>w DEF Consistent, OneFetch, Waiting, UnderWay
  <2>7. OneFetch'
    BY <2>6 DEF OneFetch
  <2>8. \A d \in Slots : calls'[d] # None => CallSound(calls[d])' /\ FetchSound(calls[d])'
    BY <1>3, <1>w, <2>4, <2>6
       DEF CallSound, FetchSound, Consistent, CallsSound, Waiting, UnderWay
  <2>9. CallsSound'
    BY <2>8 DEF CallsSound
  <2> QED BY <1>3, <1>5, <1>w, <2>1, <2>2, <2>3, <2>5, <2>7, <2>9 DEF Consistent
<1> QED BY <1>4, <1>5

-----------------------------------------------------------------------------
(* The tables of work orders.                                               *)

Tables == Seq([WorkOrderIds -> Statuses \union {"Absent"}])

(* A table is added in which one work order is new or has another status.   *)
LEMMA Grown ==
    ASSUME TypeOK, TablesGrow, NEW w \in WorkOrderIds, NEW status \in Statuses,
           history' = Append(history, [history[Now] EXCEPT ![w] = status])
    PROVE  /\ history' \in Tables /\ history' # <<>>
           /\ Now \in Nat /\ Now >= 1 /\ Now' = Now + 1
           /\ \A v \in 1 .. Now : history'[v] = history[v] /\ Existing(v)' = Existing(v)
           /\ w \in Existing(Now)' /\ Existing(Now) \subseteq Existing(Now)'
           /\ TablesGrow'
<1> DEFINE table == [history[Now] EXCEPT ![w] = status]
<1>1. /\ Now \in Nat /\ Now >= 1 /\ Now = Len(history) /\ history \in Tables
      /\ history[Now] \in [WorkOrderIds -> Statuses \union {"Absent"}]
  BY DEF TypeOK, Now, Tables
<1>2. table \in [WorkOrderIds -> Statuses \union {"Absent"}]
  BY <1>1
<1>3. /\ history' \in Tables /\ Len(history') = Now + 1 /\ history'[Now + 1] = table
      /\ \A v \in 1 .. Now : history'[v] = history[v]
  BY <1>1, <1>2, AppendProperties DEF Tables
<1>4. Now' = Now + 1 /\ history' # <<>>
  BY <1>1, <1>3, EmptySeq DEF Now, Tables
<1>5. \A v \in 1 .. Now : Existing(v)' = Existing(v)
  BY <1>3 DEF Existing
<1>6. "Absent" \notin Statuses
  BY DEF Statuses
<1>7. table[w] = status /\ \A x \in WorkOrderIds \ {w} : table[x] = history[Now][x]
  BY <1>1
<1>8. Existing(Now)' = {x \in WorkOrderIds : table[x] # "Absent"}
  BY <1>3, <1>4 DEF Existing
<1>9. w \in Existing(Now)' /\ Existing(Now) \subseteq Existing(Now)'
  <2> HIDE DEF table
  <2> QED BY <1>6, <1>7, <1>8 DEF Existing
<1>10. TablesGrow'
  <2> SUFFICES ASSUME NEW v \in 1 .. Now + 1, NEW u \in 1 .. Now + 1, v <= u
               PROVE  Existing(v)' \subseteq Existing(u)'
    BY <1>4 DEF TablesGrow
  <2>1. CASE u \in 1 .. Now
    BY <1>1, <1>5, <2>1 DEF TablesGrow
  <2>2. CASE u = Now + 1 /\ v \in 1 .. Now
    <3>1. Existing(v) \subseteq Existing(Now)
      BY <1>1, <2>2 DEF TablesGrow
    <3>2. Existing(u)' = Existing(Now)'
      BY <1>4, <2>2 DEF Existing
    <3> QED BY <1>5, <1>9, <2>2, <3>1, <3>2
  <2>3. CASE u = Now + 1 /\ v = Now + 1
    BY <2>3
  <2> QED BY <1>1, <2>1, <2>2, <2>3
<1> QED BY <1>1, <1>3, <1>4, <1>5, <1>9, <1>10

(* The page does not notice.                                                *)
LEMMA GrownUnnoticed ==
    ASSUME TypeOK, Consistent, TablesGrow, NEW w \in WorkOrderIds, NEW status \in Statuses,
           history' = Append(history, [history[Now] EXCEPT ![w] = status]),
           UNCHANGED <<address, view, calls>>
    PROVE  Consistent'
<1>1. /\ Now \in Nat /\ Now >= 1 /\ Now' = Now + 1
      /\ Existing(Now) \subseteq Existing(Now)'
  BY Grown
<1>2. \A k : (CallSound(k) => CallSound(k)') /\ (FetchSound(k) => FetchSound(k)')
  BY <1>1 DEF CallSound, FetchSound
<1>3. CallsSound' /\ OneFetch' /\ ViewSound'
  BY <1>1, <1>2 DEF CallsSound, OneFetch, Waiting, UnderWay, ViewSound, Consistent
<1> QED BY <1>3 DEF Consistent

-----------------------------------------------------------------------------
(* The invariant is kept by every action.                                   *)

SessionSet == [token : Bearers, role : {"Admin", "Member", None}]

LEMMA Parts ==
    /\ IInv => /\ Consistent /\ history \in Tables /\ history # <<>> /\ session \in SessionSet
    /\ Consistent /\ history \in Tables /\ history # <<>> /\ session \in SessionSet => TypeOK
BY DEF IInv, TypeOK, Consistent, Tables, SessionSet, CallSet, Bearers

\* What is left to show when Consistent and the types are known.
Rest == TablesGrow /\ OpenedExists /\ CreateIsForAdmins /\ SignedInCalls

LEMMA Assembled ==
    ASSUME Consistent', history' \in Tables, history' # <<>>, session' \in SessionSet, Rest'
    PROVE  IInv'
<1>1. TypeOK'
  BY DEF TypeOK, Consistent, Tables, SessionSet, CallSet, Bearers
<1> QED BY <1>1 DEF IInv, Consistent, Rest

LEMMA InitSound == Init => IInv
<1> SUFFICES ASSUME Init PROVE IInv
  OBVIOUS
<1>1. PICK c \in Slots : calls = [d \in Slots |-> IF d = c THEN getAll(None) ELSE None]
  BY DEF Init
<1>2. /\ getAll(None) \in Call /\ getAll(None).op = "getAll" /\ getAll(None).answer = None
  <2>1. getAll(None) = [op |-> "getAll", arg |-> None, bearer |-> None, live |-> TRUE, answer |-> None]
    BY DEF getAll, Request
  <2> QED BY <2>1 DEF Call
<1>3. calls \in CallSet /\ calls[c] = getAll(None) /\ \A d \in Slots \ {c} : calls[d] = None
  BY <1>1, <1>2 DEF CallSet
<1>4. view = [component |-> "WorkOrderList", id |-> None, content |-> 0,
              error |-> FALSE, origin |-> "address", since |-> 1]
  BY DEF Init
<1>5. /\ address \in Addresses /\ view \in View /\ view.component = ComponentOf(address)
      /\ session \in SessionSet
  BY <1>4, Routing DEF Init, Addresses, View, NoSession, SessionSet, Bearers
<1>6. history \in Tables /\ history # <<>> /\ Now = 1
  BY DEF Init, Tables, Now
<1>7. ViewSound
  BY <1>4, <1>6 DEF ViewSound
<1>8. CallsSound /\ OneFetch
  BY <1>2, <1>3, <1>4, <1>7
     DEF CallsSound, CallSound, FetchSound, OneFetch, Waiting, UnderWay, Fetches
<1>9. TablesGrow /\ OpenedExists /\ CreateIsForAdmins /\ SignedInCalls
  BY <1>4, <1>6 DEF TablesGrow, OpenedExists, CreateIsForAdmins, SignedInCalls
<1>10. Consistent
  BY <1>3, <1>5, <1>7, <1>8 DEF Consistent
<1> QED BY <1>5, <1>6, <1>9, <1>10, Parts DEF IInv, Consistent

LEMMA TablesKept ==
    ASSUME UNCHANGED history, TablesGrow
    PROVE  TablesGrow' /\ Now' = Now /\ \A v : Existing(v)' = Existing(v)
BY DEF TablesGrow, Now, Existing

LEMMA LoadKeeps == ASSUME IInv, NEW path \in Addresses, Load(path) PROVE IInv'
<1> DEFINE under == [c \in Slots |-> None]
<1>1. under \in CallSet /\ \A c \in Slots : under[c] = None
  BY DEF CallSet
<1>2. Enter(path, "address", under, None) /\ session' = NoSession /\ UNCHANGED history
  BY DEF Load
<1>3. Consistent' /\ view' = NewView(path, "address")
  <2> HIDE DEF under
  <2> QED BY <1>1, <1>2, Entered DEF IInv, Bearers, Origins
<1>4. view'.origin = "address"
  BY <1>3 DEF NewView
<1>5. Rest'
  BY <1>2, <1>4, TablesKept DEF IInv, Rest, OpenedExists, CreateIsForAdmins, SignedInCalls
<1>6. session' \in SessionSet
  BY <1>2 DEF NoSession, SessionSet, Bearers
<1> QED BY <1>2, <1>3, <1>5, <1>6, Assembled, Parts

(* What a link leads to is an address; a work order it leads to exists, and *)
(* the form for a new one is offered to an Admin only.                      *)
LEMMA LinksLead ==
    ASSUME IInv, NEW path \in Links
    PROVE  /\ path \in Addresses
           /\ ComponentOf(path) = "WorkOrderDetail" => ParamId(path) \in Existing(Now)
           /\ ComponentOf(path) = "WorkOrderCreate" => isAdmin
<1>1. CASE path \in {<<>>, <<"login">>, <<"dashboard">>}
  BY <1>1, Routing DEF Addresses
<1>2. CASE path = <<"work-orders", "new">> /\ isAdmin
  BY <1>2, Routing DEF Addresses
<1>3. ASSUME view.content # 0, NEW order \in WorkOrders(view.content), path = OrderPath(order.id)
      PROVE  /\ path \in Addresses
             /\ ComponentOf(path) = "WorkOrderDetail" /\ ParamId(path) \in Existing(Now)
  <2>1. order.id \in Existing(view.content)
    BY <1>3 DEF WorkOrders, WorkOrder
  <2>2. view.content \in 1 .. Now
    BY <1>3 DEF IInv, ViewSound, TypeOK, View, Now
  <2>3. order.id \in Existing(Now)
    <3>1. Now \in Nat /\ Now \in 1 .. Now /\ view.content <= Now
      BY <2>2, Parts DEF Now
    <3> QED BY <2>1, <2>2, <3>1 DEF IInv, TablesGrow
  <2>4. order.id \in WorkOrderIds
    BY <2>1 DEF Existing
  <2> QED BY <1>3, <2>3, <2>4, Routing DEF Addresses, ParamId, OrderPath
<1> QED BY <1>1, <1>2, <1>3 DEF Links, ListLinks, DetailLinks

LEMMA FollowKeeps == ASSUME IInv, NEW path \in Addresses, Follow(path) PROVE IInv'
<1>1. path \in Links /\ Navigate(path, "link", calls, session.token) /\ UNCHANGED <<history, session>>
  BY DEF Follow
<1>2. calls \in CallSet /\ session.token \in Bearers /\ Consistent
  BY Parts DEF Consistent, SessionSet
<1>3. /\ Consistent'
      /\ \/ view' = view /\ calls' = calls
         \/ view' = NewView(path, "link")
  BY <1>1, <1>2, Navigated DEF IInv, Origins
<1>4. Rest'
  <2>1. CASE view' = view /\ calls' = calls
    BY <1>1, <2>1, TablesKept
       DEF IInv, Rest, OpenedExists, CreateIsForAdmins, SignedInCalls
  <2>2. CASE view' = NewView(path, "link")
    <3>1. /\ view'.component = ComponentOf(path) /\ view'.id = ParamId(path)
          /\ view'.since = Now /\ view'.origin = "link"
      BY <2>2 DEF NewView
    <3> QED BY <1>1, <3>1, LinksLead, TablesKept
            DEF IInv, Rest, OpenedExists, CreateIsForAdmins, SignedInCalls, isAdmin
  <2> QED BY <1>3, <2>1, <2>2
<1> QED BY <1>1, <1>3, <1>4, Assembled, Parts

LEMMA SubmitLoginKeeps == ASSUME IInv, NEW e \in Employees, SubmitLogin(e) PROVE IInv'
<1> DEFINE call == login(e, session.token)
<1>1. /\ view.component = "Login" /\ view' = [view EXCEPT !.error = FALSE]
      /\ Send(calls, call) /\ UNCHANGED <<history, address, session>>
  BY DEF SubmitLogin
<1>2. call = [op |-> "login", arg |-> e, bearer |-> session.token, live |-> TRUE, answer |-> None]
  BY DEF login, Request
<1>3. call \in Call /\ call.op = "login" /\ call.arg = e /\ call.answer = None
      /\ call.bearer = session.token
  BY <1>2, Parts DEF Call, SessionSet, Bearers
<1>4. Consistent' /\ \A d \in Slots : calls'[d] \in {call, calls[d]}
  <2> HIDE DEF call
  <2> QED BY <1>1, <1>3, Parts, Submitted DEF IInv
<1>5. /\ view'.component = view.component /\ view'.id = view.id
      /\ view'.origin = view.origin /\ view'.since = view.since
  BY <1>1 DEF IInv, TypeOK, View
<1>6. Rest'
  <2> HIDE DEF call
  <2> QED BY <1>1, <1>3, <1>4, <1>5, TablesKept
          DEF IInv, Rest, OpenedExists, CreateIsForAdmins, SignedInCalls
<1> QED BY <1>1, <1>4, <1>6, Assembled, Parts

LEMMA SubmitCreateKeeps == ASSUME IInv, SubmitCreate PROVE IInv'
<1> DEFINE call == create(session.token)
<1>1. Send(calls, call) /\ UNCHANGED <<history, address, view, session>>
  BY DEF SubmitCreate
<1>2. call = [op |-> "create", arg |-> None, bearer |-> session.token, live |-> TRUE, answer |-> None]
  BY DEF create, Request
<1>3. call \in Call /\ call.op = "create" /\ call.answer = None /\ call.bearer = session.token
  BY <1>2, Parts DEF Call, SessionSet, Bearers
<1>4. Consistent' /\ \A d \in Slots : calls'[d] \in {call, calls[d]}
  <2> HIDE DEF call
  <2> QED BY <1>1, <1>3, Parts, Submitted DEF IInv
<1>5. Rest'
  <2> HIDE DEF call
  <2> QED BY <1>1, <1>3, <1>4, TablesKept
          DEF IInv, Rest, OpenedExists, CreateIsForAdmins, SignedInCalls
<1> QED BY <1>1, <1>4, <1>5, Assembled, Parts

(* After an answer to a login the token is held before a page is opened.    *)
LEMMA LoggedInKeeps == ASSUME IInv, NEW c \in Slots, LoggedIn(c) PROVE IInv'
<1> DEFINE e == calls[c].answer
<1>1. /\ calls[c] # None /\ calls[c].op = "login" /\ e # None
      /\ session' = [token |-> e, role |-> RoleOf(e)]
      /\ Navigate(<<>>, "login", Without(c), e) /\ UNCHANGED history
  BY DEF LoggedIn, Answered, UnderWay
<1>2. e \in Employees
  BY <1>1 DEF IInv, CallsSound, CallSound
<1>3. session' \in SessionSet /\ session'.token = e
  BY <1>1, <1>2 DEF SessionSet, RoleOf, Bearers
<1>4. calls \in CallSet /\ Consistent /\ <<>> \in Addresses /\ ComponentOf(<<>>) = "WorkOrderList"
  BY Parts, Routing DEF Consistent, Addresses
<1>5. /\ Consistent'
      /\ \/ view' = view /\ view.component = "WorkOrderList" /\ calls' = Without(c)
         \/ /\ view' = NewView(<<>>, "login")
            /\ \A d \in Slots : calls'[d] # None /\ calls'[d].live => calls'[d].bearer = e
  <2> HIDE DEF e
  <2> QED BY <1>1, <1>2, <1>4, WithoutCall, Navigated DEF IInv, Origins, Bearers
<1>6. Rest'
  <2>1. e # None
    BY <1>1
  <2>2. CASE view' = view /\ view.component = "WorkOrderList" /\ calls' = Without(c)
    <3>1. \A d \in Slots : calls'[d] \in {None, calls[d]}
      BY <1>4, <2>2, WithoutCall
    <3>2. SignedInCalls'
      BY <1>3, <2>1, <2>2, <3>1 DEF IInv, SignedInCalls
    <3> QED BY <1>1, <2>2, <3>2, TablesKept DEF IInv, Rest, OpenedExists, CreateIsForAdmins
  <2>3. CASE /\ view' = NewView(<<>>, "login")
             /\ \A d \in Slots : calls'[d] # None /\ calls'[d].live => calls'[d].bearer = e
    <3>1. view'.component = "WorkOrderList" /\ view'.origin = "login"
      BY <1>4, <2>3 DEF NewView
    <3>2. SignedInCalls'
      BY <1>3, <2>1, <2>3 DEF SignedInCalls
    <3> QED BY <1>1, <3>1, <3>2, TablesKept DEF IInv, Rest, OpenedExists, CreateIsForAdmins
  <2> QED BY <1>5, <2>2, <2>3
<1> QED BY <1>1, <1>3, <1>5, <1>6, Assembled, Parts

(* A call that ends changes neither the table nor the session, and at most  *)
(* the error message or the content of the page.                            *)
LEMMA RestKept ==
    ASSUME IInv, UNCHANGED <<history, session>>,
           \A d \in Slots : calls'[d] \in {None, calls[d]},
           view'.component = view.component, view'.id = view.id,
           view'.origin = view.origin, view'.since = view.since
    PROVE  Rest'
BY TablesKept DEF IInv, Rest, OpenedExists, CreateIsForAdmins, SignedInCalls

LEMMA LoginFailedKeeps == ASSUME IInv, NEW c \in Slots, LoginFailed(c) PROVE IInv'
<1>1. /\ calls' = Without(c) /\ UNCHANGED <<history, address, session>>
      /\ view' = view \/ view' = [view EXCEPT !.error = TRUE]
  BY DEF LoginFailed
<1>2. calls \in CallSet /\ Consistent
  BY Parts DEF Consistent
<1>3. /\ view'.component = view.component /\ view'.id = view.id
      /\ view'.origin = view.origin /\ view'.since = view.since
  BY <1>1 DEF IInv, TypeOK, View
<1>4. Consistent'
  BY <1>1, <1>2, WithoutCall, Fewer DEF IInv, Consistent
<1>5. Rest'
  BY <1>1, <1>2, <1>3, WithoutCall, RestKept
<1> QED BY <1>1, <1>4, <1>5, Assembled, Parts

LEMMA UnheardKeeps == ASSUME IInv, NEW c \in Slots, Unheard(c) PROVE IInv'
<1>1. calls' = Without(c) /\ UNCHANGED <<history, address, view, session>>
  BY DEF Unheard
<1>2. calls \in CallSet /\ Consistent
  BY Parts DEF Consistent
<1>3. Consistent'
  BY <1>1, <1>2, WithoutCall, Fewer DEF IInv, Consistent
<1>4. Rest'
  BY <1>1, <1>2, WithoutCall, RestKept
<1> QED BY <1>1, <1>3, <1>4, Assembled, Parts

(* The page of a work order just created is of one that exists.             *)
LEMMA CreatedKeeps == ASSUME IInv, NEW c \in Slots, Created(c) PROVE IInv'
<1> DEFINE w == calls[c].answer
           path == OrderPath(w)
<1>1. /\ calls[c] # None /\ calls[c].op = "create" /\ w # None
      /\ Navigate(path, "created", Without(c), session.token) /\ UNCHANGED <<history, session>>
  BY DEF Created, Answered, UnderWay
<1>2. w \in Existing(Now) /\ w \in WorkOrderIds
  BY <1>1 DEF IInv, CallsSound, CallSound, Existing
<1>3. path \in Addresses /\ ComponentOf(path) = "WorkOrderDetail" /\ ParamId(path) = w
  BY <1>2, Routing DEF Addresses, ParamId, OrderPath
<1>4. calls \in CallSet /\ Consistent /\ session.token \in Bearers
  BY Parts DEF Consistent, SessionSet
<1>5. Consistent' /\ ((view' = view /\ calls' = Without(c)) \/ view' = NewView(path, "created"))
  <2> HIDE DEF path
  <2> QED BY <1>1, <1>3, <1>4, WithoutCall, Navigated DEF IInv, Origins
<1>6. Rest'
  <2>1. CASE view' = view /\ calls' = Without(c)
    BY <1>1, <1>4, <2>1, WithoutCall, RestKept
  <2>2. CASE view' = NewView(path, "created")
    <3>1. /\ view'.component = "WorkOrderDetail" /\ view'.id = w
          /\ view'.since = Now /\ view'.origin = "created"
      BY <1>3, <2>2 DEF NewView
    <3> QED BY <1>1, <1>2, <3>1, TablesKept
            DEF IInv, Rest, OpenedExists, CreateIsForAdmins, SignedInCalls
  <2> QED BY <1>5, <2>1, <2>2
<1> QED BY <1>1, <1>5, <1>6, Assembled, Parts

LEMMA ArrivesIsFill == ASSUME NEW c \in Slots, Arrives(c) PROVE Answered(c, Fetches) /\ Fills(c)
BY DEF Arrives, ListArrives, DetailArrives, ReportArrives, Answered, UnderWay, Fetches

LEMMA ArrivesKeeps == ASSUME IInv, NEW c \in Slots, Arrives(c) PROVE IInv'
<1>1. Answered(c, Fetches) /\ Fills(c)
  BY ArrivesIsFill
<1>2. calls' = Without(c) /\ UNCHANGED <<history, session>>
  BY <1>1 DEF Fills
<1>3. calls \in CallSet /\ Consistent
  BY Parts DEF Consistent
<1>4. Consistent' /\ (view' = view \/ view' = [view EXCEPT !.content = calls[c].answer])
  BY <1>1, <1>3, Filled DEF IInv
<1>5. /\ view'.component = view.component /\ view'.id = view.id
      /\ view'.origin = view.origin /\ view'.since = view.since
  BY <1>4 DEF IInv, TypeOK, View
<1>6. Rest'
  BY <1>2, <1>3, <1>5, WithoutCall, RestKept
<1> QED BY <1>2, <1>4, <1>6, Assembled, Parts

(* An answer that has not been heard yet.                                   *)
LEMMA AnswerKeeps ==
    ASSUME IInv, NEW c \in Slots, calls[c] # None, calls[c].answer = None, NEW answer,
           calls' = [calls EXCEPT ![c].answer = answer], UNCHANGED <<address, view, session>>,
           Consistent', history' \in Tables, history' # <<>>, TablesGrow',
           view.since \in 1 .. Now, Existing(view.since)' = Existing(view.since)
    PROVE  IInv'
<1>1. \A d \in Slots : calls'[d] # None /\ calls'[d].live =>
                        calls[d] # None /\ calls[d].live /\ calls'[d].bearer = calls[d].bearer
  <2>1. calls[c] \in Call /\ calls'[c] = [calls[c] EXCEPT !.answer = answer]
        /\ \A d \in Slots \ {c} : calls'[d] = calls[d]
    BY Parts DEF Consistent, CallSet
  <2> QED BY <2>1 DEF Call
<1>2. OpenedExists'
  BY DEF IInv, OpenedExists
<1>3. CreateIsForAdmins' /\ SignedInCalls'
  BY <1>1 DEF IInv, CreateIsForAdmins, SignedInCalls
<1> QED BY <1>2, <1>3, Assembled, Parts DEF Rest

LEMMA AnswerLoginKeeps == ASSUME IInv, NEW c \in Slots, AnswerLogin(c) PROVE IInv'
<1>1. /\ calls[c] # None /\ calls[c].op = "login" /\ calls[c].answer = None
      /\ calls' = [calls EXCEPT ![c].answer = calls[c].arg]
      /\ UNCHANGED <<history, address, view, session>>
  BY DEF AnswerLogin, UnderWay
<1>2. Now \in Nat /\ Now' = Now /\ \A v : Existing(v)' = Existing(v) /\ Existing(Now)' = Existing(Now)
  BY <1>1 DEF IInv, TypeOK, Now, Existing
<1>3. Consistent'
  <2>1. Now' >= Now /\ Now' \in Nat /\ \A u \in 1 .. Now : Existing(u)' = Existing(u)
    BY <1>2
  <2>2. Existing(Now) \subseteq Existing(Now)'
    BY <1>2
  <2>3. calls[c].op \notin {"create"} \union Fetches
    BY <1>1 DEF Fetches
  <2> QED BY <1>1, <1>2, <2>1, <2>2, <2>3, Parts, Answers DEF IInv, Fetches
<1> QED BY <1>1, <1>2, <1>3, AnswerKeeps, TablesKept, Parts DEF IInv, ViewSound

LEMMA AnswerReadKeeps == ASSUME IInv, NEW c \in Slots, AnswerRead(c) PROVE IInv'
<1>1. /\ calls[c] # None /\ calls[c].op \in {"getAll", "getById"} /\ calls[c].answer = None
      /\ calls' = [calls EXCEPT ![c].answer = Now]
      /\ UNCHANGED <<history, address, view, session>>
  BY DEF AnswerRead, UnderWay
<1>2. /\ Now \in Nat /\ Now >= 1 /\ Now' = Now
      /\ \A v : Existing(v)' = Existing(v) /\ Existing(Now)' = Existing(Now)
  BY <1>1 DEF IInv, TypeOK, Now, Existing
<1>3. Consistent'
  <2>1. Now' >= Now /\ Now' \in Nat /\ \A u \in 1 .. Now : Existing(u)' = Existing(u)
    BY <1>2
  <2>2. Existing(Now) \subseteq Existing(Now)'
    BY <1>2
  <2>3. calls[c].op \notin {"login", "create"}
    BY <1>1 DEF Fetches
  <2>4. PICK answer : answer = Now /\ answer \in 1 .. Now
    BY <1>2
  <2> QED BY <1>1, <1>2, <2>1, <2>2, <2>3, <2>4, Parts, Answers DEF IInv, Fetches
<1> QED BY <1>1, <1>2, <1>3, AnswerKeeps, TablesKept, Parts DEF IInv, ViewSound

LEMMA AnswerReportKeeps == ASSUME IInv, NEW c \in Slots, AnswerReport(c) PROVE IInv'
<1>1. PICK v \in 1 .. Now :
        /\ calls[c] # None /\ calls[c].op = "getReport" /\ calls[c].answer = None
        /\ calls' = [calls EXCEPT ![c].answer = v]
        /\ UNCHANGED <<history, address, view, session>>
  BY DEF AnswerReport, UnderWay
<1>2. /\ Now \in Nat /\ Now >= 1 /\ Now' = Now
      /\ \A u : Existing(u)' = Existing(u) /\ Existing(Now)' = Existing(Now)
  BY <1>1 DEF IInv, TypeOK, Now, Existing
<1>3. Consistent'
  <2>1. Now' >= Now /\ Now' \in Nat /\ \A u \in 1 .. Now : Existing(u)' = Existing(u)
    BY <1>2
  <2>2. Existing(Now) \subseteq Existing(Now)'
    BY <1>2
  <2>3. calls[c].op \notin {"login", "create", "getAll", "getById"}
    BY <1>1 DEF Fetches
  <2> QED BY <1>1, <1>2, <2>1, <2>2, <2>3, Parts, Answers DEF IInv, Fetches
<1> QED BY <1>1, <1>2, <1>3, AnswerKeeps, TablesKept, Parts DEF IInv, ViewSound

LEMMA AnswerCreateKeeps == ASSUME IInv, NEW c \in Slots, AnswerCreate(c) PROVE IInv'
<1>1. PICK w \in WorkOrderIds :
        /\ calls[c] # None /\ calls[c].op = "create" /\ calls[c].answer = None
        /\ calls' = [calls EXCEPT ![c].answer = w]
        /\ history' = Append(history, [history[Now] EXCEPT ![w] = "Open"])
        /\ UNCHANGED <<address, view, session>>
  BY DEF AnswerCreate, UnderWay, Stored
<1>2. /\ history' \in Tables /\ history' # <<>> /\ Now \in Nat /\ Now' = Now + 1
      /\ \A v \in 1 .. Now : Existing(v)' = Existing(v)
      /\ w \in Existing(Now)' /\ Existing(Now) \subseteq Existing(Now)' /\ TablesGrow'
  BY <1>1, Grown DEF IInv, Statuses
<1>3. Consistent'
  <2>1. Now' >= Now /\ Now' \in Nat
    BY <1>2
  <2>2. calls[c].op \notin {"login"} \union Fetches
    BY <1>1 DEF Fetches
  <2> QED BY <1>1, <1>2, <2>1, <2>2, Parts, Answers DEF IInv, Fetches
<1>4. view.since \in 1 .. Now
  BY DEF IInv, ViewSound
<1> QED BY <1>1, <1>2, <1>3, <1>4, AnswerKeeps

LEMMA OthersKeep == ASSUME IInv, OthersCreate \/ OthersMove PROVE IInv'
<1>1. PICK w \in WorkOrderIds, status \in Statuses :
        /\ history' = Append(history, [history[Now] EXCEPT ![w] = status])
        /\ UNCHANGED <<address, view, session, calls>>
  BY DEF OthersCreate, OthersMove, Stored, Statuses, Existing
<1>2. /\ history' \in Tables /\ history' # <<>>
      /\ TablesGrow' /\ \A v \in 1 .. Now : Existing(v)' = Existing(v)
  BY <1>1, Grown DEF IInv
<1>3. Consistent'
  BY <1>1, Parts, GrownUnnoticed DEF IInv
<1>4. TablesGrow' /\ Existing(view.since)' = Existing(view.since)
  <2>1. view.since \in 1 .. Now
    BY DEF IInv, ViewSound
  <2> QED BY <1>1, <1>2, <2>1
<1>5. Rest'
  BY <1>1, <1>4 DEF IInv, Rest, OpenedExists, CreateIsForAdmins, SignedInCalls
<1> QED BY <1>1, <1>2, <1>3, <1>5, Assembled, Parts

LEMMA NextKeeps == IInv /\ [Next]_vars => IInv'
<1> SUFFICES ASSUME IInv, [Next]_vars PROVE IInv'
  OBVIOUS
<1>1. CASE User
  <2>1. ASSUME NEW path \in Addresses, Load(path) PROVE IInv'
    BY <2>1, LoadKeeps
  <2>2. ASSUME NEW path \in Addresses, Follow(path) PROVE IInv'
    BY <2>2, FollowKeeps
  <2>3. ASSUME NEW e \in Employees, SubmitLogin(e) PROVE IInv'
    BY <2>3, SubmitLoginKeeps
  <2>4. CASE SubmitCreate
    BY <2>4, SubmitCreateKeeps
  <2> QED BY <1>1, <2>1, <2>2, <2>3, <2>4 DEF User
<1>2. ASSUME NEW c \in Slots, Api(c) PROVE IInv'
  BY <1>2, AnswerLoginKeeps, AnswerCreateKeeps, AnswerReadKeeps, AnswerReportKeeps DEF Api
<1>3. ASSUME NEW c \in Slots, Callback(c) PROVE IInv'
  BY <1>3, LoggedInKeeps, LoginFailedKeeps, CreatedKeeps, ArrivesKeeps, UnheardKeeps DEF Callback
<1>4. CASE OthersCreate \/ OthersMove
  BY <1>4, OthersKeep
<1>5. CASE UNCHANGED vars
  <2>1. UNCHANGED <<history, address, view, session, calls>>
    BY <1>5 DEF vars
  <2>2. Consistent'
    <3>1. \A c \in Slots : calls[c] \in {None, calls[c]}
      OBVIOUS
    <3> QED BY <2>1, <3>1, Parts, Fewer DEF Consistent, IInv
  <2>3. Rest'
    BY <2>1, RestKept
  <2> QED BY <2>1, <2>2, <2>3, Assembled, Parts
<1> QED BY <1>1, <1>2, <1>3, <1>4, <1>5 DEF Next

-----------------------------------------------------------------------------
(* What holds in every reachable state.                                     *)

(* The strengthened invariant.                                              *)
THEOREM InvariantHolds == Spec => []IInv
BY InitSound, NextKeeps, PTL DEF Spec

(* Every variable keeps its type, and the component in the router outlet is *)
(* the one the routes give for the address.                                 *)
THEOREM TypeCorrect == Spec => []TypeOK
<1>1. IInv => TypeOK
  BY DEF IInv
<1> QED BY <1>1, InvariantHolds, PTL

(* An Admin has the form for a new work order in front of him, whenever a   *)
(* login is answered.                                                       *)
THEOREM CreateFormIsForAdmins == Spec => []CreateIsForAdmins
<1>1. IInv => CreateIsForAdmins
  BY DEF IInv
<1> QED BY <1>1, InvariantHolds, PTL

(* What the page a login leads to asks for is asked with a token.           *)
THEOREM CallsAreSignedIn == Spec => []SignedInCalls
<1>1. IInv => SignedInCalls
  BY DEF IInv
<1> QED BY <1>1, InvariantHolds, PTL

-----------------------------------------------------------------------------
(* What is on the screen.                                                   *)

(* The number the API sends for a status selects the label of that status.  *)
LEMMA LabelIsStatus ==
    ASSUME TypeOK, NEW v \in 1 .. Now, NEW w \in Existing(v)
    PROVE  Label(WorkOrder(v, w)) = <<w, history[v][w]>>
<1> DEFINE status == history[v][w]
           n == AsNumber(status)
<1>1. status \in Statuses
  <2>1. history[v] \in [WorkOrderIds -> Statuses \union {"Absent"}]
    BY DEF TypeOK, Now
  <2> QED BY <2>1 DEF Existing
<1>2. \E k \in 0 .. 3 : WorkOrderStatus[k + 1] = status
  <2>1. /\ WorkOrderStatus[0 + 1] = "Open" /\ WorkOrderStatus[1 + 1] = "Assigned"
        /\ WorkOrderStatus[2 + 1] = "InProgress" /\ WorkOrderStatus[3 + 1] = "Completed"
    BY DEF WorkOrderStatus
  <2>2. 0 \in 0 .. 3 /\ 1 \in 0 .. 3 /\ 2 \in 0 .. 3 /\ 3 \in 0 .. 3
    OBVIOUS
  <2> HIDE DEF status
  <2> QED BY <1>1, <2>1, <2>2 DEF Statuses
<1>3. WorkOrderStatus[n + 1] = status
  <2> HIDE DEF status
  <2> QED BY <1>2 DEF AsNumber
<1>4. WORK_ORDER_STATUS_LABELS = WorkOrderStatus
  BY DEF WORK_ORDER_STATUS_LABELS, WorkOrderStatus
<1>5. WorkOrder(v, w).id = w /\ WorkOrder(v, w).status = n
  BY DEF WorkOrder
<1> HIDE DEF status, n
<1>6. Label(WorkOrder(v, w)) = <<w, status>>
  BY <1>3, <1>4, <1>5 DEF Label
<1> QED BY <1>6 DEF status

(* The page of an opened work order is not told that it does not exist.     *)
LEMMA FoundWhenOpened == IInv => OpenedIsFound
<1> SUFFICES ASSUME IInv, view.origin \in {"created", "link"}, notFound PROVE FALSE
  BY DEF OpenedIsFound
<1>1. view.component = "WorkOrderDetail" /\ view.content # 0 /\ OnScreen = {}
  BY DEF notFound
<1>2. /\ Now \in Nat /\ view.since \in 1 .. Now /\ view.content \in 1 .. Now
      /\ view.since <= view.content
  BY <1>1, Parts DEF IInv, ViewSound, Now
<1>3. view.id \in Existing(view.since)
  BY <1>1 DEF IInv, OpenedExists
<1>4. view.id \in Existing(view.content)
  BY <1>2, <1>3 DEF IInv, TablesGrow
<1>5. WorkOrder(view.content, view.id) \in Found(view.content, view.id)
  BY <1>4 DEF Found, WorkOrders, WorkOrder
<1>6. OnScreen = {Label(o) : o \in Found(view.content, view.id)}
  BY <1>1 DEF OnScreen
<1> QED BY <1>1, <1>5, <1>6

(* The page of a work order that was just created, or that was opened from  *)
(* the list, never says that there is no such work order.                   *)
THEOREM OpenedIsAlwaysFound == Spec => []OpenedIsFound
BY InvariantHolds, FoundWhenOpened, PTL

-----------------------------------------------------------------------------
(* The client implements WebPages.                                          *)

Page  == [component |-> view.component, id |-> view.id]
Shown == IF view.content = 0 THEN {} ELSE {OnScreen}

(* A page shows a table, as WebPages draws it.                              *)
LEMMA ScreenIsPicture ==
    ASSUME TypeOK, view.content \in 1 .. Now,
           view.component \in {"WorkOrderList", "WorkOrderDetail", "WorkOrderDashboard"}
    PROVE  OnScreen = Pages!Picture(Page, history[view.content])
<1> DEFINE v == view.content
<1>1. \A w \in Existing(v) : Label(WorkOrder(v, w)) = <<w, history[v][w]>>
  BY LabelIsStatus
<1>2. Page.component = view.component /\ Page.id = view.id
  BY DEF Page
<1>3. Existing(v) \subseteq WorkOrderIds /\ Existing(v) = Pages!Existing(history[v])
  BY DEF Existing, Pages!Existing
<1>4. CASE view.component = "WorkOrderList"
  <2>1. OnScreen = {Label(o) : o \in WorkOrders(v)}
    BY <1>4 DEF OnScreen
  <2>2. Pages!Picture(Page, history[v]) = Pages!RowsOf(history[v], WorkOrderIds)
    BY <1>2, <1>4 DEF Pages!Picture
  <2>3. {Label(o) : o \in WorkOrders(v)} = {<<w, history[v][w]>> : w \in Existing(v)}
    <3> HIDE DEF v
    <3> QED BY <1>1 DEF WorkOrders
  <2> QED BY <1>3, <2>1, <2>2, <2>3 DEF Pages!RowsOf
<1>5. CASE view.component = "WorkOrderDetail"
  <2>1. OnScreen = {Label(o) : o \in Found(v, view.id)}
    BY <1>5 DEF OnScreen
  <2>2. Pages!Picture(Page, history[v]) = Pages!RowsOf(history[v], {view.id})
    BY <1>2, <1>5 DEF Pages!Picture
  <2>3. Found(v, view.id) = {WorkOrder(v, w) : w \in {view.id} \intersect Existing(v)}
    BY DEF Found, WorkOrders, WorkOrder
  <2>4. {Label(o) : o \in Found(v, view.id)}
          = {<<w, history[v][w]>> : w \in {view.id} \intersect Existing(v)}
    <3> HIDE DEF v
    <3> QED BY <1>1, <2>3
  <2>5. Pages!RowsOf(history[v], {view.id})
          = {<<w, history[v][w]>> : w \in {view.id} \intersect Existing(v)}
    BY <1>3 DEF Pages!RowsOf
  <2> QED BY <2>1, <2>2, <2>4, <2>5
<1>6. CASE view.component = "WorkOrderDashboard"
  <2>1. OnScreen = {<<st, WorkOrderStatusReport(v)[st]>> : st \in Statuses}
    BY <1>6 DEF OnScreen
  <2>2. Pages!Picture(Page, history[v]) = Pages!CountsOf(history[v])
    BY <1>2, <1>6 DEF Pages!Picture
  <2>3. \A st \in Statuses : WorkOrderStatusReport(v)[st]
                               = Cardinality({w \in WorkOrderIds : history[v][w] = st})
    BY DEF WorkOrderStatusReport
  <2>4. Pages!Statuses = Statuses
    BY DEF Pages!Statuses, Statuses
  <2>5. Pages!CountsOf(history[v])
          = {<<st, Cardinality({w \in WorkOrderIds : history[v][w] = st})>> : st \in Statuses}
    <3>1. \A S : Pages!Cardinality(S) = Cardinality(S)
      BY DEF Pages!Cardinality, Cardinality
    <3> QED BY <2>4, <3>1 DEF Pages!CountsOf
  <2>6. OnScreen
          = {<<st, Cardinality({w \in WorkOrderIds : history[v][w] = st})>> : st \in Statuses}
    BY <2>1, <2>3
  <2> QED BY <2>2, <2>5, <2>6
<1> QED BY <1>4, <1>5, <1>6

LEMMA PictureShown ==
    /\ IInv
    /\ view.content # 0
    /\ view.component \in {"WorkOrderList", "WorkOrderDetail", "WorkOrderDashboard"}
    => OnScreen = Pages!Picture(Page, history[view.content])
<1>1. IInv /\ view.content # 0 => view.content \in 1 .. Now
  BY Parts DEF IInv, ViewSound, Now
<1> QED BY <1>1, ScreenIsPicture DEF IInv

(* What is shown does not change with the table.                            *)
LEMMA Undisturbed ==
    ASSUME TypeOK, ViewSound, \A v \in 1 .. Now : history'[v] = history[v],
           view'.component = view.component, view'.id = view.id,
           view'.content = view.content, view'.since = view.since
    PROVE  Page' = Page /\ Shown' = Shown
<1>1. Page' = Page
  BY DEF Page
<1>2. CASE view.content = 0
  BY <1>1, <1>2 DEF Shown
<1>3. CASE view.content # 0
  <2>1. history'[view.content] = history[view.content]
    BY <1>3 DEF ViewSound
  <2>2. WorkOrders(view.content)' = WorkOrders(view.content)
    BY <2>1 DEF WorkOrders, WorkOrder, Existing
  <2>3. Found(view.content, view.id)' = Found(view.content, view.id)
    BY <2>2 DEF Found
  <2>4. WorkOrderStatusReport(view.content)' = WorkOrderStatusReport(view.content)
    BY <2>1 DEF WorkOrderStatusReport
  <2>5. OnScreen' = OnScreen
    BY <2>2, <2>3, <2>4 DEF OnScreen
  <2> QED BY <1>1, <2>5 DEF Shown
<1> QED BY <1>2, <1>3

(* The three kinds of steps, and the steps a reader does not see.           *)
LEMMA UnseenStep ==
    ASSUME IInv, UNCHANGED history,
           view' = view \/ \E b \in BOOLEAN : view' = [view EXCEPT !.error = b]
    PROVE  UNCHANGED Pages!pageVars
<1>1. /\ view'.component = view.component /\ view'.id = view.id
      /\ view'.content = view.content /\ view'.since = view.since
  BY DEF IInv, TypeOK, View
<1>2. Page' = Page /\ Shown' = Shown
  BY <1>1, Undisturbed DEF IInv
<1> QED BY <1>1, <1>2 DEF Pages!pageVars, Page, Shown

LEMMA ChangeStep ==
    ASSUME IInv, NEW w \in WorkOrderIds, NEW status \in Statuses,
           history' = Append(history, [history[Now] EXCEPT ![w] = status]), UNCHANGED view
    PROVE  Pages!Change
<1>1. \A v \in 1 .. Now : history'[v] = history[v]
  BY Grown DEF IInv
<1>2. Page' = Page /\ Shown' = Shown
  BY <1>1, Undisturbed DEF IInv
<1>3. status \in Pages!Statuses
  BY DEF Statuses, Pages!Statuses
<1> QED BY <1>2, <1>3 DEF Pages!Change, Page, Shown, Now

LEMMA OpenStep ==
    ASSUME IInv, NEW path \in Addresses, NEW origin \in Origins,
           view' = NewView(path, origin), UNCHANGED history
    PROVE  Pages!Open
<1>1. /\ view'.component = ComponentOf(path) /\ view'.id = ParamId(path)
      /\ view'.content = 0 /\ view'.since = Now
  BY DEF NewView
<1>2. Page' \in [component : Pages!Components, id : WorkOrderIds \union {None}]
  BY <1>1, AddressParts DEF Page, Components, Pages!Components
<1>3. Shown' = {}
  BY <1>1 DEF Shown
<1> QED BY <1>1, <1>2, <1>3 DEF Pages!Open, Page, Shown, Now

LEMMA DisplayStep ==
    ASSUME IInv, IInv', UNCHANGED history, NEW answer \in 1 .. Now, view.content = 0,
           view' = [view EXCEPT !.content = answer],
           view.component \in {"WorkOrderList", "WorkOrderDetail", "WorkOrderDashboard"},
           view.component # "WorkOrderDashboard" => answer >= view.since
    PROVE  Pages!Display
<1>1. /\ view'.component = view.component /\ view'.id = view.id
      /\ view'.content = answer /\ view'.since = view.since
  BY DEF IInv, TypeOK, View
<1>2. Page' = Page /\ Page.component = view.component
  BY <1>1 DEF Page
<1>3. Shown = {}
  BY DEF Shown
<1>4. Now \in Nat /\ Now' = Now
  BY DEF IInv, TypeOK, Now
<1>5. OnScreen' = Pages!Picture(Page, history[answer])
  <2>1. (/\ IInv
         /\ view.content # 0
         /\ view.component \in {"WorkOrderList", "WorkOrderDetail", "WorkOrderDashboard"}
         => OnScreen = Pages!Picture(Page, history[view.content]))'
    BY PictureShown, PTL
  <2>2. (OnScreen = Pages!Picture(Page, history[view.content]))'
    BY <1>1, <2>1
  <2>3. Pages!Picture(Page, history[view.content])' = Pages!Picture(Page, history[answer])
    BY <1>1, <1>2 DEF Pages!Picture, Pages!RowsOf, Pages!CountsOf, Pages!Existing
  <2> QED BY <2>2, <2>3
<1>6. Shown' = {Pages!Picture(Page, history[answer])}
  BY <1>1, <1>5 DEF Shown
<1> QED BY <1>1, <1>2, <1>3, <1>4, <1>6 DEF Pages!Display, Page, Shown, Now

LEMMA NavigationStep ==
    ASSUME IInv, NEW path \in Addresses, NEW origin \in Origins,
           NEW under \in CallSet, NEW token \in Bearers,
           \A c \in Slots : under[c] \in {None, calls[c]},
           Navigate(path, origin, under, token), UNCHANGED history
    PROVE  [Pages!Next]_(Pages!pageVars)
<1>1. view' = view \/ view' = NewView(path, origin)
  BY Parts, Navigated DEF IInv
<1>2. CASE view' = view
  BY <1>2, UnseenStep
<1>3. CASE view' = NewView(path, origin)
  BY <1>3, OpenStep DEF Pages!Next
<1> QED BY <1>1, <1>2, <1>3

LEMMA InitImplements == Init => Pages!Init
<1> SUFFICES ASSUME Init PROVE Pages!Init
  OBVIOUS
<1>1. view = [component |-> "WorkOrderList", id |-> None, content |-> 0,
              error |-> FALSE, origin |-> "address", since |-> 1]
  BY DEF Init
<1>2. Page = [component |-> "WorkOrderList", id |-> None] /\ Shown = {} /\ view.since = 1
  BY <1>1 DEF Page, Shown
<1> QED BY <1>2 DEF Init, Pages!Init, Pages!Components, Page, Shown

(* Each action is a change of the table, a page opened, a page filled, or   *)
(* nothing a reader of pages sees.                                          *)
LEMMA StepImplements == IInv /\ IInv' /\ [Next]_vars => [Pages!Next]_(Pages!pageVars)
<1> SUFFICES ASSUME IInv, IInv', [Next]_vars PROVE [Pages!Next]_(Pages!pageVars)
  OBVIOUS
<1>0. calls \in CallSet /\ session.token \in Bearers
  BY Parts DEF Consistent, SessionSet
<1>1. ASSUME NEW path \in Addresses, Load(path) PROVE Pages!Next
  <2>1. view' = NewView(path, "address") /\ UNCHANGED history
    BY <1>1 DEF Load, Enter
  <2> QED BY <2>1, OpenStep DEF Pages!Next, Origins
<1>2. ASSUME NEW path \in Addresses, Follow(path) PROVE [Pages!Next]_(Pages!pageVars)
  BY <1>0, <1>2, NavigationStep DEF Follow, Origins
<1>3. ASSUME NEW e \in Employees, SubmitLogin(e) PROVE UNCHANGED Pages!pageVars
  BY <1>3, UnseenStep DEF SubmitLogin
<1>4. CASE SubmitCreate
  BY <1>4, UnseenStep DEF SubmitCreate
<1>5. ASSUME NEW c \in Slots, AnswerLogin(c) \/ AnswerRead(c) \/ AnswerReport(c) \/ Unheard(c)
      PROVE  UNCHANGED Pages!pageVars
  BY <1>5, UnseenStep DEF AnswerLogin, AnswerRead, AnswerReport, Unheard
<1>6. ASSUME NEW c \in Slots, AnswerCreate(c) PROVE Pages!Next
  <2>1. \E w \in WorkOrderIds : history' = Append(history, [history[Now] EXCEPT ![w] = "Open"])
    BY <1>6 DEF AnswerCreate, Stored
  <2>2. UNCHANGED view /\ "Open" \in Statuses
    BY <1>6 DEF AnswerCreate, Statuses
  <2> QED BY <2>1, <2>2, ChangeStep DEF Pages!Next
<1>7. ASSUME NEW c \in Slots, LoggedIn(c) PROVE [Pages!Next]_(Pages!pageVars)
  <2> DEFINE e == calls[c].answer
  <2>1. /\ calls[c] # None /\ calls[c].op = "login" /\ e # None
        /\ Navigate(<<>>, "login", Without(c), e) /\ UNCHANGED history
    BY <1>7 DEF LoggedIn, Answered, UnderWay
  <2>2. e \in Bearers /\ <<>> \in Addresses
    BY <2>1 DEF IInv, CallsSound, CallSound, Bearers, Addresses
  <2> HIDE DEF e
  <2> QED BY <1>0, <2>1, <2>2, WithoutCall, NavigationStep DEF Origins
<1>8. ASSUME NEW c \in Slots, LoginFailed(c) PROVE UNCHANGED Pages!pageVars
  BY <1>8, UnseenStep DEF LoginFailed
<1>9. ASSUME NEW c \in Slots, Created(c) PROVE [Pages!Next]_(Pages!pageVars)
  <2> DEFINE path == OrderPath(calls[c].answer)
  <2>1. /\ calls[c] # None /\ calls[c].op = "create" /\ calls[c].answer # None
        /\ Navigate(path, "created", Without(c), session.token) /\ UNCHANGED history
    BY <1>9 DEF Created, Answered, UnderWay
  <2>2. path \in Addresses
    BY <2>1 DEF IInv, CallsSound, CallSound, Existing, Addresses
  <2> HIDE DEF path
  <2> QED BY <1>0, <2>1, <2>2, WithoutCall, NavigationStep DEF Origins
<1>10. ASSUME NEW c \in Slots, Arrives(c) PROVE [Pages!Next]_(Pages!pageVars)
  <2>1. Answered(c, Fetches) /\ Fills(c) /\ UNCHANGED history
    BY <1>10, ArrivesIsFill DEF Fills
  <2>2. \/ view' = view
        \/ /\ view.content = 0 /\ calls[c].answer \in 1 .. Now
           /\ view' = [view EXCEPT !.content = calls[c].answer]
           /\ view.component \in {"WorkOrderList", "WorkOrderDetail", "WorkOrderDashboard"}
           /\ view.component # "WorkOrderDashboard" => calls[c].answer >= view.since
    BY <2>1, Parts, Filled DEF IInv
  <2> QED BY <2>1, <2>2, UnseenStep, DisplayStep DEF Pages!Next
<1>11. CASE OthersCreate \/ OthersMove
  <2>1. UNCHANGED view
    BY <1>11 DEF OthersCreate, OthersMove
  <2>2. \E w \in WorkOrderIds, status \in Statuses :
          history' = Append(history, [history[Now] EXCEPT ![w] = status])
    BY <1>11 DEF OthersCreate, OthersMove, Stored, Statuses, Existing
  <2> QED BY <2>1, <2>2, ChangeStep DEF Pages!Next
<1>12. CASE UNCHANGED vars
  BY <1>12, UnseenStep DEF vars
<1> QED BY <1>1, <1>2, <1>3, <1>4, <1>5, <1>6, <1>7, <1>8, <1>9, <1>10, <1>11, <1>12
        DEF Next, User, Api, Callback

(* Whatever order answers arrive in, and whichever page has been left when  *)
(* they do, a page shows once what the table was at one moment after the    *)
(* page was opened (on the dashboard, at one moment).                       *)
THEOREM ClientImplementsPages == Spec => ImplementsPages
<1>1. Spec => Pages!Spec
  BY InitImplements, StepImplements, InvariantHolds, PTL DEF Spec, Pages!Spec
<1> QED BY <1>1 DEF ImplementsPages
=============================================================================
