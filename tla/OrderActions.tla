------------------------------ MODULE OrderActions ------------------------------
(***************************************************************************)
(* OrderEntry: the order requests of clients.  A request is sent on the    *)
(* REST connection when it is ready and refused with an exception when it  *)
(* is not; its callback reports what the answer says to the order          *)
(* management system.  The answers come in the order of the requests.      *)
(*                                                                         *)
(* The exchange is external.  It runs or refuses what it was sent whenever *)
(* it likes, also after the connection was lost or the request timed out,  *)
(* and an order that works may be filled or cancelled at any time.         *)
(***************************************************************************)
EXTENDS Naturals, Sequences

CONSTANTS
    Orders,               \* orders that clients create
    Requests,             \* requests: one each per message to the exchange
    NoOrder,              \* the order of a request that has none
    ServerErrorsAreFinal  \* a 5xx means that the request was not and will not be run

ASSUME NoOrderAssumption == NoOrder \notin Orders
ASSUME FinalAssumption == ServerErrorsAreFinal \in BOOLEAN

VARIABLES
    ready,     \* connection_status_ is READY
    inflight,  \* requests whose callback is outstanding, oldest first
    log,       \* per request: what it asked, what became of it, what was reported
    exchange   \* per order: its life at the exchange

vars == <<ready, inflight, log, exchange>>

Types == {"none", "create", "cancel", "cancel_all"}
Outcomes == {"unsent", "sent", "done", "refused"}

Unsent == [type |-> "none", order |-> NoOrder, outcome |-> "unsent", reports |-> <<>>]

-------------------------------------------------------------------------------
(* Client requests                                                          *)

\* A request handed to the connection; reports holds what is reported at once.
Send(r, type, order, reports) ==
    /\ ready
    /\ log[r].outcome = "unsent"
    /\ inflight' = Append(inflight, r)
    /\ log' = [log EXCEPT ![r] = [type |-> type, order |-> order, outcome |-> "sent",
                                  reports |-> reports]]
    /\ UNCHANGED <<ready, exchange>>

Placed(order) == \E r \in Requests : log[r].type = "create" /\ log[r].order = order

\* place_order: the order management system creates each order once.
PlaceOrder(r, order) == ~Placed(order) /\ Send(r, "create", order, <<>>)

\* cancel_order: by external or by client order id, which name the same order.
CancelOrder(r, order) == Placed(order) /\ Send(r, "cancel", order, <<>>)

Report(as, origin, status) == [as |-> as, origin |-> origin, status |-> status]

\* cancel_all_orders: reported as forwarded when it has been handed over.
CancelAllOrders(r) ==
    Send(r, "cancel_all", NoOrder, <<Report("CANCEL_ALL_ORDERS", "GATEWAY", "FORWARDED")>>)

-------------------------------------------------------------------------------
(* Answers                                                                  *)

Answers == {"ok", "error_body", "client_error", "server_error", "unparsable", "network"}

\* A mutant of Status: every 2xx is taken for a success.
StatusIgnoresBody(answer) ==
    CASE answer \in {"ok", "error_body"} -> "ACCEPTED"
      [] answer \in {"client_error", "server_error"} -> "REJECTED"
      [] answer = "unparsable" -> "ERROR"
      [] answer = "network" -> "FAILED"

\* process_response: the origin and the request status of each kind of answer.
\* FAILED stands for the status that a NetworkError carries.
Origin(answer) == IF answer = "network" THEN "GATEWAY" ELSE "EXCHANGE"
Status(answer) ==
    CASE answer = "ok" -> "ACCEPTED"
      [] answer \in {"error_body", "client_error", "server_error"} -> "REJECTED"
      [] answer = "unparsable" -> "ERROR"
      [] answer = "network" -> "FAILED"

\* A mutant of OrderReport: whatever is not a success is a refusal by the exchange.
OrderReportHidesNetwork(answer) ==
    Report("CREATE_ORDER", "EXCHANGE", IF answer = "ok" THEN "ACCEPTED" ELSE "REJECTED")

\* place_order_ack and cancel_order_ack both report a CREATE_ORDER.
OrderReport(answer) == Report("CREATE_ORDER", Origin(answer), Status(answer))

\* cancel_all_orders_ack: any body of a 2xx is accepted, any error is REJECTED.
CancelAllReport(answer) ==
    Report("CANCEL_ALL_ORDERS", Origin(answer),
           IF answer \in {"ok", "error_body"} THEN "ACCEPTED" ELSE "REJECTED")

\* What the exchange and the network may answer to a request of each outcome; all
\* but a failure of the network take a connection.
Possible(outcome) ==
    {"network"} \cup
    (IF ready /\ outcome = "done" THEN {"ok", "unparsable"} ELSE {}) \cup
    (IF ready /\ outcome = "refused"
     THEN {"error_body", "client_error", "server_error", "unparsable"} ELSE {}) \cup
    (IF ready /\ ~ServerErrorsAreFinal THEN {"server_error"} ELSE {})

FinalReport(type, answer) ==
    IF type = "cancel_all" THEN CancelAllReport(answer) ELSE OrderReport(answer)

\* A mutant of Answer: the error handler runs after the success handler.
AnswerReportsTwice(answer) ==
    /\ inflight # <<>>
    /\ LET r == Head(inflight) IN
         /\ answer \in Possible(log[r].outcome)
         /\ log' = [log EXCEPT ![r].reports =
                       @ \o <<FinalReport(log[r].type, answer), OrderReport("unparsable")>>]
    /\ inflight' = Tail(inflight)
    /\ UNCHANGED <<ready, exchange>>

\* The callback of the oldest request: place_order_ack, cancel_order_ack or
\* cancel_all_orders_ack, through process_response.
Answer(answer) ==
    /\ inflight # <<>>
    /\ LET r == Head(inflight) IN
         /\ answer \in Possible(log[r].outcome)
         /\ log' = [log EXCEPT ![r].reports = Append(@, FinalReport(log[r].type, answer))]
    /\ inflight' = Tail(inflight)
    /\ UNCHANGED <<ready, exchange>>

Connected == ~ready /\ ready' = TRUE /\ UNCHANGED <<inflight, log, exchange>>
Disconnected == ready /\ ready' = FALSE /\ UNCHANGED <<inflight, log, exchange>>

-------------------------------------------------------------------------------
(* The exchange                                                             *)

\* The exchange runs a request: it creates the order, or cancels what works.
Execute(r) ==
    /\ log[r].outcome = "sent"
    /\ log' = [log EXCEPT ![r].outcome = "done"]
    /\ \/ /\ log[r].type = "create"
          /\ exchange' = [exchange EXCEPT ![log[r].order] = "working"]
       \/ /\ log[r].type = "cancel"
          /\ exchange[log[r].order] = "working"
          /\ exchange' = [exchange EXCEPT ![log[r].order] = "canceling"]
       \/ /\ log[r].type = "cancel_all"
          /\ exchange' = [o \in Orders |-> IF exchange[o] = "working" THEN "canceling"
                                                                     ELSE exchange[o]]
    /\ UNCHANGED <<ready, inflight>>

\* The exchange refuses a request: a limit, no account id, no such order, ...
Refuse(r) ==
    /\ log[r].outcome = "sent"
    /\ log' = [log EXCEPT ![r].outcome = "refused"]
    /\ UNCHANGED <<ready, inflight, exchange>>

\* An order is filled, or its cancellation is through.
Finish(order) ==
    /\ exchange[order] \in {"working", "canceling"}
    /\ exchange' = [exchange EXCEPT ![order] = "done"]
    /\ UNCHANGED <<ready, inflight, log>>

-------------------------------------------------------------------------------
Init ==
    /\ ready = FALSE
    /\ inflight = <<>>
    /\ log = [r \in Requests |-> Unsent]
    /\ exchange = [o \in Orders |-> "none"]

Next ==
    \/ \E r \in Requests :
         \/ \E order \in Orders : PlaceOrder(r, order) \/ CancelOrder(r, order)
         \/ CancelAllOrders(r) \/ Execute(r) \/ Refuse(r)
    \/ \E answer \in Answers : Answer(answer)
    \/ Connected \/ Disconnected
    \/ \E order \in Orders : Finish(order)

Spec == Init /\ [][Next]_vars

-------------------------------------------------------------------------------
(* Properties                                                               *)

ReportType == [as : {"CREATE_ORDER", "CANCEL_ORDER", "CANCEL_ALL_ORDERS"},
               origin : {"EXCHANGE", "GATEWAY"},
               status : {"FORWARDED", "ACCEPTED", "REJECTED", "ERROR", "FAILED"}]

RequestType == [type : Types, order : Orders \cup {NoOrder}, outcome : Outcomes,
                reports : Seq(ReportType)]

\* The type invariant of the module; a request is in flight at most once and has at
\* most two reports.
TypeOK ==
    /\ ready \in BOOLEAN
    /\ inflight \in Seq(Requests)
    /\ \A i, j \in DOMAIN inflight : inflight[i] = inflight[j] => i = j
    /\ log \in [Requests -> RequestType]
    /\ exchange \in [Orders -> {"none", "working", "canceling", "done"}]
    /\ \A r \in Requests : Len(log[r].reports) <= 2

Finals(reports) == {i \in DOMAIN reports : reports[i].status # "FORWARDED"}

\* A request has one final report once its callback has run, and none before: over
\* lost connections, late answers and bodies that do not parse, no client waits for
\* ever and none is told twice.
EveryRequestIsAnsweredOnce ==
    \A r \in Requests :
        IF log[r].outcome = "unsent" \/ \E i \in DOMAIN inflight : inflight[i] = r
        THEN Finals(log[r].reports) = {}
        ELSE \E last \in DOMAIN log[r].reports : Finals(log[r].reports) = {last}

Says(r, as, origin, status) ==
    \E i \in DOMAIN log[r].reports : log[r].reports[i] = Report(as, origin, status)

\* An order reported as accepted is known to the exchange, although the answer to its
\* cancellation is reported as one to its creation (order_entry.cpp:659).
AcceptedOrdersReachedTheExchange ==
    \A r \in Requests : Says(r, "CREATE_ORDER", "EXCHANGE", "ACCEPTED") =>
        exchange[log[r].order] # "none"

\* An order whose own creation the exchange is reported to have rejected never works,
\* provided that a 5xx is final: what the network lost is not reported as rejected.
RejectedOrdersNeverLive ==
    \A r \in Requests :
        log[r].type = "create" /\ Says(r, "CREATE_ORDER", "EXCHANGE", "REJECTED") =>
            exchange[log[r].order] = "none"

\* An accepted cancellation has taken hold: the order does not work any more.
AcceptedCancelsTookHold ==
    \A r \in Requests :
        log[r].type = "cancel" /\ Says(r, "CREATE_ORDER", "EXCHANGE", "ACCEPTED") =>
            exchange[log[r].order] \in {"canceling", "done"}

\* A cancel-all that is reported as accepted was run by the exchange
\* (test/json_cancel_all_orders_ack.cpp:30 calls the error body a failure).
AcceptedCancelAllsTookHold ==
    \A r \in Requests : Says(r, "CANCEL_ALL_ORDERS", "EXCHANGE", "ACCEPTED") =>
        log[r].outcome = "done"

\* The answer to a cancellation is reported as one to a CANCEL_ORDER, which
\* order_entry.cpp:32 and :33 say the stream supports and acknowledges.
CancelsAreReportedAsCancels ==
    \A r \in Requests : log[r].type = "cancel" =>
        \A i \in DOMAIN log[r].reports : log[r].reports[i].as = "CANCEL_ORDER"
================================================================================
