---------------------------- MODULE AccountStreams ----------------------------
(***************************************************************************)
(* The private side of the gateway for one account: DropCopy (a websocket  *)
(* that logs in, then walks through a download), OrderEntry (the REST      *)
(* connection that runs the private queries of that download) and the      *)
(* Request object through which the two talk.  DropCopy asks for a query   *)
(* by setting a flag of Request; OrderEntry sends it at a later timer and  *)
(* raises another flag when the answer is in; DropCopy polls that flag at  *)
(* its own timer and moves on.                                             *)
(*                                                                         *)
(* The gateway is one event loop, so every handler is one atomic action.   *)
(* What interleaves is the exchange, the two connections, the rate limiter *)
(* and the order book keeper (which orders are stale, which can be found). *)
(***************************************************************************)
EXTENDS Naturals, Sequences, FiniteSets

CONSTANTS
    Orders,           \* orders the order management system may hold as stale
    RetryLogon,       \* settings.experimental.retry_logon
    OrdersMayVanish,  \* may find_order miss an order that was reported stale?
    NewestOnly        \* does has_response speak of the newest request only, or of
                      \* any answer since that request was made?  (see HasResponse)

ASSUME OrdersAssumption == IsFiniteSet(Orders)
ASSUME FlagsAssumption ==
    RetryLogon \in BOOLEAN /\ OrdersMayVanish \in BOOLEAN /\ NewestOnly \in BOOLEAN

VARIABLES
    running,       \* FALSE once a log::fatal has ended the process
    \* OrderEntry
    oe_status,     \* its connection_status_
    account_id,    \* is account_id_ set?
    counter,       \* download_stale_orders_counter_
    inflight,      \* requests on the REST connection, answered in order
    \* Request
    pending, in_progress, responded, \* per kind of core::limit::Request
    details,       \* details_stale_orders
    \* DropCopy
    link,          \* the websocket: "down", "open" or "closing"
    dc_status,     \* its connection_status_
    download,      \* download_.state()
    replies,       \* replies the exchange owes on the websocket, in order
    \* history, read by the properties only
    accepted,      \* has this session's login been accepted?
    acked,         \* channels acknowledged in this session
    settled,       \* kinds last answered, well or badly, for a request sent in this
                   \* session after the channel it complements was acknowledged
    failed,        \* kinds whose last answer was an error
    disturbed      \* has the exchange or the network failed since the login?

oe_vars == <<oe_status, account_id, counter, inflight>>
request_vars == <<pending, in_progress, responded, details>>
dc_vars == <<link, dc_status, download, replies>>
history == <<accepted, acked, settled, failed, disturbed>>
vars == <<running, oe_vars, request_vars, dc_vars, history>>

Private == {"account", "balances", "open_orders"}
Kinds == Private \cup {"stale_orders"}
Channels == {"accounts.update", "orders", "trade.clearing"}

\* The states of the download that ask for a query, and those that subscribe.
RequestOf == [GET_ACCOUNT |-> "account", GET_BALANCES |-> "balances",
              GET_OPEN_ORDERS |-> "open_orders", GET_STALE_ORDERS |-> "stale_orders"]
ChannelOf == [SUBSCRIBE_BALANCES |-> "accounts.update", SUBSCRIBE_ORDERS |-> "orders",
              SUBSCRIBE_TRADES |-> "trade.clearing"]

\* A mutant of DownloadOrder: a snapshot is taken before its channel is subscribed.
DownloadOrderOrdersFirst ==
    <<"UNDEFINED", "GET_ACCOUNT", "SUBSCRIBE_BALANCES", "GET_BALANCES", "GET_OPEN_ORDERS",
      "SUBSCRIBE_ORDERS", "GET_STALE_ORDERS", "SUBSCRIBE_TRADES", "DONE">>

\* DropCopy::State in its declared order.
DownloadOrder == <<"UNDEFINED", "GET_ACCOUNT", "SUBSCRIBE_BALANCES", "GET_BALANCES",
                   "SUBSCRIBE_ORDERS", "GET_OPEN_ORDERS", "GET_STALE_ORDERS",
                   "SUBSCRIBE_TRADES", "DONE">>
States == {DownloadOrder[i] : i \in 1..9}
Place(state) == CHOOSE i \in 1..9 : DownloadOrder[i] = state

\* The state that follows: GET_STALE_ORDERS is passed over with nothing to get.
Successor(state, stale) ==
    IF state = "GET_OPEN_ORDERS" /\ stale = {} THEN "SUBSCRIBE_TRADES"
    ELSE DownloadOrder[Place(state) + 1]

-------------------------------------------------------------------------------
(* core::limit::Request, one per kind, and the handler that gates them.     *)

\* A mutant of RequestsReady: queries are not gated on each other.
RequestsAlwaysReady == TRUE

\* Request::ready: no query of this account is waiting for its answer.
RequestsReady == \A kind \in Kinds : kind \notin in_progress

\* core::limit::Request::has_response is the library's.  request() withdraws an
\* earlier answer and commit() gives one; what an answer to an older query says
\* of a newer one, still unsent or unanswered, is NewestOnly.
HasResponse(kind, unsent, unanswered) ==
    kind \in responded /\ (NewestOnly => kind \notin unsent \cup unanswered)

SendOrder == <<"account", "balances", "open_orders", "stale_orders">>
Rank(kind) == CHOOSE i \in 1..4 : SendOrder[i] = kind

\* What this timer may send: the first pending query, if the connection is up.
Sendable ==
    {k \in pending : /\ oe_status = "READY"
                     /\ RequestsReady
                     /\ \A j \in pending : Rank(k) <= Rank(j)}

-------------------------------------------------------------------------------
(* OrderEntry                                                               *)

\* History: is a query sent now one this session's download can rely on?
Complements == [balances |-> "accounts.update", open_orders |-> "orders"]
SentInTime(kind) ==
    accepted /\ (kind \in DOMAIN Complements => Complements[kind] \in acked)

\* One REST request per private query, one per stale order that can be found.
RequestsFor(kind, found) ==
    IF kind = "stale_orders"
    THEN [i \in 1..Cardinality(found) |->
             [kind |-> "order", in_time |-> FALSE, with_id |-> FALSE]]
    ELSE <<[kind |-> kind, in_time |-> SentInTime(kind), with_id |-> account_id]>>

\* A mutant of CheckRequestQueue: the counter runs the wrong way.
CheckRequestQueueMiscounts(kind, found) ==
    /\ in_progress' = in_progress \cup {kind}
    /\ inflight' = inflight \o RequestsFor(kind, found)
    /\ counter' = IF kind = "stale_orders" THEN counter - Cardinality(found) ELSE counter

\* OrderEntry::check_request_queue, for the query the gate lets through.
CheckRequestQueue(kind, found) ==
    /\ in_progress' = in_progress \cup {kind}
    /\ inflight' = inflight \o RequestsFor(kind, found)
    /\ counter' = IF kind = "stale_orders" THEN counter + Cardinality(found) ELSE counter

\* The orders of details_stale_orders that find_order still finds.
Findable == IF OrdersMayVanish THEN SUBSET details ELSE {details}

RestConnected ==
    /\ running /\ oe_status = "DISCONNECTED"
    /\ oe_status' = "READY"
    /\ UNCHANGED <<running, account_id, counter, inflight, request_vars, dc_vars, history>>

\* A mutant of RestDisconnected: the counter is dropped with the connection,
\* although its answers (as errors) are still to come.
RestDisconnectedForgets ==
    /\ running /\ oe_status = "READY"
    /\ oe_status' = "DISCONNECTED"
    /\ account_id' = FALSE
    /\ counter' = 0
    /\ disturbed' = TRUE
    /\ UNCHANGED <<running, inflight, request_vars, dc_vars, accepted, acked, settled, failed>>

RestDisconnected ==
    /\ running /\ oe_status = "READY"
    /\ oe_status' = "DISCONNECTED"
    /\ account_id' = FALSE
    /\ disturbed' = TRUE
    /\ UNCHANGED <<running, counter, inflight, request_vars, dc_vars,
                   accepted, acked, settled, failed>>

\* What a private query comes back with: its answer, for an account the list of none,
\* or an error (of the exchange, the connection or the timeout).
Outcomes == {"full", "empty", "error"}
CanEnd(answer, outcome) ==
    /\ outcome = "empty" => answer.kind = "account"
    /\ outcome # "error" => oe_status = "READY" /\ (answer.kind = "balances" => answer.with_id)

\* A mutant of PrivateAck: an answer that is an error is not committed.
PrivateAckOnSuccess(outcome) ==
    LET answer == Head(inflight) IN
    /\ running /\ inflight # <<>> /\ answer.kind \in Private
    /\ CanEnd(answer, outcome)
    /\ inflight' = Tail(inflight)
    /\ in_progress' = in_progress \ {answer.kind}
    /\ responded' = IF outcome = "error" THEN responded ELSE responded \cup {answer.kind}
    /\ account_id' = (account_id \/ (answer.kind = "account" /\ outcome = "full"))
    /\ UNCHANGED <<running, oe_status, counter, pending, details, dc_vars, history>>

\* accounts_ack, balance_ack and open_orders_ack: whatever the answer, commit.
\* A success needs the connection; one for balances needs an account in its path.
PrivateAck(outcome) ==
    LET answer == Head(inflight) IN
    /\ running /\ inflight # <<>> /\ answer.kind \in Private
    /\ CanEnd(answer, outcome)
    /\ inflight' = Tail(inflight)
    /\ in_progress' = in_progress \ {answer.kind}
    /\ responded' = responded \cup {answer.kind}
    /\ account_id' = (account_id \/ (answer.kind = "account" /\ outcome = "full"))
    /\ settled' = IF answer.in_time THEN settled \cup {answer.kind}
                  ELSE settled \ {answer.kind}
    /\ failed' = IF outcome = "error" THEN failed \cup {answer.kind} ELSE failed \ {answer.kind}
    /\ disturbed' = (disturbed \/ (outcome # "full" /\ (answer.kind = "balances" => answer.with_id)))
    /\ UNCHANGED <<running, oe_status, counter, pending, details, dc_vars, accepted, acked>>

\* get_order_ack: the answer is not read; the last one of the batch commits.
GetOrderAck ==
    /\ running /\ inflight # <<>> /\ Head(inflight).kind = "order"
    /\ inflight' = Tail(inflight)
    /\ IF counter = 0
       THEN running' = FALSE /\ UNCHANGED <<counter, in_progress, responded>>
       ELSE /\ counter' = counter - 1
            /\ IF counter = 1
               THEN /\ in_progress' = in_progress \ {"stale_orders"}
                    /\ responded' = responded \cup {"stale_orders"}
               ELSE UNCHANGED <<in_progress, responded>>
            /\ UNCHANGED running
    /\ UNCHANGED <<oe_status, account_id, pending, details, dc_vars, history>>

-------------------------------------------------------------------------------
(* DropCopy                                                                 *)

\* DropCopy::download for the state being entered.  p is the set of pending
\* queries and q the replies owed at that point of the handler.
Enter(state, p, q) ==
    /\ download' = state
    /\ dc_status' = IF state = "DONE" THEN "READY" ELSE "DOWNLOADING"
    /\ IF state \in DOMAIN RequestOf
       THEN /\ pending' = p \cup {RequestOf[state]}
            /\ responded' = responded \ {RequestOf[state]}
       ELSE /\ pending' = p
            /\ UNCHANGED responded
    /\ replies' = IF state \in DOMAIN ChannelOf THEN Append(q, ChannelOf[state]) ELSE q

WsReady ==
    /\ running /\ link = "down"
    /\ link' = "open"
    /\ dc_status' = "LOGIN_SENT"
    /\ replies' = <<"auth">>
    /\ UNCHANGED <<running, oe_vars, request_vars, download, history>>

WsDisconnected ==
    /\ running /\ link # "down"
    /\ link' = "down"
    /\ dc_status' = "DISCONNECTED"
    /\ replies' = <<>>
    /\ accepted' = FALSE
    /\ acked' = {}
    /\ settled' = {}
    /\ inflight' = [i \in DOMAIN inflight |-> [inflight[i] EXCEPT !.in_time = FALSE]]
    /\ UNCHANGED <<running, oe_status, account_id, counter, request_vars, download,
                   failed, disturbed>>

Awaiting(reply) == running /\ link = "open" /\ replies # <<>> /\ Head(replies) = reply

\* A mutant of AuthAccepted: the download carries on where the last session left it.
AuthAcceptedResumes ==
    /\ Awaiting("auth")
    /\ IF download \in {"UNDEFINED", "DONE"}
       THEN Enter("GET_ACCOUNT", pending, Tail(replies))
       ELSE Enter(download, pending, Tail(replies))
    /\ accepted' = TRUE
    /\ disturbed' = FALSE
    /\ UNCHANGED <<running, oe_vars, in_progress, details, link, acked, settled, failed>>

\* Req with code 200: the download starts over.
AuthAccepted ==
    /\ Awaiting("auth")
    /\ Enter("GET_ACCOUNT", pending, Tail(replies))
    /\ accepted' = TRUE
    /\ disturbed' = FALSE
    /\ UNCHANGED <<running, oe_vars, in_progress, details, link, acked, settled, failed>>

\* Req with another code: close the connection or end the process.
AuthRejected ==
    /\ Awaiting("auth")
    /\ replies' = Tail(replies)
    /\ IF RetryLogon THEN link' = "closing" /\ UNCHANGED running
                     ELSE running' = FALSE /\ UNCHANGED link
    /\ UNCHANGED <<oe_vars, request_vars, dc_status, download, history>>

\* Sub: the reply is taken as an acknowledgement whatever its code.
SubReply(channel) ==
    /\ Awaiting(channel)
    /\ acked' = acked \cup {channel}
    /\ IF download \in DOMAIN ChannelOf /\ ChannelOf[download] = channel
       THEN Enter(Successor(download, details), pending, Tail(replies))
       ELSE /\ replies' = Tail(replies)
            /\ UNCHANGED <<download, dc_status, pending, responded>>
    /\ UNCHANGED <<running, oe_vars, in_progress, details, link,
                   accepted, settled, failed, disturbed>>

\* DropCopy::check_request_queue.  p, b and d are the pending queries, those in
\* progress and the stale orders, as OrderEntry's part of the timer has left them.
Answered(p, b) ==
    download \in DOMAIN RequestOf /\ HasResponse(RequestOf[download], p, b)

AdvanceDownload(p, b, d) ==
    /\ Answered(p, b)
    /\ CASE download = "GET_OPEN_ORDERS" ->
              \E stale \in SUBSET Orders :
                 /\ details' = d \cup stale
                 /\ Enter(Successor(download, d \cup stale), p, replies)
                 /\ UNCHANGED running
         [] download = "GET_STALE_ORDERS" /\ d # {} ->
              /\ running' = FALSE
              /\ details' = d /\ pending' = p
              /\ UNCHANGED <<responded, download, dc_status, replies>>
         [] OTHER ->
              /\ details' = d
              /\ Enter(Successor(download, d), p, replies)
              /\ UNCHANGED running

\* A mutant of CheckStaleOrders: the new stale orders are noted, not asked for.
CheckStaleOrdersForgets(p, d) ==
    /\ dc_status = "READY"
    /\ \E stale \in SUBSET Orders : details' = d \cup stale
    /\ pending' = p
    /\ UNCHANGED <<running, responded, download, dc_status, replies>>

\* Another mutant: new stale orders send a READY stream back to the download.
CheckStaleOrdersDownloads(p, d) ==
    /\ dc_status = "READY"
    /\ \E stale \in SUBSET Orders :
         /\ ~(stale \subseteq d)
         /\ details' = d \cup stale
    /\ Enter("GET_STALE_ORDERS", p, replies)
    /\ UNCHANGED running

\* DropCopy::check_stale_orders(trace_info), every check_stale_order_freq.
CheckStaleOrders(p, d) ==
    /\ dc_status = "READY"
    /\ \E stale \in SUBSET Orders :
         /\ ~(stale \subseteq d)
         /\ details' = d \cup stale
    /\ pending' = p \cup {"stale_orders"}
    /\ responded' = responded \ {"stale_orders"}
    /\ UNCHANGED <<running, download, dc_status, replies>>

\* Nothing to do: not connected, no answer yet, or no stale order to ask for.
IdleDropCopy(p, b, d) ==
    /\ link = "open" => ~Answered(p, b)
    /\ details' = d /\ pending' = p
    /\ UNCHANGED <<running, responded, download, dc_status, replies>>

DropCopyTimer(p, b, d) ==
    \/ link = "open" /\ AdvanceDownload(p, b, d)
    \/ link = "open" /\ CheckStaleOrders(p, d)
    \/ IdleDropCopy(p, b, d)

\* Controller dispatches the timer to OrderEntry, then to DropCopy.
TimerSends ==
    /\ running
    /\ \E kind \in Sendable, found \in Findable :
         /\ CheckRequestQueue(kind, IF kind = "stale_orders" THEN found ELSE {})
         /\ DropCopyTimer(pending \ {kind}, in_progress \cup {kind},
                          IF kind = "stale_orders" THEN {} ELSE details)
    /\ UNCHANGED <<oe_status, account_id, link, history>>

\* The rate limiter refuses, or there is nothing to send.
TimerHolds ==
    /\ running
    /\ DropCopyTimer(pending, in_progress, details)
    /\ UNCHANGED <<oe_status, account_id, counter, inflight, in_progress, link, history>>

-------------------------------------------------------------------------------
Init ==
    /\ running = TRUE
    /\ oe_status = "DISCONNECTED" /\ account_id = FALSE /\ counter = 0 /\ inflight = <<>>
    /\ pending = {} /\ in_progress = {} /\ responded = {} /\ details = {}
    /\ link = "down" /\ dc_status = "DISCONNECTED" /\ download = "UNDEFINED" /\ replies = <<>>
    /\ accepted = FALSE /\ acked = {} /\ settled = {} /\ failed = {} /\ disturbed = FALSE

Next ==
    \/ RestConnected
    \/ RestDisconnected
    \/ \E outcome \in Outcomes : PrivateAck(outcome)
    \/ GetOrderAck
    \/ WsReady
    \/ WsDisconnected
    \/ AuthAccepted
    \/ AuthRejected
    \/ \E channel \in Channels : SubReply(channel)
    \/ TimerSends
    \/ TimerHolds

Spec == Init /\ [][Next]_vars

(***************************************************************************)
(* What the event loop, the library and the exchange give.  Timers fire    *)
(* for ever (WF on the timer that has something to do); a connection that  *)
(* is down is made again (always_reconnect); a request on the REST         *)
(* connection is answered or fails (request_timeout); the exchange replies *)
(* to what it is sent on a websocket that stays open; a timer finds, again *)
(* and again, the REST connection up and the rate limiter willing.         *)
(***************************************************************************)
Fairness ==
    /\ WF_vars(RestConnected)
    /\ WF_vars(WsReady)
    /\ WF_vars(link = "closing" /\ WsDisconnected)
    /\ WF_vars(AuthAccepted \/ AuthRejected)
    /\ \A channel \in Channels : WF_vars(SubReply(channel))
    /\ WF_vars(\E outcome \in Outcomes : PrivateAck(outcome))
    /\ WF_vars(GetOrderAck)
    /\ SF_vars(TimerSends)
    /\ WF_vars(TimerHolds /\ download' # download)

FairSpec == Spec /\ Fairness

-------------------------------------------------------------------------------
(* Properties                                                               *)

Answerable == Private \cup {"order"}
RequestType == [kind : Answerable, in_time : BOOLEAN, with_id : BOOLEAN]

\* The type invariant of the module.
TypeOK ==
    /\ running \in BOOLEAN
    /\ oe_status \in {"DISCONNECTED", "READY"}
    /\ account_id \in BOOLEAN
    /\ counter \in Nat
    /\ inflight \in Seq(RequestType)
    /\ pending \in SUBSET Kinds
    /\ in_progress \in SUBSET Kinds
    /\ responded \in SUBSET Kinds
    /\ details \in SUBSET Orders
    /\ link \in {"down", "open", "closing"}
    /\ dc_status \in {"DISCONNECTED", "LOGIN_SENT", "DOWNLOADING", "READY"}
    /\ download \in States
    /\ replies \in Seq(Channels \cup {"auth"})
    /\ accepted \in BOOLEAN
    /\ acked \in SUBSET Channels
    /\ settled \in SUBSET Private
    /\ failed \in SUBSET Private
    /\ disturbed \in BOOLEAN

\* The get_order answers still to come are exactly those the counter waits for
\* (order_entry.cpp:482), whatever the connection did in between.
OrderRequests(queue) == {i \in DOMAIN queue : queue[i].kind = "order"}
CounterMatchesInflight == running => counter = Cardinality(OrderRequests(inflight))

\* A stale order is noted exactly while a query for it is pending: none is
\* noted and forgotten, and no stale-order query is sent with nothing to ask.
StaleOrdersAreAskedFor == details # {} <=> "stale_orders" \in pending

\* The process only ever ends because a login was refused and retry_logon is
\* off: neither log::fatal of the stale orders (order_entry.cpp:485 and
\* drop_copy.cpp:549) can be reached.
OnlyRefusedLogonIsFatal == ~running => ~RetryLogon /\ ~accepted

\* An account stream is never READY in a session whose login was not accepted or
\* with a private channel whose subscription was not replied to in that session.
ReadyIsSubscribed == dc_status = "READY" => accepted /\ acked = Channels

\* When an account stream is READY, the last answer about its balances and the last about
\* its open orders are to queries of this session, sent after the channel of their updates
\* was acknowledged: an answer to an older query never passes for one.  An answer may be
\* an error, which is committed like any other (order_entry.cpp:271, 320, 386): then there
\* is no snapshot at all.  What a success gives is UndisturbedReadyIsComplete.
ReadyAnswersAreCurrent == dc_status = "READY" => {"balances", "open_orders"} \subseteq settled

\* The weaker claim that needs nothing of has_response: the last answer, a success or an
\* error, is to such a query, or such a query is pending or on its way.
ReadyAnswersAreCovered ==
    dc_status = "READY" =>
        \A kind \in {"balances", "open_orders"} :
            \/ kind \in settled
            \/ kind \in pending
            \/ \E i \in DOMAIN inflight : inflight[i].kind = kind /\ inflight[i].in_time

\* If neither the exchange nor the network failed since the login, a READY account stream
\* has its account id, and snapshots of its balances and its open orders that were asked
\* for after their channels were acknowledged: no update falls between a snapshot and the
\* stream, and the download never causes a failure of its own.
SnapshotsTaken == (settled \ failed) \cap {"balances", "open_orders"}
UndisturbedReadyIsComplete ==
    dc_status = "READY" /\ ~disturbed => account_id /\ SnapshotsTaken = {"balances", "open_orders"}

\* A download never waits for nobody: the reply, the query or the answer that moves it on
\* is due, pending or on its way, over any lost connections and late answers; and so is
\* the answer of each query that keeps the others from being sent.  (That it arrives is
\* AcceptedLoginCompletes.  If stale orders may vanish, a query for none of them is never
\* answered.)
IsOnItsWay(kind) ==
    IF kind = "stale_orders" THEN OrderRequests(inflight) # {}
    ELSE \E i \in DOMAIN inflight : inflight[i].kind = kind
IsDue(reply) == \E i \in DOMAIN replies : replies[i] = reply
AwaitedIsUnderWay ==
    running =>
        /\ \A kind \in in_progress :
              IsOnItsWay(kind) \/ (kind = "stale_orders" /\ OrdersMayVanish)
        /\ link = "open" /\ ~accepted => IsDue("auth")
        /\ accepted =>
              \/ dc_status = "READY"
              \/ download \in DOMAIN ChannelOf /\ IsDue(ChannelOf[download])
              \/ /\ download \in DOMAIN RequestOf
                 /\ RequestOf[download] \in pending \cup in_progress \cup responded

\* What the account stream promises: the session of AccountSession, with the two
\* queries that complement a channel.
Session == INSTANCE AccountSession WITH
    Queries <- DOMAIN Complements, ChannelFor <- Complements,
    status <- dc_status, subscribed <- acked, settled <- settled \cap DOMAIN Complements

\* The stream implements that session: nothing that two connections, late answers
\* and timers do in any order takes it out of its promise, or out of READY.
ImplementsSession == Session!Spec

\* An accepted login becomes READY unless the websocket is lost: every query of
\* the download is sent in the end, and every answer, success or error, moves it on.
AcceptedLoginCompletes == accepted ~> dc_status = "READY" \/ ~accepted \/ ~running

\* A stale order that was noted is asked for at the exchange, unless the
\* websocket is lost.
StaleOrdersAreSent == details # {} ~> counter > 0 \/ link = "down" \/ ~running
===============================================================================
