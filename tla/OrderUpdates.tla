----------------------------- MODULE OrderUpdates -----------------------------
(***************************************************************************)
(* What the gateway publishes about orders.  A client's order is converted *)
(* to an order type of the exchange (map.cpp, encoder.cpp).  What becomes  *)
(* of the order is reported twice, over connections that know nothing of   *)
(* each other: by frames on DropCopy's websocket (channel "orders", and    *)
(* "trade.clearing" for fills) and by the answer to OrderEntry's query for *)
(* open orders.  Both are converted back and published.                    *)
(*                                                                         *)
(* DropCopy keeps its download over a lost websocket: a timer may move the *)
(* old one on before the new login is accepted, which starts it over.      *)
(* Refused logins, rate limits and stale orders are in AccountStreams.     *)
(***************************************************************************)
EXTENDS Naturals, Sequences

CONSTANTS
    Orders,         \* orders of the account
    Asks,           \* what clients may ask for (a subset of AllAsks)
    Foreign,        \* types of orders placed by other means (a subset of Types)
    Size,           \* quantity of an order, in lots that trade at once or apart
    PartialCancels, \* what the exchange may call an order canceled after a trade
    NoOrder         \* a model value: the order does not exist

Sides == {"BUY", "SELL"}
AllAsks == [side : Sides, type : {"UNDEFINED", "MARKET", "LIMIT"},
            tif : {"GTC", "IOC", "FOK", "OTHER"}, maker : BOOLEAN]
Kinds == {"market", "limit", "ioc", "limit_maker", "stop_limit", "limit_fok", "stop_limit_fok"}
Types == [side : Sides, kind : Kinds]
States == {"submitted", "partial-filled", "filled", "canceled", "partial-canceled"}

ASSUME OrderUpdatesAssumption ==
    /\ Asks \subseteq AllAsks /\ Foreign \subseteq Types
    /\ Size \in Nat \ {0}
    /\ PartialCancels \subseteq {"canceled", "partial-canceled"}

\* An order of the exchange: what was asked for it here (nothing if it was placed
\* elsewhere), its type and state, the lots traded, how often something happened to it.
OrderType == [ask : {<<>>} \cup {<<ask>> : ask \in AllAsks}, type : Types, state : States,
              traded : 0..Size, acts : 1..(Size + 2)]

ASSUME NoOrderAssumption == NoOrder \notin OrderType

VARIABLES
    \* the exchange
    order,     \* each order (the number of its acts serves as the time)
    requests,  \* messages sent on this websocket and not yet served, in order
    subs,      \* channels it serves on this websocket
    channel,   \* frames on the websocket, in order
    query,     \* the open-orders query on the REST connection
    \* the gateway
    status,    \* DropCopy's connection_status_
    download,  \* download_.state(), kept when the websocket is lost; GET_BALANCES
               \* stands for the states from GET_ACCOUNT to it, GET_STALE_ORDERS
               \* (AccountStreams) is passed over
    wanted,    \* is the query requested and not yet sent?
    responded, \* what the last query since the request was answered with
    updates,   \* history: order updates published
    fills,     \* history: fills published in this session
    touched    \* history: orders something happened to since the channel was served

exchange == <<order, requests, subs, channel, query>>
gateway == <<status, download, wanted, responded, updates, fills, touched>>
vars == <<exchange, gateway>>

-------------------------------------------------------------------------------
(* Conversions                                                              *)

\* Mutants of KindFor: no limit_fok; time in force looked at before post-only.
KindForWithoutFok(ask) ==
    IF ask.tif = "IOC" THEN "ioc"
    ELSE IF ask.type = "MARKET" THEN "market"
    ELSE IF ask.type = "UNDEFINED" THEN "undefined"
    ELSE IF ask.maker THEN "limit_maker" ELSE "limit"
KindForFokFirst(ask) ==
    IF ask.tif = "IOC" THEN "ioc"
    ELSE IF ask.type = "MARKET" THEN "market"
    ELSE IF ask.type = "UNDEFINED" THEN "undefined"
    ELSE IF ask.tif = "FOK" THEN "limit_fok"
    ELSE IF ask.maker THEN "limit_maker" ELSE "limit"

\* The exchange's type of a client's order: the first condition that applies.
KindFor(ask) ==
    IF ask.tif = "IOC" THEN "ioc"
    ELSE IF ask.type = "MARKET" THEN "market"
    ELSE IF ask.type = "UNDEFINED" THEN "undefined"
    ELSE IF ask.maker THEN "limit_maker"
    ELSE IF ask.tif = "FOK" THEN "limit_fok" ELSE "limit"
ToExchange(ask) == [side |-> ask.side, kind |-> KindFor(ask)]

\* The four conversions of the exchange's type.
SideOf(type) == type.side
OrderTypeOf(type) == IF type.kind = "market" THEN "MARKET" ELSE "LIMIT"
TimeInForceOf(type) ==
    CASE type.kind = "market" -> "UNDEFINED"
      [] type.kind = "ioc" -> "IOC"
      [] type.kind \in {"limit_fok", "stop_limit_fok"} -> "FOK"
      [] type.kind \in {"limit", "limit_maker", "stop_limit"} -> "GTC"
IsMaker(type) == type.kind = "limit_maker"

\* Mutants of StatusOf: any trade completes the order; the state as it comes.
StatusOfTrade(state) ==
    CASE state = "submitted" -> "WORKING"
      [] state \in {"partial-filled", "filled"} -> "COMPLETED"
      [] state = "canceled" -> "CANCELED"
      [] OTHER -> "UNDEFINED"
StatusOfRaw(state) == state

\* The exchange's order state; a state the gateway has no name for is UNDEFINED.
StatusOf(state) ==
    CASE state \in {"submitted", "partial-filled"} -> "WORKING"
      [] state = "filled" -> "COMPLETED"
      [] state = "canceled" -> "CANCELED"
      [] OTHER -> "UNDEFINED"

-------------------------------------------------------------------------------
(* The exchange                                                             *)

Exists(o) == order[o] # NoOrder
Open(o) == Exists(o) /\ order[o].state \in {"submitted", "partial-filled"}

\* A frame of the channel "orders".  It carries only the time that goes with its event.
OrderFrame(o, event, after, aggressor) ==
    [ch |-> "orders", order |-> o, event |-> event, type |-> after.type,
     state |-> after.state, aggressor |-> aggressor, at |-> after.acts,
     created |-> IF event = "creation" THEN after.acts ELSE 0,
     last_act |-> IF event = "cancellation" THEN after.acts ELSE 0,
     trade_time |-> IF event = "trade" THEN after.acts ELSE 0]
ClearingFrame(o, after, aggressor) ==
    [ch |-> "trade.clearing", order |-> o, type |-> after.type,
     aggressor |-> aggressor, at |-> after.acts]

\* The order changes, and the channels that are served say so.
Told(ch, frames) == IF ch \in subs THEN frames ELSE <<>>
Happens(o, after, frames, clearings) ==
    /\ order' = [order EXCEPT ![o] = after]
    /\ channel' = channel \o Told("orders", frames) \o Told("trade.clearing", clearings)
    /\ touched' = IF "orders" \in subs THEN touched \cup {o} ELSE touched
    /\ UNCHANGED <<requests, subs, query, status, download, wanted, responded, updates, fills>>

After(o, state, traded) ==
    [ask |-> order[o].ask, type |-> order[o].type, state |-> state, traded |-> traded,
     acts |-> order[o].acts + 1]

Created(o, ask, type) ==
    LET after == [ask |-> ask, type |-> type, state |-> "submitted", traded |-> 0, acts |-> 1]
    IN  /\ ~Exists(o)
        /\ Happens(o, after, <<OrderFrame(o, "creation", after, FALSE)>>, <<>>)

\* A client's order reaches the exchange, which refuses one without a type.
Placed(o) == \E ask \in Asks :
    /\ ToExchange(ask).kind # "undefined"
    /\ Created(o, <<ask>>, ToExchange(ask))
PlacedElsewhere(o) == \E type \in Foreign : Created(o, <<>>, type)

\* May an order of this type be the taker or the maker of a trade?
Roles(kind) == CASE kind = "limit_maker" -> {FALSE}
                 [] kind \in {"market", "ioc", "limit_fok", "stop_limit_fok"} -> {TRUE}
                 [] OTHER -> BOOLEAN

Traded(o) ==
    /\ Open(o)
    /\ \E lots \in 1..(Size - order[o].traded), aggressor \in Roles(order[o].type.kind) :
        LET traded == order[o].traded + lots
            after == After(o, IF traded = Size THEN "filled" ELSE "partial-filled", traded)
        IN  /\ order[o].type.kind \in {"limit_fok", "stop_limit_fok"} => traded = Size
            /\ Happens(o, after, <<OrderFrame(o, "trade", after, aggressor)>>,
                                 <<ClearingFrame(o, after, aggressor)>>)

Canceled(o) ==
    /\ Open(o)
    /\ \E state \in IF order[o].traded = 0 THEN {"canceled"} ELSE PartialCancels :
        LET after == After(o, state, order[o].traded)
        IN  Happens(o, after, <<OrderFrame(o, "cancellation", after, FALSE)>>, <<>>)

\* What the gateway sent is handled in order.  The login is accepted (if it is
\* refused, nothing follows but the end of the session, AccountStreams).
Login ==
    /\ requests # <<>> /\ Head(requests) = "auth"
    /\ requests' = Tail(requests)
    /\ channel' = Append(channel, [ch |-> "auth"])
    /\ UNCHANGED <<order, subs, query, gateway>>

\* A channel is served from here on, and the reply says so.
Served(ch) ==
    /\ requests # <<>> /\ Head(requests) = ch
    /\ requests' = Tail(requests)
    /\ subs' = subs \cup {ch}
    /\ channel' = Append(channel, [ch |-> "sub", of |-> ch])
    /\ UNCHANGED <<order, query, gateway>>

\* The query is run, or fails (an error, a timeout, a lost connection).
QueryRun ==
    /\ query.phase = "asked"
    /\ query' = [query EXCEPT !.phase = "answered",
                    !.items = {[order |-> o, type |-> order[o].type, state |-> order[o].state,
                                created |-> 1, at |-> order[o].acts] : o \in {p \in Orders : Open(p)}}]
    /\ UNCHANGED <<order, requests, subs, channel, gateway>>
QueryFails ==
    /\ query.phase = "asked"
    /\ query' = [query EXCEPT !.phase = "failed"]
    /\ UNCHANGED <<order, requests, subs, channel, gateway>>

-------------------------------------------------------------------------------
(* DropCopy                                                                 *)

\* The websocket is open: log in.  The download is where the last session left it.
WsReady ==
    /\ status = "DISCONNECTED"
    /\ status' = "LOGIN_SENT"
    /\ requests' = <<"auth">>
    /\ UNCHANGED <<order, subs, channel, query, download, wanted, responded, updates, fills,
                   touched>>

\* The websocket is lost, and what was on it.  The download stays, and the query goes on.
Disconnected ==
    /\ status # "DISCONNECTED"
    /\ status' = "DISCONNECTED"
    /\ requests' = <<>> /\ subs' = {} /\ channel' = <<>>
    /\ fills' = {} /\ touched' = {}
    /\ UNCHANGED <<order, query, download, wanted, responded, updates>>

Receives(ch) == channel # <<>> /\ Head(channel).ch = ch
Consumes == channel' = Tail(channel) /\ UNCHANGED <<order, requests, subs, query>>

\* A mutant of AuthAccepted: the download carries on where the last session left it.
AuthAcceptedResumes ==
    /\ Receives("auth")
    /\ Consumes
    /\ download' = IF download = "UNDEFINED" THEN "GET_BALANCES" ELSE download
    /\ status' = "DOWNLOADING"
    /\ UNCHANGED <<wanted, responded, updates, fills, touched>>

\* The login is accepted: the download starts over.
AuthAccepted ==
    /\ Receives("auth")
    /\ Consumes
    /\ download' = "GET_BALANCES"
    /\ status' = "DOWNLOADING"
    /\ UNCHANGED <<wanted, responded, updates, fills, touched>>

\* A timer moves a download on, this session's or one kept from an earlier session.
Subscribes(from, to, ch) ==
    /\ status # "DISCONNECTED" /\ download = from
    /\ download' = to
    /\ status' = "DOWNLOADING"
    /\ requests' = Append(requests, ch)
    /\ UNCHANGED <<order, subs, channel, query, wanted, responded, updates, fills, touched>>

\* The timer finds the balances answered.
Subscribe == Subscribes("GET_BALANCES", "SUBSCRIBE_ORDERS", "orders")

\* The timer finds the query for open orders answered, well or badly.  has_response
\* is the library's; taken to speak of the newest request (NewestOnly of AccountStreams).
HasResponse == responded # "none" /\ ~wanted /\ query.phase = "none"
DownloadTimer ==
    /\ HasResponse
    /\ Subscribes("GET_OPEN_ORDERS", "SUBSCRIBE_TRADES", "trade.clearing")

\* The reply to the first subscription: ask for the open orders, if that is due.
SubOrders ==
    /\ Receives("sub") /\ Head(channel).of = "orders"
    /\ Consumes
    /\ IF download = "SUBSCRIBE_ORDERS"
       THEN /\ download' = "GET_OPEN_ORDERS" /\ status' = "DOWNLOADING"
            /\ wanted' = TRUE /\ responded' = "none"
       ELSE UNCHANGED <<download, status, wanted, responded>>
    /\ UNCHANGED <<updates, fills, touched>>

\* The reply to the second one: the download is done, if that is due.
SubTrades ==
    /\ Receives("sub") /\ Head(channel).of = "trade.clearing"
    /\ Consumes
    /\ IF download = "SUBSCRIBE_TRADES"
       THEN download' = "DONE" /\ status' = "READY"
       ELSE UNCHANGED <<download, status>>
    /\ UNCHANGED <<wanted, responded, updates, fills, touched>>

\* A mutant of UpdateTime: trades are not told apart.
UpdateTimeOfAnyEvent(frame) == IF frame.last_act # 0 THEN frame.last_act ELSE frame.created

UpdateTime(frame) ==
    IF frame.event = "trade" THEN frame.trade_time
    ELSE IF frame.last_act # 0 THEN frame.last_act ELSE frame.created

Liquidity(aggressor) == IF aggressor THEN "TAKER" ELSE "MAKER"

\* What both sources say of an order; seen is what had happened to it by then.
Update(o, from, type, state, time, liquidity, seen) ==
    [order |-> o, from |-> from, side |-> SideOf(type), type |-> OrderTypeOf(type),
     tif |-> TimeInForceOf(type), maker |-> IsMaker(type), status |-> StatusOf(state),
     time |-> time, liquidity |-> liquidity, seen |-> seen]

\* A mutant of OrderEvent: partial fills are left to the other channel.
OrderEventSkipsPartial ==
    /\ Receives("orders")
    /\ Consumes
    /\ LET f == Head(channel)
       IN  updates' = updates \cup
             IF f.state = "partial-filled" THEN {}
             ELSE {Update(f.order, "stream", f.type, f.state, UpdateTime(f),
                          IF f.event = "trade" THEN Liquidity(f.aggressor) ELSE "UNDEFINED", f.at)}
    /\ UNCHANGED <<status, download, wanted, responded, fills, touched>>

\* A frame of the channel "orders".
OrderEvent ==
    /\ Receives("orders")
    /\ Consumes
    /\ LET f == Head(channel)
       IN  updates' = updates \cup
             {Update(f.order, "stream", f.type, f.state, UpdateTime(f),
                     IF f.event = "trade" THEN Liquidity(f.aggressor) ELSE "UNDEFINED", f.at)}
    /\ UNCHANGED <<status, download, wanted, responded, fills, touched>>

\* A frame of the channel "trade.clearing".
Clearing ==
    /\ Receives("trade.clearing")
    /\ Consumes
    /\ LET f == Head(channel)
       IN  fills' = fills \cup {[order |-> f.order, side |-> f.type.side, trade |-> f.at,
                                 liquidity |-> Liquidity(f.aggressor),
                                 ready |-> status = "READY"]}
    /\ UNCHANGED <<status, download, wanted, responded, updates, touched>>

-------------------------------------------------------------------------------
(* OrderEntry                                                               *)

\* One query at a time, whichever session it was asked for in.
SendQuery ==
    /\ wanted /\ query.phase = "none"
    /\ wanted' = FALSE
    /\ query' = [phase |-> "asked", items |-> {}]
    /\ UNCHANGED <<order, requests, subs, channel, status, download, responded, updates, fills,
                   touched>>

\* The callback: whatever it brings is published, an error is as good an end.
OpenOrdersAck ==
    /\ query.phase \in {"answered", "failed"}
    /\ updates' = updates \cup {Update(i.order, "snapshot", i.type, i.state, i.created,
                                       "UNDEFINED", i.at) : i \in query.items}
    /\ responded' = IF query.phase = "answered" THEN "ok" ELSE "failed"
    /\ query' = [phase |-> "none", items |-> {}]
    /\ UNCHANGED <<order, requests, subs, channel, status, download, wanted, fills, touched>>

Init ==
    /\ order = [o \in Orders |-> NoOrder]
    /\ requests = <<>> /\ subs = {} /\ channel = <<>>
    /\ query = [phase |-> "none", items |-> {}]
    /\ status = "DISCONNECTED" /\ download = "UNDEFINED"
    /\ wanted = FALSE /\ responded = "none"
    /\ updates = {} /\ fills = {} /\ touched = {}

Exchange ==
    \/ \E o \in Orders : Placed(o) \/ PlacedElsewhere(o) \/ Traded(o) \/ Canceled(o)
    \/ Login
    \/ \E ch \in {"orders", "trade.clearing"} : Served(ch)
    \/ QueryRun \/ QueryFails
Next ==
    \/ Exchange
    \/ WsReady \/ Disconnected
    \/ AuthAccepted \/ Subscribe \/ DownloadTimer
    \/ SubOrders \/ SubTrades
    \/ OrderEvent \/ Clearing
    \/ SendQuery \/ OpenOrdersAck

Spec == Init /\ [][Next]_vars

-------------------------------------------------------------------------------
(* Properties                                                               *)

\* Types, and that conversions stay within the names of the framework.
TypeOK ==
    /\ order \in [Orders -> OrderType \cup {NoOrder}]
    /\ subs \subseteq {"orders", "trade.clearing"}
    /\ requests \in Seq({"auth", "orders", "trade.clearing"})
    /\ status \in {"DISCONNECTED", "LOGIN_SENT", "DOWNLOADING", "READY"}
    /\ download \in {"UNDEFINED", "GET_BALANCES", "SUBSCRIBE_ORDERS", "GET_OPEN_ORDERS",
                    "SUBSCRIBE_TRADES", "DONE"}
    /\ wanted \in BOOLEAN /\ responded \in {"none", "ok", "failed"}
    /\ query.phase \in {"none", "asked", "answered", "failed"}
    /\ \A u \in updates :
         /\ u.status \in {"UNDEFINED", "WORKING", "COMPLETED", "CANCELED"}
         /\ u.side \in Sides /\ u.maker \in BOOLEAN
    /\ touched \subseteq Orders

\* What clients can ask for in the exchange's terms.  Not among it: post-only
\* with IOC (dropped) or FOK (FOK is dropped), a market order that is IOC (it is
\* sent as a limit order), FOK or post-only, and any other time in force.
Expressible ==
    {ask \in AllAsks :
        \/ ask.type = "LIMIT" /\ ask.tif # "OTHER" /\ (ask.maker => ask.tif = "GTC")
        \/ ask.type = "MARKET" /\ ask.tif = "GTC" /\ ~ask.maker}

\* Every update of an order placed here, from either source and in any session,
\* repeats what the client asked for.
UpdatesSayWhatWasAsked ==
    \A u \in updates : \A i \in 1..Len(order[u.order].ask) :
        LET ask == order[u.order].ask[i]
        IN  ask \in Expressible =>
              /\ u.side = ask.side /\ u.type = ask.type /\ u.maker = ask.maker
              /\ ask.type = "LIMIT" => u.tif = ask.tif

\* A post-only order never takes, and no update or fill says that it did.
\* Orders that are IOC are left out: for those the gateway drops the instruction.
PostOnlyNeverTakes ==
    LET PostOnly(o) == \E i \in 1..Len(order[o].ask) :
            LET ask == order[o].ask[i]
            IN  ask.maker /\ ask.type = "LIMIT" /\ ask.tif # "IOC"
    IN  /\ \A u \in updates : PostOnly(u.order) => u.liquidity # "TAKER"
        /\ \A f \in fills : PostOnly(f.order) => f.liquidity = "MAKER"

\* An update reports an order as ended exactly if it had ended, in the way it
\* did, when the update was made (if the exchange calls it by a name we know).
StatusTellsTheEnd ==
    \A u \in updates :
        LET now == order[u.order]
            ended == ~Open(u.order) /\ u.seen = now.acts
        IN  /\ u.status = "COMPLETED" <=> ended /\ now.traded = Size
            /\ now.state # "partial-canceled" =>
                 (u.status = "CANCELED" <=> ended /\ now.traded < Size)

Known(o) ==
    \/ \E u \in updates : u.order = o /\ u.seen = order[o].acts
    \/ \E i \in 1..Len(channel) :
          channel[i].ch = "orders" /\ channel[i].order = o /\ channel[i].at = order[o].acts

\* When the stream is READY and its query for open orders succeeded, the present state
\* of each open order, and of each order that changed since this session's channel was
\* served, has been published or is on the websocket: nothing falls between snapshot and
\* stream, whatever answers and downloads earlier sessions left behind.
OpenOrdersAreKnown ==
    status = "READY" /\ responded = "ok" =>
        \A o \in Orders : Open(o) \/ o \in touched => Known(o)

\* Every fill a READY stream publishes belongs to a trade that an order update of the
\* stream shows, published before or still on the websocket.  (Before READY it need not:
\* a kept download may subscribe to the fills before this session's orders.)
FillsComeWithUpdates ==
    \A f \in fills : f.ready =>
        \/ \E u \in updates : u.order = f.order /\ u.from = "stream" /\ u.seen = f.trade
        \/ \E i \in 1..Len(channel) :
              channel[i].ch = "orders" /\ channel[i].order = f.order /\ channel[i].at = f.trade

\* The times of the stream's updates order them as things happened, over any
\* number of sessions.  Snapshots carry the time of creation and say nothing.
StreamTimesTellTheOrder ==
    \A u, v \in updates :
        u.order = v.order /\ u.from = "stream" /\ v.from = "stream" =>
            (u.time < v.time <=> u.seen < v.seen)
===============================================================================
