-------------------------- MODULE OrderUpdates_proofs --------------------------
(* What updates say of orders, for every set of orders and of what clients may *)
(* ask for, every size and every name of a partly traded order's cancellation. *)
EXTENDS OrderUpdates, SequenceTheorems, TLAPS

Feeds == {"orders", "trade.clearing"}
Messages == {"auth", "orders", "trade.clearing"}
Statuses == {"DISCONNECTED", "LOGIN_SENT", "DOWNLOADING", "READY"}
Stages == {"UNDEFINED", "GET_BALANCES", "SUBSCRIBE_ORDERS", "GET_OPEN_ORDERS",
           "SUBSCRIBE_TRADES", "DONE"}
Phases == {"none", "asked", "answered", "failed"}
Events == {"creation", "trade", "cancellation"}

OrderFrames ==
    [ch : {"orders"}, order : Orders, event : Events, type : Types, state : States,
     aggressor : BOOLEAN, at : Nat, created : Nat, last_act : Nat, trade_time : Nat]
ClearingFrames ==
    [ch : {"trade.clearing"}, order : Orders, type : Types, aggressor : BOOLEAN, at : Nat]
SubFrames == [ch : {"sub"}, of : Feeds]
AuthFrames == [ch : {"auth"}]
Frames == OrderFrames \cup ClearingFrames \cup SubFrames \cup AuthFrames

Items == [order : Orders, type : Types, state : States, created : Nat, at : Nat]
Queries == [phase : Phases, items : SUBSET Items]
Updates ==
    [order : Orders, from : {"stream", "snapshot"}, side : Sides, type : {"MARKET", "LIMIT"},
     tif : {"UNDEFINED", "GTC", "IOC", "FOK"}, maker : BOOLEAN,
     status : {"UNDEFINED", "WORKING", "COMPLETED", "CANCELED"}, time : Nat,
     liquidity : {"UNDEFINED", "MAKER", "TAKER"}, seen : Nat]
Fills == [order : Orders, side : Sides, trade : Nat, liquidity : {"MAKER", "TAKER"},
          ready : BOOLEAN]

-------------------------------------------------------------------------------
(* The inductive invariant                                                     *)

TypesOK ==
    /\ order \in [Orders -> OrderType \cup {NoOrder}]
    /\ requests \in Seq(Messages) /\ subs \subseteq Feeds
    /\ channel \in Seq(Frames)
    /\ query \in Queries
    /\ status \in Statuses /\ download \in Stages
    /\ wanted \in BOOLEAN /\ responded \in {"none", "ok", "failed"}
    /\ updates \subseteq Updates /\ fills \subseteq Fills
    /\ touched \subseteq Orders

\* An order placed here has the type its ask was converted to, and something
\* happens to it only as long as it is open.
OrdersOK ==
    \A o \in Orders : Exists(o) =>
        /\ order[o].ask # <<>> => order[o].type = ToExchange(order[o].ask[1])
        /\ order[o].acts <= order[o].traded + 2
        /\ Open(o) => order[o].traded < Size /\ order[o].acts <= order[o].traded + 1

\* Does a frame, an item of a snapshot, an update or a fill speak of an order as it is?
OfType(x) == Exists(x.order) /\ x.type = order[x.order].type
NoTaker(x) == x.type.kind = "limit_maker" => ~x.aggressor
Converted(u) ==
    LET type == order[u.order].type
    IN  /\ Exists(u.order)
        /\ u.side = SideOf(type) /\ u.type = OrderTypeOf(type)
        /\ u.tif = TimeInForceOf(type) /\ u.maker = IsMaker(type)
        /\ type.kind = "limit_maker" => u.liquidity # "TAKER"
Filled(f) ==
    /\ Exists(f.order)
    /\ order[f.order].type.kind = "limit_maker" => f.liquidity = "MAKER"

SaidOK ==
    /\ \A i \in 1..Len(channel) :
         channel[i].ch \in Feeds => OfType(channel[i]) /\ NoTaker(channel[i])
    /\ \A i \in query.items : OfType(i)
    /\ \A u \in updates : Converted(u)
    /\ \A f \in fills : Filled(f)

\* Has this session's login been sent, accepted, and its acceptance been read?  Until
\* then the download is one that an earlier session left.
LoggedIn ==
    /\ status # "DISCONNECTED"
    /\ \A i \in 1..Len(requests) : requests[i] # "auth"
    /\ \A i \in 1..Len(channel) : channel[i].ch # "auth"
PastOrders == download \in {"GET_OPEN_ORDERS", "SUBSCRIBE_TRADES", "DONE"}

\* The login is the first thing said on a websocket, in both directions.
SessionOK ==
    /\ status = "DISCONNECTED" => subs = {} /\ channel = <<>> /\ requests = <<>>
    /\ \A i \in 1..Len(requests) : requests[i] = "auth" => i = 1 /\ channel = <<>> /\ subs = {}
    /\ \A i \in 1..Len(channel) : channel[i].ch = "auth" => i = 1
    /\ \A i \in 1..Len(channel) : channel[i].ch = "sub" => channel[i].of \in subs
    /\ LoggedIn /\ PastOrders => "orders" \in subs
    /\ status = "READY" => LoggedIn /\ download = "DONE"

\* How the present state of the open orders gets from the exchange to the gateway.
AllKnown == \A o \in Orders : Open(o) => Known(o)
InItems(o) == \E i \in query.items : i.order = o /\ i.at = order[o].acts
ItemsOK ==
    LoggedIn /\ download = "GET_OPEN_ORDERS" /\ ~wanted /\ query.phase = "answered" =>
        \A o \in Orders : Open(o) => o \in touched \/ InItems(o)
AnswerOK ==
    LoggedIn /\ download = "GET_OPEN_ORDERS" /\ HasResponse /\ responded = "ok" => AllKnown
DoneOK ==
    LoggedIn /\ download \in {"SUBSCRIBE_TRADES", "DONE"} =>
        ~wanted /\ query.phase = "none" /\ (responded = "ok" => AllKnown)
KnownOK ==
    /\ "orders" \notin subs => touched = {}
    /\ \A o \in touched : Exists(o) /\ Known(o)
    /\ ItemsOK /\ AnswerOK /\ DoneOK

IInv == TypesOK /\ OrdersOK /\ SaidOK /\ SessionOK /\ KnownOK

(* What rests on it: the story of each order, as told.                          *)

\* Does a frame or an item give the state the order had, when that was not its last?
Speaks(x) ==
    /\ x.at <= order[x.order].acts
    /\ x.at = order[x.order].acts => x.state = order[x.order].state
    /\ x.at < order[x.order].acts => x.state \in {"submitted", "partial-filled"}

\* Does an update, once published, still give the status the order had?
Tells(u) ==
    /\ u.seen <= order[u.order].acts
    /\ u.seen = order[u.order].acts => u.status = StatusOf(order[u.order].state)
    /\ u.seen < order[u.order].acts => u.status = "WORKING"
    /\ u.from = "stream" => u.time = u.seen

StoryOK ==
    /\ \A o \in Orders : Exists(o) => (order[o].traded = Size <=> order[o].state = "filled")
    /\ \A i \in 1..Len(channel) : channel[i].ch = "orders" =>
         Speaks(channel[i]) /\ UpdateTime(channel[i]) = channel[i].at
    /\ \A x \in query.items : Speaks(x)
    /\ \A u \in updates : Tells(u)

\* An update or a frame of the stream shows what happened to the order as its n-th.
Shown(o, n) ==
    \/ \E u \in updates : u.order = o /\ u.from = "stream" /\ u.seen = n
    \/ \E i \in 1..Len(channel) :
          channel[i].ch = "orders" /\ channel[i].order = o /\ channel[i].at = n

\* A fill behind the reply for the orders, and any once that reply has been read in this
\* session, is of a trade that is shown; one that came before need not be.
OrdersReply(x) == x.ch = "sub" /\ x.of = "orders"
ShownOK ==
    /\ \A i, j \in 1..Len(channel) :
         j < i /\ OrdersReply(channel[j]) /\ channel[i].ch = "trade.clearing" =>
            Shown(channel[i].order, channel[i].at)
    /\ LoggedIn /\ PastOrders =>
         \A i \in 1..Len(channel) :
            channel[i].ch = "trade.clearing" => Shown(channel[i].order, channel[i].at)
    /\ \A x \in fills : x.ready => Shown(x.order, x.trade)

TellInv == StoryOK /\ ShownOK

-------------------------------------------------------------------------------
(* Conversions                                                                 *)

\* Conversions by cases, spelled out for the prover that cannot read CASE.
LEMMA TimeInForceCases ==
    ASSUME NEW type
    PROVE  /\ type.kind = "market" => TimeInForceOf(type) = "UNDEFINED"
           /\ type.kind = "ioc" => TimeInForceOf(type) = "IOC"
           /\ type.kind = "limit_fok" => TimeInForceOf(type) = "FOK"
           /\ type.kind = "stop_limit_fok" => TimeInForceOf(type) = "FOK"
           /\ type.kind = "limit" => TimeInForceOf(type) = "GTC"
           /\ type.kind = "limit_maker" => TimeInForceOf(type) = "GTC"
           /\ type.kind = "stop_limit" => TimeInForceOf(type) = "GTC"
BY Zenon DEF TimeInForceOf

LEMMA StatusTypes ==
    ASSUME NEW state
    PROVE  StatusOf(state) \in {"UNDEFINED", "WORKING", "COMPLETED", "CANCELED"}
BY Zenon DEF StatusOf

LEMMA RoleTypes ==
    ASSUME NEW kind, NEW aggressor \in Roles(kind)
    PROVE  aggressor \in BOOLEAN /\ (kind = "limit_maker" => aggressor = FALSE)
BY Zenon DEF Roles

\* The conversions of map.cpp stay within the names of the framework.
LEMMA ConversionTypes ==
    ASSUME NEW type \in Types
    PROVE  /\ SideOf(type) \in Sides /\ OrderTypeOf(type) \in {"MARKET", "LIMIT"}
           /\ TimeInForceOf(type) \in {"UNDEFINED", "GTC", "IOC", "FOK"}
           /\ IsMaker(type) \in BOOLEAN
<1>1. type.side \in Sides /\ type.kind \in Kinds
  BY DEF Types
<1>2. TimeInForceOf(type) \in {"UNDEFINED", "GTC", "IOC", "FOK"}
  BY <1>1, TimeInForceCases DEF Kinds
<1> QED
  BY <1>1, <1>2 DEF SideOf, OrderTypeOf, IsMaker

\* What is sent for an ask that has a type is a type of the exchange.
LEMMA AskTypes ==
    ASSUME NEW ask \in AllAsks, ToExchange(ask).kind # "undefined"
    PROVE  ToExchange(ask) \in Types
BY DEF AllAsks, ToExchange, KindFor, Types, Kinds

\* What was asked, within what can be expressed, comes back from both conversions.
LEMMA RoundTrip ==
    ASSUME NEW ask \in Expressible
    PROVE  LET type == ToExchange(ask)
           IN  /\ SideOf(type) = ask.side /\ OrderTypeOf(type) = ask.type
               /\ IsMaker(type) = ask.maker
               /\ ask.type = "LIMIT" => TimeInForceOf(type) = ask.tif
<1>1. /\ ask.side \in Sides /\ ask.tif \in {"GTC", "IOC", "FOK", "OTHER"}
      /\ ask.maker \in BOOLEAN
  BY DEF Expressible, AllAsks
<1>2. CASE ask.type = "LIMIT" /\ ask.tif = "GTC"
  BY <1>1, <1>2, TimeInForceCases DEF ToExchange, KindFor, SideOf, OrderTypeOf, IsMaker
<1>3. CASE ask.type = "LIMIT" /\ ask.tif \in {"IOC", "FOK"} /\ ~ask.maker
  BY <1>1, <1>3, TimeInForceCases DEF ToExchange, KindFor, SideOf, OrderTypeOf, IsMaker
<1>4. CASE ask.type = "MARKET" /\ ask.tif = "GTC" /\ ~ask.maker
  BY <1>1, <1>4, TimeInForceCases DEF ToExchange, KindFor, SideOf, OrderTypeOf, IsMaker
<1> QED
  BY <1>1, <1>2, <1>3, <1>4 DEF Expressible

\* A post-only limit order that is not IOC is a limit_maker at the exchange.
LEMMA PostOnlyIsMaker ==
    ASSUME NEW ask \in AllAsks, ask.maker, ask.type = "LIMIT", ask.tif # "IOC"
    PROVE  ToExchange(ask).kind = "limit_maker"
BY DEF ToExchange, KindFor

-------------------------------------------------------------------------------
(* The exchange's steps                                                        *)

\* Something happens to an order: what all such steps have in common.
Act(o) ==
    \E after \in OrderType, event \in Events, aggressor \in BOOLEAN :
        /\ \E clearings \in {<<>>, <<ClearingFrame(o, after, aggressor)>>} :
             Happens(o, after, <<OrderFrame(o, event, after, aggressor)>>, clearings)
        /\ Exists(o) => /\ after.ask = order[o].ask /\ after.type = order[o].type
                        /\ Open(o) /\ after.acts = order[o].acts + 1
        /\ after.traded = Size <=> after.state = "filled"
        /\ after.ask # <<>> => after.type = ToExchange(after.ask[1])
        /\ after.acts <= after.traded + 2
        /\ after.state \in {"submitted", "partial-filled"} =>
             after.traded < Size /\ after.acts <= after.traded + 1
        /\ after.type.kind = "limit_maker" => ~aggressor

LEMMA CreatedIsAct ==
    ASSUME NEW o \in Orders, NEW asked \in {<<>>} \cup {<<ask>> : ask \in AllAsks},
           NEW type \in Types, asked # <<>> => type = ToExchange(asked[1]),
           Created(o, asked, type)
    PROVE  Act(o)
<1> DEFINE after == [ask |-> asked, type |-> type, state |-> "submitted", traded |-> 0, acts |-> 1]
<1>1. Size \in Nat \ {0}
  BY OrderUpdatesAssumption
<1>2. after \in OrderType
  BY <1>1 DEF OrderType, States
<1>3. ~Exists(o) /\ Happens(o, after, <<OrderFrame(o, "creation", after, FALSE)>>, <<>>)
  BY DEF Created
<1>4. /\ after.ask = asked /\ after.type = type /\ after.acts <= after.traded + 2
      /\ after.traded < Size /\ after.acts <= after.traded + 1
      /\ after.traded # Size /\ after.state # "filled"
  BY <1>1
<1> HIDE DEF after
<1> QED
  BY <1>2, <1>3, <1>4 DEF Act, Events

LEMMA TradedIsAct ==
    ASSUME TypesOK, OrdersOK, NEW o \in Orders, Traded(o)
    PROVE  Act(o)
<1>1. Size \in Nat \ {0}
  BY OrderUpdatesAssumption
<1>2. order[o] \in OrderType /\ Open(o)
  BY DEF TypesOK, Traded, Open, Exists
<1>3. /\ order[o].traded \in 0..Size /\ order[o].acts \in Nat
      /\ order[o].traded < Size /\ order[o].acts <= order[o].traded + 1
      /\ order[o].ask # <<>> => order[o].type = ToExchange(order[o].ask[1])
  BY <1>1, <1>2 DEF OrdersOK, Open, OrderType
<1>4. PICK lots \in 1..(Size - order[o].traded), aggressor \in Roles(order[o].type.kind) :
        LET traded == order[o].traded + lots
            after == After(o, IF traded = Size THEN "filled" ELSE "partial-filled", traded)
        IN  Happens(o, after, <<OrderFrame(o, "trade", after, aggressor)>>,
                              <<ClearingFrame(o, after, aggressor)>>)
  BY DEF Traded
<1> DEFINE traded == order[o].traded + lots
           after == After(o, IF traded = Size THEN "filled" ELSE "partial-filled", traded)
<1>5. /\ after.ask = order[o].ask /\ after.type = order[o].type
      /\ after.traded = traded /\ after.acts = order[o].acts + 1
      /\ after.state = IF traded = Size THEN "filled" ELSE "partial-filled"
  BY DEF After
<1>6. after \in OrderType
  BY <1>1, <1>2, <1>3 DEF After, OrderType, States
<1>7. /\ after.acts <= after.traded + 2
      /\ after.state \in {"submitted", "partial-filled"} =>
           after.traded < Size /\ after.acts <= after.traded + 1
  <2>1. traded \in Nat /\ traded <= Size /\ order[o].traded + 1 <= traded
    BY <1>1, <1>3
  <2>2. order[o].acts + 1 <= traded + 1
    BY <1>3, <2>1
  <2>3. traded # Size => traded < Size
    BY <1>1, <2>1
  <2> HIDE DEF after, traded
  <2> QED
    BY <1>1, <1>3, <1>5, <2>1, <2>2, <2>3
<1>8. aggressor \in BOOLEAN /\ (after.type.kind = "limit_maker" => ~aggressor)
  BY <1>5, RoleTypes
<1>9. Happens(o, after, <<OrderFrame(o, "trade", after, aggressor)>>,
                        <<ClearingFrame(o, after, aggressor)>>)
  BY <1>4
<1> HIDE DEF after
<1> QED
  BY <1>2, <1>3, <1>5, <1>6, <1>7, <1>8, <1>9 DEF Act, Events

LEMMA CanceledIsAct ==
    ASSUME TypesOK, OrdersOK, NEW o \in Orders, Canceled(o)
    PROVE  Act(o)
<1>1. Size \in Nat \ {0} /\ PartialCancels \subseteq {"canceled", "partial-canceled"}
  BY OrderUpdatesAssumption
<1>2. order[o] \in OrderType /\ Open(o)
  BY DEF TypesOK, Canceled, Open, Exists
<1>3. /\ order[o].traded \in 0..Size /\ order[o].acts \in Nat
      /\ order[o].traded < Size /\ order[o].acts <= order[o].traded + 1
      /\ order[o].ask # <<>> => order[o].type = ToExchange(order[o].ask[1])
  BY <1>1, <1>2 DEF OrdersOK, Open, OrderType
<1>4. PICK state \in {"canceled", "partial-canceled"} :
        LET after == After(o, state, order[o].traded)
        IN  Happens(o, after, <<OrderFrame(o, "cancellation", after, FALSE)>>, <<>>)
  BY <1>1 DEF Canceled
<1> DEFINE after == After(o, state, order[o].traded)
<1>5. /\ after.ask = order[o].ask /\ after.type = order[o].type
      /\ after.traded = order[o].traded /\ after.acts = order[o].acts + 1
      /\ after.state = state
  BY DEF After
<1>6. after \in OrderType
  BY <1>1, <1>2, <1>3 DEF After, OrderType, States
<1>7. after.acts <= after.traded + 2 /\ after.state \notin {"submitted", "partial-filled"}
  BY <1>1, <1>3, <1>5
<1>8. Happens(o, after, <<OrderFrame(o, "cancellation", after, FALSE)>>, <<>>)
  BY <1>4
<1>9. after.traded # Size /\ after.state # "filled"
  BY <1>1, <1>3, <1>5
<1> HIDE DEF after
<1> QED
  BY <1>2, <1>3, <1>5, <1>6, <1>7, <1>8, <1>9 DEF Act, Events

LEMMA StepsAreActs ==
    ASSUME TypesOK, OrdersOK, NEW o \in Orders,
           Placed(o) \/ PlacedElsewhere(o) \/ Traded(o) \/ Canceled(o)
    PROVE  Act(o)
<1>1. CASE Placed(o)
  <2>1. PICK ask \in Asks : ToExchange(ask).kind # "undefined" /\ Created(o, <<ask>>, ToExchange(ask))
    BY <1>1 DEF Placed
  <2>2. ask \in AllAsks
    BY OrderUpdatesAssumption
  <2> QED
    BY <2>1, <2>2, AskTypes, CreatedIsAct
<1>2. CASE PlacedElsewhere(o)
  <2>1. PICK type \in Types : Created(o, <<>>, type)
    BY <1>2, OrderUpdatesAssumption DEF PlacedElsewhere
  <2> QED
    BY <2>1, CreatedIsAct
<1> QED
  BY <1>1, <1>2, TradedIsAct, CanceledIsAct

\* A sequence t of elements of S that is s with f or g or both put behind it.
Extended(S, s, t, f, g, withF) ==
    /\ t \in Seq(S)
    /\ \A i \in 1..Len(s) : i \in 1..Len(t) /\ t[i] = s[i]
    /\ \A i \in 1..Len(t) : i \in 1..Len(s) \/ t[i] = f \/ t[i] = g
    /\ withF => \E i \in 1..Len(t) : t[i] = f

\* At most one element put behind a sequence, and at most two.
LEMMA OneAppended ==
    ASSUME NEW S, NEW s \in Seq(S), NEW f \in S, NEW a \in {<<>>, <<f>>}
    PROVE  Extended(S, s, s \o a, f, f, a = <<f>>)
<1>1. CASE a = <<>>
  <2>1. s \o a = s /\ a # <<f>>
    BY <1>1, ConcatEmptySeq
  <2> QED
    BY <2>1 DEF Extended
<1>2. CASE a = <<f>>
  <2> DEFINE t == Append(s, f)
  <2>1. s \o a = t
    BY <1>2, AppendIsConcat
  <2>2. /\ t \in Seq(S) /\ Len(t) = Len(s) + 1 /\ Len(s) \in Nat
        /\ \A i \in 1..Len(s) : t[i] = s[i]
        /\ t[Len(s) + 1] = f
    BY AppendProperties, LenProperties
  <2> HIDE DEF t
  <2>3. /\ Len(s) + 1 \in 1..Len(t) /\ \A i \in 1..Len(s) : i \in 1..Len(t)
        /\ \A i \in 1..Len(t) : i \in 1..Len(s) \/ i = Len(s) + 1
    BY <2>2
  <2>4. Extended(S, s, t, f, f, a = <<f>>)
    BY <2>2, <2>3 DEF Extended
  <2> QED
    BY <2>1, <2>4
<1> QED
  BY <1>1, <1>2

LEMMA TwoAppended ==
    ASSUME NEW S, NEW s \in Seq(S), NEW f \in S, NEW g \in S,
           NEW a \in {<<>>, <<f>>}, NEW b \in {<<>>, <<g>>}
    PROVE  Extended(S, s, s \o a \o b, f, g, a = <<f>>)
<1> DEFINE m == s \o a
           t == m \o b
<1>1. Extended(S, s, m, f, f, a = <<f>>)
  BY OneAppended
<1>2. m \in Seq(S)
  BY <1>1 DEF Extended
<1> HIDE DEF m
<1>3. Extended(S, m, t, g, g, b = <<g>>)
  BY <1>2, OneAppended
<1> HIDE DEF t
<1>4. Extended(S, s, t, f, g, a = <<f>>)
  BY <1>1, <1>3 DEF Extended
<1> QED
  BY <1>4 DEF m, t

\* What an act puts on the websocket.
LEMMA ActSends ==
    ASSUME TypesOK, NEW o \in Orders, NEW after \in OrderType, NEW event \in Events,
           NEW aggressor \in BOOLEAN,
           NEW clearings \in {<<>>, <<ClearingFrame(o, after, aggressor)>>},
           Happens(o, after, <<OrderFrame(o, event, after, aggressor)>>, clearings)
    PROVE  LET f == OrderFrame(o, event, after, aggressor)
               g == ClearingFrame(o, after, aggressor)
           IN  /\ Extended(Frames, channel, channel', f, g, "orders" \in subs)
               /\ subs = {} => channel' = channel
<1> DEFINE f == OrderFrame(o, event, after, aggressor)
           g == ClearingFrame(o, after, aggressor)
<1>1. after.acts \in Nat /\ after.type \in Types /\ after.state \in States
  BY OrderUpdatesAssumption DEF OrderType
<1>2. f \in Frames /\ g \in Frames
  <2>1. f \in OrderFrames
    BY <1>1 DEF OrderFrame, OrderFrames, Events
  <2>2. g \in ClearingFrames
    BY <1>1 DEF ClearingFrame, ClearingFrames
  <2> QED
    BY <2>1, <2>2 DEF Frames
<1>3. channel \in Seq(Frames) /\ subs \subseteq Feeds
  BY DEF TypesOK
<1>4. channel' = channel \o Told("orders", <<f>>) \o Told("trade.clearing", clearings)
  BY DEF Happens
<1>5. /\ Told("orders", <<f>>) \in {<<>>, <<f>>}
      /\ Told("trade.clearing", clearings) \in {<<>>, <<g>>}
      /\ "orders" \in subs => Told("orders", <<f>>) = <<f>>
      /\ subs = {} => Told("orders", <<f>>) = <<>> /\ Told("trade.clearing", clearings) = <<>>
  BY DEF Told
<1> DEFINE a == Told("orders", <<f>>)
           b == Told("trade.clearing", clearings)
<1>6. a \in {<<>>, <<f>>} /\ b \in {<<>>, <<g>>} /\ channel' = channel \o a \o b
      /\ ("orders" \in subs => a = <<f>>) /\ (subs = {} => a = <<>> /\ b = <<>>)
  BY <1>4, <1>5
<1> HIDE DEF f, g, a, b
<1>7. Extended(Frames, channel, channel', f, g, a = <<f>>)
  BY <1>2, <1>3, <1>6, TwoAppended, Zenon
<1>8. Extended(Frames, channel, channel', f, g, "orders" \in subs)
  BY <1>6, <1>7 DEF Extended
<1>9. subs = {} => channel' = channel
  BY <1>3, <1>6, ConcatEmptySeq
<1> QED
  BY <1>8, <1>9 DEF f, g

\* Whatever happens to an order keeps the invariant.
LEMMA ActKeeps ==
    ASSUME IInv, NEW o \in Orders, Act(o)
    PROVE  IInv'
<1> USE DEF IInv
<1>1. PICK after \in OrderType, event \in Events, aggressor \in BOOLEAN :
        /\ \E clearings \in {<<>>, <<ClearingFrame(o, after, aggressor)>>} :
             Happens(o, after, <<OrderFrame(o, event, after, aggressor)>>, clearings)
        /\ Exists(o) => after.ask = order[o].ask /\ after.type = order[o].type
        /\ after.ask # <<>> => after.type = ToExchange(after.ask[1])
        /\ after.acts <= after.traded + 2
        /\ after.state \in {"submitted", "partial-filled"} =>
             after.traded < Size /\ after.acts <= after.traded + 1
        /\ after.type.kind = "limit_maker" => ~aggressor
  BY DEF Act
<1>2. PICK clearings \in {<<>>, <<ClearingFrame(o, after, aggressor)>>} :
        Happens(o, after, <<OrderFrame(o, event, after, aggressor)>>, clearings)
  BY <1>1
<1> DEFINE f == OrderFrame(o, event, after, aggressor)
           g == ClearingFrame(o, after, aggressor)
<1>3. Extended(Frames, channel, channel', f, g, "orders" \in subs) /\ (subs = {} => channel' = channel)
  BY <1>2, ActSends
<1>4. /\ order' = [order EXCEPT ![o] = after]
      /\ touched' = IF "orders" \in subs THEN touched \cup {o} ELSE touched
      /\ UNCHANGED <<requests, subs, query, status, download, wanted, responded, updates, fills>>
  BY <1>2 DEF Happens
<1>5. /\ f.ch = "orders" /\ f.order = o /\ f.type = after.type /\ f.aggressor = aggressor
      /\ f.at = after.acts
      /\ g.ch = "trade.clearing" /\ g.order = o /\ g.type = after.type /\ g.aggressor = aggressor
  BY DEF OrderFrame, ClearingFrame
<1>6. after # NoOrder
  BY NoOrderAssumption
<1>7. \A p \in Orders : order'[p] = IF p = o THEN after ELSE order[p]
  BY <1>4 DEF TypesOK
<1>8. \A p \in Orders : Exists(p) => Exists(p)' /\ order'[p].type = order[p].type
  BY <1>1, <1>6, <1>7 DEF Exists
<1> HIDE DEF f, g
<1>9. TypesOK'
  <2>1. order' \in [Orders -> OrderType \cup {NoOrder}]
    BY <1>4 DEF TypesOK
  <2>2. channel' \in Seq(Frames)
    BY <1>3 DEF Extended
  <2>3. touched' \subseteq Orders
    BY <1>4 DEF TypesOK
  <2> QED
    BY <1>4, <2>1, <2>2, <2>3 DEF TypesOK
<1>10. OrdersOK'
  <2> SUFFICES ASSUME NEW p \in Orders, Exists(p)'
               PROVE  /\ order'[p].ask # <<>> => order'[p].type = ToExchange(order'[p].ask[1])
                      /\ order'[p].acts <= order'[p].traded + 2
                      /\ Open(p)' => order'[p].traded < Size /\ order'[p].acts <= order'[p].traded + 1
    BY DEF OrdersOK
  <2>1. CASE p = o
    BY <1>1, <1>7, <2>1 DEF Open
  <2>2. CASE p # o
    BY <1>7, <2>2 DEF OrdersOK, Exists, Open
  <2> QED
    BY <2>1, <2>2
<1>11. SaidOK'
  <2>1. ASSUME NEW i \in 1..Len(channel'), channel'[i].ch \in Feeds
        PROVE  OfType(channel[i])' /\ NoTaker(channel[i])'
    <3>1. CASE i \in 1..Len(channel)
      <4>1. channel'[i] = channel[i] /\ channel[i].ch \in Feeds
        BY <1>3, <2>1, <3>1 DEF Extended
      <4>2. OfType(channel[i]) /\ NoTaker(channel[i])
        BY <3>1, <4>1 DEF SaidOK
      <4>3. channel[i].order \in Orders
        <5>1. channel[i] \in Frames
          BY <3>1, ElementOfSeq DEF TypesOK
        <5> QED
          BY <4>1, <5>1 DEF Frames, OrderFrames, ClearingFrames, SubFrames, AuthFrames, Feeds
      <4> QED
        BY <1>8, <4>1, <4>2, <4>3 DEF OfType, NoTaker
    <3>2. CASE channel'[i] = f \/ channel'[i] = g
      <4>1. order'[o] = after /\ Exists(o)'
        BY <1>6, <1>7 DEF Exists
      <4> QED
        BY <1>1, <1>5, <3>2, <4>1 DEF OfType, NoTaker
    <3> QED
      BY <1>3, <2>1, <3>1, <3>2 DEF Extended
  <2>2. ASSUME NEW i \in query.items
        PROVE  OfType(i)'
    <3>1. i.order \in Orders
      BY DEF TypesOK, Queries, Items
    <3> QED
      BY <1>8, <3>1 DEF SaidOK, OfType
  <2>3. ASSUME NEW u \in updates
        PROVE  Converted(u)'
    <3>1. u.order \in Orders
      BY DEF TypesOK, Updates
    <3> QED
      BY <1>8, <3>1 DEF SaidOK, Converted
  <2>4. ASSUME NEW x \in fills
        PROVE  Filled(x)'
    <3>1. x.order \in Orders
      BY DEF TypesOK, Fills
    <3> QED
      BY <1>8, <3>1 DEF SaidOK, Filled
  <2> QED
    BY <1>4, <2>1, <2>2, <2>3, <2>4 DEF SaidOK
<1>12. /\ \A i \in 1..Len(channel') : channel'[i].ch \in {"auth", "sub"} =>
            i \in 1..Len(channel) /\ channel'[i] = channel[i]
       /\ \A i \in 1..Len(channel) : i \in 1..Len(channel') /\ channel'[i] = channel[i]
  BY <1>3, <1>5 DEF Extended
<1>13. LoggedIn' <=> LoggedIn
  BY <1>4, <1>12 DEF LoggedIn
<1>14. SessionOK'
  BY <1>3, <1>4, <1>12, <1>13 DEF SessionOK, PastOrders
<1>15. KnownOK'
  <2>1. ASSUME NEW p \in Orders, p # o, Known(p)
        PROVE  Known(p)'
    BY <1>3, <1>4, <1>7, <2>1 DEF Known, Extended
  <2>2. "orders" \in subs => Known(o)'
    <3>1. order'[o] = after
      BY <1>7
    <3> QED
      BY <1>3, <1>5, <3>1 DEF Known, Extended
  <2>3. \A p \in Orders : p # o => (Open(p) <=> Open(p)')
    BY <1>7 DEF Open, Exists
  <2>4. "orders" \in subs' => \A p \in touched' : Exists(p)' /\ Known(p)'
    <3> SUFFICES ASSUME "orders" \in subs, NEW p \in touched'
                 PROVE  Exists(p)' /\ Known(p)'
      BY <1>4
    <3>1. CASE p = o
      BY <1>6, <1>7, <2>2, <3>1 DEF Exists
    <3>2. CASE p # o
      BY <1>4, <1>8, <2>1, <3>2 DEF KnownOK, TypesOK
    <3> QED
      BY <3>1, <3>2
  <2>5. ItemsOK'
    <3> SUFFICES ASSUME LoggedIn, download = "GET_OPEN_ORDERS", ~wanted, query.phase = "answered",
                        NEW p \in Orders, Open(p)'
                 PROVE  p \in touched' \/ InItems(p)'
      BY <1>4, <1>13 DEF ItemsOK
    <3>1. "orders" \in subs
      BY DEF SessionOK, PastOrders
    <3>2. CASE p = o
      BY <1>4, <3>1, <3>2
    <3>3. CASE p # o
      BY <1>4, <1>7, <2>3, <3>1, <3>3 DEF KnownOK, ItemsOK, InItems
    <3> QED
      BY <3>2, <3>3
  <2>6. "orders" \in subs /\ AllKnown => AllKnown'
    BY <2>1, <2>2, <2>3 DEF AllKnown
  <2>7. AnswerOK' /\ DoneOK'
    BY <1>4, <1>13, <2>6 DEF KnownOK, AnswerOK, DoneOK, HasResponse, SessionOK, PastOrders
  <2> QED
    BY <1>4, <2>4, <2>5, <2>7 DEF KnownOK
<1> QED
  BY <1>9, <1>10, <1>11, <1>14, <1>15

-------------------------------------------------------------------------------
(* DropCopy's steps                                                            *)

\* The first frame is taken from the websocket.
LEMMA FrameTaken ==
    ASSUME TypesOK, channel # <<>>, channel' = Tail(channel)
    PROVE  /\ channel' \in Seq(Frames)
           /\ 1 \in 1..Len(channel) /\ Head(channel) = channel[1] /\ channel[1] \in Frames
           /\ \A i \in 1..Len(channel') : i + 1 \in 1..Len(channel) /\ channel'[i] = channel[i + 1]
           /\ \A j \in 1..Len(channel) : j # 1 => j - 1 \in 1..Len(channel') /\ channel'[j - 1] = channel[j]
<1>1. channel \in Seq(Frames)
  BY DEF TypesOK
<1>2. /\ Len(channel) \in Nat /\ Len(channel) # 0
      /\ channel' \in Seq(Frames) /\ Len(channel') = Len(channel) - 1
      /\ \A i \in 1..Len(channel') : channel'[i] = channel[i + 1]
  BY <1>1, EmptySeq, HeadTailProperties, LenProperties
<1>3. 1 \in 1..Len(channel) /\ Head(channel) = channel[1] /\ channel[1] \in Frames
  BY <1>1, <1>2, HeadTailProperties, ElementOfSeq
<1>4. \A j \in 1..Len(channel) : j # 1 =>
        j - 1 \in 1..Len(channel') /\ (j - 1) + 1 = j
  BY <1>2
<1>5. \A i \in 1..Len(channel') : i + 1 \in 1..Len(channel)
  BY <1>2
<1> QED
  BY <1>2, <1>3, <1>4, <1>5

\* The exchange takes the first message.
LEMMA RequestTaken ==
    ASSUME TypesOK, requests # <<>>, requests' = Tail(requests)
    PROVE  /\ requests' \in Seq(Messages)
           /\ 1 \in 1..Len(requests) /\ Head(requests) = requests[1]
           /\ \A i \in 1..Len(requests') :
                i + 1 \in 1..Len(requests) /\ i + 1 # 1 /\ requests'[i] = requests[i + 1]
<1>1. requests \in Seq(Messages)
  BY DEF TypesOK
<1>2. /\ Len(requests) \in Nat /\ Len(requests) # 0
      /\ requests' \in Seq(Messages) /\ Len(requests') = Len(requests) - 1
      /\ \A i \in 1..Len(requests') : requests'[i] = requests[i + 1]
  BY <1>1, EmptySeq, HeadTailProperties, LenProperties
<1>3. 1 \in 1..Len(requests) /\ Head(requests) = requests[1]
  BY <1>1, <1>2, HeadTailProperties
<1>4. \A i \in 1..Len(requests') : i + 1 \in 1..Len(requests) /\ i + 1 # 1
  BY <1>2
<1> QED
  BY <1>2, <1>3, <1>4

\* What all of them leave as it is: what the frames that remain say, the replies
\* among them, and what is known, unless it was the frame taken that told it.  A
\* frame other than the login's comes only to a session that is logged in.
LEMMA FrameTakenKeeps ==
    ASSUME IInv, channel # <<>>, channel' = Tail(channel), order' = order, updates \subseteq updates',
           Head(channel).ch = "orders" =>
             \E u \in updates' : u.order = Head(channel).order /\ u.seen = Head(channel).at
    PROVE  /\ channel' \in Seq(Frames)
           /\ \A i \in 1..Len(channel') :
                channel'[i].ch \in Feeds => OfType(channel[i])' /\ NoTaker(channel[i])'
           /\ \A i \in 1..Len(channel') : channel'[i].ch # "auth"
           /\ \A i \in 1..Len(channel') : channel'[i].ch = "sub" => channel'[i].of \in subs
           /\ status # "DISCONNECTED" /\ \A i \in 1..Len(requests) : requests[i] # "auth"
           /\ Head(channel).ch # "auth" => LoggedIn
           /\ \A o \in Orders : (Open(o) <=> Open(o)') /\ (Exists(o) <=> Exists(o)') /\ (Known(o) => Known(o)')
<1> USE DEF IInv
<1>1. /\ channel' \in Seq(Frames)
      /\ 1 \in 1..Len(channel) /\ Head(channel) = channel[1] /\ channel[1] \in Frames
      /\ \A i \in 1..Len(channel') : i + 1 \in 1..Len(channel) /\ channel'[i] = channel[i + 1]
      /\ \A j \in 1..Len(channel) : j # 1 => j - 1 \in 1..Len(channel') /\ channel'[j - 1] = channel[j]
  BY FrameTaken
<1>2. ASSUME NEW i \in 1..Len(channel'), channel'[i].ch \in Feeds
      PROVE  OfType(channel[i])' /\ NoTaker(channel[i])'
  <2>1. i + 1 \in 1..Len(channel) /\ channel'[i] = channel[i + 1]
    BY <1>1
  <2>2. OfType(channel[i + 1]) /\ NoTaker(channel[i + 1])
    BY <1>2, <2>1 DEF SaidOK
  <2> QED
    BY <2>1, <2>2 DEF OfType, NoTaker, Exists
<1>3. ASSUME NEW i \in 1..Len(channel')
      PROVE  channel'[i].ch # "auth"
  <2>1. i + 1 # 1
    OBVIOUS
  <2> QED
    BY <1>1, <2>1 DEF SessionOK
<1>4. \A i \in 1..Len(channel') : channel'[i].ch = "sub" => channel'[i].of \in subs
  BY <1>1 DEF SessionOK
<1>5. status # "DISCONNECTED" /\ \A i \in 1..Len(requests) : requests[i] # "auth"
  BY DEF SessionOK
<1>6. Head(channel).ch # "auth" => LoggedIn
  BY <1>1, <1>5 DEF SessionOK, LoggedIn
<1>7. ASSUME NEW o \in Orders, Known(o)
      PROVE  Known(o)'
  <2>1. CASE \E u \in updates : u.order = o /\ u.seen = order[o].acts
    BY <2>1 DEF Known
  <2>2. CASE \E i \in 1..Len(channel) :
               channel[i].ch = "orders" /\ channel[i].order = o /\ channel[i].at = order[o].acts
    <3>1. PICK i \in 1..Len(channel) :
                 channel[i].ch = "orders" /\ channel[i].order = o /\ channel[i].at = order[o].acts
      BY <2>2
    <3>2. CASE i = 1
      BY <1>1, <3>1, <3>2 DEF Known
    <3>3. CASE i # 1
      BY <1>1, <3>1, <3>3 DEF Known
    <3> QED
      BY <3>2, <3>3
  <2> QED
    BY <1>7, <2>1, <2>2 DEF Known
<1> QED
  BY <1>1, <1>2, <1>3, <1>4, <1>5, <1>6, <1>7 DEF Open, Exists

\* What an update says once a source's type is that of the order.
LEMMA UpdateIsConverted ==
    ASSUME NEW o \in Orders, NEW from \in {"stream", "snapshot"}, NEW type \in Types,
           NEW state \in States, NEW time \in Nat, NEW liquidity \in {"UNDEFINED", "MAKER", "TAKER"},
           NEW seen \in Nat, Exists(o), type = order[o].type,
           type.kind = "limit_maker" => liquidity # "TAKER"
    PROVE  LET u == Update(o, from, type, state, time, liquidity, seen)
           IN  u \in Updates /\ Converted(u) /\ u.order = o /\ u.seen = seen
<1> DEFINE u == Update(o, from, type, state, time, liquidity, seen)
<1>1. /\ u.order = o /\ u.from = from /\ u.side = SideOf(type) /\ u.type = OrderTypeOf(type)
      /\ u.tif = TimeInForceOf(type) /\ u.maker = IsMaker(type) /\ u.status = StatusOf(state)
      /\ u.time = time /\ u.liquidity = liquidity /\ u.seen = seen
  BY DEF Update
<1>2. u \in Updates
  BY ConversionTypes, StatusTypes DEF Update, Updates
<1> HIDE DEF u
<1>3. Converted(u)
  BY <1>1 DEF Converted
<1> QED
  BY <1>1, <1>2, <1>3 DEF u

\* A frame of either channel leaves the session and what is known of it as it is.
LEMMA EventKeepsSession ==
    ASSUME IInv, channel # <<>>, channel' = Tail(channel), updates \subseteq updates',
           Head(channel).ch \in Feeds,
           Head(channel).ch = "orders" =>
             \E u \in updates' : u.order = Head(channel).order /\ u.seen = Head(channel).at,
           UNCHANGED <<order, requests, subs, query, status, download, wanted, responded, touched>>
    PROVE  SessionOK' /\ KnownOK'
<1> USE DEF IInv
<1>1. Head(channel).ch # "auth"
  BY DEF Feeds
<1>2. /\ \A i \in 1..Len(channel') : channel'[i].ch # "auth"
      /\ \A i \in 1..Len(channel') : channel'[i].ch = "sub" => channel'[i].of \in subs
      /\ status # "DISCONNECTED" /\ \A i \in 1..Len(requests) : requests[i] # "auth"
      /\ LoggedIn
      /\ \A o \in Orders : (Open(o) <=> Open(o)') /\ (Exists(o) <=> Exists(o)') /\ (Known(o) => Known(o)')
  BY <1>1, FrameTakenKeeps
<1>3. LoggedIn'
  BY <1>2 DEF LoggedIn
<1>4. SessionOK'
  BY <1>2, <1>3 DEF SessionOK, PastOrders
<1>5. AllKnown => AllKnown'
  BY <1>2 DEF AllKnown
<1>6. ItemsOK' /\ AnswerOK' /\ DoneOK'
  BY <1>2, <1>5 DEF KnownOK, ItemsOK, AnswerOK, DoneOK, HasResponse, InItems
<1>7. KnownOK'
  BY <1>2, <1>6 DEF KnownOK, TypesOK
<1> QED
  BY <1>4, <1>7

\* A frame of the channel "orders" is published as an update of its order.
LEMMA OrderEventKeeps ==
    ASSUME IInv, OrderEvent
    PROVE  IInv'
<1> USE DEF IInv
<1> DEFINE f == Head(channel)
           liquidity == IF f.event = "trade" THEN Liquidity(f.aggressor) ELSE "UNDEFINED"
           u == Update(f.order, "stream", f.type, f.state, UpdateTime(f), liquidity, f.at)
<1>1. /\ channel # <<>> /\ f.ch = "orders" /\ channel' = Tail(channel)
      /\ updates' = updates \cup {u}
      /\ UNCHANGED <<order, requests, subs, query, status, download, wanted, responded, fills, touched>>
  BY DEF OrderEvent, Receives, Consumes
<1>2. f \in OrderFrames /\ OfType(f) /\ NoTaker(f)
  <2>1. 1 \in 1..Len(channel) /\ f = channel[1] /\ channel[1] \in Frames
    BY <1>1, FrameTaken
  <2>2. OfType(channel[1]) /\ NoTaker(channel[1])
    BY <1>1, <2>1 DEF SaidOK, Feeds
  <2> QED
    BY <1>1, <2>1, <2>2 DEF Frames, OrderFrames, ClearingFrames, SubFrames, AuthFrames
<1>3. /\ f.order \in Orders /\ f.type \in Types /\ f.state \in States /\ f.aggressor \in BOOLEAN
      /\ f.at \in Nat /\ UpdateTime(f) \in Nat
  BY <1>2 DEF OrderFrames, UpdateTime
<1>4. /\ liquidity \in {"UNDEFINED", "MAKER", "TAKER"}
      /\ f.type.kind = "limit_maker" => liquidity # "TAKER"
  BY <1>2 DEF Liquidity, NoTaker
<1> HIDE DEF liquidity
<1>5. u \in Updates /\ Converted(u) /\ u.order = f.order /\ u.seen = f.at
  BY <1>2, <1>3, <1>4, UpdateIsConverted DEF OfType
<1> HIDE DEF f, u
<1>6. /\ channel' \in Seq(Frames)
      /\ \A i \in 1..Len(channel') :
           channel'[i].ch \in Feeds => OfType(channel[i])' /\ NoTaker(channel[i])'
  BY <1>1, <1>5, FrameTakenKeeps DEF f
<1>7. TypesOK'
  BY <1>1, <1>5, <1>6 DEF TypesOK
<1>8. OrdersOK'
  BY <1>1 DEF OrdersOK, Exists, Open
<1>9. SaidOK'
  <2>1. \A x \in query'.items : OfType(x)'
    BY <1>1 DEF SaidOK, OfType, Exists
  <2>2. \A x \in updates' : Converted(x)'
    BY <1>1, <1>5 DEF SaidOK, Converted, Exists
  <2>3. \A x \in fills' : Filled(x)'
    BY <1>1 DEF SaidOK, Filled, Exists
  <2> QED
    BY <1>6, <2>1, <2>2, <2>3 DEF SaidOK
<1>10. SessionOK' /\ KnownOK'
  BY <1>1, <1>5, EventKeepsSession DEF f, Feeds
<1> QED
  BY <1>7, <1>8, <1>9, <1>10

\* A frame of the channel "trade.clearing" is published as a fill of its order.
LEMMA ClearingKeeps ==
    ASSUME IInv, Clearing
    PROVE  IInv'
<1> USE DEF IInv
<1> DEFINE f == Head(channel)
           x == [order |-> f.order, side |-> f.type.side, trade |-> f.at,
                 liquidity |-> Liquidity(f.aggressor), ready |-> status = "READY"]
<1>1. /\ channel # <<>> /\ f.ch = "trade.clearing" /\ channel' = Tail(channel)
      /\ fills' = fills \cup {x}
      /\ UNCHANGED <<order, requests, subs, query, status, download, wanted, responded, updates, touched>>
  BY DEF Clearing, Receives, Consumes
<1>2. f \in ClearingFrames /\ OfType(f) /\ NoTaker(f)
  <2>1. 1 \in 1..Len(channel) /\ f = channel[1] /\ channel[1] \in Frames
    BY <1>1, FrameTaken
  <2>2. OfType(channel[1]) /\ NoTaker(channel[1])
    BY <1>1, <2>1 DEF SaidOK, Feeds
  <2> QED
    BY <1>1, <2>1, <2>2 DEF Frames, OrderFrames, ClearingFrames, SubFrames, AuthFrames
<1>3. x \in Fills /\ Filled(x)
  <2>1. /\ f.order \in Orders /\ f.type.side \in Sides /\ f.at \in Nat
        /\ Liquidity(f.aggressor) \in {"MAKER", "TAKER"}
    BY <1>2 DEF ClearingFrames, Types, Liquidity
  <2>2. order[f.order].type.kind = "limit_maker" => Liquidity(f.aggressor) = "MAKER"
    BY <1>2 DEF OfType, NoTaker, Liquidity
  <2>3. (status = "READY") \in BOOLEAN
    OBVIOUS
  <2> QED
    BY <1>2, <2>1, <2>2, <2>3 DEF Fills, Filled, OfType
<1> HIDE DEF f, x
<1>6. /\ channel' \in Seq(Frames)
      /\ \A i \in 1..Len(channel') :
           channel'[i].ch \in Feeds => OfType(channel[i])' /\ NoTaker(channel[i])'
  BY <1>1, FrameTakenKeeps DEF f
<1>7. TypesOK'
  BY <1>1, <1>3, <1>6 DEF TypesOK
<1>8. OrdersOK'
  BY <1>1 DEF OrdersOK, Exists, Open
<1>9. SaidOK'
  <2>1. \A i \in query'.items : OfType(i)'
    BY <1>1 DEF SaidOK, OfType, Exists
  <2>2. \A u \in updates' : Converted(u)'
    BY <1>1 DEF SaidOK, Converted, Exists
  <2>3. \A y \in fills' : Filled(y)'
    BY <1>1, <1>3 DEF SaidOK, Filled, Exists
  <2> QED
    BY <1>6, <2>1, <2>2, <2>3 DEF SaidOK
<1>10. SessionOK' /\ KnownOK'
  BY <1>1, EventKeepsSession DEF f, Feeds
<1> QED
  BY <1>7, <1>8, <1>9, <1>10

\* The replies to the login and to the subscriptions move the download on.
LEMMA RepliesKeep ==
    ASSUME IInv, AuthAccepted \/ SubOrders \/ SubTrades
    PROVE  IInv'
<1> USE DEF IInv
<1>1. /\ channel # <<>> /\ channel' = Tail(channel) /\ Head(channel).ch \in {"auth", "sub"}
      /\ UNCHANGED <<order, requests, subs, query, updates, fills, touched>>
  BY DEF AuthAccepted, SubOrders, SubTrades, Receives, Consumes
<1>2. /\ 1 \in 1..Len(channel) /\ Head(channel) = channel[1]
      /\ Head(channel).ch = "sub" => Head(channel).of \in subs
  <2>1. 1 \in 1..Len(channel) /\ Head(channel) = channel[1]
    BY <1>1, FrameTaken
  <2> QED
    BY <2>1 DEF SessionOK
<1>3. /\ channel' \in Seq(Frames)
      /\ \A i \in 1..Len(channel') :
           channel'[i].ch \in Feeds => OfType(channel[i])' /\ NoTaker(channel[i])'
      /\ \A i \in 1..Len(channel') : channel'[i].ch # "auth"
      /\ \A i \in 1..Len(channel') : channel'[i].ch = "sub" => channel'[i].of \in subs
      /\ status # "DISCONNECTED" /\ \A i \in 1..Len(requests) : requests[i] # "auth"
      /\ Head(channel).ch # "auth" => LoggedIn
      /\ \A o \in Orders : (Open(o) <=> Open(o)') /\ (Exists(o) <=> Exists(o)') /\ (Known(o) => Known(o)')
  BY <1>1, FrameTakenKeeps
<1>4. /\ status' \in Statuses /\ status' # "DISCONNECTED" /\ download' \in Stages
      /\ wanted' \in BOOLEAN /\ responded' \in {"none", "ok", "failed"}
  BY <1>3 DEF AuthAccepted, SubOrders, SubTrades, TypesOK, Statuses, Stages
<1>5. TypesOK'
  BY <1>1, <1>3, <1>4 DEF TypesOK
<1>6. OrdersOK'
  BY <1>1 DEF OrdersOK, Exists, Open
<1>7. SaidOK'
  <2>1. \A i \in query'.items : OfType(i)'
    BY <1>1 DEF SaidOK, OfType, Exists
  <2>2. \A u \in updates' : Converted(u)'
    BY <1>1 DEF SaidOK, Converted, Exists
  <2>3. \A y \in fills' : Filled(y)'
    BY <1>1 DEF SaidOK, Filled, Exists
  <2> QED
    BY <1>3, <2>1, <2>2, <2>3 DEF SaidOK
<1>8. LoggedIn'
  BY <1>1, <1>3, <1>4 DEF LoggedIn
<1>9. AllKnown => AllKnown'
  BY <1>3 DEF AllKnown
<1>10. ("orders" \notin subs' => touched' = {}) /\ \A o \in touched' : Exists(o)' /\ Known(o)'
  BY <1>1, <1>3 DEF KnownOK, TypesOK
<1>11. CASE AuthAccepted
  <2>1. download' = "GET_BALANCES" /\ status' = "DOWNLOADING"
    BY <1>11 DEF AuthAccepted
  <2>2. SessionOK'
    BY <1>1, <1>3, <2>1 DEF SessionOK, PastOrders
  <2>3. KnownOK'
    BY <1>10, <2>1 DEF KnownOK, ItemsOK, AnswerOK, DoneOK
  <2> QED
    BY <1>5, <1>6, <1>7, <2>2, <2>3
<1>12. CASE (SubOrders \/ SubTrades) /\ UNCHANGED <<status, download, wanted, responded>>
  <2>1. LoggedIn
    BY <1>3, <1>12 DEF SubOrders, SubTrades, Receives
  <2>2. SessionOK'
    BY <1>1, <1>3, <1>8, <1>12, <2>1 DEF SessionOK, PastOrders
  <2>3. KnownOK'
    BY <1>1, <1>9, <1>10, <1>12, <2>1
       DEF KnownOK, ItemsOK, AnswerOK, DoneOK, HasResponse, InItems, AllKnown, Open, Exists
  <2> QED
    BY <1>5, <1>6, <1>7, <2>2, <2>3
<1>13. CASE SubOrders /\ download = "SUBSCRIBE_ORDERS"
  <2>1. /\ Head(channel).ch = "sub" /\ Head(channel).of = "orders"
        /\ download' = "GET_OPEN_ORDERS" /\ status' = "DOWNLOADING" /\ wanted' = TRUE
    BY <1>13 DEF SubOrders, Receives
  <2>2. SessionOK'
    BY <1>1, <1>2, <1>3, <2>1 DEF SessionOK
  <2>3. KnownOK'
    BY <1>10, <2>1 DEF KnownOK, ItemsOK, AnswerOK, DoneOK, HasResponse
  <2> QED
    BY <1>5, <1>6, <1>7, <2>2, <2>3
<1>14. CASE SubTrades /\ download = "SUBSCRIBE_TRADES"
  <2>1. /\ Head(channel).ch = "sub" /\ download' = "DONE" /\ status' = "READY"
        /\ UNCHANGED <<wanted, responded>>
    BY <1>14 DEF SubTrades, Receives
  <2>2. LoggedIn
    BY <1>3, <2>1
  <2>3. SessionOK'
    BY <1>1, <1>3, <1>8, <1>14, <2>1, <2>2 DEF SessionOK, PastOrders
  <2>4. DoneOK'
    BY <1>1, <1>9, <1>14, <2>1, <2>2 DEF KnownOK, DoneOK
  <2>5. KnownOK'
    BY <1>10, <2>1, <2>4 DEF KnownOK, ItemsOK, AnswerOK
  <2> QED
    BY <1>5, <1>6, <1>7, <2>3, <2>5
<1> QED
  BY <1>11, <1>12, <1>13, <1>14 DEF SubOrders, SubTrades

\* Steps that publish nothing and touch no order say nothing new.
LEMMA QuietKeeps ==
    ASSUME OrdersOK, SaidOK, UNCHANGED <<order, updates>>,
           channel' \in {channel, <<>>}, fills' \in {fills, {}}, query'.items = query.items
    PROVE  OrdersOK' /\ SaidOK'
<1>1. OrdersOK'
  BY DEF OrdersOK, Exists, Open
<1>2. SaidOK'
  BY DEF SaidOK, OfType, NoTaker, Converted, Filled, Exists
<1> QED
  BY <1>1, <1>2

\* A session begins or is lost; what is left of it is the download.
LEMMA LinkKeeps ==
    ASSUME IInv, WsReady \/ Disconnected
    PROVE  IInv'
<1> USE DEF IInv
<1>1. CASE WsReady
  <2>1. /\ status = "DISCONNECTED" /\ status' = "LOGIN_SENT" /\ requests' = <<"auth">>
        /\ UNCHANGED <<order, subs, channel, query, download, wanted, responded, updates, fills, touched>>
    BY <1>1 DEF WsReady
  <2>2. subs = {} /\ channel = <<>> /\ touched = {}
    BY <2>1 DEF SessionOK, KnownOK
  <2>3. /\ requests' \in Seq(Messages) /\ Len(requests') = 1 /\ requests'[1] = "auth"
    BY <2>1 DEF Messages
  <2>4. TypesOK'
    BY <2>1, <2>3 DEF TypesOK, Statuses
  <2>5. OrdersOK' /\ SaidOK'
    BY <2>1, QuietKeeps
  <2>6. ~LoggedIn'
    BY <2>3 DEF LoggedIn
  <2>7. SessionOK'
    BY <2>1, <2>2, <2>3, <2>6 DEF SessionOK
  <2>8. KnownOK'
    BY <2>1, <2>2, <2>6 DEF KnownOK, ItemsOK, AnswerOK, DoneOK
  <2> QED
    BY <2>4, <2>5, <2>7, <2>8
<1>2. CASE Disconnected
  <2>1. /\ status' = "DISCONNECTED" /\ requests' = <<>> /\ subs' = {} /\ channel' = <<>>
        /\ fills' = {} /\ touched' = {}
        /\ UNCHANGED <<order, query, download, wanted, responded, updates>>
    BY <1>2 DEF Disconnected
  <2>2. TypesOK'
    <3>1. channel' \in Seq(Frames) /\ requests' \in Seq(Messages)
      BY <2>1
    <3>2. status' \in Statuses /\ subs' \subseteq Feeds
      BY <2>1 DEF Statuses
    <3> QED
      BY <2>1, <3>1, <3>2 DEF TypesOK
  <2>3. OrdersOK' /\ SaidOK'
    BY <2>1, QuietKeeps
  <2>4. ~LoggedIn'
    BY <2>1 DEF LoggedIn
  <2>5. Len(channel') = 0 /\ Len(requests') = 0
    BY <2>1
  <2>6. SessionOK'
    BY <2>1, <2>4, <2>5 DEF SessionOK
  <2>7. KnownOK'
    BY <2>1, <2>4 DEF KnownOK, ItemsOK, AnswerOK, DoneOK
  <2> QED
    BY <2>2, <2>3, <2>6, <2>7
<1> QED
  BY <1>1, <1>2

\* The timer moves the download on, the one of this session or one that was kept.
LEMMA TimerKeeps ==
    ASSUME IInv, Subscribe \/ DownloadTimer
    PROVE  IInv'
<1> USE DEF IInv
<1>1. PICK ch \in Feeds : requests' = Append(requests, ch)
  BY DEF Subscribe, DownloadTimer, Subscribes, Feeds
<1>2. /\ status # "DISCONNECTED" /\ status' = "DOWNLOADING"
      /\ \/ download' = "SUBSCRIBE_ORDERS"
         \/ download = "GET_OPEN_ORDERS" /\ HasResponse /\ download' = "SUBSCRIBE_TRADES"
      /\ UNCHANGED <<order, subs, channel, query, wanted, responded, updates, fills, touched>>
  BY DEF Subscribe, DownloadTimer, Subscribes
<1>3. /\ requests' \in Seq(Messages) /\ Len(requests) \in Nat /\ Len(requests') = Len(requests) + 1
      /\ \A i \in 1..Len(requests) : requests'[i] = requests[i]
      /\ requests'[Len(requests) + 1] = ch
  BY <1>1, AppendProperties, LenProperties DEF TypesOK, Feeds, Messages
<1>4. /\ \A i \in 1..Len(requests') : i \in 1..Len(requests) \/ i = Len(requests) + 1
      /\ \A i \in 1..Len(requests) : i \in 1..Len(requests')
      /\ ch # "auth"
  BY <1>3 DEF Feeds
<1>5. TypesOK'
  BY <1>2, <1>3 DEF TypesOK, Statuses, Stages
<1>6. OrdersOK' /\ SaidOK'
  BY <1>2, QuietKeeps
<1>7. \A i \in 1..Len(requests') : requests'[i] = "auth" =>
        i \in 1..Len(requests) /\ requests[i] = "auth"
  BY <1>3, <1>4
<1>8. LoggedIn' <=> LoggedIn
  BY <1>2, <1>3, <1>4, <1>7 DEF LoggedIn
<1>9. SessionOK'
  BY <1>2, <1>7, <1>8 DEF SessionOK, PastOrders
<1>10. \A o \in Orders : (Known(o) <=> Known(o)') /\ (Open(o) <=> Open(o)') /\ (Exists(o) <=> Exists(o)')
  BY <1>2 DEF Known, Open, Exists
<1>11. AllKnown => AllKnown'
  BY <1>10 DEF AllKnown
<1>12. ItemsOK' /\ AnswerOK'
  BY <1>2 DEF ItemsOK, AnswerOK
<1>13. DoneOK'
  BY <1>2, <1>8, <1>11 DEF KnownOK, AnswerOK, DoneOK, HasResponse
<1>14. KnownOK'
  BY <1>2, <1>10, <1>12, <1>13 DEF KnownOK, TypesOK
<1> QED
  BY <1>5, <1>6, <1>9, <1>14

\* The exchange accepts the login, before it has served anything.
LEMMA LoginKeeps ==
    ASSUME IInv, Login
    PROVE  IInv'
<1> USE DEF IInv
<1> DEFINE reply == [ch |-> "auth"]
<1>1. /\ requests # <<>> /\ Head(requests) = "auth" /\ requests' = Tail(requests)
      /\ channel' = Append(channel, reply)
      /\ UNCHANGED <<order, subs, query, status, download, wanted, responded, updates, fills, touched>>
  BY DEF Login, gateway
<1>2. reply \in Frames /\ reply.ch = "auth"
  BY DEF Frames, AuthFrames
<1> HIDE DEF reply
<1>3. /\ requests' \in Seq(Messages)
      /\ 1 \in 1..Len(requests) /\ requests[1] = "auth"
      /\ \A i \in 1..Len(requests') :
           i + 1 \in 1..Len(requests) /\ i + 1 # 1 /\ requests'[i] = requests[i + 1]
  BY <1>1, RequestTaken
<1>4. channel = <<>> /\ subs = {} /\ status # "DISCONNECTED" /\ ~LoggedIn
  BY <1>1, <1>3 DEF SessionOK, LoggedIn
<1>5. channel' \in Seq(Frames) /\ Len(channel') = 1 /\ channel'[1] = reply
  BY <1>1, <1>2, <1>4
<1>6. \A i \in 1..Len(requests') : requests'[i] # "auth"
  BY <1>3 DEF SessionOK
<1>7. ~LoggedIn'
  BY <1>2, <1>5 DEF LoggedIn
<1>8. TypesOK'
  BY <1>1, <1>3, <1>5 DEF TypesOK
<1>9. OrdersOK'
  BY <1>1 DEF OrdersOK, Exists, Open
<1>10. SaidOK'
  <2>1. \A i \in 1..Len(channel') : channel'[i].ch \notin Feeds
    BY <1>2, <1>5 DEF Feeds
  <2>2. \A i \in query'.items : OfType(i)'
    BY <1>1 DEF SaidOK, OfType, Exists
  <2>3. \A u \in updates' : Converted(u)'
    BY <1>1 DEF SaidOK, Converted, Exists
  <2>4. \A y \in fills' : Filled(y)'
    BY <1>1 DEF SaidOK, Filled, Exists
  <2> QED
    BY <2>1, <2>2, <2>3, <2>4 DEF SaidOK
<1>11. SessionOK'
  BY <1>1, <1>2, <1>4, <1>5, <1>6, <1>7 DEF SessionOK
<1>12. KnownOK'
  BY <1>1, <1>4, <1>7 DEF KnownOK, ItemsOK, AnswerOK, DoneOK
<1> QED
  BY <1>8, <1>9, <1>10, <1>11, <1>12

\* The exchange serves a channel and replies to its subscription.
LEMMA ServedKeeps ==
    ASSUME IInv, NEW ch \in Feeds, Served(ch)
    PROVE  IInv'
<1> USE DEF IInv
<1> DEFINE reply == [ch |-> "sub", of |-> ch]
<1>1. /\ requests # <<>> /\ Head(requests) = ch /\ requests' = Tail(requests)
      /\ subs' = subs \cup {ch} /\ channel' = Append(channel, reply)
      /\ UNCHANGED <<order, query, status, download, wanted, responded, updates, fills, touched>>
  BY DEF Served, gateway
<1>2. reply \in Frames /\ reply.ch = "sub" /\ reply.of = ch
  BY DEF Frames, SubFrames
<1> HIDE DEF reply
<1>3. /\ channel' \in Seq(Frames) /\ Len(channel) \in Nat /\ Len(channel') = Len(channel) + 1
      /\ \A i \in 1..Len(channel) : channel'[i] = channel[i]
      /\ channel'[Len(channel) + 1] = reply
  BY <1>1, <1>2, AppendProperties, LenProperties DEF TypesOK
<1>4. /\ \A i \in 1..Len(channel') : i \in 1..Len(channel) \/ i = Len(channel) + 1
      /\ \A i \in 1..Len(channel) : i \in 1..Len(channel')
  BY <1>3
<1>5. /\ requests' \in Seq(Messages)
      /\ 1 \in 1..Len(requests) /\ requests[1] = ch /\ ch # "auth"
      /\ \A i \in 1..Len(requests') :
           i + 1 \in 1..Len(requests) /\ i + 1 # 1 /\ requests'[i] = requests[i + 1]
  BY <1>1, RequestTaken DEF Feeds
<1>6. /\ \A i \in 1..Len(requests) : requests[i] # "auth"
      /\ \A i \in 1..Len(requests') : requests'[i] # "auth"
  BY <1>5 DEF SessionOK
<1>7. status # "DISCONNECTED"
  BY <1>1 DEF SessionOK
<1>8. LoggedIn' <=> LoggedIn
  BY <1>1, <1>2, <1>3, <1>4, <1>6 DEF LoggedIn
<1>9. TypesOK'
  BY <1>1, <1>3, <1>5 DEF TypesOK
<1>10. OrdersOK'
  BY <1>1 DEF OrdersOK, Exists, Open
<1>11. SaidOK'
  <2>1. ASSUME NEW i \in 1..Len(channel'), channel'[i].ch \in Feeds
        PROVE  OfType(channel[i])' /\ NoTaker(channel[i])'
    <3>1. i \in 1..Len(channel) /\ channel'[i] = channel[i]
      BY <1>2, <1>3, <1>4, <2>1 DEF Feeds
    <3> QED
      BY <1>1, <2>1, <3>1 DEF SaidOK, OfType, NoTaker, Exists
  <2>2. \A i \in query'.items : OfType(i)'
    BY <1>1 DEF SaidOK, OfType, Exists
  <2>3. \A u \in updates' : Converted(u)'
    BY <1>1 DEF SaidOK, Converted, Exists
  <2>4. \A y \in fills' : Filled(y)'
    BY <1>1 DEF SaidOK, Filled, Exists
  <2> QED
    BY <2>1, <2>2, <2>3, <2>4 DEF SaidOK
<1>12. SessionOK'
  <2>1. /\ \A i \in 1..Len(channel') : channel'[i].ch = "auth" => i = 1
        /\ \A i \in 1..Len(channel') : channel'[i].ch = "sub" => channel'[i].of \in subs'
    BY <1>1, <1>2, <1>3, <1>4 DEF SessionOK
  <2> QED
    BY <1>1, <1>6, <1>7, <1>8, <2>1 DEF SessionOK, PastOrders
<1>13. KnownOK'
  <2>1. \A o \in Orders : (Known(o) => Known(o)') /\ (Open(o) <=> Open(o)') /\ (Exists(o) <=> Exists(o)')
    BY <1>1, <1>3, <1>4 DEF Known, Open, Exists
  <2>2. AllKnown => AllKnown'
    BY <2>1 DEF AllKnown
  <2>3. ItemsOK' /\ AnswerOK' /\ DoneOK'
    BY <1>1, <1>8, <2>1, <2>2 DEF KnownOK, ItemsOK, AnswerOK, DoneOK, HasResponse, InItems
  <2> QED
    BY <1>1, <2>1, <2>3 DEF KnownOK, TypesOK
<1> QED
  BY <1>9, <1>10, <1>11, <1>12, <1>13

-------------------------------------------------------------------------------
(* The query                                                                   *)

\* The query is sent, run by the exchange, or fails.
LEMMA QueryKeeps ==
    ASSUME IInv, SendQuery \/ QueryRun \/ QueryFails
    PROVE  IInv'
<1> USE DEF IInv
<1>0. TypesOK /\ Queries = [phase : Phases, items : SUBSET Items]
  BY DEF Queries
<1>1. ASSUME UNCHANGED <<order, requests, subs, channel, status, download, responded, updates, fills,
                         touched>>,
             wanted' \in BOOLEAN, query' \in Queries,
             \A i \in query'.items : OfType(i),
             query'.phase # "none", wanted \/ query.phase # "none",
             ~wanted' /\ query'.phase = "answered" => \A o \in Orders : Open(o) => InItems(o)'
      PROVE  IInv'
  <2>1. TypesOK'
    BY <1>1 DEF TypesOK
  <2>2. OrdersOK'
    BY <1>1 DEF OrdersOK, Exists, Open
  <2>3. SaidOK'
    BY <1>1 DEF SaidOK, OfType, NoTaker, Converted, Filled, Exists
  <2>4. LoggedIn' <=> LoggedIn
    BY <1>1 DEF LoggedIn
  <2>5. SessionOK'
    BY <1>1, <2>4 DEF SessionOK, PastOrders
  <2>6. \A o \in Orders : (Known(o) <=> Known(o)') /\ (Open(o) <=> Open(o)') /\ (Exists(o) <=> Exists(o)')
    BY <1>1 DEF Known, Open, Exists
  <2>7. ItemsOK' /\ AnswerOK'
    BY <1>1, <2>6 DEF ItemsOK, AnswerOK, HasResponse
  <2>8. DoneOK'
    BY <1>1, <2>4 DEF KnownOK, DoneOK
  <2>9. KnownOK'
    BY <1>1, <2>6, <2>7, <2>8 DEF KnownOK, TypesOK
  <2> QED
    BY <2>1, <2>2, <2>3, <2>5, <2>9
<1>2. CASE SendQuery
  <2>1. /\ wanted /\ wanted' = FALSE
        /\ query' = [phase |-> "asked", items |-> {}]
        /\ UNCHANGED <<order, requests, subs, channel, status, download, responded, updates, fills,
                       touched>>
    BY <1>2 DEF SendQuery
  <2>2. query'.phase = "asked" /\ query'.items = {}
    BY <2>1
  <2>3. query' \in Queries
    BY <2>1 DEF Queries, Phases
  <2> QED
    BY <1>1, <2>1, <2>2, <2>3
<1>3. CASE QueryRun
  <2> DEFINE item(o) == [order |-> o, type |-> order[o].type, state |-> order[o].state,
                         created |-> 1, at |-> order[o].acts]
  <2>1. /\ query.phase = "asked"
        /\ query' = [query EXCEPT !.phase = "answered",
                       !.items = {item(o) : o \in {p \in Orders : Open(p)}}]
        /\ UNCHANGED <<order, requests, subs, channel, status, download, wanted, responded, updates,
                       fills, touched>>
    BY <1>3 DEF QueryRun, gateway
  <2>2. /\ query'.phase = "answered"
        /\ query'.items = {item(o) : o \in {p \in Orders : Open(p)}}
    BY <2>1, <1>0 DEF TypesOK, Queries
  <2>3. ASSUME NEW o \in Orders, Open(o)
        PROVE  item(o) \in Items /\ OfType(item(o)) /\ item(o).order = o /\ item(o).at = order[o].acts
    <3>1. order[o] \in OrderType
      BY <2>3 DEF TypesOK, Open, Exists
    <3>2. order[o].type \in Types /\ order[o].state \in States /\ order[o].acts \in Nat
      BY <3>1, OrderUpdatesAssumption DEF OrderType
    <3> QED
      BY <2>3, <3>2 DEF Items, OfType, Open
  <2>4. query' \in Queries
    <3>1. query'.items \subseteq Items
      BY <2>2, <2>3
    <3>2. "answered" \in Phases
      BY DEF Phases
    <3>3. query' = [phase |-> "answered", items |-> query'.items]
      BY <2>1, <2>2 DEF TypesOK, Queries
    <3> QED
      BY <3>1, <3>2, <3>3 DEF TypesOK, Queries
  <2>5. \A i \in query'.items : OfType(i)
    BY <2>2, <2>3
  <2>6. \A o \in Orders : Open(o) => InItems(o)'
    BY <2>1, <2>2, <2>3 DEF InItems
  <2> QED
    BY <1>1, <2>1, <2>2, <2>4, <2>5, <2>6 DEF TypesOK
<1>4. CASE QueryFails
  <2>1. /\ query.phase = "asked" /\ query' = [query EXCEPT !.phase = "failed"]
        /\ UNCHANGED <<order, requests, subs, channel, status, download, wanted, responded, updates,
                       fills, touched>>
    BY <1>4 DEF QueryFails, gateway
  <2>2. /\ query'.phase = "failed" /\ query'.items = query.items /\ query' \in Queries
    BY <2>1 DEF TypesOK, Queries, Phases
  <2> QED
    BY <1>1, <2>1, <2>2 DEF TypesOK, SaidOK
<1> QED
  BY <1>2, <1>3, <1>4

\* The callback of the query publishes its items.
LEMMA AckKeeps ==
    ASSUME IInv, OpenOrdersAck
    PROVE  IInv'
<1> USE DEF IInv
<1> DEFINE u(i) == Update(i.order, "snapshot", i.type, i.state, i.created, "UNDEFINED", i.at)
<1>1. /\ query.phase \in {"answered", "failed"}
      /\ updates' = updates \cup {u(i) : i \in query.items}
      /\ responded' = IF query.phase = "answered" THEN "ok" ELSE "failed"
      /\ query' = [phase |-> "none", items |-> {}]
      /\ UNCHANGED <<order, requests, subs, channel, status, download, wanted, fills, touched>>
  BY DEF OpenOrdersAck
<1>2. ASSUME NEW i \in query.items
      PROVE  u(i) \in Updates /\ Converted(u(i)) /\ u(i).order = i.order /\ u(i).seen = i.at
  <2>1. /\ i.order \in Orders /\ i.type \in Types /\ i.state \in States /\ i.created \in Nat
        /\ i.at \in Nat
    BY DEF TypesOK, Queries, Items
  <2>2. Exists(i.order) /\ i.type = order[i.order].type
    BY DEF SaidOK, OfType
  <2> QED
    BY <2>1, <2>2, UpdateIsConverted
<1> HIDE DEF u
<1>3. query' \in Queries /\ query'.phase = "none" /\ query'.items = {}
  BY <1>1 DEF Queries, Phases
<1>4. TypesOK'
  BY <1>1, <1>2, <1>3 DEF TypesOK
<1>5. OrdersOK'
  BY <1>1 DEF OrdersOK, Exists, Open
<1>6. SaidOK'
  BY <1>1, <1>2, <1>3 DEF SaidOK, OfType, NoTaker, Converted, Filled, Exists
<1>7. LoggedIn' <=> LoggedIn
  BY <1>1 DEF LoggedIn
<1>8. SessionOK'
  BY <1>1, <1>7 DEF SessionOK, PastOrders
<1>9. \A o \in Orders : (Known(o) => Known(o)') /\ (Open(o) <=> Open(o)') /\ (Exists(o) <=> Exists(o)')
  BY <1>1 DEF Known, Open, Exists
<1>10. ASSUME LoggedIn, download = "GET_OPEN_ORDERS", ~wanted, query.phase = "answered"
       PROVE  AllKnown'
  <2> SUFFICES ASSUME NEW o \in Orders, Open(o)
               PROVE  Known(o)'
    BY <1>9 DEF AllKnown
  <2>1. CASE o \in touched
    BY <1>9, <2>1 DEF KnownOK
  <2>2. CASE InItems(o)
    BY <1>1, <1>2, <2>2 DEF InItems, Known
  <2> QED
    BY <1>10, <2>1, <2>2 DEF KnownOK, ItemsOK
<1>11. AnswerOK'
  BY <1>1, <1>7, <1>10 DEF AnswerOK, HasResponse
<1>12. ItemsOK'
  BY <1>3 DEF ItemsOK
<1>13. DoneOK'
  BY <1>1, <1>7 DEF KnownOK, DoneOK
<1>14. KnownOK'
  BY <1>1, <1>9, <1>11, <1>12, <1>13 DEF KnownOK, TypesOK
<1> QED
  BY <1>4, <1>5, <1>6, <1>8, <1>14

-------------------------------------------------------------------------------
(* What updates tell                                                           *)

LEMMA StatusCases ==
    /\ StatusOf("submitted") = "WORKING" /\ StatusOf("partial-filled") = "WORKING"
    /\ StatusOf("filled") = "COMPLETED" /\ StatusOf("canceled") = "CANCELED"
    /\ StatusOf("partial-canceled") = "UNDEFINED"
BY Zenon DEF StatusOf

\* What was said of an order is still true after the next thing happened to it.
LEMMA ActTells ==
    ASSUME IInv, TellInv, NEW o \in Orders, Act(o)
    PROVE  TellInv'
<1> USE DEF IInv, TellInv
<1>1. PICK after \in OrderType, event \in Events, aggressor \in BOOLEAN :
        /\ \E clearings \in {<<>>, <<ClearingFrame(o, after, aggressor)>>} :
             Happens(o, after, <<OrderFrame(o, event, after, aggressor)>>, clearings)
        /\ Exists(o) => Open(o) /\ after.acts = order[o].acts + 1
        /\ after.traded = Size <=> after.state = "filled"
  BY DEF Act
<1>2. PICK clearings \in {<<>>, <<ClearingFrame(o, after, aggressor)>>} :
        Happens(o, after, <<OrderFrame(o, event, after, aggressor)>>, clearings)
  BY <1>1
<1> DEFINE f == OrderFrame(o, event, after, aggressor)
           g == ClearingFrame(o, after, aggressor)
<1>3. Extended(Frames, channel, channel', f, g, "orders" \in subs) /\ (subs = {} => channel' = channel)
  BY <1>2, ActSends
<1>4. /\ order' = [order EXCEPT ![o] = after]
      /\ UNCHANGED <<requests, subs, query, status, download, updates, fills>>
  BY <1>2 DEF Happens
<1>5. after.acts \in Nat \ {0} /\ after.state \in States
  BY OrderUpdatesAssumption DEF OrderType
<1>6. /\ f.ch = "orders" /\ f.order = o /\ f.at = after.acts /\ f.state = after.state
      /\ UpdateTime(f) = after.acts
      /\ g.ch = "trade.clearing" /\ g.order = o /\ g.at = after.acts
  BY <1>5 DEF OrderFrame, ClearingFrame, UpdateTime, Events
<1> HIDE DEF f, g
<1>7. /\ \A p \in Orders : order'[p] = IF p = o THEN after ELSE order[p]
      /\ \A p \in Orders : Exists(p) => order[p].acts \in Nat
  <2>1. \A p \in Orders : Exists(p) => order[p] \in OrderType
    BY DEF TypesOK, Exists
  <2> QED
    BY <1>4, <2>1, OrderUpdatesAssumption DEF TypesOK, OrderType
<1>8. /\ \A x : x.order \in Orders /\ Exists(x.order) /\ x.at \in Nat /\ Speaks(x) =>
           /\ x.at <= order'[x.order].acts
           /\ x.at = order'[x.order].acts => x.state = order'[x.order].state
           /\ x.at < order'[x.order].acts => x.state \in {"submitted", "partial-filled"}
  <2> SUFFICES ASSUME NEW x, x.order \in Orders, Exists(x.order), x.at \in Nat, Speaks(x)
               PROVE  /\ x.at <= order'[x.order].acts
                      /\ x.at = order'[x.order].acts => x.state = order'[x.order].state
                      /\ x.at < order'[x.order].acts => x.state \in {"submitted", "partial-filled"}
    OBVIOUS
  <2>1. CASE x.order = o
    <3>1. order[o].acts \in Nat /\ after.acts = order[o].acts + 1 /\ order'[o] = after
          /\ order[o].state \in {"submitted", "partial-filled"}
      BY <1>1, <1>7, <2>1 DEF Open
    <3>2. x.at <= order[o].acts /\ x.state \in {"submitted", "partial-filled"}
      BY <2>1, <3>1 DEF Speaks
    <3> QED
      BY <2>1, <3>1, <3>2
  <2>2. CASE x.order # o
    BY <1>7, <2>2 DEF Speaks
  <2> QED
    BY <2>1, <2>2
<1>9. ASSUME NEW p \in Orders, Exists(p)'
      PROVE  order'[p].traded = Size <=> order'[p].state = "filled"
  BY <1>1, <1>7, <1>9 DEF StoryOK, Exists
<1>10. ASSUME NEW i \in 1..Len(channel'), channel'[i].ch = "orders"
       PROVE  Speaks(channel[i])' /\ UpdateTime(channel'[i]) = channel'[i].at
  <2>1. CASE i \in 1..Len(channel)
    <3>1. channel'[i] = channel[i] /\ channel[i] \in Frames /\ channel[i].ch = "orders"
      BY <1>3, <1>10, <2>1, ElementOfSeq DEF Extended, TypesOK
    <3>2. channel[i].order \in Orders /\ channel[i].at \in Nat
      BY <3>1 DEF Frames, OrderFrames, ClearingFrames, SubFrames, AuthFrames
    <3>3. Exists(channel[i].order) /\ Speaks(channel[i]) /\ UpdateTime(channel[i]) = channel[i].at
      BY <2>1, <3>1 DEF SaidOK, OfType, StoryOK, Feeds
    <3> QED
      BY <1>8, <3>1, <3>2, <3>3 DEF Speaks
  <2>2. CASE channel'[i] = f
    <3>1. order'[o] = after
      BY <1>7
    <3> QED
      BY <1>5, <1>6, <2>2, <3>1 DEF Speaks
  <2> QED
    BY <1>3, <1>6, <1>10, <2>1, <2>2 DEF Extended
<1>11. ASSUME NEW x \in query.items
       PROVE  Speaks(x)'
  <2>1. x.order \in Orders /\ x.at \in Nat /\ Exists(x.order) /\ Speaks(x)
    BY DEF TypesOK, Queries, Items, SaidOK, OfType, StoryOK
  <2> QED
    BY <1>8, <2>1 DEF Speaks
<1>12. ASSUME NEW u \in updates
       PROVE  Tells(u)'
  <2>1. u.order \in Orders /\ u.seen \in Nat /\ Exists(u.order) /\ Tells(u)
    BY DEF TypesOK, Updates, SaidOK, Converted, StoryOK
  <2>2. CASE u.order = o
    <3>1. order[o].acts \in Nat /\ after.acts = order[o].acts + 1 /\ order'[o] = after
          /\ order[o].state \in {"submitted", "partial-filled"}
      BY <1>1, <1>7, <2>1, <2>2 DEF Open
    <3>2. u.seen <= order[o].acts /\ u.status = "WORKING" /\ (u.from = "stream" => u.time = u.seen)
      BY <2>1, <2>2, <3>1, StatusCases DEF Tells
    <3> QED
      BY <2>1, <2>2, <3>1, <3>2 DEF Tells
  <2>3. CASE u.order # o
    BY <1>7, <2>1, <2>3 DEF Tells
  <2> QED
    BY <2>2, <2>3
<1>13. StoryOK'
  BY <1>4, <1>9, <1>10, <1>11, <1>12 DEF StoryOK
<1>14. \A p, n : Shown(p, n) => Shown(p, n)'
  BY <1>3, <1>4 DEF Shown, Extended
<1>15. /\ \A i \in 1..Len(channel) : i \in 1..Len(channel') /\ channel'[i] = channel[i]
       /\ \A i \in 1..Len(channel') : OrdersReply(channel'[i]) =>
            i \in 1..Len(channel) /\ OrdersReply(channel[i])
  BY <1>3, <1>6 DEF Extended, OrdersReply
<1>16. LoggedIn' => LoggedIn
  BY <1>4, <1>15 DEF LoggedIn
<1>17. ASSUME NEW i \in 1..Len(channel'), i \notin 1..Len(channel), channel'[i].ch = "trade.clearing",
              "orders" \in subs
       PROVE  Shown(channel[i].order, channel[i].at)'
  <2>1. channel'[i] = g
    BY <1>3, <1>6, <1>17 DEF Extended
  <2>2. PICK j \in 1..Len(channel') : channel'[j] = f
    BY <1>3, <1>17 DEF Extended
  <2> QED
    BY <1>6, <2>1, <2>2 DEF Shown
<1>18. ASSUME NEW i \in 1..Len(channel'), NEW j \in 1..Len(channel'),
              j < i, OrdersReply(channel'[j]), channel'[i].ch = "trade.clearing"
       PROVE  Shown(channel[i].order, channel[i].at)'
  <2>1. j \in 1..Len(channel) /\ OrdersReply(channel[j])
    BY <1>15, <1>18
  <2>2. CASE i \in 1..Len(channel)
    <3>1. channel'[i] = channel[i] /\ Shown(channel[i].order, channel[i].at)
      BY <1>15, <1>18, <2>1, <2>2 DEF ShownOK
    <3>2. PICK p, n : p = channel[i].order /\ n = channel[i].at
      OBVIOUS
    <3>3. Shown(p, n)
      BY <3>1, <3>2
    <3>4. Shown(p, n)'
      BY <1>14, <3>3
    <3> QED
      BY <3>1, <3>2, <3>4 DEF Shown
  <2>3. CASE i \notin 1..Len(channel)
    <3>1. "orders" \in subs
      BY <2>1 DEF SessionOK, OrdersReply
    <3> QED
      BY <1>17, <1>18, <2>3, <3>1
  <2> QED
    BY <2>2, <2>3
<1>19. ASSUME LoggedIn', PastOrders', NEW i \in 1..Len(channel'), channel'[i].ch = "trade.clearing"
       PROVE  Shown(channel[i].order, channel[i].at)'
  <2>1. LoggedIn /\ PastOrders
    BY <1>4, <1>16, <1>19 DEF PastOrders
  <2>2. CASE i \in 1..Len(channel)
    <3>1. channel'[i] = channel[i] /\ Shown(channel[i].order, channel[i].at)
      BY <1>15, <1>19, <2>1, <2>2 DEF ShownOK
    <3>2. PICK p, n : p = channel[i].order /\ n = channel[i].at
      OBVIOUS
    <3>3. Shown(p, n)
      BY <3>1, <3>2
    <3>4. Shown(p, n)'
      BY <1>14, <3>3
    <3> QED
      BY <3>1, <3>2, <3>4 DEF Shown
  <2>3. CASE i \notin 1..Len(channel)
    BY <1>17, <1>19, <2>1, <2>3 DEF SessionOK
  <2> QED
    BY <2>2, <2>3
<1>20. ASSUME NEW x \in fills, x.ready
       PROVE  Shown(x.order, x.trade)'
  <2>1. Shown(x.order, x.trade)
    BY <1>20 DEF ShownOK
  <2> QED
    BY <1>14, <2>1
<1>21. ShownOK'
  BY <1>4, <1>18, <1>19, <1>20 DEF ShownOK
<1> QED
  BY <1>13, <1>21

\* A step that changes no order and forgets nothing tells no other story: what it
\* puts on the websocket, or publishes, was said before or is true.
LEMMA StillTold ==
    ASSUME TellInv, order' = order,
           \A i \in 1..Len(channel') : channel'[i].ch = "orders" =>
             \E j \in 1..Len(channel) : channel'[i] = channel[j],
           \A x \in query'.items : Speaks(x),
           \A u \in updates' : u \in updates \/ Tells(u),
           \A x \in fills' : x \in fills \/ (x.ready => Shown(x.order, x.trade)),
           \A p, n : Shown(p, n) => Shown(p, n)',
           \A i, j \in 1..Len(channel') :
             j < i /\ OrdersReply(channel'[j]) /\ channel'[i].ch = "trade.clearing" =>
               \E k, l \in 1..Len(channel) :
                 l < k /\ OrdersReply(channel[l]) /\ channel[k] = channel'[i],
           LoggedIn' /\ PastOrders' =>
             \A i \in 1..Len(channel') :
                channel'[i].ch = "trade.clearing" => Shown(channel'[i].order, channel'[i].at)
    PROVE  TellInv'
<1> USE DEF TellInv
<1>1. ASSUME NEW i \in 1..Len(channel'), channel'[i].ch = "orders"
      PROVE  Speaks(channel[i])' /\ UpdateTime(channel'[i]) = channel'[i].at
  <2>1. PICK j \in 1..Len(channel) : channel'[i] = channel[j]
    BY <1>1
  <2> QED
    BY <1>1, <2>1 DEF StoryOK, Speaks
<1>2. StoryOK'
  <2>1. \A x \in query'.items : Speaks(x)'
    BY DEF Speaks
  <2>2. \A u \in updates' : Tells(u)'
    BY DEF StoryOK, Tells
  <2>3. \A o \in Orders : Exists(o)' => (order'[o].traded = Size <=> order'[o].state = "filled")
    BY DEF StoryOK, Exists
  <2> QED
    BY <1>1, <2>1, <2>2, <2>3 DEF StoryOK
<1>3. ASSUME NEW i \in 1..Len(channel'), NEW j \in 1..Len(channel'),
             j < i, OrdersReply(channel'[j]), channel'[i].ch = "trade.clearing"
      PROVE  Shown(channel[i].order, channel[i].at)'
  <2>1. PICK k \in 1..Len(channel), l \in 1..Len(channel) :
               l < k /\ OrdersReply(channel[l]) /\ channel[k] = channel'[i]
    BY <1>3
  <2>2. Shown(channel[k].order, channel[k].at)
    BY <1>3, <2>1 DEF ShownOK
  <2>3. PICK p, n : p = channel'[i].order /\ n = channel'[i].at
    OBVIOUS
  <2>4. Shown(p, n)
    BY <2>1, <2>2, <2>3
  <2>5. Shown(p, n)'
    BY <2>4
  <2> QED
    BY <2>3, <2>5 DEF Shown
<1>4. ASSUME LoggedIn', PastOrders', NEW i \in 1..Len(channel'), channel'[i].ch = "trade.clearing"
      PROVE  Shown(channel[i].order, channel[i].at)'
  <2>1. PICK p, n : p = channel'[i].order /\ n = channel'[i].at
    OBVIOUS
  <2>2. Shown(p, n)
    BY <1>4, <2>1
  <2>3. Shown(p, n)'
    BY <2>2
  <2> QED
    BY <2>1, <2>3 DEF Shown
<1>5. ASSUME NEW x \in fills', x.ready
      PROVE  Shown(x.order, x.trade)'
  <2>1. Shown(x.order, x.trade)
    BY <1>5 DEF ShownOK
  <2> QED
    BY <2>1
<1>6. ShownOK'
  BY <1>3, <1>4, <1>5 DEF ShownOK
<1> QED
  BY <1>2, <1>6

\* Steps that take a frame from the websocket.
LEMMA TakingTells ==
    ASSUME IInv, TellInv, OrderEvent \/ Clearing \/ AuthAccepted \/ SubOrders \/ SubTrades
    PROVE  TellInv'
<1> USE DEF IInv
<1>1. /\ channel # <<>> /\ channel' = Tail(channel)
      /\ UNCHANGED <<order, requests, subs, query>>
      /\ updates \subseteq updates'
  BY DEF OrderEvent, Clearing, AuthAccepted, SubOrders, SubTrades, Receives, Consumes
<1>2. /\ 1 \in 1..Len(channel) /\ Head(channel) = channel[1] /\ channel[1] \in Frames
      /\ \A i \in 1..Len(channel') : i + 1 \in 1..Len(channel) /\ channel'[i] = channel[i + 1]
      /\ \A j \in 1..Len(channel) : j # 1 => j - 1 \in 1..Len(channel') /\ channel'[j - 1] = channel[j]
  BY <1>1, FrameTaken
<1>3. \A i \in 1..Len(channel') : channel'[i].ch = "orders" =>
        \E j \in 1..Len(channel) : channel'[i] = channel[j]
  BY <1>2
<1>4. \A x \in query'.items : Speaks(x)
  BY <1>1 DEF TellInv, StoryOK
<1>5. ASSUME NEW i \in 1..Len(channel'), NEW j \in 1..Len(channel'),
             j < i, OrdersReply(channel'[j]), channel'[i].ch = "trade.clearing"
      PROVE  \E k, l \in 1..Len(channel) :
               l < k /\ OrdersReply(channel[l]) /\ channel[k] = channel'[i]
  <2>1. /\ i + 1 \in 1..Len(channel) /\ channel'[i] = channel[i + 1]
        /\ j + 1 \in 1..Len(channel) /\ channel'[j] = channel[j + 1]
        /\ j + 1 < i + 1
    BY <1>2, <1>5
  <2> QED
    BY <1>5, <2>1
<1>6. ASSUME LoggedIn', PastOrders', NEW i \in 1..Len(channel'), channel'[i].ch = "trade.clearing"
      PROVE  Shown(channel'[i].order, channel'[i].at)
  <2>1. /\ i + 1 \in 1..Len(channel) /\ channel'[i] = channel[i + 1] /\ 1 < i + 1
    BY <1>2
  <2>2. CASE OrdersReply(channel[1])
    BY <1>2, <1>6, <2>1, <2>2 DEF TellInv, ShownOK
  <2>3. CASE ~OrdersReply(channel[1])
    <3>1. ~AuthAccepted /\ ~SubOrders
      BY <1>2, <1>6, <2>3 DEF AuthAccepted, PastOrders, SubOrders, OrdersReply, Receives
    <3>2. PastOrders /\ Head(channel).ch # "auth"
      BY <1>6, <3>1 DEF OrderEvent, Clearing, SubTrades, Receives, PastOrders
    <3>3. LoggedIn
      <4>1. status # "DISCONNECTED" /\ \A k \in 1..Len(requests) : requests[k] # "auth"
        BY <1>1 DEF SessionOK
      <4> QED
        BY <1>2, <3>2, <4>1 DEF SessionOK, LoggedIn
    <3> QED
      BY <1>6, <2>1, <3>2, <3>3 DEF TellInv, ShownOK
  <2> QED
    BY <2>2, <2>3
<1>7. ASSUME Head(channel).ch # "orders"
      PROVE  \A p, n : Shown(p, n) => Shown(p, n)'
  <2> SUFFICES ASSUME NEW p, NEW n, Shown(p, n)
               PROVE  Shown(p, n)'
    OBVIOUS
  <2>1. CASE \E u \in updates : u.order = p /\ u.from = "stream" /\ u.seen = n
    BY <1>1, <2>1 DEF Shown
  <2>2. CASE \E i \in 1..Len(channel) :
               channel[i].ch = "orders" /\ channel[i].order = p /\ channel[i].at = n
    <3>1. PICK i \in 1..Len(channel) :
                 channel[i].ch = "orders" /\ channel[i].order = p /\ channel[i].at = n
      BY <2>2
    <3>2. i # 1
      BY <1>2, <1>7, <3>1
    <3> QED
      BY <1>2, <3>1, <3>2 DEF Shown
  <2> QED
    BY <2>1, <2>2 DEF Shown
<1>8. CASE OrderEvent
  <2> DEFINE f == Head(channel)
             u == Update(f.order, "stream", f.type, f.state, UpdateTime(f),
                         IF f.event = "trade" THEN Liquidity(f.aggressor) ELSE "UNDEFINED", f.at)
  <2>1. f.ch = "orders" /\ updates' = updates \cup {u} /\ fills' = fills
    BY <1>8 DEF OrderEvent, Receives
  <2>2. Speaks(f) /\ UpdateTime(f) = f.at
    BY <1>2, <2>1 DEF TellInv, StoryOK
  <2>3. /\ u.order = f.order /\ u.from = "stream" /\ u.status = StatusOf(f.state)
        /\ u.time = UpdateTime(f) /\ u.seen = f.at
    BY DEF Update
  <2> HIDE DEF f, u
  <2>4. Tells(u)
    <3>1. f.state \in {"submitted", "partial-filled"} => StatusOf(f.state) = "WORKING"
      BY StatusCases
    <3> QED
      BY <2>2, <2>3, <3>1 DEF Tells, Speaks
  <2>5. ASSUME NEW p, NEW n, Shown(p, n)
        PROVE  Shown(p, n)'
    <3>1. CASE \E x \in updates : x.order = p /\ x.from = "stream" /\ x.seen = n
      BY <1>1, <3>1 DEF Shown
    <3>2. CASE \E i \in 1..Len(channel) :
                 channel[i].ch = "orders" /\ channel[i].order = p /\ channel[i].at = n
      <4>1. PICK i \in 1..Len(channel) :
                   channel[i].ch = "orders" /\ channel[i].order = p /\ channel[i].at = n
        BY <3>2
      <4>2. CASE i = 1
        <5>1. f.order = p /\ f.at = n
          BY <1>2, <4>1, <4>2 DEF f
        <5> QED
          BY <2>1, <2>3, <5>1 DEF Shown
      <4>3. CASE i # 1
        BY <1>2, <4>1, <4>3 DEF Shown
      <4> QED
        BY <4>2, <4>3
    <3> QED
      BY <2>5, <3>1, <3>2 DEF Shown
  <2>6. \A x \in updates' : x \in updates \/ Tells(x)
    BY <2>1, <2>4
  <2>7. \A x \in fills' : x \in fills \/ (x.ready => Shown(x.order, x.trade))
    BY <2>1
  <2> QED
    BY <1>1, <1>3, <1>4, <1>5, <1>6, <2>5, <2>6, <2>7, StillTold
<1>9. CASE Clearing
  <2> DEFINE f == Head(channel)
             x == [order |-> f.order, side |-> f.type.side, trade |-> f.at,
                   liquidity |-> Liquidity(f.aggressor), ready |-> status = "READY"]
  <2>1. f.ch = "trade.clearing" /\ fills' = fills \cup {x} /\ updates' = updates
    BY <1>9 DEF Clearing, Receives
  <2>2. x.ready => Shown(x.order, x.trade)
    <3>1. x.ready => LoggedIn /\ PastOrders
      BY DEF SessionOK, PastOrders
    <3> QED
      BY <1>2, <2>1, <3>1 DEF TellInv, ShownOK
  <2> HIDE DEF x
  <2>3. \A y \in fills' : y \in fills \/ (y.ready => Shown(y.order, y.trade))
    BY <2>1, <2>2
  <2>4. \A y \in updates' : y \in updates \/ Tells(y)
    BY <2>1
  <2> QED
    BY <1>1, <1>3, <1>4, <1>5, <1>6, <1>7, <2>1, <2>3, <2>4, StillTold
<1>10. CASE AuthAccepted \/ SubOrders \/ SubTrades
  <2>1. Head(channel).ch # "orders" /\ fills' = fills /\ updates' = updates
    BY <1>10 DEF AuthAccepted, SubOrders, SubTrades, Receives
  <2>2. /\ \A y \in fills' : y \in fills \/ (y.ready => Shown(y.order, y.trade))
        /\ \A y \in updates' : y \in updates \/ Tells(y)
    BY <2>1
  <2> QED
    BY <1>1, <1>3, <1>4, <1>5, <1>6, <1>7, <2>1, <2>2, StillTold
<1> QED
  BY <1>8, <1>9, <1>10

\* Steps that leave the websocket's frames and the fills alone.
LEMMA AsideTells ==
    ASSUME TellInv, UNCHANGED <<order, channel, fills>>, updates \subseteq updates',
           LoggedIn' /\ PastOrders' => LoggedIn /\ PastOrders,
           \A x \in query'.items : Speaks(x),
           \A u \in updates' : u \in updates \/ Tells(u)
    PROVE  TellInv'
<1>1. \A p, n : Shown(p, n) => Shown(p, n)'
  BY DEF Shown
<1>2. \A i \in 1..Len(channel') : channel'[i].ch = "orders" =>
        \E j \in 1..Len(channel) : channel'[i] = channel[j]
  OBVIOUS
<1>3. \A i, j \in 1..Len(channel') :
        j < i /\ OrdersReply(channel'[j]) /\ channel'[i].ch = "trade.clearing" =>
          \E k, l \in 1..Len(channel) :
            l < k /\ OrdersReply(channel[l]) /\ channel[k] = channel'[i]
  OBVIOUS
<1>4. LoggedIn' /\ PastOrders' =>
        \A i \in 1..Len(channel') :
           channel'[i].ch = "trade.clearing" => Shown(channel'[i].order, channel'[i].at)
  BY DEF TellInv, ShownOK
<1>5. \A x \in fills' : x \in fills \/ (x.ready => Shown(x.order, x.trade))
  OBVIOUS
<1> QED
  BY <1>1, <1>2, <1>3, <1>4, <1>5, StillTold

\* The query: what it finds is the state of the orders, and is published as found.
LEMMA QueryTells ==
    ASSUME IInv, TellInv, SendQuery \/ QueryRun \/ QueryFails \/ OpenOrdersAck
    PROVE  TellInv'
<1> USE DEF IInv
<1>1. /\ UNCHANGED <<order, requests, channel, status, download, fills>>
      /\ updates \subseteq updates'
  BY DEF SendQuery, QueryRun, QueryFails, OpenOrdersAck, gateway
<1>2. LoggedIn' /\ PastOrders' => LoggedIn /\ PastOrders
  BY <1>1 DEF LoggedIn, PastOrders
<1>3. CASE SendQuery
  <2>1. query'.items = {} /\ updates' = updates
    BY <1>3 DEF SendQuery
  <2> QED
    BY <1>1, <1>2, <2>1, AsideTells
<1>4. CASE QueryFails
  <2>1. query'.items = query.items /\ updates' = updates
    BY <1>4 DEF QueryFails, gateway, TypesOK, Queries
  <2>2. \A x \in query'.items : Speaks(x)
    BY <2>1 DEF TellInv, StoryOK
  <2> QED
    BY <1>1, <1>2, <2>1, <2>2, AsideTells
<1>5. CASE QueryRun
  <2> DEFINE item(o) == [order |-> o, type |-> order[o].type, state |-> order[o].state,
                         created |-> 1, at |-> order[o].acts]
  <2>1. query'.items = {item(o) : o \in {p \in Orders : Open(p)}} /\ updates' = updates
    BY <1>5 DEF QueryRun, gateway, TypesOK, Queries
  <2>2. ASSUME NEW o \in Orders, Open(o)
        PROVE  Speaks(item(o))
    <3>1. order[o] \in OrderType
      BY <2>2 DEF TypesOK, Open, Exists
    <3>2. order[o].acts \in Nat
      BY <3>1, OrderUpdatesAssumption DEF OrderType
    <3> QED
      BY <3>2 DEF Speaks
  <2>3. \A x \in query'.items : Speaks(x)
    BY <2>1, <2>2
  <2> QED
    BY <1>1, <1>2, <2>1, <2>3, AsideTells
<1>6. CASE OpenOrdersAck
  <2> DEFINE v(x) == Update(x.order, "snapshot", x.type, x.state, x.created, "UNDEFINED", x.at)
  <2>1. query'.items = {} /\ updates' = updates \cup {v(x) : x \in query.items}
    BY <1>6 DEF OpenOrdersAck
  <2>2. ASSUME NEW x \in query.items
        PROVE  Tells(v(x))
    <3>1. /\ v(x).order = x.order /\ v(x).from = "snapshot" /\ v(x).status = StatusOf(x.state)
          /\ v(x).seen = x.at
      BY DEF Update
    <3>2. Speaks(x)
      BY DEF TellInv, StoryOK
    <3>3. x.state \in {"submitted", "partial-filled"} => StatusOf(x.state) = "WORKING"
      BY StatusCases
    <3> HIDE DEF v
    <3> QED
      BY <3>1, <3>2, <3>3 DEF Tells, Speaks
  <2>3. /\ \A x \in query'.items : Speaks(x)
        /\ \A u \in updates' : u \in updates \/ Tells(u)
    BY <2>1, <2>2
  <2> QED
    BY <1>1, <1>2, <2>3, AsideTells
<1> QED
  BY <1>3, <1>4, <1>5, <1>6

\* The exchange serves a channel, and its reply is behind what it sent before.
LEMMA ServedTells ==
    ASSUME IInv, TellInv, NEW ch \in Feeds, Served(ch)
    PROVE  TellInv'
<1> USE DEF IInv
<1> DEFINE reply == [ch |-> "sub", of |-> ch]
<1>1. /\ requests # <<>> /\ Head(requests) = ch /\ channel' = Append(channel, reply)
      /\ UNCHANGED <<order, query, status, download, updates, fills>>
  BY DEF Served, gateway
<1>2. /\ channel \in Seq(Frames) /\ reply \in Frames /\ reply.ch = "sub"
  BY DEF TypesOK, Frames, SubFrames
<1> HIDE DEF reply
<1>3. /\ Len(channel) \in Nat /\ Len(channel') = Len(channel) + 1
      /\ \A i \in 1..Len(channel) : channel'[i] = channel[i]
      /\ channel'[Len(channel) + 1] = reply
  BY <1>1, <1>2, AppendProperties, LenProperties
<1>4. /\ \A i \in 1..Len(channel') : i \in 1..Len(channel) \/ i = Len(channel) + 1
      /\ \A i \in 1..Len(channel) : i \in 1..Len(channel')
  BY <1>3
<1>5. \A i \in 1..Len(channel') : channel'[i].ch # "sub" =>
        i \in 1..Len(channel) /\ channel'[i] = channel[i]
  BY <1>2, <1>3, <1>4
<1>6. \A p, n : Shown(p, n) => Shown(p, n)'
  BY <1>1, <1>3, <1>4 DEF Shown
<1>7. ASSUME NEW i \in 1..Len(channel'), NEW j \in 1..Len(channel'),
             j < i, OrdersReply(channel'[j]), channel'[i].ch = "trade.clearing"
      PROVE  \E k, l \in 1..Len(channel) :
               l < k /\ OrdersReply(channel[l]) /\ channel[k] = channel'[i]
  <2>1. i \in 1..Len(channel) /\ channel'[i] = channel[i]
    BY <1>5, <1>7
  <2>2. j \in 1..Len(channel)
    BY <1>3, <1>7, <2>1
  <2>3. channel'[j] = channel[j]
    BY <1>3, <2>2
  <2> QED
    BY <1>7, <2>1, <2>2, <2>3
<1>8. LoggedIn' => LoggedIn
  <2>1. requests[1] = ch /\ ch # "auth"
    <3>1. requests \in Seq(Messages)
      BY DEF TypesOK
    <3> QED
      BY <1>1, <3>1, HeadTailProperties DEF Feeds
  <2>2. \A i \in 1..Len(requests) : requests[i] # "auth"
    BY <2>1 DEF SessionOK
  <2> QED
    BY <1>1, <1>3, <1>4, <2>2 DEF LoggedIn
<1>9. LoggedIn' /\ PastOrders' =>
        \A i \in 1..Len(channel') :
           channel'[i].ch = "trade.clearing" => Shown(channel'[i].order, channel'[i].at)
  <2> SUFFICES ASSUME LoggedIn', PastOrders', NEW i \in 1..Len(channel'),
                      channel'[i].ch = "trade.clearing"
               PROVE  Shown(channel'[i].order, channel'[i].at)
    OBVIOUS
  <2>1. LoggedIn /\ PastOrders
    BY <1>1, <1>8 DEF PastOrders
  <2>2. i \in 1..Len(channel) /\ channel'[i] = channel[i]
    BY <1>5
  <2> QED
    BY <2>1, <2>2 DEF TellInv, ShownOK
<1>10. /\ \A i \in 1..Len(channel') : channel'[i].ch = "orders" =>
            \E j \in 1..Len(channel) : channel'[i] = channel[j]
       /\ \A x \in query'.items : Speaks(x)
       /\ \A u \in updates' : u \in updates \/ Tells(u)
       /\ \A x \in fills' : x \in fills \/ (x.ready => Shown(x.order, x.trade))
  BY <1>1, <1>5 DEF TellInv, StoryOK
<1> QED
  BY <1>1, <1>6, <1>7, <1>9, <1>10, StillTold

\* The acceptance of the login is the first frame of its websocket.
LEMMA LoginTells ==
    ASSUME IInv, TellInv, Login
    PROVE  TellInv'
<1> USE DEF IInv
<1> DEFINE reply == [ch |-> "auth"]
<1>1. /\ requests # <<>> /\ Head(requests) = "auth" /\ channel' = Append(channel, reply)
      /\ UNCHANGED <<order, query, updates, fills>>
  BY DEF Login, gateway
<1>2. channel = <<>>
  <2>1. requests \in Seq(Messages)
    BY DEF TypesOK
  <2>2. 1 \in 1..Len(requests) /\ requests[1] = "auth"
    BY <1>1, <2>1, HeadTailProperties, EmptySeq, LenProperties
  <2> QED
    BY <2>2 DEF SessionOK
<1>3. Len(channel) = 0 /\ Len(channel') = 1 /\ channel'[1].ch = "auth"
  BY <1>1, <1>2
<1>4. \A p, n : Shown(p, n) => Shown(p, n)'
  BY <1>1, <1>3 DEF Shown
<1>5. ~LoggedIn'
  BY <1>3 DEF LoggedIn
<1>6. /\ \A i \in 1..Len(channel') : channel'[i].ch = "auth"
      /\ \A x \in query'.items : Speaks(x)
      /\ \A u \in updates' : u \in updates \/ Tells(u)
      /\ \A x \in fills' : x \in fills \/ (x.ready => Shown(x.order, x.trade))
  BY <1>1, <1>3 DEF TellInv, StoryOK
<1>7. /\ \A i \in 1..Len(channel') : channel'[i].ch = "orders" =>
           \E j \in 1..Len(channel) : channel'[i] = channel[j]
      /\ \A i, j \in 1..Len(channel') :
           j < i /\ OrdersReply(channel'[j]) /\ channel'[i].ch = "trade.clearing" =>
             \E k, l \in 1..Len(channel) :
               l < k /\ OrdersReply(channel[l]) /\ channel[k] = channel'[i]
  BY <1>6
<1> QED
  BY <1>1, <1>4, <1>5, <1>6, <1>7, StillTold

\* A session begins, or the timer moves a download on.
LEMMA LinkTells ==
    ASSUME IInv, TellInv, WsReady \/ Subscribe \/ DownloadTimer \/ UNCHANGED vars
    PROVE  TellInv'
<1> USE DEF IInv
<1>1. UNCHANGED <<order, channel, query, updates, fills>>
  BY DEF WsReady, Subscribe, DownloadTimer, Subscribes, vars, exchange, gateway
<1>2. \A x \in query'.items : Speaks(x)
  BY <1>1 DEF TellInv, StoryOK
<1>3. LoggedIn' /\ PastOrders' => LoggedIn /\ PastOrders
  <2>1. CASE WsReady
    <3>1. Len(requests') = 1 /\ requests'[1] = "auth"
      BY <2>1 DEF WsReady
    <3> QED
      BY <3>1 DEF LoggedIn
  <2>2. CASE Subscribe
    BY <2>2 DEF Subscribe, Subscribes, PastOrders
  <2>3. CASE DownloadTimer
    <3>1. /\ requests' = Append(requests, "trade.clearing") /\ requests \in Seq(Messages)
          /\ download = "GET_OPEN_ORDERS" /\ status # "DISCONNECTED"
      BY <2>3 DEF DownloadTimer, Subscribes, TypesOK
    <3>2. \A i \in 1..Len(requests) : i \in 1..Len(requests') /\ requests'[i] = requests[i]
      <4>1. /\ Len(requests') = Len(requests) + 1 /\ Len(requests) \in Nat
            /\ \A i \in 1..Len(requests) : requests'[i] = requests[i]
        BY <3>1, AppendProperties, LenProperties DEF Messages
      <4> QED
        BY <4>1
    <3> QED
      BY <1>1, <3>1, <3>2 DEF LoggedIn, PastOrders
  <2>4. CASE UNCHANGED vars
    BY <2>4 DEF vars, exchange, gateway, LoggedIn, PastOrders
  <2> QED
    BY <2>1, <2>2, <2>3, <2>4
<1> QED
  BY <1>1, <1>2, <1>3, AsideTells

\* A lost websocket takes its frames and the fills of its session with it.
LEMMA LossTells ==
    ASSUME IInv, TellInv, Disconnected
    PROVE  TellInv'
<1>1. /\ channel' = <<>> /\ fills' = {} /\ status' = "DISCONNECTED"
      /\ UNCHANGED <<order, query, updates>>
  BY DEF Disconnected
<1>2. Len(channel') = 0
  BY <1>1
<1>3. StoryOK'
  <2>1. \A x \in query'.items : Speaks(x)'
    BY <1>1 DEF TellInv, StoryOK, Speaks
  <2>2. \A u \in updates' : Tells(u)'
    BY <1>1 DEF TellInv, StoryOK, Tells
  <2>3. \A o \in Orders : Exists(o)' => (order'[o].traded = Size <=> order'[o].state = "filled")
    BY <1>1 DEF TellInv, StoryOK, Exists
  <2> QED
    BY <1>2, <2>1, <2>2, <2>3 DEF StoryOK
<1>4. ShownOK'
  BY <1>1, <1>2 DEF ShownOK
<1> QED
  BY <1>3, <1>4 DEF TellInv

LEMMA TellingKeeps == IInv /\ TellInv /\ [Next]_vars => TellInv'
<1> SUFFICES ASSUME IInv, TellInv, [Next]_vars PROVE TellInv'
  OBVIOUS
<1>1. CASE \E o \in Orders : Placed(o) \/ PlacedElsewhere(o) \/ Traded(o) \/ Canceled(o)
  <2>1. PICK o \in Orders : Placed(o) \/ PlacedElsewhere(o) \/ Traded(o) \/ Canceled(o)
    BY <1>1
  <2>2. Act(o)
    BY <2>1, StepsAreActs DEF IInv
  <2> QED
    BY <2>2, ActTells
<1>2. CASE \E ch \in {"orders", "trade.clearing"} : Served(ch)
  BY <1>2, ServedTells DEF Feeds
<1>3. CASE SendQuery \/ QueryRun \/ QueryFails \/ OpenOrdersAck
  BY <1>3, QueryTells
<1>4. CASE AuthAccepted \/ SubOrders \/ SubTrades \/ OrderEvent \/ Clearing
  BY <1>4, TakingTells
<1>5. CASE WsReady \/ Subscribe \/ DownloadTimer \/ UNCHANGED vars
  BY <1>5, LinkTells
<1> QED
  BY <1>1, <1>2, <1>3, <1>4, <1>5, LoginTells, LossTells DEF Next, Exchange

-------------------------------------------------------------------------------
(* The theorems                                                                *)

LEMMA InitInv == Init => IInv
<1> SUFFICES ASSUME Init PROVE IInv
  OBVIOUS
<1> USE DEF Init
<1>1. \A o \in Orders : ~Exists(o)
  BY DEF Exists
<1>2. query \in Queries /\ query.items = {} /\ requests \in Seq(Messages) /\ Len(requests) = 0
  BY DEF Queries, Phases
<1>3. channel \in Seq(Frames) /\ Len(channel) = 0 /\ ~LoggedIn
  BY DEF LoggedIn
<1>4. TypesOK
  BY <1>2, <1>3 DEF TypesOK, Statuses, Stages
<1>5. OrdersOK
  BY <1>1 DEF OrdersOK
<1>6. SaidOK
  BY <1>2, <1>3 DEF SaidOK
<1>7. SessionOK
  BY <1>2, <1>3 DEF SessionOK
<1>8. KnownOK
  BY <1>3 DEF KnownOK, ItemsOK, AnswerOK, DoneOK
<1> QED
  BY <1>4, <1>5, <1>6, <1>7, <1>8 DEF IInv

LEMMA NextInv == IInv /\ [Next]_vars => IInv'
<1> SUFFICES ASSUME IInv, [Next]_vars PROVE IInv'
  OBVIOUS
<1>1. CASE \E o \in Orders : Placed(o) \/ PlacedElsewhere(o) \/ Traded(o) \/ Canceled(o)
  <2>1. PICK o \in Orders : Placed(o) \/ PlacedElsewhere(o) \/ Traded(o) \/ Canceled(o)
    BY <1>1
  <2>2. Act(o)
    BY <2>1, StepsAreActs DEF IInv
  <2> QED
    BY <2>2, ActKeeps
<1>2. CASE \E ch \in {"orders", "trade.clearing"} : Served(ch)
  BY <1>2, ServedKeeps DEF Feeds
<1>3. CASE SendQuery \/ QueryRun \/ QueryFails
  BY <1>3, QueryKeeps
<1>4. CASE WsReady \/ Disconnected
  BY <1>4, LinkKeeps
<1>5. CASE AuthAccepted \/ SubOrders \/ SubTrades
  BY <1>5, RepliesKeep
<1>6. CASE OrderEvent
  BY <1>6, OrderEventKeeps
<1>7. CASE Clearing
  BY <1>7, ClearingKeeps
<1>8. CASE OpenOrdersAck
  BY <1>8, AckKeeps
<1>9. CASE UNCHANGED vars
  <2> USE <1>9 DEF vars, exchange, gateway
  <2>1. TypesOK' /\ OrdersOK'
    BY DEF IInv, TypesOK, OrdersOK, Exists, Open
  <2>2. SaidOK'
    BY DEF IInv, SaidOK, OfType, NoTaker, Converted, Filled, Exists
  <2>3. SessionOK'
    BY DEF IInv, SessionOK, LoggedIn, PastOrders
  <2>4. \A o \in Orders : (Known(o) <=> Known(o)') /\ (Open(o) <=> Open(o)') /\ (Exists(o) <=> Exists(o)')
    BY DEF Known, Open, Exists
  <2>5. ItemsOK' /\ AnswerOK' /\ DoneOK'
    BY <2>4 DEF IInv, KnownOK, ItemsOK, AnswerOK, DoneOK, LoggedIn, HasResponse, AllKnown, InItems
  <2>6. KnownOK'
    BY <2>4, <2>5 DEF IInv, KnownOK, TypesOK
  <2> QED
    BY <2>1, <2>2, <2>3, <2>6 DEF IInv
<1>10. CASE Subscribe \/ DownloadTimer
  BY <1>10, TimerKeeps
<1> QED
  BY <1>1, <1>2, <1>3, <1>4, <1>5, <1>6, <1>7, <1>8, <1>9, <1>10, LoginKeeps DEF Next, Exchange

LEMMA Invariance == Spec => []IInv
BY InitInv, NextInv, PTL DEF Spec

LEMMA Telling == Spec => []TellInv
<1>1. Init => TellInv
  <2> SUFFICES ASSUME Init PROVE TellInv
    OBVIOUS
  <2>1. /\ \A o \in Orders : ~Exists(o)
        /\ Len(channel) = 0 /\ query.items = {} /\ updates = {} /\ fills = {} /\ subs = {}
    BY DEF Init, Exists
  <2> QED
    BY <2>1 DEF TellInv, StoryOK, ShownOK
<1> QED
  BY <1>1, TellingKeeps, Invariance, PTL DEF Spec

\* The types of the module: no conversion leaves the names of the framework, for any
\* ask of a client (map.cpp).
THEOREM TypeCorrect == Spec => []TypeOK
<1>1. IInv => TypeOK
  <2> SUFFICES ASSUME IInv PROVE TypeOK
    OBVIOUS
  <2>1. query.phase \in Phases
    BY DEF IInv, TypesOK, Queries
  <2>2. \A u \in updates : /\ u.status \in {"UNDEFINED", "WORKING", "COMPLETED", "CANCELED"}
                           /\ u.side \in Sides /\ u.maker \in BOOLEAN
    BY DEF IInv, TypesOK, Updates
  <2> QED
    BY <2>1, <2>2 DEF IInv, TypesOK, TypeOK, Phases, Messages, Statuses, Stages, Feeds
<1> QED
  BY <1>1, Invariance, PTL

\* Updates of an order placed here repeat what was asked for, from either source, in
\* any session (map.cpp, drop_copy.cpp, order_entry.cpp).
THEOREM UpdatesRepeatTheAsk == Spec => []UpdatesSayWhatWasAsked
<1>1. IInv => UpdatesSayWhatWasAsked
  <2> SUFFICES ASSUME IInv, NEW u \in updates, NEW i \in 1..Len(order[u.order].ask),
                      order[u.order].ask[i] \in Expressible
               PROVE  LET ask == order[u.order].ask[i]
                      IN  /\ u.side = ask.side /\ u.type = ask.type /\ u.maker = ask.maker
                          /\ ask.type = "LIMIT" => u.tif = ask.tif
    BY DEF UpdatesSayWhatWasAsked
  <2>1. u.order \in Orders /\ Converted(u)
    BY DEF IInv, TypesOK, Updates, SaidOK
  <2>2. order[u.order] \in OrderType
    BY <2>1 DEF IInv, TypesOK, Converted, Exists
  <2>3. order[u.order].ask \in {<<>>} \cup {<<ask>> : ask \in AllAsks}
    BY <2>2 DEF OrderType
  <2>4. i = 1 /\ order[u.order].ask # <<>>
    BY <2>3
  <2>5. order[u.order].type = ToExchange(order[u.order].ask[i])
    BY <2>1, <2>4 DEF IInv, OrdersOK, Converted
  <2> QED
    BY <2>1, <2>5, RoundTrip DEF Converted
<1> QED
  BY <1>1, Invariance, PTL

\* Nothing that is published says that a post-only order took (map.cpp,
\* drop_copy.cpp).
THEOREM PostOnlyIsMakerOnly == Spec => []PostOnlyNeverTakes
<1>1. IInv => PostOnlyNeverTakes
  <2> SUFFICES ASSUME IInv PROVE PostOnlyNeverTakes
    OBVIOUS
  <2>1. ASSUME NEW o \in Orders, Exists(o), NEW i \in 1..Len(order[o].ask),
               order[o].ask[i].maker, order[o].ask[i].type = "LIMIT", order[o].ask[i].tif # "IOC"
        PROVE  order[o].type.kind = "limit_maker"
    <3>1. order[o] \in OrderType
      BY <2>1 DEF IInv, TypesOK, Exists
    <3>2. order[o].ask \in {<<>>} \cup {<<ask>> : ask \in AllAsks}
      BY <3>1 DEF OrderType
    <3>3. i = 1 /\ order[o].ask # <<>> /\ order[o].ask[i] \in AllAsks
      <4>1. order[o].ask # <<>>
        <5>1. CASE order[o].ask = <<>>
          <6>1. Len(order[o].ask) = 0
            BY <5>1
          <6> QED
            BY <6>1
        <5> QED
          BY <5>1
      <4>2. PICK ask \in AllAsks : order[o].ask = <<ask>>
        BY <3>2, <4>1
      <4>3. Len(order[o].ask) = 1 /\ order[o].ask[1] = ask
        BY <4>2
      <4> QED
        BY <4>1, <4>3
    <3>4. order[o].type = ToExchange(order[o].ask[i])
      BY <2>1, <3>3 DEF IInv, OrdersOK
    <3> QED
      BY <2>1, <3>3, <3>4, PostOnlyIsMaker
  <2>2. \A u \in updates : u.order \in Orders /\ Converted(u)
    BY DEF IInv, TypesOK, Updates, SaidOK
  <2>3. \A f \in fills : f.order \in Orders /\ Filled(f)
    BY DEF IInv, TypesOK, Fills, SaidOK
  <2> QED
    BY <2>1, <2>2, <2>3 DEF PostOnlyNeverTakes, Converted, Filled
<1> QED
  BY <1>1, Invariance, PTL

\* Nothing falls between the snapshot of the open orders and the stream of their
\* updates once the stream is READY and its query succeeded, however the two
\* connections and the exchange interleave and whatever download a lost websocket
\* left behind (drop_copy.cpp).
THEOREM SnapshotJoinsStream == Spec => []OpenOrdersAreKnown
<1>1. IInv => OpenOrdersAreKnown
  BY DEF IInv, KnownOK, DoneOK, SessionOK, AllKnown, OpenOrdersAreKnown
<1> QED
  BY <1>1, Invariance, PTL

\* No update says that an order ended unless it had, nor in another way than it did,
\* whichever connection it comes from and however late (map.cpp, drop_copy.cpp,
\* order_entry.cpp).
THEOREM EndsAreTold == Spec => []StatusTellsTheEnd
<1>1. IInv /\ TellInv => StatusTellsTheEnd
  <2> SUFFICES ASSUME IInv, TellInv, NEW u \in updates
               PROVE  LET now == order[u.order]
                          ended == ~Open(u.order) /\ u.seen = now.acts
                      IN  /\ u.status = "COMPLETED" <=> ended /\ now.traded = Size
                          /\ now.state # "partial-canceled" =>
                               (u.status = "CANCELED" <=> ended /\ now.traded < Size)
    BY DEF StatusTellsTheEnd
  <2>1. u.order \in Orders /\ Exists(u.order) /\ u.seen \in Nat /\ Tells(u)
    BY DEF IInv, TypesOK, Updates, SaidOK, Converted, TellInv, StoryOK
  <2>2. order[u.order] \in OrderType
    BY <2>1 DEF IInv, TypesOK, Exists
  <2>3. /\ order[u.order].state \in States /\ order[u.order].acts \in Nat
        /\ order[u.order].traded \in Nat /\ order[u.order].traded <= Size /\ Size \in Nat
    BY <2>2, OrderUpdatesAssumption DEF OrderType
  <2>4. order[u.order].traded = Size <=> order[u.order].state = "filled"
    BY <2>1 DEF TellInv, StoryOK
  <2>5. CASE u.seen = order[u.order].acts
    <3>1. u.status = StatusOf(order[u.order].state)
      BY <2>1, <2>5 DEF Tells
    <3> QED
      BY <2>1, <2>3, <2>4, <2>5, <3>1, StatusCases DEF Open, States
  <2>6. CASE u.seen < order[u.order].acts
    BY <2>1, <2>3, <2>6 DEF Tells
  <2> QED
    BY <2>1, <2>3, <2>5, <2>6 DEF Tells
<1> QED
  BY <1>1, Invariance, Telling, PTL

\* A READY stream publishes a fill after the order update it belongs to is on its way,
\* even if an earlier session's download subscribed the two channels in another order
\* (drop_copy.cpp).
THEOREM FillsFollowUpdates == Spec => []FillsComeWithUpdates
<1>1. TellInv => FillsComeWithUpdates
  BY DEF TellInv, ShownOK, Shown, FillsComeWithUpdates
<1> QED
  BY <1>1, Telling, PTL

\* The times given with the stream's updates order them as things happened, over any
\* number of sessions (drop_copy.cpp).
THEOREM TimesTellTheOrder == Spec => []StreamTimesTellTheOrder
<1>1. TellInv => StreamTimesTellTheOrder
  BY DEF TellInv, StoryOK, Tells, StreamTimesTellTheOrder
<1> QED
  BY <1>1, Telling, PTL
===============================================================================
