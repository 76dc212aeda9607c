# A verification of the HTX gateway

The gateway (`src/src/roq/htx`) connects clients of a trading framework to the
HTX exchange. It is one process with one event loop: every handler runs to its
end before the next one starts, so a handler is one atomic action of a model.
What interleaves is everything outside of the loop: the exchange, the
connections, timers, clients, and the order management system. The framework
itself (connections, downloads, queues, limits, the order management system) is
a library that is not in the repository; it is modelled from how the code uses
it, and each such definition is marked `external` in `PROJECT.json`.

## Components

| Component | Source | State | Operations | Interacts with |
|---|---|---|---|---|
| Controller | `gateway/controller.cpp` | streams per account and per slice | start, stop, timer, subscribe, order requests, SymbolsUpdate | calls every stream; one timer runs Rest, OrderEntry, DropCopy, MarketData, MBPFeed in this order |
| Rest | `gateway/rest.cpp` | connection status, `ready_`, download | market status, currencies, symbols | publishes reference data, hands new symbols to Controller |
| OrderEntry | `gateway/order_entry.cpp` | connection status, account id, counter of order queries | order requests of clients, private queries | reads and clears the flags of Request |
| DropCopy | `gateway/drop_copy.cpp` | connection status, download | login, subscriptions, updates of orders, fills and balances | raises the flags of Request, polls the answers |
| Request | `gateway/request.cpp` | four query flags, set of stale orders | request, check, commit | shared by OrderEntry and DropCopy of an account |
| MarketData, MBPFeed | `gateway/market_data.cpp`, `gateway/mbp_feed.cpp` | connection status, request queue, sequencers | subscribe, decode, publish | one of each per slice of symbols |
| Throttle | `tools/throttle.cpp` | quota, expiry, suspension | read headers and statuses of answers | gates every connection |
| Parser, map, encoder | `protocol/json` | none | conversions | |
| Config, flags, crypto, bridges | | constants | | |

What makes each of them correct, and what is hard about it:

* **Account streams.** READY must mean: logged in, subscribed, and each query asked
  after its channel and answered, in this session. The answer may be an error: a query
  that fails is committed like one that succeeds (`order_entry.cpp:271`, `:320`, `:386`),
  so only a session in which nothing failed is sure of its snapshots. Two connections
  fail independently; answers arrive in a later session than their questions; the
  download is polled through flags.
* **Order requests.** What is reported about an order must agree with what became
  of it at the exchange, although answers get lost and requests run late.
* **Throttle.** A shared suspension is computed from headers that arrive one by one
  and from answers of several connections.
* **Subscriptions.** Every symbol is asked for exactly once on each feed, however
  downloads, clients, new streams and reconnects fall.
* **Reference data download.** It finishes on a connection that stays, and handles
  the data of each state once, though old answers arrive in new connections.
* **Order updates.** What is published about an order comes from two connections that
  know nothing of each other and passes through conversions in both directions; nothing
  may fall between the snapshot and the stream, and nothing may be renamed on the way.
* **Parser.** A frame's handler depends on the order of its keys, and an unexpected
  handler ends the process.
* **Depth feed.** What is published of a symbol must be the exchange's book as of the
  number it is published under, though increments and snapshots are joined after the
  fact; a gap must be noticed and the book asked for again, over lost sessions.
* **Trading status.** What a download publishes of a symbol must follow the listing.

`PROJECT.json` lists the hazards line by line.

## Modules

**`AccountStreams`** models DropCopy, OrderEntry's private queries and Request for one
account. `pending`, `in_progress` and `responded` are the states of the four
`core::limit::Request`s; `inflight` the REST requests that wait for their callback;
`replies` what the exchange owes on the websocket. One action per handler: the two
connections (`RestConnected`, `RestDisconnected`, `WsReady`, `WsDisconnected`), the
login (`AuthAccepted`, `AuthRejected`), `SubReply`, the callbacks (`PrivateAck`,
`GetOrderAck`) and the timer. The timer is one action for both streams, since
`Controller::dispatch` runs OrderEntry and then DropCopy in one handler: DropCopy
sees what OrderEntry has just sent. It is split by what the rate limiter lets go
(`TimerSends`, `TimerHolds`). A private query ends with an answer, with an accounts list
that is empty, or with an error (`Outcomes`). `accepted`, `acked`, `settled`, `failed` and
`disturbed` are history that only properties read: `settled` are the queries whose last
answer, good or bad, was to a request of this session after its channel, `failed` those
whose last answer was an error, and `SnapshotsTaken` are the snapshots in the one and not
in the other.

**`AccountSession`** is what the account streams promise to those who follow the status
of DropCopy: a session is accepted once, a channel is acknowledged only after that, a
query is settled (answered, or failed) only after its channel, READY needs all of them and
is left only by losing the session. `AccountStreams` implements it (`ImplementsSession`):
`status` is `dc_status`, `subscribed` is `acked`, `settled` is `settled` without the
account query.

**`OrderActions`** models the order requests of clients: `PlaceOrder`, `CancelOrder`,
`CancelAllOrders`, their callbacks (`Answer`, through `process_response`), and the
exchange (`Execute`, `Refuse`, `Finish`). `log` keeps what each request asked, what
became of it and what was reported.

**`Throttle`** has one action per header, per refusing status and for the clock.

**`Subscriptions`** models `core::Symbols`, the two rows of streams, their request
queues and sessions; `asked` is what was sent in the session. `RestSymbols` is the whole
handler of a download's list: it drops what is offline, disabled or discarded, publishes the
status of the rest (`trading`), and hands the new symbols on. `disabled` is history.

**`DepthFeed`** models MBPFeed for one symbol. A sequence number is one change of the
exchange's book and a book is the set of changes it contains, so a change missing or a
number that claims too much shows. `queue` is the request queue of the stream, `sequencer`
the library's sequencer of the symbol, `book` what readers have; `Mbp`, `MbpSnapshot`,
`ErrorReply`, `Ready`, `Disconnected` and `Timer` are the handlers, `PublishSnapshot`,
`PublishUpdate`, `RequestSnapshot` and `Resubscribe` the callbacks of the sequencer and the
`catch` around it. `seen` and `lost` are history.

**`OrderBook`** is what readers are promised: the book of the exchange, whole, at the
number it is published under, and never an older one. `DepthFeed` implements it
(`ImplementsBook`).

**`RestDownload`** models the download of reference data with its sequence numbers.

**`OrderUpdates`** models what is published about orders. The exchange keeps the orders
(`order`), the messages it has not served yet (`requests`), the channels it serves
(`subs`), the frames on the websocket (`channel`) and the query for open orders (`query`);
the gateway keeps the status of DropCopy (`status`), how far its download has come
(`download`), whether the query is still to be sent (`wanted`) and how it was answered
(`responded`). The download is kept when the websocket is lost, as in
`drop_copy.cpp:173-177`: a timer may move the old one on, by an old answer, and subscribe
before the new login is accepted, which starts it over. `KindFor` and `ToExchange` are the
encoder's conversion of a client's order; `SideOf`, `OrderTypeOf`, `TimeInForceOf`, `IsMaker` and `StatusOf` are those of
`map.cpp` in the other direction. `WsReady`, `Disconnected`, `AuthAccepted`, `Subscribe`,
`DownloadTimer`, `SubOrders`, `SubTrades`, `OrderEvent` and `Clearing` are handlers of
DropCopy (the first subscription stands for the states up to GET_BALANCES), `SendQuery` and
`OpenOrdersAck` are OrderEntry's. Refused logins, balances, the rate limiter and stale
orders are left to `AccountStreams`, and an answer to an older query is taken not to
satisfy a newer one (`HasResponse`, as `NewestOnly` there). `updates`, `fills` and
`touched` are history. Dropped data: prices, order ids, fees.

Two properties are no stronger than the code: `OpenOrdersAreKnown` needs the query of
the session to have succeeded, and `FillsComeWithUpdates` speaks of the fills of a READY
stream, because a kept download may subscribe to `trade.clearing` (`drop_copy.cpp:248`)
before the orders of its new session.

**`WireParser`** models the walk of `parser.cpp` over the keys of a frame, one action per
key, and the handlers each of the three websockets has. A frame is the sequence of its
deciding fields, in any order; it is *tidy* when `action` or `status` comes before `ch`,
`rep` and `message`, as in every message of the tests. Beside the messages a stream
expects, of which the refused login of `test/json_req.cpp` is one, there are messages with
names the parser does not know and messages with empty names; an empty name ends the process
whatever the settings are (`Undefined`). `Fatal` is what the streams end it for: a handler they do
not expect, and a refused login that is not to be tried again.

Each module that is run has an `MC` module that gives the symmetry or the lists of a run, and one
or more `.cfg` files.

## Runs

| Run | Question | Bounds |
|---|---|---|
| `account_streams_newest` | safety of login and download; the streams implement `AccountSession` | two orders, both may be stale and may vanish; all interleavings, no other bound; a refused login is repeated |
| `account_streams_live` | liveness; its safety half, that nothing waits for nobody; and what is left of the currency of the answers if an old one satisfies a new query | one order, which can always be found; a refused login ends the process, so deadlock is not checked |
| `throttle` | suspensions | headers that remain 0 or more and expire in the past, soon and late; eight units of time, more than the longest backoff |
| `subscriptions` | each symbol is asked for once on each feed, by the stream of its slice | three symbols over slices of two: a slice half filled, filled, and a second slice; one symbol is discarded by downloads but may come from a client, one has its trading disabled |
| `rest_download` | the download ends, each state once | four requests outstanding, sequence numbers modulo four, so numbers wrap while old requests are outstanding |
| `order_actions` | reports agree with outcomes | two orders, four requests: create, cancel, cancel again and cancel-all in any order |
| `order_updates` | orders keep their terms in both conversions; nothing falls between snapshot and stream | one order, since all its parts speak of one order and other orders only delay its frames, which the model does anyway; every buy a client can ask for (post-only if it has a limit: `KindFor` looks at nothing else of the others) and one sale, and of orders placed elsewhere the two types that no ask is converted to (`MCAsks`, `MCForeign`; the conversions are proved for all); two lots, so orders fill at once, in parts, or are canceled half filled, under either name; any number of sessions |
| `depth_feed` | what is published is the exchange's book; a live book misses nothing; another is asked for, but in three ways | seven changes of the book: enough for a gap, a snapshot behind it, one ahead of it and a further session; one retry, so retries are used up; any number of sessions |
| `wire_parser` | each frame reaches its handler, replies and refusals if tidy; what ends the process | every message of each stream, a refused login, unknown and empty names among them, its keys in every order, both values of both settings; the process may end, so deadlock is not checked |
| `order_actions_cancel_all` | violated | finding 1 |
| `order_actions_cancel` | violated | finding 2 |
| `subscriptions_halt` | violated | finding 3 |

The models of the account streams and of the order requests have no counters to
bound: their queues are bounded by the gates of the code (one query at a time, one
request per id). Each property of a passing run has a mutant in `PROJECT.json`: a
change of the model that a plausible bug would make, for which TLC finds the property
violated.

### Findings

1. `cancel_all_orders_ack` reports `ACCEPTED` for any 2xx, also when the body says
   `"status":"error"` (`order_entry.cpp:748-753`, with a TODO at :750); a test calls
   such a body a failure.
2. `cancel_order_ack` reports its outcome as one of `CREATE_ORDER`
   (`order_entry.cpp:628`, `:659`).
3. A symbol that was published `OPEN` and is then listed with `api-trading` disabled stays
   `OPEN`: `rest.cpp:361` drops the item before its status is published. The table at
   `index.rst:230-238` says it becomes `HALT`; `map.cpp:358` would make it `CLOSE`.

### What depends on the library

* `has_response`: if an answer to an older query counts for a newer one
  (`NewestOnly = FALSE`), a READY stream may hold an old snapshot and the fatal at
  `drop_copy.cpp:549` can be reached, so the session is implemented with TRUE only. What
  still holds is `ReadyAnswersAreCovered`, checked with FALSE: the answer to this session's
  query is at least on its way. `OrderUpdates` takes TRUE.
* The depth sequencer (`market::mbp::Sequencer`) is modelled by the contract its callbacks
  imply: increments are kept until a snapshot joins them, a break of the chain raises
  `BadState`, a snapshot ahead of the increments is held. Whether it asks again before the
  snapshot has come, and whether an outdated snapshot makes it ask again or start over, is
  open in the model. Nothing is taken for granted of repeated requests: a
  request that went down with its session or was refused may never be repeated (`lost`).
  Such a book, and one whose retries are used up, waits for nothing, and
  `WaitingBooksAreAskedFor` says no more than that these are the only ways;
  `LiveBooksFollow` holds of every book without exception. A frame that cannot be decoded
  ends the process (`mbp_feed.cpp:215-217`) and is left out; a refused subscription is one
  for which nothing is pushed.
* `find_order`: if it misses all the orders that were reported stale
  (`OrdersMayVanish = TRUE`) the query is never committed and the download waits for
  ever (`order_entry.cpp:773`). Liveness is therefore checked with FALSE.
* `Download2::retry`: if it does not ask again (`RetryRuns = FALSE`), a failed request
  leaves the download waiting until the next connection. Safety is proved for both.
* A 5xx (`ServerErrorsAreFinal`): it is reported as a rejection by the exchange
  (`order_entry.cpp:815`). If the request was or will be run all the same, an order
  reported as rejected is live.
* What the exchange calls an order canceled after a trade (`PartialCancels`): the gateway
  has no name for `partial-canceled` and publishes UNDEFINED (`StatusOf`), so
  `StatusTellsTheEnd` speaks of cancellations only under the other name.
* The order of the keys in a frame is the exchange's. A push reaches its handler in any
  order, but an untidy reply to a subscription would be taken for an order or a trade:
  `FramesAreHandledAsMeant` leaves out replies and refusals that are not tidy. An untidy
  reply to a login ends the process unless unknown messages are allowed, the last case of
  `OnlyUnnamedOrRefusedIsFatal`.
* Taken for granted: a request gets exactly one callback, in the order of the
  requests, and never from inside the call that made it; `Request::Handler::ready`
  gates sending and `commit` opens it again; `refresh` is true only while the
  websocket is open; after `close` no frame is delivered; the exchange replies to
  websocket messages in order. Redirections (fatal in `process_response`) and
  status 409 (an assertion) are left out. So is a handler of a callback that throws:
  nothing is taken to throw once a report is published, so that the `catch` clauses of
  `process_response` (`order_entry.cpp:821-830`) report only what nobody has reported yet;
  the one for `oms::Exception` (:821), which a success handler alone could throw, is left
  out with it.

## Fairness

`AccountStreams`: timers fire for ever, and again and again find the REST connection
up and the rate limiter willing (strong fairness of `TimerSends`); lost connections are
made again (the library always reconnects); requests are answered or time out; the
exchange replies on a websocket that stays. Nothing is assumed about answers being
successes, nor about connections staying up: the properties end in "or the websocket
is lost". `RestDownload`: every request gets its callback, and the exchange does not
refuse for ever.

## Proofs

All theorems hold for every value of the constants that the named assumptions allow,
and rest on nothing else. Each `_proofs` module states its inductive invariant, a
lemma per action, and derives the properties.

* `AccountStreams_proofs`, in four parts:
  * Types; the counter equals the order queries outstanding, which needs that queries of
    stale orders are sent only when none is in progress; stale orders are noted exactly
    while their query is pending; READY is subscribed, which needs that a download passes
    its states in order and starts over with each login; and, with answers of the newest
    query, neither fatal is reachable.
  * The currency of the answers and the refinement. At most one private query is on the
    REST connection and it is in progress (`OneFlies`); with answers of the newest query
    the download passes a query only when it is done (`Finished`); from the moment the
    download reaches it, a query is pending, on its way or settled (`Covered`); and what
    is called settled was asked for after its channel, with no older query behind it that
    could replace it (`Truthful`). With these, each step of the streams is a step of
    `AccountSession` or none. `Successful` adds that in an undisturbed session what was
    settled did not fail, so that READY there does mean an account and both snapshots
    (`UndisturbedComplete`).
  * The safety half of `AcceptedLoginCompletes`, for every setting: a query in progress
    has its answer to come (`Answering`), and a download that is not READY has its reply
    due, or its query or its answer there (`Moving`). For the query of stale orders this
    is the counter of the first part, and that they are asked for only while some are
    noted; the exception is the query for orders that have all vanished.
  * Two action properties, for every setting: READY is given up only for DISCONNECTED
    (`ReadyIsKept`), and an answer about an order never finds the counter at zero, which
    is fatal at `order_entry.cpp:485` (`OrderAnswersAreExpected`).
* `Throttle_proofs`: the types and the three properties of the throttle.
* `RestDownload_proofs`: for both kinds of retry. A retry does not look at the sequence
  number of the request that failed, only at its state. It is shown to be quiet (it moves
  neither the state nor what was handled) and, when it runs, to put a request of the
  present state and number behind the others, so that the download still waits for
  something that moves it on (`RetryIsQuiet`, `RetryIsWaitedFor`); requests may well be
  outstanding twice. `ReadyIsKept`: nor does such a failure, late, take a ready stream
  back to its download.
* `OrderActions_proofs`: the invariant says of each request what its reports are in
  each of its phases (`Reported`), that one request creates an order (`Placing`) and
  what the exchange's view of an order says about its requests (`Lives`).
  `FinalReportsStand`: what is reported of a request ends with its final report.
* `OrderUpdates_proofs`: for any number of orders and any size. Every frame, snapshot item
  and update has the type of its order (`SaidOK`), which an ask was converted to once
  (`OrdersOK`); `RoundTrip` says that what can be expressed comes back. That nothing falls
  between snapshot and stream needs that the login is the first thing said on a websocket in
  both directions and its acceptance starts the download over (`SessionOK`): until it has
  been read, what the download does is an older session's and proves nothing (`LoggedIn`).
  From there on (`KnownOK`) an open order either changed since its channel was served, or is
  in the answer as it still is (`ItemsOK`), or is known (`AnswerOK`, `DoneOK`). A second invariant carries the
  story of each order: every frame and update says what the order was after the act it
  shows (`StoryOK`), and each fill behind the reply to the orders' subscription, and so each
  fill of a READY stream, has a frame or update of the order's stream that shows its trade
  (`ShownOK`).
* `DepthFeed_proofs`: for any number of changes and retries. `BookInv` gives the
  refinement: increments on their way are in order and none goes back behind the book or the
  sequencer (`InOrder`, `Ahead`). `GapInv` gives both that live books follow the exchange and
  that others are asked for: a session begins
  with its subscription (`SubscribesFirst`), what the sequencer kept from before was lost
  (`NothingAskedYet`), the increments form a chain up to what was told (`Chained`), and the
  sequencer stands at its beginning (`InStep`) or waits for a book (`WaitsForBook`).
* `Subscriptions_proofs`: for any lists and any size of a slice. `NewOfLists` says what the
  new symbols of a list are; it rests on the existence of an increasing enumeration of a
  finite set, shown by the least number for which there is none. `SliceGrows` and
  `RequestsJoin` say that the requests for a slice, followed by those for what it gains, are
  the requests for the grown slice: the heart of `ReadyAsksForItsSlice`. That no theme
  is asked for twice, or missing, on a whole feed (`AskedForOnce`) follows: the slices
  partition the symbols (`SlicesDiffer`, `SlicesCover`), and the place of a request in
  its stream gives its symbol and its theme (`NumbersOfMessages`, `ThemesDiffer`).
* `WireParser_proofs`: for every symbol and all settings.
  All fields of a message that decide agree on its meaning, unless one of its deciding keys
  is in their way (`MessageOK`, shown for each message of each stream). The walk keeps that
  the fields behind it are the rest of such a message with nothing decided (`Undecided`),
  so what decides is what was meant (`Decided`), or is empty and ends the process.

The types of `Throttle` and `OrderActions` are proved; no run checks them as well.

Every safety property and action property that a run checks and that holds is proved. Only
model-checked are the liveness properties (`AcceptedLoginCompletes`, `StaleOrdersAreSent`,
`ConnectionGetsReady`): fairness is out of the prover's reach. `AwaitedIsUnderWay`,
`StaleOrdersAreAskedFor` and `DownloadIsWaitedFor` are the parts of them that are
proved: something that can move is always there.

## Not modelled

The rows of balances: both rows of a currency are published as they come, and what a reader
makes of them is up to the order management system. MarketData's conversion of best prices,
trades and statistics keeps nothing between messages. Routing an order to the stream of its
account is a lookup in a map that the start fills. Prices, quantities and levels are left
out, as are the encoder's texts, signatures, configuration, applications and bridges:
conversions or constants without state.

## Plan

1. `Gateway`: Controller's routing over several accounts, composed of `AccountStreams`.
2. Balances as rows of a snapshot against updates of the channel.
