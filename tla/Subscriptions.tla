----------------------------- MODULE Subscriptions -----------------------------
(***************************************************************************)
(* How symbols reach the market data streams.  Symbols arrive from the     *)
(* exchange (Rest, each time its download passes SYMBOLS) and from clients *)
(* (Controller, Subscribe).  Controller gives the new ones to core::Symbols,*)
(* which cuts them into slices; for each slice there is one MarketData and *)
(* one MBPFeed, each with its own websocket and request queue.  A stream   *)
(* asks for its whole slice when its websocket becomes ready and for the   *)
(* new part of its slice while it is ready.  The download also publishes   *)
(* whether a symbol is traded.                                             *)
(*                                                                         *)
(* One event loop runs all of this: each handler is one atomic action, and *)
(* what interleaves is the order of downloads, client subscriptions,       *)
(* connections lost and made, and timers.                                  *)
(***************************************************************************)
EXTENDS Naturals, Sequences, FiniteSetsExt

CONSTANTS
    Symbol,            \* the symbols of the exchange and of the clients
    Discarded,         \* those that the configuration discards (discard_symbol)
    MaxSubscriptions,  \* settings.ws.max_subscriptions_per_stream
    Downloads,         \* what downloads may bring, each a sequence of items
    Subscribes         \* symbol lists a client may subscribe, each a sequence

ASSUME DiscardedAssumption == Discarded \subseteq Symbol
ASSUME MaxAssumption == MaxSubscriptions \in Nat \ {0}
ASSUME ListsAssumption ==
    /\ Downloads \subseteq Seq([symbol : Symbol, online : BOOLEAN, enabled : BOOLEAN])
    /\ Subscribes \subseteq Seq(Symbol)

VARIABLES
    all_symbols,  \* shared_.all_symbols
    symbols,      \* core::Symbols: the symbols in the order they were added
    trading,      \* the trading status published last, per symbol
    disabled,     \* history: symbols whose last listing had trading disabled
    streams       \* market_data_ and mbp_feed_: per feed, one stream per slice

vars == <<all_symbols, symbols, trading, disabled, streams>>

Feeds == {"market_data", "mbp_feed"}

\* What MarketData::subscribe and MBPFeed::subscribe ask for, per symbol.
Themes == [market_data |-> <<"bbo", "ticker", "trade.detail", "detail">>,
           mbp_feed |-> <<"mbp.20">>]

\* The messages of a subscribe() for some symbols, in order.
Requests(feed, some) ==
    LET n == Len(Themes[feed]) IN
    [k \in 1..Len(some) * n |->
        <<some[((k - 1) \div n) + 1], Themes[feed][((k - 1) % n) + 1]>>]

-------------------------------------------------------------------------------
(* core::Symbols, from its use: slices of at most MaxSubscriptions symbols, *)
(* filled in order; start_from is the place of the first new symbol.        *)

Slices(all) == (Len(all) + MaxSubscriptions - 1) \div MaxSubscriptions

Later(a, b) == IF a >= b THEN a ELSE b
Earlier(a, b) == IF a <= b THEN a ELSE b

\* get_slice: the part of slice i (from 1) that lies after the first `from` symbols.
GetSlice(all, i, from) ==
    SubSeq(all, Later((i - 1) * MaxSubscriptions, from) + 1,
                Earlier(i * MaxSubscriptions, Len(all)))

-------------------------------------------------------------------------------
\* A stream as its constructor leaves it; asked is history: what was sent to the
\* exchange in this session.
NewStream == [status |-> "UNDEFINED", queue |-> <<>>, asked |-> <<>>]

\* subscribe(start_from): a stream that is not ready leaves it to its Ready.
Subscribed(feed, i, stream, all, from) ==
    IF stream.status = "READY"
    THEN [stream EXCEPT !.queue = @ \o Requests(feed, GetSlice(all, i, from))]
    ELSE stream

\* ensure_symbol_slices, then subscribe on every stream.
UpdateStreams(all, size, from) ==
    LET grown(feed) == [i \in 1..Later(size, Len(streams[feed])) |->
                           IF i \in DOMAIN streams[feed] THEN streams[feed][i] ELSE NewStream]
    IN streams' = [feed \in Feeds |->
                      [i \in DOMAIN grown(feed) |-> Subscribed(feed, i, grown(feed)[i], all, from)]]

\* A mutant of SymbolsUpdate: every update asks for everything again.
SymbolsUpdateFromStart(new) ==
    /\ symbols' = symbols \o new
    /\ UpdateStreams(symbols', Slices(symbols'), 0)

\* Controller, SymbolsUpdate: slice the new symbols, make the streams that are
\* missing, have every stream subscribe the new part of its slice.
SymbolsUpdate(new) ==
    /\ symbols' = symbols \o new
    /\ UpdateStreams(symbols', Slices(symbols'), Len(symbols))

\* all_symbols.emplace(...).second, item by item, for those of some places in a list
\* of symbols: the first of each new symbol, in the order of the list.
NewOf(list, places) ==
    LET first == {i \in places : /\ list[i] \notin all_symbols
                                 /\ \A j \in places : j < i => list[j] # list[i]}
        place == CHOOSE f \in [1..Cardinality(first) -> first] :
                     \A j, k \in DOMAIN f : j < k => f[j] < f[k]
    IN  [k \in DOMAIN place |-> list[place[k]]]

\* The items of a download that are not dropped, and those of one symbol.
Included(list) ==
    {i \in DOMAIN list : list[i].online /\ list[i].enabled /\ list[i].symbol \notin Discarded}
Listed(list, s) == {i \in DOMAIN list : list[i].symbol = s}

\* map(Trading): what is published for an item.
TradingStatus(item) == IF item.enabled THEN "OPEN" ELSE "CLOSE"

\* MarketStatus is published for each item included; history notes what is disabled.
PublishMarketStatus(list) ==
    /\ trading' = [s \in Symbol |->
                      LET some == Included(list) \cap Listed(list, s)
                      IN  IF some = {} THEN trading[s] ELSE TradingStatus(list[Max(some)])]
    /\ disabled' = {s \in Symbol :
                      LET all == Listed(list, s)
                      IN  IF all = {} THEN s \in disabled ELSE ~list[Max(all)].enabled}

\* The new symbols of a download.
NewSymbols(list) == NewOf([i \in DOMAIN list |-> list[i].symbol], Included(list))

\* A mutant of RestSymbols: the download's symbols are not remembered.
RestSymbolsForgets(list) ==
    /\ PublishMarketStatus(list)
    /\ UNCHANGED all_symbols
    /\ IF NewSymbols(list) # <<>> THEN SymbolsUpdate(NewSymbols(list))
                                  ELSE UNCHANGED <<symbols, streams>>

\* Rest, Symbols: the items included are published, the new ones among them asked for.
RestSymbols(list) ==
    /\ PublishMarketStatus(list)
    /\ all_symbols' = all_symbols \cup Range(NewSymbols(list))
    /\ IF NewSymbols(list) # <<>> THEN SymbolsUpdate(NewSymbols(list))
                                  ELSE UNCHANGED <<symbols, streams>>

\* Controller, Subscribe: a duplicate is refused with a warning; the update is
\* dispatched even when nothing is left.
Subscribe(list) ==
    /\ all_symbols' = all_symbols \cup Range(list)
    /\ SymbolsUpdate(NewOf(list, DOMAIN list))
    /\ UNCHANGED <<trading, disabled>>

\* One stream's state replaced, for the handlers of a single stream.
OnStream(feed, i, stream) ==
    /\ streams' = [streams EXCEPT ![feed][i] = stream]
    /\ UNCHANGED <<all_symbols, symbols, trading, disabled>>

\* The websocket is ready: subscribe() asks for the whole slice.
Ready(feed, i) ==
    /\ streams[feed][i].status # "READY"
    /\ OnStream(feed, i, Subscribed(feed, i, [streams[feed][i] EXCEPT !.status = "READY"],
                                    symbols, 0))

\* A mutant of Disconnected: what is queued is kept for the next session.
DisconnectedKeepsQueue(feed, i) ==
    OnStream(feed, i, [streams[feed][i] EXCEPT !.status = "DISCONNECTED", !.asked = <<>>])

\* The websocket is lost, or was not made: the queue is cleared; the exchange
\* forgets the session.
Disconnected(feed, i) ==
    OnStream(feed, i, [NewStream EXCEPT !.status = "DISCONNECTED"])

\* The timer of a ready stream: the rate limiter lets n requests go.
Timer(feed, i, n) ==
    LET stream == streams[feed][i] IN
    /\ stream.status = "READY"
    /\ OnStream(feed, i, [stream EXCEPT !.queue = SubSeq(@, n + 1, Len(@)),
                                        !.asked = @ \o SubSeq(stream.queue, 1, n)])

-------------------------------------------------------------------------------
Init ==
    /\ all_symbols = {}
    /\ symbols = <<>>
    /\ trading = [s \in Symbol |-> "UNDEFINED"] /\ disabled = {}
    /\ streams = [feed \in Feeds |-> <<>>]

Next ==
    \/ \E list \in Downloads : RestSymbols(list)
    \/ \E list \in Subscribes : Subscribe(list)
    \/ \E feed \in Feeds : \E i \in DOMAIN streams[feed] :
         \/ Ready(feed, i)
         \/ Disconnected(feed, i)
         \/ \E n \in 1..Len(streams[feed][i].queue) : Timer(feed, i, n)

Spec == Init /\ [][Next]_vars

-------------------------------------------------------------------------------
(* Properties                                                               *)

\* A ready stream has asked, or is about to ask, for every theme of every symbol of
\* its slice exactly once in this session, however updates, reconnects and timers fell.
ReadyAsksForItsSlice ==
    \A feed \in Feeds : \A i \in DOMAIN streams[feed] :
        LET stream == streams[feed][i] IN
        stream.status = "READY" =>
            stream.asked \o stream.queue = Requests(feed, GetSlice(symbols, i, 0))

\* A symbol has one place, whether it came from the exchange, from a client or
\* from both, and each slice has its stream on both feeds: no symbol is asked for by
\* two streams of a feed, and none is left without.
SymbolsHaveOnePlace ==
    /\ Range(symbols) = all_symbols
    /\ \A i, j \in DOMAIN symbols : symbols[i] = symbols[j] => i = j
    /\ \A feed \in Feeds : Len(streams[feed]) = Slices(symbols)

\* What a stream has asked for or is about to ask for in its session.
AskedFor(feed, i) == streams[feed][i].asked \o streams[feed][i].queue

\* What the two above come to.  No theme of a symbol is asked for twice on a feed, by two
\* streams or by one; and while all streams of a feed are ready none is missing.
EachSymbolIsAskedForOnce ==
    \A feed \in Feeds :
        /\ \A i, j \in DOMAIN streams[feed] :
             \A k \in DOMAIN AskedFor(feed, i), m \in DOMAIN AskedFor(feed, j) :
                AskedFor(feed, i)[k] = AskedFor(feed, j)[m] => i = j /\ k = m
        /\ (\A i \in DOMAIN streams[feed] : streams[feed][i].status = "READY") =>
             \A s \in all_symbols : \A t \in DOMAIN Themes[feed] :
                \E i \in DOMAIN streams[feed] : \E k \in DOMAIN AskedFor(feed, i) :
                   AskedFor(feed, i)[k] = <<s, Themes[feed][t]>>

\* What index.rst:230-238 says of TradingStatus: a symbol whose api_trading is disabled is
\* halted.  (A symbol that was never published has no status to correct.)
DisabledMarketsAreHalted ==
    \A s \in disabled : trading[s] # "UNDEFINED" => trading[s] = "HALT"
================================================================================
