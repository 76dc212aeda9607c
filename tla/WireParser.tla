------------------------------ MODULE WireParser ------------------------------
(***************************************************************************)
(* How a frame finds its handler.  All websockets share one parser, which  *)
(* walks over the keys of a JSON object in the order of the text and       *)
(* dispatches at the first key that decides.  A stream ends the process    *)
(* with log::fatal on a message that it does not expect and on a refused   *)
(* login, the parser on one that no key decided, unless that is allowed,   *)
(* and on an action, a channel or a status that is empty.                  *)
(*                                                                         *)
(* A frame is the sequence of those of its fields that the parser looks    *)
(* at; a channel is the sequence of its parts between the dots.            *)
(***************************************************************************)
EXTENDS Naturals, Sequences, FiniteSets

CONSTANTS
    Symbol         \* a symbol

VARIABLES
    settings,  \* settings.experimental: allow_unknown_event_types and retry_logon
    running,   \* FALSE once a log::fatal has ended the process
    frame,     \* the frame in hand: its stream, what it means, is it a refused login,
               \* is it tidy?
    rest,      \* its fields not looked at yet
    phase,     \* "idle", "parsing" or "parsed"
    result,    \* the parser's result
    handled    \* handlers this frame was dispatched to

vars == <<settings, running, frame, rest, phase, result, handled>>

-------------------------------------------------------------------------------
(* What the exchange sends                                                  *)

Streams == {"DropCopy", "MarketData", "MBPFeed"}

PrivateChannels == {<<"accounts", "update">>, <<"orders#*">>, <<"trade", "clearing#*">>}
Market(theme) == <<"market", Symbol>> \o theme

Message(meaning, fields) == [meaning |-> meaning, fields |-> fields, refused |-> FALSE]
Pushed(meaning, ch) == Message(meaning, {<<"action", "push">>, <<"ch", ch>>})

\* The reply to a login that is refused has a message.
RefusedLogin ==
    [Message("Req", {<<"action", "req">>, <<"ch", <<"auth">>>>, <<"message", "text">>})
        EXCEPT !.refused = TRUE]

PrivateMessages ==
    {Message("Req", {<<"action", "req">>, <<"ch", <<"auth">>>>}),
     RefusedLogin,
     Message("Ping", {<<"action", "ping">>}),
     Message("Error2", {<<"message", "text">>}),
     Pushed("Accounts", <<"accounts", "update">>),
     Pushed("Orders", <<"orders#*">>),
     Pushed("Clearing", <<"trade", "clearing#*">>)}
    \cup {Message("Sub", {<<"action", "sub">>, <<"ch", ch>>}) : ch \in PrivateChannels}
    \cup {Message("Sub", {<<"action", "sub">>, <<"ch", ch>>, <<"message", "text">>})
            : ch \in PrivateChannels}
PublicMessages ==
    {Message("Ping2", {<<"ping", "time">>}),
     Message("Error", {<<"status", "error">>}),
     Message("Subbed", {<<"status", "ok">>, <<"subbed", "text">>})}
MarketMessages ==
    PublicMessages \cup
    {Message("BBO", {<<"ch", Market(<<"bbo">>)>>}),
     Message("Trade", {<<"ch", Market(<<"trade", "detail">>)>>}),
     Message("Detail", {<<"ch", Market(<<"detail">>)>>}),
     Message("Ticker", {<<"ch", Market(<<"ticker">>)>>})}
DepthMessages ==
    PublicMessages \cup
    {Message("MBP", {<<"ch", Market(<<"mbp", "20">>)>>}),
     Message("MBPSnapshot", {<<"status", "ok">>, <<"rep", Market(<<"mbp", "20">>)>>}),
     Message("Error", {<<"status", "error">>, <<"rep", Market(<<"mbp", "20">>)>>})}

\* Messages this version has no name for, on any stream.
UnknownMessages ==
    {Message("Unknown", {<<"action", "new">>, <<"ch", <<"new">>>>}),
     Message("Unknown", {<<"ch", Market(<<"new">>)>>}),
     Message("Unknown", {<<"status", "new">>, <<"rep", Market(<<"new">>)>>}),
     Message("Unknown", {})}

\* Messages with an empty name where the parser expects one.
UndefinedMessages ==
    {Message("Undefined", {<<"action", "">>, <<"ch", <<"new">>>>}),
     Message("Undefined", {<<"action", "push">>, <<"ch", <<"">>>>}),
     Message("Undefined", {<<"status", "">>, <<"rep", Market(<<"new">>)>>})}

Messages(stream) ==
    UnknownMessages \cup UndefinedMessages \cup
        CASE stream = "DropCopy" -> PrivateMessages
          [] stream = "MarketData" -> MarketMessages
          [] stream = "MBPFeed" -> DepthMessages

\* The texts of a message: its fields in any order.  In a tidy one action and
\* status come before the keys named here, as in every message of the tests.
Texts(message) ==
    LET n == Cardinality(message.fields)
    IN  {text \in [1..n -> message.fields] : \A i, j \in 1..n : text[i] = text[j] => i = j}
Tidy(text) ==
    \A i, j \in 1..Len(text) :
        text[i][1] \in {"action", "status"} /\ text[j][1] \in {"ch", "rep", "message"} => i < j

Delivered(stream) ==
    /\ running /\ phase = "idle"
    /\ \E message \in Messages(stream) : \E text \in Texts(message) :
        /\ frame' = [stream |-> stream, meaning |-> message.meaning,
                     refused |-> message.refused, tidy |-> Tidy(text)]
        /\ rest' = text
    /\ phase' = "parsing" /\ result' = FALSE /\ handled' = <<>>
    /\ UNCHANGED <<settings, running>>

-------------------------------------------------------------------------------
(* The handlers of the streams: the messages they expect                    *)

DropCopyHandles ==
    {"Req", "Ping", "Ping2", "Error", "Error2", "Sub", "Accounts", "Orders", "Clearing"}

\* A mutant of MarketDataHandles: tickers, which nobody reads, are not expected.
MarketDataHandlesNoTicker ==
    {"Ping", "Ping2", "Error", "Error2", "Sub", "Subbed", "BBO", "Trade", "Detail"}
MarketDataHandles ==
    {"Ping", "Ping2", "Error", "Error2", "Sub", "Subbed", "BBO", "Trade", "Detail", "Ticker"}
MBPFeedHandles ==
    {"Ping", "Ping2", "Error", "Error2", "Sub", "Subbed", "MBP", "MBPSnapshot"}

Handles(stream) == CASE stream = "DropCopy" -> DropCopyHandles
                     [] stream = "MarketData" -> MarketDataHandles
                     [] stream = "MBPFeed" -> MBPFeedHandles

\* A handler that is not expected is fatal; the one of login replies if the login was
\* refused and is not to be tried again.
Fatal(handler) ==
    \/ handler \notin Handles(frame.stream)
    \/ handler = "Req" /\ frame.refused /\ ~settings.retry_logon

-------------------------------------------------------------------------------
(* The parser                                                               *)

\* The topic of a channel: of market.<symbol>.<topic>... the third part.
ExtractTopic(ch) ==
    CASE ch = <<"orders#*">> -> "orders"
      [] ch = <<"trade", "clearing#*">> -> "clearing"
      [] ch[1] = "accounts" -> ch[1]
      [] OTHER -> IF Len(ch) > 2 THEN ch[3] ELSE ch[Len(ch)]

\* Topics that are dispatched on, and what they are dispatched as.
TopicHandler == [bbo |-> "BBO", trade |-> "Trade", detail |-> "Detail", ticker |-> "Ticker",
                 mbp |-> "MBP", accounts |-> "Accounts", orders |-> "Orders",
                 clearing |-> "Clearing"]

Field(key) == running /\ phase = "parsing" /\ rest # <<>> /\ Head(rest)[1] = key
Value == Head(rest)[2]

\* The key decides: the handler runs and the walk over the keys ends.
Dispatch(handler) ==
    /\ handled' = Append(handled, handler)
    /\ result' = TRUE
    /\ rest' = <<>> /\ phase' = "parsed"
    /\ running' = ~Fatal(handler)
    /\ UNCHANGED <<settings, frame>>

\* The key does not decide: on to the next one.
Continue == rest' = Tail(rest) /\ UNCHANGED <<settings, running, frame, phase, result, handled>>

\* The key decides that the message is ignored.
Ignore ==
    /\ rest' = <<>> /\ phase' = "parsed"
    /\ UNCHANGED <<settings, running, frame, result, handled>>

\* The key has no name to decide on: the process ends, whatever is allowed.
Undefined ==
    /\ rest' = <<>> /\ phase' = "parsed" /\ running' = FALSE
    /\ UNCHANGED <<settings, frame, result, handled>>

ActionKey ==
    /\ Field("action")
    /\ \/ Value = "sub" /\ Dispatch("Sub")
       \/ Value = "req" /\ Dispatch("Req")
       \/ Value = "ping" /\ Dispatch("Ping")
       \/ Value = "push" /\ Continue
       \/ Value = "" /\ Undefined
       \/ Value \notin {"sub", "req", "ping", "push", ""} /\ Ignore

\* auth, a topic with a name and no handler, is ignored like an unknown one.
ChKey ==
    /\ Field("ch")
    /\ LET topic == ExtractTopic(Value)
       IN  \/ topic \in DOMAIN TopicHandler /\ Dispatch(TopicHandler[topic])
           \/ topic = "" /\ Undefined
           \/ topic \notin DOMAIN TopicHandler \cup {""} /\ Ignore

RepKey ==
    /\ Field("rep")
    /\ IF ExtractTopic(Value) = "mbp" THEN Dispatch("MBPSnapshot") ELSE Continue

\* A mutant of StatusKey: a status of ok decides.
StatusKeyOkEnds ==
    /\ Field("status")
    /\ \/ Value = "error" /\ Dispatch("Error")
       \/ Value = "" /\ Undefined
       \/ Value \notin {"error", ""} /\ Ignore
StatusKey ==
    /\ Field("status")
    /\ \/ Value = "ok" /\ Continue
       \/ Value = "error" /\ Dispatch("Error")
       \/ Value = "" /\ Undefined
       \/ Value \notin {"ok", "error", ""} /\ Ignore

MessageKey == Field("message") /\ Dispatch("Error2")
PingKey == Field("ping") /\ Dispatch("Ping2")
SubbedKey == Field("subbed") /\ Dispatch("Subbed")

NoMoreKeys ==
    /\ running /\ phase = "parsing" /\ rest = <<>>
    /\ phase' = "parsed"
    /\ UNCHANGED <<settings, running, frame, rest, result, handled>>

\* Without a result the process ends, unless that is allowed.
Return ==
    /\ running /\ phase = "parsed"
    /\ running' = (result \/ settings.allow_unknown)
    /\ phase' = "idle"
    /\ UNCHANGED <<settings, frame, rest, result, handled>>

Init ==
    /\ settings \in [allow_unknown : BOOLEAN, retry_logon : BOOLEAN]
    /\ running = TRUE
    /\ frame = [stream |-> "DropCopy", meaning |-> "Unknown", refused |-> FALSE, tidy |-> TRUE]
    /\ rest = <<>> /\ phase = "idle" /\ result = FALSE /\ handled = <<>>
Next ==
    \/ \E stream \in Streams : Delivered(stream)
    \/ ActionKey \/ ChKey \/ RepKey \/ StatusKey \/ MessageKey \/ PingKey \/ SubbedKey
    \/ NoMoreKeys \/ Return

Spec == Init /\ [][Next]_vars

-------------------------------------------------------------------------------
(* Properties                                                               *)

\* Every frame is handled as what it means and by nothing else, and only one without a
\* known name is passed over, whatever the order of its keys: no push is taken for anything
\* but itself.  Replies and refusals need their deciding key first (parser.cpp:95), as it
\* is in a tidy frame: a reply to a subscription that names its channel first is taken for
\* an order or a trade.
OrderMatters == {"Req", "Sub", "Error"}
FramesAreHandledAsMeant ==
    phase = "parsed" /\ (frame.tidy \/ frame.meaning \notin OrderMatters) =>
        handled = IF frame.meaning \in {"Unknown", "Undefined"} THEN <<>> ELSE <<frame.meaning>>

\* Four things end the process and nothing else: an empty action, channel or status; a
\* login that was refused, unless it is to be tried again; and, unless unknown messages
\* are allowed, a name this version does not know and a login reply whose channel comes
\* before its action.  Other frames that are taken for what they are not do no such
\* harm: their stream expects that too.
OnlyUnnamedOrRefusedIsFatal ==
    ~running =>
        \/ frame.meaning = "Undefined"
        \/ frame.refused /\ ~settings.retry_logon
        \/ /\ frame.meaning = "Unknown" \/ (frame.meaning = "Req" /\ ~frame.tidy)
           /\ ~settings.allow_unknown
===============================================================================
