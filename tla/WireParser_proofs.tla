--------------------------- MODULE WireParser_proofs ---------------------------
(***************************************************************************)
(* Each frame reaches the handler of what it means: for every symbol and   *)
(* all settings.  A field decides or it does not; all fields of a message  *)
(* that decide agree on it, unless one of its deciding keys is in their    *)
(* way.                                                                    *)
(***************************************************************************)
EXTENDS WireParser, FiniteSetTheorems, SequenceTheorems, TLAPS

-------------------------------------------------------------------------------
(* What a field decides                                                        *)

\* The walk goes on after these fields.
Continues(f) ==
  \/ f[1] = "action" /\ f[2] = "push"
  \/ f[1] = "status" /\ f[2] = "ok"
  \/ f[1] = "rep" /\ ExtractTopic(f[2]) # "mbp"

\* A field is taken for a message of this meaning: it is dispatched as that, or ignored,
\* or ends the process for want of a name.
Dispatches(f, handler) ==
  \/ f[1] = "action" /\ f[2] = "sub" /\ handler = "Sub"
  \/ f[1] = "action" /\ f[2] = "req" /\ handler = "Req"
  \/ f[1] = "action" /\ f[2] = "ping" /\ handler = "Ping"
  \/ /\ f[1] = "ch" /\ ExtractTopic(f[2]) \in DOMAIN TopicHandler
     /\ handler = TopicHandler[ExtractTopic(f[2])]
  \/ f[1] = "rep" /\ ExtractTopic(f[2]) = "mbp" /\ handler = "MBPSnapshot"
  \/ f[1] = "status" /\ f[2] = "error" /\ handler = "Error"
  \/ f[1] = "message" /\ handler = "Error2"
  \/ f[1] = "ping" /\ handler = "Ping2"
  \/ f[1] = "subbed" /\ handler = "Subbed"
Ignored(f) ==
  \/ f[1] = "action" /\ f[2] \notin {"sub", "req", "ping", "push", ""}
  \/ f[1] = "ch" /\ ExtractTopic(f[2]) \notin DOMAIN TopicHandler \cup {""}
  \/ f[1] = "status" /\ f[2] \notin {"ok", "error", ""}
Nameless(f) ==
  \/ f[1] \in {"action", "status"} /\ f[2] = ""
  \/ f[1] = "ch" /\ ExtractTopic(f[2]) = ""

Keys == {"action", "ch", "rep", "status", "message", "ping", "subbed"}
First == {"action", "status"}
Late == {"ch", "rep", "message"}

\* What a field that does not continue says of its message on a stream.
Nothing == {"Unknown", "Undefined"}
Means(f, stream, meaning) ==
  \/ meaning \in Nothing /\ Ignored(f)
  \/ meaning = "Undefined" /\ Nameless(f)
  \/ meaning \notin Nothing /\ Dispatches(f, meaning) /\ meaning \in Handles(stream)
\* What it may say if a key that decides comes behind it.
Mistakes(f, stream, meaning) ==
  /\ meaning \in OrderMatters /\ f[1] \in Late
  /\ \/ meaning = "Req" /\ Ignored(f)
     \/ \E handler \in Handles(stream) : Dispatches(f, handler)

-------------------------------------------------------------------------------
(* The channels                                                                *)

\* The topic of a channel of the market data is the part behind the symbol.
LEMMA MarketTopic ==
  ASSUME NEW T, NEW theme \in Seq(T), theme # <<>>
  PROVE  ExtractTopic(Market(theme)) = theme[1]
<1> DEFINE Parts == T \cup {"market", Symbol}
           ch == Market(theme)
           prefix == <<"market", Symbol>>
<1>1. theme \in Seq(Parts) /\ prefix \in Seq(Parts)
  OBVIOUS
<1>2. Len(prefix) = 2 /\ prefix[1] = "market" /\ Len(theme) \in Nat /\ Len(theme) > 0
  OBVIOUS
<1> HIDE DEF prefix, Parts
<1>3. /\ Len(prefix \o theme) = Len(prefix) + Len(theme)
      /\ (prefix \o theme)[1] = prefix[1]
      /\ (prefix \o theme)[3] = theme[1]
  <2> DEFINE all == prefix \o theme
  <2>1. /\ Len(all) = Len(prefix) + Len(theme)
        /\ \A i \in 1..Len(prefix) + Len(theme) :
             all[i] = IF i <= Len(prefix) THEN prefix[i] ELSE theme[i - Len(prefix)]
    BY <1>1, ConcatProperties, Zenon
  <2> HIDE DEF all
  <2>2. 1 \in 1..Len(prefix) + Len(theme) /\ 3 \in 1..Len(prefix) + Len(theme)
    BY <1>2
  <2>3. all[1] = prefix[1] /\ all[3] = theme[3 - Len(prefix)]
    BY <1>2, <2>1, <2>2
  <2> QED
    BY <1>2, <2>1, <2>3 DEF all
<1>4. Len(ch) > 2 /\ ch[1] = "market" /\ ch[3] = theme[1]
  BY <1>2, <1>3 DEF Market, prefix
<1>5. ch # <<"orders#*">> /\ ch # <<"trade", "clearing#*">>
  BY <1>4
<1> HIDE DEF ch
<1>6. ch[1] # "accounts"
  BY <1>4
<1>7. ExtractTopic(ch) = IF Len(ch) > 2 THEN ch[3] ELSE ch[Len(ch)]
  BY <1>5, <1>6, Zenon DEF ExtractTopic
<1> QED
  BY <1>4, <1>7 DEF ch

LEMMA MarketTopics ==
  /\ ExtractTopic(Market(<<"bbo">>)) = "bbo"
  /\ ExtractTopic(Market(<<"trade", "detail">>)) = "trade"
  /\ ExtractTopic(Market(<<"detail">>)) = "detail"
  /\ ExtractTopic(Market(<<"ticker">>)) = "ticker"
  /\ ExtractTopic(Market(<<"mbp", "20">>)) = "mbp"
  /\ ExtractTopic(Market(<<"new">>)) = "new"
<1>1. \A a : ExtractTopic(Market(<<a>>)) = a
  <2> TAKE a
  <2>1. <<a>> \in Seq({a}) /\ <<a>> # <<>> /\ <<a>>[1] = a
    OBVIOUS
  <2> QED
    BY <2>1, MarketTopic
<1>2. \A a, b : ExtractTopic(Market(<<a, b>>)) = a
  <2> TAKE a, b
  <2>1. <<a, b>> \in Seq({a, b}) /\ <<a, b>> # <<>> /\ <<a, b>>[1] = a
    OBVIOUS
  <2> QED
    BY <2>1, MarketTopic
<1> QED
  BY <1>1, <1>2

\* The topics of the other channels.
LEMMA OtherTopics ==
  /\ ExtractTopic(<<"accounts", "update">>) = "accounts"
  /\ ExtractTopic(<<"orders#*">>) = "orders"
  /\ ExtractTopic(<<"trade", "clearing#*">>) = "clearing"
  /\ ExtractTopic(<<"auth">>) = "auth"
  /\ ExtractTopic(<<"new">>) = "new"
  /\ ExtractTopic(<<"">>) = ""
BY DEF ExtractTopic

\* The handlers of the topics.
LEMMA Topics ==
  /\ DOMAIN TopicHandler =
       {"bbo", "trade", "detail", "ticker", "mbp", "accounts", "orders", "clearing"}
  /\ TopicHandler["bbo"] = "BBO" /\ TopicHandler["trade"] = "Trade"
  /\ TopicHandler["detail"] = "Detail" /\ TopicHandler["ticker"] = "Ticker"
  /\ TopicHandler["mbp"] = "MBP" /\ TopicHandler["accounts"] = "Accounts"
  /\ TopicHandler["orders"] = "Orders" /\ TopicHandler["clearing"] = "Clearing"
BY DEF TopicHandler

\* The handlers of the streams.
LEMMA Handlers ==
  /\ Handles("DropCopy") = DropCopyHandles
  /\ Handles("MarketData") = MarketDataHandles
  /\ Handles("MBPFeed") = MBPFeedHandles
BY DEF Handles

-------------------------------------------------------------------------------
(* The messages                                                                *)

\* What each field of a message does, and that one of them decides; if another may be
\* mistaken, the one that decides has a key that a tidy text has first.
FieldOK(f, stream, meaning) ==
  f[1] \in Keys /\ (Continues(f) \/ Means(f, stream, meaning) \/ Mistakes(f, stream, meaning))
MessageOK(message, stream) ==
  /\ IsFiniteSet(message.fields)
  /\ \A f \in message.fields : FieldOK(f, stream, message.meaning)
  /\ message.meaning \notin Nothing => \E f \in message.fields : ~Continues(f)
  /\ message.meaning \in OrderMatters =>
       \E f \in message.fields : f[1] \in First /\ ~Continues(f)

\* Messages of one to three fields.
LEMMA OneField ==
  ASSUME NEW a, NEW stream, NEW meaning, FieldOK(a, stream, meaning),
         meaning \notin Nothing => ~Continues(a), meaning \in OrderMatters => a[1] \in First
  PROVE  MessageOK(Message(meaning, {a}), stream)
<1>1. Message(meaning, {a}).meaning = meaning /\ Message(meaning, {a}).fields = {a}
  BY DEF Message
<1>2. IsFiniteSet({a})
  BY FS_Singleton
<1>3. meaning \in OrderMatters => meaning \notin Nothing
  BY DEF OrderMatters, Nothing
<1> QED
  BY <1>1, <1>2, <1>3, Zenon DEF MessageOK

LEMMA TwoFields ==
  ASSUME NEW a, NEW b, NEW stream, NEW meaning,
         FieldOK(a, stream, meaning), FieldOK(b, stream, meaning),
         meaning \notin Nothing => ~Continues(a) \/ ~Continues(b),
         meaning \in OrderMatters => a[1] \in First /\ ~Continues(a)
  PROVE  MessageOK(Message(meaning, {a, b}), stream)
<1>1. Message(meaning, {a, b}).meaning = meaning /\ Message(meaning, {a, b}).fields = {a, b}
  BY DEF Message
<1>2. IsFiniteSet({a, b})
  <2>1. IsFiniteSet({a}) /\ {a} \cup {b} = {a, b}
    BY FS_Singleton
  <2> QED
    BY <2>1, FS_AddElement
<1> QED
  BY <1>1, <1>2, Zenon DEF MessageOK

LEMMA ThreeFields ==
  ASSUME NEW a, NEW b, NEW c, NEW stream, NEW meaning,
         FieldOK(a, stream, meaning), FieldOK(b, stream, meaning), FieldOK(c, stream, meaning),
         a[1] \in First, ~Continues(a)
  PROVE  MessageOK(Message(meaning, {a, b, c}), stream)
<1>1. /\ Message(meaning, {a, b, c}).meaning = meaning
      /\ Message(meaning, {a, b, c}).fields = {a, b, c}
  BY DEF Message
<1>2. IsFiniteSet({a, b, c})
  <2>1. IsFiniteSet({a}) /\ {a} \cup {b} = {a, b} /\ {a, b} \cup {c} = {a, b, c}
    BY FS_Singleton
  <2>2. IsFiniteSet({a, b})
    BY <2>1, FS_AddElement
  <2> QED
    BY <2>1, <2>2, FS_AddElement
<1> QED
  BY <1>1, <1>2, Zenon DEF MessageOK

\* The fields of an action, of a status and of the keys that always decide.
LEMMA ActionFields ==
  /\ Continues(<<"action", "push">>) /\ ~Continues(<<"action", "sub">>)
  /\ ~Continues(<<"action", "req">>) /\ ~Continues(<<"action", "ping">>)
  /\ ~Continues(<<"action", "new">>) /\ Ignored(<<"action", "new">>)
  /\ Nameless(<<"action", "">>)
  /\ Dispatches(<<"action", "sub">>, "Sub") /\ Dispatches(<<"action", "req">>, "Req")
  /\ Dispatches(<<"action", "ping">>, "Ping")
BY DEF Continues, Ignored, Nameless, Dispatches

LEMMA StatusFields ==
  /\ Continues(<<"status", "ok">>) /\ ~Continues(<<"status", "error">>)
  /\ ~Continues(<<"status", "new">>) /\ Ignored(<<"status", "new">>)
  /\ Dispatches(<<"status", "error">>, "Error") /\ Nameless(<<"status", "">>)
BY DEF Continues, Ignored, Nameless, Dispatches

LEMMA TextFields ==
  \A text : /\ Dispatches(<<"message", text>>, "Error2") /\ ~Continues(<<"message", text>>)
            /\ Dispatches(<<"ping", text>>, "Ping2") /\ ~Continues(<<"ping", text>>)
            /\ Dispatches(<<"subbed", text>>, "Subbed") /\ ~Continues(<<"subbed", text>>)
BY DEF Continues, Dispatches

\* The fields of a channel.
LEMMA ChannelFields ==
  ASSUME NEW ch
  PROVE  /\ ~Continues(<<"ch", ch>>)
         /\ ExtractTopic(ch) \notin DOMAIN TopicHandler \cup {""} => Ignored(<<"ch", ch>>)
         /\ ExtractTopic(ch) = "" => Nameless(<<"ch", ch>>)
         /\ ExtractTopic(ch) \in DOMAIN TopicHandler =>
               Dispatches(<<"ch", ch>>, TopicHandler[ExtractTopic(ch)])
         /\ ExtractTopic(ch) = "mbp" => /\ ~Continues(<<"rep", ch>>)
                                        /\ Dispatches(<<"rep", ch>>, "MBPSnapshot")
         /\ ExtractTopic(ch) # "mbp" => Continues(<<"rep", ch>>)
BY DEF Continues, Ignored, Nameless, Dispatches

\* What a field is to a message, put together.
LEMMA FieldIsOK ==
  ASSUME NEW f, NEW stream, NEW meaning, f[1] \in Keys,
         \/ Continues(f)
         \/ meaning \in Nothing /\ Ignored(f)
         \/ meaning = "Undefined" /\ Nameless(f)
         \/ meaning \notin Nothing /\ meaning \in Handles(stream) /\ Dispatches(f, meaning)
         \/ Mistakes(f, stream, meaning)
  PROVE  FieldOK(f, stream, meaning)
BY DEF FieldOK, Means

\* Each message of the private websocket: its action decides, or its channel after a push.
LEMMA PrivateOK == \A message \in PrivateMessages : MessageOK(message, "DropCopy")
<1> DEFINE OK(message) == MessageOK(message, "DropCopy")
           Is(f, meaning) == FieldOK(f, "DropCopy", meaning)
<1> USE Handlers DEF DropCopyHandles
<1>1. \A meaning \in DropCopyHandles : meaning \notin Nothing
  BY DEF Nothing
<1>2. /\ Is(<<"action", "req">>, "Req") /\ Is(<<"action", "ping">>, "Ping")
      /\ Is(<<"action", "sub">>, "Sub") /\ Is(<<"message", "text">>, "Error2")
      /\ \A meaning : Is(<<"action", "push">>, meaning)
  <2>1. /\ \A handler \in {"Req", "Ping", "Sub", "Error2"} :
                handler \notin Nothing /\ handler \in Handles("DropCopy")
        /\ {"action", "message"} \subseteq Keys
    BY DEF Keys, Nothing
  <2>2. Is(<<"action", "req">>, "Req")
    BY <2>1, ActionFields, FieldIsOK
  <2>3. Is(<<"action", "ping">>, "Ping")
    BY <2>1, ActionFields, FieldIsOK
  <2>4. Is(<<"action", "sub">>, "Sub")
    BY <2>1, ActionFields, FieldIsOK
  <2>5. Is(<<"message", "text">>, "Error2")
    BY <2>1, TextFields, FieldIsOK
  <2>6. \A meaning : Is(<<"action", "push">>, meaning)
    BY <2>1, ActionFields, FieldIsOK
  <2> QED
    BY <2>2, <2>3, <2>4, <2>5, <2>6
<1>3. \A ch \in PrivateChannels :
        /\ ExtractTopic(ch) \in DOMAIN TopicHandler
        /\ TopicHandler[ExtractTopic(ch)] \in DropCopyHandles
  BY OtherTopics, Topics DEF PrivateChannels
<1>4. \A ch \in PrivateChannels : Is(<<"ch", ch>>, "Sub") /\ Is(<<"message", "text">>, "Sub")
  <2> TAKE ch \in PrivateChannels
  <2>1. Mistakes(<<"ch", ch>>, "DropCopy", "Sub")
    BY <1>3, ChannelFields DEF Mistakes, OrderMatters, Late
  <2>2. Mistakes(<<"message", "text">>, "DropCopy", "Sub")
    BY TextFields DEF Mistakes, OrderMatters, Late
  <2> QED
    BY <2>1, <2>2, FieldIsOK DEF Keys
<1>5. Is(<<"ch", <<"auth">>>>, "Req") /\ Is(<<"message", "text">>, "Req")
  <2>1. Mistakes(<<"ch", <<"auth">>>>, "DropCopy", "Req")
    BY OtherTopics, Topics, ChannelFields DEF Mistakes, OrderMatters, Late
  <2>2. Mistakes(<<"message", "text">>, "DropCopy", "Req")
    BY TextFields DEF Mistakes, OrderMatters, Late
  <2> QED
    BY <2>1, <2>2, FieldIsOK DEF Keys
<1>6. /\ Is(<<"ch", <<"accounts", "update">>>>, "Accounts")
      /\ Is(<<"ch", <<"orders#*">>>>, "Orders")
      /\ Is(<<"ch", <<"trade", "clearing#*">>>>, "Clearing")
  <2>1. /\ Dispatches(<<"ch", <<"accounts", "update">>>>, "Accounts")
        /\ Dispatches(<<"ch", <<"orders#*">>>>, "Orders")
        /\ Dispatches(<<"ch", <<"trade", "clearing#*">>>>, "Clearing")
    BY OtherTopics, Topics, ChannelFields
  <2> QED
    BY <2>1, FieldIsOK DEF Keys, Nothing
<1> HIDE DEF Is
<1>7. /\ OK(Message("Req", {<<"action", "req">>, <<"ch", <<"auth">>>>}))
      /\ OK(Message("Ping", {<<"action", "ping">>}))
      /\ OK(Message("Error2", {<<"message", "text">>}))
  BY <1>2, <1>5, OneField, TwoFields, ActionFields, TextFields DEF Is, First, OrderMatters
<1>8. \A ch \in PrivateChannels :
        /\ OK(Message("Sub", {<<"action", "sub">>, <<"ch", ch>>}))
        /\ OK(Message("Sub", {<<"action", "sub">>, <<"ch", ch>>, <<"message", "text">>}))
  <2> TAKE ch \in PrivateChannels
  <2>1. Is(<<"action", "sub">>, "Sub") /\ Is(<<"ch", ch>>, "Sub") /\ Is(<<"message", "text">>, "Sub")
    BY <1>2, <1>4
  <2>2. <<"action", "sub">>[1] \in First /\ ~Continues(<<"action", "sub">>)
    BY ActionFields DEF First
  <2> QED
    BY <2>1, <2>2, TwoFields, ThreeFields DEF Is
<1>9. /\ OK(Pushed("Accounts", <<"accounts", "update">>))
      /\ OK(Pushed("Orders", <<"orders#*">>))
      /\ OK(Pushed("Clearing", <<"trade", "clearing#*">>))
  <2>1. \A ch, meaning : Is(<<"ch", ch>>, meaning) /\ meaning \notin OrderMatters
          => OK(Pushed(meaning, ch))
    BY <1>2, ChannelFields, TwoFields DEF Pushed, Is
  <2> QED
    BY <1>6, <2>1 DEF OrderMatters
<1>10. OK(RefusedLogin)
  <2> DEFINE login == Message("Req", {<<"action", "req">>, <<"ch", <<"auth">>>>, <<"message", "text">>})
  <2>1. OK(login)
    BY <1>2, <1>5, ThreeFields, ActionFields DEF Is, First
  <2>2. RefusedLogin.meaning = login.meaning /\ RefusedLogin.fields = login.fields
    BY DEF RefusedLogin, Message
  <2> QED
    BY <2>1, <2>2 DEF MessageOK
<1> HIDE DEF OK
<1> QED
  BY <1>7, <1>8, <1>9, <1>10, Zenon DEF PrivateMessages, OK

\* Each message of the two public websockets: its channel decides, or its status.
LEMMA PublicOK ==
  ASSUME NEW stream \in {"MarketData", "MBPFeed"}
  PROVE  \A message \in PublicMessages : MessageOK(message, stream)
<1> DEFINE Is(f, meaning) == FieldOK(f, stream, meaning)
<1>1. {"Ping2", "Error", "Subbed"} \subseteq Handles(stream)
  BY Handlers DEF MarketDataHandles, MBPFeedHandles
<1>2. /\ Is(<<"ping", "time">>, "Ping2") /\ Is(<<"status", "error">>, "Error")
      /\ Is(<<"status", "ok">>, "Subbed") /\ Is(<<"subbed", "text">>, "Subbed")
  <2>1. {"ping", "status", "subbed"} \subseteq Keys
    BY DEF Keys
  <2>2. Is(<<"ping", "time">>, "Ping2")
    BY <1>1, <2>1, TextFields, FieldIsOK DEF Nothing
  <2>3. Is(<<"status", "error">>, "Error")
    BY <1>1, <2>1, StatusFields, FieldIsOK DEF Nothing
  <2>4. Is(<<"status", "ok">>, "Subbed")
    BY <2>1, StatusFields, FieldIsOK
  <2>5. Is(<<"subbed", "text">>, "Subbed")
    BY <1>1, <2>1, TextFields, FieldIsOK DEF Nothing
  <2> QED
    BY <2>2, <2>3, <2>4, <2>5
<1>3. /\ MessageOK(Message("Ping2", {<<"ping", "time">>}), stream)
      /\ MessageOK(Message("Error", {<<"status", "error">>}), stream)
  BY <1>2, OneField, TextFields, StatusFields DEF OrderMatters, First
<1>4. MessageOK(Message("Subbed", {<<"status", "ok">>, <<"subbed", "text">>}), stream)
  BY <1>2, TwoFields, TextFields DEF OrderMatters
<1> QED
  BY <1>3, <1>4, Zenon DEF PublicMessages

LEMMA MarketOK == \A message \in MarketMessages : MessageOK(message, "MarketData")
<1> DEFINE OK(meaning, theme) ==
             MessageOK(Message(meaning, {<<"ch", Market(theme)>>}), "MarketData")
<1>1. {"BBO", "Trade", "Detail", "Ticker"} \subseteq Handles("MarketData")
  BY Handlers DEF MarketDataHandles
<1>2. ASSUME NEW meaning \in {"BBO", "Trade", "Detail", "Ticker"}, NEW theme,
             Dispatches(<<"ch", Market(theme)>>, meaning)
      PROVE  OK(meaning, theme)
  <2>1. FieldOK(<<"ch", Market(theme)>>, "MarketData", meaning)
    BY <1>1, <1>2, FieldIsOK DEF Keys, Nothing
  <2>2. meaning \notin OrderMatters /\ ~Continues(<<"ch", Market(theme)>>)
    BY <1>2, ChannelFields DEF OrderMatters
  <2> QED
    BY <2>1, <2>2, OneField
<1>3. /\ Dispatches(<<"ch", Market(<<"bbo">>)>>, "BBO")
      /\ Dispatches(<<"ch", Market(<<"trade", "detail">>)>>, "Trade")
      /\ Dispatches(<<"ch", Market(<<"detail">>)>>, "Detail")
      /\ Dispatches(<<"ch", Market(<<"ticker">>)>>, "Ticker")
  BY MarketTopics, Topics, ChannelFields
<1>4. /\ OK("BBO", <<"bbo">>) /\ OK("Trade", <<"trade", "detail">>)
      /\ OK("Detail", <<"detail">>) /\ OK("Ticker", <<"ticker">>)
  BY <1>2, <1>3
<1> QED
  BY <1>4, PublicOK, Zenon DEF MarketMessages

LEMMA DepthOK == \A message \in DepthMessages : MessageOK(message, "MBPFeed")
<1> DEFINE depth == Market(<<"mbp", "20">>)
           Is(f, meaning) == FieldOK(f, "MBPFeed", meaning)
<1>1. {"MBP", "MBPSnapshot", "Error"} \subseteq Handles("MBPFeed")
  BY Handlers DEF MBPFeedHandles
<1>2. /\ Dispatches(<<"ch", depth>>, "MBP") /\ Dispatches(<<"rep", depth>>, "MBPSnapshot")
      /\ ~Continues(<<"ch", depth>>) /\ ~Continues(<<"rep", depth>>)
  BY MarketTopics, Topics, ChannelFields
<1> HIDE DEF depth
<1>3. /\ Is(<<"ch", depth>>, "MBP") /\ Is(<<"rep", depth>>, "MBPSnapshot")
      /\ Is(<<"status", "ok">>, "MBPSnapshot") /\ Is(<<"status", "error">>, "Error")
  <2>1. \A f, meaning : f[1] \in Keys /\ Continues(f) => Is(f, meaning)
    BY FieldIsOK
  <2>2. \A f, meaning : /\ f[1] \in Keys /\ Dispatches(f, meaning)
                        /\ meaning \in {"MBP", "MBPSnapshot", "Error"}
                        => Is(f, meaning)
    BY <1>1, FieldIsOK DEF Nothing
  <2> QED
    BY <1>2, <2>1, <2>2, StatusFields DEF Keys
<1>4. Is(<<"rep", depth>>, "Error")
  <2>1. Mistakes(<<"rep", depth>>, "MBPFeed", "Error")
    BY <1>1, <1>2 DEF Mistakes, OrderMatters, Late
  <2> QED
    BY <2>1, FieldIsOK DEF Keys
<1>5. MessageOK(Message("MBP", {<<"ch", depth>>}), "MBPFeed")
  BY <1>2, <1>3, OneField DEF OrderMatters
<1>6. MessageOK(Message("MBPSnapshot", {<<"status", "ok">>, <<"rep", depth>>}), "MBPFeed")
  BY <1>2, <1>3, TwoFields DEF OrderMatters
<1>7. MessageOK(Message("Error", {<<"status", "error">>, <<"rep", depth>>}), "MBPFeed")
  BY <1>3, <1>4, TwoFields, StatusFields DEF First
<1> QED
  BY <1>5, <1>6, <1>7, PublicOK, Zenon DEF DepthMessages, depth

\* A message nobody has a name for is passed over.
LEMMA UnknownOK ==
  ASSUME NEW stream
  PROVE  \A message \in UnknownMessages : MessageOK(message, stream)
<1> DEFINE OK(fields) == MessageOK(Message("Unknown", fields), stream)
           Is(f) == FieldOK(f, stream, "Unknown")
<1>1. "Unknown" \notin OrderMatters
  BY DEF OrderMatters
<1>2. /\ Is(<<"action", "new">>) /\ Is(<<"status", "new">>)
      /\ Is(<<"ch", <<"new">>>>) /\ Is(<<"ch", Market(<<"new">>)>>)
      /\ Is(<<"rep", Market(<<"new">>)>>)
  <2>1. /\ Ignored(<<"ch", <<"new">>>>) /\ Ignored(<<"ch", Market(<<"new">>)>>)
        /\ Continues(<<"rep", Market(<<"new">>)>>)
    BY MarketTopics, OtherTopics, Topics, ChannelFields
  <2>2. \A f : f[1] \in Keys /\ (Continues(f) \/ Ignored(f)) => Is(f)
    BY FieldIsOK DEF Nothing
  <2> QED
    BY <2>1, <2>2, ActionFields, StatusFields DEF Keys
<1>3. /\ OK({<<"action", "new">>, <<"ch", <<"new">>>>})
      /\ OK({<<"ch", Market(<<"new">>)>>})
      /\ OK({<<"status", "new">>, <<"rep", Market(<<"new">>)>>})
  BY <1>1, <1>2, OneField, TwoFields DEF Nothing
<1>4. OK({})
  <2>1. Message("Unknown", {}).meaning = "Unknown" /\ Message("Unknown", {}).fields = {}
    BY DEF Message
  <2> QED
    BY <1>1, <2>1, FS_EmptySet DEF MessageOK, Nothing
<1> QED
  BY <1>3, <1>4, Zenon DEF UnknownMessages

\* A message with an empty name has nothing that could be handled.
LEMMA UndefinedOK ==
  ASSUME NEW stream
  PROVE  \A message \in UndefinedMessages : MessageOK(message, stream)
<1> DEFINE OK(fields) == MessageOK(Message("Undefined", fields), stream)
           Is(f) == FieldOK(f, stream, "Undefined")
<1>1. "Undefined" \notin OrderMatters /\ "Undefined" \in Nothing
  BY DEF OrderMatters, Nothing
<1>2. /\ Is(<<"action", "">>) /\ Is(<<"action", "push">>) /\ Is(<<"status", "">>)
      /\ Is(<<"ch", <<"new">>>>) /\ Is(<<"ch", <<"">>>>) /\ Is(<<"rep", Market(<<"new">>)>>)
  <2>1. /\ Ignored(<<"ch", <<"new">>>>) /\ Nameless(<<"ch", <<"">>>>)
        /\ Continues(<<"rep", Market(<<"new">>)>>)
    BY MarketTopics, OtherTopics, Topics, ChannelFields
  <2>2. \A f : f[1] \in Keys /\ (Continues(f) \/ Ignored(f) \/ Nameless(f)) => Is(f)
    BY <1>1, FieldIsOK
  <2> QED
    BY <2>1, <2>2, ActionFields, StatusFields DEF Keys
<1>3. /\ OK({<<"action", "">>, <<"ch", <<"new">>>>})
      /\ OK({<<"action", "push">>, <<"ch", <<"">>>>})
      /\ OK({<<"status", "">>, <<"rep", Market(<<"new">>)>>})
  BY <1>1, <1>2, TwoFields
<1> QED
  BY <1>3, Zenon DEF UndefinedMessages

\* All of them.
LEMMA MessagesOK ==
  ASSUME NEW stream \in Streams, NEW message \in Messages(stream)
  PROVE  MessageOK(message, stream)
<1>1. /\ Messages("DropCopy") = UnknownMessages \cup UndefinedMessages \cup PrivateMessages
      /\ Messages("MarketData") = UnknownMessages \cup UndefinedMessages \cup MarketMessages
      /\ Messages("MBPFeed") = UnknownMessages \cup UndefinedMessages \cup DepthMessages
  BY Zenon DEF Messages
<1> QED
  BY <1>1, UnknownOK, UndefinedOK, PrivateOK, MarketOK, DepthOK DEF Streams

-------------------------------------------------------------------------------
(* The walk over the keys                                                      *)

\* A field does one thing.
LEMMA DecidesOnce ==
  ASSUME NEW f
  PROVE  /\ Continues(f) => ~Ignored(f) /\ ~Nameless(f) /\ \A handler : ~Dispatches(f, handler)
         /\ Ignored(f) => ~Nameless(f) /\ \A handler : ~Dispatches(f, handler)
         /\ Nameless(f) => \A handler : ~Dispatches(f, handler)
         /\ \A h, g : Dispatches(f, h) /\ Dispatches(f, g) => h = g
BY Topics DEF Continues, Ignored, Nameless, Dispatches

\* The keys that are looked at, and what each of them does is what its field says.
KeyStep ==
  \/ ActionKey \/ ChKey \/ RepKey \/ StatusKey \/ MessageKey \/ PingKey \/ SubbedKey
LEMMA KeyDecides ==
  ASSUME KeyStep
  PROVE  /\ phase = "parsing" /\ rest # <<>>
         /\ \/ Continues(Head(rest)) /\ Continue
            \/ Ignored(Head(rest)) /\ Ignore
            \/ Nameless(Head(rest)) /\ Undefined
            \/ \E handler : Dispatches(Head(rest), handler) /\ Dispatch(handler)
<1>1. CASE ActionKey
  BY <1>1 DEF ActionKey, Field, Value, Continues, Ignored, Nameless, Dispatches
<1>2. CASE ChKey
  <2>1. Field("ch")
    BY <1>2 DEF ChKey
  <2>2. CASE /\ ExtractTopic(Value) \in DOMAIN TopicHandler
             /\ Dispatch(TopicHandler[ExtractTopic(Value)])
    BY <2>1, <2>2 DEF Field, Value, Dispatches
  <2>3. CASE ExtractTopic(Value) \notin DOMAIN TopicHandler \cup {""} /\ Ignore
    BY <2>1, <2>3 DEF Field, Value, Ignored
  <2>4. CASE ExtractTopic(Value) = "" /\ Undefined
    BY <2>1, <2>4 DEF Field, Value, Nameless
  <2> QED
    BY <1>2, <2>2, <2>3, <2>4 DEF ChKey
<1>3. CASE RepKey
  BY <1>3 DEF RepKey, Field, Value, Continues, Dispatches
<1>4. CASE StatusKey
  BY <1>4 DEF StatusKey, Field, Value, Continues, Ignored, Nameless, Dispatches
<1>5. CASE MessageKey
  BY <1>5 DEF MessageKey, Field, Dispatches
<1>6. CASE PingKey
  BY <1>6 DEF PingKey, Field, Dispatches
<1>7. CASE SubbedKey
  BY <1>7 DEF SubbedKey, Field, Dispatches
<1> QED
  BY <1>1, <1>2, <1>3, <1>4, <1>5, <1>6, <1>7 DEF KeyStep

\* A text has all the fields of its message.
LEMMA TextIsWhole ==
  ASSUME NEW message, IsFiniteSet(message.fields), NEW text \in Texts(message)
  PROVE  /\ text \in Seq(message.fields)
         /\ \A f \in message.fields : \E i \in 1..Len(text) : text[i] = f
<1> DEFINE fields == message.fields
           n == Cardinality(fields)
<1>1. n \in Nat
  BY FS_CardinalityType
<1>2. /\ text \in [1..n -> fields]
      /\ \A i, j \in 1..n : text[i] = text[j] => i = j
  BY DEF Texts
<1>3. text \in Injection(1..n, fields)
  BY <1>2 DEF Injection, IsInjective
<1>4. IsFiniteSet(1..n) /\ Cardinality(1..n) = n
  BY <1>1, FS_Interval
<1>5. text \in Surjection(1..n, fields)
  BY <1>3, <1>4, FS_Injection
<1>6. text \in Seq(fields) /\ Len(text) = n
  BY <1>1, <1>2
<1> QED
  BY <1>5, <1>6 DEF Surjection

-------------------------------------------------------------------------------
(* The invariant                                                               *)

\* While the walk goes on, every field that decides is still to come.
OnItsWay(message) ==
  /\ frame.meaning = message.meaning
  /\ rest \in Seq(message.fields)
  /\ \A f \in message.fields : ~Continues(f) => \E i \in 1..Len(rest) : rest[i] = f
  /\ frame.tidy => Tidy(rest)
Undecided ==
  phase = "parsing" => /\ running /\ result = FALSE /\ handled = <<>>
                       /\ \E message \in Messages(frame.stream) : OnItsWay(message)

\* What can have become of a frame.
Outcome ==
  \/ result = FALSE /\ handled = <<>> /\ frame.meaning \in Nothing
  \/ result = TRUE /\ handled = <<frame.meaning>> /\ frame.meaning \notin Nothing
  \/ result = TRUE /\ ~frame.tidy /\ frame.meaning \in OrderMatters
  \/ result = FALSE /\ ~frame.tidy /\ frame.meaning = "Req"
Decided == phase = "parsed" => Outcome

IInv == frame.stream \in Streams /\ Undecided /\ Decided /\ OnlyUnnamedOrRefusedIsFatal

\* A field that comes first in the text may mislead only if the text is not tidy.
LEMMA OnlyUntidyMislead ==
  ASSUME NEW message, NEW stream, MessageOK(message, stream), OnItsWay(message),
         rest # <<>>, Mistakes(Head(rest), stream, message.meaning)
  PROVE  ~frame.tidy
<1>1. PICK d \in message.fields : d[1] \in First /\ ~Continues(d)
  BY DEF MessageOK, Mistakes
<1>2. PICK i \in 1..Len(rest) : rest[i] = d
  BY <1>1 DEF OnItsWay
<1>3. Head(rest) = rest[1] /\ 1 \in 1..Len(rest) /\ rest[1][1] \in Late
  BY <1>2 DEF OnItsWay, Mistakes
<1>4. ~(i < 1)
  BY <1>2
<1> QED
  BY <1>1, <1>2, <1>3, <1>4 DEF OnItsWay, Tidy, First, Late

\* A key is looked at.
LEMMA KeyInv == IInv /\ KeyStep => IInv'
<1> SUFFICES ASSUME IInv, KeyStep PROVE IInv'
  OBVIOUS
<1> DEFINE f == Head(rest)
<1>1. phase = "parsing" /\ rest # <<>> /\ running /\ result = FALSE /\ handled = <<>>
  BY KeyDecides DEF IInv, Undecided
<1>2. PICK message \in Messages(frame.stream) : OnItsWay(message)
  BY <1>1 DEF IInv, Undecided
<1>3. MessageOK(message, frame.stream)
  BY <1>2, MessagesOK DEF IInv
<1>4. f \in message.fields /\ FieldOK(f, frame.stream, message.meaning)
  BY <1>1, <1>2, <1>3 DEF OnItsWay, MessageOK
<1>5. frame.meaning = message.meaning
  BY <1>2 DEF OnItsWay
<1>6. Mistakes(f, frame.stream, frame.meaning) => ~frame.tidy
  BY <1>1, <1>2, <1>3, <1>5, OnlyUntidyMislead
<1>7. CASE Continues(f) /\ Continue
  <2>1. /\ rest' = Tail(rest)
        /\ UNCHANGED <<running, frame, phase, result, handled>>
    BY <1>7 DEF Continue
  <2>2. /\ rest \in Seq(message.fields) /\ rest' \in Seq(message.fields)
        /\ Len(rest) \in Nat /\ Len(rest') = Len(rest) - 1
        /\ \A i \in 1..Len(rest') : rest'[i] = rest[i + 1]
    BY <1>1, <1>2, <2>1 DEF OnItsWay
  <2>3. \A g \in message.fields : ~Continues(g) => \E i \in 1..Len(rest') : rest'[i] = g
    <3> SUFFICES ASSUME NEW g \in message.fields, ~Continues(g)
                 PROVE  \E i \in 1..Len(rest') : rest'[i] = g
      OBVIOUS
    <3>1. PICK i \in 1..Len(rest) : rest[i] = g
      BY <1>2 DEF OnItsWay
    <3>2. i # 1
      BY <1>1, <1>7, <2>2, <3>1
    <3>3. i - 1 \in 1..Len(rest') /\ rest'[i - 1] = g
      BY <2>2, <3>1, <3>2
    <3> QED
      BY <3>3
  <2>4. frame.tidy => Tidy(rest')
    <3> SUFFICES ASSUME frame.tidy, NEW i \in 1..Len(rest'), NEW j \in 1..Len(rest'),
                        rest'[i][1] \in {"action", "status"},
                        rest'[j][1] \in {"ch", "rep", "message"}
                 PROVE  i < j
      BY DEF Tidy
    <3>1. i + 1 \in 1..Len(rest) /\ j + 1 \in 1..Len(rest)
      BY <2>2
    <3>2. i + 1 < j + 1
      BY <1>2, <2>2, <3>1 DEF OnItsWay, Tidy
    <3> QED
      BY <3>2
  <2>5. OnItsWay(message)'
    BY <1>5, <2>1, <2>2, <2>3, <2>4 DEF OnItsWay
  <2>6. Undecided'
    BY <1>1, <2>1, <2>5 DEF Undecided
  <2> QED
    BY <1>1, <2>1, <2>6 DEF IInv, Decided, OnlyUnnamedOrRefusedIsFatal
<1>8. CASE Ignored(f) /\ Ignore
  <2>1. \/ frame.meaning \in Nothing
        \/ ~frame.tidy /\ frame.meaning = "Req"
    BY <1>4, <1>5, <1>6, <1>8, DecidesOnce DEF FieldOK, Means, Mistakes
  <2>2. phase' = "parsed" /\ UNCHANGED <<running, frame, result, handled>>
    BY <1>8 DEF Ignore
  <2>3. Outcome'
    BY <1>1, <2>1, <2>2 DEF Outcome
  <2> QED
    BY <1>1, <2>2, <2>3 DEF IInv, Undecided, Decided, OnlyUnnamedOrRefusedIsFatal
<1>9. ASSUME NEW handler, Dispatches(f, handler), Dispatch(handler) PROVE IInv'
  <2>1. /\ phase' = "parsed" /\ result' = TRUE /\ frame' = frame
        /\ handled' = Append(handled, handler)
        /\ running' = ~Fatal(handler) /\ settings' = settings
    BY <1>9 DEF Dispatch
  <2>2. /\ handler \in Handles(frame.stream)
        /\ \/ frame.meaning \notin Nothing /\ handler = frame.meaning
           \/ ~frame.tidy /\ frame.meaning \in OrderMatters
    BY <1>4, <1>5, <1>6, <1>9, DecidesOnce DEF FieldOK, Means, Mistakes
  <2>3. handled' = <<handler>>
    BY <1>1, <2>1
  <2>4. Outcome'
    BY <2>1, <2>2, <2>3 DEF Outcome
  <2>5. ~running' => frame.refused /\ ~settings.retry_logon
    BY <2>1, <2>2 DEF Fatal
  <2> QED
    BY <2>1, <2>4, <2>5 DEF IInv, Undecided, Decided, OnlyUnnamedOrRefusedIsFatal
<1>10. CASE Nameless(f) /\ Undefined
  <2>1. frame.meaning = "Undefined"
    BY <1>4, <1>5, <1>10, DecidesOnce DEF FieldOK, Means, Mistakes
  <2>2. phase' = "parsed" /\ UNCHANGED <<frame, result, handled>>
    BY <1>10 DEF Undefined
  <2>3. Outcome'
    BY <1>1, <2>1, <2>2 DEF Outcome, Nothing
  <2> QED
    BY <2>1, <2>2, <2>3 DEF IInv, Undecided, Decided, OnlyUnnamedOrRefusedIsFatal
<1> QED
  BY <1>7, <1>8, <1>9, <1>10, KeyDecides

\* Every step keeps the invariant.
LEMMA NextInv == IInv /\ [Next]_vars => IInv'
<1> SUFFICES ASSUME IInv, [Next]_vars PROVE IInv'
  OBVIOUS
<1>1. ASSUME NEW stream \in Streams, Delivered(stream) PROVE IInv'
  <2>1. running /\ running' = running /\ phase' = "parsing" /\ result' = FALSE /\ handled' = <<>>
    BY <1>1 DEF Delivered
  <2> DEFINE Is(message, text) ==
        /\ frame' = [stream |-> stream, meaning |-> message.meaning,
                     refused |-> message.refused, tidy |-> Tidy(text)]
        /\ rest' = text
  <2>2. PICK message \in Messages(stream) : \E text \in Texts(message) : Is(message, text)
    BY <1>1 DEF Delivered
  <2>3. PICK text \in Texts(message) : Is(message, text)
    BY <2>2
  <2>4. /\ text \in Seq(message.fields)
        /\ \A f \in message.fields : \E i \in 1..Len(text) : text[i] = f
    BY MessagesOK, TextIsWhole DEF MessageOK
  <2>5. frame'.stream = stream /\ frame'.meaning = message.meaning /\ (frame'.tidy => Tidy(text))
    BY <2>3
  <2>6. OnItsWay(message)'
    BY <2>3, <2>4, <2>5 DEF OnItsWay
  <2> QED
    BY <1>1, <2>1, <2>5, <2>6 DEF IInv, Undecided, Decided, OnlyUnnamedOrRefusedIsFatal
<1>2. CASE KeyStep
  BY <1>2, KeyInv
<1>3. CASE NoMoreKeys
  <2>1. /\ phase = "parsing" /\ rest = <<>> /\ phase' = "parsed"
        /\ UNCHANGED <<running, frame, rest, result, handled>>
    BY <1>3 DEF NoMoreKeys
  <2>2. running /\ result = FALSE /\ handled = <<>>
    BY <2>1 DEF IInv, Undecided
  <2>3. PICK message \in Messages(frame.stream) : OnItsWay(message)
    BY <2>1 DEF IInv, Undecided
  <2>4. frame.meaning \in Nothing
    <3>1. \A f \in message.fields : Continues(f)
      BY <2>1, <2>3 DEF OnItsWay
    <3> QED
      BY <2>3, <3>1, MessagesOK DEF MessageOK, OnItsWay, IInv
  <2>5. Outcome'
    BY <2>1, <2>2, <2>4 DEF Outcome
  <2> QED
    BY <2>1, <2>2, <2>5 DEF IInv, Undecided, Decided, OnlyUnnamedOrRefusedIsFatal
<1>4. CASE Return
  <2>1. /\ running /\ phase = "parsed" /\ phase' = "idle"
        /\ running' = (result \/ settings.allow_unknown)
        /\ UNCHANGED <<settings, frame, rest, result, handled>>
    BY <1>4 DEF Return
  <2>2. Outcome
    BY <2>1 DEF IInv, Decided
  <2> QED
    BY <2>1, <2>2, Zenon DEF IInv, Undecided, Decided, Outcome, Nothing, OnlyUnnamedOrRefusedIsFatal
<1>5. CASE UNCHANGED vars
  BY <1>5 DEF vars, IInv, Undecided, OnItsWay, Decided, Outcome, OnlyUnnamedOrRefusedIsFatal
<1> QED
  BY <1>1, <1>2, <1>3, <1>4, <1>5 DEF Next, KeyStep

\* The invariant holds.
LEMMA Invariance == Spec => []IInv
<1>1. Init => IInv
  BY DEF Init, IInv, Streams, Undecided, Decided, OnlyUnnamedOrRefusedIsFatal
<1> QED
  BY <1>1, NextInv, PTL DEF Spec

\* Every frame of every stream is handled as what it means, whatever the order of its
\* keys, but for replies and refusals whose deciding key does not come first.
THEOREM HandledAsMeant == Spec => []FramesAreHandledAsMeant
<1>1. IInv => FramesAreHandledAsMeant
  BY Zenon DEF IInv, Decided, Outcome, Nothing, FramesAreHandledAsMeant, OrderMatters
<1> QED
  BY <1>1, Invariance, PTL

\* Whatever the settings and the order of the keys, the process ends on nothing but an
\* empty name, a refused login that is not to be tried again and, unless unknown messages
\* are allowed, a name this version does not know or a login reply that names its channel
\* first.
THEOREM OnlyUnnamedOrRefusedEnds == Spec => []OnlyUnnamedOrRefusedIsFatal
<1>1. IInv => OnlyUnnamedOrRefusedIsFatal
  BY DEF IInv
<1> QED
  BY <1>1, Invariance, PTL
================================================================================
