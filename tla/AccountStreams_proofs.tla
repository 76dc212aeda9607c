------------------------- MODULE AccountStreams_proofs -------------------------
(***************************************************************************)
(* What AccountStreams promises for every set of orders and every setting. *)
(***************************************************************************)
EXTENDS AccountStreams, FiniteSetTheorems, SequenceTheorems, TLAPS

-------------------------------------------------------------------------------
(* Counting the get_order requests of a queue.                              *)

\* A queue holds finitely many get_order requests.
LEMMA OrderRequestsFinite ==
  ASSUME NEW q \in Seq(RequestType)
  PROVE  /\ IsFiniteSet(OrderRequests(q))
         /\ Cardinality(OrderRequests(q)) \in Nat
<1>1. IsFiniteSet(1..Len(q))
  BY FS_Interval
<1>2. OrderRequests(q) \in SUBSET (1..Len(q))
  BY DEF OrderRequests
<1> QED
  BY <1>1, <1>2, FS_Subset, FS_CardinalityType

\* Taking the head away takes one get_order request away, or none.
LEMMA TailCount ==
  ASSUME NEW q \in Seq(RequestType), q # <<>>
  PROVE  Cardinality(OrderRequests(Tail(q))) =
            IF Head(q).kind = "order" THEN Cardinality(OrderRequests(q)) - 1
                                      ELSE Cardinality(OrderRequests(q))
<1> DEFINE S == OrderRequests(q) \ {1}
           T == OrderRequests(Tail(q))
           shift == [i \in S |-> i - 1]
<1>1. IsFiniteSet(S) /\ Cardinality(S) =
        IF 1 \in OrderRequests(q) THEN Cardinality(OrderRequests(q)) - 1
                                  ELSE Cardinality(OrderRequests(q))
  BY OrderRequestsFinite, FS_RemoveElement
<1>2. 1 \in OrderRequests(q) <=> Head(q).kind = "order"
  BY DEF OrderRequests
<1>3. Len(Tail(q)) = Len(q) - 1 /\ \A i \in 1..Len(Tail(q)) : Tail(q)[i] = q[i + 1]
  BY HeadTailProperties
<1>4. Tail(q) \in Seq(RequestType)
  BY HeadTailProperties
<1>5. \A i \in S : i \in Int /\ i - 1 \in T
  BY <1>3, <1>4 DEF OrderRequests
<1>6. \A j \in T : j + 1 \in S /\ j \in Int
  BY <1>3, <1>4 DEF OrderRequests
<1> HIDE DEF S, T
<1>7. shift \in [S -> T]
  BY <1>5
<1>8. \A i, j \in S : shift[i] = shift[j] => i = j
  BY <1>5
<1>9. \A j \in T : \E i \in S : shift[i] = j
  <2> SUFFICES ASSUME NEW j \in T PROVE \E i \in S : shift[i] = j
    OBVIOUS
  <2>1. j + 1 \in S /\ shift[j + 1] = j
    BY <1>6
  <2> QED
    BY <2>1
<1>10. shift \in Bijection(S, T)
  BY <1>7, <1>8, <1>9, Zenon DEF Bijection, Injection, Surjection, IsInjective
<1>11. Cardinality(T) = Cardinality(S)
  BY <1>1, <1>10, FS_Bijection, Zenon DEF ExistsBijection
<1> QED
  BY <1>1, <1>2, <1>11 DEF T

\* Appending a batch of get_order requests adds as many.
LEMMA BatchCount ==
  ASSUME NEW q \in Seq(RequestType), NEW b \in Seq(RequestType),
         \A i \in 1..Len(b) : b[i].kind = "order"
  PROVE  Cardinality(OrderRequests(q \o b)) = Cardinality(OrderRequests(q)) + Len(b)
<1> DEFINE New == Len(q) + 1 .. Len(q) + Len(b)
<1>1. OrderRequests(q \o b) = OrderRequests(q) \cup New
  <2>1. /\ q \o b \in Seq(RequestType)
        /\ Len(q \o b) = Len(q) + Len(b)
        /\ \A i \in 1..Len(q) + Len(b) :
              (q \o b)[i] = IF i <= Len(q) THEN q[i] ELSE b[i - Len(q)]
    BY ConcatProperties
  <2> QED
    BY <2>1 DEF OrderRequests
<1>0. Len(q) \in Nat /\ Len(b) \in Nat
  OBVIOUS
<1>2. IsFiniteSet(New) /\ Cardinality(New) = Len(b)
  <2> DEFINE first == Len(q) + 1
             last == Len(q) + Len(b)
  <2>1. first \in Int /\ last \in Int
    BY <1>0
  <2>2. /\ IsFiniteSet(first..last)
        /\ Cardinality(first..last) = IF first > last THEN 0 ELSE last - first + 1
    BY <2>1, FS_Interval
  <2> QED
    BY <1>0, <2>2
<1>3. OrderRequests(q) \cap New = {}
  BY DEF OrderRequests
<1>4. Cardinality({}) = 0
  BY FS_EmptySet
<1>5. IsFiniteSet(OrderRequests(q)) /\ Cardinality(OrderRequests(q)) \in Nat
  BY OrderRequestsFinite
<1> HIDE DEF New
<1>6. Cardinality(OrderRequests(q) \cup New) =
        Cardinality(OrderRequests(q)) + Cardinality(New) - Cardinality(OrderRequests(q) \cap New)
  BY <1>2, <1>5, FS_Union
<1>7. Cardinality(OrderRequests(q) \cap New) = 0
  BY <1>3, <1>4, Zenon
<1>8. Cardinality(OrderRequests(q) \cup New) = Cardinality(OrderRequests(q)) + Len(b)
  BY <1>0, <1>2, <1>5, <1>6, <1>7
<1> QED
  BY <1>1, <1>8, Zenon

\* Appending one private query adds none.
LEMMA PrivateCount ==
  ASSUME NEW q \in Seq(RequestType), NEW r \in RequestType, r.kind # "order"
  PROVE  OrderRequests(q \o <<r>>) = OrderRequests(q)
<1>1. /\ Len(q \o <<r>>) = Len(q) + 1
      /\ \A i \in 1..Len(q) + 1 :
            (q \o <<r>>)[i] = IF i <= Len(q) THEN q[i] ELSE r
      /\ q \o <<r>> \in Seq(RequestType)
  OBVIOUS
<1> QED
  BY <1>1 DEF OrderRequests
-------------------------------------------------------------------------------
(* The order of the download.                                               *)

\* Each state of the download has its place in the declared order.
LEMMA Places ==
  /\ Place("GET_ACCOUNT") = 2 /\ Place("SUBSCRIBE_BALANCES") = 3
  /\ Place("GET_BALANCES") = 4 /\ Place("SUBSCRIBE_ORDERS") = 5
  /\ Place("GET_OPEN_ORDERS") = 6 /\ Place("GET_STALE_ORDERS") = 7
  /\ Place("SUBSCRIBE_TRADES") = 8
<1>1. \A i \in 1..9 : i \in {1, 2, 3, 4, 5, 6, 7, 8, 9}
  OBVIOUS
<1> QED
  BY <1>1 DEF Place, DownloadOrder

\* What follows each state that waits for something.
LEMMA Successors ==
  ASSUME NEW d
  PROVE  /\ Successor("GET_ACCOUNT", d) = "SUBSCRIBE_BALANCES"
         /\ Successor("SUBSCRIBE_BALANCES", d) = "GET_BALANCES"
         /\ Successor("GET_BALANCES", d) = "SUBSCRIBE_ORDERS"
         /\ Successor("SUBSCRIBE_ORDERS", d) = "GET_OPEN_ORDERS"
         /\ Successor("GET_OPEN_ORDERS", d) =
               IF d = {} THEN "SUBSCRIBE_TRADES" ELSE "GET_STALE_ORDERS"
         /\ Successor("GET_STALE_ORDERS", d) = "SUBSCRIBE_TRADES"
         /\ Successor("SUBSCRIBE_TRADES", d) = "DONE"
  BY Places DEF Successor, DownloadOrder

\* The states of the download, written out.
LEMMA StatesAre ==
  States = {"UNDEFINED", "GET_ACCOUNT", "SUBSCRIBE_BALANCES", "GET_BALANCES",
            "SUBSCRIBE_ORDERS", "GET_OPEN_ORDERS", "GET_STALE_ORDERS",
            "SUBSCRIBE_TRADES", "DONE"}
<1>1. 1..9 = {1, 2, 3, 4, 5, 6, 7, 8, 9}
  OBVIOUS
<1> QED
  BY <1>1 DEF States, DownloadOrder

-------------------------------------------------------------------------------
(* Type correctness.                                                        *)

\* Entering a state of the download keeps what it touches well typed.
LEMMA EnterType ==
  ASSUME TypeOK, NEW state \in States, NEW p \in SUBSET Kinds,
         NEW q \in Seq(Channels \cup {"auth"}), Enter(state, p, q)
  PROVE  /\ download' \in States
         /\ dc_status' \in {"DISCONNECTED", "LOGIN_SENT", "DOWNLOADING", "READY"}
         /\ pending' \in SUBSET Kinds
         /\ responded' \in SUBSET Kinds
         /\ replies' \in Seq(Channels \cup {"auth"})
<1>1. \A s \in DOMAIN RequestOf : RequestOf[s] \in Kinds
  BY DEF RequestOf, Kinds, Private
<1>2. \A s \in DOMAIN ChannelOf : ChannelOf[s] \in Channels
  BY DEF ChannelOf, Channels
<1> HIDE DEF RequestOf, ChannelOf
<1>3. download' \in States /\ dc_status' \in {"DOWNLOADING", "READY"}
  BY DEF Enter
<1>4. pending' \in SUBSET Kinds /\ responded' \in SUBSET Kinds
  BY <1>1 DEF Enter, TypeOK
<1>5. replies' \in Seq(Channels \cup {"auth"})
  BY <1>2 DEF Enter
<1> QED
  BY <1>3, <1>4, <1>5

\* The requests of a batch are requests.
LEMMA RequestsType ==
  ASSUME TypeOK, NEW kind \in Kinds, NEW found \in SUBSET Orders
  PROVE  /\ RequestsFor(kind, found) \in Seq(RequestType)
         /\ Cardinality(found) \in Nat
         /\ kind = "stale_orders" =>
               /\ Len(RequestsFor(kind, found)) = Cardinality(found)
               /\ \A i \in 1..Cardinality(found) : RequestsFor(kind, found)[i].kind = "order"
         /\ kind # "stale_orders" =>
               \E r \in RequestType :
                  RequestsFor(kind, found) = <<r>> /\ r.kind = kind /\ kind \in Private
<1>1. Cardinality(found) \in Nat
  BY OrdersAssumption, FS_Subset, FS_CardinalityType
<1>2. CASE kind = "stale_orders"
  <2> DEFINE r == [kind |-> "order", in_time |-> FALSE, with_id |-> FALSE]
  <2>1. r \in RequestType
    BY DEF RequestType, Answerable
  <2>2. RequestsFor(kind, found) = [i \in 1..Cardinality(found) |-> r]
    BY <1>2 DEF RequestsFor
  <2>3. r.kind = "order"
    OBVIOUS
  <2> HIDE DEF r
  <2> QED
    BY <1>1, <1>2, <2>1, <2>2, <2>3
<1>3. CASE kind # "stale_orders"
  <2> DEFINE r == [kind |-> kind, in_time |-> SentInTime(kind), with_id |-> account_id]
  <2>1. SentInTime(kind) \in BOOLEAN /\ account_id \in BOOLEAN
    BY DEF SentInTime, TypeOK
  <2>2. kind \in Private
    BY <1>3 DEF Kinds
  <2>3. r \in RequestType /\ r.kind = kind
    BY <2>1, <2>2 DEF RequestType, Answerable
  <2>4. RequestsFor(kind, found) = <<r>>
    BY <1>3 DEF RequestsFor
  <2> HIDE DEF r
  <2> QED
    BY <1>1, <1>3, <2>2, <2>3, <2>4
<1> QED
  BY <1>2, <1>3

\* DropCopy's part of the timer keeps what it touches well typed.
LEMMA DropCopyTimerType ==
  ASSUME TypeOK, NEW p \in SUBSET Kinds, NEW b \in SUBSET Kinds, NEW d \in SUBSET Orders,
         DropCopyTimer(p, b, d)
  PROVE  /\ running' \in BOOLEAN
         /\ download' \in States
         /\ dc_status' \in {"DISCONNECTED", "LOGIN_SENT", "DOWNLOADING", "READY"}
         /\ pending' \in SUBSET Kinds
         /\ responded' \in SUBSET Kinds
         /\ details' \in SUBSET Orders
         /\ replies' \in Seq(Channels \cup {"auth"})
<1>1. CASE AdvanceDownload(p, b, d)
  <2>1. download \in {"GET_ACCOUNT", "GET_BALANCES", "GET_OPEN_ORDERS", "GET_STALE_ORDERS"}
    BY <1>1 DEF AdvanceDownload, Answered, RequestOf
  <2>2. \A stale : Successor(download, stale) \in States
    BY <2>1, Successors, StatesAre
  <2>3. replies \in Seq(Channels \cup {"auth"})
    BY DEF TypeOK
  <2>4. CASE download = "GET_OPEN_ORDERS"
    <3>1. PICK stale \in SUBSET Orders :
             /\ details' = d \cup stale
             /\ Enter(Successor(download, d \cup stale), p, replies)
             /\ UNCHANGED running
      BY <1>1, <2>4 DEF AdvanceDownload
    <3>2. Successor(download, d \cup stale) \in States
      BY <2>2
    <3>3. running' \in BOOLEAN /\ details' \in SUBSET Orders
      BY <3>1 DEF TypeOK
    <3> QED
      BY <2>3, <3>1, <3>2, <3>3, EnterType
  <2>5. CASE download = "GET_STALE_ORDERS" /\ d # {}
    BY <1>1, <2>5 DEF AdvanceDownload, TypeOK
  <2>6. CASE ~(download = "GET_OPEN_ORDERS") /\ ~(download = "GET_STALE_ORDERS" /\ d # {})
    <3>1. /\ details' = d
          /\ Enter(Successor(download, d), p, replies)
          /\ UNCHANGED running
      BY <1>1, <2>6 DEF AdvanceDownload
    <3>2. running' \in BOOLEAN /\ details' \in SUBSET Orders
      BY <3>1 DEF TypeOK
    <3> QED
      BY <2>2, <2>3, <3>1, <3>2, EnterType
  <2> QED
    BY <2>4, <2>5, <2>6
<1>2. CASE CheckStaleOrders(p, d)
  BY <1>2 DEF CheckStaleOrders, TypeOK, Kinds
<1>3. CASE IdleDropCopy(p, b, d)
  BY <1>3 DEF IdleDropCopy, TypeOK
<1> QED
  BY <1>1, <1>2, <1>3 DEF DropCopyTimer

\* Every reachable state is well typed.
THEOREM TypeCorrect == Spec => []TypeOK
<1>1. Init => TypeOK
  <2> SUFFICES ASSUME Init PROVE TypeOK
    OBVIOUS
  <2>1. running \in BOOLEAN /\ account_id \in BOOLEAN /\ accepted \in BOOLEAN
        /\ disturbed \in BOOLEAN
    BY Zenon DEF Init
  <2>2. counter \in Nat /\ inflight \in Seq(RequestType)
        /\ replies \in Seq(Channels \cup {"auth"})
    BY DEF Init
  <2>3. download \in States
    BY StatesAre DEF Init
  <2> QED
    BY <2>1, <2>2, <2>3, Zenon DEF Init, TypeOK
<1>2. TypeOK /\ [Next]_vars => TypeOK'
  <2> SUFFICES ASSUME TypeOK, [Next]_vars PROVE TypeOK'
    OBVIOUS
  <2>1. CASE RestConnected
    BY <2>1 DEF RestConnected, TypeOK, request_vars, dc_vars, history
  <2>2. CASE RestDisconnected
    BY <2>2 DEF RestDisconnected, TypeOK, request_vars, dc_vars
  <2>3. ASSUME NEW outcome \in Outcomes, PrivateAck(outcome) PROVE TypeOK'
    <3>1. Head(inflight) \in RequestType /\ Tail(inflight) \in Seq(RequestType)
      BY <2>3 DEF PrivateAck, TypeOK
    <3>2. Head(inflight).kind \in Private
      BY <2>3 DEF PrivateAck
    <3>3. in_progress' \in SUBSET Kinds /\ responded' \in SUBSET Kinds
      BY <2>3, <3>2 DEF PrivateAck, TypeOK, Kinds
    <3>4. settled' \in SUBSET Private /\ failed' \in SUBSET Private
      BY <2>3, <3>2 DEF PrivateAck, TypeOK
    <3>5. account_id' \in BOOLEAN /\ disturbed' \in BOOLEAN
      BY <2>3 DEF PrivateAck, TypeOK
    <3>6. inflight' \in Seq(RequestType)
      BY <2>3, <3>1, Zenon DEF PrivateAck
    <3>7. UNCHANGED <<running, oe_status, counter, pending, details, link, dc_status,
                      download, replies, accepted, acked>>
      BY <2>3, Zenon DEF PrivateAck, dc_vars
    <3> QED
      BY <3>3, <3>4, <3>5, <3>6, <3>7, Zenon DEF TypeOK
  <2>4. CASE GetOrderAck
    <3>1. Tail(inflight) \in Seq(RequestType)
      BY <2>4 DEF GetOrderAck, TypeOK
    <3>2. counter' \in Nat
      <4>1. counter \in Nat
        BY DEF TypeOK
      <4>2. \/ counter' = counter
            \/ counter # 0 /\ counter' = counter - 1
        BY <2>4, Zenon DEF GetOrderAck
      <4> QED
        BY <4>1, <4>2
    <3>3. running' \in BOOLEAN
      BY <2>4 DEF GetOrderAck, TypeOK
    <3>4. in_progress' \in SUBSET Kinds /\ responded' \in SUBSET Kinds
      BY <2>4 DEF GetOrderAck, TypeOK, Kinds
    <3>5. inflight' \in Seq(RequestType)
      BY <2>4, <3>1, Zenon DEF GetOrderAck
    <3>6. UNCHANGED <<oe_status, account_id, pending, details, link, dc_status, download,
                      replies, accepted, acked, settled, failed, disturbed>>
      BY <2>4, Zenon DEF GetOrderAck, dc_vars, history
    <3> QED
      BY <3>2, <3>3, <3>4, <3>5, <3>6, Zenon DEF TypeOK
  <2>5. CASE WsReady
    BY <2>5 DEF WsReady, TypeOK, oe_vars, request_vars, history
  <2>6. CASE WsDisconnected
    <3>1. inflight' \in Seq(RequestType)
      <4>1. inflight \in Seq(RequestType) /\ DOMAIN inflight = 1..Len(inflight)
        BY DEF TypeOK
      <4>2. inflight' = [i \in 1..Len(inflight) |-> [inflight[i] EXCEPT !.in_time = FALSE]]
        BY <2>6, <4>1, Zenon DEF WsDisconnected
      <4>3. \A r \in RequestType : [r EXCEPT !.in_time = FALSE] \in RequestType
        BY DEF RequestType
      <4>4. \A i \in 1..Len(inflight) : [inflight[i] EXCEPT !.in_time = FALSE] \in RequestType
        BY <4>1, <4>3
      <4> QED
        BY <4>1, <4>2, <4>4
    <3>2. replies' \in Seq(Channels \cup {"auth"})
      BY <2>6 DEF WsDisconnected
    <3> QED
      BY <2>6, <3>1, <3>2 DEF WsDisconnected, TypeOK, request_vars
  <2>7. CASE AuthAccepted
    <3>1. Tail(replies) \in Seq(Channels \cup {"auth"})
      BY <2>7 DEF AuthAccepted, Awaiting, TypeOK
    <3>2. "GET_ACCOUNT" \in States /\ pending \in SUBSET Kinds
      BY StatesAre DEF TypeOK
    <3>3. Enter("GET_ACCOUNT", pending, Tail(replies))
      BY <2>7 DEF AuthAccepted
    <3>4. /\ download' \in States
          /\ dc_status' \in {"DISCONNECTED", "LOGIN_SENT", "DOWNLOADING", "READY"}
          /\ pending' \in SUBSET Kinds
          /\ responded' \in SUBSET Kinds
          /\ replies' \in Seq(Channels \cup {"auth"})
      BY <3>1, <3>2, <3>3, EnterType
    <3> QED
      BY <2>7, <3>4 DEF AuthAccepted, TypeOK, oe_vars
  <2>8. CASE AuthRejected
    <3>1. replies' \in Seq(Channels \cup {"auth"})
      BY <2>8 DEF AuthRejected, Awaiting, TypeOK
    <3>2. running' \in BOOLEAN /\ link' \in {"down", "open", "closing"}
      BY <2>8 DEF AuthRejected, TypeOK
    <3>3. UNCHANGED <<oe_status, account_id, counter, inflight, pending, in_progress, responded,
                      details, dc_status, download, accepted, acked, settled, failed, disturbed>>
      BY <2>8, Zenon DEF AuthRejected, oe_vars, request_vars, history
    <3> QED
      BY <3>1, <3>2, <3>3, Zenon DEF TypeOK
  <2>9. ASSUME NEW channel \in Channels, SubReply(channel) PROVE TypeOK'
    <3>1. Tail(replies) \in Seq(Channels \cup {"auth"})
      BY <2>9 DEF SubReply, Awaiting, TypeOK
    <3>2. /\ download' \in States
          /\ dc_status' \in {"DISCONNECTED", "LOGIN_SENT", "DOWNLOADING", "READY"}
          /\ pending' \in SUBSET Kinds
          /\ responded' \in SUBSET Kinds
          /\ replies' \in Seq(Channels \cup {"auth"})
      <4>1. CASE download \in DOMAIN ChannelOf /\ ChannelOf[download] = channel
        <5>1. Successor(download, details) \in States
          BY <4>1, Successors, StatesAre DEF ChannelOf
        <5>2. Enter(Successor(download, details), pending, Tail(replies))
          BY <2>9, <4>1 DEF SubReply
        <5>3. pending \in SUBSET Kinds
          BY DEF TypeOK
        <5> QED
          BY <3>1, <5>1, <5>2, <5>3, EnterType
      <4>2. CASE ~(download \in DOMAIN ChannelOf /\ ChannelOf[download] = channel)
        BY <2>9, <3>1, <4>2 DEF SubReply, TypeOK
      <4> QED
        BY <4>1, <4>2
    <3> QED
      BY <2>9, <3>2 DEF SubReply, TypeOK, oe_vars
  <2>10. CASE TimerSends
    <3>1. PICK kind \in Sendable, found \in Findable :
             /\ CheckRequestQueue(kind, IF kind = "stale_orders" THEN found ELSE {})
             /\ DropCopyTimer(pending \ {kind}, in_progress \cup {kind},
                              IF kind = "stale_orders" THEN {} ELSE details)
      BY <2>10 DEF TimerSends
    <3>2. kind \in Kinds /\ found \in SUBSET Orders
      BY <3>1 DEF Sendable, Findable, TypeOK
    <3> DEFINE f == IF kind = "stale_orders" THEN found ELSE {}
               p == pending \ {kind}
               b == in_progress \cup {kind}
               d == IF kind = "stale_orders" THEN {} ELSE details
    <3>3. f \in SUBSET Orders /\ p \in SUBSET Kinds /\ b \in SUBSET Kinds /\ d \in SUBSET Orders
      BY <3>2 DEF TypeOK
    <3>4. CheckRequestQueue(kind, f) /\ DropCopyTimer(p, b, d)
      BY <3>1
    <3> HIDE DEF f, p, b, d
    <3>5. inflight' \in Seq(RequestType)
      BY <3>2, <3>3, <3>4, RequestsType DEF CheckRequestQueue, TypeOK
    <3>6. counter' \in Nat
      <4>1. counter \in Nat /\ Cardinality(f) \in Nat
        BY <3>2, <3>3, RequestsType DEF TypeOK
      <4>2. counter' = counter + Cardinality(f) \/ counter' = counter
        BY <3>4, Zenon DEF CheckRequestQueue
      <4> QED
        BY <4>1, <4>2
    <3>7. in_progress' \in SUBSET Kinds
      BY <3>2, <3>4 DEF CheckRequestQueue, TypeOK
    <3>8. /\ running' \in BOOLEAN
          /\ download' \in States
          /\ dc_status' \in {"DISCONNECTED", "LOGIN_SENT", "DOWNLOADING", "READY"}
          /\ pending' \in SUBSET Kinds
          /\ responded' \in SUBSET Kinds
          /\ details' \in SUBSET Orders
          /\ replies' \in Seq(Channels \cup {"auth"})
      BY <3>3, <3>4, DropCopyTimerType
    <3> QED
      <4>1. UNCHANGED <<oe_status, account_id, link, accepted, acked, settled, failed, disturbed>>
        BY <2>10, Zenon DEF TimerSends, history
      <4> QED
        BY <3>5, <3>6, <3>7, <3>8, <4>1, Zenon DEF TypeOK
  <2>11. CASE TimerHolds
    <3>1. pending \in SUBSET Kinds /\ in_progress \in SUBSET Kinds /\ details \in SUBSET Orders
      BY DEF TypeOK
    <3>2. DropCopyTimer(pending, in_progress, details)
      BY <2>11 DEF TimerHolds
    <3>3. /\ running' \in BOOLEAN
          /\ download' \in States
          /\ dc_status' \in {"DISCONNECTED", "LOGIN_SENT", "DOWNLOADING", "READY"}
          /\ pending' \in SUBSET Kinds
          /\ responded' \in SUBSET Kinds
          /\ details' \in SUBSET Orders
          /\ replies' \in Seq(Channels \cup {"auth"})
      BY <3>1, <3>2, DropCopyTimerType
    <3> QED
      BY <2>11, <3>3 DEF TimerHolds, TypeOK, history
  <2>12. CASE UNCHANGED vars
    BY <2>12 DEF vars, oe_vars, request_vars, dc_vars, history, TypeOK
  <2> QED
    BY <2>1, <2>2, <2>3, <2>4, <2>5, <2>6, <2>7, <2>8, <2>9, <2>10, <2>11, <2>12 DEF Next
<1> QED
  BY <1>1, <1>2, PTL DEF Spec

-------------------------------------------------------------------------------
(* The counter of the stale orders.                                         *)

\* Losing the websocket changes no kind in the REST queue.
LEMMA DisconnectCount ==
  ASSUME TypeOK, WsDisconnected
  PROVE  OrderRequests(inflight') = OrderRequests(inflight)
<1>1. inflight \in Seq(RequestType) /\ DOMAIN inflight = 1..Len(inflight)
  BY DEF TypeOK
<1>2. inflight' = [i \in 1..Len(inflight) |-> [inflight[i] EXCEPT !.in_time = FALSE]]
  BY <1>1, Zenon DEF WsDisconnected
<1>3. \A r \in RequestType : [r EXCEPT !.in_time = FALSE].kind = r.kind
  BY DEF RequestType
<1>4. \A i \in 1..Len(inflight) : inflight'[i].kind = inflight[i].kind
  <2> SUFFICES ASSUME NEW i \in 1..Len(inflight) PROVE inflight'[i].kind = inflight[i].kind
    OBVIOUS
  <2>1. inflight'[i] = [inflight[i] EXCEPT !.in_time = FALSE]
    BY <1>2, Zenon
  <2>2. inflight[i] \in RequestType
    BY <1>1
  <2> QED
    BY <1>3, <2>1, <2>2, Zenon
<1>5. DOMAIN inflight' = DOMAIN inflight
  BY <1>1, <1>2
<1> QED
  BY <1>1, <1>4, <1>5 DEF OrderRequests

\* What OrderEntry sends at a timer moves the counter and the queue together.
LEMMA SendingCounts ==
  ASSUME TypeOK, NEW kind \in Kinds, NEW found \in SUBSET Orders,
         CheckRequestQueue(kind, found),
         counter = Cardinality(OrderRequests(inflight))
  PROVE  counter' = Cardinality(OrderRequests(inflight'))
<1>1. /\ inflight \in Seq(RequestType) /\ counter \in Nat
      /\ RequestsFor(kind, found) \in Seq(RequestType)
      /\ inflight' = inflight \o RequestsFor(kind, found)
  BY RequestsType DEF TypeOK, CheckRequestQueue
<1>2. CASE kind = "stale_orders"
  <2>1. /\ Len(RequestsFor(kind, found)) = Cardinality(found)
        /\ \A i \in 1..Len(RequestsFor(kind, found)) : RequestsFor(kind, found)[i].kind = "order"
    BY <1>2, RequestsType
  <2>2. counter' = counter + Cardinality(found)
    BY <1>2, Zenon DEF CheckRequestQueue
  <2>3. Cardinality(OrderRequests(inflight \o RequestsFor(kind, found))) =
          Cardinality(OrderRequests(inflight)) + Len(RequestsFor(kind, found))
    BY <1>1, <2>1, BatchCount, Zenon
  <2> QED
    BY <1>1, <2>1, <2>2, <2>3, Zenon
<1>3. CASE kind # "stale_orders"
  <2>1. PICK r \in RequestType : RequestsFor(kind, found) = <<r>> /\ r.kind = kind /\ kind \in Private
    BY <1>3, RequestsType
  <2>2. r.kind # "order"
    BY <2>1 DEF Private
  <2>3. OrderRequests(inflight \o <<r>>) = OrderRequests(inflight)
    BY <1>1, <2>2, PrivateCount
  <2>4. counter' = counter
    BY <1>3, Zenon DEF CheckRequestQueue
  <2> QED
    BY <1>1, <2>1, <2>3, <2>4, Zenon
<1> QED
  BY <1>2, <1>3

\* An answer taken from the queue moves the counter and the queue together.
LEMMA AnswerCounts ==
  ASSUME TypeOK, CounterMatchesInflight,
         GetOrderAck \/ \E outcome \in Outcomes : PrivateAck(outcome)
  PROVE  CounterMatchesInflight' /\ running' = running
<1>1. /\ running /\ inflight # <<>> /\ inflight \in Seq(RequestType) /\ inflight' = Tail(inflight)
      /\ counter \in Nat /\ counter = Cardinality(OrderRequests(inflight))
  BY DEF GetOrderAck, PrivateAck, TypeOK, CounterMatchesInflight
<1>2. Cardinality(OrderRequests(Tail(inflight))) =
        IF Head(inflight).kind = "order" THEN counter - 1 ELSE counter
  BY <1>1, TailCount, Zenon
<1>3. Tail(inflight) \in Seq(RequestType)
  BY <1>1
<1>4. CASE GetOrderAck
  <2>1. Cardinality(OrderRequests(inflight')) = counter - 1
    BY <1>1, <1>2, <1>4, Zenon DEF GetOrderAck
  <2>2. Cardinality(OrderRequests(inflight')) \in Nat
    BY <1>1, <1>3, OrderRequestsFinite
  <2>3. counter # 0
    BY <1>1, <2>1, <2>2
  <2>4. counter' = counter - 1 /\ running' = running
    BY <1>4, <2>3, Zenon DEF GetOrderAck
  <2> QED
    BY <1>1, <2>1, <2>4, Zenon DEF CounterMatchesInflight
<1>5. CASE \E outcome \in Outcomes : PrivateAck(outcome)
  <2>1. Head(inflight).kind # "order" /\ counter' = counter /\ running' = running
    BY <1>5 DEF PrivateAck, Private
  <2> QED
    BY <1>1, <1>2, <2>1, Zenon DEF CounterMatchesInflight
<1> QED
  BY <1>4, <1>5

\* Whatever disconnects or fails, the counter of order_entry.cpp:482 is the number
\* of get_order answers still to come.
THEOREM CounterIsExact == Spec => []CounterMatchesInflight
<1>1. Init => CounterMatchesInflight
  <2>1. OrderRequests(<<>>) = {} /\ Cardinality({}) = 0
    BY FS_EmptySet DEF OrderRequests
  <2> QED
    BY <2>1, Zenon DEF Init, CounterMatchesInflight
<1>2. TypeOK /\ CounterMatchesInflight /\ [Next]_vars => CounterMatchesInflight'
  <2> SUFFICES ASSUME TypeOK, CounterMatchesInflight, [Next]_vars
               PROVE  CounterMatchesInflight'
    OBVIOUS
  <2>1. CASE UNCHANGED <<counter, inflight>> /\ (running' => running)
    BY <2>1, Zenon DEF CounterMatchesInflight
  <2>2. CASE GetOrderAck \/ \E outcome \in Outcomes : PrivateAck(outcome)
    BY <2>2, AnswerCounts
  <2>3. CASE WsDisconnected
    <3>1. counter' = counter /\ running' = running
      BY <2>3 DEF WsDisconnected
    <3> QED
      BY <2>3, <3>1, DisconnectCount, Zenon DEF CounterMatchesInflight
  <2>4. CASE TimerSends
    <3>1. PICK kind \in Sendable, found \in Findable :
             CheckRequestQueue(kind, IF kind = "stale_orders" THEN found ELSE {})
      BY <2>4 DEF TimerSends
    <3>2. kind \in Kinds /\ (IF kind = "stale_orders" THEN found ELSE {}) \in SUBSET Orders
      BY <3>1 DEF Sendable, Findable, TypeOK
    <3>3. counter = Cardinality(OrderRequests(inflight))
      BY <2>4 DEF TimerSends, CounterMatchesInflight
    <3> QED
      BY <3>1, <3>2, <3>3, SendingCounts DEF CounterMatchesInflight
  <2>5. CASE \/ RestConnected \/ RestDisconnected \/ WsReady \/ AuthAccepted \/ AuthRejected
             \/ TimerHolds \/ UNCHANGED vars \/ \E channel \in Channels : SubReply(channel)
    <3>1. UNCHANGED <<counter, inflight>> /\ (running' => running)
      BY <2>5 DEF RestConnected, RestDisconnected, WsReady, AuthAccepted, AuthRejected, TimerHolds,
                  SubReply, vars, oe_vars
    <3> QED
      BY <2>1, <3>1
  <2> QED
    BY <2>2, <2>3, <2>4, <2>5 DEF Next
<1> QED
  BY <1>1, <1>2, TypeCorrect, PTL DEF Spec

-------------------------------------------------------------------------------
(* The stale orders.                                                        *)

\* The two things an answered query of the download can do.
LEMMA Advances ==
  ASSUME NEW p, NEW b, NEW d, AdvanceDownload(p, b, d)
  PROVE  \/ /\ download = "GET_STALE_ORDERS" /\ d # {} /\ HasResponse("stale_orders", p, b)
            /\ running' = FALSE /\ details' = d /\ pending' = p
            /\ UNCHANGED <<responded, download, dc_status, replies>>
         \/ \E next \in States :
               /\ UNCHANGED running
               /\ Enter(next, p, replies)
               /\ \/ download = "GET_ACCOUNT" /\ next = "SUBSCRIBE_BALANCES" /\ details' = d
                  \/ download = "GET_BALANCES" /\ next = "SUBSCRIBE_ORDERS" /\ details' = d
                  \/ /\ download = "GET_OPEN_ORDERS" /\ d \subseteq details'
                     /\ next = IF details' = {} THEN "SUBSCRIBE_TRADES" ELSE "GET_STALE_ORDERS"
                  \/ download = "GET_STALE_ORDERS" /\ next = "SUBSCRIBE_TRADES" /\ details' = d
<1>1. download \in {"GET_ACCOUNT", "GET_BALANCES", "GET_OPEN_ORDERS", "GET_STALE_ORDERS"}
  BY DEF AdvanceDownload, Answered, RequestOf
<1>2. CASE download = "GET_OPEN_ORDERS"
  <2>1. PICK stale \in SUBSET Orders :
           /\ details' = d \cup stale
           /\ Enter(Successor(download, d \cup stale), p, replies)
           /\ UNCHANGED running
    BY <1>2 DEF AdvanceDownload
  <2>2. Successor(download, d \cup stale) =
           IF details' = {} THEN "SUBSCRIBE_TRADES" ELSE "GET_STALE_ORDERS"
    BY <1>2, <2>1, Successors, Zenon
  <2>3. Successor(download, d \cup stale) \in States
    BY <2>2, StatesAre
  <2> QED
    BY <1>2, <2>1, <2>2, <2>3
<1>3. CASE download = "GET_STALE_ORDERS" /\ d # {}
  BY <1>3 DEF AdvanceDownload, Answered, RequestOf
<1>4. CASE download # "GET_OPEN_ORDERS" /\ ~(download = "GET_STALE_ORDERS" /\ d # {})
  <2>1. /\ details' = d
        /\ Enter(Successor(download, d), p, replies)
        /\ UNCHANGED running
    BY <1>4 DEF AdvanceDownload
  <2>2. Successor(download, d) \in States
    BY <1>1, Successors, StatesAre
  <2>3. \/ download = "GET_ACCOUNT" /\ Successor(download, d) = "SUBSCRIBE_BALANCES"
        \/ download = "GET_BALANCES" /\ Successor(download, d) = "SUBSCRIBE_ORDERS"
        \/ download = "GET_STALE_ORDERS" /\ Successor(download, d) = "SUBSCRIBE_TRADES"
    BY <1>1, <1>4, Successors, Zenon
  <2> QED
    BY <2>1, <2>2, <2>3, Zenon
<1> QED
  BY <1>2, <1>3, <1>4

\* Entering a state asks for the stale orders only in GET_STALE_ORDERS.
LEMMA EnterStale ==
  ASSUME NEW state, NEW p, NEW q, Enter(state, p, q)
  PROVE  "stale_orders" \in pending' <=> "stale_orders" \in p \/ state = "GET_STALE_ORDERS"
<1>1. CASE state \in DOMAIN RequestOf
  BY <1>1 DEF Enter, RequestOf
<1>2. CASE state \notin DOMAIN RequestOf
  BY <1>2 DEF Enter, RequestOf
<1> QED
  BY <1>1, <1>2

\* DropCopy's part of the timer notes no stale order without asking for it.
LEMMA TimerStale ==
  ASSUME NEW p, NEW b, NEW d, d # {} <=> "stale_orders" \in p, DropCopyTimer(p, b, d)
  PROVE  StaleOrdersAreAskedFor'
<1>1. CASE AdvanceDownload(p, b, d)
  <2>1. CASE details' = d /\ pending' = p
    BY <2>1 DEF StaleOrdersAreAskedFor
  <2>2. CASE \E next \in States :
               /\ Enter(next, p, replies)
               /\ \/ next \in {"SUBSCRIBE_BALANCES", "SUBSCRIBE_ORDERS", "SUBSCRIBE_TRADES"} /\ details' = d
                  \/ /\ d \subseteq details'
                     /\ next = IF details' = {} THEN "SUBSCRIBE_TRADES" ELSE "GET_STALE_ORDERS"
    BY <2>2, EnterStale DEF StaleOrdersAreAskedFor
  <2> QED
    BY <1>1, <2>1, <2>2, Advances
<1>2. CASE CheckStaleOrders(p, d)
  BY <1>2 DEF CheckStaleOrders, StaleOrdersAreAskedFor
<1>3. CASE IdleDropCopy(p, b, d)
  BY <1>3 DEF IdleDropCopy, StaleOrdersAreAskedFor
<1> QED
  BY <1>1, <1>2, <1>3 DEF DropCopyTimer

\* No stale order is noted and forgotten, and no query for them is pending with
\* none to ask for, in any session and across reconnects.
THEOREM StaleOrdersAsked == Spec => []StaleOrdersAreAskedFor
<1>1. Init => StaleOrdersAreAskedFor
  BY DEF Init, StaleOrdersAreAskedFor
<1>2. TypeOK /\ StaleOrdersAreAskedFor /\ [Next]_vars => StaleOrdersAreAskedFor'
  <2> SUFFICES ASSUME TypeOK, StaleOrdersAreAskedFor, [Next]_vars
               PROVE  StaleOrdersAreAskedFor'
    OBVIOUS
  <2>1. CASE AuthAccepted
    <3>1. Enter("GET_ACCOUNT", pending, Tail(replies)) /\ details' = details
      BY <2>1 DEF AuthAccepted
    <3> QED
      BY <3>1, EnterStale DEF StaleOrdersAreAskedFor
  <2>2. ASSUME NEW channel \in Channels, SubReply(channel) PROVE StaleOrdersAreAskedFor'
    <3>1. details' = details
      BY <2>2 DEF SubReply
    <3>2. CASE download \in DOMAIN ChannelOf /\ ChannelOf[download] = channel
      <4>1. Enter(Successor(download, details), pending, Tail(replies))
        BY <2>2, <3>2 DEF SubReply
      <4>2. Successor(download, details) # "GET_STALE_ORDERS"
        BY <3>2, Successors DEF ChannelOf
      <4> QED
        BY <3>1, <4>1, <4>2, EnterStale DEF StaleOrdersAreAskedFor
    <3>3. CASE ~(download \in DOMAIN ChannelOf /\ ChannelOf[download] = channel)
      BY <2>2, <3>1, <3>3 DEF SubReply, StaleOrdersAreAskedFor
    <3> QED
      BY <3>2, <3>3
  <2>3. CASE TimerSends
    <3>1. PICK kind \in Sendable :
             DropCopyTimer(pending \ {kind}, in_progress \cup {kind},
                           IF kind = "stale_orders" THEN {} ELSE details)
      BY <2>3 DEF TimerSends
    <3>2. (IF kind = "stale_orders" THEN {} ELSE details) # {} <=> "stale_orders" \in pending \ {kind}
      BY DEF StaleOrdersAreAskedFor
    <3> QED
      BY <3>1, <3>2, TimerStale
  <2>4. CASE TimerHolds
    BY <2>4, TimerStale DEF TimerHolds, StaleOrdersAreAskedFor
  <2>5. CASE \/ RestConnected \/ RestDisconnected \/ GetOrderAck \/ WsReady \/ WsDisconnected
             \/ AuthRejected \/ UNCHANGED vars \/ \E outcome \in Outcomes : PrivateAck(outcome)
    <3>1. UNCHANGED <<details, pending>>
      BY <2>5 DEF RestConnected, RestDisconnected, GetOrderAck, WsReady, WsDisconnected, AuthRejected,
                  PrivateAck, vars, request_vars
    <3> QED
      BY <3>1 DEF StaleOrdersAreAskedFor
  <2> QED
    BY <2>1, <2>2, <2>3, <2>4, <2>5 DEF Next
<1> QED
  BY <1>1, <1>2, TypeCorrect, PTL DEF Spec

-------------------------------------------------------------------------------
(* The session of the websocket.                                            *)

NoAuth(q) == \A i \in 1..Len(q) : q[i] # "auth"

AwaitsLogin(q) == q # <<>> /\ Head(q) = "auth" /\ NoAuth(Tail(q))

\* While the login is unanswered its reply is the next one due; afterwards no
\* other login reply can come.
LoginOnce == running /\ link = "open" => IF accepted THEN NoAuth(replies) ELSE AwaitsLogin(replies)

\* A lost websocket leaves neither login nor status behind.
DownIsReset == link = "down" => ~accepted /\ dc_status = "DISCONNECTED"

\* READY is reached at the end of the download of an accepted login.
ReadyIsDone == dc_status = "READY" => accepted /\ download = "DONE"

\* A channel the download has passed in this session was replied to.
PassedIsAcked ==
  accepted =>
    /\ download \in States \ {"UNDEFINED", "GET_ACCOUNT", "SUBSCRIBE_BALANCES"}
          => "accounts.update" \in acked
    /\ download \in {"GET_OPEN_ORDERS", "GET_STALE_ORDERS", "SUBSCRIBE_TRADES", "DONE"}
          => "orders" \in acked
    /\ download = "DONE" => "trade.clearing" \in acked

\* What ties the download, which survives a lost websocket, to the session.
SessionInv == LoginOnce /\ DownIsReset /\ ReadyIsDone /\ PassedIsAcked

\* The end of a queue of replies.
LEMMA ReplyTail ==
  ASSUME NEW q \in Seq(Channels \cup {"auth"}), q # <<>>
  PROVE  /\ Tail(q) \in Seq(Channels \cup {"auth"})
         /\ NoAuth(q) => Head(q) # "auth" /\ NoAuth(Tail(q))
<1>1. /\ Tail(q) \in Seq(Channels \cup {"auth"}) /\ Len(q) >= 1 /\ Len(q) \in Nat
      /\ Len(Tail(q)) = Len(q) - 1 /\ \A i \in 1..Len(Tail(q)) : Tail(q)[i] = q[i + 1]
      /\ Head(q) = q[1]
  BY HeadTailProperties
<1> QED
  BY <1>1 DEF NoAuth

\* Entering a state adds at most a subscription to the replies due.
LEMMA EnterReplies ==
  ASSUME NEW state, NEW p, NEW q \in Seq(Channels \cup {"auth"}), Enter(state, p, q)
  PROVE  /\ NoAuth(q) => NoAuth(replies')
         /\ AwaitsLogin(q) => AwaitsLogin(replies')
         /\ download' = state
         /\ dc_status' = IF state = "DONE" THEN "READY" ELSE "DOWNLOADING"
<1>1. CASE state \in DOMAIN ChannelOf
  <2> DEFINE c == ChannelOf[state]
  <2>1. c \in Channels /\ c # "auth"
    BY <1>1 DEF ChannelOf, Channels
  <2>2. replies' = Append(q, c)
    BY <1>1 DEF Enter
  <2> HIDE DEF c
  <2>3. NoAuth(q) => NoAuth(replies')
    BY <2>1, <2>2 DEF NoAuth
  <2>4. ASSUME AwaitsLogin(q) PROVE AwaitsLogin(replies')
    <3>1. q # <<>> /\ Head(q) = "auth" /\ NoAuth(Tail(q)) /\ Tail(q) \in Seq(Channels \cup {"auth"})
      BY <2>4 DEF AwaitsLogin
    <3>2. replies' # <<>> /\ Head(replies') = Head(q) /\ Tail(replies') = Append(Tail(q), c)
      BY <2>1, <2>2, <3>1
    <3>3. NoAuth(Append(Tail(q), c))
      BY <2>1, <3>1 DEF NoAuth
    <3> QED
      BY <3>1, <3>2, <3>3 DEF AwaitsLogin
  <2> QED
    BY <2>3, <2>4 DEF Enter
<1>2. CASE state \notin DOMAIN ChannelOf
  BY <1>2 DEF Enter
<1> QED
  BY <1>1, <1>2

\* DropCopy's part of the timer keeps the session's invariant.
LEMMA TimerSession ==
  ASSUME TypeOK, SessionInv, running, NEW p, NEW b, NEW d, DropCopyTimer(p, b, d),
         UNCHANGED <<link, accepted, acked>>
  PROVE  SessionInv'
<1>1. CASE UNCHANGED <<download, dc_status, replies>>
  BY <1>1 DEF SessionInv, LoginOnce, DownIsReset, ReadyIsDone, PassedIsAcked
<1>2. ASSUME link = "open",
             NEW next \in {"SUBSCRIBE_BALANCES", "SUBSCRIBE_ORDERS",
                           "GET_STALE_ORDERS", "SUBSCRIBE_TRADES"},
             Enter(next, p, replies),
             \/ download = "GET_ACCOUNT" /\ next = "SUBSCRIBE_BALANCES"
             \/ download = "GET_BALANCES" /\ next = "SUBSCRIBE_ORDERS"
             \/ download = "GET_OPEN_ORDERS" /\ next \in {"SUBSCRIBE_TRADES", "GET_STALE_ORDERS"}
             \/ download = "GET_STALE_ORDERS" /\ next = "SUBSCRIBE_TRADES"
      PROVE  SessionInv'
  <2>1. replies \in Seq(Channels \cup {"auth"})
    BY DEF TypeOK
  <2>2. /\ NoAuth(replies) => NoAuth(replies')
        /\ AwaitsLogin(replies) => AwaitsLogin(replies')
        /\ download' = next
        /\ dc_status' = "DOWNLOADING"
    BY <1>2, <2>1, EnterReplies
  <2>3. LoginOnce' /\ DownIsReset' /\ ReadyIsDone'
    BY <1>2, <2>2 DEF SessionInv, LoginOnce, DownIsReset, ReadyIsDone
  <2>4. PassedIsAcked'
    BY <1>2, <2>2, StatesAre DEF SessionInv, PassedIsAcked
  <2> QED
    BY <2>3, <2>4 DEF SessionInv
<1>3. CASE link = "open" /\ AdvanceDownload(p, b, d)
  BY <1>1, <1>2, <1>3, Advances
<1>4. CASE CheckStaleOrders(p, d) \/ IdleDropCopy(p, b, d)
  BY <1>1, <1>4 DEF CheckStaleOrders, IdleDropCopy
<1> QED
  BY <1>3, <1>4 DEF DropCopyTimer

\* The session's invariant holds through every step.
LEMMA SessionStep ==
  ASSUME TypeOK, SessionInv, [Next]_vars
  PROVE  SessionInv'
<1>0. replies \in Seq(Channels \cup {"auth"})
  BY DEF TypeOK
<1>1. CASE WsReady
  <2>1. replies' = <<"auth">> /\ running' = running /\ link' = "open" /\ dc_status' = "LOGIN_SENT"
        /\ accepted' = accepted /\ ~accepted
    BY <1>1 DEF WsReady, history, SessionInv, DownIsReset
  <2>2. AwaitsLogin(<<"auth">>)
    BY DEF AwaitsLogin, NoAuth
  <2> QED
    BY <2>1, <2>2 DEF SessionInv, LoginOnce, DownIsReset, ReadyIsDone, PassedIsAcked
<1>2. CASE WsDisconnected
  <2>1. link' = "down" /\ accepted' = FALSE /\ dc_status' = "DISCONNECTED"
    BY <1>2 DEF WsDisconnected
  <2> QED
    BY <2>1 DEF SessionInv, LoginOnce, DownIsReset, ReadyIsDone, PassedIsAcked
<1>3. CASE AuthAccepted
  <2>1. /\ replies # <<>> /\ Head(replies) = "auth" /\ link = "open" /\ running
        /\ Enter("GET_ACCOUNT", pending, Tail(replies))
        /\ accepted' = TRUE /\ link' = link /\ acked' = acked
    BY <1>3 DEF AuthAccepted, Awaiting
  <2>2. NoAuth(Tail(replies))
    BY <1>0, <2>1, ReplyTail DEF SessionInv, LoginOnce, AwaitsLogin
  <2>3. Tail(replies) \in Seq(Channels \cup {"auth"})
    BY <1>0, <2>1
  <2>4. NoAuth(replies') /\ download' = "GET_ACCOUNT" /\ dc_status' = "DOWNLOADING"
    <3>1. /\ NoAuth(Tail(replies)) => NoAuth(replies')
          /\ download' = "GET_ACCOUNT"
          /\ dc_status' = IF "GET_ACCOUNT" = "DONE" THEN "READY" ELSE "DOWNLOADING"
      BY <2>1, <2>3, EnterReplies, Zenon
    <3> QED
      BY <2>2, <3>1
  <2>5. LoginOnce'
    BY <2>1, <2>4, Zenon DEF LoginOnce
  <2>6. DownIsReset' /\ ReadyIsDone'
    BY <2>1, <2>4 DEF DownIsReset, ReadyIsDone
  <2>7. PassedIsAcked'
    BY <2>4 DEF PassedIsAcked
  <2> QED
    BY <2>5, <2>6, <2>7 DEF SessionInv
<1>4. CASE AuthRejected
  <2>1. /\ link = "open" /\ (link' = "closing" \/ (running' = FALSE /\ link' = link))
        /\ UNCHANGED <<dc_status, download, accepted, acked>>
    BY <1>4 DEF AuthRejected, Awaiting, history
  <2> QED
    BY <2>1 DEF SessionInv, LoginOnce, DownIsReset, ReadyIsDone, PassedIsAcked
<1>5. ASSUME NEW channel \in Channels, SubReply(channel) PROVE SessionInv'
  <2>1. /\ replies # <<>> /\ Head(replies) = channel /\ link = "open" /\ running
        /\ acked' = acked \cup {channel} /\ UNCHANGED <<running, link, accepted>>
    BY <1>5 DEF SubReply, Awaiting
  <2>2. channel # "auth"
    BY DEF Channels
  <2>3. accepted /\ NoAuth(Tail(replies)) /\ Tail(replies) \in Seq(Channels \cup {"auth"})
    BY <1>0, <2>1, <2>2, ReplyTail DEF SessionInv, LoginOnce, AwaitsLogin
  <2>4. CASE download \in DOMAIN ChannelOf /\ ChannelOf[download] = channel
    <3>1. Enter(Successor(download, details), pending, Tail(replies))
      BY <1>5, <2>4 DEF SubReply
    <3>2. /\ NoAuth(replies') /\ download' = Successor(download, details)
          /\ dc_status' = IF download' = "DONE" THEN "READY" ELSE "DOWNLOADING"
      BY <2>3, <3>1, EnterReplies
    <3>3. \/ download = "SUBSCRIBE_BALANCES" /\ channel = "accounts.update" /\ download' = "GET_BALANCES"
          \/ download = "SUBSCRIBE_ORDERS" /\ channel = "orders" /\ download' = "GET_OPEN_ORDERS"
          \/ download = "SUBSCRIBE_TRADES" /\ channel = "trade.clearing" /\ download' = "DONE"
      BY <2>4, <3>2, Successors DEF ChannelOf
    <3>4. PassedIsAcked'
      BY <2>1, <2>3, <3>3, StatesAre DEF SessionInv, PassedIsAcked
    <3>5. LoginOnce' /\ DownIsReset' /\ ReadyIsDone'
      BY <2>1, <2>3, <3>2 DEF LoginOnce, DownIsReset, ReadyIsDone
    <3> QED
      BY <3>4, <3>5 DEF SessionInv
  <2>5. CASE ~(download \in DOMAIN ChannelOf /\ ChannelOf[download] = channel)
    <3>1. replies' = Tail(replies) /\ UNCHANGED <<download, dc_status>>
      BY <1>5, <2>5 DEF SubReply
    <3> QED
      BY <2>1, <2>3, <3>1 DEF SessionInv, LoginOnce, DownIsReset, ReadyIsDone, PassedIsAcked
  <2> QED
    BY <2>4, <2>5
<1>6. CASE TimerSends
  <2>1. \E p, b, d : DropCopyTimer(p, b, d)
    BY <1>6 DEF TimerSends
  <2>2. running /\ UNCHANGED <<link, accepted, acked>>
    BY <1>6 DEF TimerSends, history
  <2> QED
    BY <2>1, <2>2, TimerSession
<1>7. CASE TimerHolds
  <2>1. running /\ UNCHANGED <<link, accepted, acked>>
    BY <1>7 DEF TimerHolds, history
  <2> QED
    BY <1>7, <2>1, TimerSession DEF TimerHolds
<1>8. CASE \/ RestConnected \/ RestDisconnected \/ GetOrderAck \/ UNCHANGED vars
           \/ \E outcome \in Outcomes : PrivateAck(outcome)
  <2>1. /\ UNCHANGED <<link, dc_status, download, replies, accepted, acked>>
        /\ running' => running
    BY <1>8 DEF RestConnected, RestDisconnected, GetOrderAck, PrivateAck, vars, dc_vars, history
  <2> QED
    BY <2>1 DEF SessionInv, LoginOnce, DownIsReset, ReadyIsDone, PassedIsAcked
<1> QED
  BY <1>1, <1>2, <1>3, <1>4, <1>5, <1>6, <1>7, <1>8 DEF Next

\* The session's invariant is an invariant.
LEMMA SessionHolds == Spec => []SessionInv
<1>1. Init => SessionInv
  BY DEF Init, SessionInv, LoginOnce, DownIsReset, ReadyIsDone, PassedIsAcked
<1>2. TypeOK /\ SessionInv /\ [Next]_vars => SessionInv'
  BY SessionStep
<1> QED
  BY <1>1, <1>2, TypeCorrect, PTL DEF Spec

\* READY means an accepted login and three subscriptions replied to in the same
\* session, although the download survives a lost websocket and may advance
\* before the next login is answered.
THEOREM ReadySubscribed == Spec => []ReadyIsSubscribed
<1>1. TypeOK /\ SessionInv => ReadyIsSubscribed
  <2> SUFFICES ASSUME TypeOK, SessionInv, dc_status = "READY" PROVE accepted /\ acked = Channels
    BY DEF ReadyIsSubscribed
  <2>1. accepted /\ download = "DONE"
    BY DEF SessionInv, ReadyIsDone
  <2>2. Channels \subseteq acked
    BY <2>1, StatesAre DEF SessionInv, PassedIsAcked, Channels
  <2> QED
    BY <2>1, <2>2 DEF TypeOK
<1> QED
  BY <1>1, TypeCorrect, SessionHolds, PTL

\* If has_response speaks of the newest request, neither log::fatal of the stale
\* orders can end the process: only a refused login does, with retry_logon off.
THEOREM OnlyLogonIsFatal ==
  ASSUME NewestOnly
  PROVE  Spec => []OnlyRefusedLogonIsFatal
<1> DEFINE Inv == TypeOK /\ CounterMatchesInflight /\ StaleOrdersAreAskedFor /\ SessionInv
<1>1. Init => OnlyRefusedLogonIsFatal
  BY DEF Init, OnlyRefusedLogonIsFatal
<1>2. Inv /\ OnlyRefusedLogonIsFatal /\ [Next]_vars => OnlyRefusedLogonIsFatal'
  <2> SUFFICES ASSUME Inv, OnlyRefusedLogonIsFatal, [Next]_vars
               PROVE  OnlyRefusedLogonIsFatal'
    OBVIOUS
  <2>1. CASE UNCHANGED vars
    BY <2>1 DEF vars, history, OnlyRefusedLogonIsFatal
  <2>2. CASE running' = running /\ running
    BY <2>2 DEF OnlyRefusedLogonIsFatal
  <2>3. CASE AuthRejected
    <3>1. /\ running /\ link = "open" /\ Head(replies) = "auth" /\ replies # <<>>
          /\ replies \in Seq(Channels \cup {"auth"})
          /\ accepted' = accepted /\ (RetryLogon => running' = running)
      BY <2>3 DEF AuthRejected, Awaiting, history, TypeOK
    <3>2. ~accepted
      BY <3>1, ReplyTail DEF SessionInv, LoginOnce
    <3> QED
      BY <3>1, <3>2, FlagsAssumption DEF OnlyRefusedLogonIsFatal
  <2>4. ASSUME running, NEW p, NEW b, NEW d, d # {} <=> "stale_orders" \in p, DropCopyTimer(p, b, d)
        PROVE  OnlyRefusedLogonIsFatal'
    <3>1. CASE AdvanceDownload(p, b, d)
      <4>1. ~(d # {} /\ HasResponse("stale_orders", p, b))
        BY <2>4 DEF HasResponse
      <4>2. running' = running
        BY <3>1, <4>1, Advances
      <4> QED
        BY <2>2, <2>4, <4>2
    <3>2. CASE CheckStaleOrders(p, d) \/ IdleDropCopy(p, b, d)
      BY <2>2, <2>4, <3>2 DEF CheckStaleOrders, IdleDropCopy
    <3> QED
      BY <2>4, <3>1, <3>2 DEF DropCopyTimer
  <2>5. CASE TimerSends
    <3>1. PICK kind \in Sendable :
             DropCopyTimer(pending \ {kind}, in_progress \cup {kind},
                           IF kind = "stale_orders" THEN {} ELSE details)
      BY <2>5 DEF TimerSends
    <3>2. (IF kind = "stale_orders" THEN {} ELSE details) # {} <=> "stale_orders" \in pending \ {kind}
      BY DEF StaleOrdersAreAskedFor
    <3>3. running
      BY <2>5 DEF TimerSends
    <3> QED
      BY <2>4, <3>1, <3>2, <3>3
  <2>6. CASE TimerHolds
    <3>1. running /\ DropCopyTimer(pending, in_progress, details)
      BY <2>6 DEF TimerHolds
    <3> QED
      BY <2>4, <3>1 DEF StaleOrdersAreAskedFor
  <2>7. CASE GetOrderAck \/ \E outcome \in Outcomes : PrivateAck(outcome)
    <3>1. running
      BY <2>7 DEF GetOrderAck, PrivateAck
    <3> QED
      BY <2>2, <2>7, <3>1, AnswerCounts
  <2>8. CASE \/ RestConnected \/ RestDisconnected \/ WsReady \/ WsDisconnected \/ AuthAccepted
             \/ \E channel \in Channels : SubReply(channel)
    BY <2>2, <2>8 DEF RestConnected, RestDisconnected, WsReady, WsDisconnected, AuthAccepted, Awaiting,
                      SubReply
  <2> QED
    BY <2>1, <2>3, <2>5, <2>6, <2>7, <2>8 DEF Next
<1> QED
  BY <1>1, <1>2, TypeCorrect, CounterIsExact, StaleOrdersAsked, SessionHolds, PTL DEF Spec

-------------------------------------------------------------------------------
(***************************************************************************)
(* The session that the streams promise.  What it rests on is the one      *)
(* private query that can be on its way: how it was asked for, when it was *)
(* sent, and what its answer says.                                         *)
(***************************************************************************)
\* The queries that complement a channel.
Snapshots == {"balances", "open_orders"}

\* The state of the download that asks for a query, and those that come after it.
Getting(kind) == CASE kind = "account" -> "GET_ACCOUNT"
                   [] kind = "balances" -> "GET_BALANCES"
                   [] OTHER -> "GET_OPEN_ORDERS"
AfterOpenOrders == {"GET_STALE_ORDERS", "SUBSCRIBE_TRADES", "DONE"}
AfterBalances == {"SUBSCRIBE_ORDERS", "GET_OPEN_ORDERS"} \cup AfterOpenOrders
Past(kind) == CASE kind = "account" -> {"SUBSCRIBE_BALANCES", "GET_BALANCES"} \cup AfterBalances
                [] kind = "balances" -> AfterBalances
                [] OTHER -> AfterOpenOrders
Since(kind) == {Getting(kind)} \cup Past(kind)

-------------------------------------------------------------------------------
(* The private query on its way.                                            *)

\* The private queries on the REST connection.
Flying == {r \in RequestType : r.kind \in Private /\ \E i \in DOMAIN inflight : inflight[i] = r}

\* There is one at most, and it is in progress.
OneFlies ==
  /\ \A i, j \in DOMAIN inflight :
        inflight[i].kind \in Private /\ inflight[j].kind \in Private => i = j
  /\ \A r \in Flying : r.kind \in in_progress

\* Sending a query that has been let through.
LEMMA SendFlies ==
  ASSUME TypeOK, OneFlies, RequestsReady, NEW kind \in Kinds, NEW found \in SUBSET Orders,
         CheckRequestQueue(kind, found)
  PROVE  /\ Flying = {}
         /\ kind = "stale_orders" => Flying' = {}
         /\ kind # "stale_orders" =>
               Flying' = {[kind |-> kind, in_time |-> SentInTime(kind), with_id |-> account_id]}
         /\ OneFlies'
<1>1. /\ inflight \in Seq(RequestType)
      /\ RequestsFor(kind, found) \in Seq(RequestType)
      /\ inflight' = inflight \o RequestsFor(kind, found)
      /\ in_progress' = in_progress \cup {kind}
  BY RequestsType DEF TypeOK, CheckRequestQueue
<1>2. Flying = {}
  BY DEF OneFlies, RequestsReady, Kinds, Flying
<1>3. \A i \in DOMAIN inflight : inflight[i].kind \notin Private
  BY <1>1, <1>2 DEF Flying
<1> DEFINE new == RequestsFor(kind, found)
<1>4. /\ inflight' \in Seq(RequestType)
      /\ DOMAIN inflight' = 1..(Len(inflight) + Len(new))
      /\ \A i \in 1..Len(inflight) + Len(new) :
            inflight'[i] = IF i <= Len(inflight) THEN inflight[i] ELSE new[i - Len(inflight)]
      /\ Len(inflight) \in Nat /\ DOMAIN inflight = 1..Len(inflight)
  BY <1>1, ConcatProperties
<1>5. CASE kind = "stale_orders"
  <2>1. \A i \in 1..Len(new) : new[i].kind = "order"
    BY <1>5, RequestsType
  <2>2. \A i \in DOMAIN inflight' : inflight'[i].kind \notin Private
    <3>1. Len(new) \in Nat
      BY <1>1
    <3> HIDE DEF new
    <3> SUFFICES ASSUME NEW i \in DOMAIN inflight' PROVE inflight'[i].kind \notin Private
      OBVIOUS
    <3>2. CASE i <= Len(inflight)
      BY <1>3, <1>4, <3>2
    <3>3. CASE ~(i <= Len(inflight))
      <4>1. i - Len(inflight) \in 1..Len(new) /\ inflight'[i] = new[i - Len(inflight)]
        BY <1>4, <3>1, <3>3
      <4> QED
        BY <2>1, <4>1 DEF Private
    <3> QED
      BY <3>2, <3>3
  <2>3. Flying' = {}
    BY <2>2 DEF Flying
  <2> QED
    BY <1>2, <1>5, <2>2, <2>3 DEF OneFlies
<1>6. CASE kind # "stale_orders"
  <2> DEFINE r == [kind |-> kind, in_time |-> SentInTime(kind), with_id |-> account_id]
             n == Len(inflight) + 1
  <2>1. new = <<r>> /\ kind \in Private
    BY <1>6 DEF RequestsFor, Kinds
  <2>2. r \in RequestType
    BY <2>1 DEF RequestType, Answerable, SentInTime, TypeOK
  <2>3. r.kind \in Private /\ r.kind = kind
    BY <2>1
  <2>4. DOMAIN inflight' = 1..n /\ inflight'[n] = r
        /\ \A i \in DOMAIN inflight' : i # n => inflight'[i].kind \notin Private
    <3> HIDE DEF r
    <3>1. Len(new) = 1 /\ new[1] = r
      BY <2>1
    <3> HIDE DEF new
    <3> QED
      BY <1>3, <1>4, <3>1
  <2> HIDE DEF r, n
  <2>5. Flying' = {r}
    <3>1. n \in DOMAIN inflight'
      BY <1>4, <2>4 DEF n
    <3> QED
      BY <2>2, <2>3, <2>4, <3>1 DEF Flying
  <2>6. \A i, j \in DOMAIN inflight' :
           inflight'[i].kind \in Private /\ inflight'[j].kind \in Private => i = j
    BY <2>4
  <2>7. \A s \in Flying' : s.kind \in in_progress'
    BY <1>1, <2>3, <2>5
  <2> QED
    BY <1>2, <1>6, <2>5, <2>6, <2>7 DEF OneFlies, r
<1> QED
  BY <1>5, <1>6

\* The answer to the one on its way.
LEMMA AnswerLands ==
  ASSUME TypeOK, OneFlies, NEW outcome \in Outcomes, PrivateAck(outcome)
  PROVE  /\ Flying = {Head(inflight)} /\ Flying' = {}
         /\ Head(inflight) \in RequestType /\ Head(inflight).kind \in Private
         /\ OneFlies'
<1>1. /\ inflight \in Seq(RequestType) /\ inflight # <<>> /\ inflight' = Tail(inflight)
      /\ Head(inflight).kind \in Private
  BY DEF TypeOK, PrivateAck
<1>2. /\ Head(inflight) = inflight[1] /\ Len(inflight) \in Nat \ {0}
      /\ DOMAIN inflight = 1..Len(inflight)
      /\ DOMAIN inflight' = 1..(Len(inflight) - 1)
      /\ \A i \in DOMAIN inflight' : inflight'[i] = inflight[i + 1]
  BY <1>1, HeadTailProperties
<1>3. 1 \in DOMAIN inflight /\ inflight[1].kind \in Private
  BY <1>1, <1>2
<1>4. Flying = {Head(inflight)}
  BY <1>1, <1>2, <1>3 DEF Flying, OneFlies
<1>5. \A i \in DOMAIN inflight' : inflight'[i].kind \notin Private
  <2> SUFFICES ASSUME NEW i \in DOMAIN inflight', inflight'[i].kind \in Private PROVE FALSE
    OBVIOUS
  <2>1. i + 1 \in DOMAIN inflight /\ inflight[i + 1].kind \in Private /\ i + 1 # 1
    BY <1>2
  <2> QED
    BY <1>3, <2>1 DEF OneFlies
<1>6. Flying' = {}
  BY <1>5 DEF Flying
<1>7. OneFlies'
  BY <1>5, <1>6 DEF OneFlies
<1> QED
  BY <1>1, <1>4, <1>6, <1>7

\* An answer about an order takes no private query off its way.
LEMMA OrderLands ==
  ASSUME TypeOK, OneFlies, GetOrderAck
  PROVE  Flying' = Flying /\ OneFlies'
<1>1. /\ inflight \in Seq(RequestType) /\ inflight # <<>> /\ inflight' = Tail(inflight)
      /\ Head(inflight).kind \notin Private
  BY DEF TypeOK, GetOrderAck, Private
<1>2. /\ Head(inflight) = inflight[1] /\ Len(inflight) \in Nat \ {0}
      /\ DOMAIN inflight = 1..Len(inflight)
      /\ DOMAIN inflight' = 1..(Len(inflight) - 1)
      /\ \A i \in DOMAIN inflight' : inflight'[i] = inflight[i + 1]
  BY <1>1, HeadTailProperties
<1>3. Flying' = Flying
  <2>1. ASSUME NEW r \in Flying PROVE r \in Flying'
    <3>1. PICK i \in DOMAIN inflight : inflight[i] = r
      BY DEF Flying
    <3>2. r \in RequestType /\ r.kind \in Private
      BY DEF Flying
    <3>3. i - 1 \in DOMAIN inflight' /\ inflight'[i - 1] = r
      BY <1>1, <1>2, <3>1, <3>2
    <3> QED
      BY <3>2, <3>3 DEF Flying
  <2>2. ASSUME NEW r \in Flying' PROVE r \in Flying
    BY <1>2 DEF Flying
  <2> QED
    BY <2>1, <2>2
<1>4. \A k \in Private : k \in in_progress => k \in in_progress'
  BY DEF GetOrderAck, Private
<1>5. \A r \in Flying' : r.kind \in in_progress'
  BY <1>3, <1>4 DEF Flying, OneFlies
<1>6. \A i, j \in DOMAIN inflight' :
         inflight'[i].kind \in Private /\ inflight'[j].kind \in Private => i = j
  <2> SUFFICES ASSUME NEW i \in DOMAIN inflight', NEW j \in DOMAIN inflight',
                      inflight'[i].kind \in Private, inflight'[j].kind \in Private
               PROVE  i = j
    OBVIOUS
  <2>1. i + 1 \in DOMAIN inflight /\ j + 1 \in DOMAIN inflight
    BY <1>2
  <2>2. i + 1 = j + 1
    BY <1>2, <2>1 DEF OneFlies
  <2> QED
    BY <1>2, <2>2
<1> QED
  BY <1>3, <1>5, <1>6 DEF OneFlies

\* A lost websocket leaves the query on its way, and makes it out of date.
LEMMA LossKeepsFlying ==
  ASSUME TypeOK, OneFlies, WsDisconnected
  PROVE  OneFlies' /\ \A r \in Flying' : ~r.in_time
<1>1. inflight \in Seq(RequestType) /\ DOMAIN inflight = 1..Len(inflight)
  BY DEF TypeOK
<1>2. inflight' = [i \in 1..Len(inflight) |-> [inflight[i] EXCEPT !.in_time = FALSE]]
      /\ in_progress' = in_progress
  BY <1>1, Zenon DEF WsDisconnected, request_vars
<1>3. \A r \in RequestType : /\ [r EXCEPT !.in_time = FALSE].kind = r.kind
                             /\ [r EXCEPT !.in_time = FALSE].in_time = FALSE
  BY DEF RequestType
<1>4. \A i \in DOMAIN inflight : inflight[i] \in RequestType
  BY <1>1
<1>5. DOMAIN inflight' = DOMAIN inflight
  BY <1>1, <1>2
<1>6. \A i \in DOMAIN inflight' : inflight'[i].kind = inflight[i].kind /\ inflight'[i].in_time = FALSE
  <2> SUFFICES ASSUME NEW i \in DOMAIN inflight
               PROVE inflight'[i].kind = inflight[i].kind /\ inflight'[i].in_time = FALSE
    BY <1>5, Zenon
  <2>1. inflight'[i] = [inflight[i] EXCEPT !.in_time = FALSE]
    BY <1>1, <1>2, Zenon
  <2> QED
    BY <1>3, <1>4, <2>1, Zenon
<1>7. \A r \in Flying' : ~r.in_time /\ r.kind \in in_progress'
  <2> SUFFICES ASSUME NEW r \in Flying' PROVE ~r.in_time /\ r.kind \in in_progress'
    OBVIOUS
  <2>1. PICK i \in DOMAIN inflight' : inflight'[i] = r /\ r.kind \in Private
    BY DEF Flying
  <2>2. inflight[i] \in Flying /\ inflight[i].kind = r.kind
    BY <1>4, <1>5, <1>6, <2>1 DEF Flying
  <2>3. r.kind \in in_progress'
    BY <1>2, <2>2 DEF OneFlies
  <2> QED
    BY <1>6, <2>1, <2>3
<1> QED
  BY <1>5, <1>6, <1>7 DEF OneFlies

-------------------------------------------------------------------------------
(* How the download moves, seen from a private query.                       *)

\* Steps that touch neither the download nor the queries.
Elsewhere == RestConnected \/ RestDisconnected \/ WsReady \/ AuthRejected \/ UNCHANGED vars

\* Such steps leave everything that the invariants below speak of.
LEMMA ElsewhereMoves ==
  ASSUME Elsewhere
  PROVE  UNCHANGED <<inflight, pending, in_progress, download, accepted, acked, settled, failed>>
BY DEF Elsewhere, RestConnected, RestDisconnected, WsReady, AuthRejected, vars, oe_vars,
       request_vars, dc_vars, history

\* The states of the download for each private query, written out.
LEMMA Stages ==
  /\ Getting("account") = "GET_ACCOUNT" /\ Past("account") = {"SUBSCRIBE_BALANCES", "GET_BALANCES"} \cup AfterBalances
  /\ Getting("balances") = "GET_BALANCES" /\ Past("balances") = AfterBalances
  /\ Getting("open_orders") = "GET_OPEN_ORDERS" /\ Past("open_orders") = AfterOpenOrders
BY Zenon DEF Getting, Past

\* Entering a state of the download asks for its query.
LEMMA EnterMoves ==
  ASSUME NEW state, NEW p, NEW q, Enter(state, p, q), NEW kind \in Private
  PROVE  /\ download' = state
         /\ kind \in pending' <=> kind \in p \/ state = Getting(kind)
<1>1. download' = state
  BY DEF Enter
<1>2. \A s \in DOMAIN RequestOf : RequestOf[s] = kind <=> s = Getting(kind)
  BY Stages DEF RequestOf, Private
<1>3. Getting(kind) \in DOMAIN RequestOf
  BY Stages DEF RequestOf, Private
<1> HIDE DEF RequestOf
<1>4. CASE state \in DOMAIN RequestOf
  BY <1>2, <1>4 DEF Enter
<1>5. CASE state \notin DOMAIN RequestOf
  BY <1>3, <1>5 DEF Enter
<1> QED
  BY <1>1, <1>4, <1>5

\* The timer asks for no private query, and passes one only with its answer.
LEMMA TimerMoves ==
  ASSUME NEW p, NEW b, NEW d, DropCopyTimer(p, b, d), NEW kind \in Private
  PROVE  /\ kind \in pending' <=> kind \in p
         /\ download' \in Since(kind) => download \in Since(kind)
         /\ download' \in Past(kind) =>
               download \in Past(kind) \/ (NewestOnly => kind \notin p \cup b)
<1>1. CASE AdvanceDownload(p, b, d)
  <2>1. CASE pending' = p /\ download' = download
    BY <2>1
  <2>2. ASSUME NEW next \in States, Enter(next, p, replies),
               \/ download = "GET_ACCOUNT" /\ next = "SUBSCRIBE_BALANCES"
               \/ download = "GET_BALANCES" /\ next = "SUBSCRIBE_ORDERS"
               \/ download = "GET_OPEN_ORDERS" /\ next \in {"SUBSCRIBE_TRADES", "GET_STALE_ORDERS"}
               \/ download = "GET_STALE_ORDERS" /\ next = "SUBSCRIBE_TRADES"
        PROVE  /\ kind \in pending' <=> kind \in p
               /\ download' \in Since(kind) => download \in Since(kind)
               /\ download' \in Past(kind) =>
                     download \in Past(kind) \/ (NewestOnly => kind \notin p \cup b)
    <3>1. download' = next /\ (kind \in pending' <=> kind \in p \/ next = Getting(kind))
      BY <2>2, EnterMoves, Zenon
    <3>2. next # Getting(kind)
      BY <2>2, Stages DEF Private
    <3>3. download' \in Since(kind) => download \in Since(kind)
      BY <2>2, <3>1, Stages DEF Private, Since, AfterBalances, AfterOpenOrders
    <3>4. download' \in Past(kind) => download \in Past(kind) \/ download = Getting(kind)
      BY <2>2, <3>1, Stages DEF Private, AfterBalances, AfterOpenOrders
    <3>5. download = Getting(kind) => (NewestOnly => kind \notin p \cup b)
      BY <1>1, Stages DEF Private, AdvanceDownload, Answered, HasResponse, RequestOf
    <3> QED
      BY <3>1, <3>2, <3>3, <3>4, <3>5, Zenon
  <2> QED
    BY <1>1, <2>1, <2>2, Advances
<1>2. CASE CheckStaleOrders(p, d)
  BY <1>2 DEF CheckStaleOrders, Private
<1>3. CASE IdleDropCopy(p, b, d)
  BY <1>3 DEF IdleDropCopy
<1> QED
  BY <1>1, <1>2, <1>3 DEF DropCopyTimer

\* A reply to a subscription passes no query, and reaches one only by asking for it.
LEMMA ReplyMoves ==
  ASSUME NEW channel \in Channels, SubReply(channel), NEW kind \in Private
  PROVE  /\ kind \in pending => kind \in pending'
         /\ kind \in pending' => kind \in pending \/ download' = Getting(kind)
         /\ download' \in Since(kind) => download \in Since(kind) \/ kind \in pending'
         /\ download' \in Past(kind) => download \in Past(kind)
<1>1. CASE download \in DOMAIN ChannelOf /\ ChannelOf[download] = channel
  <2>1. Enter(Successor(download, details), pending, Tail(replies))
    BY <1>1 DEF SubReply
  <2>2. PICK next :
           /\ Enter(next, pending, Tail(replies))
           /\ \/ download = "SUBSCRIBE_BALANCES" /\ next = "GET_BALANCES"
              \/ download = "SUBSCRIBE_ORDERS" /\ next = "GET_OPEN_ORDERS"
              \/ download = "SUBSCRIBE_TRADES" /\ next = "DONE"
    BY <1>1, <2>1, Successors DEF ChannelOf
  <2>3. download' = next /\ (kind \in pending' <=> kind \in pending \/ next = Getting(kind))
    BY <2>2, EnterMoves, Zenon
  <2>4. download' \in Past(kind) => download \in Past(kind)
    BY <2>2, <2>3, Stages DEF Private, AfterBalances, AfterOpenOrders
  <2> QED
    BY <2>3, <2>4, Zenon DEF Since
<1>2. CASE ~(download \in DOMAIN ChannelOf /\ ChannelOf[download] = channel)
  BY <1>2 DEF SubReply
<1> QED
  BY <1>1, <1>2

\* What a login leaves to be passed.
LEMMA LoginMoves ==
  ASSUME AuthAccepted, NEW kind \in Private
  PROVE  /\ download' = "GET_ACCOUNT" /\ download' \notin Past(kind)
         /\ kind \in Snapshots => download' \notin Since(kind)
         /\ "account" \in pending'
<1>1. Enter("GET_ACCOUNT", pending, Tail(replies))
  BY DEF AuthAccepted
<1>2. download' = "GET_ACCOUNT" /\ "account" \in pending'
  BY <1>1, EnterMoves, Stages, Zenon DEF Private
<1> QED
  BY <1>2, Stages DEF Private, Snapshots, Since, AfterBalances, AfterOpenOrders

\* What OrderEntry and DropCopy do in one timer.
LEMMA TimerParts ==
  ASSUME TypeOK, TimerSends
  PROVE  \E kind \in Kinds, found \in SUBSET Orders, d \in SUBSET Orders :
            /\ kind \in pending /\ RequestsReady
            /\ CheckRequestQueue(kind, found)
            /\ DropCopyTimer(pending \ {kind}, in_progress \cup {kind}, d)
            /\ UNCHANGED <<account_id, accepted, acked, settled, failed, disturbed>>
<1>1. PICK kind \in Sendable, found \in Findable :
         /\ CheckRequestQueue(kind, IF kind = "stale_orders" THEN found ELSE {})
         /\ DropCopyTimer(pending \ {kind}, in_progress \cup {kind},
                          IF kind = "stale_orders" THEN {} ELSE details)
  BY DEF TimerSends
<1>2. kind \in Kinds /\ kind \in pending /\ RequestsReady /\ found \in SUBSET Orders
  BY <1>1 DEF Sendable, Findable, TypeOK
<1>3. UNCHANGED <<account_id, accepted, acked, settled, failed, disturbed>>
  BY Zenon DEF TimerSends, history
<1>4. /\ (IF kind = "stale_orders" THEN found ELSE {}) \in SUBSET Orders
      /\ (IF kind = "stale_orders" THEN {} ELSE details) \in SUBSET Orders
  BY <1>2 DEF TypeOK
<1> QED
  BY <1>1, <1>2, <1>3, <1>4, Zenon

-------------------------------------------------------------------------------
(* The invariant.                                                           *)

Asks(kind) == \E r \in Flying : r.kind = kind

\* With has_response of the newest request, the download passes a query only when it is done.
Finished == NewestOnly =>
  \A kind \in Private : accepted /\ download \in Past(kind) => kind \notin pending \cup in_progress

\* Once the download has reached it, a snapshot waits to be asked for, or what is asked for
\* or known of it is of this session.
Covered == \A kind \in Snapshots :
  accepted /\ download \in Since(kind) =>
    kind \in pending \/ /\ \A r \in Flying : r.kind = kind => r.in_time
                        /\ kind \in settled \/ Asks(kind)

\* What is called settled was asked for in this session after its channel was acknowledged,
\* and no older query that could replace it is on its way.
Truthful == \A kind \in Snapshots :
  /\ kind \in settled \/ (\E r \in Flying : r.kind = kind /\ r.in_time)
        => accepted /\ Complements[kind] \in acked
  /\ kind \in settled => \A r \in Flying : r.kind = kind => r.in_time

\* The status follows the websocket and the login.
StatusFollows ==
  /\ link # "down" => dc_status # "DISCONNECTED"
  /\ accepted => dc_status \in {"DOWNLOADING", "READY"}

Base == TypeOK /\ SessionInv /\ OneFlies

\* The subscription that a snapshot complements has been replied to once it is reached.
LEMMA SinceIsAcked ==
  ASSUME SessionInv, NEW kind \in Snapshots, accepted, download \in Since(kind)
  PROVE  Complements[kind] \in acked /\ SentInTime(kind)
<1>1. Complements[kind] \in acked
  BY Stages, StatesAre DEF SessionInv, PassedIsAcked, Snapshots, Complements, Since, AfterBalances,
                AfterOpenOrders
<1> QED
  BY <1>1 DEF SentInTime

\* One private query at most is on its way, and it is in progress, through every step.
LEMMA OneFliesStep ==
  ASSUME TypeOK, OneFlies, [Next]_vars
  PROVE  OneFlies'
<1>1. CASE UNCHANGED <<inflight, in_progress>>
  BY <1>1 DEF OneFlies, Flying
<1>2. CASE \/ Elsewhere \/ AuthAccepted \/ TimerHolds \/ \E channel \in Channels : SubReply(channel)
  <2>1. UNCHANGED <<inflight, in_progress>>
    BY <1>2, ElsewhereMoves DEF AuthAccepted, TimerHolds, SubReply, oe_vars
  <2> QED
    BY <1>1, <2>1
<1>3. CASE GetOrderAck \/ WsDisconnected \/ \E outcome \in Outcomes : PrivateAck(outcome)
  BY <1>3, OrderLands, LossKeepsFlying, AnswerLands
<1>4. CASE TimerSends
  BY <1>4, TimerParts, SendFlies
<1> QED
  BY <1>2, <1>3, <1>4 DEF Next, Elsewhere

\* The download passes a query only when it is done, through every step.
LEMMA FinishedStep ==
  ASSUME Base, Finished, [Next]_vars
  PROVE  Finished'
<1> SUFFICES ASSUME NewestOnly, NEW kind \in Private, accepted', download' \in Past(kind)
             PROVE  kind \notin pending' \cup in_progress'
  BY DEF Finished
<1>1. CASE accepted /\ download \in Past(kind) /\ pending' = pending /\ in_progress' \subseteq in_progress
  BY <1>1 DEF Finished
<1>2. CASE Elsewhere
  BY <1>1, <1>2, ElsewhereMoves
<1>3. CASE GetOrderAck
  BY <1>1, <1>3 DEF GetOrderAck, dc_vars, history
<1>4. ASSUME NEW outcome \in Outcomes, PrivateAck(outcome) PROVE kind \notin pending' \cup in_progress'
  <2>1. UNCHANGED <<accepted, download, pending>> /\ in_progress' \subseteq in_progress
    BY <1>4 DEF PrivateAck, dc_vars
  <2> QED
    BY <1>1, <2>1
<1>5. CASE WsDisconnected
  BY <1>5 DEF WsDisconnected
<1>6. CASE AuthAccepted
  BY <1>6, LoginMoves
<1>7. ASSUME NEW channel \in Channels, SubReply(channel) PROVE kind \notin pending' \cup in_progress'
  <2>1. download \in Past(kind) /\ accepted /\ in_progress' = in_progress
    BY <1>7, ReplyMoves DEF SubReply
  <2>2. kind \notin pending \cup in_progress
    BY <2>1 DEF Finished
  <2>3. download' # Getting(kind)
    BY Stages DEF Private, AfterBalances, AfterOpenOrders
  <2> QED
    BY <1>7, <2>1, <2>2, <2>3, ReplyMoves
<1>8. CASE TimerSends
  <2>1. PICK k \in Kinds, found \in SUBSET Orders, d \in SUBSET Orders :
           /\ k \in pending
           /\ CheckRequestQueue(k, found)
           /\ DropCopyTimer(pending \ {k}, in_progress \cup {k}, d)
           /\ accepted' = accepted
    BY <1>8, TimerParts DEF Base
  <2>2. in_progress' = in_progress \cup {k}
    BY <2>1 DEF CheckRequestQueue
  <2>3. /\ kind \in pending' <=> kind \in pending \ {k}
        /\ \/ download \in Past(kind)
           \/ kind \notin (pending \ {k}) \cup (in_progress \cup {k})
    BY <2>1, TimerMoves
  <2>4. CASE download \in Past(kind)
    BY <2>1, <2>2, <2>3, <2>4 DEF Finished
  <2> QED
    BY <2>2, <2>3, <2>4
<1>9. CASE TimerHolds
  <2>1. UNCHANGED <<accepted, in_progress>> /\ DropCopyTimer(pending, in_progress, details)
    BY <1>9 DEF TimerHolds, history
  <2>2. /\ kind \in pending' <=> kind \in pending
        /\ download \in Past(kind) \/ kind \notin pending \cup in_progress
    BY <2>1, TimerMoves
  <2> QED
    BY <2>1, <2>2 DEF Finished
<1> QED
  BY <1>2, <1>3, <1>4, <1>5, <1>6, <1>7, <1>8, <1>9 DEF Next, Elsewhere

\* A snapshot stays covered through every step.
LEMMA CoveredStep ==
  ASSUME Base, Covered, [Next]_vars
  PROVE  Covered'
<1> SUFFICES ASSUME NEW kind \in Snapshots, accepted', download' \in Since(kind), kind \notin pending'
             PROVE  /\ \A r \in Flying' : r.kind = kind => r.in_time
                    /\ kind \in settled' \/ Asks(kind)'
  BY DEF Covered
<1>0. kind \in Private
  BY DEF Snapshots, Private
<1> DEFINE Goal == /\ \A r \in Flying' : r.kind = kind => r.in_time
                   /\ kind \in settled' \/ Asks(kind)'
<1>1. CASE /\ accepted /\ download \in Since(kind) /\ kind \notin pending
           /\ Flying' = Flying /\ settled' = settled
  BY <1>1 DEF Covered, Asks
<1>2. CASE Elsewhere
  BY <1>1, <1>2, ElsewhereMoves DEF Flying
<1>3. CASE GetOrderAck
  <2>1. Flying' = Flying
    BY <1>3, OrderLands DEF Base
  <2>2. UNCHANGED <<accepted, download, pending, settled>>
    BY <1>3, Zenon DEF GetOrderAck, dc_vars, history
  <2> QED
    BY <1>1, <2>1, <2>2
<1>4. ASSUME NEW outcome \in Outcomes, PrivateAck(outcome) PROVE Goal
  <2>1. UNCHANGED <<accepted, download, pending>>
    BY <1>4 DEF PrivateAck, dc_vars
  <2>2. Flying = {Head(inflight)} /\ Flying' = {}
    BY <1>4, AnswerLands DEF Base
  <2>3. /\ \A r \in Flying : r.kind = kind => r.in_time
        /\ kind \in settled \/ Asks(kind)
    BY <2>1 DEF Covered
  <2>4. settled' = IF Head(inflight).in_time THEN settled \cup {Head(inflight).kind}
                   ELSE settled \ {Head(inflight).kind}
    BY <1>4 DEF PrivateAck
  <2>5. kind \in settled'
    BY <2>2, <2>3, <2>4 DEF Asks
  <2> QED
    BY <2>2, <2>5
<1>5. CASE WsDisconnected
  BY <1>5 DEF WsDisconnected
<1>6. CASE AuthAccepted
  BY <1>0, <1>6, LoginMoves
<1>7. ASSUME NEW channel \in Channels, SubReply(channel) PROVE Goal
  <2>1. UNCHANGED <<accepted, inflight, settled>>
    BY <1>7 DEF SubReply, oe_vars
  <2> QED
    BY <1>0, <1>1, <1>7, <2>1, ReplyMoves DEF Flying
<1>8. CASE TimerSends
  <2>1. PICK k \in Kinds, found \in SUBSET Orders, d \in SUBSET Orders :
           /\ k \in pending /\ RequestsReady
           /\ CheckRequestQueue(k, found)
           /\ DropCopyTimer(pending \ {k}, in_progress \cup {k}, d)
           /\ UNCHANGED <<accepted, settled>>
    BY <1>8, TimerParts DEF Base
  <2>2. download \in Since(kind) /\ kind \notin pending \ {k}
    BY <1>0, <2>1, TimerMoves
  <2>3. /\ Flying = {}
        /\ k = "stale_orders" => Flying' = {}
        /\ k # "stale_orders" =>
              Flying' = {[kind |-> k, in_time |-> SentInTime(k), with_id |-> account_id]}
    BY <2>1, SendFlies DEF Base
  <2>4. CASE k = kind
    <3>1. SentInTime(kind)
      BY <2>1, <2>2, SinceIsAcked DEF Base
    <3>2. kind # "stale_orders"
      BY DEF Snapshots
    <3> DEFINE r == [kind |-> k, in_time |-> SentInTime(k), with_id |-> account_id]
    <3>3. Flying' = {r} /\ r.kind = kind /\ r.in_time
      BY <2>3, <2>4, <3>1, <3>2, Zenon
    <3> HIDE DEF r
    <3> QED
      BY <3>3, Zenon DEF Asks
  <2>5. CASE k # kind
    <3>1. kind \in settled
      BY <2>1, <2>2, <2>3, <2>5 DEF Covered, Asks
    <3>2. \A r \in Flying' : r.kind # kind
      BY <2>3, <2>5
    <3> QED
      BY <2>1, <3>1, <3>2
  <2> QED
    BY <2>4, <2>5
<1>9. CASE TimerHolds
  <2>1. UNCHANGED <<accepted, inflight, settled>> /\ DropCopyTimer(pending, in_progress, details)
    BY <1>9 DEF TimerHolds, history
  <2> QED
    BY <1>0, <1>1, <2>1, TimerMoves DEF Flying
<1> QED
  BY <1>2, <1>3, <1>4, <1>5, <1>6, <1>7, <1>8, <1>9 DEF Next, Elsewhere

\* What is called settled stays true to its word through every step.
LEMMA TruthfulStep ==
  ASSUME Base, Truthful, [Next]_vars
  PROVE  Truthful'
<1> SUFFICES ASSUME NEW kind \in Snapshots
             PROVE  /\ kind \in settled' \/ (\E r \in Flying' : r.kind = kind /\ r.in_time)
                         => accepted' /\ Complements[kind] \in acked'
                    /\ kind \in settled' => \A r \in Flying' : r.kind = kind => r.in_time
  BY DEF Truthful
<1> DEFINE Goal == /\ kind \in settled' \/ (\E r \in Flying' : r.kind = kind /\ r.in_time)
                         => accepted' /\ Complements[kind] \in acked'
                   /\ kind \in settled' => \A r \in Flying' : r.kind = kind => r.in_time
<1>1. CASE Flying' = Flying /\ settled' = settled /\ (accepted => accepted') /\ acked \subseteq acked'
  BY <1>1 DEF Truthful
<1>2. CASE Elsewhere
  BY <1>1, <1>2, ElsewhereMoves DEF Flying
<1>3. CASE GetOrderAck
  <2>1. Flying' = Flying
    BY <1>3, OrderLands DEF Base
  <2>2. UNCHANGED <<accepted, acked, settled>>
    BY <1>3, Zenon DEF GetOrderAck, history
  <2> QED
    BY <1>1, <2>1, <2>2
<1>4. ASSUME NEW outcome \in Outcomes, PrivateAck(outcome) PROVE Goal
  <2>1. UNCHANGED <<accepted, acked>>
    BY <1>4 DEF PrivateAck
  <2>2. Flying = {Head(inflight)} /\ Flying' = {}
    BY <1>4, AnswerLands DEF Base
  <2>3. settled' = IF Head(inflight).in_time THEN settled \cup {Head(inflight).kind}
                   ELSE settled \ {Head(inflight).kind}
    BY <1>4 DEF PrivateAck
  <2>4. kind \in settled' => kind \in settled \/ (\E r \in Flying : r.kind = kind /\ r.in_time)
    BY <2>2, <2>3
  <2> QED
    BY <2>1, <2>2, <2>4 DEF Truthful
<1>5. CASE WsDisconnected
  <2>1. settled' = {}
    BY <1>5 DEF WsDisconnected
  <2>2. \A r \in Flying' : ~r.in_time
    BY <1>5, LossKeepsFlying DEF Base
  <2> QED
    BY <2>1, <2>2
<1>6. CASE AuthAccepted \/ TimerHolds \/ \E channel \in Channels : SubReply(channel)
  <2>1. UNCHANGED <<inflight, settled>> /\ (accepted => accepted') /\ acked \subseteq acked'
    BY <1>6 DEF AuthAccepted, TimerHolds, SubReply, oe_vars, history
  <2> QED
    BY <1>1, <2>1 DEF Flying
<1>7. CASE TimerSends
  <2>1. PICK k \in Kinds, found \in SUBSET Orders :
           /\ RequestsReady
           /\ CheckRequestQueue(k, found)
           /\ UNCHANGED <<accepted, acked, settled>>
    BY <1>7, TimerParts DEF Base
  <2> DEFINE r == [kind |-> k, in_time |-> SentInTime(k), with_id |-> account_id]
  <2>2. Flying' = {} \/ Flying' = {r}
    BY <2>1, SendFlies, Zenon DEF Base
  <2>3. r.kind = k /\ r.in_time = SentInTime(k)
    OBVIOUS
  <2> HIDE DEF r
  <2>4. SentInTime(kind) <=> accepted /\ Complements[kind] \in acked
    BY DEF SentInTime, Complements, Snapshots
  <2> QED
    BY <2>1, <2>2, <2>3, <2>4 DEF Truthful
<1> QED
  BY <1>2, <1>3, <1>4, <1>5, <1>6, <1>7 DEF Next, Elsewhere

\* The timer brings a stream to DOWNLOADING or leaves its status.
LEMMA TimerStatus ==
  ASSUME NEW p, NEW b, NEW d, DropCopyTimer(p, b, d)
  PROVE  \/ UNCHANGED dc_status
         \/ dc_status' = "DOWNLOADING" /\ download # "DONE" /\ link = "open"
<1>1. CASE link = "open" /\ AdvanceDownload(p, b, d)
  <2>1. ASSUME NEW next \in {"SUBSCRIBE_BALANCES", "SUBSCRIBE_ORDERS", "GET_STALE_ORDERS",
                             "SUBSCRIBE_TRADES"}, Enter(next, p, replies)
        PROVE  dc_status' = "DOWNLOADING"
    BY <2>1 DEF Enter
  <2> QED
    BY <1>1, <2>1, Advances
<1>2. CASE CheckStaleOrders(p, d) \/ IdleDropCopy(p, b, d)
  BY <1>2 DEF CheckStaleOrders, IdleDropCopy
<1> QED
  BY <1>1, <1>2 DEF DropCopyTimer

\* A reply to a subscription brings a stream that is not ready to DOWNLOADING or READY.
LEMMA ReplyStatus ==
  ASSUME NEW channel \in Channels, SubReply(channel)
  PROVE  \/ UNCHANGED dc_status
         \/ dc_status' \in {"DOWNLOADING", "READY"} /\ download # "DONE"
<1>1. CASE download \in DOMAIN ChannelOf /\ ChannelOf[download] = channel
  <2>1. Enter(Successor(download, details), pending, Tail(replies))
    BY <1>1 DEF SubReply
  <2>2. dc_status' \in {"DOWNLOADING", "READY"}
    BY <2>1 DEF Enter
  <2>3. download # "DONE"
    BY <1>1 DEF ChannelOf
  <2> QED
    BY <2>2, <2>3
<1>2. CASE ~(download \in DOMAIN ChannelOf /\ ChannelOf[download] = channel)
  BY <1>2 DEF SubReply
<1> QED
  BY <1>1, <1>2

\* A reply to a subscription comes to an accepted login, that to a login before it.
LEMMA ReplyAccepted ==
  ASSUME Base
  PROVE  /\ AuthAccepted => ~accepted
         /\ \A channel \in Channels : SubReply(channel) => accepted
<1>1. replies \in Seq(Channels \cup {"auth"})
  BY DEF Base, TypeOK
<1>2. AuthAccepted => ~accepted
  BY <1>1, ReplyTail DEF Base, SessionInv, LoginOnce, AuthAccepted, Awaiting
<1>3. ASSUME NEW channel \in Channels, SubReply(channel) PROVE accepted
  BY <1>1, <1>3, ReplyTail DEF Base, SessionInv, LoginOnce, AwaitsLogin, SubReply, Awaiting, Channels
<1> QED
  BY <1>2, <1>3

\* The status follows the websocket and the login through every step.
LEMMA StatusFollowsStep ==
  ASSUME Base, StatusFollows, [Next]_vars
  PROVE  StatusFollows'
<1>1. CASE UNCHANGED <<link, dc_status, accepted>>
  BY <1>1 DEF StatusFollows
<1>2. CASE \/ RestConnected \/ RestDisconnected \/ GetOrderAck \/ UNCHANGED vars
           \/ \E outcome \in Outcomes : PrivateAck(outcome)
  <2>1. UNCHANGED <<link, dc_status, accepted>>
    BY <1>2 DEF RestConnected, RestDisconnected, GetOrderAck, PrivateAck, vars, dc_vars, history
  <2> QED
    BY <1>1, <2>1
<1>3. CASE WsReady
  <2>1. dc_status' = "LOGIN_SENT" /\ accepted' = accepted /\ link = "down"
    BY <1>3 DEF WsReady, history
  <2> QED
    BY <2>1 DEF Base, SessionInv, DownIsReset, StatusFollows
<1>4. CASE WsDisconnected
  BY <1>4 DEF WsDisconnected, StatusFollows
<1>5. CASE AuthAccepted
  BY <1>5 DEF AuthAccepted, Enter, StatusFollows
<1>6. CASE AuthRejected
  BY <1>6 DEF AuthRejected, Awaiting, history, StatusFollows
<1>7. ASSUME NEW channel \in Channels, SubReply(channel) PROVE StatusFollows'
  <2>1. UNCHANGED <<link, accepted>>
    BY <1>7 DEF SubReply
  <2> QED
    BY <1>7, <2>1, ReplyStatus DEF StatusFollows
<1>8. CASE TimerSends
  <2>1. UNCHANGED <<link, accepted>>
    BY <1>8 DEF TimerSends, history
  <2> QED
    BY <1>8, <2>1, TimerParts, TimerStatus DEF StatusFollows, Base
<1>9. CASE TimerHolds
  <2>1. UNCHANGED <<link, accepted>>
    BY <1>9 DEF TimerHolds, history
  <2> QED
    BY <1>9, <2>1, TimerStatus DEF TimerHolds, StatusFollows
<1> QED
  BY <1>2, <1>3, <1>4, <1>5, <1>6, <1>7, <1>8, <1>9 DEF Next

Currency == Finished /\ Covered /\ Truthful /\ StatusFollows

\* All of it holds.
LEMMA CurrencyHolds == Spec => []Currency
<1>1. Init => OneFlies /\ Currency
  <2> SUFFICES ASSUME Init PROVE OneFlies /\ Currency
    OBVIOUS
  <2>1. Flying = {} /\ OneFlies
    BY DEF Init, Flying, OneFlies
  <2>2. accepted = FALSE /\ settled = {} /\ link = "down"
    BY DEF Init
  <2> QED
    BY <2>1, <2>2 DEF Currency, Finished, Covered, Truthful, StatusFollows
<1>2. TypeOK /\ SessionInv /\ OneFlies /\ Currency /\ [Next]_vars => OneFlies' /\ Currency'
  BY OneFliesStep, FinishedStep, CoveredStep, TruthfulStep, StatusFollowsStep DEF Base, Currency
<1> QED
  BY <1>1, <1>2, TypeCorrect, SessionHolds, PTL DEF Spec

\* One query at most flies.
LEMMA OneFliesHolds == Spec => []OneFlies
<1>1. Init => OneFlies
  BY DEF Init, Flying, OneFlies
<1>2. TypeOK /\ OneFlies /\ [Next]_vars => OneFlies'
  BY OneFliesStep
<1> QED
  BY <1>1, <1>2, TypeCorrect, PTL DEF Spec

-------------------------------------------------------------------------------
(* What a reader of READY can rely on.                                      *)

\* READY is past every private query.
LEMMA ReadyIsPast ==
  ASSUME SessionInv, dc_status = "READY", NEW kind \in Private
  PROVE  accepted /\ download \in Past(kind) /\ download \in Since(kind)
BY Stages DEF SessionInv, ReadyIsDone, Private, Since, AfterBalances, AfterOpenOrders

\* Whatever has_response makes of an answer to an older query, the balances and the open
\* orders of a READY stream are settled by this session's queries or asked for again.
THEOREM ReadyCovered == Spec => []ReadyAnswersAreCovered
<1>1. SessionInv /\ Currency => ReadyAnswersAreCovered
  <2> SUFFICES ASSUME SessionInv, Currency, dc_status = "READY", NEW kind \in Snapshots,
                      kind \notin settled, kind \notin pending
               PROVE  \E i \in DOMAIN inflight : inflight[i].kind = kind /\ inflight[i].in_time
    BY DEF ReadyAnswersAreCovered, Snapshots
  <2>1. accepted /\ download \in Since(kind)
    BY ReadyIsPast DEF Snapshots, Private
  <2>2. \E r \in Flying : r.kind = kind /\ r.in_time
    BY <2>1 DEF Currency, Covered, Asks
  <2> QED
    BY <2>2 DEF Flying
<1> QED
  BY <1>1, SessionHolds, CurrencyHolds, PTL

\* READY finds both queries settled, if has_response speaks of the newest request.
LEMMA ReadyFindsSettled ==
  ASSUME NewestOnly, SessionInv, OneFlies, Currency, dc_status = "READY"
  PROVE  Snapshots \subseteq settled
<1> SUFFICES ASSUME NEW kind \in Snapshots PROVE kind \in settled
  OBVIOUS
<1>1. kind \in Private /\ accepted /\ download \in Past(kind) /\ download \in Since(kind)
  BY ReadyIsPast DEF Snapshots, Private
<1>2. kind \notin pending \cup in_progress
  BY <1>1 DEF Currency, Finished
<1>3. ~Asks(kind)
  BY <1>2 DEF OneFlies, Asks
<1> QED
  BY <1>1, <1>2, <1>3 DEF Currency, Covered

\* With has_response of the newest request the balances and the open orders of a READY
\* stream were last answered, by a success or an error, to queries of this session that
\* followed their channels, over lost websockets, late answers and timers that find the
\* download of an earlier session.
THEOREM ReadyCurrent ==
  ASSUME NewestOnly
  PROVE  Spec => []ReadyAnswersAreCurrent
<1>1. SessionInv /\ OneFlies /\ Currency => ReadyAnswersAreCurrent
  BY ReadyFindsSettled DEF ReadyAnswersAreCurrent, Snapshots
<1> QED
  BY <1>1, SessionHolds, OneFliesHolds, CurrencyHolds, PTL

-------------------------------------------------------------------------------
(* The refinement of AccountSession.                                        *)

Inv == Base /\ Currency
known == settled \cap DOMAIN Complements

\* The two snapshots are those that complement a channel.
LEMMA SnapshotsComplement == DOMAIN Complements = Snapshots
BY DEF Complements, Snapshots

\* READY after a step leaves nothing of the session to be done.
LEMMA ReadyCompletes ==
  ASSUME NewestOnly, Inv, Inv', dc_status' = "READY"
  PROVE  accepted' /\ acked' = Channels /\ known' = DOMAIN Complements
<1>1. Snapshots \subseteq settled'
  <2>1. NewestOnly /\ SessionInv' /\ OneFlies' /\ Currency' /\ dc_status' = "READY"
    BY DEF Inv, Base
  <2>2. \A kind \in Snapshots : kind \in settled'
    <3> SUFFICES ASSUME NEW kind \in Snapshots PROVE kind \in settled'
      OBVIOUS
    <3>1. kind \in Private /\ accepted' /\ download' = "DONE"
      BY <2>1 DEF SessionInv, ReadyIsDone, Snapshots, Private
    <3>2. download' \in Past(kind) /\ download' \in Since(kind)
      BY <3>1, Stages DEF Private, Since, AfterBalances, AfterOpenOrders
    <3>3. kind \notin pending' \cup in_progress'
      BY <2>1, <3>1, <3>2 DEF Currency, Finished
    <3>4. ~Asks(kind)'
      BY <2>1, <3>3 DEF OneFlies, Asks
    <3> QED
      BY <2>1, <3>1, <3>2, <3>3, <3>4 DEF Currency, Covered
  <2> QED
    BY <2>2
<1>2. accepted' /\ download' = "DONE"
  BY DEF Inv, Base, SessionInv, ReadyIsDone
<1>3. Channels \subseteq acked' /\ acked' \subseteq Channels
  BY <1>2, StatesAre DEF Inv, Base, TypeOK, SessionInv, PassedIsAcked, Channels
<1> QED
  BY <1>1, <1>2, <1>3, SnapshotsComplement DEF known

\* A step that changes nothing of a session but, perhaps, its status.
LEMMA WaitOrStutter ==
  ASSUME NewestOnly, Inv, Inv',
         UNCHANGED dc_status \/ (dc_status' \in {"DOWNLOADING", "READY"} /\ download # "DONE" /\ link = "open"),
         UNCHANGED <<accepted, acked, known>>
  PROVE  [Session!Next]_(Session!vars)
<1>1. CASE UNCHANGED dc_status
  BY <1>1, Zenon DEF Session!vars, known
<1>2. CASE dc_status' \in {"DOWNLOADING", "READY"} /\ download # "DONE" /\ link = "open"
  <2>1. dc_status \in {"LOGIN_SENT", "DOWNLOADING"}
    BY <1>2 DEF Inv, Base, TypeOK, SessionInv, ReadyIsDone, Currency, StatusFollows
  <2>2. dc_status' = "READY" => accepted' /\ acked' = Channels /\ known' = DOMAIN Complements
    BY ReadyCompletes
  <2>3. Session!Wait
    BY <1>2, <2>1, <2>2 DEF Session!Wait, Session!Proceed, Session!Complete, known
  <2> QED
    BY <2>3 DEF Session!Next
<1> QED
  BY <1>1, <1>2

\* Each step of the stream is a step of the session, or none.
LEMMA SessionSteps ==
  ASSUME NewestOnly, Inv, Inv', [Next]_vars
  PROVE  [Session!Next]_(Session!vars)
<1>1. CASE UNCHANGED <<dc_status, accepted, acked, known>>
  BY <1>1, WaitOrStutter
<1>2. CASE Elsewhere /\ ~WsReady
  <2>1. UNCHANGED <<dc_status, accepted, acked, settled>>
    BY <1>2 DEF Elsewhere, RestConnected, RestDisconnected, AuthRejected, vars, dc_vars, history
  <2> QED
    BY <1>1, <2>1 DEF known
<1>3. CASE GetOrderAck
  <2>1. UNCHANGED <<dc_status, accepted, acked, settled>>
    BY <1>3, Zenon DEF GetOrderAck, dc_vars, history
  <2> QED
    BY <1>1, <2>1 DEF known
<1>4. ASSUME NEW outcome \in Outcomes, PrivateAck(outcome) PROVE [Session!Next]_(Session!vars)
  <2> DEFINE r == Head(inflight)
  <2>1. /\ UNCHANGED <<dc_status, accepted, acked>>
        /\ settled' = IF r.in_time THEN settled \cup {r.kind} ELSE settled \ {r.kind}
    BY <1>4 DEF PrivateAck, dc_vars
  <2>2. Flying = {r} /\ r.kind \in Private
    BY <1>4, AnswerLands DEF Inv, Base
  <2> HIDE DEF r
  <2>3. CASE r.kind \notin Snapshots
    <3>1. known' = known
      BY <2>1, <2>3, SnapshotsComplement DEF known
    <3> QED
      BY <1>1, <2>1, <3>1
  <2>4. CASE r.kind \in Snapshots /\ ~r.in_time
    <3>1. r.kind \notin settled
      BY <2>2, <2>4 DEF Inv, Currency, Truthful
    <3>2. known' = known
      BY <2>1, <2>4, <3>1 DEF known
    <3> QED
      BY <1>1, <2>1, <3>2
  <2>5. CASE r.kind \in Snapshots /\ r.in_time
    <3>1. accepted /\ Complements[r.kind] \in acked
      BY <2>2, <2>5 DEF Inv, Currency, Truthful
    <3>2. dc_status # "READY"
      <4>1. SUFFICES ASSUME dc_status = "READY" PROVE FALSE
        OBVIOUS
      <4>2. download \in Past(r.kind)
        BY <2>2, <4>1, ReadyIsPast DEF Inv, Base
      <4>3. r.kind \notin in_progress
        BY <2>2, <3>1, <4>2 DEF Inv, Currency, Finished
      <4> QED
        BY <2>2, <4>3 DEF Inv, Base, OneFlies
    <3>3. dc_status = "DOWNLOADING"
      BY <3>1, <3>2 DEF Inv, Currency, StatusFollows
    <3>4. known' = known \cup {r.kind}
      BY <2>1, <2>5, SnapshotsComplement DEF known
    <3>5. Session!Answer(r.kind)
      BY <2>1, <3>1, <3>3, <3>4 DEF Session!Answer, Session!Proceed, known
    <3> QED
      BY <2>5, <3>5, SnapshotsComplement DEF Session!Next
  <2> QED
    BY <2>3, <2>4, <2>5
<1>5. CASE WsReady
  <2>1. dc_status = "DISCONNECTED" /\ dc_status' = "LOGIN_SENT"
        /\ UNCHANGED <<accepted, acked, settled>>
    BY <1>5 DEF WsReady, history, Inv, Base, SessionInv, DownIsReset
  <2>2. Session!Login
    BY <2>1 DEF Session!Login
  <2> QED
    BY <2>2 DEF Session!Next
<1>6. CASE WsDisconnected
  <2>1. dc_status' = "DISCONNECTED" /\ accepted' = FALSE /\ acked' = {} /\ settled' = {}
    BY <1>6 DEF WsDisconnected
  <2>2. Session!Lose
    BY <2>1 DEF Session!Lose
  <2> QED
    BY <2>2 DEF Session!Next
<1>7. CASE AuthAccepted
  <2>1. /\ link = "open" /\ accepted' = TRUE /\ UNCHANGED <<acked, settled>>
        /\ dc_status' = "DOWNLOADING"
    BY <1>7 DEF AuthAccepted, Awaiting, Enter
  <2>2. ~accepted
    BY <1>7, ReplyAccepted DEF Inv
  <2>3. dc_status \in {"LOGIN_SENT", "DOWNLOADING"}
    BY <2>1, <2>2 DEF Inv, Base, TypeOK, SessionInv, ReadyIsDone, Currency, StatusFollows
  <2>4. Session!Accept
    BY <2>1, <2>2, <2>3 DEF Session!Accept, Session!Proceed
  <2> QED
    BY <2>4 DEF Session!Next
<1>8. ASSUME NEW channel \in Channels, SubReply(channel) PROVE [Session!Next]_(Session!vars)
  <2>1. link = "open" /\ acked' = acked \cup {channel} /\ UNCHANGED <<accepted, settled>>
    BY <1>8 DEF SubReply, Awaiting
  <2>2. accepted
    BY <1>8, ReplyAccepted DEF Inv
  <2>3. UNCHANGED dc_status \/ (dc_status' \in {"DOWNLOADING", "READY"} /\ download # "DONE")
    BY <1>8, ReplyStatus
  <2>4. CASE channel \in acked
    BY <2>1, <2>3, <2>4, WaitOrStutter DEF known
  <2>5. CASE channel \notin acked
    <3>1. dc_status # "READY"
      BY <2>5, StatesAre DEF Inv, Base, SessionInv, ReadyIsDone, PassedIsAcked, Channels
    <3>2. dc_status = "DOWNLOADING"
      BY <2>2, <3>1 DEF Inv, Currency, StatusFollows
    <3>3. dc_status' \in {"DOWNLOADING", "READY"}
      BY <2>3, <3>2
    <3>4. dc_status' = "READY" => accepted' /\ acked' = Channels /\ known' = DOMAIN Complements
      BY ReadyCompletes
    <3>5. Session!Acknowledge(channel)
      BY <2>1, <2>2, <2>5, <3>2, <3>3, <3>4
         DEF Session!Acknowledge, Session!Proceed, Session!Complete, known
    <3> QED
      BY <3>5 DEF Session!Next
  <2> QED
    BY <2>4, <2>5
<1>9. CASE TimerSends \/ TimerHolds
  <2>1. UNCHANGED <<accepted, acked, settled>> /\ \E p, b, d : DropCopyTimer(p, b, d)
    BY <1>9 DEF TimerSends, TimerHolds, history
  <2> QED
    BY <2>1, TimerStatus, WaitOrStutter DEF known
<1> QED
  BY <1>2, <1>3, <1>4, <1>5, <1>6, <1>7, <1>8, <1>9 DEF Next, Elsewhere

\* With has_response of the newest request the two connections together keep what the
\* status of one session promises: it is accepted once, is READY only with every channel
\* and both snapshots in order, and leaves READY only by being lost.
THEOREM StreamsImplementSession ==
  ASSUME NewestOnly
  PROVE  Spec => ImplementsSession
<1>1. Init => Session!Init
  BY DEF Init, Session!Init
<1>2. Inv /\ Inv' /\ [Next]_vars => [Session!Next]_(Session!vars)
  BY SessionSteps
<1>3. Spec => []Inv
  <2>1. TypeOK /\ SessionInv /\ OneFlies /\ Currency => Inv
    BY DEF Inv, Base
  <2> QED
    BY <2>1, TypeCorrect, SessionHolds, OneFliesHolds, CurrencyHolds, PTL
<1> QED
  BY <1>1, <1>2, <1>3, PTL DEF Spec, Session!Spec, ImplementsSession

-------------------------------------------------------------------------------
(* Sessions in which nothing fails.                                         *)

\* If nothing has failed since the login, a private query that the download has reached
\* waits to be asked for, or is asked for with what it needs, or has succeeded.
Successful == \A kind \in Private :
  accepted /\ ~disturbed /\ download \in Since(kind) =>
    kind \in pending \/ /\ \A r \in Flying : r.kind = kind /\ kind = "balances" => r.with_id
                        /\ Asks(kind) \/ (kind \notin failed /\ (kind = "account" => account_id))

\* The account is known when the balances are asked for.
LEMMA AccountIsKnown ==
  ASSUME NewestOnly, Inv, Successful, accepted, ~disturbed, download \in Since("balances")
  PROVE  account_id
<1>1. download \in Past("account") /\ download \in Since("account")
  BY Stages DEF Since
<1>2. "account" \in Private
  BY DEF Private
<1>3. "account" \notin pending \cup in_progress
  BY <1>1, <1>2 DEF Inv, Currency, Finished
<1>4. ~Asks("account")
  BY <1>3 DEF Inv, Base, OneFlies, Asks
<1> QED
  BY <1>1, <1>2, <1>3, <1>4 DEF Successful

\* Nothing fails of its own accord in any step.
LEMMA SuccessfulStep ==
  ASSUME NewestOnly, Inv, Successful, [Next]_vars
  PROVE  Successful'
<1> SUFFICES ASSUME NEW kind \in Private, accepted', ~disturbed', download' \in Since(kind),
                    kind \notin pending'
             PROVE  /\ \A r \in Flying' : r.kind = kind /\ kind = "balances" => r.with_id
                    /\ Asks(kind)' \/ (kind \notin failed' /\ (kind = "account" => account_id'))
  BY DEF Successful
<1> DEFINE Goal == /\ \A r \in Flying' : r.kind = kind /\ kind = "balances" => r.with_id
                   /\ Asks(kind)' \/ (kind \notin failed' /\ (kind = "account" => account_id'))
<1>1. CASE /\ accepted /\ ~disturbed /\ download \in Since(kind) /\ kind \notin pending
           /\ Flying' = Flying /\ failed' = failed /\ account_id' = account_id
  BY <1>1 DEF Successful, Asks
<1>2. CASE RestConnected \/ WsReady \/ AuthRejected \/ UNCHANGED vars
  <2>1. UNCHANGED <<account_id, inflight, pending, download, accepted, failed, disturbed>>
    BY <1>2 DEF RestConnected, WsReady, AuthRejected, vars, oe_vars, request_vars, dc_vars, history
  <2> QED
    BY <1>1, <2>1 DEF Flying
<1>3. CASE RestDisconnected
  BY <1>3 DEF RestDisconnected
<1>4. CASE GetOrderAck
  <2>1. Flying' = Flying
    BY <1>4, OrderLands DEF Inv, Base
  <2>2. UNCHANGED <<account_id, accepted, download, pending, failed, disturbed>>
    BY <1>4, Zenon DEF GetOrderAck, dc_vars, history
  <2> QED
    BY <1>1, <2>1, <2>2
<1>5. ASSUME NEW outcome \in Outcomes, PrivateAck(outcome) PROVE Goal
  <2> DEFINE r == Head(inflight)
  <2>1. /\ UNCHANGED <<accepted, download, pending>>
        /\ account_id' = (account_id \/ (r.kind = "account" /\ outcome = "full"))
        /\ failed' = IF outcome = "error" THEN failed \cup {r.kind} ELSE failed \ {r.kind}
        /\ disturbed' = (disturbed \/ (outcome # "full" /\ (r.kind = "balances" => r.with_id)))
        /\ outcome # "error" /\ r.kind = "balances" => r.with_id
        /\ outcome = "empty" => r.kind = "account"
    BY <1>5, Zenon DEF PrivateAck, CanEnd, dc_vars
  <2>2. Flying = {r} /\ Flying' = {}
    BY <1>5, AnswerLands DEF Inv, Base
  <2> HIDE DEF r
  <2>3. ~disturbed /\ (outcome # "full" => r.kind = "balances" /\ ~r.with_id /\ outcome = "error")
    BY <2>1
  <2>4. /\ r.kind = kind /\ kind = "balances" => r.with_id
        /\ r.kind = kind \/ (kind \notin failed /\ (kind = "account" => account_id))
    BY <2>1, <2>2, <2>3 DEF Successful, Asks
  <2>5. CASE r.kind = kind
    BY <2>1, <2>2, <2>3, <2>4, <2>5
  <2>6. CASE r.kind # kind
    BY <2>1, <2>2, <2>4, <2>6
  <2> QED
    BY <2>5, <2>6
<1>6. CASE WsDisconnected
  BY <1>6 DEF WsDisconnected
<1>7. CASE AuthAccepted
  BY <1>7, LoginMoves DEF Private, Snapshots
<1>8. ASSUME NEW channel \in Channels, SubReply(channel) PROVE Goal
  <2>1. UNCHANGED <<account_id, accepted, inflight, failed, disturbed>>
    BY <1>8 DEF SubReply, oe_vars
  <2> QED
    BY <1>1, <1>8, <2>1, ReplyMoves DEF Flying
<1>9. CASE TimerSends
  <2>1. PICK k \in Kinds, found \in SUBSET Orders, d \in SUBSET Orders :
           /\ k \in pending /\ RequestsReady
           /\ CheckRequestQueue(k, found)
           /\ DropCopyTimer(pending \ {k}, in_progress \cup {k}, d)
           /\ UNCHANGED <<account_id, accepted, failed, disturbed>>
    BY <1>9, TimerParts DEF Inv, Base
  <2>2. download \in Since(kind) /\ kind \notin pending \ {k}
    BY <2>1, TimerMoves
  <2> DEFINE r == [kind |-> k, in_time |-> SentInTime(k), with_id |-> account_id]
  <2>3. Flying = {} /\ (Flying' = {} \/ Flying' = {r}) /\ (k # "stale_orders" => Flying' = {r})
    BY <2>1, SendFlies, Zenon DEF Inv, Base
  <2>4. r.kind = k /\ r.with_id = account_id
    OBVIOUS
  <2> HIDE DEF r
  <2>5. CASE k = kind
    <3>1. kind = "balances" => account_id
      BY <2>1, <2>2, AccountIsKnown
    <3>2. kind # "stale_orders"
      BY DEF Private
    <3> QED
      BY <2>3, <2>4, <2>5, <3>1, <3>2 DEF Asks
  <2>6. CASE k # kind
    <3>1. kind \notin failed /\ (kind = "account" => account_id)
      BY <2>1, <2>2, <2>3, <2>6 DEF Successful, Asks
    <3> QED
      BY <2>1, <2>3, <2>4, <2>6, <3>1
  <2> QED
    BY <2>5, <2>6
<1>10. CASE TimerHolds
  <2>1. UNCHANGED <<account_id, accepted, inflight, failed, disturbed>>
        /\ DropCopyTimer(pending, in_progress, details)
    BY <1>10 DEF TimerHolds, history
  <2> QED
    BY <1>1, <2>1, TimerMoves DEF Flying
<1> QED
  BY <1>2, <1>3, <1>4, <1>5, <1>6, <1>7, <1>8, <1>9, <1>10 DEF Next

\* With has_response of the newest request, a stream that becomes READY after a login that
\* nothing disturbed has its account id, and a snapshot of its balances and one of its open orders, each
\* asked for after its channel: no update falls between the snapshot and the stream.
THEOREM UndisturbedComplete ==
  ASSUME NewestOnly
  PROVE  Spec => []UndisturbedReadyIsComplete
<1>1. Init => Successful
  BY DEF Init, Successful
<1>2. Inv /\ Successful /\ [Next]_vars => Successful'
  BY SuccessfulStep
<1>3. Inv /\ Successful => UndisturbedReadyIsComplete
  <2> SUFFICES ASSUME Inv, Successful, dc_status = "READY", ~disturbed
               PROVE  account_id /\ SnapshotsTaken = Snapshots
    BY DEF UndisturbedReadyIsComplete, Snapshots
  <2>1. ASSUME NEW kind \in Private PROVE kind \notin failed /\ (kind = "account" => account_id)
    <3>1. accepted /\ download \in Past(kind) /\ download \in Since(kind)
      BY ReadyIsPast DEF Inv, Base
    <3>2. kind \notin pending \cup in_progress
      BY <3>1 DEF Inv, Currency, Finished
    <3>3. ~Asks(kind)
      BY <3>2 DEF Inv, Base, OneFlies, Asks
    <3> QED
      BY <3>1, <3>2, <3>3 DEF Successful
  <2>2. Snapshots \subseteq settled
    BY ReadyFindsSettled DEF Inv, Base
  <2>3. SnapshotsTaken = Snapshots
    BY <2>1, <2>2 DEF SnapshotsTaken, Snapshots, Private
  <2> QED
    BY <2>1, <2>3 DEF Private
<1>4. Spec => []Inv
  <2>1. TypeOK /\ SessionInv /\ OneFlies /\ Currency => Inv
    BY DEF Inv, Base
  <2> QED
    BY <2>1, TypeCorrect, SessionHolds, OneFliesHolds, CurrencyHolds, PTL
<1> QED
  BY <1>1, <1>2, <1>3, <1>4, PTL DEF Spec

-------------------------------------------------------------------------------
(***************************************************************************)
(* The safety half of liveness: whatever the two connections lose, what    *)
(* the download and the gate of the queries wait for is still to come.     *)
(***************************************************************************)
\* A query in progress, and what the REST queue holds of it.
AnswerOf(kind) == IF kind = "stale_orders" THEN "order" ELSE kind
Holds(q, kind) == \E i \in DOMAIN q : q[i].kind = AnswerOf(kind)

\* Every query in progress has its answer to come.
Answering == \A kind \in in_progress :
  IsOnItsWay(kind) \/ (kind = "stale_orders" /\ OrdersMayVanish)

\* A logged in download that is not READY has its reply due, or its query or its
\* answer there.
Fetching == /\ download \in DOMAIN RequestOf
            /\ RequestOf[download] \in pending \cup in_progress \cup responded
Moving == accepted =>
  \/ dc_status = "READY"
  \/ download \in DOMAIN ChannelOf /\ IsDue(ChannelOf[download])
  \/ Fetching

\* For both sorts of query, being on its way is being in the queue.
LEMMA OnItsWayIsHeld ==
  ASSUME NEW kind
  PROVE  /\ IsOnItsWay(kind) <=> Holds(inflight, kind)
         /\ IsOnItsWay(kind)' <=> Holds(inflight', kind)
BY DEF IsOnItsWay, Holds, AnswerOf, OrderRequests

\* What is appended and what was there before are both held.
LEMMA AppendHolds ==
  ASSUME NEW q \in Seq(RequestType), NEW new \in Seq(RequestType), NEW kind,
         Holds(q, kind) \/ Holds(new, kind)
  PROVE  Holds(q \o new, kind)
<1>1. /\ DOMAIN (q \o new) = 1..(Len(q) + Len(new))
      /\ \A i \in 1..Len(q) + Len(new) :
            (q \o new)[i] = IF i <= Len(q) THEN q[i] ELSE new[i - Len(q)]
      /\ Len(q) \in Nat /\ DOMAIN q = 1..Len(q)
      /\ Len(new) \in Nat /\ DOMAIN new = 1..Len(new)
  BY ConcatProperties
<1>2. ASSUME NEW i \in DOMAIN q, q[i].kind = AnswerOf(kind) PROVE Holds(q \o new, kind)
  <2>1. i \in DOMAIN (q \o new) /\ (q \o new)[i] = q[i]
    BY <1>1
  <2> QED
    BY <1>2, <2>1, Zenon DEF Holds
<1>3. ASSUME NEW i \in DOMAIN new, new[i].kind = AnswerOf(kind) PROVE Holds(q \o new, kind)
  <2>1. Len(q) + i \in DOMAIN (q \o new) /\ (q \o new)[Len(q) + i] = new[i]
    BY <1>1
  <2> QED
    BY <1>3, <2>1, Zenon DEF Holds
<1> QED
  BY <1>2, <1>3, Zenon DEF Holds

\* Only what the head answers leaves the queue.
LEMMA TailHolds ==
  ASSUME NEW q \in Seq(RequestType), q # <<>>, NEW kind,
         Holds(q, kind), Head(q).kind # AnswerOf(kind)
  PROVE  Holds(Tail(q), kind)
<1>1. /\ Head(q) = q[1] /\ Len(q) \in Nat \ {0} /\ DOMAIN q = 1..Len(q)
      /\ DOMAIN Tail(q) = 1..(Len(q) - 1)
      /\ \A i \in DOMAIN Tail(q) : Tail(q)[i] = q[i + 1]
  BY HeadTailProperties
<1>2. PICK i \in DOMAIN q : q[i].kind = AnswerOf(kind)
  BY Zenon DEF Holds
<1>3. i - 1 \in DOMAIN Tail(q) /\ Tail(q)[i - 1] = q[i]
  BY <1>1, <1>2
<1> QED
  BY <1>2, <1>3, Zenon DEF Holds

\* What a timer sends is held, if it sends anything.
LEMMA SentIsHeld ==
  ASSUME TypeOK, NEW kind \in Kinds, NEW found \in SUBSET Orders,
         kind = "stale_orders" => found # {}
  PROVE  Holds(RequestsFor(kind, found), kind)
<1>1. CASE kind = "stale_orders"
  <2>1. IsFiniteSet(found) /\ Cardinality(found) # 0 /\ Cardinality(found) \in Nat
    BY <1>1, OrdersAssumption, FS_Subset, FS_EmptySet, FS_CardinalityType
  <2>2. /\ Len(RequestsFor(kind, found)) = Cardinality(found)
        /\ RequestsFor(kind, found) \in Seq(RequestType)
        /\ \A i \in 1..Cardinality(found) : RequestsFor(kind, found)[i].kind = "order"
    BY <1>1, RequestsType
  <2>3. 1 \in DOMAIN RequestsFor(kind, found) /\ RequestsFor(kind, found)[1].kind = "order"
    BY <2>1, <2>2
  <2> QED
    BY <1>1, <2>3, Zenon DEF Holds, AnswerOf
<1>2. CASE kind # "stale_orders"
  <2>1. PICK r \in RequestType : RequestsFor(kind, found) = <<r>> /\ r.kind = kind
    BY <1>2, RequestsType
  <2>2. 1 \in DOMAIN <<r>> /\ <<r>>[1] = r
    OBVIOUS
  <2> QED
    BY <1>2, <2>1, <2>2, Zenon DEF Holds, AnswerOf
<1> QED
  BY <1>1, <1>2


\* Every query in progress keeps its answer to come, through every step.
LEMMA AnsweringStep ==
  ASSUME TypeOK, CounterMatchesInflight, StaleOrdersAreAskedFor, Answering,
         running, running', Next
  PROVE  Answering'
<1>0. inflight \in Seq(RequestType)
  BY DEF TypeOK
<1> DEFINE Kept(kind) == Holds(inflight, kind) => Holds(inflight', kind)
<1>1. ASSUME in_progress' \subseteq in_progress, \A kind \in in_progress' : Kept(kind)
      PROVE  Answering'
  BY <1>1, OnItsWayIsHeld, Zenon DEF Answering
<1>2. CASE GetOrderAck
  <2>1. /\ inflight # <<>> /\ Head(inflight).kind = "order" /\ inflight' = Tail(inflight)
        /\ in_progress' \subseteq in_progress
    BY <1>2 DEF GetOrderAck
  <2>2. CounterMatchesInflight'
    BY <1>2, AnswerCounts
  <2>3. ASSUME NEW kind \in in_progress', kind # "stale_orders" PROVE Kept(kind)
    <3>1. AnswerOf(kind) # "order"
      BY <2>1, <2>3 DEF AnswerOf, TypeOK, Kinds, Private
    <3> QED
      BY <1>0, <2>1, <3>1, TailHolds, Zenon
  <2>4. ASSUME "stale_orders" \in in_progress' PROVE IsOnItsWay("stale_orders")'
    <3>1. counter # 0 /\ counter # 1 /\ counter' = counter - 1
      BY <1>2, <2>4 DEF GetOrderAck
    <3>2. counter' = Cardinality(OrderRequests(inflight')) /\ counter' # 0
      BY <2>2, <3>1 DEF CounterMatchesInflight, TypeOK
    <3>3. OrderRequests(inflight') # {}
      BY <3>2, FS_EmptySet, Zenon
    <3> QED
      BY <3>3, Zenon DEF IsOnItsWay
  <2> QED
    BY <2>1, <2>3, <2>4, OnItsWayIsHeld, Zenon DEF Answering
<1>3. ASSUME NEW outcome \in Outcomes, PrivateAck(outcome) PROVE Answering'
  <2>1. /\ inflight # <<>> /\ Head(inflight).kind \in Private /\ inflight' = Tail(inflight)
        /\ in_progress' = in_progress \ {Head(inflight).kind}
    BY <1>3 DEF PrivateAck
  <2>2. ASSUME NEW kind \in in_progress' PROVE Head(inflight).kind # AnswerOf(kind)
    BY <2>1, <2>2 DEF AnswerOf, Private
  <2>3. \A kind \in in_progress' : Kept(kind)
    BY <1>0, <2>1, <2>2, TailHolds, Zenon
  <2> QED
    BY <1>1, <2>1, <2>3
<1>4. CASE WsDisconnected
  <2>1. DOMAIN inflight = 1..Len(inflight) /\ in_progress' = in_progress
    BY <1>0, <1>4 DEF WsDisconnected, request_vars
  <2>2. inflight' = [i \in DOMAIN inflight |-> [inflight[i] EXCEPT !.in_time = FALSE]]
    BY <1>4, Zenon DEF WsDisconnected
  <2>3. \A r \in RequestType : [r EXCEPT !.in_time = FALSE].kind = r.kind
    BY DEF RequestType
  <2>4. ASSUME NEW kind, NEW i \in DOMAIN inflight, inflight[i].kind = AnswerOf(kind)
        PROVE  Holds(inflight', kind)
    <3>1. i \in DOMAIN inflight' /\ inflight'[i] = [inflight[i] EXCEPT !.in_time = FALSE]
      BY <2>2, Zenon
    <3>2. inflight[i] \in RequestType
      BY <1>0, <2>1
    <3> QED
      BY <2>3, <2>4, <3>1, <3>2, Zenon DEF Holds
  <2>5. \A kind : Kept(kind)
    BY <2>4, Zenon DEF Holds
  <2> QED
    BY <1>1, <2>1, <2>5
<1>5. CASE TimerSends
  <2>1. PICK kind \in Sendable, found \in Findable :
           CheckRequestQueue(kind, IF kind = "stale_orders" THEN found ELSE {})
    BY <1>5 DEF TimerSends
  <2> DEFINE f == IF kind = "stale_orders" THEN found ELSE {}
  <2>2. kind \in Kinds /\ f \in SUBSET Orders
    BY <2>1 DEF Sendable, Findable, TypeOK
  <2>3. ~OrdersMayVanish => (kind = "stale_orders" => f # {})
    BY <2>1 DEF Sendable, Findable, StaleOrdersAreAskedFor
  <2> HIDE DEF f
  <2>4. /\ RequestsFor(kind, f) \in Seq(RequestType)
        /\ inflight' = inflight \o RequestsFor(kind, f) /\ in_progress' = in_progress \cup {kind}
    BY <2>1, <2>2, RequestsType DEF CheckRequestQueue, f
  <2>5. \A k : Kept(k)
    BY <1>0, <2>4, AppendHolds, Zenon
  <2>6. CASE kind = "stale_orders" /\ OrdersMayVanish
    BY <2>4, <2>5, <2>6, OnItsWayIsHeld, Zenon DEF Answering
  <2>7. CASE ~(kind = "stale_orders" /\ OrdersMayVanish)
    <3>1. Holds(RequestsFor(kind, f), kind)
      BY <2>2, <2>3, <2>7, SentIsHeld, Zenon
    <3>2. Holds(inflight', kind)
      BY <1>0, <2>4, <3>1, AppendHolds, Zenon
    <3> QED
      BY <2>4, <2>5, <3>2, OnItsWayIsHeld, Zenon DEF Answering
  <2> QED
    BY <2>6, <2>7
<1>6. CASE \/ RestConnected \/ RestDisconnected \/ WsReady \/ AuthAccepted \/ AuthRejected
           \/ TimerHolds \/ \E channel \in Channels : SubReply(channel)
  <2>1. UNCHANGED <<in_progress, inflight>>
    BY <1>6 DEF RestConnected, RestDisconnected, WsReady, AuthAccepted, AuthRejected, TimerHolds,
                SubReply, oe_vars, request_vars
  <2> QED
    BY <1>1, <2>1
<1> QED
  BY <1>2, <1>3, <1>4, <1>5, <1>6 DEF Next

\* Entering a state starts what will move the download on.
LEMMA EnterIsMoving ==
  ASSUME NEW state \in States \ {"UNDEFINED"}, NEW p, NEW q \in Seq(Channels \cup {"auth"}),
         Enter(state, p, q)
  PROVE  Moving'
<1>1. download' = state
  BY DEF Enter
<1>2. CASE state = "DONE"
  BY <1>2 DEF Enter, Moving
<1>3. CASE state \in DOMAIN RequestOf
  <2>1. RequestOf[state] \in pending'
    BY <1>3, Zenon DEF Enter
  <2> QED
    BY <1>1, <1>3, <2>1, Zenon DEF Moving, Fetching
<1>4. CASE state \in DOMAIN ChannelOf
  <2> DEFINE c == ChannelOf[state]
  <2>1. c \in Channels /\ replies' = Append(q, c)
    BY <1>4 DEF Enter, ChannelOf, Channels
  <2> HIDE DEF c
  <2>2. Len(q) + 1 \in DOMAIN replies' /\ replies'[Len(q) + 1] = c
    BY <2>1
  <2>3. IsDue(c)'
    BY <2>2, Zenon DEF IsDue
  <2> QED
    BY <1>1, <1>4, <2>3, Zenon DEF Moving, c
<1> QED
  BY <1>2, <1>3, <1>4, StatesAre DEF RequestOf, ChannelOf

\* DropCopy's part of the timer keeps the download moving.
LEMMA TimerIsMoving ==
  ASSUME TypeOK, NEW p, NEW b, NEW d, DropCopyTimer(p, b, d), in_progress' = b,
         accepted' = accepted, Moving, pending \cup in_progress \subseteq p \cup b
  PROVE  Moving'
<1>1. ASSUME pending' = p, UNCHANGED <<responded, download, dc_status, replies>> PROVE Moving'
  BY <1>1, Zenon DEF Moving, Fetching, IsDue
<1>2. CASE AdvanceDownload(p, b, d)
  <2>1. replies \in Seq(Channels \cup {"auth"})
    BY DEF TypeOK
  <2>2. ASSUME NEW next \in {"SUBSCRIBE_BALANCES", "SUBSCRIBE_ORDERS", "GET_STALE_ORDERS",
                             "SUBSCRIBE_TRADES"}, Enter(next, p, replies)
        PROVE  Moving'
    <3>1. next \in States \ {"UNDEFINED"}
      BY StatesAre
    <3> QED
      BY <2>1, <2>2, <3>1, EnterIsMoving
  <2> QED
    BY <1>1, <1>2, <2>2, Advances
<1>3. CASE CheckStaleOrders(p, d)
  BY <1>3 DEF CheckStaleOrders, Moving
<1>4. CASE IdleDropCopy(p, b, d)
  BY <1>1, <1>4 DEF IdleDropCopy
<1> QED
  BY <1>2, <1>3, <1>4 DEF DropCopyTimer

\* The download of a logged in session keeps moving, through every step.
LEMMA MovingStep ==
  ASSUME TypeOK, SessionInv, Moving, [Next]_vars
  PROVE  Moving'
<1>0. replies \in Seq(Channels \cup {"auth"})
  BY DEF TypeOK
<1>1. CASE ~accepted /\ accepted' = accepted
  BY <1>1 DEF Moving
<1>2. CASE WsReady \/ AuthRejected
  <2>1. accepted' = accepted
    BY <1>2 DEF WsReady, AuthRejected, history
  <2>2. ~accepted
    BY <1>0, <1>2, ReplyTail DEF WsReady, AuthRejected, Awaiting, SessionInv, DownIsReset, LoginOnce
  <2> QED
    BY <1>1, <2>1, <2>2
<1>3. CASE WsDisconnected
  BY <1>3 DEF WsDisconnected, Moving
<1>4. CASE AuthAccepted
  <2>1. Enter("GET_ACCOUNT", pending, Tail(replies)) /\ Tail(replies) \in Seq(Channels \cup {"auth"})
    BY <1>0, <1>4 DEF AuthAccepted, Awaiting
  <2>2. "GET_ACCOUNT" \in States \ {"UNDEFINED"}
    BY StatesAre
  <2> QED
    BY <2>1, <2>2, EnterIsMoving
<1>5. ASSUME NEW channel \in Channels, SubReply(channel) PROVE Moving'
  <2>1. /\ replies # <<>> /\ Head(replies) = channel /\ Tail(replies) \in Seq(Channels \cup {"auth"})
        /\ UNCHANGED <<in_progress, accepted>>
    BY <1>0, <1>5 DEF SubReply, Awaiting
  <2>2. CASE download \in DOMAIN ChannelOf /\ ChannelOf[download] = channel
    <3>1. Enter(Successor(download, details), pending, Tail(replies))
      BY <1>5, <2>2 DEF SubReply
    <3>2. Successor(download, details) \in States \ {"UNDEFINED"}
      BY <2>2, Successors, StatesAre DEF ChannelOf
    <3> QED
      BY <2>1, <3>1, <3>2, EnterIsMoving
  <2>3. CASE ~(download \in DOMAIN ChannelOf /\ ChannelOf[download] = channel)
    <3>1. replies' = Tail(replies) /\ UNCHANGED <<download, dc_status, pending, responded>>
      BY <1>5, <2>3 DEF SubReply
    <3>2. ASSUME download \in DOMAIN ChannelOf, IsDue(ChannelOf[download])
          PROVE  IsDue(ChannelOf[download])'
      <4>1. PICK i \in DOMAIN replies : replies[i] = ChannelOf[download]
        BY <3>2, Zenon DEF IsDue
      <4>2. /\ Head(replies) = replies[1] /\ Len(replies) \in Nat /\ DOMAIN replies = 1..Len(replies)
            /\ DOMAIN Tail(replies) = 1..(Len(replies) - 1)
            /\ \A j \in DOMAIN Tail(replies) : Tail(replies)[j] = replies[j + 1]
        BY <1>0, <2>1, HeadTailProperties
      <4>3. i # 1
        BY <2>1, <2>3, <3>2, <4>1, <4>2
      <4>4. i - 1 \in DOMAIN replies' /\ replies'[i - 1] = ChannelOf[download']
        BY <3>1, <4>1, <4>2, <4>3
      <4> QED
        BY <4>4, Zenon DEF IsDue
    <3> QED
      BY <2>1, <3>1, <3>2, Zenon DEF Moving, Fetching
  <2> QED
    BY <2>2, <2>3
<1>6. CASE TimerSends
  <2>1. PICK kind \in Kinds, found \in SUBSET Orders, d \in SUBSET Orders :
           /\ CheckRequestQueue(kind, found)
           /\ DropCopyTimer(pending \ {kind}, in_progress \cup {kind}, d)
           /\ accepted' = accepted
    BY <1>6, TimerParts
  <2>2. in_progress' = in_progress \cup {kind}
    BY <2>1 DEF CheckRequestQueue
  <2> QED
    BY <2>1, <2>2, TimerIsMoving
<1>7. CASE TimerHolds
  <2>1. DropCopyTimer(pending, in_progress, details) /\ UNCHANGED <<in_progress, accepted>>
    BY <1>7 DEF TimerHolds, history
  <2> QED
    BY <2>1, TimerIsMoving
<1>8. CASE GetOrderAck \/ \E outcome \in Outcomes : PrivateAck(outcome)
  <2>1. /\ UNCHANGED <<pending, download, dc_status, replies, accepted>>
        /\ in_progress \cup responded \subseteq in_progress' \cup responded'
    BY <1>8 DEF GetOrderAck, PrivateAck, dc_vars, history
  <2> QED
    BY <2>1, Zenon DEF Moving, Fetching, IsDue
<1>9. CASE RestConnected \/ RestDisconnected \/ UNCHANGED vars
  <2>1. UNCHANGED <<pending, in_progress, responded, download, dc_status, replies, accepted>>
    BY <1>9 DEF RestConnected, RestDisconnected, vars, request_vars, dc_vars, history
  <2> QED
    BY <2>1, Zenon DEF Moving, Fetching, IsDue
<1> QED
  BY <1>2, <1>3, <1>4, <1>5, <1>6, <1>7, <1>8, <1>9 DEF Next

\* Whatever is lost or late, nothing waits for what nobody will send: each query that is
\* in progress has its answer on its way, an open websocket its login reply, and a logged
\* in download that is not READY its reply, its query or its answer.
THEOREM AwaitedComes == Spec => []AwaitedIsUnderWay
<1>1. Init => (running => Answering) /\ Moving
  BY DEF Init, Answering, Moving
<1>2. /\ TypeOK /\ CounterMatchesInflight /\ StaleOrdersAreAskedFor /\ SessionInv
      /\ (running => Answering) /\ Moving /\ [Next]_vars
      => (running' => Answering') /\ Moving'
  <2> SUFFICES ASSUME TypeOK, CounterMatchesInflight, StaleOrdersAreAskedFor, SessionInv,
                      running => Answering, Moving, [Next]_vars
               PROVE  (running' => Answering') /\ Moving'
    OBVIOUS
  <2>1. CASE UNCHANGED vars
    <3>1. UNCHANGED <<running, inflight, in_progress>>
      BY <2>1 DEF vars, oe_vars, request_vars
    <3>2. running' => Answering'
      BY <3>1, Zenon DEF Answering, IsOnItsWay, OrderRequests
    <3> QED
      BY <3>2, MovingStep
  <2>2. CASE Next
    <3>1. running
      BY <2>2 DEF Next, RestConnected, RestDisconnected, PrivateAck, GetOrderAck, WsReady,
                  WsDisconnected, AuthAccepted, AuthRejected, SubReply, Awaiting, TimerSends, TimerHolds
    <3> QED
      BY <2>2, <3>1, AnsweringStep, MovingStep
  <2> QED
    BY <2>1, <2>2
<1>3. TypeOK /\ SessionInv /\ (running => Answering) /\ Moving => AwaitedIsUnderWay
  <2> SUFFICES ASSUME TypeOK, SessionInv, running => Answering, Moving, running
               PROVE  AwaitedIsUnderWay
    BY DEF AwaitedIsUnderWay
  <2>1. ASSUME link = "open", ~accepted PROVE IsDue("auth")
    <3>1. replies # <<>> /\ Head(replies) = "auth" /\ replies \in Seq(Channels \cup {"auth"})
      BY <2>1 DEF SessionInv, LoginOnce, AwaitsLogin, TypeOK
    <3>2. 1 \in DOMAIN replies /\ replies[1] = "auth"
      BY <3>1
    <3> QED
      BY <3>2, Zenon DEF IsDue
  <2> QED
    BY <2>1, Zenon DEF AwaitedIsUnderWay, Answering, Moving, Fetching
<1> QED
  BY <1>1, <1>2, <1>3, TypeCorrect, CounterIsExact, StaleOrdersAsked, SessionHolds, PTL DEF Spec

-------------------------------------------------------------------------------
(* What no step does, whatever has_response speaks of.                      *)

\* READY is given up with the websocket and for nothing else: no stale order, late answer,
\* reply or lost REST connection sends a READY stream back to its download.
THEOREM ReadyIsKept ==
  Spec => [][dc_status = "READY" => dc_status' \in {"READY", "DISCONNECTED"}]_vars
<1>1. TypeOK /\ SessionInv /\ OneFlies /\ [Next]_vars
      => [dc_status = "READY" => dc_status' \in {"READY", "DISCONNECTED"}]_vars
  <2> SUFFICES ASSUME TypeOK, SessionInv, OneFlies, Next, dc_status = "READY"
               PROVE  dc_status' \in {"READY", "DISCONNECTED"}
    OBVIOUS
  <2>1. accepted /\ download = "DONE" /\ link # "down"
    BY DEF SessionInv, ReadyIsDone, DownIsReset
  <2>2. ~AuthAccepted /\ ~WsReady
    BY <2>1, ReplyAccepted DEF Base, WsReady
  <2>3. CASE WsDisconnected
    BY <2>3 DEF WsDisconnected
  <2>4. CASE \/ RestConnected \/ RestDisconnected \/ GetOrderAck \/ AuthRejected
             \/ \E outcome \in Outcomes : PrivateAck(outcome)
    <3>1. UNCHANGED dc_status
      BY <2>4 DEF RestConnected, RestDisconnected, GetOrderAck, AuthRejected, PrivateAck, dc_vars
    <3> QED
      BY <3>1
  <2>5. ASSUME NEW channel \in Channels, SubReply(channel) PROVE UNCHANGED dc_status
    BY <2>1, <2>5, ReplyStatus
  <2>6. CASE TimerSends \/ TimerHolds
    BY <2>1, <2>6, TimerParts, TimerStatus DEF TimerHolds
  <2> QED
    BY <2>2, <2>3, <2>4, <2>5, <2>6 DEF Next
<1> QED
  BY <1>1, TypeCorrect, SessionHolds, OneFliesHolds, PTL DEF Spec

\* No answer about a stale order finds the counter at zero: the log::fatal of
\* order_entry.cpp:485 is never reached, over any lost connections and in any setting.
THEOREM OrderAnswersAreExpected == Spec => [][GetOrderAck => running']_vars
<1>1. TypeOK /\ CounterMatchesInflight /\ [Next]_vars => [GetOrderAck => running']_vars
  <2> SUFFICES ASSUME TypeOK, CounterMatchesInflight, GetOrderAck PROVE running'
    OBVIOUS
  <2>1. running /\ running' = running
    BY AnswerCounts DEF GetOrderAck
  <2> QED
    BY <2>1, Zenon
<1> QED
  BY <1>1, TypeCorrect, CounterIsExact, PTL DEF Spec
================================================================================
