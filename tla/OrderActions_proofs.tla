-------------------------- MODULE OrderActions_proofs --------------------------
(* What is reported of an order agrees with what became of it, for every set   *)
(* of orders and requests.                                                     *)
EXTENDS OrderActions, SequenceTheorems, TLAPS

InFlight(r) == \E i \in DOMAIN inflight : inflight[i] = r

\* What is reported when a request is handed over.
Handed(type) ==
    IF type = "cancel_all" THEN <<Report("CANCEL_ALL_ORDERS", "GATEWAY", "FORWARDED")>>
                           ELSE <<>>

\* What an answer tells of a request's outcome.
Tells(answer, outcome) ==
    /\ answer = "ok" => outcome = "done"
    /\ answer \in {"error_body", "client_error"} => outcome = "refused"
    /\ answer = "server_error" /\ ServerErrorsAreFinal => outcome = "refused"

(***************************************************************************)
(* The inductive invariant.  Typed and Queue are the types; Reported says  *)
(* what each request's reports are in each of its phases; Placing that an  *)
(* order is created by one request; Lives that the exchange's view of an   *)
(* order follows from the outcome of that request and of its cancellations.*)
(***************************************************************************)
Typed ==
    /\ ready \in BOOLEAN
    /\ inflight \in Seq(Requests)
    /\ DOMAIN log = Requests /\ log = [r \in Requests |-> log[r]]
    /\ \A r \in Requests :
         log[r] = [type |-> log[r].type, order |-> log[r].order,
                   outcome |-> log[r].outcome, reports |-> log[r].reports]
    /\ \A r \in Requests : log[r].type \in Types /\ log[r].outcome \in Outcomes
    /\ \A r \in Requests : log[r].order \in Orders \cup {NoOrder}
    /\ exchange \in [Orders -> {"none", "working", "canceling", "done"}]

Queue == \A i, j \in DOMAIN inflight : inflight[i] = inflight[j] => i = j

Reported ==
    \A r \in Requests :
        /\ log[r].outcome = "unsent" =>
             ~InFlight(r) /\ log[r].reports = <<>> /\ log[r].type = "none"
        /\ InFlight(r) => log[r].reports = Handed(log[r].type)
        /\ log[r].outcome # "unsent" /\ ~InFlight(r) =>
             \E answer \in Answers :
                 /\ log[r].reports = Append(Handed(log[r].type), FinalReport(log[r].type, answer))
                 /\ Tells(answer, log[r].outcome)

Placing ==
    /\ \A r \in Requests : log[r].outcome # "unsent" => log[r].type # "none"
    /\ \A r \in Requests : log[r].type \in {"create", "cancel"} => log[r].order \in Orders
    /\ \A q, r \in Requests :
         log[q].type = "create" /\ log[r].type = "create" /\ log[q].order = log[r].order
             => q = r

Lives ==
    /\ \A r \in Requests : log[r].type = "create" /\ log[r].outcome = "done" =>
         exchange[log[r].order] # "none"
    /\ \A order \in Orders : exchange[order] # "none" =>
         \E r \in Requests :
             log[r].type = "create" /\ log[r].order = order /\ log[r].outcome = "done"
    /\ \A r \in Requests : log[r].type = "cancel" /\ log[r].outcome = "done" =>
         exchange[log[r].order] \in {"canceling", "done"}

IInv == Typed /\ Queue /\ Reported /\ Placing /\ Lives

-------------------------------------------------------------------------------
\* A request handed over joins the queue.
LEMMA Joins ==
    ASSUME inflight \in Seq(Requests), Queue, NEW r \in Requests, ~InFlight(r),
           inflight' = Append(inflight, r)
    PROVE  /\ inflight' \in Seq(Requests)
           /\ Queue'
           /\ \A q \in Requests : InFlight(q)' <=> InFlight(q) \/ q = r
<1>1. /\ inflight' \in Seq(Requests) /\ Len(inflight') = Len(inflight) + 1
      /\ \A i \in 1..Len(inflight) : inflight'[i] = inflight[i]
      /\ inflight'[Len(inflight) + 1] = r
  BY AppendProperties
<1>2. DOMAIN inflight = 1..Len(inflight) /\ DOMAIN inflight' = 1..Len(inflight) + 1
      /\ Len(inflight) \in Nat
  BY <1>1
<1>3. Queue'
  BY <1>1, <1>2 DEF Queue, InFlight
<1>4. \A q \in Requests : InFlight(q)' <=> InFlight(q) \/ q = r
  BY <1>1, <1>2 DEF InFlight
<1> QED
  BY <1>1, <1>3, <1>4

\* A request answered leaves the queue.
LEMMA Leaves ==
    ASSUME inflight \in Seq(Requests), Queue, inflight # <<>>, inflight' = Tail(inflight)
    PROVE  /\ Head(inflight) \in Requests /\ InFlight(Head(inflight))
           /\ inflight' \in Seq(Requests)
           /\ Queue'
           /\ \A q \in Requests : InFlight(q)' <=> InFlight(q) /\ q # Head(inflight)
<1>1. /\ inflight' \in Seq(Requests) /\ Len(inflight') = Len(inflight) - 1
      /\ \A i \in 1..Len(inflight') : inflight'[i] = inflight[i + 1]
      /\ Head(inflight) = inflight[1] /\ Head(inflight) \in Requests
  BY HeadTailProperties
<1>2. DOMAIN inflight = 1..Len(inflight) /\ DOMAIN inflight' = 1..Len(inflight) - 1
      /\ Len(inflight) \in Nat \ {0}
  BY <1>1
<1>3. Queue'
  <2> SUFFICES ASSUME NEW i \in DOMAIN inflight', NEW j \in DOMAIN inflight',
                      inflight'[i] = inflight'[j]
               PROVE  i = j
    BY DEF Queue
  <2>1. i + 1 \in DOMAIN inflight /\ j + 1 \in DOMAIN inflight
    BY <1>2
  <2>2. inflight[i + 1] = inflight[j + 1]
    BY <1>1, <1>2
  <2>3. i + 1 = j + 1
    BY <2>1, <2>2 DEF Queue
  <2> QED
    BY <2>3, <1>2
<1>4. ASSUME NEW q \in Requests PROVE InFlight(q)' <=> InFlight(q) /\ q # Head(inflight)
  <2>1. ASSUME InFlight(q)' PROVE InFlight(q) /\ q # Head(inflight)
    <3>1. PICK i \in DOMAIN inflight' : inflight'[i] = q
      BY <2>1 DEF InFlight
    <3>2. i + 1 \in DOMAIN inflight /\ inflight[i + 1] = q /\ 1 \in DOMAIN inflight /\ i + 1 # 1
      BY <3>1, <1>1, <1>2
    <3> QED
      BY <3>2, <1>1 DEF InFlight, Queue
  <2>2. ASSUME InFlight(q), q # Head(inflight) PROVE InFlight(q)'
    <3>1. PICK i \in DOMAIN inflight : inflight[i] = q
      BY <2>2 DEF InFlight
    <3>2. i # 1
      BY <3>1, <2>2, <1>1
    <3>3. i - 1 \in DOMAIN inflight' /\ inflight'[i - 1] = q
      BY <3>1, <3>2, <1>1, <1>2
    <3> QED
      BY <3>3 DEF InFlight
  <2> QED
    BY <2>1, <2>2
<1>5. InFlight(Head(inflight))
  BY <1>1, <1>2 DEF InFlight
<1> QED
  BY <1>1, <1>3, <1>4, <1>5

\* Handing a request over keeps the invariant.
LEMMA SendStep ==
    ASSUME IInv, NEW r \in Requests, NEW type \in Types \ {"none"},
           NEW order \in Orders \cup {NoOrder},
           type = "cancel_all" \/ order \in Orders,
           type = "create" => ~Placed(order),
           Send(r, type, order, Handed(type))
    PROVE  IInv'
<1> DEFINE entry == [type |-> type, order |-> order, outcome |-> "sent",
                     reports |-> Handed(type)]
<1>1. /\ log[r].outcome = "unsent" /\ inflight' = Append(inflight, r)
      /\ log' = [log EXCEPT ![r] = entry] /\ UNCHANGED <<ready, exchange>>
  BY DEF Send
<1>2. ~InFlight(r) /\ log[r].type = "none"
  BY <1>1 DEF IInv, Reported
<1>3. log'[r] = entry /\ DOMAIN log' = Requests /\ \A q \in Requests : q # r => log'[q] = log[q]
  BY <1>1 DEF IInv, Typed
<1>4. /\ inflight' \in Seq(Requests) /\ Queue'
      /\ \A q \in Requests : InFlight(q)' <=> InFlight(q) \/ q = r
  BY <1>1, <1>2, Joins DEF IInv, Typed
<1>5. Typed'
  BY <1>1, <1>3, <1>4 DEF IInv, Typed, Types, Outcomes
<1>6. Reported'
  <2> SUFFICES ASSUME NEW q \in Requests PROVE
        /\ log'[q].outcome = "unsent" =>
             ~InFlight(q)' /\ log'[q].reports = <<>> /\ log'[q].type = "none"
        /\ InFlight(q)' => log'[q].reports = Handed(log'[q].type)
        /\ log'[q].outcome # "unsent" /\ ~InFlight(q)' =>
             \E answer \in Answers :
                 /\ log'[q].reports = Append(Handed(log'[q].type), FinalReport(log'[q].type, answer))
                 /\ Tells(answer, log'[q].outcome)
    BY DEF Reported
  <2>1. CASE q = r
    BY <2>1, <1>3, <1>4
  <2>2. CASE q # r
    BY <2>2, <1>3, <1>4 DEF IInv, Reported
  <2> QED
    BY <2>1, <2>2
<1>7. Placing'
  BY <1>3 DEF IInv, Placing, Placed, Types
<1>8. Lives'
  BY <1>1, <1>2, <1>3 DEF IInv, Lives, Types, Outcomes
<1> QED
  BY <1>4, <1>5, <1>6, <1>7, <1>8 DEF IInv

\* The report of an answer agrees with the outcome it is an answer to.
LEMMA PossibleTells ==
    ASSUME NEW outcome \in Outcomes, NEW answer \in Possible(outcome)
    PROVE  answer \in Answers /\ Tells(answer, outcome)
BY DEF Possible, Answers, Tells, Outcomes

\* Running a callback keeps the invariant.
LEMMA AnswerStep ==
    ASSUME IInv, NEW answer \in Answers, Answer(answer)
    PROVE  IInv'
<1> DEFINE r == Head(inflight)
           final == FinalReport(log[r].type, answer)
<1>1. /\ inflight # <<>> /\ inflight' = Tail(inflight) /\ UNCHANGED <<ready, exchange>>
      /\ answer \in Possible(log[r].outcome)
      /\ log' = [log EXCEPT ![r].reports = Append(@, final)]
  BY DEF Answer
<1>2. /\ r \in Requests /\ InFlight(r) /\ inflight' \in Seq(Requests) /\ Queue'
      /\ \A q \in Requests : InFlight(q)' <=> InFlight(q) /\ q # r
  BY <1>1, Leaves DEF IInv, Typed
<1>3. log[r].outcome # "unsent" /\ log[r].reports = Handed(log[r].type)
  BY <1>2 DEF IInv, Reported
<1>4. /\ log'[r] = [type |-> log[r].type, order |-> log[r].order, outcome |-> log[r].outcome,
                    reports |-> Append(Handed(log[r].type), final)]
      /\ DOMAIN log' = Requests
      /\ \A q \in Requests : q # r => log'[q] = log[q]
  <2> HIDE DEF r, final
  <2>1. log[r] = [type |-> log[r].type, order |-> log[r].order,
                  outcome |-> log[r].outcome, reports |-> log[r].reports]
    BY <1>2 DEF IInv, Typed
  <2>2. log'[r] = [log[r] EXCEPT !.reports = Append(Handed(log[r].type), final)]
    BY <1>1, <1>2, <1>3 DEF IInv, Typed
  <2>3. log'[r] = [type |-> log[r].type, order |-> log[r].order, outcome |-> log[r].outcome,
                   reports |-> Append(Handed(log[r].type), final)]
    BY <2>1, <2>2, Zenon
  <2> QED
    BY <1>1, <1>2, <2>3 DEF IInv, Typed
<1> HIDE DEF r, final
<1>5. Tells(answer, log[r].outcome)
  BY <1>1, <1>2, PossibleTells DEF IInv, Typed
<1>6. \A q \in Requests : /\ log'[q].type = log[q].type /\ log'[q].order = log[q].order
                          /\ log'[q].outcome = log[q].outcome
  BY <1>2, <1>4
<1>7. Typed'
  <2>1. ASSUME NEW q \in Requests
        PROVE  log'[q] = [type |-> log'[q].type, order |-> log'[q].order,
                          outcome |-> log'[q].outcome, reports |-> log'[q].reports]
    <3>1. CASE q = r
      BY <3>1, <1>4
    <3>2. CASE q # r
      BY <3>2, <1>4 DEF IInv, Typed
    <3> QED
      BY <3>1, <3>2
  <2> QED
    BY <2>1, <1>1, <1>2, <1>4, <1>6 DEF IInv, Typed
<1>8. Reported'
  <2> SUFFICES ASSUME NEW q \in Requests PROVE
        /\ log'[q].outcome = "unsent" =>
             ~InFlight(q)' /\ log'[q].reports = <<>> /\ log'[q].type = "none"
        /\ InFlight(q)' => log'[q].reports = Handed(log'[q].type)
        /\ log'[q].outcome # "unsent" /\ ~InFlight(q)' =>
             \E a \in Answers :
                 /\ log'[q].reports = Append(Handed(log'[q].type), FinalReport(log'[q].type, a))
                 /\ Tells(a, log'[q].outcome)
    BY DEF Reported
  <2>1. CASE q = r
    <3>1. log'[r].reports = Append(Handed(log'[r].type), FinalReport(log'[r].type, answer))
      BY <1>4 DEF final
    <3> QED
      BY <2>1, <3>1, <1>2, <1>3, <1>4, <1>5, <1>6
  <2>2. CASE q # r
    BY <2>2, <1>2, <1>4 DEF IInv, Reported
  <2> QED
    BY <2>1, <2>2
<1>9. Placing'
  BY <1>6 DEF IInv, Placing
<1>10. Lives'
  BY <1>1, <1>6 DEF IInv, Lives
<1> QED
  BY <1>2, <1>7, <1>8, <1>9, <1>10 DEF IInv

\* A request's entry with another outcome.
LEMMA WithOutcome ==
    ASSUME NEW type, NEW order, NEW old, NEW reports, NEW outcome, NEW entry,
           entry = [type |-> type, order |-> order, outcome |-> old, reports |-> reports]
    PROVE  [entry EXCEPT !.outcome = outcome]
               = [type |-> type, order |-> order, outcome |-> outcome, reports |-> reports]
OBVIOUS

\* A request that the exchange has run or refused: what was reported stays true.
LEMMA OutcomeStep ==
    ASSUME IInv, NEW r \in Requests, NEW outcome \in {"done", "refused"},
           log[r].outcome = "sent", log' = [log EXCEPT ![r].outcome = outcome],
           UNCHANGED <<ready, inflight>>,
           exchange' \in [Orders -> {"none", "working", "canceling", "done"}]
    PROVE  /\ Typed' /\ Queue' /\ Reported' /\ Placing'
           /\ \A q \in Requests : log'[q].type = log[q].type /\ log'[q].order = log[q].order
           /\ log'[r].outcome = outcome
           /\ \A q \in Requests : q # r => log'[q].outcome = log[q].outcome
<1>1. /\ log'[r] = [type |-> log[r].type, order |-> log[r].order, outcome |-> outcome,
                    reports |-> log[r].reports]
      /\ DOMAIN log' = Requests
      /\ \A q \in Requests : q # r => log'[q] = log[q]
  <2>1. log[r] = [type |-> log[r].type, order |-> log[r].order,
                  outcome |-> log[r].outcome, reports |-> log[r].reports]
    BY DEF IInv, Typed
  <2>2. log'[r] = [log[r] EXCEPT !.outcome = outcome]
    BY DEF IInv, Typed
  <2>3. log'[r] = [type |-> log[r].type, order |-> log[r].order, outcome |-> outcome,
                   reports |-> log[r].reports]
    BY <2>1, <2>2, WithOutcome
  <2> QED
    BY <2>3 DEF IInv, Typed
<1>2. \A q \in Requests : log'[q].type = log[q].type /\ log'[q].order = log[q].order
                          /\ log'[q].reports = log[q].reports
  BY <1>1
<1>3. Typed'
  <2>1. ASSUME NEW q \in Requests
        PROVE  log'[q] = [type |-> log'[q].type, order |-> log'[q].order,
                          outcome |-> log'[q].outcome, reports |-> log'[q].reports]
    <3>1. CASE q = r
      BY <3>1, <1>1
    <3>2. CASE q # r
      BY <3>2, <1>1 DEF IInv, Typed
    <3> QED
      BY <3>1, <3>2
  <2> QED
    BY <2>1, <1>1, <1>2 DEF IInv, Typed, Outcomes
<1>4. Queue'
  BY DEF IInv, Queue
<1>5. \A q \in Requests : InFlight(q)' <=> InFlight(q)
  BY DEF InFlight
<1>6. Reported'
  <2> SUFFICES ASSUME NEW q \in Requests PROVE
        /\ log'[q].outcome = "unsent" =>
             ~InFlight(q)' /\ log'[q].reports = <<>> /\ log'[q].type = "none"
        /\ InFlight(q)' => log'[q].reports = Handed(log'[q].type)
        /\ log'[q].outcome # "unsent" /\ ~InFlight(q)' =>
             \E a \in Answers :
                 /\ log'[q].reports = Append(Handed(log'[q].type), FinalReport(log'[q].type, a))
                 /\ Tells(a, log'[q].outcome)
    BY DEF Reported
  <2>1. CASE q = r
    <3>1. log'[r].outcome # "unsent"
      BY <1>1
    <3>2. InFlight(r) => log'[r].reports = Handed(log'[r].type)
      BY <1>2 DEF IInv, Reported
    <3>3. ASSUME ~InFlight(r)
          PROVE  \E a \in Answers :
                   /\ log'[r].reports = Append(Handed(log'[r].type), FinalReport(log'[r].type, a))
                   /\ Tells(a, log'[r].outcome)
      <4>1. PICK a \in Answers :
              /\ log[r].reports = Append(Handed(log[r].type), FinalReport(log[r].type, a))
              /\ Tells(a, log[r].outcome)
        BY <3>3 DEF IInv, Reported
      <4>2. Tells(a, log'[r].outcome)
        BY <4>1 DEF Tells
      <4> QED
        BY <4>1, <4>2, <1>2
    <3> QED
      BY <2>1, <3>1, <3>2, <3>3, <1>5
  <2>2. CASE q # r
    BY <2>2, <1>1, <1>5 DEF IInv, Reported
  <2> QED
    BY <2>1, <2>2
<1>7. Placing'
  BY <1>2 DEF IInv, Placing
<1> QED
  BY <1>1, <1>2, <1>3, <1>4, <1>6, <1>7

\* Running a request keeps the invariant.
LEMMA ExecuteStep ==
    ASSUME IInv, NEW r \in Requests, Execute(r)
    PROVE  IInv'
<1>1. log[r].outcome = "sent" /\ log' = [log EXCEPT ![r].outcome = "done"]
      /\ UNCHANGED <<ready, inflight>>
  BY DEF Execute
<1>2. CASE log[r].type = "create"
  <2>1. log[r].order \in Orders /\ exchange' = [exchange EXCEPT ![log[r].order] = "working"]
    BY <1>2 DEF Execute, IInv, Placing
  <2>2. exchange[log[r].order] = "none"
    BY <1>1, <1>2, <2>1 DEF IInv, Placing, Lives, Typed
  <2>3. exchange' \in [Orders -> {"none", "working", "canceling", "done"}]
    BY <2>1 DEF IInv, Typed
  <2>4. Typed' /\ Queue' /\ Reported' /\ Placing'
        /\ (\A q \in Requests : log'[q].type = log[q].type /\ log'[q].order = log[q].order)
        /\ log'[r].outcome = "done"
        /\ \A q \in Requests : q # r => log'[q].outcome = log[q].outcome
    BY <1>1, <2>3, OutcomeStep
  <2>5. \A q \in Requests : log'[q].outcome = "done" => q = r \/ log[q].outcome = "done"
    BY <2>4
  <2>6. \A q \in Requests :
          log'[q].type = "create" /\ log'[q].outcome = "done" => exchange'[log'[q].order] # "none"
    BY <1>2, <2>1, <2>2, <2>4, <2>5 DEF IInv, Lives, Typed, Placing
  <2>7. ASSUME NEW order \in Orders, exchange'[order] # "none"
        PROVE  \E q \in Requests :
                   log'[q].type = "create" /\ log'[q].order = order /\ log'[q].outcome = "done"
    BY <1>2, <2>1, <2>2, <2>4, <2>7, <1>1 DEF IInv, Lives, Typed, Placing
  <2>8. \A q \in Requests : log'[q].type = "cancel" /\ log'[q].outcome = "done" =>
          exchange'[log'[q].order] \in {"canceling", "done"}
    BY <1>2, <2>1, <2>2, <2>4, <2>5 DEF IInv, Lives, Typed, Placing
  <2>9. Lives'
    BY <2>6, <2>7, <2>8 DEF Lives
  <2> QED
    BY <2>4, <2>9 DEF IInv
<1>3. CASE log[r].type = "cancel"
  <2>1. /\ log[r].order \in Orders /\ exchange[log[r].order] = "working"
        /\ exchange' = [exchange EXCEPT ![log[r].order] = "canceling"]
    BY <1>3 DEF Execute, IInv, Placing
  <2>3. exchange' \in [Orders -> {"none", "working", "canceling", "done"}]
    BY <2>1 DEF IInv, Typed
  <2>4. Typed' /\ Queue' /\ Reported' /\ Placing'
        /\ (\A q \in Requests : log'[q].type = log[q].type /\ log'[q].order = log[q].order)
        /\ log'[r].outcome = "done"
        /\ \A q \in Requests : q # r => log'[q].outcome = log[q].outcome
    BY <1>1, <2>3, OutcomeStep
  <2>5. \A q \in Requests : log'[q].outcome = "done" => q = r \/ log[q].outcome = "done"
    BY <2>4
  <2>6. \A q \in Requests :
          log'[q].type = "create" /\ log'[q].outcome = "done" => exchange'[log'[q].order] # "none"
    BY <1>3, <2>1, <2>4, <2>5 DEF IInv, Lives, Typed, Placing
  <2>7. ASSUME NEW order \in Orders, exchange'[order] # "none"
        PROVE  \E q \in Requests :
                   log'[q].type = "create" /\ log'[q].order = order /\ log'[q].outcome = "done"
    BY <1>3, <2>1, <2>4, <2>7, <1>1 DEF IInv, Lives, Typed, Placing
  <2>8. \A q \in Requests : log'[q].type = "cancel" /\ log'[q].outcome = "done" =>
          exchange'[log'[q].order] \in {"canceling", "done"}
    BY <1>3, <2>1, <2>4, <2>5 DEF IInv, Lives, Typed, Placing
  <2>9. Lives'
    BY <2>6, <2>7, <2>8 DEF Lives
  <2> QED
    BY <2>4, <2>9 DEF IInv
<1>4. CASE log[r].type = "cancel_all"
  <2>1. exchange' = [o \in Orders |-> IF exchange[o] = "working" THEN "canceling"
                                                                ELSE exchange[o]]
    BY <1>4 DEF Execute
  <2>3. exchange' \in [Orders -> {"none", "working", "canceling", "done"}]
    BY <2>1 DEF IInv, Typed
  <2>4. Typed' /\ Queue' /\ Reported' /\ Placing'
        /\ (\A q \in Requests : log'[q].type = log[q].type /\ log'[q].order = log[q].order)
        /\ log'[r].outcome = "done"
        /\ \A q \in Requests : q # r => log'[q].outcome = log[q].outcome
    BY <1>1, <2>3, OutcomeStep
  <2>5. \A q \in Requests : log'[q].outcome = "done" => q = r \/ log[q].outcome = "done"
    BY <2>4
  <2>6. \A q \in Requests :
          log'[q].type = "create" /\ log'[q].outcome = "done" => exchange'[log'[q].order] # "none"
    BY <1>4, <2>1, <2>4, <2>5 DEF IInv, Lives, Typed, Placing
  <2>7. ASSUME NEW order \in Orders, exchange'[order] # "none"
        PROVE  \E q \in Requests :
                   log'[q].type = "create" /\ log'[q].order = order /\ log'[q].outcome = "done"
    BY <1>4, <2>1, <2>4, <2>7, <1>1 DEF IInv, Lives, Typed, Placing
  <2>8. \A q \in Requests : log'[q].type = "cancel" /\ log'[q].outcome = "done" =>
          exchange'[log'[q].order] \in {"canceling", "done"}
    BY <1>4, <2>1, <2>4, <2>5 DEF IInv, Lives, Typed, Placing
  <2>9. Lives'
    BY <2>6, <2>7, <2>8 DEF Lives
  <2> QED
    BY <2>4, <2>9 DEF IInv
<1> QED
  BY <1>2, <1>3, <1>4 DEF Execute

\* Only the connection changes, or nothing at all.
LEMMA QuietStep ==
    ASSUME IInv, ready' \in BOOLEAN, UNCHANGED <<inflight, log, exchange>>
    PROVE  IInv'
<1>1. Typed'
  BY DEF IInv, Typed
<1>2. Queue' /\ \A r \in Requests : InFlight(r)' <=> InFlight(r)
  BY DEF IInv, Queue, InFlight
<1>3. Reported'
  BY <1>2 DEF IInv, Reported
<1>4. Placing' /\ Lives'
  BY DEF IInv, Placing, Lives
<1> QED
  BY <1>1, <1>2, <1>3, <1>4 DEF IInv

\* The steps of the system keep the invariant.
LEMMA Inductive == IInv /\ [Next]_vars => IInv'
<1> SUFFICES ASSUME IInv, [Next]_vars PROVE IInv'
  OBVIOUS
<1>1. ASSUME NEW r \in Requests, NEW order \in Orders, PlaceOrder(r, order) PROVE IInv'
  BY <1>1, SendStep DEF PlaceOrder, Handed, Types
<1>2. ASSUME NEW r \in Requests, NEW order \in Orders, CancelOrder(r, order) PROVE IInv'
  BY <1>2, SendStep DEF CancelOrder, Handed, Types
<1>3. ASSUME NEW r \in Requests, CancelAllOrders(r) PROVE IInv'
  BY <1>3, SendStep DEF CancelAllOrders, Handed, Types
<1>4. ASSUME NEW r \in Requests, Execute(r) PROVE IInv'
  BY <1>4, ExecuteStep
<1>5. ASSUME NEW r \in Requests, Refuse(r) PROVE IInv'
  <2>1. log[r].outcome = "sent" /\ log' = [log EXCEPT ![r].outcome = "refused"]
        /\ UNCHANGED <<ready, inflight, exchange>>
    BY <1>5 DEF Refuse
  <2>2. exchange' \in [Orders -> {"none", "working", "canceling", "done"}]
    BY <2>1 DEF IInv, Typed
  <2>3. Typed' /\ Queue' /\ Reported' /\ Placing'
        /\ (\A q \in Requests : log'[q].type = log[q].type /\ log'[q].order = log[q].order)
        /\ log'[r].outcome = "refused"
        /\ \A q \in Requests : q # r => log'[q].outcome = log[q].outcome
    BY <2>1, <2>2, OutcomeStep
  <2>4. Lives'
    BY <2>1, <2>3 DEF IInv, Lives
  <2> QED
    BY <2>3, <2>4 DEF IInv
<1>6. ASSUME NEW answer \in Answers, Answer(answer) PROVE IInv'
  BY <1>6, AnswerStep
<1>7. CASE Connected
  BY <1>7, QuietStep DEF Connected
<1>8. CASE Disconnected
  BY <1>8, QuietStep DEF Disconnected
<1>9. ASSUME NEW order \in Orders, Finish(order) PROVE IInv'
  <2>0. /\ UNCHANGED <<ready, inflight, log>>
        /\ exchange' = [exchange EXCEPT ![order] = "done"]
        /\ exchange[order] # "none"
    BY <1>9 DEF Finish
  <2>3. Queue' /\ Placing' /\ \A r \in Requests : InFlight(r)' <=> InFlight(r)
    BY <2>0 DEF IInv, Queue, InFlight, Placing
  <2>1. Typed' /\ Queue' /\ Reported' /\ Placing'
    BY <2>0, <2>3 DEF IInv, Typed, Reported
  <2>2. Lives'
    BY <2>0 DEF IInv, Typed, Placing, Lives
  <2> QED
    BY <2>1, <2>2 DEF IInv
<1>10. CASE UNCHANGED vars
  BY <1>10, QuietStep DEF vars, IInv, Typed
<1> QED
  BY <1>1, <1>2, <1>3, <1>4, <1>5, <1>6, <1>7, <1>8, <1>9, <1>10 DEF Next

\* The invariant holds of every behaviour.
LEMMA InvariantHolds == Spec => []IInv
<1>1. Init => IInv
  <2> SUFFICES ASSUME Init PROVE IInv
    OBVIOUS
  <2>1. /\ inflight = <<>> /\ DOMAIN log = Requests
        /\ \A r \in Requests : log[r] = Unsent
    BY DEF Init
  <2>2. Typed
    <3>1. \A r \in Requests : /\ log[r].type = "none" /\ log[r].outcome = "unsent"
                              /\ log[r].order = NoOrder /\ log[r].reports = <<>>
      BY <2>1 DEF Unsent
    <3>2. \A r \in Requests :
            log[r] = [type |-> log[r].type, order |-> log[r].order,
                      outcome |-> log[r].outcome, reports |-> log[r].reports]
      BY <2>1, <3>1 DEF Unsent
    <3>3. inflight \in Seq(Requests)
      BY <2>1
    <3> QED
      BY <2>1, <3>1, <3>2, <3>3 DEF Init, Typed, Types, Outcomes
  <2>3. Queue /\ \A r \in Requests : ~InFlight(r)
    BY <2>1 DEF Queue, InFlight
  <2>4. Reported
    BY <2>1, <2>3 DEF Unsent, Reported
  <2>5. Placing /\ Lives
    BY <2>1 DEF Init, Unsent, Placing, Lives
  <2> QED
    BY <2>2, <2>3, <2>4, <2>5 DEF IInv
<1> QED
  BY <1>1, Inductive, PTL DEF Spec

-------------------------------------------------------------------------------
(* What the invariant says of the reports                                   *)

\* An answer's report is well typed and final.
LEMMA FinalReportType ==
    ASSUME NEW type \in Types, NEW answer \in Answers
    PROVE  FinalReport(type, answer) \in ReportType
           /\ FinalReport(type, answer).status # "FORWARDED"
BY DEF FinalReport, CancelAllReport, OrderReport, Report, ReportType, Answers, Origin, Status

\* The reports of a request whose callback is still to come.
LEMMA ReportsBefore ==
    ASSUME IInv, NEW r \in Requests, log[r].outcome = "unsent" \/ InFlight(r)
    PROVE  log[r].reports = Handed(log[r].type)
BY DEF IInv, Reported, Handed

\* The reports of a request whose callback has run: the final one is the last.
LEMMA ReportsAfter ==
    ASSUME IInv, NEW r \in Requests, log[r].outcome # "unsent", ~InFlight(r)
    PROVE  \E answer \in Answers :
               /\ Tells(answer, log[r].outcome)
               /\ log[r].reports = Append(Handed(log[r].type), FinalReport(log[r].type, answer))
               /\ log[r].reports \in Seq(ReportType)
               /\ log[r].type = "cancel_all" =>
                    /\ DOMAIN log[r].reports = 1..2 /\ Len(log[r].reports) = 2
                    /\ log[r].reports[1] = Report("CANCEL_ALL_ORDERS", "GATEWAY", "FORWARDED")
                    /\ log[r].reports[2] = CancelAllReport(answer)
               /\ log[r].type # "cancel_all" =>
                    /\ DOMAIN log[r].reports = 1..1 /\ Len(log[r].reports) = 1
                    /\ log[r].reports[1] = OrderReport(answer)
<1>1. PICK answer \in Answers :
        /\ log[r].reports = Append(Handed(log[r].type), FinalReport(log[r].type, answer))
        /\ Tells(answer, log[r].outcome)
  BY DEF IInv, Reported
<1> DEFINE forwarded == Report("CANCEL_ALL_ORDERS", "GATEWAY", "FORWARDED")
           final == FinalReport(log[r].type, answer)
<1>2. final \in ReportType /\ forwarded \in ReportType
  BY FinalReportType DEF IInv, Typed, Report, ReportType
<1>3. CASE log[r].type = "cancel_all"
  <2>1. log[r].reports = Append(<<forwarded>>, final)
    BY <1>1, <1>3 DEF Handed
  <2>2. final = CancelAllReport(answer)
    BY <1>3 DEF FinalReport
  <2> HIDE DEF forwarded, final
  <2>3. <<forwarded>> \in Seq(ReportType) /\ Len(<<forwarded>>) = 1 /\ <<forwarded>>[1] = forwarded
    BY <1>2
  <2>4. /\ log[r].reports \in Seq(ReportType) /\ Len(log[r].reports) = 2
        /\ log[r].reports[1] = forwarded /\ log[r].reports[2] = final
    BY <1>2, <2>1, <2>3, AppendProperties
  <2> QED
    BY <1>1, <1>3, <2>2, <2>4 DEF forwarded
<1>4. CASE log[r].type # "cancel_all"
  <2>1. log[r].reports = Append(<<>>, final)
    BY <1>1, <1>4 DEF Handed
  <2>2. final = OrderReport(answer)
    BY <1>4 DEF FinalReport
  <2> HIDE DEF final
  <2>3. <<>> \in Seq(ReportType) /\ Len(<<>>) = 0
    OBVIOUS
  <2>4. /\ log[r].reports \in Seq(ReportType) /\ Len(log[r].reports) = 1
        /\ log[r].reports[1] = final
    BY <1>2, <2>1, <2>3, AppendProperties
  <2> QED
    BY <1>1, <1>4, <2>2, <2>4
<1> QED
  BY <1>3, <1>4

\* The types, the queue of callbacks and the bound on the reports.
THEOREM TypeCorrect == Spec => []TypeOK
<1>1. IInv => TypeOK
  <2> SUFFICES ASSUME IInv PROVE TypeOK
    OBVIOUS
  <2>1. ASSUME NEW r \in Requests
        PROVE  log[r].reports \in Seq(ReportType) /\ Len(log[r].reports) <= 2
    <3>1. CASE log[r].outcome = "unsent" \/ InFlight(r)
      <4> DEFINE forwarded == Report("CANCEL_ALL_ORDERS", "GATEWAY", "FORWARDED")
      <4>1. forwarded \in ReportType
        BY DEF Report, ReportType
      <4> HIDE DEF forwarded
      <4>2. log[r].reports = <<forwarded>> \/ log[r].reports = <<>>
        <5>1. log[r].reports = Handed(log[r].type)
          BY <3>1, ReportsBefore
        <5> QED
          BY <5>1 DEF Handed, forwarded
      <4>3. <<forwarded>> \in Seq(ReportType) /\ Len(<<forwarded>>) = 1
        BY <4>1
      <4>4. <<>> \in Seq(ReportType) /\ Len(<<>>) = 0
        OBVIOUS
      <4>5. CASE log[r].reports = <<forwarded>>
        BY <4>3, <4>5
      <4>6. CASE log[r].reports = <<>>
        BY <4>4, <4>6
      <4> QED
        BY <4>2, <4>5, <4>6
    <3>2. CASE log[r].outcome # "unsent" /\ ~InFlight(r)
      BY <3>2, ReportsAfter
    <3> QED
      BY <3>1, <3>2
  <2>2. ASSUME NEW r \in Requests PROVE log[r] \in RequestType
    BY <2>1 DEF IInv, Typed, RequestType
  <2>3. log \in [Requests -> RequestType]
    <3>1. log = [r \in Requests |-> log[r]]
      BY DEF IInv, Typed
    <3> QED
      BY <2>2, <3>1
  <2> QED
    BY <2>1, <2>3 DEF IInv, Typed, Queue, TypeOK
<1> QED
  BY <1>1, InvariantHolds, PTL

\* Every request has its one final report, once its callback has run.
THEOREM AnsweredOnce == Spec => []EveryRequestIsAnsweredOnce
<1>1. IInv => EveryRequestIsAnsweredOnce
  <2> SUFFICES ASSUME IInv, NEW r \in Requests
               PROVE  IF log[r].outcome = "unsent" \/ InFlight(r)
                      THEN Finals(log[r].reports) = {}
                      ELSE \E last \in DOMAIN log[r].reports : Finals(log[r].reports) = {last}
    BY DEF EveryRequestIsAnsweredOnce, InFlight
  <2>1. CASE log[r].outcome = "unsent" \/ InFlight(r)
    <3>1. log[r].reports = Handed(log[r].type)
      BY <2>1, ReportsBefore
    <3>2. \A i \in DOMAIN Handed(log[r].type) : Handed(log[r].type)[i].status = "FORWARDED"
      BY DEF Handed, Report
    <3> QED
      BY <2>1, <3>1, <3>2 DEF Finals
  <2>2. CASE ~(log[r].outcome = "unsent" \/ InFlight(r))
    <3>1. PICK answer \in Answers :
            /\ log[r].type = "cancel_all" =>
                 /\ DOMAIN log[r].reports = 1..2
                 /\ log[r].reports[1] = Report("CANCEL_ALL_ORDERS", "GATEWAY", "FORWARDED")
                 /\ log[r].reports[2] = CancelAllReport(answer)
            /\ log[r].type # "cancel_all" =>
                 /\ DOMAIN log[r].reports = 1..1
                 /\ log[r].reports[1] = OrderReport(answer)
      BY <2>2, ReportsAfter
    <3>2. CancelAllReport(answer).status # "FORWARDED" /\ OrderReport(answer).status # "FORWARDED"
      BY DEF CancelAllReport, OrderReport, Report, Status, Answers
    <3>3. CASE log[r].type = "cancel_all"
      <4>1. log[r].reports[1].status = "FORWARDED"
        BY <3>1, <3>3 DEF Report
      <4>2. Finals(log[r].reports) = {2}
        BY <3>1, <3>2, <3>3, <4>1 DEF Finals
      <4> QED
        BY <2>2, <3>1, <3>3, <4>2
    <3>4. CASE log[r].type # "cancel_all"
      <4>1. Finals(log[r].reports) = {1}
        BY <3>1, <3>2, <3>4 DEF Finals
      <4> QED
        BY <2>2, <3>1, <3>4, <4>1
    <3> QED
      BY <3>3, <3>4
  <2> QED
    BY <2>1, <2>2
<1> QED
  BY <1>1, InvariantHolds, PTL

\* A report of the exchange on an order comes from an answer to a creation or to a
\* cancellation.
LEMMA SaidOfOrder ==
    ASSUME IInv, NEW r \in Requests, NEW status, Says(r, "CREATE_ORDER", "EXCHANGE", status)
    PROVE  /\ log[r].type \in {"create", "cancel"}
           /\ log[r].order \in Orders
           /\ \E answer \in Answers :
                /\ Tells(answer, log[r].outcome)
                /\ answer # "network" /\ status = Status(answer)
<1> DEFINE said == Report("CREATE_ORDER", "EXCHANGE", status)
<1>1. PICK i \in DOMAIN log[r].reports : log[r].reports[i] = said
  BY DEF Says
<1>2. ~(log[r].outcome = "unsent" \/ InFlight(r))
  <2> SUFFICES ASSUME log[r].outcome = "unsent" \/ InFlight(r) PROVE FALSE
    OBVIOUS
  <2>1. log[r].reports = Handed(log[r].type)
    BY ReportsBefore
  <2>2. \A j \in DOMAIN Handed(log[r].type) : Handed(log[r].type)[j].as = "CANCEL_ALL_ORDERS"
    BY DEF Handed, Report
  <2> QED
    BY <1>1, <2>1, <2>2 DEF Report
<1>3. PICK answer \in Answers :
        /\ Tells(answer, log[r].outcome)
        /\ log[r].type = "cancel_all" =>
             /\ DOMAIN log[r].reports = 1..2
             /\ log[r].reports[1] = Report("CANCEL_ALL_ORDERS", "GATEWAY", "FORWARDED")
             /\ log[r].reports[2] = CancelAllReport(answer)
        /\ log[r].type # "cancel_all" =>
             /\ DOMAIN log[r].reports = 1..1
             /\ log[r].reports[1] = OrderReport(answer)
  BY <1>2, ReportsAfter
<1>4. log[r].type # "cancel_all"
  <2> SUFFICES ASSUME log[r].type = "cancel_all" PROVE FALSE
    OBVIOUS
  <2>1. i = 1 \/ i = 2
    BY <1>1, <1>3
  <2>2. log[r].reports[i].as = "CANCEL_ALL_ORDERS"
    BY <1>3, <2>1 DEF Report, CancelAllReport
  <2> QED
    BY <1>1, <2>2 DEF Report
<1>5. OrderReport(answer) = said
  BY <1>1, <1>3, <1>4
<1>6. Origin(answer) = "EXCHANGE" /\ Status(answer) = status
  BY <1>5 DEF OrderReport, Report
<1>7. log[r].type \in {"create", "cancel"} /\ log[r].order \in Orders
  BY <1>2, <1>4 DEF IInv, Typed, Types, Reported, Placing
<1> QED
  BY <1>3, <1>6, <1>7 DEF Origin

\* An order reported as accepted is one that the exchange has created.
THEOREM AcceptedReached == Spec => []AcceptedOrdersReachedTheExchange
<1>1. IInv => AcceptedOrdersReachedTheExchange
  <2> SUFFICES ASSUME IInv, NEW r \in Requests,
                      Says(r, "CREATE_ORDER", "EXCHANGE", "ACCEPTED")
               PROVE  exchange[log[r].order] # "none"
    BY DEF AcceptedOrdersReachedTheExchange
  <2>1. log[r].type \in {"create", "cancel"} /\ log[r].outcome = "done"
    BY SaidOfOrder DEF Tells, Status, Answers
  <2> QED
    BY <2>1 DEF IInv, Lives
<1> QED
  BY <1>1, InvariantHolds, PTL

\* A cancellation reported as accepted has taken hold.
THEOREM CancelsTookHold == Spec => []AcceptedCancelsTookHold
<1>1. IInv => AcceptedCancelsTookHold
  <2> SUFFICES ASSUME IInv, NEW r \in Requests, log[r].type = "cancel",
                      Says(r, "CREATE_ORDER", "EXCHANGE", "ACCEPTED")
               PROVE  exchange[log[r].order] \in {"canceling", "done"}
    BY DEF AcceptedCancelsTookHold
  <2>1. log[r].outcome = "done"
    BY SaidOfOrder DEF Tells, Status, Answers
  <2> QED
    BY <2>1 DEF IInv, Lives
<1> QED
  BY <1>1, InvariantHolds, PTL

\* An order reported as rejected never works, if a 5xx is final.
THEOREM RejectedNeverLive ==
    ASSUME ServerErrorsAreFinal
    PROVE  Spec => []RejectedOrdersNeverLive
<1>1. IInv => RejectedOrdersNeverLive
  <2> SUFFICES ASSUME IInv, NEW r \in Requests, log[r].type = "create",
                      Says(r, "CREATE_ORDER", "EXCHANGE", "REJECTED")
               PROVE  exchange[log[r].order] = "none"
    BY DEF RejectedOrdersNeverLive
  <2>1. log[r].order \in Orders /\ log[r].outcome = "refused"
    BY SaidOfOrder DEF Tells, Status, Answers
  <2> SUFFICES ASSUME exchange[log[r].order] # "none" PROVE FALSE
    OBVIOUS
  <2>2. PICK q \in Requests :
          log[q].type = "create" /\ log[q].order = log[r].order /\ log[q].outcome = "done"
    BY <2>1 DEF IInv, Lives
  <2>3. q = r
    BY <2>2 DEF IInv, Placing
  <2> QED
    BY <2>1, <2>2, <2>3
<1> QED
  BY <1>1, InvariantHolds, PTL
-------------------------------------------------------------------------------
(* What no step takes back.                                                 *)

\* A request with a final report has had its callback.
LEMMA FinalIsAnswered ==
    ASSUME IInv, NEW r \in Requests, Finals(log[r].reports) # {}
    PROVE  log[r].outcome # "unsent" /\ ~InFlight(r)
<1> SUFFICES ASSUME log[r].outcome = "unsent" \/ InFlight(r) PROVE FALSE
  OBVIOUS
<1>1. log[r].reports = Handed(log[r].type)
  BY ReportsBefore
<1>2. \A i \in DOMAIN Handed(log[r].type) : Handed(log[r].type)[i].status = "FORWARDED"
  BY DEF Handed, Report
<1> QED
  BY <1>1, <1>2 DEF Finals

\* What a client was told last of a request stands: no late or further answer, no other
\* request and no lost connection adds to it or takes it back.
THEOREM FinalReportsStand ==
    Spec => [][\A r \in Requests :
                  Finals(log[r].reports) # {} => log'[r].reports = log[r].reports]_vars
<1>1. IInv /\ [Next]_vars
      => [\A r \in Requests :
            Finals(log[r].reports) # {} => log'[r].reports = log[r].reports]_vars
  <2> SUFFICES ASSUME IInv, Next, NEW r \in Requests, Finals(log[r].reports) # {}
               PROVE  log'[r].reports = log[r].reports
    OBVIOUS
  <2>1. log[r].outcome # "unsent" /\ ~InFlight(r)
    BY FinalIsAnswered
  <2>2. ASSUME NEW q, NEW type, NEW order, NEW reports, Send(q, type, order, reports)
        PROVE  log'[r].reports = log[r].reports
    BY <2>1, <2>2 DEF Send, IInv, Typed
  <2>3. ASSUME NEW q \in Requests, Execute(q) \/ Refuse(q) PROVE log'[r].reports = log[r].reports
    <3>1. PICK outcome : log' = [log EXCEPT ![q].outcome = outcome]
      BY <2>3 DEF Execute, Refuse
    <3>2. log[q] = [type |-> log[q].type, order |-> log[q].order,
                    outcome |-> log[q].outcome, reports |-> log[q].reports]
      BY DEF IInv, Typed
    <3>3. [log[q] EXCEPT !.outcome = outcome] =
             [type |-> log[q].type, order |-> log[q].order,
              outcome |-> outcome, reports |-> log[q].reports]
      BY <3>2, WithOutcome
    <3> QED
      BY <3>1, <3>3 DEF IInv, Typed
  <2>4. ASSUME NEW answer \in Answers, Answer(answer) PROVE log'[r].reports = log[r].reports
    <3>1. Head(inflight) \in Requests /\ InFlight(Head(inflight))
      BY <2>4, Leaves DEF Answer, IInv, Typed
    <3>2. Head(inflight) # r
      BY <2>1, <3>1
    <3> QED
      BY <2>4, <3>2 DEF Answer, IInv, Typed
  <2>5. CASE Connected \/ Disconnected \/ \E order \in Orders : Finish(order)
    BY <2>5 DEF Connected, Disconnected, Finish
  <2> QED
    BY <2>2, <2>3, <2>4, <2>5 DEF Next, PlaceOrder, CancelOrder, CancelAllOrders
<1> QED
  BY <1>1, InvariantHolds, PTL DEF Spec
================================================================================
