-------------------------- MODULE RestDownload_proofs --------------------------
(* What the reference data download promises for every bound on the requests  *)
(* outstanding, every range of the sequence number and both kinds of retry.   *)
EXTENDS RestDownload, SequenceTheorems, TLAPS

\* Appending to short tuples, which the provers do not evaluate by themselves.
LEMMA AppendToTuples ==
    ASSUME NEW S, NEW a \in S, NEW b \in S, NEW c \in S
    PROVE  Append(<<a>>, b) = <<a, b>> /\ Append(<<a, b>>, c) = <<a, b, c>>
<1>1. Append(<<a>>, b) \in Seq(S) /\ <<a, b>> \in Seq(S) /\ Len(Append(<<a>>, b)) = 2
  BY AppendProperties
<1>2. \A i \in 1..2 : Append(<<a>>, b)[i] = <<a, b>>[i]
  BY AppendProperties
<1>3. Append(<<a, b>>, c) \in Seq(S) /\ <<a, b, c>> \in Seq(S) /\ Len(Append(<<a, b>>, c)) = 3
  BY AppendProperties
<1>4. \A i \in 1..3 : Append(<<a, b>>, c)[i] = <<a, b, c>>[i]
  BY AppendProperties
<1> QED
  BY <1>1, <1>2, <1>3, <1>4, SeqEqual

\* What handling the second and the third state makes of the history.
LEMMA HandledGrows ==
    /\ Append(<<"MARKET_STATUS">>, "CURRENCIES") = <<"MARKET_STATUS", "CURRENCIES">>
    /\ Append(<<"MARKET_STATUS", "CURRENCIES">>, "SYMBOLS")
           = <<"MARKET_STATUS", "CURRENCIES", "SYMBOLS">>
<1> DEFINE S == {"MARKET_STATUS", "CURRENCIES", "SYMBOLS"}
<1>1. "MARKET_STATUS" \in S /\ "CURRENCIES" \in S /\ "SYMBOLS" \in S
  OBVIOUS
<1> HIDE DEF S
<1> QED
  BY <1>1, AppendToTuples

\* A request made by download() keeps the outstanding requests well typed.
LEMMA DownloadTypes ==
    ASSUME TypeOK,
           NEW new \in States \ {"UNDEFINED"}, NEW seq \in 0..SequenceSize - 1,
           NEW others \in Seq(Requests), Len(others) < MaxInflight,
           Download(new, seq, others)
    PROVE  /\ status' \in Statuses /\ ready' \in BOOLEAN /\ state' \in States
           /\ inflight' \in Seq(Requests) /\ Len(inflight') <= MaxInflight
<1> DEFINE request == [state |-> new, sequence |-> seq]
<1> USE DEF TypeOK
<1>0. MaxInflight \in Nat
  BY MaxInflightAssumption
<1>1. CASE new = "DONE"
  BY <1>0, <1>1 DEF Download, Statuses, States
<1>2. CASE new # "DONE"
  <2>1. request \in Requests
    BY <1>2 DEF Requests, States, Successor
  <2>2. Append(others, request) \in Seq(Requests) /\ Len(Append(others, request)) = Len(others) + 1
    BY <2>1, AppendProperties
  <2>3. inflight' = Append(others, request) /\ status' = "DOWNLOADING"
        /\ ready' = ready /\ state' = new
    BY <1>2 DEF Download
  <2> QED
    BY <1>0, <2>2, <2>3 DEF Statuses, States
<1> QED
  BY <1>1, <1>2

\* The oldest request answered: the others are well typed and within the bound.
LEMMA OthersType ==
    ASSUME TypeOK, inflight # <<>>
    PROVE  /\ Head(inflight) \in Requests
           /\ Tail(inflight) \in Seq(Requests) /\ Len(Tail(inflight)) < MaxInflight
BY HeadTailProperties, MaxInflightAssumption DEF TypeOK

\* A retry keeps the types.
LEMMA RetryTypes ==
    ASSUME TypeOK, inflight # <<>>, Retry(Head(inflight)), UNCHANGED <<link, sequence>>
    PROVE  TypeOK'
<1>1. CASE RetryRuns /\ Head(inflight).state = state
  <2>1. state \in States \ {"UNDEFINED"} /\ sequence \in 0..SequenceSize - 1
    BY <1>1, OthersType DEF Requests, Successor, States, TypeOK
  <2>2. Download(state, sequence, Tail(inflight)) /\ UNCHANGED handled
    BY <1>1 DEF Retry
  <2> QED
    BY <2>1, <2>2, OthersType, DownloadTypes DEF TypeOK
<1>2. CASE ~(RetryRuns /\ Head(inflight).state = state)
  <2>1. /\ inflight' = Tail(inflight)
        /\ UNCHANGED <<link, status, ready, state, sequence, handled>>
    BY <1>2 DEF Retry
  <2>2. inflight' \in Seq(Requests) /\ Len(inflight') <= MaxInflight
    BY <2>1, OthersType, MaxInflightAssumption
  <2> QED
    BY <2>1, <2>2 DEF TypeOK
<1> QED
  BY <1>1, <1>2

\* Every variable keeps its type and the outstanding requests their bound.
THEOREM TypeCorrect == Spec => []TypeOK
<1>1. Init => TypeOK
  <2> SUFFICES ASSUME Init PROVE TypeOK
    OBVIOUS
  <2>1. MaxInflight \in Nat \ {0} /\ 0 \in 0..SequenceSize - 1
    BY MaxInflightAssumption, SequenceAssumption
  <2>2. inflight \in Seq(Requests) /\ Len(inflight) = 0 /\ handled \in Seq(DOMAIN Successor)
    BY DEF Init
  <2>3. link \in BOOLEAN /\ status \in Statuses /\ ready \in BOOLEAN /\ state \in States
    BY DEF Init, Statuses, States
  <2> QED
    BY <2>1, <2>2, <2>3 DEF Init, TypeOK
<1>2. TypeOK /\ [Next]_vars => TypeOK'
  <2> SUFFICES ASSUME TypeOK, [Next]_vars PROVE TypeOK'
    OBVIOUS
  <2>1. CASE Connected
    <3>1. NextSequence \in 0..SequenceSize - 1
      BY SequenceAssumption, MaxInflightAssumption DEF TypeOK, NextSequence
    <3>2. CASE downloading
      <4>1. Download(state, NextSequence, inflight) /\ UNCHANGED handled
        BY <2>1, <3>2 DEF Connected
      <4>2. state \in States \ {"UNDEFINED"}
        BY <3>2 DEF downloading, Successor, States
      <4> QED
        BY <2>1, <3>1, <4>1, <4>2, DownloadTypes DEF Connected, TypeOK
    <3>3. CASE ~downloading
      <4>1. Download("MARKET_STATUS", NextSequence, inflight) /\ handled' = <<>>
        BY <2>1, <3>3 DEF Connected
      <4> QED
        BY <2>1, <3>1, <4>1, DownloadTypes DEF Connected, TypeOK, States
    <3> QED
      BY <3>2, <3>3
  <2>2. CASE Disconnected
    BY <2>2 DEF Disconnected, TypeOK, Statuses, States
  <2>3. CASE Failed
    BY <2>3, RetryTypes DEF Failed
  <2>4. CASE Rejected
    <3>1. CASE Skip(Head(inflight))
      BY <2>4, <3>1, OthersType, MaxInflightAssumption DEF Rejected, TypeOK
    <3>2. CASE ~Skip(Head(inflight))
      BY <2>4, <3>2, RetryTypes DEF Rejected
    <3> QED
      BY <3>1, <3>2
  <2>5. CASE Accepted
    <3>1. CASE Skip(Head(inflight))
      BY <2>5, <3>1, OthersType, MaxInflightAssumption DEF Accepted, TypeOK
    <3>2. CASE ~Skip(Head(inflight))
      <4> DEFINE request == Head(inflight)
      <4>1. request \in Requests /\ request.state \in DOMAIN Successor
        BY <2>5, OthersType DEF Accepted, Requests
      <4>2. Successor[request.state] \in States \ {"UNDEFINED"}
        BY <4>1 DEF Successor, States
      <4>3. /\ handled' = Append(handled, request.state)
            /\ Download(Successor[request.state], sequence, Tail(inflight))
        BY <2>5, <3>2 DEF Accepted
      <4>4. handled' \in Seq(DOMAIN Successor)
        BY <4>1, <4>3, AppendProperties DEF TypeOK
      <4> QED
        BY <2>5, <4>2, <4>3, <4>4, OthersType, DownloadTypes DEF Accepted, TypeOK
    <3> QED
      BY <3>1, <3>2
  <2>6. CASE UNCHANGED vars
    BY <2>6 DEF vars, TypeOK
  <2> QED
    BY <2>1, <2>2, <2>3, <2>4, <2>5, <2>6 DEF Next
<1> QED
  BY <1>1, <1>2, PTL DEF Spec

\* A retry leaves an unfinished download unfinished and a finished one finished.
LEMMA RetryIsQuiet ==
    ASSUME TypeOK, ReadyMeansDone, inflight # <<>>, Retry(Head(inflight)), UNCHANGED link
    PROVE  ReadyMeansDone' /\ UNCHANGED <<state, handled>>
<1>1. Head(inflight).state \in DOMAIN Successor
  BY OthersType DEF Requests
<1> QED
  BY <1>1 DEF Retry, Download, ReadyMeansDone, TypeOK, Successor

\* The stream is ready exactly when its download is done and its connection is up:
\* download(DONE) never finds ready_ set.
THEOREM ReadyIsDone == Spec => []ReadyMeansDone
<1>1. Init => ReadyMeansDone
  BY DEF Init, ReadyMeansDone
<1>2. TypeOK /\ ReadyMeansDone /\ [Next]_vars => ReadyMeansDone'
  <2> SUFFICES ASSUME TypeOK, ReadyMeansDone, [Next]_vars PROVE ReadyMeansDone'
    OBVIOUS
  <2>1. CASE Connected
    BY <2>1 DEF Connected, Download, downloading, Successor, ReadyMeansDone, TypeOK
  <2>2. CASE Disconnected
    BY <2>2 DEF Disconnected, downloading, Successor, ReadyMeansDone, TypeOK
  <2>3. CASE Failed
    BY <2>3, RetryIsQuiet DEF Failed
  <2>4. CASE Rejected
    BY <2>4, RetryIsQuiet DEF Rejected, ReadyMeansDone
  <2>5. CASE Accepted
    <3>1. CASE Skip(Head(inflight))
      BY <2>5, <3>1 DEF Accepted, ReadyMeansDone
    <3>2. CASE ~Skip(Head(inflight))
      <4>1. state \in DOMAIN Successor
        BY <2>5, <3>2, OthersType DEF Accepted, Skip, Requests
      <4> QED
        BY <2>5, <3>2, <4>1 DEF Accepted, Skip, Download, Successor, ReadyMeansDone, TypeOK
    <3> QED
      BY <3>1, <3>2
  <2>6. CASE UNCHANGED vars
    BY <2>6 DEF vars, ReadyMeansDone
  <2> QED
    BY <2>1, <2>2, <2>3, <2>4, <2>5, <2>6 DEF Next
<1> QED
  BY <1>1, <1>2, TypeCorrect, PTL DEF Spec

\* Each state's data is handled once per pass and in order: an answer is handled only
\* in the state it is for, and that state is left at once.
THEOREM HandledOnce == Spec => []EachStateIsHandledOnce
<1>1. Init => EachStateIsHandledOnce
  BY DEF Init, EachStateIsHandledOnce
<1>2. TypeOK /\ ReadyMeansDone /\ EachStateIsHandledOnce /\ [Next]_vars
        => EachStateIsHandledOnce'
  <2> SUFFICES ASSUME TypeOK, ReadyMeansDone, EachStateIsHandledOnce, [Next]_vars
               PROVE  EachStateIsHandledOnce'
    OBVIOUS
  <2>1. CASE Connected
    BY <2>1 DEF Connected, Download, EachStateIsHandledOnce
  <2>2. CASE Disconnected
    BY <2>2 DEF Disconnected, EachStateIsHandledOnce
  <2>3. CASE Failed
    BY <2>3, RetryIsQuiet DEF Failed, EachStateIsHandledOnce
  <2>4. CASE Rejected
    BY <2>4, RetryIsQuiet DEF Rejected, EachStateIsHandledOnce
  <2>5. CASE Accepted
    <3>1. CASE Skip(Head(inflight))
      BY <2>5, <3>1 DEF Accepted, EachStateIsHandledOnce
    <3>2. CASE ~Skip(Head(inflight))
      <4>1. state \in DOMAIN Successor
        BY <2>5, <3>2, OthersType DEF Accepted, Skip, Requests
      <4>2. handled' = Append(handled, state) /\ state' = Successor[state]
        BY <2>5, <3>2 DEF Accepted, Skip, Download
      <4>3. CASE state = "MARKET_STATUS"
        BY <4>2, <4>3 DEF Successor, EachStateIsHandledOnce
      <4>4. CASE state = "CURRENCIES"
        <5>1. handled = <<"MARKET_STATUS">> /\ state' = "SYMBOLS"
          BY <4>2, <4>4 DEF Successor, EachStateIsHandledOnce
        <5>2. handled' = <<"MARKET_STATUS", "CURRENCIES">>
          BY <4>2, <4>4, <5>1, HandledGrows
        <5> QED
          BY <5>1, <5>2 DEF EachStateIsHandledOnce
      <4>5. CASE state = "SYMBOLS"
        <5>1. handled = <<"MARKET_STATUS", "CURRENCIES">> /\ state' = "DONE"
          BY <4>2, <4>5 DEF Successor, EachStateIsHandledOnce
        <5>2. handled' = <<"MARKET_STATUS", "CURRENCIES", "SYMBOLS">>
          BY <4>2, <4>5, <5>1, HandledGrows
        <5> QED
          BY <5>1, <5>2 DEF EachStateIsHandledOnce
      <4> QED
        BY <4>1, <4>3, <4>4, <4>5 DEF Successor
    <3> QED
      BY <3>1, <3>2
  <2>6. CASE UNCHANGED vars
    BY <2>6 DEF vars, EachStateIsHandledOnce
  <2> QED
    BY <2>1, <2>2, <2>3, <2>4, <2>5, <2>6 DEF Next
<1> QED
  BY <1>1, <1>2, TypeCorrect, ReadyIsDone, PTL DEF Spec

\* A download that asks leaves a request outstanding that is not skipped.
LEMMA AskedIsWaitedFor ==
    ASSUME TypeOK, NEW new, NEW seq, NEW others \in Seq(Requests),
           seq \in 0..SequenceSize - 1, new \in States \ {"UNDEFINED"},
           Download(new, seq, others), sequence' = seq
    PROVE  DownloadIsWaitedFor'
<1>1. CASE new = "DONE"
  BY <1>1 DEF Download, DownloadIsWaitedFor, downloading, Successor
<1>2. CASE new # "DONE"
  <2> DEFINE request == [state |-> new, sequence |-> seq]
             last == Len(others) + 1
  <2>1. request \in Requests
    BY <1>2 DEF Requests, States, Successor
  <2>2. inflight' = Append(others, request) /\ state' = new
    BY <1>2 DEF Download
  <2>3. last \in DOMAIN inflight' /\ inflight'[last] = request
    BY <2>1, <2>2, AppendProperties
  <2>4. inflight'[last].state = state' /\ inflight'[last].sequence = sequence'
    BY <2>2, <2>3
  <2> QED
    BY <2>3, <2>4 DEF DownloadIsWaitedFor, Skip
<1> QED
  BY <1>1, <1>2

\* Dropping the oldest request loses nothing if it would have been skipped.
LEMMA SkippedIsNotMissed ==
    ASSUME TypeOK, DownloadIsWaitedFor, inflight # <<>>, Skip(Head(inflight)),
           inflight' = Tail(inflight), UNCHANGED <<state, sequence>>
    PROVE  DownloadIsWaitedFor'
<1> SUFFICES ASSUME RetryRuns, downloading
             PROVE  \E i \in DOMAIN inflight' : ~Skip(inflight[i])'
  BY DEF DownloadIsWaitedFor, downloading
<1>1. PICK i \in DOMAIN inflight : ~Skip(inflight[i])
  BY DEF DownloadIsWaitedFor
<1>2. i # 1
  BY <1>1 DEF TypeOK
<1>3. i \in 2..Len(inflight)
  BY <1>1, <1>2 DEF TypeOK
<1>4. /\ i - 1 \in DOMAIN inflight'
      /\ inflight'[i - 1] = inflight[i]
  BY <1>3, HeadTailProperties DEF TypeOK
<1> QED
  BY <1>1, <1>4 DEF Skip

\* A retry that does not run is of an answer that would have been skipped, or of a
\* download that does not retry.
LEMMA RetryIsWaitedFor ==
    ASSUME TypeOK, DownloadIsWaitedFor, inflight # <<>>, Retry(Head(inflight)),
           UNCHANGED sequence
    PROVE  DownloadIsWaitedFor'
<1>1. CASE RetryRuns /\ Head(inflight).state = state
  <2>1. state \in States \ {"UNDEFINED"} /\ sequence \in 0..SequenceSize - 1
    BY <1>1, OthersType DEF Requests, Successor, States, TypeOK
  <2> QED
    BY <1>1, <2>1, OthersType, AskedIsWaitedFor DEF Retry
<1>2. CASE Head(inflight).state # state
  BY <1>2, SkippedIsNotMissed DEF Retry, Skip
<1>3. CASE ~RetryRuns
  BY <1>3 DEF DownloadIsWaitedFor
<1> QED
  BY <1>1, <1>2, <1>3

\* With retries that run, an unfinished download always has a request outstanding
\* whose answer moves it on: it never waits for nothing.
THEOREM WaitedFor == Spec => []DownloadIsWaitedFor
<1>1. Init => DownloadIsWaitedFor
  BY DEF Init, DownloadIsWaitedFor, downloading, Successor
<1>2. TypeOK /\ DownloadIsWaitedFor /\ [Next]_vars => DownloadIsWaitedFor'
  <2> SUFFICES ASSUME TypeOK, DownloadIsWaitedFor, [Next]_vars
               PROVE  DownloadIsWaitedFor'
    OBVIOUS
  <2>1. CASE Connected
    <3>1. NextSequence \in 0..SequenceSize - 1 /\ inflight \in Seq(Requests)
      BY SequenceAssumption, MaxInflightAssumption DEF TypeOK, NextSequence
    <3>2. CASE downloading
      <4>1. state \in States \ {"UNDEFINED"}
        BY <3>2 DEF downloading, Successor, States
      <4> QED
        BY <2>1, <3>1, <3>2, <4>1, AskedIsWaitedFor DEF Connected
    <3>3. CASE ~downloading
      <4>1. "MARKET_STATUS" \in States \ {"UNDEFINED"}
        BY DEF States
      <4> QED
        BY <2>1, <3>1, <3>3, <4>1, AskedIsWaitedFor DEF Connected
    <3> QED
      BY <3>2, <3>3
  <2>2. CASE Disconnected
    BY <2>2 DEF Disconnected, DownloadIsWaitedFor, downloading, Successor, Skip
  <2>3. CASE Failed
    BY <2>3, RetryIsWaitedFor DEF Failed
  <2>4. CASE Rejected
    BY <2>4, RetryIsWaitedFor, SkippedIsNotMissed DEF Rejected
  <2>5. CASE Accepted
    <3>1. CASE Skip(Head(inflight))
      BY <2>5, <3>1, SkippedIsNotMissed DEF Accepted
    <3>2. CASE ~Skip(Head(inflight))
      <4> DEFINE new == Successor[Head(inflight).state]
      <4>1. new \in States \ {"UNDEFINED"}
        BY <2>5, OthersType DEF Accepted, Requests, Successor, States
      <4>2. Download(new, sequence, Tail(inflight)) /\ sequence' = sequence
        BY <2>5, <3>2 DEF Accepted
      <4> QED
        BY <2>5, <4>1, <4>2, OthersType, AskedIsWaitedFor DEF Accepted, TypeOK
    <3> QED
      BY <3>1, <3>2
  <2>6. CASE UNCHANGED vars
    BY <2>6 DEF vars, DownloadIsWaitedFor, downloading, Skip
  <2> QED
    BY <2>1, <2>2, <2>3, <2>4, <2>5, <2>6 DEF Next
<1> QED
  BY <1>1, <1>2, TypeCorrect, PTL DEF Spec
\* READY is given up with the connection and for nothing else: answers to the requests of
\* earlier connections, failures among them, start nothing over.
THEOREM ReadyIsKept == Spec => [][status = "READY" => status' \in {"READY", "DISCONNECTED"}]_vars
<1>1. TypeOK /\ ReadyMeansDone /\ [Next]_vars
      => [status = "READY" => status' \in {"READY", "DISCONNECTED"}]_vars
  <2> SUFFICES ASSUME TypeOK, ReadyMeansDone, Next, status = "READY"
               PROVE  status' \in {"READY", "DISCONNECTED"}
    OBVIOUS
  <2>1. state = "DONE" /\ link
    BY DEF ReadyMeansDone
  <2>2. CASE Connected \/ Disconnected
    BY <2>1, <2>2 DEF Connected, Disconnected
  <2>3. CASE Failed \/ Rejected \/ Accepted
    <3>1. inflight # <<>> /\ Head(inflight).state # state
      BY <2>1, <2>3, OthersType DEF Failed, Rejected, Accepted, Requests, Successor
    <3>2. UNCHANGED status
      BY <2>3, <3>1 DEF Failed, Rejected, Accepted, Retry, Skip
    <3> QED
      BY <3>2
  <2> QED
    BY <2>2, <2>3 DEF Next
<1> QED
  BY <1>1, TypeCorrect, ReadyIsDone, PTL DEF Spec
================================================================================
