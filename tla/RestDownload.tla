------------------------------ MODULE RestDownload ------------------------------
(***************************************************************************)
(* Rest: the download of reference data.  On each connection Rest asks the *)
(* exchange for the market status, the currencies and the symbols, one     *)
(* after the other, and is ready when the three have been handled.  A      *)
(* connection lost half-way leaves the download where it is; the next      *)
(* connection goes on from there under a new sequence number, so that      *)
(* answers to the requests of the old one are told apart.                  *)
(*                                                                         *)
(* core::Download2 and web::rest::Client are external: a request gets one  *)
(* callback, in the order of the requests; an answer needs a connection, a *)
(* failure (timeout, connection lost) may be reported at any time.         *)
(***************************************************************************)
EXTENDS Naturals, Sequences

CONSTANTS
    MaxInflight,   \* bound: requests whose callback is outstanding
    SequenceSize,  \* values of the sequence number (2^32 in the code)
    RetryRuns      \* Download2::retry asks again at once, or leaves it to Connected

ASSUME MaxInflightAssumption == MaxInflight \in Nat \ {0}
ASSUME SequenceAssumption == SequenceSize \in Nat /\ SequenceSize >= MaxInflight
ASSUME RetryAssumption == RetryRuns \in BOOLEAN

VARIABLES
    link,      \* the HTTP connection is up
    status,    \* connection_status_
    ready,     \* ready_
    state,     \* download_.state()
    sequence,  \* download_.sequence()
    inflight,  \* requests whose callback is outstanding, oldest first
    handled    \* history: the states whose data this pass has handled, in order

vars == <<link, status, ready, state, sequence, inflight, handled>>

\* enum State.
States == {"UNDEFINED", "MARKET_STATUS", "CURRENCIES", "SYMBOLS", "DONE"}

\* The order in which Download2 visits them.
Successor == [MARKET_STATUS |-> "CURRENCIES", CURRENCIES |-> "SYMBOLS", SYMBOLS |-> "DONE"]

Statuses == {"UNDEFINED", "DISCONNECTED", "DOWNLOADING", "READY"}

Requests == [state : DOMAIN Successor, sequence : 0..SequenceSize - 1]

downloading == state \in DOMAIN Successor

NextSequence == (sequence + 1) % SequenceSize

\* download(new): a state before DONE is asked for; DONE makes the stream ready.
\* `others` are the requests that stay outstanding.
Download(new, seq, others) ==
    /\ state' = new
    /\ IF new = "DONE"
       THEN /\ status' = "READY"
            /\ ready' = TRUE
            /\ inflight' = others
       ELSE /\ status' = "DOWNLOADING"
            /\ inflight' = Append(others, [state |-> new, sequence |-> seq])
            /\ UNCHANGED ready

\* A mutant of Skip: only the sequence is compared.
SkipOldSequence(request) == request.sequence # sequence

\* Download2::skip: the answer is to an old request, or the state is behind us.
Skip(request) == request.sequence # sequence \/ request.state # state

\* A mutant of Connected: the new sequence number is taken and nothing is asked.
ConnectedOnlyBumps ==
    /\ ~link
    /\ Len(inflight) < MaxInflight
    /\ link' = TRUE
    /\ sequence' = NextSequence
    /\ IF downloading
       THEN UNCHANGED <<state, status, ready, inflight, handled>>
       ELSE Download("MARKET_STATUS", NextSequence, inflight) /\ handled' = <<>>

\* A mutant of Connected: every connection begins the download anew.
ConnectedBegins ==
    /\ ~link
    /\ Len(inflight) < MaxInflight
    /\ link' = TRUE
    /\ sequence' = NextSequence
    /\ Download("MARKET_STATUS", NextSequence, inflight)
    /\ UNCHANGED handled

\* Connected: bump goes on with the state under a new sequence; begin starts a pass.
Connected ==
    /\ ~link
    /\ Len(inflight) < MaxInflight
    /\ link' = TRUE
    /\ sequence' = NextSequence
    /\ IF downloading
       THEN Download(state, NextSequence, inflight) /\ UNCHANGED handled
       ELSE Download("MARKET_STATUS", NextSequence, inflight) /\ handled' = <<>>

\* A mutant of Disconnected: the stream stays ready.
DisconnectedStaysReady ==
    /\ link
    /\ link' = FALSE
    /\ status' = "DISCONNECTED"
    /\ state' = IF downloading THEN state ELSE "UNDEFINED"
    /\ UNCHANGED <<ready, sequence, inflight, handled>>

\* Disconnected: a finished download is reset, an unfinished one is kept.
Disconnected ==
    /\ link
    /\ link' = FALSE
    /\ status' = "DISCONNECTED"
    /\ ready' = FALSE
    /\ state' = IF downloading THEN state ELSE "UNDEFINED"
    /\ UNCHANGED <<sequence, inflight, handled>>

\* A mutant of Retry: asks again while the callback of the first is still to come.
RetryKeeps(request) ==
    /\ IF RetryRuns /\ request.state = state
       THEN Download(state, sequence, inflight)
       ELSE inflight' = Tail(inflight) /\ UNCHANGED <<state, status, ready>>
    /\ UNCHANGED handled

\* handle_error: retry(STATE), whatever the sequence of the request that failed.
Retry(request) ==
    /\ IF RetryRuns /\ request.state = state
       THEN Download(state, sequence, Tail(inflight))
       ELSE inflight' = Tail(inflight) /\ UNCHANGED <<state, status, ready>>
    /\ UNCHANGED handled

\* A mutant of Failed: the failure is dropped and nothing is asked again.
FailedIsDropped ==
    /\ inflight # <<>>
    /\ inflight' = Tail(inflight)
    /\ UNCHANGED <<link, status, ready, state, sequence, handled>>

\* The request failed: no connection, a timeout, a 4xx or a 5xx.
Failed ==
    /\ inflight # <<>>
    /\ Retry(Head(inflight))
    /\ UNCHANGED <<link, sequence>>

\* A 2xx whose body reports an error or does not parse; an old one is skipped.
Rejected ==
    /\ link
    /\ inflight # <<>>
    /\ IF Skip(Head(inflight))
       THEN inflight' = Tail(inflight) /\ UNCHANGED <<state, status, ready, handled>>
       ELSE Retry(Head(inflight))
    /\ UNCHANGED <<link, sequence>>

\* A 2xx with the data: handled and checked, which moves the download on.
Accepted ==
    /\ link
    /\ inflight # <<>>
    /\ LET request == Head(inflight) IN
         IF Skip(request)
         THEN inflight' = Tail(inflight) /\ UNCHANGED <<state, status, ready, handled>>
         ELSE /\ handled' = Append(handled, request.state)
              /\ Download(Successor[request.state], sequence, Tail(inflight))
    /\ UNCHANGED <<link, sequence>>

Init ==
    /\ link = FALSE
    /\ status = "UNDEFINED"
    /\ ready = FALSE
    /\ state = "UNDEFINED"
    /\ sequence = 0
    /\ inflight = <<>>
    /\ handled = <<>>

Next == Connected \/ Disconnected \/ Failed \/ Rejected \/ Accepted

Spec == Init /\ [][Next]_vars

\* Every request gets its callback, and the exchange does not refuse for ever.
FairSpec ==
    /\ Spec
    /\ WF_vars(Failed \/ Rejected \/ Accepted)
    /\ SF_vars(Accepted)

-------------------------------------------------------------------------------
(* Properties                                                               *)

\* The type invariant of the module; inflight respects its bound.
TypeOK ==
    /\ link \in BOOLEAN
    /\ status \in Statuses
    /\ ready \in BOOLEAN
    /\ state \in States
    /\ sequence \in 0..SequenceSize - 1
    /\ inflight \in Seq(Requests)
    /\ Len(inflight) <= MaxInflight
    /\ handled \in Seq(DOMAIN Successor)

\* The stream is ready exactly when the download is done, which takes a connection;
\* so the assert(!ready_) of download(DONE) holds.
ReadyMeansDone ==
    /\ ready <=> state = "DONE"
    /\ ready <=> status = "READY"
    /\ ready => link

\* What a pass has handled is what comes before its state, each once and in order,
\* over lost connections, retries and the answers to the requests of old connections.
EachStateIsHandledOnce ==
    state # "UNDEFINED" =>
        handled = [MARKET_STATUS |-> <<>>,
                   CURRENCIES    |-> <<"MARKET_STATUS">>,
                   SYMBOLS       |-> <<"MARKET_STATUS", "CURRENCIES">>,
                   DONE          |-> <<"MARKET_STATUS", "CURRENCIES", "SYMBOLS">>][state]

\* With retries that run, an unfinished download always has a request outstanding
\* whose answer moves it on, even while answers to old requests arrive before it.
DownloadIsWaitedFor ==
    RetryRuns /\ downloading =>
        \E i \in DOMAIN inflight : ~Skip(inflight[i])

\* A connection leads to a ready stream, or is lost.
ConnectionGetsReady == link ~> (status = "READY" \/ ~link)
================================================================================
