---------------------------- MODULE AccountSession ----------------------------
(***************************************************************************)
(* What the private websocket of an account promises to those who follow   *)
(* its status: a session is accepted once, channels are subscribed and     *)
(* queries settled only after that, a query never before its channel,      *)
(* READY only when all of them are, and READY is left in no other way than *)
(* by losing the session with everything it had.  A query is settled by    *)
(* its answer, whether that is a snapshot or an error.                     *)
(***************************************************************************)
CONSTANTS
    Channels,   \* the private channels
    Queries,    \* the queries that complement channels
    ChannelFor  \* the channel that each of them complements

VARIABLES
    status,      \* the connection status that is published
    accepted,    \* has the login been accepted?
    subscribed,  \* channels that were replied to
    settled      \* queries whose last answer is to one no older than its channel

vars == <<status, accepted, subscribed, settled>>

Complete == accepted /\ subscribed = Channels /\ settled = Queries

Init ==
    /\ status = "DISCONNECTED"
    /\ accepted = FALSE /\ subscribed = {} /\ settled = {}

Login ==
    /\ status = "DISCONNECTED"
    /\ status' = "LOGIN_SENT"
    /\ UNCHANGED <<accepted, subscribed, settled>>

\* The status of a session that is not READY goes on; READY needs all the rest.
Proceed ==
    /\ status \in {"LOGIN_SENT", "DOWNLOADING"}
    /\ status' \in {"LOGIN_SENT", "DOWNLOADING", "READY"}
    /\ status' = "LOGIN_SENT" => status = "LOGIN_SENT"
    /\ status' = "READY" => Complete'

Accept ==
    /\ ~accepted
    /\ accepted' = TRUE
    /\ Proceed
    /\ UNCHANGED <<subscribed, settled>>

Acknowledge(channel) ==
    /\ accepted /\ channel \notin subscribed
    /\ subscribed' = subscribed \cup {channel}
    /\ Proceed
    /\ UNCHANGED <<accepted, settled>>

\* An answer to a query that is no older than the channel it complements.
Answer(query) ==
    /\ accepted /\ ChannelFor[query] \in subscribed
    /\ settled' = settled \cup {query}
    /\ Proceed
    /\ UNCHANGED <<accepted, subscribed>>

Wait == Proceed /\ UNCHANGED <<accepted, subscribed, settled>>

Lose ==
    /\ status' = "DISCONNECTED"
    /\ accepted' = FALSE /\ subscribed' = {} /\ settled' = {}

Next ==
    \/ Login
    \/ Accept
    \/ \E channel \in Channels : Acknowledge(channel)
    \/ \E query \in Queries : Answer(query)
    \/ Wait
    \/ Lose

Spec == Init /\ [][Next]_vars
===============================================================================
