------------------------------ MODULE DepthFeed ------------------------------
(***************************************************************************)
(* The depth of one symbol through MBPFeed: increments that the exchange   *)
(* pushes once the symbol is subscribed, snapshots that are asked for, and *)
(* the sequencer that joins the two by their sequence numbers.  Requests   *)
(* wait in the queue of the stream; the queue is cleared when the          *)
(* websocket is lost, the sequencers are not.                              *)
(*                                                                         *)
(* One change of the exchange's book is one sequence number; a book is the *)
(* set of the changes it contains, so that a change missing, or a number   *)
(* that claims too much, shows.  market::mbp::Sequencer is the library's:  *)
(* it is modelled by the contract its callbacks imply.  Each handler runs  *)
(* to its end; what interleaves is the exchange, the websocket, the rate   *)
(* limiter.  Symbols share nothing but the order of the queue.             *)
(***************************************************************************)
EXTENDS Naturals, Sequences

CONSTANTS
    MaxRetries,   \* settings.ws.mbp_request_max_retries
    MaxSequence   \* bound: changes the exchange makes

ASSUME BoundsAssumption == MaxRetries \in Nat /\ MaxSequence \in Nat \ {0}

VARIABLES
    \* the exchange
    now,        \* changes made to its book
    served,     \* does it push increments on this websocket?
    told,       \* the last change it has pushed
    channel,    \* frames on their way to the gateway
    \* MBPFeed
    status,     \* connection_status_
    queue,      \* request_queue_
    sequencer,  \* shared_.mbp_sequencer[symbol]
    \* the readers of the gateway
    book,       \* what was published
    \* history
    seen,       \* has an increment of this session been handled?
    lost        \* was the request for the book awaited now lost or refused?

exchange_vars == <<now, served, told, channel>>
vars == <<exchange_vars, status, queue, sequencer, book, seen, lost>>

Increment(prev, seq) == [kind |-> "mbp", prev |-> prev, seq |-> seq]
Reply(kind, seq) == [kind |-> kind, prev |-> 0, seq |-> seq]

NoBook == [sequence |-> 0, levels |-> {}]

-------------------------------------------------------------------------------
(* The exchange                                                             *)

Change ==
    /\ now < MaxSequence
    /\ now' = now + 1
    /\ UNCHANGED <<served, told, channel, status, queue, sequencer, book, seen, lost>>

\* The changes since the last push, in one increment.
Push ==
    /\ served /\ told < now
    /\ channel' = Append(channel, Increment(told, now))
    /\ told' = now
    /\ UNCHANGED <<now, served, status, queue, sequencer, book, seen, lost>>

-------------------------------------------------------------------------------
(* The sequencer.  "idle" keeps nothing, "waiting" keeps the increments     *)
(* (from, to] until a snapshot joins them, "live" has published up to `to`. *)
(* held is a snapshot that is still ahead of the increments.                *)

Cleared == [state |-> "idle", from |-> 0, to |-> 0, held |-> 0, asked |-> FALSE, retries |-> 0]

\* An increment that does not follow the last one: BadState.
Breaks(frame) == sequencer.state # "idle" /\ frame.prev # sequencer.to

\* The increment is kept with those before it.
Kept(frame) ==
    [state |-> "waiting",
     from |-> IF sequencer.state = "idle" THEN frame.prev ELSE sequencer.from,
     to |-> frame.seq, held |-> sequencer.held,
     asked |-> sequencer.asked, retries |-> sequencer.retries]

\* Does snapshot s join the increments kept?
Joins(s, kept) == s > 0 /\ kept.from <= s /\ s <= kept.to

Live(to) == [state |-> "live", from |-> to, to |-> to, held |-> 0, asked |-> FALSE, retries |-> 0]

-------------------------------------------------------------------------------
(* MBPFeed                                                                  *)

\* request: the message is only put into the queue.
Request == queue' = Append(queue, "req")

\* request_snapshot(retries): beyond the limit there is only a warning.
RequestSnapshot(kept) ==
    /\ sequencer' = [state |-> kept.state, from |-> kept.from, to |-> kept.to,
                     held |-> kept.held, asked |-> TRUE, retries |-> kept.retries + 1]
    /\ IF kept.retries > MaxRetries
       THEN UNCHANGED <<queue, lost>>
       ELSE Request /\ lost' = FALSE

\* A mutant of PublishSnapshot: the increments kept are not applied.
PublishSnapshotAlone(s, kept) ==
    /\ book' = [sequence |-> kept.to, levels |-> 1..s]
    /\ sequencer' = Live(kept.to)
    /\ lost' = FALSE
    /\ UNCHANGED queue

\* publish_snapshot: the snapshot with the increments kept that are later than it, under
\* the number of the last of them.
PublishSnapshot(s, kept) ==
    /\ book' = [sequence |-> kept.to,
                levels |-> 1..s \cup {n \in kept.from + 1..kept.to : n > s}]
    /\ sequencer' = Live(kept.to)
    /\ lost' = FALSE
    /\ UNCHANGED queue

\* publish_update: the changes of one increment.
PublishUpdate(frame) ==
    /\ book' = [sequence |-> frame.seq, levels |-> book.levels \cup (frame.prev + 1..frame.seq)]
    /\ sequencer' = Live(frame.seq)
    /\ UNCHANGED <<queue, lost>>

\* A mutant of Resubscribe: the sequencer is not cleared.
ResubscribeKeeps ==
    /\ Request
    /\ lost' = FALSE
    /\ UNCHANGED <<sequencer, book>>

\* A second mutant of Resubscribe: the book is dropped, not asked for.
ResubscribeForgets ==
    /\ sequencer' = Cleared
    /\ lost' = FALSE
    /\ UNCHANGED <<queue, book>>

\* catch (BadState): start over; the readers keep the book they have.
Resubscribe ==
    /\ sequencer' = Cleared
    /\ Request
    /\ lost' = FALSE
    /\ UNCHANGED book

Receive(kind) ==
    /\ channel # <<>> /\ Head(channel).kind = kind
    /\ channel' = Tail(channel)
    /\ UNCHANGED <<now, served, told, status>>

\* MBP: an increment.  The first one kept asks for a snapshot, later ones may ask again.
Mbp ==
    LET frame == Head(channel)
        kept == Kept(frame) IN
    /\ Receive("mbp")
    /\ seen' = TRUE
    /\ \/ Breaks(frame) /\ Resubscribe
       \/ ~Breaks(frame) /\ sequencer.state = "live" /\ PublishUpdate(frame)
       \/ /\ ~Breaks(frame) /\ sequencer.state # "live"
          /\ \/ Joins(sequencer.held, kept) /\ PublishSnapshot(sequencer.held, kept)
             \/ ~Joins(sequencer.held, kept) /\ RequestSnapshot(kept) /\ UNCHANGED book
             \/ /\ ~Joins(sequencer.held, kept) /\ (kept.asked \/ kept.held > kept.to)
                /\ sequencer' = kept
                /\ UNCHANGED <<queue, book, lost>>

\* MBPSnapshot: the answer to a request.
MbpSnapshot ==
    LET s == Head(channel).seq IN
    /\ Receive("snapshot")
    /\ UNCHANGED seen
    /\ \/ sequencer.state = "live" /\ UNCHANGED <<sequencer, queue, book, lost>>
       \/ /\ sequencer.state = "waiting" /\ Joins(s, sequencer)
          /\ PublishSnapshot(s, sequencer)
       \/ /\ sequencer.state = "waiting" /\ s < sequencer.from
          /\ Resubscribe \/ (RequestSnapshot(sequencer) /\ UNCHANGED book)
       \/ /\ sequencer.state = "idle" \/ (sequencer.state = "waiting" /\ s > sequencer.to)
          /\ sequencer' = [state |-> sequencer.state, from |-> sequencer.from,
                           to |-> sequencer.to, held |-> s,
                           asked |-> sequencer.asked, retries |-> sequencer.retries]
          /\ UNCHANGED <<queue, book, lost>>

\* Error: the exchange refuses a request; that is only logged.
ErrorReply ==
    /\ Receive("error")
    /\ lost' = TRUE
    /\ UNCHANGED <<queue, sequencer, book, seen>>

\* The websocket is ready: subscribe.
Ready ==
    /\ status # "READY"
    /\ status' = "READY"
    /\ queue' = Append(queue, "sub")
    /\ UNCHANGED <<exchange_vars, sequencer, book, seen, lost>>

\* A mutant of Disconnected: what was queued is sent on the next websocket.
DisconnectedKeepsQueue ==
    /\ status' = "DISCONNECTED"
    /\ served' = FALSE /\ channel' = <<>>
    /\ seen' = FALSE /\ lost' = TRUE
    /\ UNCHANGED <<now, told, queue, sequencer, book>>

\* The websocket is lost, and with it what was queued, asked for or on its way.
Disconnected ==
    /\ status' = "DISCONNECTED"
    /\ queue' = <<>>
    /\ served' = FALSE /\ channel' = <<>>
    /\ seen' = FALSE /\ lost' = TRUE
    /\ UNCHANGED <<now, told, sequencer, book>>

\* The timer of a ready stream sends a message, and the exchange handles it: it serves the
\* channel from now on, or answers with a book that may be a little old, or refuses.  (A
\* subscription that is refused is one for which it never pushes anything.)
Timer ==
    /\ status = "READY" /\ queue # <<>>
    /\ queue' = Tail(queue)
    /\ \/ /\ Head(queue) = "sub"
          /\ served' = TRUE /\ told' = now
          /\ UNCHANGED channel
       \/ /\ Head(queue) = "req"
          /\ \/ \E s \in 1..now : channel' = Append(channel, Reply("snapshot", s))
             \/ channel' = Append(channel, Reply("error", 0))
          /\ UNCHANGED <<served, told>>
    /\ UNCHANGED <<now, status, sequencer, book, seen, lost>>

-------------------------------------------------------------------------------
Init ==
    /\ now = 1 /\ served = FALSE /\ told = 0 /\ channel = <<>>
    /\ status = "DISCONNECTED" /\ queue = <<>> /\ sequencer = Cleared
    /\ book = NoBook
    /\ seen = FALSE /\ lost = FALSE

Next ==
    \/ Change
    \/ Push
    \/ Mbp
    \/ MbpSnapshot
    \/ ErrorReply
    \/ Ready
    \/ Disconnected
    \/ Timer

Spec == Init /\ [][Next]_vars

-------------------------------------------------------------------------------
(* Properties                                                               *)

FrameType == [kind : {"mbp", "snapshot", "error"}, prev : Nat, seq : Nat]
SequencerType == [state : {"idle", "waiting", "live"}, from : Nat, to : Nat, held : Nat,
                  asked : BOOLEAN, retries : Nat]

\* The type invariant of the module.  What is sent while the websocket is down is
\* never sent on the next one: nothing is queued, served or on its way then.
TypeOK ==
    /\ now \in Nat /\ told \in Nat /\ served \in BOOLEAN
    /\ channel \in Seq(FrameType)
    /\ status \in {"DISCONNECTED", "READY"}
    /\ queue \in Seq({"sub", "req"})
    /\ sequencer \in SequencerType
    /\ book \in [sequence : Nat, levels : SUBSET Nat]
    /\ seen \in BOOLEAN /\ lost \in BOOLEAN
    /\ status # "READY" => queue = <<>> /\ channel = <<>> /\ ~served

Book == INSTANCE OrderBook

\* What is published of a symbol is the exchange's book as of the number it is published
\* under, and never an older book than before: over gaps, late snapshots, and sessions
\* that end while the sequencer still holds what it got in them.
ImplementsBook == Book!Spec

\* The increments on their way follow each other from `to` on, up to what was told.
Increments == {i \in DOMAIN channel : channel[i].kind = "mbp"}
Follows(to) ==
    /\ Increments = {} => told = to
    /\ \A i \in Increments : (\A j \in Increments : i <= j) => channel[i].prev = to

\* The snapshot is queued for, or on its way, or held until the increments reach it.
AskedFor ==
    \/ \E i \in DOMAIN queue : queue[i] = "req"
    \/ \E i \in DOMAIN channel : channel[i].kind # "mbp"
    \/ sequencer.held > sequencer.to

\* Once an increment of this session has been handled, a book that is published as live is
\* in step with the exchange: whatever the sequencer held from an earlier session, and
\* whatever was refused or used up, no gap stays unnoticed and no increment is applied
\* behind one.
LiveBooksFollow ==
    status = "READY" /\ seen /\ sequencer.state = "live" => Follows(sequencer.to)

\* A book that is not live has its snapshot asked for or held, so that it will be again.
\* There are three ways to wait for nothing, which the feed does not mend by itself: the
\* request went down with an earlier session (the sequencer remembers that it has asked),
\* the exchange refused it, which is only logged, or the retries are used up.
WaitingBooksAreAskedFor ==
    status = "READY" /\ seen /\ sequencer.state # "live" =>
        AskedFor \/ lost \/ sequencer.retries > MaxRetries + 1
==============================================================================
