---------------------------- MODULE DepthFeed_proofs ----------------------------
(***************************************************************************)
(* What DepthFeed promises for any number of retries and of changes.       *)
(***************************************************************************)
EXTENDS DepthFeed, SequenceTheorems, TLAPS

-------------------------------------------------------------------------------
(* The channel and the queue.                                               *)

\* The first frame of a channel and the rest.
LEMMA ReceiveTail ==
  ASSUME NEW c \in Seq(FrameType), c # <<>>
  PROVE  /\ Head(c) = c[1] /\ 1 \in DOMAIN c /\ c[1] \in FrameType
         /\ Tail(c) \in Seq(FrameType)
         /\ \A i \in DOMAIN Tail(c) : i \in Nat \ {0} /\ i + 1 \in DOMAIN c /\ Tail(c)[i] = c[i + 1]
         /\ \A i \in DOMAIN c : i # 1 => i - 1 \in DOMAIN Tail(c) /\ Tail(c)[i - 1] = c[i]
<1>1. /\ Head(c) = c[1] /\ Len(c) \in Nat \ {0} /\ DOMAIN c = 1..Len(c)
      /\ Tail(c) \in Seq(FrameType) /\ Len(Tail(c)) = Len(c) - 1
      /\ \A i \in 1..Len(Tail(c)) : Tail(c)[i] = c[i + 1]
  BY HeadTailProperties
<1>2. DOMAIN Tail(c) = 1..(Len(c) - 1)
  BY <1>1
<1> QED
  BY <1>1, <1>2

\* A channel with one more frame.
LEMMA SendAppend ==
  ASSUME NEW c \in Seq(FrameType), NEW f \in FrameType
  PROVE  /\ Append(c, f) \in Seq(FrameType)
         /\ DOMAIN Append(c, f) = DOMAIN c \cup {Len(c) + 1}
         /\ Append(c, f)[Len(c) + 1] = f
         /\ \A i \in DOMAIN c : i \in Nat /\ i < Len(c) + 1 /\ Append(c, f)[i] = c[i]
         /\ Len(c) + 1 \notin DOMAIN c /\ Len(c) \in Nat
<1>1. /\ Len(c) \in Nat /\ DOMAIN c = 1..Len(c)
      /\ Append(c, f) \in Seq(FrameType) /\ Len(Append(c, f)) = Len(c) + 1
      /\ \A i \in 1..Len(c) : Append(c, f)[i] = c[i]
      /\ Append(c, f)[Len(c) + 1] = f
  BY AppendProperties
<1>2. DOMAIN Append(c, f) = 1..Len(c) + 1
  BY <1>1
<1> QED
  BY <1>1, <1>2

-------------------------------------------------------------------------------
(* Type correctness.                                                        *)

\* What an increment makes of the sequencer.
LEMMA KeptType ==
  ASSUME TypeOK, NEW frame \in FrameType
  PROVE  /\ Kept(frame) \in SequencerType
         /\ Kept(frame).state = "waiting" /\ Kept(frame).to = frame.seq
         /\ Kept(frame).from = IF sequencer.state = "idle" THEN frame.prev ELSE sequencer.from
         /\ Kept(frame).held = sequencer.held /\ Kept(frame).asked = sequencer.asked
         /\ Kept(frame).retries = sequencer.retries
<1>1. sequencer.from \in Nat /\ sequencer.held \in Nat /\ sequencer.asked \in BOOLEAN
      /\ sequencer.retries \in Nat /\ frame.prev \in Nat /\ frame.seq \in Nat
  BY DEF TypeOK, SequencerType, FrameType
<1> QED
  BY <1>1 DEF Kept, SequencerType

\* The constant states of the sequencer.
LEMMA FixedTypes ==
  /\ Cleared \in SequencerType /\ Cleared.state = "idle" /\ Cleared.to = 0 /\ Cleared.asked = FALSE
  /\ \A to \in Nat : Live(to) \in SequencerType /\ Live(to).state = "live" /\ Live(to).to = to
BY DEF Cleared, Live, SequencerType

\* What the requests for snapshots touch.
LEMMA RequestSnapshotType ==
  ASSUME TypeOK, NEW kept \in SequencerType, RequestSnapshot(kept)
  PROVE  /\ sequencer' \in SequencerType /\ queue' \in Seq({"sub", "req"}) /\ lost' \in BOOLEAN
         /\ sequencer'.state = kept.state /\ sequencer'.from = kept.from /\ sequencer'.to = kept.to
         /\ sequencer'.held = kept.held /\ sequencer'.retries = kept.retries + 1
         /\ sequencer'.asked = TRUE
<1>1. /\ kept.state \in {"idle", "waiting", "live"} /\ kept.from \in Nat /\ kept.to \in Nat
      /\ kept.held \in Nat /\ kept.retries \in Nat
  BY DEF SequencerType
<1>2. sequencer' = [state |-> kept.state, from |-> kept.from, to |-> kept.to, held |-> kept.held,
                    asked |-> TRUE, retries |-> kept.retries + 1]
  BY DEF RequestSnapshot
<1>3. queue' \in Seq({"sub", "req"}) /\ lost' \in BOOLEAN
  <2>1. UNCHANGED <<queue, lost>> \/ (queue' = Append(queue, "req") /\ lost' = FALSE)
    BY Zenon DEF RequestSnapshot, Request
  <2>2. queue \in Seq({"sub", "req"}) /\ lost \in BOOLEAN
    BY DEF TypeOK
  <2>3. Append(queue, "req") \in Seq({"sub", "req"})
    BY <2>2
  <2>4. FALSE \in BOOLEAN
    OBVIOUS
  <2> QED
    BY <2>1, <2>2, <2>3, <2>4, Zenon
<1> QED
  BY <1>1, <1>2, <1>3 DEF SequencerType

\* What the publication of a snapshot touches.
LEMMA PublishSnapshotType ==
  ASSUME NEW kept \in SequencerType, NEW s \in Nat, PublishSnapshot(s, kept)
  PROVE  /\ sequencer' = Live(kept.to) /\ sequencer' \in SequencerType
         /\ book' \in [sequence : Nat, levels : SUBSET Nat]
         /\ lost' \in BOOLEAN /\ queue' = queue
<1>1. kept.to \in Nat /\ kept.from \in Nat
  BY DEF SequencerType
<1>2. 1..s \cup {n \in kept.from + 1..kept.to : n > s} \in SUBSET Nat
  BY <1>1
<1>3. book' \in [sequence : Nat, levels : SUBSET Nat]
  BY <1>1, <1>2 DEF PublishSnapshot
<1>4. sequencer' = Live(kept.to) /\ lost' = FALSE /\ queue' = queue
  BY DEF PublishSnapshot
<1> QED
  BY <1>1, <1>3, <1>4, FixedTypes

\* Starting over.
LEMMA ResubscribeType ==
  ASSUME TypeOK, Resubscribe
  PROVE  /\ sequencer' = Cleared /\ sequencer' \in SequencerType
         /\ queue' = Append(queue, "req") /\ queue' \in Seq({"sub", "req"})
         /\ lost' = FALSE /\ book' = book
BY FixedTypes DEF Resubscribe, Request, TypeOK

\* What all handlers of frames have in common.
LEMMA ReceiveType ==
  ASSUME TypeOK, NEW kind, Receive(kind)
  PROVE  /\ channel # <<>> /\ Head(channel) \in FrameType /\ Head(channel).kind = kind
         /\ channel' = Tail(channel) /\ channel' \in Seq(FrameType)
         /\ UNCHANGED <<now, served, told, status>>
         /\ status = "READY"
<1>1. channel # <<>> /\ channel' = Tail(channel) /\ Head(channel).kind = kind
      /\ UNCHANGED <<now, served, told, status>>
  BY DEF Receive
<1>2. channel \in Seq(FrameType) /\ (status # "READY" => channel = <<>>)
  BY DEF TypeOK
<1> QED
  BY <1>1, <1>2, ReceiveTail

\* What Mbp does to the sequencer, in all its cases.
LEMMA MbpType ==
  ASSUME TypeOK, Mbp
  PROVE  /\ sequencer' \in SequencerType /\ queue' \in Seq({"sub", "req"}) /\ lost' \in BOOLEAN
         /\ book' \in [sequence : Nat, levels : SUBSET Nat]
<1> DEFINE frame == Head(channel)
           kept == Kept(frame)
<1>1. frame \in FrameType /\ frame.prev \in Nat /\ frame.seq \in Nat
  <2>1. frame \in FrameType
    BY ReceiveType DEF Mbp
  <2> HIDE DEF frame
  <2> QED
    BY <2>1 DEF FrameType
<1>2. \/ Resubscribe
      \/ PublishUpdate(frame)
      \/ PublishSnapshot(sequencer.held, kept)
      \/ RequestSnapshot(kept) /\ UNCHANGED book
      \/ sequencer' = kept /\ UNCHANGED <<queue, book, lost>>
  BY Zenon DEF Mbp
<1> HIDE DEF frame
<1>3. kept \in SequencerType
  BY <1>1, KeptType
<1> HIDE DEF kept
<1>4. sequencer.held \in Nat
  BY DEF TypeOK, SequencerType
<1>5. CASE Resubscribe
  BY <1>5, ResubscribeType DEF TypeOK
<1>6. CASE PublishUpdate(frame)
  <2>1. book.levels \cup (frame.prev + 1..frame.seq) \in SUBSET Nat
    BY <1>1 DEF TypeOK
  <2>2. book' = [sequence |-> frame.seq, levels |-> book.levels \cup (frame.prev + 1..frame.seq)]
        /\ sequencer' = Live(frame.seq) /\ UNCHANGED <<queue, lost>>
    BY <1>6 DEF PublishUpdate
  <2> QED
    BY <1>1, <2>1, <2>2, FixedTypes DEF TypeOK
<1>7. CASE PublishSnapshot(sequencer.held, kept)
  BY <1>3, <1>4, <1>7, PublishSnapshotType DEF TypeOK
<1>8. CASE RequestSnapshot(kept) /\ UNCHANGED book
  BY <1>3, <1>8, RequestSnapshotType DEF TypeOK
<1>9. CASE sequencer' = kept /\ UNCHANGED <<queue, book, lost>>
  BY <1>3, <1>9 DEF TypeOK
<1> QED
  BY <1>2, <1>5, <1>6, <1>7, <1>8, <1>9

\* A snapshot held for later.
LEMMA HeldType ==
  ASSUME TypeOK, NEW s \in Nat,
         sequencer' = [state |-> sequencer.state, from |-> sequencer.from,
                       to |-> sequencer.to, held |-> s,
                       asked |-> sequencer.asked, retries |-> sequencer.retries]
  PROVE  /\ sequencer' \in SequencerType
         /\ sequencer'.state = sequencer.state /\ sequencer'.to = sequencer.to
         /\ sequencer'.from = sequencer.from /\ sequencer'.held = s
         /\ sequencer'.asked = sequencer.asked /\ sequencer'.retries = sequencer.retries
<1>1. /\ sequencer.state \in {"idle", "waiting", "live"} /\ sequencer.from \in Nat
      /\ sequencer.to \in Nat /\ sequencer.asked \in BOOLEAN /\ sequencer.retries \in Nat
  BY DEF TypeOK, SequencerType
<1> QED
  BY <1>1 DEF SequencerType

\* What MbpSnapshot does to the sequencer, in all its cases.
LEMMA MbpSnapshotType ==
  ASSUME TypeOK, MbpSnapshot
  PROVE  /\ sequencer' \in SequencerType /\ queue' \in Seq({"sub", "req"}) /\ lost' \in BOOLEAN
         /\ book' \in [sequence : Nat, levels : SUBSET Nat]
<1> DEFINE s == Head(channel).seq
<1>1. s \in Nat
  <2>1. Head(channel) \in FrameType
    BY ReceiveType DEF MbpSnapshot
  <2> QED
    BY <2>1 DEF FrameType
<1>2. \/ UNCHANGED <<sequencer, queue, book, lost>>
      \/ PublishSnapshot(s, sequencer)
      \/ Resubscribe
      \/ RequestSnapshot(sequencer) /\ UNCHANGED book
      \/ /\ sequencer' = [state |-> sequencer.state, from |-> sequencer.from,
                          to |-> sequencer.to, held |-> s,
                          asked |-> sequencer.asked, retries |-> sequencer.retries]
         /\ UNCHANGED <<queue, book, lost>>
  BY Zenon DEF MbpSnapshot
<1> HIDE DEF s
<1>3. sequencer \in SequencerType
  BY DEF TypeOK
<1>4. CASE UNCHANGED <<sequencer, queue, book, lost>>
  BY <1>4 DEF TypeOK
<1>5. CASE PublishSnapshot(s, sequencer)
  BY <1>1, <1>3, <1>5, PublishSnapshotType DEF TypeOK
<1>6. CASE Resubscribe
  BY <1>6, ResubscribeType DEF TypeOK
<1>7. CASE RequestSnapshot(sequencer) /\ UNCHANGED book
  BY <1>3, <1>7, RequestSnapshotType DEF TypeOK
<1>8. CASE /\ sequencer' = [state |-> sequencer.state, from |-> sequencer.from,
                            to |-> sequencer.to, held |-> s,
                            asked |-> sequencer.asked, retries |-> sequencer.retries]
           /\ UNCHANGED <<queue, book, lost>>
  BY <1>1, <1>8, HeldType DEF TypeOK
<1> QED
  BY <1>2, <1>4, <1>5, <1>6, <1>7, <1>8

\* What the timer sends.
LEMMA TimerType ==
  ASSUME TypeOK, Timer
  PROVE  /\ queue # <<>> /\ queue' = Tail(queue) /\ queue' \in Seq({"sub", "req"})
         /\ status = "READY" /\ UNCHANGED <<now, status, sequencer, book, seen, lost>>
         /\ \/ Head(queue) = "sub" /\ served' = TRUE /\ told' = now /\ channel' = channel
            \/ /\ Head(queue) = "req" /\ UNCHANGED <<served, told>>
               /\ \E f \in FrameType : /\ f.kind # "mbp" /\ (f.kind = "snapshot" => f.seq > 0)
                                       /\ channel' = Append(channel, f)
<1>1. queue # <<>> /\ queue' = Tail(queue) /\ queue \in Seq({"sub", "req"}) /\ now \in Nat
  BY DEF Timer, TypeOK
<1>2. \A s \in 1..now : /\ Reply("snapshot", s) \in FrameType
                        /\ Reply("snapshot", s).kind = "snapshot" /\ Reply("snapshot", s).seq > 0
  BY <1>1 DEF Reply, FrameType
<1>3. Reply("error", 0) \in FrameType /\ Reply("error", 0).kind = "error"
  BY DEF Reply, FrameType
<1> QED
  BY <1>1, <1>2, <1>3 DEF Timer

\* Every reachable state is well typed, and nothing of a lost websocket is left.
THEOREM TypeCorrect == Spec => []TypeOK
<1>1. Init => TypeOK
  <2> SUFFICES ASSUME Init PROVE TypeOK
    OBVIOUS
  <2>1. now \in Nat /\ told \in Nat /\ channel \in Seq(FrameType) /\ queue \in Seq({"sub", "req"})
    BY DEF Init
  <2>2. book \in [sequence : Nat, levels : SUBSET Nat]
    BY DEF Init, NoBook
  <2>3. sequencer \in SequencerType
    BY FixedTypes DEF Init
  <2>4. served \in BOOLEAN /\ seen \in BOOLEAN /\ lost \in BOOLEAN
        /\ status \in {"DISCONNECTED", "READY"}
        /\ queue = <<>> /\ channel = <<>> /\ ~served
    BY Zenon DEF Init
  <2> QED
    BY <2>1, <2>2, <2>3, <2>4, Zenon DEF TypeOK
<1>2. TypeOK /\ [Next]_vars => TypeOK'
  <2> SUFFICES ASSUME TypeOK, [Next]_vars PROVE TypeOK'
    OBVIOUS
  <2>1. CASE Change
    BY <2>1 DEF Change, TypeOK
  <2>2. CASE Push
    <3>1. Increment(told, now) \in FrameType /\ channel \in Seq(FrameType)
      BY DEF TypeOK, Increment, FrameType
    <3>2. channel' \in Seq(FrameType) /\ told' \in Nat
      BY <2>2, <3>1 DEF Push, TypeOK
    <3> QED
      BY <2>2, <3>2 DEF Push, TypeOK
  <2>3. CASE Mbp
    <3>1. Receive("mbp") /\ seen' = TRUE
      BY <2>3 DEF Mbp
    <3> QED
      BY <2>3, <3>1, ReceiveType, MbpType DEF TypeOK
  <2>4. CASE MbpSnapshot
    <3>1. Receive("snapshot") /\ seen' = seen
      BY <2>4 DEF MbpSnapshot
    <3> QED
      BY <2>4, <3>1, ReceiveType, MbpSnapshotType DEF TypeOK
  <2>5. CASE ErrorReply
    BY <2>5, ReceiveType DEF ErrorReply, TypeOK
  <2>6. CASE Ready
    BY <2>6 DEF Ready, exchange_vars, TypeOK
  <2>7. CASE Disconnected
    <3>1. queue' \in Seq({"sub", "req"}) /\ channel' \in Seq(FrameType)
      BY <2>7 DEF Disconnected
    <3>2. /\ status' \in {"DISCONNECTED", "READY"} /\ queue' = <<>> /\ channel' = <<>> /\ ~served'
          /\ served' \in BOOLEAN /\ seen' \in BOOLEAN /\ lost' \in BOOLEAN
          /\ UNCHANGED <<now, told, sequencer, book>>
      BY <2>7, Zenon DEF Disconnected
    <3> QED
      BY <3>1, <3>2, Zenon DEF TypeOK
  <2>8. CASE Timer
    <3>1. channel \in Seq(FrameType) /\ now \in Nat
      BY DEF TypeOK
    <3>2. channel' \in Seq(FrameType) /\ told' \in Nat /\ served' \in BOOLEAN
      <4>1. told \in Nat /\ served \in BOOLEAN
        BY DEF TypeOK
      <4>2. CASE served' = TRUE /\ told' = now /\ channel' = channel
        BY <3>1, <4>2
      <4>3. CASE /\ UNCHANGED <<served, told>>
                 /\ \E f \in FrameType : channel' = Append(channel, f)
        BY <3>1, <4>1, <4>3
      <4> QED
        BY <2>8, <4>2, <4>3, TimerType
    <3> QED
      BY <2>8, <3>2, TimerType DEF TypeOK
  <2>9. CASE UNCHANGED vars
    BY <2>9 DEF vars, exchange_vars, TypeOK
  <2> QED
    BY <2>1, <2>2, <2>3, <2>4, <2>5, <2>6, <2>7, <2>8, <2>9 DEF Next
<1> QED
  BY <1>1, <1>2, PTL DEF Spec

-------------------------------------------------------------------------------
(* The book is the exchange's.                                              *)

\* The increments on their way are changes of the past, one after the other.
InOrder ==
  /\ \A i \in Increments : channel[i].prev < channel[i].seq /\ channel[i].seq <= told
  /\ \A i, j \in Increments : i < j => channel[i].seq <= channel[j].prev

\* None of them goes back behind change n.
Ahead(n) == \A i \in Increments : n <= channel[i].prev

\* The same of what a step leaves on its way.
AheadNext(n) == \A i \in Increments' : n <= channel'[i].prev

\* What is published is whole, and neither it nor the sequencer is ahead of what the
\* exchange has told or behind what is still on its way.
BookInv ==
  /\ book.levels = 1..book.sequence
  /\ told <= now /\ book.sequence <= told /\ sequencer.to <= told
  /\ sequencer.state = "live" => book.sequence = sequencer.to
  /\ sequencer.state = "waiting" => book.sequence <= sequencer.to
  /\ InOrder /\ Ahead(book.sequence)
  /\ sequencer.state # "idle" => Ahead(sequencer.to)

\* The numbers that the invariants compare.
LEMMA Numbers ==
  ASSUME TypeOK
  PROVE  /\ now \in Nat /\ told \in Nat /\ book.sequence \in Nat
         /\ sequencer.to \in Nat /\ sequencer.from \in Nat /\ sequencer.held \in Nat
         /\ \A i \in DOMAIN channel : channel[i] \in FrameType /\ channel[i].prev \in Nat
                                      /\ channel[i].seq \in Nat /\ i \in Nat
<1>1. channel \in Seq(FrameType) /\ DOMAIN channel = 1..Len(channel)
  BY DEF TypeOK
<1>2. \A i \in DOMAIN channel : channel[i] \in FrameType /\ i \in Nat
  BY <1>1
<1> QED
  BY <1>2 DEF TypeOK, SequencerType, FrameType

\* The increments that a handler leaves on their way.
LEMMA ReceiveOrder ==
  ASSUME TypeOK, InOrder, NEW kind, Receive(kind)
  PROVE  /\ InOrder'
         /\ \A n \in Nat : Ahead(n) => AheadNext(n)
         /\ kind = "mbp" => /\ AheadNext(Head(channel).seq)
                            /\ Head(channel).prev < Head(channel).seq
                            /\ Head(channel).seq <= told
                            /\ \A n \in Nat : Ahead(n) => n <= Head(channel).prev
<1>1. /\ channel # <<>> /\ channel' = Tail(channel) /\ told' = told
      /\ Head(channel).kind = kind /\ channel \in Seq(FrameType)
  BY ReceiveType DEF TypeOK
<1>2. /\ Head(channel) = channel[1] /\ 1 \in DOMAIN channel
      /\ \A i \in DOMAIN channel' : /\ i \in Nat \ {0} /\ i + 1 \in DOMAIN channel
                                    /\ channel'[i] = channel[i + 1]
  BY <1>1, ReceiveTail
<1>3. \A i \in Increments' : i \in Nat /\ i + 1 \in Increments /\ channel'[i] = channel[i + 1]
  BY <1>2 DEF Increments
<1>4. kind = "mbp" => 1 \in Increments
  BY <1>1, <1>2 DEF Increments
<1>5. \A i \in Increments : i \in DOMAIN channel /\ i \in Nat /\ i >= 1
  BY <1>1 DEF Increments
<1>6. InOrder'
  <2>1. \A i \in Increments' : channel'[i].prev < channel'[i].seq /\ channel'[i].seq <= told'
    BY <1>1, <1>3 DEF InOrder
  <2>2. ASSUME NEW i \in Increments', NEW j \in Increments', i < j
        PROVE  channel'[i].seq <= channel'[j].prev
    <3>1. i + 1 < j + 1
      BY <1>3, <2>2
    <3> QED
      BY <1>3, <3>1 DEF InOrder
  <2> QED
    BY <2>1, <2>2 DEF InOrder
<1>7. \A n \in Nat : Ahead(n) => AheadNext(n)
  BY <1>3 DEF Ahead, AheadNext
<1>8. kind = "mbp" => AheadNext(Head(channel).seq)
  <2>1. ASSUME kind = "mbp", NEW i \in Increments' PROVE channel[1].seq <= channel'[i].prev
    <3>1. 1 < i + 1
      BY <1>2, <1>3, <2>1 DEF Increments
    <3> QED
      BY <1>3, <1>4, <2>1, <3>1 DEF InOrder
  <2> QED
    BY <1>2, <2>1 DEF AheadNext
<1>9. kind = "mbp" => /\ Head(channel).prev < Head(channel).seq
                      /\ Head(channel).seq <= told
                      /\ \A n \in Nat : Ahead(n) => n <= Head(channel).prev
  BY <1>2, <1>4 DEF InOrder, Ahead
<1> QED
  BY <1>6, <1>7, <1>8, <1>9

\* A snapshot and the increments that join it are the whole book.
LEMMA JoinedIsWhole ==
  ASSUME NEW kept \in SequencerType, NEW s \in Nat, Joins(s, kept), PublishSnapshot(s, kept)
  PROVE  /\ book' = [sequence |-> kept.to, levels |-> 1..kept.to] /\ kept.to > 0
         /\ sequencer' = Live(kept.to)
<1>1. kept.to \in Nat /\ kept.from \in Nat
  BY DEF SequencerType
<1>2. 1..s \cup {n \in kept.from + 1..kept.to : n > s} = 1..kept.to
  BY <1>1 DEF Joins
<1>3. /\ book' = [sequence |-> kept.to,
                  levels |-> 1..s \cup {n \in kept.from + 1..kept.to : n > s}]
      /\ sequencer' = Live(kept.to)
  BY DEF PublishSnapshot
<1>4. kept.to > 0
  BY <1>1 DEF Joins
<1> QED
  BY <1>2, <1>3, <1>4, Zenon

Publishes == \E n \in Nat : book.sequence <= n /\ n <= now /\ n > 0 /\ book' = Book!BookAt(n)

\* What a handler leaves of the invariant when it publishes change n.
LEMMA PublishStep ==
  ASSUME TypeOK, BookInv, NEW n \in Nat, book.sequence <= n, n <= told, n > 0,
         book' = [sequence |-> n, levels |-> 1..n], sequencer' = Live(n),
         InOrder', AheadNext(n), told' = told, now' = now
  PROVE  BookInv' /\ Publishes
<1>1. book'.sequence = n /\ book'.levels = 1..n /\ sequencer'.state = "live" /\ sequencer'.to = n
  BY FixedTypes
<1>2. BookInv'
  BY <1>1 DEF BookInv, Ahead, AheadNext
<1>3. told <= now /\ now \in Nat /\ told \in Nat
  BY Numbers DEF BookInv
<1> QED
  BY <1>2, <1>3 DEF Publishes, Book!BookAt

\* What it leaves when it publishes nothing.
LEMMA QuietStep ==
  ASSUME TypeOK, BookInv, book' = book, told' = told, now' = now, InOrder', AheadNext(book.sequence),
         sequencer' \in SequencerType, sequencer'.to <= told,
         sequencer'.state = "live" => book.sequence = sequencer'.to,
         sequencer'.state = "waiting" => book.sequence <= sequencer'.to,
         sequencer'.state # "idle" => AheadNext(sequencer'.to)
  PROVE  BookInv'
BY DEF BookInv, Ahead, AheadNext

\* An increment.
LEMMA MbpBook ==
  ASSUME TypeOK, BookInv, Mbp
  PROVE  BookInv' /\ (UNCHANGED book \/ Publishes)
<1> DEFINE frame == Head(channel)
           kept == Kept(frame)
<1>0. Receive("mbp")
  BY DEF Mbp
<1>1. /\ frame \in FrameType /\ frame.prev \in Nat /\ frame.seq \in Nat
      /\ told' = told /\ now' = now
  <2>1. frame \in FrameType /\ UNCHANGED <<now, told>>
    BY <1>0, ReceiveType
  <2> HIDE DEF frame
  <2> QED
    BY <2>1 DEF FrameType
<1>2. /\ InOrder' /\ AheadNext(book.sequence) /\ AheadNext(frame.seq)
      /\ frame.prev < frame.seq /\ frame.seq <= told
      /\ book.sequence <= frame.prev
      /\ sequencer.state # "idle" => sequencer.to <= frame.prev
  BY <1>0, ReceiveOrder, Numbers DEF BookInv
<1>3. \/ Resubscribe
      \/ /\ ~Breaks(frame) /\ sequencer.state = "live" /\ PublishUpdate(frame)
      \/ Joins(sequencer.held, kept) /\ PublishSnapshot(sequencer.held, kept)
      \/ RequestSnapshot(kept) /\ UNCHANGED book
      \/ sequencer' = kept /\ UNCHANGED book
  BY Zenon DEF Mbp
<1> HIDE DEF frame
<1>4. kept \in SequencerType /\ kept.state = "waiting" /\ kept.to = frame.seq
  BY <1>1, KeptType
<1> HIDE DEF kept
<1>5. told \in Nat /\ now \in Nat /\ book.sequence \in Nat /\ sequencer.held \in Nat
  BY Numbers
<1>6. CASE Resubscribe
  <2>1. book' = book /\ sequencer' \in SequencerType /\ sequencer'.to = 0 /\ sequencer'.state = "idle"
    BY <1>6, ResubscribeType, FixedTypes
  <2> QED
    BY <1>1, <1>2, <1>5, <2>1, QuietStep
<1>7. CASE ~Breaks(frame) /\ sequencer.state = "live" /\ PublishUpdate(frame)
  <2>1. frame.prev = sequencer.to /\ sequencer.to = book.sequence /\ book.levels = 1..book.sequence
    BY <1>7 DEF Breaks, BookInv
  <2>2. book.levels \cup (frame.prev + 1..frame.seq) = 1..frame.seq
    BY <1>1, <1>2, <1>5, <2>1
  <2>3. book' = [sequence |-> frame.seq, levels |-> 1..frame.seq] /\ sequencer' = Live(frame.seq)
    BY <1>7, <2>2, Zenon DEF PublishUpdate
  <2>4. book.sequence <= frame.seq /\ frame.seq > 0
    BY <1>1, <1>2, <1>5
  <2> QED
    BY <1>1, <1>2, <2>3, <2>4, PublishStep
<1>8. CASE Joins(sequencer.held, kept) /\ PublishSnapshot(sequencer.held, kept)
  <2>1. book' = [sequence |-> frame.seq, levels |-> 1..frame.seq] /\ sequencer' = Live(frame.seq)
    BY <1>4, <1>5, <1>8, JoinedIsWhole
  <2>2. book.sequence <= frame.seq /\ frame.seq > 0
    BY <1>1, <1>2, <1>5
  <2> QED
    BY <1>1, <1>2, <2>1, <2>2, PublishStep
<1>9. CASE (RequestSnapshot(kept) \/ sequencer' = kept) /\ UNCHANGED book
  <2>1. sequencer' \in SequencerType /\ sequencer'.state = "waiting" /\ sequencer'.to = frame.seq
    BY <1>4, <1>9, RequestSnapshotType
  <2>2. book.sequence <= frame.seq
    BY <1>1, <1>2, <1>5
  <2> QED
    BY <1>1, <1>2, <1>9, <2>1, <2>2, QuietStep
<1> QED
  BY <1>3, <1>6, <1>7, <1>8, <1>9

\* A snapshot.
LEMMA MbpSnapshotBook ==
  ASSUME TypeOK, BookInv, MbpSnapshot
  PROVE  BookInv' /\ (UNCHANGED book \/ Publishes)
<1> DEFINE s == Head(channel).seq
<1>0. Receive("snapshot")
  BY DEF MbpSnapshot
<1>1. s \in Nat /\ told' = told /\ now' = now
  <2>1. Head(channel) \in FrameType /\ UNCHANGED <<now, told>>
    BY <1>0, ReceiveType
  <2> QED
    BY <2>1 DEF FrameType
<1>2. /\ InOrder' /\ AheadNext(book.sequence)
      /\ sequencer.state # "idle" => AheadNext(sequencer.to)
  BY <1>0, ReceiveOrder, Numbers DEF BookInv
<1>3. \/ UNCHANGED <<sequencer, book>>
      \/ sequencer.state = "waiting" /\ Joins(s, sequencer) /\ PublishSnapshot(s, sequencer)
      \/ Resubscribe
      \/ RequestSnapshot(sequencer) /\ UNCHANGED book
      \/ /\ sequencer' = [state |-> sequencer.state, from |-> sequencer.from,
                          to |-> sequencer.to, held |-> s,
                          asked |-> sequencer.asked, retries |-> sequencer.retries]
         /\ UNCHANGED book
  BY Zenon DEF MbpSnapshot
<1> HIDE DEF s
<1>4. sequencer \in SequencerType /\ sequencer.to \in Nat /\ told \in Nat /\ book.sequence \in Nat
  BY Numbers DEF TypeOK
<1>5. CASE sequencer.state = "waiting" /\ Joins(s, sequencer) /\ PublishSnapshot(s, sequencer)
  <2>1. /\ book' = [sequence |-> sequencer.to, levels |-> 1..sequencer.to]
        /\ sequencer' = Live(sequencer.to) /\ sequencer.to > 0
    BY <1>1, <1>4, <1>5, JoinedIsWhole
  <2>2. book.sequence <= sequencer.to /\ sequencer.to <= told
    BY <1>5 DEF BookInv
  <2> QED
    BY <1>1, <1>2, <1>4, <1>5, <2>1, <2>2, PublishStep
<1>6. CASE Resubscribe
  <2>1. book' = book /\ sequencer' \in SequencerType /\ sequencer'.to = 0 /\ sequencer'.state = "idle"
    BY <1>6, ResubscribeType, FixedTypes
  <2> QED
    BY <1>1, <1>2, <1>4, <2>1, QuietStep
<1>7. ASSUME sequencer' \in SequencerType, sequencer'.state = sequencer.state,
             sequencer'.to = sequencer.to, UNCHANGED book
      PROVE  BookInv'
  BY <1>1, <1>2, <1>7, QuietStep DEF BookInv
<1>8. CASE UNCHANGED <<sequencer, book>>
  BY <1>4, <1>7, <1>8
<1>9. CASE RequestSnapshot(sequencer) /\ UNCHANGED book
  BY <1>4, <1>7, <1>9, RequestSnapshotType
<1>10. CASE /\ sequencer' = [state |-> sequencer.state, from |-> sequencer.from,
                             to |-> sequencer.to, held |-> s,
                             asked |-> sequencer.asked, retries |-> sequencer.retries]
            /\ UNCHANGED book
  BY <1>1, <1>7, <1>10, HeldType
<1> QED
  BY <1>3, <1>5, <1>6, <1>8, <1>9, <1>10

\* Steps that neither publish nor touch the sequencer.
LEMMA ElsewhereBook ==
  ASSUME TypeOK, BookInv, UNCHANGED <<sequencer, book>>, told' \in Nat, told <= told', told' <= now',
         InOrder',
         \A n \in Nat : n <= told /\ Ahead(n) => AheadNext(n)
  PROVE  BookInv'
<1>1. /\ book.sequence \in Nat /\ sequencer.to \in Nat /\ told \in Nat
      /\ book.sequence <= told /\ sequencer.to <= told
  BY Numbers DEF BookInv
<1>2. AheadNext(book.sequence) /\ (sequencer.state # "idle" => AheadNext(sequencer.to))
  BY <1>1 DEF BookInv
<1>3. Ahead(book.sequence)' /\ (sequencer'.state # "idle" => Ahead(sequencer.to)')
  BY <1>2 DEF Ahead, AheadNext
<1>4. book'.sequence <= told' /\ sequencer'.to <= told'
  BY <1>1
<1> QED
  BY <1>3, <1>4 DEF BookInv

\* A push comes after what is on its way.
LEMMA PushBook ==
  ASSUME TypeOK, BookInv, Push
  PROVE  BookInv' /\ UNCHANGED <<now, book>>
<1> DEFINE f == Increment(told, now)
           n == Len(channel) + 1
<1>1. /\ told \in Nat /\ now \in Nat /\ told < now /\ channel \in Seq(FrameType)
      /\ channel' = Append(channel, f) /\ told' = now /\ UNCHANGED <<now, sequencer, book>>
  BY Numbers DEF Push, TypeOK
<1>2. f \in FrameType /\ f.kind = "mbp" /\ f.prev = told /\ f.seq = now
  BY <1>1 DEF Increment, FrameType
<1> HIDE DEF f
<1>3. /\ DOMAIN channel' = DOMAIN channel \cup {n} /\ channel'[n] = f
      /\ n \in Nat /\ \A i \in DOMAIN channel : i \in Nat /\ i < n /\ channel'[i] = channel[i]
  BY <1>1, <1>2, SendAppend
<1> HIDE DEF n
<1>4. /\ Increments' = Increments \cup {n}
      /\ \A i \in Increments : i \in Nat /\ i < n /\ channel'[i] = channel[i]
      /\ \A i \in Increments : channel[i].prev \in Nat /\ channel[i].seq \in Nat
  BY <1>2, <1>3, Numbers DEF Increments
<1>5. \A i \in Increments : channel[i].prev < channel[i].seq /\ channel[i].seq <= told
  BY DEF BookInv, InOrder
<1>6. InOrder'
  <2>1. \A i \in Increments' : channel'[i].prev < channel'[i].seq /\ channel'[i].seq <= told'
    <3>1. ASSUME NEW i \in Increments, channel'[i] = channel[i]
          PROVE  channel'[i].prev < channel'[i].seq /\ channel'[i].seq <= told'
      BY <1>1, <1>4, <1>5, <3>1
    <3>2. channel'[n].prev < channel'[n].seq /\ channel'[n].seq <= told'
      BY <1>1, <1>2, <1>3
    <3> QED
      BY <1>4, <3>1, <3>2
  <2>2. ASSUME NEW i \in Increments', NEW j \in Increments', i < j
        PROVE  channel'[i].seq <= channel'[j].prev
    <3>1. i # n
      BY <1>3, <1>4, <2>2
    <3>2. CASE j = n
      BY <1>2, <1>3, <1>4, <1>5, <3>1, <3>2
    <3>3. CASE j # n
      BY <1>4, <2>2, <3>1, <3>3 DEF BookInv, InOrder
    <3> QED
      BY <3>2, <3>3
  <2> QED
    BY <2>1, <2>2 DEF InOrder
<1>7. \A m \in Nat : m <= told /\ Ahead(m) => AheadNext(m)
  BY <1>2, <1>3, <1>4 DEF Ahead, AheadNext
<1>8. told' \in Nat /\ told <= told' /\ told' <= now'
  BY <1>1
<1>9. UNCHANGED <<sequencer, book>>
  BY <1>1
<1>10. BookInv'
  BY <1>6, <1>7, <1>8, <1>9, ElsewhereBook
<1> QED
  BY <1>1, <1>10

\* A frame that is no increment changes nothing for those that are.
LEMMA ReplyOrder ==
  ASSUME TypeOK, InOrder, NEW f \in FrameType, f.kind # "mbp", channel' = Append(channel, f),
         told' = told
  PROVE  InOrder' /\ \A n \in Nat : Ahead(n) => AheadNext(n)
<1>1. /\ DOMAIN channel' = DOMAIN channel \cup {Len(channel) + 1}
      /\ channel'[Len(channel) + 1] = f
      /\ \A i \in DOMAIN channel : channel'[i] = channel[i]
  BY SendAppend DEF TypeOK
<1>2. Increments' = Increments /\ \A i \in Increments : channel'[i] = channel[i]
  BY <1>1 DEF Increments
<1>3. InOrder'
  BY <1>2 DEF InOrder
<1> QED
  BY <1>2, <1>3 DEF Ahead, AheadNext

\* The timer publishes nothing.
LEMMA TimerBook ==
  ASSUME TypeOK, BookInv, Timer
  PROVE  BookInv' /\ UNCHANGED <<now, book>>
<1>1. UNCHANGED <<now, sequencer, book>> /\ told <= now /\ told \in Nat /\ now \in Nat /\ InOrder
  BY TimerType, Numbers DEF BookInv
<1>2. CASE told' = now /\ channel' = channel
  <2>1. Increments' = Increments
    BY <1>2 DEF Increments
  <2>2. \A i \in Increments : channel[i].seq \in Nat
    BY Numbers DEF Increments
  <2>3. InOrder'
    BY <1>1, <1>2, <2>1, <2>2 DEF InOrder
  <2>4. \A n \in Nat : Ahead(n) => AheadNext(n)
    BY <1>2, <2>1 DEF Ahead, AheadNext
  <2>5. told' \in Nat /\ told <= told' /\ told' <= now'
    BY <1>1, <1>2
  <2> QED
    BY <1>1, <2>3, <2>4, <2>5, ElsewhereBook
<1>3. CASE told' = told /\ \E f \in FrameType : f.kind # "mbp" /\ channel' = Append(channel, f)
  <2>1. InOrder' /\ \A n \in Nat : Ahead(n) => AheadNext(n)
    BY <1>1, <1>3, ReplyOrder
  <2>2. told' \in Nat /\ told <= told' /\ told' <= now'
    BY <1>1, <1>3
  <2> QED
    BY <1>1, <2>1, <2>2, ElsewhereBook
<1> QED
  BY <1>2, <1>3, TimerType

\* Every step keeps the invariant, and is a step of the book as its readers see it.
LEMMA BookStep ==
  ASSUME TypeOK, BookInv, [Next]_vars
  PROVE  BookInv' /\ [Book!Next]_(Book!vars)
<1>1. told \in Nat /\ now \in Nat /\ told <= now
  BY Numbers DEF BookInv
<1>2. ASSUME UNCHANGED <<now, book>> PROVE [Book!Next]_(Book!vars)
  BY <1>2 DEF Book!vars
<1>3. ASSUME UNCHANGED <<told, channel, sequencer, book>>, now <= now', now' \in Nat PROVE BookInv'
  <2>1. Increments' = Increments
    BY <1>3 DEF Increments
  <2>2. InOrder'
    BY <1>3, <2>1 DEF InOrder, BookInv
  <2>3. \A n \in Nat : Ahead(n) => AheadNext(n)
    BY <1>3, <2>1 DEF Ahead, AheadNext
  <2>4. told' \in Nat /\ told <= told' /\ told' <= now'
    BY <1>1, <1>3
  <2> QED
    BY <1>3, <2>2, <2>3, <2>4, ElsewhereBook
<1>4. CASE Change
  <2>1. now' = now + 1 /\ UNCHANGED <<told, channel, sequencer, book>>
    BY <1>4 DEF Change
  <2>2. Book!Change
    BY <2>1 DEF Book!Change
  <2> QED
    BY <1>1, <1>3, <2>1, <2>2 DEF Book!Next
<1>5. CASE Push
  BY <1>2, <1>5, PushBook
<1>6. CASE Mbp \/ MbpSnapshot
  <2>1. BookInv' /\ (UNCHANGED book \/ Publishes) /\ now' = now
    BY <1>6, MbpBook, MbpSnapshotBook DEF Mbp, MbpSnapshot, Receive
  <2>2. CASE Publishes
    <3>1. PICK n \in Nat : book.sequence <= n /\ n <= now /\ n > 0 /\ book' = Book!BookAt(n)
      BY <2>2 DEF Publishes
    <3>2. n \in book.sequence..now
      BY <1>1, <3>1, Numbers
    <3>3. Book!Publish
      BY <2>1, <3>1, <3>2 DEF Book!Publish
    <3> QED
      BY <2>1, <3>3 DEF Book!Next
  <2> QED
    BY <1>2, <2>1, <2>2
<1>7. CASE ErrorReply
  <2>1. Receive("error") /\ UNCHANGED <<sequencer, book>>
    BY <1>7 DEF ErrorReply
  <2>2. InOrder' /\ (\A n \in Nat : Ahead(n) => AheadNext(n)) /\ told' = told /\ now' = now
    BY <2>1, ReceiveOrder, ReceiveType DEF BookInv
  <2>3. told' \in Nat /\ told <= told' /\ told' <= now'
    BY <1>1, <2>2
  <2> QED
    BY <1>2, <2>1, <2>2, <2>3, ElsewhereBook
<1>8. CASE Ready \/ UNCHANGED vars
  <2>1. UNCHANGED <<now, told, channel, sequencer, book>>
    BY <1>8 DEF Ready, exchange_vars, vars
  <2> QED
    BY <1>1, <1>2, <1>3, <2>1
<1>9. CASE Disconnected
  <2>1. channel' = <<>> /\ UNCHANGED <<now, told, sequencer, book>>
    BY <1>9 DEF Disconnected
  <2>2. Increments' = {}
    BY <2>1 DEF Increments
  <2>3. InOrder' /\ \A n \in Nat : AheadNext(n)
    BY <2>2 DEF InOrder, AheadNext
  <2>4. told' \in Nat /\ told <= told' /\ told' <= now'
    BY <1>1, <2>1
  <2> QED
    BY <1>2, <2>1, <2>3, <2>4, ElsewhereBook
<1>10. CASE Timer
  BY <1>2, <1>10, TimerBook
<1> QED
  BY <1>4, <1>5, <1>6, <1>7, <1>8, <1>9, <1>10 DEF Next

\* The invariant begins with the books, both empty.
LEMMA BookInit ==
  ASSUME Init
  PROVE  BookInv /\ Book!Init
<1>1. now = 1 /\ told = 0 /\ channel = <<>> /\ sequencer = Cleared
      /\ book = [sequence |-> 0, levels |-> {}]
  BY Zenon DEF Init, NoBook
<1>2. Increments = {}
  BY <1>1 DEF Increments
<1>3. book.sequence = 0 /\ book.levels = {} /\ 1..0 = {}
  BY <1>1
<1>4. sequencer.to = 0 /\ sequencer.state = "idle"
  BY <1>1, FixedTypes
<1>5. BookInv
  BY <1>1, <1>2, <1>3, <1>4 DEF BookInv, InOrder, Ahead
<1>6. Book!Init
  BY <1>1 DEF Book!Init, Book!NoBook
<1> QED
  BY <1>5, <1>6

\* The invariant holds.
LEMMA BookHolds == Spec => []BookInv
<1>1. TypeOK /\ BookInv /\ [Next]_vars => BookInv'
  BY BookStep
<1> QED
  BY <1>1, BookInit, TypeCorrect, PTL DEF Spec

\* For any number of changes, sessions, gaps and late snapshots: a symbol's book is published
\* as a whole, never ahead of the exchange and never back in time.
THEOREM FeedImplementsBook == Spec => ImplementsBook
<1>1. Init => Book!Init
  BY BookInit
<1>2. TypeOK /\ BookInv /\ [Next]_vars => [Book!Next]_(Book!vars)
  BY BookStep
<1> QED
  BY <1>1, <1>2, TypeCorrect, BookHolds, PTL DEF Spec, Book!Spec, ImplementsBook
-------------------------------------------------------------------------------
(* No gap stays unnoticed.                                                  *)

\* A session begins with its subscription; what follows in the queue are requests.
SubscribesFirst ==
  /\ status # "READY" => ~seen
  /\ status = "READY" /\ ~served => queue = <<"sub">> /\ channel = <<>> /\ ~seen
  /\ served => \A i \in DOMAIN queue : queue[i] = "req"

\* Before its first increment a session holds no request and no answer, and what the
\* sequencer waits for was lost with an earlier session.
NothingAskedYet ==
  ~seen => /\ \A i \in DOMAIN queue : queue[i] # "req"
           /\ \A i \in DOMAIN channel : channel[i].kind = "mbp"
           /\ lost \/ sequencer = Cleared

\* The increments on their way form a chain that ends with what was told.
Chained ==
  /\ \A i, j \in Increments :
       i < j /\ (\A k \in Increments : k <= i \/ j <= k) => channel[j].prev = channel[i].seq
  /\ \A i \in Increments : (\A j \in Increments : j <= i) => channel[i].seq = told

\* The sequencer is empty when it is idle, else its increments are in order; snapshots on
\* their way have a number.
WellHeld ==
  /\ sequencer.state = "idle" => sequencer.to = 0 /\ ~sequencer.asked
  /\ sequencer.state = "waiting" => sequencer.from <= sequencer.to
  /\ \A i \in DOMAIN channel : channel[i].kind = "snapshot" => channel[i].seq > 0

\* Whatever the state, what the sequencer has reached is what comes next.
InStep == status = "READY" /\ seen /\ sequencer.state # "idle" => Follows(sequencer.to)

\* What a book that is not live waits for.
Waits == AskedFor \/ lost \/ sequencer.retries > MaxRetries + 1
WaitsForBook == status = "READY" /\ seen /\ sequencer.state # "live" => Waits

GapInv == SubscribesFirst /\ NothingAskedYet /\ Chained /\ WellHeld /\ InStep /\ WaitsForBook

\* The invariant is what the property needs.
LEMMA GapImplies == GapInv => LiveBooksFollow /\ WaitingBooksAreAskedFor
BY DEF GapInv, InStep, WaitsForBook, Waits, LiveBooksFollow, WaitingBooksAreAskedFor

-------------------------------------------------------------------------------
(* The chain.                                                               *)

FollowsNext(to) ==
  /\ Increments' = {} => told' = to
  /\ \A i \in Increments' : (\A j \in Increments' : i <= j) => channel'[i].prev = to

\* A frame less: the chain goes on from the increment that was handled, or as it was.
LEMMA ReceiveChain ==
  ASSUME TypeOK, Chained, NEW kind, Receive(kind)
  PROVE  /\ Chained'
         /\ kind = "mbp" => FollowsNext(Head(channel).seq)
         /\ kind # "mbp" => \A n \in Nat : Follows(n) => FollowsNext(n)
<1>1. /\ channel # <<>> /\ channel' = Tail(channel) /\ told' = told
      /\ Head(channel).kind = kind /\ channel \in Seq(FrameType)
  BY ReceiveType DEF TypeOK
<1>2. /\ Head(channel) = channel[1] /\ 1 \in DOMAIN channel
      /\ \A i \in DOMAIN channel' : /\ i \in Nat \ {0} /\ i + 1 \in DOMAIN channel
                                    /\ channel'[i] = channel[i + 1]
      /\ \A i \in DOMAIN channel : i # 1 => i - 1 \in DOMAIN channel' /\ channel'[i - 1] = channel[i]
  BY <1>1, ReceiveTail
<1>3. \A i \in Increments' : i \in Nat \ {0} /\ i + 1 \in Increments /\ channel'[i] = channel[i + 1]
  BY <1>2 DEF Increments
<1>4. \A i \in Increments : i \in Nat \ {0} /\ (i # 1 => i - 1 \in Increments')
  BY <1>1, <1>2 DEF Increments
<1>5. 1 \in Increments <=> kind = "mbp"
  BY <1>1, <1>2 DEF Increments
<1>6. Chained'
  <2>1. ASSUME NEW i \in Increments', NEW j \in Increments', i < j, \A k \in Increments' : k <= i \/ j <= k
        PROVE  channel'[j].prev = channel'[i].seq
    <3>1. i < j /\ \A k \in Increments' : k <= i \/ j <= k
      BY <2>1
    <3>2. i \in Nat \ {0} /\ j \in Nat \ {0} /\ i + 1 \in Increments /\ j + 1 \in Increments
      BY <1>3
    <3>3. ASSUME NEW k \in Increments PROVE k <= i + 1 \/ j + 1 <= k
      <4>1. CASE k = 1
        BY <3>2, <4>1
      <4>2. CASE k # 1
        <5>1. k \in Nat /\ k - 1 \in Increments'
          BY <1>4, <4>2
        <5>2. k - 1 <= i \/ j <= k - 1
          BY <3>1, <5>1
        <5> QED
          BY <3>2, <5>1, <5>2
      <4> QED
        BY <4>1, <4>2
    <3>4. i + 1 < j + 1
      BY <3>1, <3>2
    <3>5. channel[j + 1].prev = channel[i + 1].seq
      BY <3>2, <3>3, <3>4 DEF Chained
    <3> QED
      BY <1>3, <3>5
  <2>2. ASSUME NEW i \in Increments', \A j \in Increments' : j <= i
        PROVE  channel'[i].seq = told'
    <3>1. i \in Nat \ {0} /\ i + 1 \in Increments
      BY <1>3
    <3>2. ASSUME NEW k \in Increments PROVE k <= i + 1
      <4>1. k # 1 => k - 1 <= i
        BY <1>4, <2>2
      <4> QED
        BY <1>4, <3>1, <4>1
    <3>3. channel[i + 1].seq = told
      BY <3>1, <3>2 DEF Chained
    <3> QED
      BY <1>1, <1>3, <3>3
  <2> QED
    BY <2>1, <2>2 DEF Chained
<1>7. ASSUME kind = "mbp" PROVE FollowsNext(Head(channel).seq)
  <2>1. 1 \in Increments
    BY <1>5, <1>7
  <2>2. ASSUME Increments' = {} PROVE told' = Head(channel).seq
    <3>1. \A j \in Increments : j <= 1
      BY <1>4, <2>2
    <3> QED
      BY <1>1, <1>2, <2>1, <3>1 DEF Chained
  <2>3. ASSUME NEW i \in Increments', \A j \in Increments' : i <= j
        PROVE  channel'[i].prev = Head(channel).seq
    <3>1. i \in Nat \ {0} /\ i + 1 \in Increments /\ channel'[i] = channel[i + 1]
      BY <1>3
    <3>2. ASSUME NEW k \in Increments PROVE k <= 1 \/ i + 1 <= k
      <4>1. k # 1 => i <= k - 1
        BY <1>4, <2>3
      <4> QED
        BY <1>4, <3>1, <4>1
    <3>3. 1 < i + 1
      BY <3>1
    <3>4. channel[i + 1].prev = channel[1].seq
      BY <2>1, <3>1, <3>2, <3>3 DEF Chained
    <3> QED
      BY <1>2, <3>1, <3>4
  <2> QED
    BY <2>2, <2>3 DEF FollowsNext
<1>8. ASSUME kind # "mbp", NEW n \in Nat, Follows(n) PROVE FollowsNext(n)
  <2>1. 1 \notin Increments
    BY <1>5, <1>8
  <2>2. ASSUME Increments' = {} PROVE told' = n
    <3>1. Increments = {}
      BY <1>4, <2>1, <2>2
    <3> QED
      BY <1>1, <1>8, <3>1 DEF Follows
  <2>3. ASSUME NEW i \in Increments', \A j \in Increments' : i <= j
        PROVE  channel'[i].prev = n
    <3>1. i \in Nat \ {0} /\ i + 1 \in Increments /\ channel'[i] = channel[i + 1]
      BY <1>3
    <3>2. ASSUME NEW k \in Increments PROVE i + 1 <= k
      <4>1. k \in Nat /\ k - 1 \in Increments'
        BY <1>4, <2>1
      <4>2. i <= k - 1
        BY <2>3, <4>1
      <4> QED
        BY <3>1, <4>1, <4>2
    <3>3. channel[i + 1].prev = n
      BY <1>8, <3>1, <3>2 DEF Follows
    <3> QED
      BY <3>1, <3>3
  <2> QED
    BY <2>2, <2>3 DEF FollowsNext
<1> QED
  BY <1>6, <1>7, <1>8

\* A frame more: an increment from what was told goes on with the chain, an answer leaves it.
LEMMA SendChain ==
  ASSUME TypeOK, Chained, NEW f \in FrameType, channel' = Append(channel, f),
         f.kind # "mbp" => told' = told,
         f.kind = "mbp" => f.prev = told /\ f.seq = told'
  PROVE  /\ Chained'
         /\ \A n \in Nat : Follows(n) => FollowsNext(n)
<1> DEFINE n == Len(channel) + 1
<1>1. /\ DOMAIN channel' = DOMAIN channel \cup {n} /\ channel'[n] = f
      /\ n \in Nat /\ \A i \in DOMAIN channel : i \in Nat /\ i < n /\ channel'[i] = channel[i]
  BY SendAppend DEF TypeOK
<1> HIDE DEF n
<1>2. \A i \in Increments : i \in Nat /\ i < n /\ i \in Increments' /\ channel'[i] = channel[i]
  BY <1>1 DEF Increments
<1>3. CASE f.kind # "mbp"
  <2>1. Increments' = Increments /\ told' = told
    BY <1>1, <1>3 DEF Increments
  <2>2. \A m \in Nat : Follows(m) => FollowsNext(m)
    BY <1>2, <2>1 DEF Follows, FollowsNext
  <2>3. \A i \in Increments' : i \in Increments /\ channel'[i] = channel[i]
    BY <1>2, <2>1
  <2>4. ASSUME NEW i \in Increments', NEW j \in Increments',
               i < j /\ \A k \in Increments' : k <= i \/ j <= k
        PROVE  channel'[j].prev = channel'[i].seq
    <3>1. i < j /\ \A k \in Increments : k <= i \/ j <= k
      BY <2>1, <2>4
    <3>2. channel[j].prev = channel[i].seq
      BY <2>3, <3>1 DEF Chained
    <3> QED
      BY <2>3, <3>2
  <2>5. ASSUME NEW i \in Increments', \A j \in Increments' : j <= i
        PROVE  channel'[i].seq = told'
    <3>1. \A j \in Increments : j <= i
      BY <2>1, <2>5
    <3> QED
      BY <2>1, <2>3, <3>1 DEF Chained
  <2>6. Chained'
    BY <2>4, <2>5 DEF Chained
  <2> QED
    BY <2>2, <2>6
<1>4. CASE f.kind = "mbp"
  <2>1. Increments' = Increments \cup {n} /\ n \notin Increments
    BY <1>1, <1>4 DEF Increments
  <2>2. ASSUME NEW i \in Increments', NEW j \in Increments', i < j, \A k \in Increments' : k <= i \/ j <= k
        PROVE  channel'[j].prev = channel'[i].seq
    <3>1. i < j /\ (\A k \in Increments' : k <= i \/ j <= k) /\ i \in Nat /\ j \in Nat
      BY <1>1, <1>2, <2>1, <2>2
    <3>2. i # n /\ i \in Increments
      BY <1>1, <1>2, <2>1, <3>1
    <3>3. CASE j = n
      <4>1. \A k \in Increments : k <= i
        <5> SUFFICES ASSUME NEW k \in Increments PROVE k <= i
          OBVIOUS
        <5>1. k \in Nat /\ k < n /\ k \in Increments'
          BY <1>2
        <5> QED
          BY <1>1, <3>1, <3>3, <5>1
      <4>2. channel[i].seq = told
        BY <3>2, <4>1 DEF Chained
      <4> QED
        BY <1>1, <1>2, <1>4, <3>2, <3>3, <4>2
    <3>4. CASE j # n
      <4>1. j \in Increments
        BY <2>1, <3>4
      <4>2. i < j /\ \A k \in Increments : k <= i \/ j <= k
        BY <2>1, <3>1
      <4> QED
        BY <1>2, <3>2, <4>1, <4>2 DEF Chained
    <3> QED
      BY <3>3, <3>4
  <2>3. ASSUME NEW i \in Increments', \A j \in Increments' : j <= i
        PROVE  channel'[i].seq = told'
    <3>1. i = n
      <4>1. n <= i
        BY <2>1, <2>3
      <4> QED
        BY <1>1, <1>2, <2>1, <4>1
    <3> QED
      BY <1>1, <1>4, <3>1
  <2>4. ASSUME NEW m \in Nat, Follows(m) PROVE FollowsNext(m)
    <3>1. Increments' # {}
      BY <2>1
    <3>2. ASSUME NEW i \in Increments', \A j \in Increments' : i <= j
          PROVE  channel'[i].prev = m
      <4>1. CASE Increments = {}
        BY <1>1, <1>4, <2>1, <2>4, <4>1 DEF Follows
      <4>2. CASE Increments # {}
        <5>1. i # n
          BY <1>1, <1>2, <2>1, <3>2, <4>2
        <5>2. i \in Increments /\ \A j \in Increments : i <= j
          BY <2>1, <3>2, <5>1
        <5> QED
          BY <1>2, <2>4, <5>2 DEF Follows
      <4> QED
        BY <4>1, <4>2
    <3> QED
      BY <3>1, <3>2 DEF FollowsNext
  <2> QED
    BY <2>2, <2>3, <2>4 DEF Chained
<1> QED
  BY <1>3, <1>4

-------------------------------------------------------------------------------
(* The requests.                                                            *)

Asks(q) == \E i \in DOMAIN q : q[i] = "req"
OnlyAsks(q) == \A i \in DOMAIN q : q[i] = "req"

\* A request more.
LEMMA AskMore ==
  ASSUME TypeOK, queue' = Append(queue, "req")
  PROVE  Asks(queue') /\ (OnlyAsks(queue) => OnlyAsks(queue'))
<1>1. queue \in Seq({"sub", "req"})
  BY DEF TypeOK
<1>2. /\ Len(queue') = Len(queue) + 1 /\ Len(queue) \in Nat
      /\ DOMAIN queue = 1..Len(queue) /\ DOMAIN queue' = 1..Len(queue')
      /\ queue'[Len(queue) + 1] = "req" /\ \A i \in 1..Len(queue) : queue'[i] = queue[i]
  BY <1>1
<1>3. Len(queue) + 1 \in DOMAIN queue'
  BY <1>2
<1>4. \A i \in DOMAIN queue' : i = Len(queue) + 1 \/ i \in DOMAIN queue
  BY <1>2
<1> QED
  BY <1>2, <1>3, <1>4 DEF Asks, OnlyAsks

\* A request for a snapshot is queued unless the retries are used up.
LEMMA RequestWaits ==
  ASSUME TypeOK, NEW kept \in SequencerType, RequestSnapshot(kept)
  PROVE  /\ Asks(queue') \/ sequencer'.retries > MaxRetries + 1
         /\ OnlyAsks(queue) => OnlyAsks(queue')
<1>1. CASE kept.retries > MaxRetries
  <2>1. queue' = queue
    BY <1>1, Zenon DEF RequestSnapshot
  <2>2. kept.retries \in Nat /\ sequencer'.retries = kept.retries + 1
    BY RequestSnapshotType DEF SequencerType
  <2> QED
    BY <1>1, <2>1, <2>2, BoundsAssumption
<1>2. CASE ~(kept.retries > MaxRetries)
  <2>1. queue' = Append(queue, "req")
    BY <1>2, Zenon DEF RequestSnapshot, Request
  <2> QED
    BY <2>1, AskMore
<1> QED
  BY <1>1, <1>2

\* Frames that stay on their way.
LEMMA ReceiveRest ==
  ASSUME TypeOK, NEW kind, Receive(kind), WellHeld
  PROVE  /\ \A i \in DOMAIN channel' : channel'[i].kind = "snapshot" => channel'[i].seq > 0
         /\ (kind = "mbp" /\ \E i \in DOMAIN channel : channel[i].kind # "mbp")
               => \E i \in DOMAIN channel' : channel'[i].kind # "mbp"
         /\ kind # "mbp" => \E i \in DOMAIN channel : channel[i].kind # "mbp"
         /\ kind = "snapshot" => Head(channel).seq > 0
<1>1. /\ channel # <<>> /\ channel' = Tail(channel) /\ Head(channel).kind = kind
      /\ channel \in Seq(FrameType)
  BY ReceiveType DEF TypeOK
<1>2. /\ Head(channel) = channel[1] /\ 1 \in DOMAIN channel
      /\ \A i \in DOMAIN channel' : i + 1 \in DOMAIN channel /\ channel'[i] = channel[i + 1]
      /\ \A i \in DOMAIN channel : i # 1 => i - 1 \in DOMAIN channel' /\ channel'[i - 1] = channel[i]
  BY <1>1, ReceiveTail
<1>3. \A i \in DOMAIN channel' : channel'[i].kind = "snapshot" => channel'[i].seq > 0
  BY <1>2 DEF WellHeld
<1>4. ASSUME kind = "mbp", NEW i \in DOMAIN channel, channel[i].kind # "mbp"
      PROVE  \E j \in DOMAIN channel' : channel'[j].kind # "mbp"
  BY <1>1, <1>2, <1>4
<1>5. kind = "snapshot" => Head(channel).seq > 0
  BY <1>1, <1>2 DEF WellHeld
<1> QED
  BY <1>1, <1>2, <1>3, <1>4, <1>5

-------------------------------------------------------------------------------
(* The steps.                                                               *)

\* An increment.
LEMMA MbpGap ==
  ASSUME TypeOK, BookInv, GapInv, Mbp
  PROVE  GapInv'
<1> DEFINE frame == Head(channel)
           kept == Kept(frame)
<1>0. Receive("mbp") /\ seen' = TRUE
  BY DEF Mbp
<1>1. /\ frame \in FrameType /\ frame.prev \in Nat /\ frame.seq \in Nat
      /\ UNCHANGED <<served, status, told>> /\ status = "READY" /\ channel # <<>>
  <2>1. frame \in FrameType /\ UNCHANGED <<served, status, told>> /\ status = "READY" /\ channel # <<>>
    BY <1>0, ReceiveType
  <2> HIDE DEF frame
  <2> QED
    BY <2>1 DEF FrameType
<1>2. frame.prev < frame.seq
  BY <1>0, ReceiveOrder DEF BookInv
<1>3. Chained' /\ FollowsNext(frame.seq)
  BY <1>0, ReceiveChain DEF GapInv
<1>4. \/ Resubscribe
      \/ PublishUpdate(frame)
      \/ PublishSnapshot(sequencer.held, kept)
      \/ /\ ~Breaks(frame) /\ sequencer.state # "live" /\ ~Joins(sequencer.held, kept)
         /\ \/ RequestSnapshot(kept)
            \/ (kept.asked \/ kept.held > kept.to) /\ sequencer' = kept /\ UNCHANGED <<queue, lost>>
  BY Zenon DEF Mbp
<1> HIDE DEF frame
<1>5. /\ kept \in SequencerType /\ kept.state = "waiting" /\ kept.to = frame.seq
      /\ kept.from = IF sequencer.state = "idle" THEN frame.prev ELSE sequencer.from
      /\ kept.held = sequencer.held /\ kept.asked = sequencer.asked
      /\ kept.retries = sequencer.retries
  BY <1>1, KeptType
<1> HIDE DEF kept
<1>6. served /\ OnlyAsks(queue) /\ served'
  BY <1>1 DEF GapInv, SubscribesFirst, OnlyAsks
<1>7. /\ WellHeld
      /\ \A i \in DOMAIN channel' : channel'[i].kind = "snapshot" => channel'[i].seq > 0
      /\ (\E i \in DOMAIN channel : channel[i].kind # "mbp")
            => \E i \in DOMAIN channel' : channel'[i].kind # "mbp"
  BY <1>0, ReceiveRest DEF GapInv
<1>8. ASSUME OnlyAsks(queue'),
             sequencer'.state = "idle" => sequencer'.to = 0 /\ ~sequencer'.asked,
             sequencer'.state = "waiting" => sequencer'.from <= sequencer'.to,
             sequencer'.state # "idle" => sequencer'.to = frame.seq,
             sequencer'.state # "live" => Waits'
      PROVE  GapInv'
  <2>1. SubscribesFirst'
    BY <1>0, <1>1, <1>6, <1>8 DEF SubscribesFirst, OnlyAsks
  <2>2. NothingAskedYet'
    BY <1>0 DEF NothingAskedYet
  <2>3. WellHeld'
    BY <1>7, <1>8 DEF WellHeld
  <2>4. InStep'
    BY <1>3, <1>8 DEF InStep, Follows, FollowsNext
  <2>5. WaitsForBook'
    BY <1>8 DEF WaitsForBook
  <2> QED
    BY <1>3, <2>1, <2>2, <2>3, <2>4, <2>5 DEF GapInv
<1>9. CASE Resubscribe
  <2>1. Asks(queue') /\ OnlyAsks(queue') /\ sequencer' = Cleared
    BY <1>6, <1>9, ResubscribeType, AskMore
  <2>2. Waits'
    BY <2>1 DEF Waits, AskedFor, Asks
  <2> QED
    BY <1>8, <2>1, <2>2, FixedTypes
<1>10. CASE PublishUpdate(frame)
  <2>1. sequencer' = Live(frame.seq) /\ queue' = queue
    BY <1>10 DEF PublishUpdate
  <2> QED
    BY <1>1, <1>6, <1>8, <2>1, FixedTypes
<1>11. CASE PublishSnapshot(sequencer.held, kept)
  <2>1. sequencer' = Live(frame.seq) /\ queue' = queue
    BY <1>5, <1>11 DEF PublishSnapshot
  <2> QED
    BY <1>1, <1>6, <1>8, <2>1, FixedTypes
<1>12. ~Breaks(frame) /\ sequencer.state # "live" => kept.from <= kept.to
  <2>1. sequencer.state \in {"idle", "waiting", "live"} /\ sequencer.from \in Nat /\ sequencer.to \in Nat
    BY DEF TypeOK, SequencerType
  <2>2. CASE sequencer.state = "idle"
    BY <1>1, <1>2, <1>5, <2>2
  <2>3. CASE sequencer.state = "waiting" /\ ~Breaks(frame)
    BY <1>1, <1>2, <1>5, <1>7, <2>1, <2>3 DEF Breaks, WellHeld
  <2> QED
    BY <2>1, <2>2, <2>3
<1>13. CASE ~Breaks(frame) /\ sequencer.state # "live" /\ RequestSnapshot(kept)
  <2>1. /\ Asks(queue') \/ sequencer'.retries > MaxRetries + 1
        /\ OnlyAsks(queue')
        /\ sequencer'.state = "waiting" /\ sequencer'.from = kept.from /\ sequencer'.to = kept.to
    BY <1>5, <1>6, <1>13, RequestWaits, RequestSnapshotType
  <2>2. Waits'
    BY <2>1 DEF Waits, AskedFor, Asks
  <2> QED
    BY <1>5, <1>8, <1>12, <1>13, <2>1, <2>2
<1>14. CASE /\ ~Breaks(frame) /\ sequencer.state # "live" /\ ~Joins(sequencer.held, kept)
            /\ kept.asked \/ kept.held > kept.to
            /\ sequencer' = kept /\ UNCHANGED <<queue, lost>>
  <2>1. Waits'
    <3>1. CASE kept.held > kept.to
      BY <1>14, <3>1 DEF Waits, AskedFor
    <3>2. CASE ~(kept.held > kept.to) /\ seen
      <4>1. sequencer.state = "waiting"
        BY <1>5, <1>7, <1>14, <3>2 DEF WellHeld, TypeOK, SequencerType
      <4>2. /\ sequencer.from \in Nat /\ sequencer.to \in Nat /\ sequencer.held \in Nat
            /\ sequencer.from <= sequencer.to
        BY <1>7, <4>1, Numbers DEF WellHeld
      <4>3. ~(sequencer.held > sequencer.to)
        BY <1>1, <1>5, <1>14, <3>2, <4>1, <4>2 DEF Joins
      <4>4. Waits
        BY <1>1, <3>2, <4>1 DEF GapInv, WaitsForBook
      <4> QED
        BY <1>5, <1>7, <1>14, <4>3, <4>4 DEF Waits, AskedFor
    <3>3. CASE ~seen
      <4>1. lost \/ sequencer = Cleared
        BY <3>3 DEF GapInv, NothingAskedYet
      <4>2. CASE sequencer = Cleared
        <5>1. ~kept.asked /\ kept.held = 0
          BY <1>5, <4>2 DEF Cleared
        <5> QED
          BY <1>1, <1>5, <1>14, <5>1
      <4> QED
        BY <1>14, <4>1, <4>2 DEF Waits
    <3> QED
      BY <3>1, <3>2, <3>3
  <2> QED
    BY <1>5, <1>6, <1>8, <1>12, <1>14, <2>1
<1> QED
  BY <1>4, <1>9, <1>10, <1>11, <1>13, <1>14

\* What an answer of the exchange leaves, whatever the sequencer makes of it.
LEMMA AnswerGap ==
  ASSUME TypeOK, GapInv, NEW kind, kind # "mbp", Receive(kind), seen' = seen,
         OnlyAsks(queue) => OnlyAsks(queue'),
         sequencer'.state = "idle" => sequencer'.to = 0 /\ ~sequencer'.asked,
         sequencer'.state = "waiting" => sequencer'.from <= sequencer'.to,
         sequencer'.state # "idle" => sequencer.state # "idle" /\ sequencer'.to = sequencer.to,
         sequencer'.state # "live" => Waits'
  PROVE  GapInv'
<1>1. UNCHANGED <<served, status, told>> /\ status = "READY" /\ channel # <<>>
  BY ReceiveType
<1>2. Chained' /\ \A n \in Nat : Follows(n) => FollowsNext(n)
  BY ReceiveChain DEF GapInv
<1>3. /\ \A i \in DOMAIN channel' : channel'[i].kind = "snapshot" => channel'[i].seq > 0
      /\ \E i \in DOMAIN channel : channel[i].kind # "mbp"
  BY ReceiveRest DEF GapInv
<1>4. seen
  BY <1>3 DEF GapInv, NothingAskedYet
<1>5. served /\ OnlyAsks(queue)
  BY <1>1 DEF GapInv, SubscribesFirst, OnlyAsks
<1>6. SubscribesFirst'
  BY <1>1, <1>4, <1>5 DEF SubscribesFirst, OnlyAsks
<1>7. NothingAskedYet'
  BY <1>4 DEF NothingAskedYet
<1>8. WellHeld'
  BY <1>3 DEF WellHeld
<1>9. InStep'
  BY <1>1, <1>2, <1>4, Numbers DEF GapInv, InStep, Follows, FollowsNext
<1>10. WaitsForBook'
  BY DEF WaitsForBook
<1> QED
  BY <1>2, <1>6, <1>7, <1>8, <1>9, <1>10 DEF GapInv

\* A snapshot.
LEMMA MbpSnapshotGap ==
  ASSUME TypeOK, GapInv, MbpSnapshot
  PROVE  GapInv'
<1> DEFINE s == Head(channel).seq
<1>0. Receive("snapshot") /\ seen' = seen
  BY DEF MbpSnapshot
<1>1. s \in Nat /\ s > 0
  <2>1. Head(channel) \in FrameType
    BY <1>0, ReceiveType
  <2>2. s > 0
    BY <1>0, ReceiveRest DEF GapInv
  <2> QED
    BY <2>1, <2>2 DEF FrameType
<1>2. \/ sequencer.state = "live" /\ UNCHANGED <<sequencer, queue, book, lost>>
      \/ sequencer.state = "waiting" /\ PublishSnapshot(s, sequencer)
      \/ Resubscribe
      \/ sequencer.state = "waiting" /\ RequestSnapshot(sequencer)
      \/ /\ sequencer.state = "idle" \/ (sequencer.state = "waiting" /\ s > sequencer.to)
         /\ sequencer' = [state |-> sequencer.state, from |-> sequencer.from,
                          to |-> sequencer.to, held |-> s,
                          asked |-> sequencer.asked, retries |-> sequencer.retries]
         /\ UNCHANGED <<queue, book, lost>>
  BY Zenon DEF MbpSnapshot
<1> HIDE DEF s
<1>3. sequencer \in SequencerType /\ sequencer.to \in Nat /\ WellHeld
  BY Numbers DEF TypeOK, GapInv
<1>4. CASE sequencer.state = "live" /\ UNCHANGED <<sequencer, queue, book, lost>>
  BY <1>0, <1>4, AnswerGap
<1>5. CASE sequencer.state = "waiting" /\ PublishSnapshot(s, sequencer)
  <2>1. sequencer' = Live(sequencer.to) /\ queue' = queue
    BY <1>5 DEF PublishSnapshot
  <2> QED
    BY <1>0, <1>3, <1>5, <2>1, FixedTypes, AnswerGap
<1>6. CASE Resubscribe
  <2>1. Asks(queue') /\ (OnlyAsks(queue) => OnlyAsks(queue')) /\ sequencer' = Cleared
    BY <1>6, ResubscribeType, AskMore
  <2>2. Waits'
    BY <2>1 DEF Waits, AskedFor, Asks
  <2> QED
    BY <1>0, <2>1, <2>2, FixedTypes, AnswerGap
<1>7. CASE sequencer.state = "waiting" /\ RequestSnapshot(sequencer)
  <2>1. /\ Asks(queue') \/ sequencer'.retries > MaxRetries + 1
        /\ OnlyAsks(queue) => OnlyAsks(queue')
        /\ sequencer'.state = "waiting" /\ sequencer'.from = sequencer.from
        /\ sequencer'.to = sequencer.to
    BY <1>3, <1>7, RequestWaits, RequestSnapshotType
  <2>2. Waits'
    BY <2>1 DEF Waits, AskedFor, Asks
  <2> QED
    BY <1>0, <1>3, <1>7, <2>1, <2>2, AnswerGap DEF WellHeld
<1>8. CASE /\ sequencer.state = "idle" \/ (sequencer.state = "waiting" /\ s > sequencer.to)
           /\ sequencer' = [state |-> sequencer.state, from |-> sequencer.from,
                            to |-> sequencer.to, held |-> s,
                            asked |-> sequencer.asked, retries |-> sequencer.retries]
           /\ UNCHANGED <<queue, book, lost>>
  <2>1. /\ sequencer'.state = sequencer.state /\ sequencer'.to = sequencer.to
        /\ sequencer'.from = sequencer.from /\ sequencer'.held = s
        /\ sequencer'.asked = sequencer.asked
    BY <1>1, <1>8, HeldType
  <2>2. s > sequencer.to
    BY <1>1, <1>3, <1>8 DEF WellHeld
  <2>3. Waits'
    BY <2>1, <2>2 DEF Waits, AskedFor
  <2> QED
    BY <1>0, <1>3, <1>8, <2>1, <2>3, AnswerGap DEF WellHeld
<1> QED
  BY <1>2, <1>4, <1>5, <1>6, <1>7, <1>8

\* A refusal.
LEMMA ErrorReplyGap ==
  ASSUME TypeOK, GapInv, ErrorReply
  PROVE  GapInv'
<1>1. Receive("error") /\ lost' = TRUE /\ UNCHANGED <<queue, sequencer, book, seen>>
  BY DEF ErrorReply
<1>2. Waits'
  BY <1>1 DEF Waits
<1> QED
  BY <1>1, <1>2, AnswerGap DEF GapInv, WellHeld

\* The exchange pushes an increment.
LEMMA PushGap ==
  ASSUME TypeOK, GapInv, Push
  PROVE  GapInv'
<1> DEFINE f == Increment(told, now)
<1>1. /\ told \in Nat /\ now \in Nat /\ served /\ channel \in Seq(FrameType)
      /\ channel' = Append(channel, f) /\ told' = now
      /\ UNCHANGED <<served, status, queue, sequencer, seen, lost>>
  BY Numbers DEF Push, TypeOK
<1>2. f \in FrameType /\ f.kind = "mbp" /\ f.prev = told /\ f.seq = now
  BY <1>1 DEF Increment, FrameType
<1> HIDE DEF f
<1>3. Chained' /\ \A n \in Nat : Follows(n) => FollowsNext(n)
  BY <1>1, <1>2, SendChain DEF GapInv
<1>4. /\ DOMAIN channel' = DOMAIN channel \cup {Len(channel) + 1}
      /\ channel'[Len(channel) + 1] = f
      /\ \A i \in DOMAIN channel : channel'[i] = channel[i]
  BY <1>1, <1>2, SendAppend
<1>5. SubscribesFirst'
  BY <1>1 DEF GapInv, SubscribesFirst
<1>6. NothingAskedYet'
  BY <1>1, <1>2, <1>4 DEF GapInv, NothingAskedYet
<1>7. WellHeld'
  BY <1>1, <1>2, <1>4 DEF GapInv, WellHeld
<1>8. InStep'
  BY <1>1, <1>3, Numbers DEF GapInv, InStep, Follows, FollowsNext
<1>9. WaitsForBook'
  BY <1>1, <1>4 DEF GapInv, WaitsForBook, Waits, AskedFor
<1> QED
  BY <1>3, <1>5, <1>6, <1>7, <1>8, <1>9 DEF GapInv

\* The timer sends the subscription, or a request that is answered.
LEMMA TimerGap ==
  ASSUME TypeOK, GapInv, Timer
  PROVE  GapInv'
<1>1. /\ queue # <<>> /\ queue' = Tail(queue) /\ queue \in Seq({"sub", "req"})
      /\ status = "READY" /\ UNCHANGED <<now, status, sequencer, seen, lost>>
  BY TimerType DEF TypeOK
<1>2. /\ Head(queue) = queue[1] /\ 1 \in DOMAIN queue
      /\ \A i \in DOMAIN queue' : i + 1 \in DOMAIN queue /\ queue'[i] = queue[i + 1]
  <2>1. /\ Head(queue) = queue[1] /\ Len(queue) \in Nat \ {0} /\ DOMAIN queue = 1..Len(queue)
        /\ queue' \in Seq({"sub", "req"}) /\ Len(queue') = Len(queue) - 1
        /\ \A i \in 1..Len(queue') : queue'[i] = queue[i + 1]
    BY <1>1, HeadTailProperties
  <2>2. DOMAIN queue' = 1..(Len(queue) - 1)
    BY <2>1
  <2> QED
    BY <2>1, <2>2
<1>3. CASE Head(queue) = "sub" /\ served' = TRUE /\ told' = now /\ channel' = channel
  <2>1. ~served
    BY <1>2, <1>3 DEF GapInv, SubscribesFirst
  <2>2. queue = <<"sub">> /\ channel = <<>> /\ ~seen
    BY <1>1, <2>1 DEF GapInv, SubscribesFirst
  <2>3. queue' = <<>> /\ channel' = <<>> /\ ~seen'
    BY <1>1, <1>3, <2>2
  <2>4. DOMAIN queue' = {} /\ DOMAIN channel' = {} /\ Increments' = {}
    BY <2>3 DEF Increments
  <2>5. SubscribesFirst'
    BY <1>1, <1>3, <2>3, <2>4 DEF SubscribesFirst
  <2>6. NothingAskedYet'
    BY <1>1, <2>2, <2>4 DEF GapInv, NothingAskedYet
  <2>7. Chained' /\ WellHeld' /\ InStep' /\ WaitsForBook'
    BY <1>1, <2>3, <2>4 DEF GapInv, Chained, WellHeld, InStep, WaitsForBook
  <2> QED
    BY <2>5, <2>6, <2>7 DEF GapInv
<1>4. CASE /\ Head(queue) = "req" /\ UNCHANGED <<served, told>>
           /\ \E f \in FrameType : /\ f.kind # "mbp" /\ (f.kind = "snapshot" => f.seq > 0)
                                   /\ channel' = Append(channel, f)
  <2>1. PICK f \in FrameType : /\ f.kind # "mbp" /\ (f.kind = "snapshot" => f.seq > 0)
                               /\ channel' = Append(channel, f)
    BY <1>4
  <2>2. seen
    BY <1>2, <1>4 DEF GapInv, NothingAskedYet
  <2>3. served
    BY <1>1, <2>2 DEF GapInv, SubscribesFirst
  <2>4. Chained' /\ \A n \in Nat : Follows(n) => FollowsNext(n)
    BY <1>4, <2>1, SendChain DEF GapInv
  <2>5. /\ DOMAIN channel' = DOMAIN channel \cup {Len(channel) + 1}
        /\ channel'[Len(channel) + 1] = f
        /\ \A i \in DOMAIN channel : channel'[i] = channel[i]
    BY <2>1, SendAppend DEF TypeOK
  <2>6. SubscribesFirst'
    BY <1>1, <1>2, <1>4, <2>2, <2>3 DEF GapInv, SubscribesFirst
  <2>7. NothingAskedYet'
    BY <1>1, <2>2 DEF NothingAskedYet
  <2>8. WellHeld'
    BY <1>1, <2>1, <2>5 DEF GapInv, WellHeld
  <2>9. InStep'
    BY <1>1, <2>4, Numbers DEF GapInv, InStep, Follows, FollowsNext
  <2>10. WaitsForBook'
    BY <2>1, <2>5 DEF WaitsForBook, Waits, AskedFor
  <2> QED
    BY <2>4, <2>6, <2>7, <2>8, <2>9, <2>10 DEF GapInv
<1> QED
  BY <1>3, <1>4, TimerType

\* The websocket comes and goes.
LEMMA LinkGap ==
  ASSUME TypeOK, GapInv, Ready \/ Disconnected
  PROVE  GapInv'
<1>1. CASE Ready
  <2>1. /\ status # "READY" /\ queue = <<>> /\ channel = <<>> /\ ~served /\ ~seen
        /\ queue' = Append(queue, "sub") /\ UNCHANGED <<served, told, channel, sequencer, seen, lost>>
    BY <1>1 DEF Ready, exchange_vars, TypeOK, GapInv, SubscribesFirst
  <2>2. queue' = <<"sub">> /\ \A i \in DOMAIN queue' : queue'[i] # "req"
    <3>1. queue' = <<"sub">>
      BY <2>1
    <3>2. DOMAIN <<"sub">> = {1} /\ <<"sub">>[1] = "sub"
      OBVIOUS
    <3> QED
      BY <3>1, <3>2
  <2>3. DOMAIN channel' = {} /\ Increments' = {}
    BY <2>1 DEF Increments
  <2>4. SubscribesFirst' /\ NothingAskedYet'
    BY <2>1, <2>2, <2>3 DEF SubscribesFirst, NothingAskedYet, GapInv
  <2>5. Chained' /\ WellHeld' /\ InStep' /\ WaitsForBook'
    BY <2>1, <2>3 DEF GapInv, Chained, WellHeld, InStep, WaitsForBook
  <2> QED
    BY <2>4, <2>5 DEF GapInv
<1>2. CASE Disconnected
  <2>1. /\ status' = "DISCONNECTED" /\ queue' = <<>> /\ channel' = <<>> /\ served' = FALSE
        /\ seen' = FALSE /\ lost' = TRUE /\ UNCHANGED <<told, sequencer>>
    BY <1>2 DEF Disconnected
  <2>2. DOMAIN channel' = {} /\ DOMAIN queue' = {} /\ Increments' = {}
    BY <2>1 DEF Increments
  <2>3. SubscribesFirst' /\ NothingAskedYet'
    BY <2>1, <2>2 DEF SubscribesFirst, NothingAskedYet
  <2>4. Chained' /\ WellHeld' /\ InStep' /\ WaitsForBook'
    BY <2>1, <2>2 DEF GapInv, Chained, WellHeld, InStep, WaitsForBook
  <2> QED
    BY <2>3, <2>4 DEF GapInv
<1> QED
  BY <1>1, <1>2

\* The invariant holds for any number of changes, retries and sessions.
LEMMA GapInvariance == Spec => []GapInv
<1>1. Init => GapInv
  <2> SUFFICES ASSUME Init PROVE GapInv
    OBVIOUS
  <2>1. /\ channel = <<>> /\ status = "DISCONNECTED" /\ queue = <<>> /\ sequencer = Cleared
        /\ ~served /\ ~seen
    BY Zenon DEF Init
  <2>2. DOMAIN channel = {} /\ DOMAIN queue = {} /\ Increments = {}
    BY <2>1 DEF Increments
  <2>3. SubscribesFirst /\ NothingAskedYet /\ InStep /\ WaitsForBook
    BY <2>1, <2>2 DEF SubscribesFirst, NothingAskedYet, InStep, WaitsForBook
  <2>4. Chained /\ WellHeld
    BY <2>1, <2>2, FixedTypes DEF Chained, WellHeld
  <2> QED
    BY <2>3, <2>4 DEF GapInv
<1>2. TypeOK /\ BookInv /\ GapInv /\ [Next]_vars => GapInv'
  <2> SUFFICES ASSUME TypeOK, BookInv, GapInv, [Next]_vars PROVE GapInv'
    OBVIOUS
  <2>1. CASE Change \/ UNCHANGED vars
    <3>1. UNCHANGED <<served, told, channel, status, queue, sequencer, seen, lost>>
      BY <2>1 DEF Change, vars, exchange_vars
    <3>2. Increments' = Increments
      BY <3>1 DEF Increments
    <3>3. Chained'
      BY <3>1, <3>2 DEF GapInv, Chained
    <3>4. SubscribesFirst' /\ NothingAskedYet' /\ WellHeld'
      BY <3>1 DEF GapInv, SubscribesFirst, NothingAskedYet, WellHeld
    <3>5. InStep' /\ WaitsForBook'
      BY <3>1, <3>2 DEF GapInv, InStep, Follows, WaitsForBook, Waits, AskedFor
    <3> QED
      BY <3>3, <3>4, <3>5 DEF GapInv
  <2> QED
    BY <2>1, PushGap, MbpGap, MbpSnapshotGap, ErrorReplyGap, LinkGap, TimerGap DEF Next
<1> QED
  BY <1>1, <1>2, TypeCorrect, BookHolds, PTL DEF Spec

\* A live book is in step with what the exchange told, once an increment of the session has
\* been handled: over any gaps, refusals, retries and lost sessions, without exception.
THEOREM GapsAreNoticed == Spec => []LiveBooksFollow
BY GapInvariance, GapImplies, PTL

\* A book that waits is asked for, but for a request that was lost with an earlier session
\* or refused and for retries that are used up.
THEOREM WaitingBooksAsked == Spec => []WaitingBooksAreAskedFor
BY GapInvariance, GapImplies, PTL
================================================================================
