---------------------------- MODULE BlockSource ----------------------------
(***************************************************************************)
(* One active block source (common/blockSource.cpp) with the producer that *)
(* delivers its headers, the peers that download the blocks                *)
(* (Node::scheduleBlocksDownload) and Node::Sync, which gives up a source  *)
(* that stands still and starts another.  Blocks are their heights on the  *)
(* producer's chain, 0 is genesis.  Headers messages are received in order *)
(* and handled by threads that overtake each other.  processTask runs in   *)
(* the combiner and is one step; so is a dequeue.  The probes              *)
(* that check a slave peer's chain are left out.                           *)
(***************************************************************************)
EXTENDS Integers, Sequences, FiniteSets, SequencesExt

CONSTANTS
  Top,         \* height of the producer's chain
  HeaderBatch, \* headers in a message
  BlockBatch,  \* batchSize of a download
  CacheLimit,  \* blocks received and not connected that fill the cache
  Threads,     \* worker threads: slots of LastDequeued_
  MaxLosses    \* bound: replies and blocks that never come, headers that are not accepted

SourceAssumption ==
  Top \in Nat \ {0} /\ HeaderBatch \in Nat \ {0} /\ BlockBatch \in Nat \ {0} /\ CacheLimit \in Nat \ {0}

VARIABLES
  best, have,      \* height of the best chain, blocks with BFDataWriteStarted
  wire,            \* replies under way, by the height of their first header
  expect,          \* headerChainHeight of the producer
  msgs,            \* headers messages being handled
  inFlight, lastPortion, headersFinished,  \* HeadersInFlight_, HeadersLastPortion_, HeadersFinished_
  released,        \* DownloadingFinished_
  lastKnown,       \* LastKnownIndex_
  enqueued,        \* EnqueuedTasks_: batches that came too early
  queue, hp,       \* DownloadQueue_, HighPriorityDownloadQueue_
  slots, frontier, \* LastDequeued_ of every thread, ReceivedFrontier_
  hand,            \* blocks a thread has dequeued and not yet asked for
  asked,           \* age of every block's last request: DownloadingStartTime
  owed,            \* blocks a peer was asked for and may still deliver
  starved,         \* a dequeue has left the queue alone since the source last moved
  first, taken,    \* history: the source's first block, those dequeued from its queue
  losses

source == <<inFlight, lastPortion, headersFinished, released, lastKnown, enqueued, queue, hp, slots, starved, first, taken>>
node == <<best, have, frontier, hand, asked, owed, losses>>
net == <<wire, expect, msgs>>
vars == <<source, node, net>>

Heights == 1..Top
Null == -1
From(a, b) == [i \in 1..(b - a + 1) |-> a + i - 1]
OnChain(b) == b <= best
downloadFinished == released \/ (headersFinished /\ (lastKnown = Null \/ OnChain(lastKnown)))
overflow == Cardinality({b \in have : ~OnChain(b)}) >= CacheLimit

Init ==
  /\ best = 0 /\ have = {} /\ frontier = 0 /\ hand = [p \in Threads |-> <<>>]
  /\ asked = [b \in Heights |-> "never"] /\ owed = {} /\ losses = 0
  /\ wire = <<1>> /\ expect = 0 /\ msgs = {}
  /\ inFlight = 0 /\ lastPortion = FALSE /\ headersFinished = FALSE /\ released = FALSE /\ lastKnown = Null
  /\ enqueued = {} /\ queue = <<>> /\ hp = <<>> /\ slots = [p \in Threads |-> 0] /\ starved = FALSE
  /\ first = Null /\ taken = {}

-----------------------------------------------------------------------------
\* Headers

\* onMessage: the message is accounted in the source before the next one is read
Receive ==
  /\ wire # <<>> /\ wire' = Tail(wire)
  /\ LET from == Head(wire)
         id == CHOOSE i \in 1..(Cardinality(msgs) + 1) : \A m \in msgs : m.id # i
     IN msgs' = msgs \union {[id |-> id, from |-> from, to |-> Min({from + HeaderBatch - 1, Top}),
                              asking |-> TRUE, counted |-> TRUE]}
  /\ inFlight' = inFlight + 1
  /\ UNCHANGED <<expect, node, lastPortion, headersFinished, released, lastKnown, enqueued, queue, hp, slots, starved, first, taken>>

IsEmpty(m) == m.from > Top
Unexpected(m) == ~IsEmpty(m) /\ expect \notin {Null, m.from - 1}

\* Mutant: the marker finishes the headers by itself.
SettleEager(m, last) ==
  /\ inFlight' = IF m.counted THEN inFlight - 1 ELSE inFlight
  /\ lastPortion' = last
  /\ headersFinished' = (headersFinished \/ last)

\* The end of processTask: the accounting decides whether the headers are over
Settle(m, last) ==
  /\ inFlight' = IF m.counted THEN inFlight - 1 ELSE inFlight
  /\ lastPortion' = last
  /\ headersFinished' = (headersFinished \/ (last /\ inFlight' = 0))

\* onHeaders, Node::Sync: the next headers are asked for before these are verified
AskNext(m) ==
  /\ m.asking /\ ~IsEmpty(m) /\ ~Unexpected(m)
  /\ wire' = Append(wire, m.to + 1) /\ expect' = m.to
  /\ msgs' = (msgs \ {m}) \union {[m EXCEPT !.asking = FALSE]}
  /\ UNCHANGED <<source, node>>

\* An unexpected message, or one whose peer has left the source: the token posts Cancel
Cancel(m) ==
  /\ m.asking /\ (Unexpected(m) \/ downloadFinished)
  /\ msgs' = msgs \ {m} /\ Settle(m, lastPortion)
  /\ UNCHANGED <<wire, expect, node, released, lastKnown, enqueued, queue, hp, slots, starved, first, taken>>

\* Headers that do not link or lack work: Cancel, and the source is released with its producer
Reject(m) ==
  /\ ~m.asking /\ losses < MaxLosses /\ losses' = losses + 1
  /\ msgs' = msgs \ {m} /\ inFlight' = IF m.counted THEN inFlight - 1 ELSE inFlight
  /\ released' = TRUE /\ headersFinished' = TRUE
  /\ UNCHANGED <<wire, expect, best, have, frontier, hand, asked, owed, lastPortion, lastKnown, enqueued, queue, hp,
                 slots, starved, first, taken>>

\* The empty message: LastPortion
Marker(m) ==
  /\ m.asking /\ IsEmpty(m)
  /\ msgs' = msgs \ {m} /\ Settle(m, TRUE)
  /\ UNCHANGED <<wire, expect, node, released, lastKnown, enqueued, queue, hp, slots, starved, first, taken>>

\* The loop over EnqueuedTasks_: batches that follow one another from height b on
RECURSIVE Chained(_, _)
Chained(waiting, b) ==
  IF \E w \in waiting : w.from = b + 1
  THEN LET w == CHOOSE x \in waiting : x.from = b + 1 IN Chained(waiting \ {w}, w.to)
  ELSE [rest |-> waiting, last |-> b]

Follows(m) == (lastKnown = Null /\ OnChain(m.from - 1)) \/ lastKnown = m.from - 1

\* Batch: appended with everything that waited for it, or kept until its turn
Batch(m) ==
  /\ ~m.asking
  /\ msgs' = msgs \ {m} /\ Settle(m, lastPortion)
  /\ IF Follows(m)
     THEN LET all == Chained(enqueued, m.to)
          IN /\ queue' = queue \o From(m.from, all.last)
             /\ lastKnown' = all.last /\ enqueued' = all.rest /\ starved' = FALSE
             /\ first' = IF first = Null THEN m.from ELSE first
     ELSE /\ enqueued' = IF \E w \in enqueued : w.from = m.from THEN enqueued
                         ELSE enqueued \union {[from |-> m.from, to |-> m.to]}
          /\ UNCHANGED <<queue, lastKnown, starved, first>>
  /\ UNCHANGED <<wire, expect, node, released, hp, slots, taken>>

\* The producer falls silent
LoseReply ==
  /\ wire # <<>> /\ losses < MaxLosses
  /\ wire' = Tail(wire) /\ losses' = losses + 1
  /\ UNCHANGED <<expect, msgs, source, best, have, frontier, hand, asked, owed>>

-----------------------------------------------------------------------------
\* Blocks

Prefix(seq) == SubSeq(seq, 1, Min({Len(seq), BlockBatch}))
Drop(seq, n) == SubSeq(seq, n + 1, Len(seq))

\* Mutant: only the slots of the threads are looked at.
AnchorSlots == Max({0} \union {slots[p] : p \in Threads})

Anchor == Max({frontier} \union {slots[p] : p \in Threads})

\* processTask(TaskHP): from the anchor down to the chain, what nobody has delivered in time
Stalled == SelectSeq(From(best + 1, Anchor), LAMBDA b : b \notin have /\ asked[b] # "fresh")

\* scheduleBlocksDownload up to the blocks in hand.  A stub whose header another thread still
\* writes goes to the back of the queue and ends the batch after k blocks (it is written within
\* the minute of stalled).
Dequeue(p) ==
  /\ ~downloadFinished /\ hand[p] = <<>>
  /\ LET collect == hp = <<>> /\ (overflow \/ (queue = <<>> /\ headersFinished))
         urgent == IF collect THEN Stalled ELSE hp
         useQueue == urgent = <<>> /\ ~overflow
     IN \E k \in 0..Len(Prefix(queue)) :
          /\ hp' = Drop(urgent, Len(Prefix(urgent)))
          /\ IF useQueue
             THEN /\ hand' = [hand EXCEPT ![p] = SubSeq(queue, 1, k)]
                  /\ queue' = IF k = Len(Prefix(queue)) THEN Drop(queue, k)
                              ELSE Append(Drop(queue, k + 1), queue[k + 1])
                  /\ taken' = taken \union ToSet(SubSeq(queue, 1, k))
                  /\ starved' = (queue = <<>>)
             ELSE /\ k = 0 /\ hand' = [hand EXCEPT ![p] = Prefix(urgent)]
                  /\ starved' = TRUE /\ UNCHANGED <<queue, taken>>
          /\ slots' = IF hand'[p] = <<>> THEN slots ELSE [slots EXCEPT ![p] = Last(hand'[p])]
  /\ UNCHANGED <<best, have, frontier, asked, owed, losses, inFlight, lastPortion, headersFinished, released,
                 lastKnown, enqueued, first, net>>

\* The rest of scheduleBlocksDownload: the blocks nobody writes and nobody was asked for lately
Request(p) ==
  /\ hand[p] # <<>> /\ hand' = [hand EXCEPT ![p] = <<>>]
  /\ LET wanted == {b \in ToSet(hand[p]) : b \notin have /\ asked[b] \in {"never", "old"}}
     IN asked' = [b \in Heights |-> IF b \in wanted THEN "fresh" ELSE asked[b]] /\ owed' = owed \union wanted
  /\ UNCHANGED <<best, have, frontier, losses, source, net>>

\* The eighth second makes a block stalled, the ninth lets it be asked for again
Age(b) ==
  /\ asked[b] \in {"fresh", "eight"}
  /\ asked' = [asked EXCEPT ![b] = IF @ = "fresh" THEN "eight" ELSE "old"]
  /\ UNCHANGED <<best, have, frontier, hand, owed, losses, source, net>>

\* Node::Sync of a block
Deliver(b) ==
  /\ b \in owed /\ owed' = owed \ {b}
  /\ have' = have \union {b} /\ frontier' = Max({frontier, b})
  /\ UNCHANGED <<best, hand, asked, losses, source, net>>

\* A block never comes, or comes unreadable; from the producer that also releases the source
Lose(b) ==
  /\ b \in owed /\ owed' = owed \ {b}
  /\ losses < MaxLosses /\ losses' = losses + 1
  /\ \E last \in BOOLEAN : released' = (released \/ last) /\ headersFinished' = (headersFinished \/ last)
  /\ UNCHANGED <<best, have, frontier, hand, asked, net, inFlight, lastPortion, lastKnown, enqueued, queue, hp, slots,
                 starved, first, taken>>

\* The pipeline connects
Connect ==
  /\ best + 1 \in have
  /\ best' = best + 1 /\ starved' = FALSE
  /\ UNCHANGED <<have, frontier, hand, asked, owed, losses, net, inFlight, lastPortion, headersFinished, released,
                 lastKnown, enqueued, queue, hp, slots, first, taken>>

-----------------------------------------------------------------------------
\* BlockSource::stalled: a minute without a change, in which everything under way has ended
stalled == starved /\ wire = <<>> /\ msgs = {} /\ owed = {} /\ best + 1 \notin have
           /\ \A p \in Threads : hand[p] = <<>>

\* Node::Sync: a source that is over or stands still is replaced, and headers are asked for from the
\* best chain.  Messages not yet bound to the old source meet the new one, which did not count them.
Restart ==
  /\ best < Top /\ (downloadFinished \/ stalled)
  /\ wire' = Append(wire, best + 1)
  /\ expect' = IF best = 0 THEN 0 ELSE Null
  /\ msgs' = {[m EXCEPT !.counted = FALSE] : m \in {n \in msgs : n.asking}}
  /\ inFlight' = 0 /\ lastPortion' = FALSE /\ headersFinished' = FALSE /\ released' = FALSE /\ lastKnown' = Null
  /\ enqueued' = {} /\ queue' = <<>> /\ hp' = <<>> /\ slots' = [p \in Threads |-> 0] /\ starved' = FALSE
  /\ first' = Null /\ taken' = {}
  /\ UNCHANGED node

Synced == best = Top /\ UNCHANGED vars

Handle(m) == AskNext(m) \/ Cancel(m) \/ Marker(m) \/ Batch(m)

Next ==
  \/ Receive \/ LoseReply \/ Connect \/ Restart \/ Synced
  \/ \E m \in msgs : Handle(m) \/ Reject(m)
  \/ \E p \in Threads : Dequeue(p) \/ Request(p)
  \/ \E b \in Heights : Age(b) \/ Deliver(b) \/ Lose(b)

Spec == Init /\ [][Next]_vars

\* Threads run, timers fire, a peer delivers what it does not lose, stubs get written.  Strong for
\* Batch: verifying a batch takes milliseconds and does not lose to the 4 s timer of Sync for ever.
FairSpec ==
  /\ Spec /\ WF_vars(Receive) /\ WF_vars(Connect) /\ WF_vars(Restart)
  /\ WF_vars(\E m \in msgs : Handle(m)) /\ SF_vars(\E m \in msgs : Follows(m) /\ Batch(m))
  /\ \A p \in Threads : WF_vars(Dequeue(p) /\ (starved' \/ hand'[p] # <<>>)) /\ WF_vars(Request(p))
  /\ \A b \in Heights : WF_vars(Deliver(b)) /\ WF_vars(Age(b))

-----------------------------------------------------------------------------
\* Properties

\* HeadersInFlight_ counts exactly the messages of this source that are still being handled: each
\* of them ends in one task, a dropped one in Cancel (blockSource.h:105-107).
TypeOK ==
  /\ best \in 0..Top /\ have \subseteq Heights /\ lastKnown \in {Null} \union Heights
  /\ inFlight = Cardinality({m \in msgs : m.counted})

\* The marker overtakes batches that are still being verified, yet as long as nothing was lost the
\* headers are finished only when all the producer's headers are queued and no block still waits
\* (blockSource.cpp:81-86).
FinishedIsComplete == headersFinished /\ losses = 0 => lastKnown = Top /\ \A w \in enqueued : OnChain(w.to)

\* Whatever order the batches come in and whichever stubs go back, a source has queued exactly the
\* blocks from its first one to LastKnownIndex_, each of them once (blockSource.cpp:60-76, 209-222).
NoHeaderSkipped ==
  lastKnown # Null =>
    /\ ToSet(queue) \union taken = first..lastKnown
    /\ ToSet(queue) \intersect taken = {} /\ Cardinality(ToSet(queue)) = Len(queue)

\* The node gets the producer's chain, whatever is lost, rejected or delayed on the way and although
\* a full cache lets only holes be asked for (blockSource.cpp:92-112, network.cpp:1276-1278).
CatchesUp == <>(best = Top)
=============================================================================
