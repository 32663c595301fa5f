---------------------------- MODULE PeerDownload ----------------------------
(***************************************************************************)
(* The download loop of one peer (BTC/network.cpp): the word               *)
(* blockDownloading holds the state of the loop in its low four bits (0    *)
(* idle, 1 choosing a batch, 2 batch asked for) and the handlers inside in *)
(* the others.  Several threads handle messages of the peer, its timer and *)
(* the node's periodic Sync at the same time.  A step is one access to the *)
(* word, to the peer's BlockSource_, or to the state around them.          *)
(***************************************************************************)
EXTENDS Integers, FiniteSets

CONSTANTS
  Threads, Blocks,
  Sources, None,
  BlocksOf,      \* [Sources -> SUBSET Blocks]: the chain of a source
  After,         \* [Sources -> source or None]: the next source of the list
  Range,         \* the word is an unsigned integer below this
  MaxBatches, MaxRelays, MaxLeaves, MaxConnects  \* bounds: batches, blocks nobody asked for, losses of the source, connects

DownloadAssumption == Range > 16 * (Cardinality(Threads) + 2) /\ None \notin Sources

VARIABLES
  word,       \* blockDownloading
  received,   \* receivedBlocks
  scheduled,  \* ScheduledToDownload_
  source,     \* BlockSource_ of the peer
  armed,      \* blockDownloadEvent is started
  bulk,       \* the last setBulkFeed
  sent,       \* blocks asked for that the peer has not delivered
  have,       \* blocks the node has, from this peer or another
  h,          \* [Threads -> record]: the handler a thread is in
  disturbed,  \* history: the loop was reset or entered from outside while in use
  batches, relays, leaves, connects

vars == <<word, received, scheduled, source, armed, bulk, sent, have, h, disturbed, batches, relays, leaves, connects>>
bounds == <<batches, relays, leaves, connects>>

Idle == [at |-> "idle", block |-> None, active |-> FALSE, mine |-> FALSE, last |-> FALSE, src |-> None]
LoopState(w) == w % 16
Finished(s) == BlocksOf[s] \subseteq have              \* downloadFinished
Inside == {p \in Threads : h[p].at # "idle"}
Loop == {p \in Threads : h[p].at \in {"schedule", "switch", "lost", "choose", "ask", "cancel"}}
Goto(p, place) == h' = [h EXCEPT ![p].at = place]
Leave(p) == h' = [h EXCEPT ![p] = Idle]

Init ==
  /\ word = 0 /\ received = 0 /\ scheduled = {} /\ source = None
  /\ armed = FALSE /\ bulk = FALSE /\ sent = {} /\ have = {} /\ disturbed = FALSE
  /\ h = [p \in Threads |-> Idle]
  /\ batches = 0 /\ relays = 0 /\ leaves = 0 /\ connects = 0

-----------------------------------------------------------------------------
\* onBlockData

Enter(p, b) ==
  /\ word' = (word + 16) % Range
  /\ h' = [h EXCEPT ![p] = [Idle EXCEPT !.at = "count", !.block = b, !.active = LoopState(word) = 2]]
  /\ UNCHANGED <<received, scheduled, source, armed, bulk, have, disturbed, batches, leaves, connects>>

Deliver(p, b) ==
  /\ h[p].at = "idle" /\ b \in sent /\ sent' = sent \ {b}
  /\ Enter(p, b) /\ UNCHANGED relays

\* a block announced by inv, or sent twice
Relay(p, b) ==
  /\ h[p].at = "idle" /\ relays < MaxRelays /\ relays' = relays + 1
  /\ Enter(p, b) /\ UNCHANGED sent

\* The block counts if it was asked for; then bulk mode, before the word is touched
Count(p) ==
  /\ h[p].at = "count"
  /\ LET mine == h[p].active /\ h[p].block \in scheduled
     IN /\ received' = IF mine THEN received + 1 ELSE received
        /\ h' = [h EXCEPT ![p].at = "leave", ![p].mine = mine,
                          ![p].last = mine /\ received + 1 = Cardinality(scheduled)]
        /\ bulk' = (bulk \/ mine)
  /\ UNCHANGED <<word, scheduled, source, armed, sent, have, disturbed, bounds>>

\* The handler of the last block also ends the batch; whoever reaches zero goes on with the loop
LeaveWord(p) ==
  /\ h[p].at = "leave"
  /\ word' = (word - (IF h[p].last THEN 18 ELSE 16)) % Range
  /\ h' = [h EXCEPT ![p].at = "attach", ![p].last = word' = 0]
  /\ UNCHANGED <<received, scheduled, source, armed, bulk, sent, have, disturbed, bounds>>

\* Node::Sync(block): the block is attached; the end of the batch ends bulk mode
Attach(p) ==
  /\ h[p].at = "attach"
  /\ have' = have \union {h[p].block}
  /\ bulk' = (bulk /\ ~(h[p].mine /\ h[p].last))
  /\ IF h[p].last THEN Goto(p, "restart") ELSE Leave(p)
  /\ UNCHANGED <<word, received, scheduled, source, armed, sent, disturbed, bounds>>

\* The body does not parse: the peer leaves its source and its loop is cancelled
Unreadable(p) ==
  /\ h[p].at = "attach" /\ leaves < MaxLeaves
  /\ leaves' = leaves + 1
  /\ bulk' = (bulk /\ ~(h[p].mine /\ h[p].last))
  /\ source' = None
  /\ disturbed' = TRUE
  /\ Goto(p, "cancel")
  /\ UNCHANGED <<word, received, scheduled, armed, sent, have, batches, relays, connects>>

\* Mutant: whoever comes starts the loop.
StartBlind(p) == word' = 1 /\ received' = 0 /\ Goto(p, "schedule")

\* startDownloadBlocks: zero becomes one
StartLoop(p) ==
  IF word = 0 THEN word' = 1 /\ received' = 0 /\ Goto(p, "schedule")
              ELSE Leave(p) /\ UNCHANGED <<word, received>>

Restart(p) ==
  /\ h[p].at = "restart"
  /\ IF source # None THEN StartLoop(p) ELSE Leave(p) /\ UNCHANGED <<word, received>>
  /\ UNCHANGED <<scheduled, source, armed, bulk, sent, have, disturbed, bounds>>

-----------------------------------------------------------------------------
\* scheduleBlocksDownload

\* cancelDownloadBlocks
Cancel(p) ==
  /\ h[p].at = "cancel"
  /\ word' = 0 /\ bulk' = FALSE
  /\ disturbed' = (disturbed \/ word > 1 \/ armed \/ Inside # {p})
  /\ Leave(p)
  /\ UNCHANGED <<received, scheduled, source, armed, sent, have, bounds>>

Schedule(p) ==
  /\ h[p].at = "schedule"
  /\ h' = [h EXCEPT ![p].src = source,
             ![p].at = IF source = None THEN "cancel" ELSE IF Finished(source) THEN "switch" ELSE "choose"]
  /\ UNCHANGED <<word, received, scheduled, source, armed, bulk, sent, have, disturbed, bounds>>

\* switchBlockSource, then the timer for the new source, or the end if there is none
Switch(p) ==
  /\ h[p].at = "switch"
  /\ LET won == source = h[p].src
         next == After[h[p].src]
     IN /\ source' = IF won THEN next ELSE source
        /\ IF won /\ next # None THEN armed' = TRUE /\ Leave(p)
                                 ELSE Goto(p, "lost") /\ UNCHANGED armed
  /\ UNCHANGED <<word, received, scheduled, bulk, sent, have, disturbed, bounds>>

Lost(p) ==
  /\ h[p].at = "lost"
  /\ IF source = None THEN Goto(p, "cancel") ELSE Leave(p)
  /\ UNCHANGED <<word, received, scheduled, source, armed, bulk, sent, have, disturbed, bounds>>

\* dequeue, with the blocks asked for more than eight seconds ago: nothing to ask for starts the timer
Choose(p) ==
  /\ h[p].at = "choose"
  /\ \/ armed' = TRUE /\ Leave(p) /\ UNCHANGED <<scheduled, received, batches>>
     \/ /\ batches < MaxBatches /\ batches' = batches + 1
        /\ \E batch \in SUBSET (BlocksOf[h[p].src] \ have) \ {{}} : scheduled' = batch
        /\ received' = 0 /\ Goto(p, "ask") /\ UNCHANGED armed
  /\ UNCHANGED <<word, source, bulk, sent, have, disturbed, relays, leaves, connects>>

\* downloadBlocks: the batch is published and asked for
Ask(p) ==
  /\ h[p].at = "ask"
  /\ word' = (word + 1) % Range
  /\ sent' = sent \union scheduled
  /\ Leave(p)
  /\ UNCHANGED <<received, scheduled, source, armed, bulk, have, disturbed, bounds>>

-----------------------------------------------------------------------------
\* Timers, the node, other peers

Timer(p) ==
  /\ h[p].at = "idle" /\ armed /\ armed' = FALSE
  /\ Goto(p, "schedule")
  /\ UNCHANGED <<word, received, scheduled, source, bulk, sent, have, disturbed, bounds>>

\* connectPeerToBlockSource
Connect(p, s) ==
  /\ h[p].at = "idle" /\ source = None /\ ~Finished(s)
  /\ connects < MaxConnects /\ connects' = connects + 1
  /\ source' = s
  /\ disturbed' = (disturbed \/ Loop # {})
  /\ StartLoop(p)
  /\ UNCHANGED <<scheduled, armed, bulk, sent, have, batches, relays, leaves>>

\* Node::Sync finds the source of the peer finished
NodeSync(p) ==
  /\ h[p].at = "idle" /\ source # None /\ Finished(source)
  /\ h' = [h EXCEPT ![p].at = "switch", ![p].src = source]
  /\ disturbed' = (disturbed \/ word # 0 \/ armed \/ Inside # {})
  /\ UNCHANGED <<word, received, scheduled, source, armed, bulk, sent, have, bounds>>

\* disconnectPeerFromBlockSource: bad headers, or a shorter chain
Disconnect ==
  /\ source # None /\ leaves < MaxLeaves
  /\ leaves' = leaves + 1 /\ source' = None
  /\ UNCHANGED <<word, received, scheduled, armed, bulk, sent, have, h, disturbed, batches, relays, connects>>

OtherPeer(b) ==
  /\ b \notin have /\ have' = have \union {b}
  /\ UNCHANGED <<word, received, scheduled, source, armed, bulk, sent, h, disturbed, bounds>>

Step(p) ==
  \/ Count(p) \/ LeaveWord(p) \/ Attach(p) \/ Unreadable(p) \/ Restart(p) \/ Cancel(p)
  \/ Schedule(p) \/ Switch(p) \/ Lost(p) \/ Choose(p) \/ Ask(p)
Next ==
  \/ \E p \in Threads :
       \/ Step(p) \/ Timer(p) \/ NodeSync(p)
       \/ \E b \in Blocks : Deliver(p, b) \/ Relay(p, b)
       \/ \E s \in Sources : Connect(p, s)
  \/ Disconnect \/ \E b \in Blocks : OtherPeer(b)

Spec == Init /\ [][Next]_vars

-----------------------------------------------------------------------------
\* Properties

TypeOK ==
  /\ word \in 0..(Range - 1) /\ scheduled \subseteq Blocks /\ source \in Sources \union {None}
  /\ armed \in BOOLEAN /\ bulk \in BOOLEAN /\ sent \subseteq Blocks /\ have \subseteq Blocks
  /\ disturbed \/ word = LoopState(word) + 16 * Cardinality({p \in Threads : h[p].at \in {"count", "leave"}})

\* As long as nothing resets or enters the loop from outside, it is in one place: one thread
\* chooses the next batch, or the timer will, or a batch is under way, and then nobody touches
\* ScheduledToDownload_ (network.cpp:651-663, 722-731, 756-771).
OneLoop ==
  disturbed \/
    /\ LoopState(word) \in {0, 1, 2}
    /\ Cardinality(Loop) + (IF armed THEN 1 ELSE 0) = (IF LoopState(word) = 1 THEN 1 ELSE 0)

\* A batch that is under way waits for a block the peer still owes: the handlers of its blocks
\* cannot miss its end, in whatever order they count and leave (network.cpp:652-663).
BatchWaits ==
  disturbed \/ (LoopState(word) = 2 /\ (\A p \in Threads : h[p].at \notin {"count", "leave"})
                  => sent \intersect scheduled # {})

\* "The loop flag has to be dropped anyway, otherwise the next connect can't start downloading"
\* (network.cpp:1432-1433): a peer that was connected to a source has somebody who goes on with
\* its loop.
LoopAlive == source # None => armed \/ Inside # {} \/ LoopState(word) = 2

\* "All scheduled handlers enter bulk mode before dropping their in-flight count. Therefore the
\* handler that observes zero below is also the last one that can precede the final bulk=false"
\* (network.cpp:659-660): with the loop idle, bulk mode is over.
BulkOver == Inside = {} /\ word = 0 => ~bulk
=============================================================================
