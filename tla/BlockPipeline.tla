---------------------------- MODULE BlockPipeline ----------------------------
(***************************************************************************)
(* The validation pipeline of common/blockPipeline.cpp: one combiner plans *)
(* segments of the candidate chain, preparation lanes check them in        *)
(* parallel, one serial worker connects them in order (connectSegment and  *)
(* switchTo of common/blockDataBase.cpp).  Events reach the combiner       *)
(* through the FIFO that module Inbox specifies; a step of the combiner is *)
(* the handling of one event or one stage of schedule(), so lanes, serial  *)
(* worker and block sources run between any two of them.                   *)
(***************************************************************************)
EXTENDS Integers, Sequences, SequencesExt

CONSTANTS
  Blocks, Genesis, Parent, NoBlock,
  Depth,               \* Height of a block
  Total,               \* ChainWork of a block
  Bytes,               \* SerializedBlockSize
  BadPrepare,          \* blocks that fail a check that needs no chain state
  BadConnect,          \* blocks that fail against the state of their own parent
  PrepLanes,           \* CParams, with the sizes below
  ReadyQueueDepth,
  SegmentBlocksLimit,
  SegmentSizeLimit,
  BiteFloorBlocks,
  BiteFloorSize,
  Feeds,               \* how many catch-up batches main() feeds at startup
  Reindexing,          \* whether main() reindexes before the network starts
  MaxBulk              \* bound: bulk switches the network makes

ASSUME PipelineTree ==
  /\ Genesis \in Blocks /\ NoBlock \notin Blocks
  /\ Parent \in [Blocks \ {Genesis} -> Blocks]
  /\ Depth \in [Blocks -> Nat] /\ Total \in [Blocks -> Nat] /\ Bytes \in [Blocks -> Nat]
  /\ Depth[Genesis] = 0
  /\ \A b \in Blocks \ {Genesis} :
       Depth[b] = Depth[Parent[b]] + 1 /\ Total[b] >= Total[Parent[b]]
  /\ BadPrepare \subseteq Blocks \ {Genesis}
  /\ BadConnect \subseteq Blocks \ {Genesis}

ASSUME PipelineParams ==
  /\ {PrepLanes, ReadyQueueDepth, SegmentBlocksLimit, SegmentSizeLimit,
      BiteFloorBlocks, BiteFloorSize, Feeds, MaxBulk} \subseteq Nat
  /\ PrepLanes > 0 /\ SegmentBlocksLimit > 0
  /\ Reindexing \in BOOLEAN

VARIABLES
  ready,      \* the blocks with both Ready bits
  announce,   \* heaviest blocks of readiness walks that have not ended yet
  invalid,    \* the blocks with BFInvalid
  chain,      \* [onChain, heightIndex, best]: the active chain as the index holds it
  utxo,       \* the block whose state utxodb holds
  inbox,      \* the events posted and not taken yet
  taken,      \* the events the combiner has taken and not handled yet
  comb,       \* where the combiner is
  pipe,       \* the members of CBlockPipeline that belong to the combiner
  lane,       \* the preparation workers
  serial,     \* the serial worker
  main,       \* [pc, fed, bulks]: main() and the network's bulk switches
  finished,   \* the replies signalled to main()
  sink        \* the catch-up batches the databases received

vars == <<ready, announce, invalid, chain, utxo, inbox, taken, comb, pipe,
          lane, serial, main, finished, sink>>

-----------------------------------------------------------------------------

Lanes == 1..PrepLanes

\* max(ReadyQueueDepth + lanes, 1)
WindowLimit == ReadyQueueDepth + PrepLanes

\* The blocks from the genesis block to b: the walk along Prev, lowest first
Line[b \in Blocks] == IF b = Genesis THEN <<b>> ELSE Append(Line[Parent[b]], b)

\* The walk from b down to the first block of S: what it passes, lowest first,
\* and where it stops
StopAt(b, S) == SelectLastInSeq(Line[b], LAMBDA x : x \in S)
Above(b, S) == SubSeq(Line[b], StopAt(b, S) + 1, Len(Line[b]))
Base(b, S) == IF StopAt(b, S) = 0 THEN NoBlock ELSE Line[b][StopAt(b, S)]

SizeOf(s) == FoldLeft(LAMBDA sum, b : sum + Bytes[b], 0, s)

\* A segment: its blocks, its place in the window, its generation, and the number
\* of the catch-up batch it is (0 when it is a piece of a candidate chain)
NoSegment == [blocks |-> <<>>, seq |-> 0, gen |-> 0, feed |-> 0]

NoPrepare == [pc |-> "idle", segment |-> NoSegment, last |-> NoBlock, ok |-> TRUE]
NoConnect == [pc |-> "idle", segment |-> NoSegment, ok |-> TRUE, failedAt |-> 0,
              undo |-> <<>>, redo |-> <<>>, marked |-> 0]

\* The index loader has left the genesis block as the active chain; start() ran.
Init ==
  /\ ready = {Genesis} /\ announce = {} /\ invalid = {}
  /\ chain = [onChain |-> {Genesis}, best |-> Genesis,
              heightIndex |-> [h \in {Depth[b] : b \in Blocks} |->
                                 IF h = 0 THEN Genesis ELSE NoBlock]]
  /\ utxo = Genesis
  /\ inbox = <<>> /\ taken = <<>> /\ comb = "free"
  /\ pipe = [window |-> <<>>, feedWaiters |-> <<>>, drainWaiters |-> {}, stopReply |-> {},
             nextSeq |-> 0, generation |-> 0, preparing |-> 0,
             frontier |-> Genesis, candidate |-> Genesis,
             stopped |-> FALSE, resetting |-> FALSE,
             bulkFeed |-> FALSE, flushBulk |-> FALSE, tailWaiting |-> FALSE,
             path |-> <<>>, pathBase |-> NoBlock,
             laneBusy |-> [l \in Lanes |-> FALSE], serialBusy |-> FALSE,
             replies |-> {}]
  /\ lane = [l \in Lanes |-> NoPrepare] /\ serial = NoConnect
  /\ main = [pc |-> "catchup", fed |-> 0, bulks |-> 0]
  /\ finished = {} /\ sink = <<>>

Push(event) == inbox' = Append(inbox, event)

-----------------------------------------------------------------------------
(***************************************************************************)
(* main() and the block sources                                            *)
(***************************************************************************)

\* A walk of buildChain completes a block above a ready parent.  The walk reports
\* its heaviest block when it ends, so this one starts a report or joins one.
BecomeReady(b) ==
  /\ main.pc \in {"reindex", "network"}
  /\ b \notin ready /\ Parent[b] \in ready /\ Parent[b] \notin invalid
  /\ ready' = ready \cup {b}
  /\ \/ announce' = announce \cup {b}
     \/ \E w \in announce :
          announce' = IF Total[b] > Total[w] THEN (announce \ {w}) \cup {b} ELSE announce
  /\ UNCHANGED <<invalid, chain, utxo, inbox, taken, comb, pipe, lane, serial,
                 main, finished, sink>>

\* The walk ends: notifyReady, submit.  stop() detaches the pipeline first, but a
\* walk that had already read the pointer still posts.
Stopping == {"stopwait", "join", "joined"}

Submit(b) ==
  /\ b \in announce
  /\ announce' = announce \ {b}
  /\ \/ main.pc # "joined" /\ Push([type |-> "Candidate", block |-> b])
     \/ main.pc \in Stopping /\ UNCHANGED inbox
  /\ UNCHANGED <<ready, invalid, chain, utxo, taken, comb, pipe, lane, serial,
                 main, finished, sink>>

MainPosts(from, to, event) ==
  /\ main.pc = from
  /\ main' = [main EXCEPT !.pc = to]
  /\ Push(event)
  /\ UNCHANGED <<ready, announce, invalid, chain, utxo, taken, comb, pipe, lane, serial,
                 finished, sink>>

\* request() returns once its reply is signalled.
MainReturns(from, to, reply) ==
  /\ main.pc = from
  /\ reply \in finished
  /\ finished' = finished \ {reply}
  /\ main' = [main EXCEPT !.pc = to]
  /\ UNCHANGED <<ready, announce, invalid, chain, utxo, inbox, taken, comb, pipe, lane, serial,
                 sink>>

\* dbConnectBlocks: feed() waits for its reply before the next batch is read.
Feed ==
  /\ main.pc = "catchup" /\ main.fed < Feeds
  /\ main' = [main EXCEPT !.pc = "feedwait", !.fed = @ + 1]
  /\ Push([type |-> "Feed", feed |-> main.fed + 1])
  /\ UNCHANGED <<ready, announce, invalid, chain, utxo, taken, comb, pipe, lane, serial,
                 finished, sink>>

FeedReturns == MainReturns("feedwait", "catchup", "feed")

\* dbConnectBlocks ends with waitDrained; then main() reindexes or starts the network.
WaitDrained == main.fed = Feeds /\ MainPosts("catchup", "drainwait", [type |-> "Drain"])
DrainReturns == MainReturns("drainwait", IF Reindexing THEN "bulk" ELSE "network", "drain")

\* reindex: bulk on, the blocks, bulk off, waitDrained.  Its workers have added
\* every block, and their walks have ended, before it turns bulk off.
ReindexStarts == MainPosts("bulk", "reindex", [type |-> "Bulk", bulk |-> TRUE])
ReindexEnds == announce = {} /\ MainPosts("reindex", "flush", [type |-> "Bulk", bulk |-> FALSE])
ReindexDrains == MainPosts("flush", "flushwait", [type |-> "Drain"])
ReindexReturns == MainReturns("flushwait", "network", "drain")

\* A block file cannot be read or parsed: reindex returns, and main() stops the pipeline
\* with the bulk mode still on.
ReindexFails == announce = {} /\ MainPosts("reindex", "stopwait", [type |-> "Stop"])

\* The network turns bulk on for a run of downloads and off at its end.
SetBulkFeed(bulk) ==
  /\ main.pc = "network" /\ main.bulks < MaxBulk
  /\ main' = [main EXCEPT !.bulks = @ + 1]
  /\ Push([type |-> "Bulk", bulk |-> bulk])
  /\ UNCHANGED <<ready, announce, invalid, chain, utxo, taken, comb, pipe, lane, serial,
                 finished, sink>>

\* stop() sends Stop, waits for the reply, then joins the workers.
Stop == MainPosts("network", "stopwait", [type |-> "Stop"])
StopReturns == MainReturns("stopwait", "join", "stop")
Join ==
  /\ main.pc = "join"
  /\ serial.pc = "exit" /\ \A l \in Lanes : lane[l].pc = "exit"
  /\ main' = [main EXCEPT !.pc = "joined"]
  /\ UNCHANGED <<ready, announce, invalid, chain, utxo, inbox, taken, comb, pipe, lane, serial,
                 finished, sink>>

-----------------------------------------------------------------------------
(***************************************************************************)
(* The workers.  A lane or the serial worker has one job at most; a job    *)
(* becomes the event that reports it.                                      *)
(***************************************************************************)

\* prepareSegment: the first block that fails its checks cuts the segment there,
\* and it and every block above it in the segment become invalid.
Prepare(l) ==
  /\ lane[l].pc = "job"
  /\ LET blocks == lane[l].segment.blocks
         bad == SelectInSeq(blocks, LAMBDA b : b \in BadPrepare)
     IN IF bad = 0
          THEN /\ lane' = [lane EXCEPT ![l].pc = "post"]
               /\ UNCHANGED invalid
          ELSE /\ lane' = [lane EXCEPT ![l].pc = "post", ![l].ok = FALSE,
                                        ![l].segment.blocks = SubSeq(blocks, 1, bad - 1)]
               /\ invalid' = invalid \cup ToSet(SubSeq(blocks, bad, Len(blocks)))
  /\ UNCHANGED <<ready, announce, chain, utxo, inbox, taken, comb, pipe, serial,
                 main, finished, sink>>

PostPrepared(l) ==
  /\ lane[l].pc = "post"
  /\ Push([type |-> "Prepared", lane |-> l, segment |-> lane[l].segment,
           last |-> lane[l].last, ok |-> lane[l].ok])
  /\ lane' = [lane EXCEPT ![l] = NoPrepare]
  /\ UNCHANGED <<ready, announce, invalid, chain, utxo, taken, comb, pipe, serial,
                 main, finished, sink>>

LaneExits(l) ==
  /\ lane[l].pc = "stop"
  /\ lane' = [lane EXCEPT ![l].pc = "exit"]
  /\ UNCHANGED <<ready, announce, invalid, chain, utxo, inbox, taken, comb, pipe, serial,
                 main, finished, sink>>

\* A catch-up batch goes to the sink.
SinkBatch ==
  /\ serial.pc = "job" /\ serial.segment.feed # 0
  /\ sink' = Append(sink, serial.segment.feed)
  /\ serial' = [serial EXCEPT !.pc = "post"]
  /\ UNCHANGED <<ready, announce, invalid, chain, utxo, inbox, taken, comb, pipe, lane,
                 main, finished>>

\* Mutant: the segment connects wherever the chain stands.
StayInPlace ==
  /\ serial.pc = "job" /\ serial.segment.feed = 0
  /\ serial' = [serial EXCEPT !.pc = "rebase"]
  /\ UNCHANGED <<ready, announce, invalid, chain, utxo, inbox, taken, comb, pipe, lane,
                 main, finished, sink>>

\* switchTo(), when the chain stands elsewhere than below the segment: what it is to
\* disconnect of the active chain, from the top, and to connect of the new path.
SwitchTo ==
  /\ serial.pc = "job" /\ serial.segment.feed = 0
  /\ LET newBest == Parent[serial.segment.blocks[1]]
     IN serial' = [serial EXCEPT !.pc = "rebase",
                     !.undo = Reverse(Above(chain.best, ToSet(Line[newBest]))),
                     !.redo = Above(newBest, ToSet(Line[chain.best]))]
  /\ UNCHANGED <<ready, announce, invalid, chain, utxo, inbox, taken, comb, pipe, lane,
                 main, finished, sink>>

\* UTXODb::disconnect and connect, external to this module: they move the state by
\* the blocks they are given, and leave a mixture when these are not its own.
UtxoDisconnect(b) == utxo' = IF utxo = b THEN Parent[b] ELSE NoBlock
UtxoConnect(blocks) == utxo' = IF utxo = Parent[blocks[1]] THEN Last(blocks) ELSE NoBlock

\* Mutant: the height index keeps the block that left the chain.
UnmarkKeepsHeight(b) == [chain EXCEPT !.onChain = @ \ {b}]

Unmark(b) ==
  [chain EXCEPT !.onChain = @ \ {b}, !.heightIndex[Depth[b]] = NoBlock]

\* markConnected
Mark(b) ==
  [chain EXCEPT !.onChain = @ \cup {b}, !.heightIndex[Depth[b]] = b]

\* DisconnectBlock, once for every block above the fork, from the top
DisconnectBlock ==
  /\ serial.pc = "rebase" /\ serial.undo # <<>>
  /\ LET b == Head(serial.undo)
     IN chain' = Unmark(b) /\ UtxoDisconnect(b)
  /\ serial' = [serial EXCEPT !.undo = Tail(@)]
  /\ UNCHANGED <<ready, announce, invalid, inbox, taken, comb, pipe, lane,
                 main, finished, sink>>

\* ConnectBlock, once for every block of the new path; a failure ends in abort().
ConnectBlock ==
  /\ serial.pc = "rebase" /\ serial.undo = <<>> /\ serial.redo # <<>>
  /\ LET b == Head(serial.redo)
     IN IF b \in BadConnect
          THEN /\ invalid' = invalid \cup {b}
               /\ serial' = [serial EXCEPT !.pc = "abort"]
               /\ UNCHANGED <<chain, utxo>>
          ELSE /\ chain' = [Mark(b) EXCEPT !.best = b]
               /\ UtxoConnect(<<b>>)
               /\ serial' = [serial EXCEPT !.redo = Tail(@)]
               /\ UNCHANGED invalid
  /\ UNCHANGED <<ready, announce, inbox, taken, comb, pipe, lane,
                 main, finished, sink>>

\* resolveSegmentResidual and the verdict on every block of the segment
Verdict ==
  /\ serial.pc = "rebase" /\ serial.undo = <<>> /\ serial.redo = <<>>
  /\ LET bad == SelectInSeq(serial.segment.blocks, LAMBDA b : b \in BadConnect)
     IN serial' = IF bad = 0 THEN [serial EXCEPT !.pc = "mark"]
                  ELSE [serial EXCEPT !.pc = "post", !.ok = FALSE, !.failedAt = bad]
  /\ UNCHANGED <<ready, announce, invalid, chain, utxo, inbox, taken, comb, pipe, lane,
                 main, finished, sink>>

\* The blocks become the chain one by one ...
MarkConnected ==
  /\ serial.pc = "mark" /\ serial.marked < Len(serial.segment.blocks)
  /\ chain' = Mark(serial.segment.blocks[serial.marked + 1])
  /\ serial' = [serial EXCEPT !.marked = @ + 1]
  /\ UNCHANGED <<ready, announce, invalid, utxo, inbox, taken, comb, pipe, lane,
                 main, finished, sink>>

\* ... then storage and best() get the whole segment.
Land ==
  /\ serial.pc = "mark" /\ serial.marked = Len(serial.segment.blocks)
  /\ UtxoConnect(serial.segment.blocks)
  /\ chain' = [chain EXCEPT !.best = Last(serial.segment.blocks)]
  /\ serial' = [serial EXCEPT !.pc = "post"]
  /\ UNCHANGED <<ready, announce, invalid, inbox, taken, comb, pipe, lane,
                 main, finished, sink>>

PostConnected ==
  /\ serial.pc = "post"
  /\ Push([type |-> "Connected", segment |-> serial.segment,
           ok |-> serial.ok, failedAt |-> serial.failedAt])
  /\ serial' = NoConnect
  /\ UNCHANGED <<ready, announce, invalid, chain, utxo, taken, comb, pipe, lane,
                 main, finished, sink>>

SerialExits ==
  /\ serial.pc = "stop"
  /\ serial' = [serial EXCEPT !.pc = "exit"]
  /\ UNCHANGED <<ready, announce, invalid, chain, utxo, inbox, taken, comb, pipe, lane,
                 main, finished, sink>>

-----------------------------------------------------------------------------
(***************************************************************************)
(* The combiner: post() takes the whole inbox, handles event after event,  *)
(* runs schedule() and releases the role.                                  *)
(***************************************************************************)

IdlePipe(p) == p.window = <<>> /\ p.preparing = 0 /\ ~p.serialBusy


\* reset(): jobs that are running keep their segments, everything else is dropped.
Reset(p) ==
  [p EXCEPT !.generation = @ + 1,
            !.candidate = NoBlock, !.frontier = NoBlock, !.pathBase = NoBlock, !.path = <<>>,
            !.tailWaiting = FALSE, !.resetting = TRUE, !.window = <<>>]

\* admit(): a heavier candidate whose new blocks are not known to be invalid.
Admit(p, b) ==
  IF /\ b \in ready
     /\ p.candidate = NoBlock \/ Total[b] > Total[p.candidate]
     /\ ToSet(Above(b, chain.onChain \cup {p.candidate})) \cap invalid = {}
  THEN [p EXCEPT !.candidate = b, !.pathBase = NoBlock, !.path = <<>>]
  ELSE p

Take ==
  /\ comb = "free" /\ inbox # <<>>
  /\ taken' = inbox /\ inbox' = <<>>
  /\ comb' = "handle"
  /\ UNCHANGED <<ready, announce, invalid, chain, utxo, pipe, lane, serial,
                 main, finished, sink>>

Handling(type) ==
  /\ comb = "handle"
  /\ Head(taken).type = type
  /\ taken' = Tail(taken)
  /\ comb' = IF Len(taken) = 1 THEN "begin" ELSE "handle"
  /\ UNCHANGED <<ready, announce, chain, utxo, inbox, lane, serial, main, finished, sink>>

HandleCandidate ==
  /\ Handling("Candidate")
  /\ pipe' = IF pipe.stopped THEN pipe ELSE Admit(pipe, Head(taken).block)
  /\ UNCHANGED invalid

HandleBulk ==
  /\ Handling("Bulk")
  /\ LET bulk == Head(taken).bulk
     IN pipe' = IF pipe.stopped \/ pipe.bulkFeed = bulk THEN pipe
                ELSE IF bulk THEN [pipe EXCEPT !.bulkFeed = TRUE]
                ELSE [pipe EXCEPT !.bulkFeed = FALSE, !.flushBulk = TRUE, !.tailWaiting = FALSE]
  /\ UNCHANGED invalid

HandleFeed ==
  /\ Handling("Feed")
  /\ pipe' = IF pipe.stopped THEN [pipe EXCEPT !.replies = @ \cup {"feed"}]
             ELSE [pipe EXCEPT !.feedWaiters = Append(@, Head(taken).feed)]
  /\ UNCHANGED invalid

\* Mutant: a drain is answered as soon as it is handled.
HandleDrainAtOnce ==
  /\ Handling("Drain")
  /\ pipe' = [pipe EXCEPT !.replies = @ \cup {"drain"}]
  /\ UNCHANGED invalid

HandleDrain ==
  /\ Handling("Drain")
  /\ pipe' = [pipe EXCEPT !.drainWaiters = {"drain"}]
  /\ UNCHANGED invalid

HandleStop ==
  /\ Handling("Stop")
  /\ pipe' = [pipe EXCEPT !.stopped = TRUE, !.flushBulk = FALSE, !.tailWaiting = FALSE,
                          !.stopReply = {"stop"}, !.feedWaiters = <<>>,
                          !.replies = IF pipe.feedWaiters = <<>> THEN @ ELSE @ \cup {"feed"}]
  /\ UNCHANGED invalid

\* A late result of an old generation is dropped; a segment that was cut also
\* invalidates what was planned above it; a whole one is ready in its slot.
HandlePrepared ==
  /\ Handling("Prepared")
  /\ LET e == Head(taken)
         p == [pipe EXCEPT !.laneBusy[e.lane] = FALSE, !.preparing = @ - 1]
         at == e.segment.seq - Head(p.window).seq + 1
     IN pipe' = IF e.segment.gen # p.generation THEN p
                ELSE IF ~e.ok \/ Last(e.segment.blocks) # e.last THEN Reset(p)
                ELSE [p EXCEPT !.window[at].state = "Ready", !.window[at].segment = e.segment]
  /\ UNCHANGED invalid

\* Mutant: FailedAt is not filled in.
HandleConnectedBlamesFirst ==
  /\ Handling("Connected")
  /\ LET e == Head(taken)
         p == [pipe EXCEPT !.serialBusy = FALSE]
     IN IF e.ok
          THEN pipe' = p /\ UNCHANGED invalid
          ELSE pipe' = Reset(p) /\ invalid' = invalid \cup {e.segment.blocks[1]}

HandleConnected ==
  /\ Handling("Connected")
  /\ LET e == Head(taken)
         p == [pipe EXCEPT !.serialBusy = FALSE]
     IN IF e.ok
          THEN pipe' = p /\ UNCHANGED invalid
          ELSE /\ pipe' = Reset(p)
               /\ invalid' = invalid \cup {e.segment.blocks[e.failedAt]}

-----------------------------------------------------------------------------
(***************************************************************************)
(* schedule(): begin, fill (once per segment), lanes, and again or settle  *)
(***************************************************************************)

\* bestReadyBlock: the index is a hash map, so equally heavy blocks tie freely.
BestReadyBlock ==
  LET sound(b) == ToSet(Tail(Line[b])) \subseteq ready \ invalid
      heavier == {b \in ready : sound(b) /\ Total[b] > Total[chain.best]}
  IN IF heavier = {} THEN {chain.best}
     ELSE {b \in heavier : \A c \in heavier : Total[c] <= Total[b]}

\* Mutant: planning resumes without looking for the best ready block.
ResumeAtBest(p) ==
  {IF p.resetting THEN [p EXCEPT !.frontier = chain.best, !.candidate = chain.best, !.resetting = FALSE]
   ELSE p}

\* After a reset, planning resumes when every running job has reported.
Resume(p) ==
  IF ~p.resetting THEN {p}
  ELSE {[p EXCEPT !.frontier = chain.best, !.candidate = c, !.resetting = FALSE] :
          c \in IF p.stopped THEN {chain.best} ELSE BestReadyBlock}

FrontReady(p) == p.window # <<>> /\ Head(p.window).state = "Ready"

\* The front of the window goes to the serial worker.
ScheduleBegin ==
  /\ comb = "begin"
  /\ IF pipe.resetting /\ (pipe.preparing > 0 \/ pipe.serialBusy)
       THEN comb' = "settle" /\ UNCHANGED <<pipe, serial>>
       ELSE /\ comb' = "fill"
            /\ \E p \in Resume(pipe) :
                 IF ~p.serialBusy /\ FrontReady(p)
                   THEN /\ pipe' = [p EXCEPT !.window = Tail(@), !.serialBusy = TRUE]
                        /\ serial' = [NoConnect EXCEPT !.pc = "job",
                                                      !.segment = Head(p.window).segment]
                   ELSE pipe' = p /\ UNCHANGED serial
  /\ UNCHANGED <<ready, announce, invalid, chain, utxo, inbox, taken, lane,
                 main, finished, sink>>

\* append()
AppendSegment(p, blocks, feed, state) ==
  LET segment == [blocks |-> blocks, seq |-> p.nextSeq, gen |-> p.generation, feed |-> feed]
  IN [p EXCEPT !.nextSeq = @ + 1,
               !.window = Append(@, [seq |-> p.nextSeq, state |-> state, segment |-> segment])]

\* How many blocks of the path the next segment takes
Bite(p) ==
  LET bulk == p.bulkFeed \/ p.flushBulk
      limit == IF bulk THEN Min({SegmentBlocksLimit, Len(p.path)}) ELSE 1
      fits(n) == n = 1 \/ SizeOf(SubSeq(p.path, 1, n)) <= SegmentSizeLimit
  IN Max({n \in 1..limit : fits(n)})

\* makeSegment(), first part: the path from the candidate to the frontier
WithPath(p) ==
  IF p.pathBase # NoBlock THEN p
  ELSE LET stop == chain.onChain \cup {p.frontier}
       IN IF ToSet(Above(p.candidate, stop)) \cap invalid # {} THEN Reset(p)
          ELSE [p EXCEPT !.path = Above(p.candidate, stop), !.pathBase = Base(p.candidate, stop)]

\* makeSegment(), second part: switching branches waits until the pipeline is idle,
\* a bulk source keeps its tail back, and otherwise the next segment is cut.
CutSegment(p) ==
  LET n == Bite(p)
      last == p.path[n]
  IN IF p.pathBase = NoBlock \/ p.path = <<>> \/ (p.pathBase # p.frontier /\ ~IdlePipe(p))
       THEN p
     ELSE IF /\ p.bulkFeed /\ ~p.flushBulk
             /\ Len(p.path) < BiteFloorBlocks /\ SizeOf(p.path) < BiteFloorSize
       THEN [p EXCEPT !.tailWaiting = TRUE]
     ELSE AppendSegment([p EXCEPT !.frontier = last, !.pathBase = last,
                                  !.path = SubSeq(@, n + 1, Len(@)),
                                  !.tailWaiting = FALSE,
                                  !.flushBulk = @ /\ last # p.candidate],
                        SubSeq(p.path, 1, n), 0, "Pending")

MakeSegment(p) ==
  IF NoBlock \in {p.candidate, p.frontier} \/ p.candidate = p.frontier THEN p
  ELSE LET q == WithPath(p) IN IF q.resetting THEN q ELSE CutSegment(q)

\* One segment enters the window, or none can.
ScheduleFill ==
  /\ comb = "fill"
  /\ LET room == ~pipe.stopped /\ Len(pipe.window) < WindowLimit
         made == IF ~room THEN pipe
                 ELSE IF pipe.feedWaiters # <<>>
                   THEN AppendSegment([pipe EXCEPT !.feedWaiters = Tail(@),
                                                   !.replies = @ \cup {"feed"}],
                                      <<>>, Head(pipe.feedWaiters), "Ready")
                 ELSE MakeSegment(pipe)
     IN /\ pipe' = made
        /\ comb' = IF made.nextSeq # pipe.nextSeq THEN "fill"
                   ELSE IF made.resetting THEN "begin" ELSE "lanes"
  /\ UNCHANGED <<ready, announce, invalid, chain, utxo, inbox, taken, lane, serial,
                 main, finished, sink>>

\* After the lanes, schedule() starts over when a feed has made the front ready.
Again == ~pipe.serialBusy /\ FrontReady(pipe)

\* Free lanes take pending segments, in the order of both.
ScheduleLanes ==
  /\ comb = "lanes"
  /\ LET pending == SetToSortSeq({i \in 1..Len(pipe.window) : pipe.window[i].state = "Pending"}, <)
         free == SetToSortSeq({l \in Lanes : ~pipe.laneBusy[l]}, <)
         given == 1..Min({Len(pending), Len(free)})
         at(l) == pipe.window[pending[CHOOSE k \in given : free[k] = l]].segment
         gets == {free[k] : k \in given}
         goes == {pending[k] : k \in given}
     IN /\ lane' = [l \in Lanes |->
                      IF l \in gets THEN [NoPrepare EXCEPT !.pc = "job", !.segment = at(l),
                                                           !.last = Last(at(l).blocks)]
                      ELSE lane[l]]
        /\ pipe' = [pipe EXCEPT
                      !.laneBusy = [l \in Lanes |-> @[l] \/ l \in gets],
                      !.preparing = @ + Len(SelectSeq(free, LAMBDA l : l \in gets)),
                      !.window = [i \in 1..Len(@) |->
                                    IF i \in goes THEN [@[i] EXCEPT !.state = "Preparing",
                                                                    !.segment = NoSegment]
                                    ELSE @[i]]]
  /\ comb' = IF Again THEN "begin" ELSE "settle"
  /\ UNCHANGED <<ready, announce, invalid, chain, utxo, inbox, taken, serial,
                 main, finished, sink>>

\* The end of schedule() and of a round of post(): drains and stop are answered when
\* nothing is left, and the answers go out once release() finds the inbox empty.
ScheduleSettle ==
  /\ comb = "settle"
  /\ comb' = "free"
  /\ LET p == [pipe EXCEPT !.flushBulk = @ /\ pipe.candidate # pipe.frontier]
         quiet == /\ IdlePipe(p) /\ p.feedWaiters = <<>>
                  /\ ~p.tailWaiting /\ ~p.flushBulk /\ ~p.resetting
         q == IF quiet THEN [p EXCEPT !.drainWaiters = {}, !.stopReply = {},
                                      !.replies = @ \cup p.drainWaiters \cup p.stopReply]
              ELSE p
     IN /\ IF inbox = <<>>
             THEN pipe' = [q EXCEPT !.replies = {}] /\ finished' = finished \cup q.replies
             ELSE pipe' = q /\ UNCHANGED finished
        /\ IF quiet /\ p.stopReply # {}
             THEN /\ lane' = [l \in Lanes |-> [NoPrepare EXCEPT !.pc = "stop"]]
                  /\ serial' = [NoConnect EXCEPT !.pc = "stop"]
             ELSE UNCHANGED <<lane, serial>>
  /\ UNCHANGED <<ready, announce, invalid, chain, utxo, inbox, taken, main, sink>>

-----------------------------------------------------------------------------

Combine ==
  \/ Take
  \/ HandleCandidate \/ HandleBulk \/ HandleFeed \/ HandleDrain \/ HandleStop
  \/ HandlePrepared \/ HandleConnected
  \/ ScheduleBegin \/ ScheduleFill \/ ScheduleLanes \/ ScheduleSettle

RunLane(l) == Prepare(l) \/ PostPrepared(l) \/ LaneExits(l)

RunSerial ==
  \/ SinkBatch \/ SwitchTo \/ DisconnectBlock \/ ConnectBlock \/ Verdict
  \/ MarkConnected \/ Land \/ PostConnected \/ SerialExits

\* What main() goes on to by itself; when it stops is up to the user.
RunMain ==
  \/ Feed \/ FeedReturns \/ WaitDrained \/ DrainReturns
  \/ ReindexStarts \/ ReindexEnds \/ ReindexDrains \/ ReindexReturns
  \/ StopReturns \/ Join

Terminated == main.pc = "joined" /\ UNCHANGED vars

Next ==
  \/ Combine
  \/ \E l \in Lanes : RunLane(l)
  \/ RunSerial
  \/ RunMain
  \/ Stop \/ ReindexFails
  \/ \E bulk \in BOOLEAN : SetBulkFeed(bulk)
  \/ \E b \in Blocks \ {Genesis} : BecomeReady(b) \/ Submit(b)
  \/ Terminated

Spec == Init /\ [][Next]_vars

\* Whatever thread of the process has something to do.  Blocks need not arrive, the
\* network need not switch bulk and the user need not stop the node.
Work ==
  \/ Combine \/ RunSerial \/ RunMain
  \/ \E l \in Lanes : RunLane(l)
  \/ \E b \in Blocks \ {Genesis} : Submit(b)

\* The process runs as long as it can: some thread that can step does.
FairSpec == Spec /\ WF_vars(Work)

-----------------------------------------------------------------------------
(***************************************************************************)
(* Properties                                                              *)
(***************************************************************************)

\* The segments in flight, wherever they are: in a window slot, with a worker, or
\* in an event on its way back to the combiner
Events == inbox \o taken
Flights ==
  {<<"slot", i>> : i \in {j \in 1..Len(pipe.window) : pipe.window[j].state # "Preparing"}}
  \cup {<<"lane", l>> : l \in {k \in Lanes : lane[k].pc \in {"job", "post"}}}
  \cup {<<"serial", 0>> : x \in {y \in {0} : serial.pc \notin {"idle", "stop", "exit"}}}
  \cup {<<"event", i>> : i \in {j \in 1..Len(Events) :
                                  Events[j].type \in {"Prepared", "Connected"}}}
SegmentAt(f) ==
  CASE f[1] = "slot" -> pipe.window[f[2]].segment
    [] f[1] = "lane" -> lane[f[2]].segment
    [] f[1] = "serial" -> serial.segment
    [] f[1] = "event" -> Events[f[2]].segment

Preparations ==
  {f \in Flights : f[1] = "lane" \/ (f[1] = "event" /\ Events[f[2]].type = "Prepared")}

Good(b) == ToSet(Line[b]) \cap (BadPrepare \cup BadConnect) = {}

TypeOK ==
  /\ ready \subseteq Blocks /\ announce \subseteq ready /\ invalid \subseteq ready
  /\ chain.onChain \subseteq ready /\ chain.best \in ready
  /\ utxo \in Blocks \cup {NoBlock}
  /\ comb \in {"free", "handle", "begin", "fill", "lanes", "settle"}
  /\ comb = "handle" <=> taken # <<>>
  /\ {pipe.frontier, pipe.candidate, pipe.pathBase} \subseteq Blocks \cup {NoBlock}
  /\ pipe.preparing \in 0..PrepLanes
  /\ finished \subseteq {"feed", "drain", "stop"}
  /\ \A f \in Flights : SegmentAt(f).blocks \in Seq(ready)

\* connectSegment, "Only now does the database hold the state the segment was built
\* on": when the verdict on a segment is made, utxodb holds its parent's state.
StateBelowSegment ==
  serial.pc = "rebase" /\ serial.undo = <<>> /\ serial.redo = <<>> =>
    utxo = Parent[serial.segment.blocks[1]]

\* Between two connects the index tells one story: the blocks on the chain, the
\* height index ("The best chain by height; any thread") and utxodb are all those
\* of best(), whatever was disconnected, rejected or prepared in vain before.
OneActiveChain ==
  serial.pc \notin {"rebase", "mark"} =>
    /\ chain.onChain = ToSet(Line[chain.best])
    /\ \A h \in DOMAIN chain.heightIndex :
         chain.heightIndex[h] = IF h < Len(Line[chain.best]) THEN Line[chain.best][h + 1]
                                ELSE NoBlock
    /\ utxo = chain.best

\* Only a block that fails a check, or one above it, is marked invalid, although
\* cutSegment condemns blocks it has not judged and stale results come in late.
CondemnedJustly == \A b \in invalid : ~Good(b)

\* "Switching branches waits for both stages to finish using the previous branch's
\* objects": no block is in two segments in flight, old generations included.
OneHolder ==
  \A f, h \in Flights :
    f # h => ToSet(SegmentAt(f).blocks) \cap ToSet(SegmentAt(h).blocks) = {}

\* "WindowLimit_ queued segments plus one connecting": what is in flight is bounded
\* even across resets, when jobs of the old window still run.
FlightBound == Cardinality(Flights) <= ReadyQueueDepth + PrepLanes + 1


\* Catch-up batches reach the databases in the order they were fed, and all of them
\* before main() goes on: the reply to feed() only says that there was room.
CatchUpComplete ==
  /\ \A i \in 1..Len(sink) : sink[i] = i
  /\ main.pc \notin {"catchup", "feedwait", "drainwait"} => Len(sink) = Feeds

\* stop() returns from its request when no work is left and the workers were told
\* to leave: what the combiner still handles after that starts nothing.
StopIsFinal ==
  main.pc \in {"join", "joined"} =>
    /\ Flights = {}
    /\ serial.pc \in {"stop", "exit"} /\ \A l \in Lanes : lane[l].pc \in {"stop", "exit"}

\* A stage of main() that has returned is over: the catch-up has fed its databases in
\* order and in full, and after stop() nothing is in flight (waitDrained, stop).
StagesComplete == CatchUpComplete /\ StopIsFinal

Behind ==
  /\ main.pc \notin Stopping
  /\ \E b \in ready : Good(b) /\ Total[b] > Total[chain.best]

\* The active chain ends up as heavy as the heaviest good block that is ready, however
\* many heavier candidates turn out to be bad, unless the pipeline is stopped.
HeaviestGoodWins == <>[]~Behind

Waiting == main.pc \in {"feedwait", "drainwait", "flushwait", "stopwait", "join"}

\* Nobody waits for ever: each feed, drain and stop request returns.
RequestsReturn == Waiting ~> ~Waiting

\* The pipeline gets on with its work: neither a good heavy block nor a thread of
\* main() is left waiting when the combiner leaves its last round (schedule()).
Progress == HeaviestGoodWins /\ RequestsReturn

=============================================================================
