----------------------------- MODULE BlockIndex -----------------------------
(***************************************************************************)
(* The in-memory block index while several threads feed it: addHeader,     *)
(* addBlock, addSuccessor and buildChain of common/blockDataBase.cpp over  *)
(* the atomic words of BTC/blockIndex.h (Flags and Successors).  A thread  *)
(* moves by one access to a shared word at a time; the writes it makes     *)
(* to plain fields before publishing them are steps of their own.          *)
(***************************************************************************)
EXTENDS Integers, Sequences

CONSTANTS
  Blocks,     \* every block that can exist, the genesis block included
  Genesis,    \* the block put into the index ready-made at startup
  Parent,     \* HashPrevBlock of every other block
  Proof,      \* GetBlockProof of a block's header
  Depth,      \* the distance of a block from the genesis block
  Total,      \* the sum of Proof along the path from the genesis block
  Loaded,     \* the blocks the index loader read from disk
  Threads,    \* network threads and reindex workers
  NoBlock     \* the null pointer

ASSUME BlockTree ==
  /\ Genesis \in Blocks
  /\ NoBlock \notin Blocks
  /\ Parent \in [Blocks \ {Genesis} -> Blocks]
  /\ Proof \in [Blocks -> Nat]
  /\ Depth \in [Blocks -> Nat]
  /\ Total \in [Blocks -> Nat]
  /\ Depth[Genesis] = 0
  /\ Total[Genesis] = Proof[Genesis]
  /\ \A b \in Blocks \ {Genesis} :
       /\ Depth[b] = Depth[Parent[b]] + 1
       /\ Total[b] = Total[Parent[b]] + Proof[b]

ASSUME LoadedTree ==
  /\ Loaded \subseteq Blocks
  /\ Genesis \in Loaded
  /\ \A b \in Loaded \ {Genesis} : Parent[b] \in Loaded

VARIABLES
  flags,       \* Flags of a block: the set of the bits that are on
  prev,        \* Prev (and Header, written beside it)
  height,      \* Height
  chainWork,   \* ChainWork
  successors,  \* the list under the Successors word, its head first
  phases,      \* the phase bits in the low end of the same word
  pc,          \* where a thread is
  call,        \* the block its addHeader or addBlock is about
  withData,    \* whether that call is addBlock
  queue,       \* the deque of its buildChain
  ready,       \* buildChain: the Ready bits about to be published
  best,        \* buildChain: the heaviest block completed by this walk
  notified     \* the blocks handed to notifyReady so far

index == <<flags, prev, height, chainWork, successors, phases>>
walk == <<queue, ready, best>>
vars == <<index, pc, call, withData, walk, notified>>

-----------------------------------------------------------------------------

BlockFlags == {"HeaderWriteStarted", "HeaderDone", "DataWriteStarted",
               "DataDone", "WorkChecked", "HeaderReady", "DataReady",
               "ParentDataReady", "Invalid"}

SuccessorPhase == {"HeaderReady", "DataReady"}

ChainEvent == {"BuildHeader", "ParentDataReady", "PublishDataReady"}

\* UINT32_MAX, the height of a stub
UnknownHeight == -1

\* What the loader and the startup code store for a block that is all there.
LoadedFlags == BlockFlags \ {"Invalid"}

\* A hash nobody has written under yet maps to a stub: no flags, no fields.
\* findOrCreateStub makes one on demand, which is the same as its being there.
Init ==
  /\ flags = [b \in Blocks |-> IF b \in Loaded THEN LoadedFlags ELSE {}]
  /\ prev = [b \in Blocks |-> IF b \in Loaded \ {Genesis} THEN Parent[b] ELSE NoBlock]
  /\ height = [b \in Blocks |-> IF b \in Loaded THEN Depth[b] ELSE UnknownHeight]
  /\ chainWork = [b \in Blocks |-> IF b \in Loaded THEN Total[b] ELSE 0]
  /\ successors = [b \in Blocks |-> <<>>]
  /\ phases = [b \in Blocks |-> IF b \in Loaded THEN SuccessorPhase ELSE {}]
  /\ pc = [t \in Threads |-> "idle"]
  /\ call = [t \in Threads |-> NoBlock]
  /\ withData = [t \in Threads |-> FALSE]
  /\ queue = [t \in Threads |-> <<>>]
  /\ ready = [t \in Threads |-> {}]
  /\ best = [t \in Threads |-> NoBlock]
  /\ notified = {}

Goto(t, label) == pc' = [pc EXCEPT ![t] = label]

\* Mutant: a store where the code has fetch_or
StoreFlags(b, bits) == flags' = [flags EXCEPT ![b] = bits]

FetchOr(b, bits) == flags' = [flags EXCEPT ![b] = @ \cup bits]

\* Ready(b): BlockIndexTy::ready()
Ready(b) == {"HeaderReady", "DataReady"} \subseteq flags[b]

SuccessorEvents(ph) ==
  {e \in ChainEvent : \/ e = "BuildHeader" /\ "HeaderReady" \in ph
                      \/ e = "ParentDataReady" /\ "DataReady" \in ph}

\* The end of addHeader or addBlock proper: buildChain takes over with one queue
\* item, or returns at once when there is no event.  Locals go out of scope.
StartWalk(t, b, events) ==
  /\ call' = [call EXCEPT ![t] = NoBlock]
  /\ withData' = [withData EXCEPT ![t] = FALSE]
  /\ queue' = [queue EXCEPT ![t] = IF events = {} THEN <<>>
                                   ELSE <<[block |-> b, events |-> events]>>]
  /\ Goto(t, IF events = {} THEN "idle" ELSE "item")
  /\ UNCHANGED <<ready, best>>

-----------------------------------------------------------------------------
(***************************************************************************)
(* addHeader and addBlock                                                  *)
(***************************************************************************)

\* addHeader, up to the election of the header's writer.  Its one caller has
\* checked the proof of work; a duplicate call records that and returns.
AddHeader(t, b) ==
  /\ pc[t] = "idle"
  /\ FetchOr(b, {"HeaderWriteStarted", "WorkChecked"})
  /\ IF "HeaderWriteStarted" \in flags[b]
       THEN UNCHANGED <<pc, call, withData>>
       ELSE /\ Goto(t, "write")
            /\ call' = [call EXCEPT ![t] = b]
            /\ withData' = [withData EXCEPT ![t] = FALSE]
  /\ UNCHANGED <<prev, height, chainWork, successors, phases, walk, notified>>

\* addBlock, up to the election of the data's writer.
AddBlock(t, b) ==
  /\ pc[t] = "idle"
  /\ "DataWriteStarted" \notin flags[b]
  /\ FetchOr(b, {"DataWriteStarted"})
  /\ Goto(t, "elect")
  /\ call' = [call EXCEPT ![t] = b]
  /\ withData' = [withData EXCEPT ![t] = TRUE]
  /\ UNCHANGED <<prev, height, chainWork, successors, phases, walk, notified>>

\* addBlock has filled the data fields; now it competes to write the header.
ElectHeaderWriter(t) ==
  /\ pc[t] = "elect"
  /\ FetchOr(call[t], {"HeaderWriteStarted"})
  /\ Goto(t, IF "HeaderWriteStarted" \in flags[call[t]] THEN "data" ELSE "write")
  /\ UNCHANGED <<prev, height, chainWork, successors, phases,
                 call, withData, walk, notified>>

\* Mutant: the block is linked before HeaderDone publishes its fields
WriteHeaderUnpublished(t) ==
  /\ pc[t] = "write"
  /\ prev' = [prev EXCEPT ![call[t]] = Parent[call[t]]]
  /\ Goto(t, "link")
  /\ UNCHANGED <<flags, height, chainWork, successors, phases,
                 call, withData, walk, notified>>

\* The elected writer fills Prev and Header, plain fields.
WriteHeader(t) ==
  /\ pc[t] = "write"
  /\ prev' = [prev EXCEPT ![call[t]] = Parent[call[t]]]
  /\ Goto(t, "done")
  /\ UNCHANGED <<flags, height, chainWork, successors, phases,
                 call, withData, walk, notified>>

\* The writer publishes what it wrote; addBlock publishes header and data at once.
PublishHeader(t) ==
  /\ pc[t] = "done"
  /\ FetchOr(call[t], IF withData[t] THEN {"HeaderDone", "DataDone"} ELSE {"HeaderDone"})
  /\ Goto(t, "link")
  /\ UNCHANGED <<prev, height, chainWork, successors, phases,
                 call, withData, walk, notified>>

\* addSuccessor: the compare-and-swap that succeeds puts the block on its
\* parent's list and returns the phases the parent had already published.
\* Earlier attempts only rewrite SuccessorNext, which nobody can see yet.
AddSuccessor(t) ==
  /\ pc[t] = "link"
  /\ LET b == call[t]
         p == prev[b]
     IN /\ successors' = [successors EXCEPT ![p] = <<b>> \o @]
        /\ StartWalk(t, b, SuccessorEvents(phases[p]))
  /\ UNCHANGED <<flags, prev, height, chainWork, phases, notified>>

\* addBlock when another call writes the header: DataDone meets ParentDataReady.
PublishData(t) ==
  /\ pc[t] = "data"
  /\ FetchOr(call[t], {"DataDone"})
  /\ StartWalk(t, call[t],
               IF "ParentDataReady" \in flags[call[t]] THEN {"PublishDataReady"} ELSE {})
  /\ UNCHANGED <<prev, height, chainWork, successors, phases, notified>>

-----------------------------------------------------------------------------
(***************************************************************************)
(* buildChain: one queue item takes the steps item, meet, check, publish   *)
(* and phases, the last two only when it has a Ready bit to publish.       *)
(***************************************************************************)

Current(t) == Head(queue[t]).block
Events(t) == Head(queue[t]).events

\* The item is finished; children follow the items already in the queue.
NextItem(t, children) ==
  /\ queue' = [queue EXCEPT ![t] = Tail(@) \o children]
  /\ ready' = [ready EXCEPT ![t] = {}]
  /\ Goto(t, IF Tail(queue[t]) \o children = <<>> THEN "notify" ELSE "item")

\* CEBuildHeader fills Height and ChainWork from the parent's, plain fields;
\* CEPublishDataReady was elected by addBlock already.
BuildHeader(t) ==
  /\ pc[t] = "item"
  /\ LET b == Current(t)
         p == prev[b]
     IN IF "BuildHeader" \in Events(t)
          THEN /\ height' = [height EXCEPT ![b] = height[p] + 1]
               /\ chainWork' = [chainWork EXCEPT ![b] = chainWork[p] + Proof[b]]
          ELSE UNCHANGED <<height, chainWork>>
  /\ ready' = [ready EXCEPT ![t] =
                 {r \in SuccessorPhase :
                    \/ r = "HeaderReady" /\ "BuildHeader" \in Events(t)
                    \/ r = "DataReady" /\ "PublishDataReady" \in Events(t)}]
  /\ Goto(t, "meet")
  /\ UNCHANGED <<flags, prev, successors, phases, call, withData, queue, best, notified>>

\* CEParentDataReady meets DataDone: the later of the two builds the data path.
MeetParentData(t) ==
  /\ pc[t] = "meet"
  /\ IF "ParentDataReady" \in Events(t)
       THEN /\ FetchOr(Current(t), {"ParentDataReady"})
            /\ ready' = [ready EXCEPT ![t] =
                           IF "DataDone" \in flags[Current(t)] THEN @ \cup {"DataReady"} ELSE @]
       ELSE UNCHANGED <<flags, ready>>
  /\ Goto(t, "check")
  /\ UNCHANGED <<prev, height, chainWork, successors, phases,
                 call, withData, queue, best, notified>>

\* Invalid data, the block's or its parent's, stops the data phase.  Invalid is
\* never cleared, so the two loads see what one load at the second would see.
CheckInvalid(t) ==
  /\ pc[t] = "check"
  /\ LET b == Current(t)
         drop == "Invalid" \in flags[b] \/ "Invalid" \in flags[prev[b]]
         left == IF "DataReady" \in ready[t] /\ drop THEN ready[t] \ {"DataReady"} ELSE ready[t]
     IN IF left = {}
          THEN NextItem(t, <<>>)
          ELSE /\ ready' = [ready EXCEPT ![t] = left]
               /\ Goto(t, "publish")
               /\ UNCHANGED queue
  /\ UNCHANGED <<index, call, withData, best, notified>>

\* Mutant: only a walk that publishes both bits itself counts the block
PublishReadyOwnBits(t) ==
  /\ pc[t] = "publish"
  /\ LET b == Current(t)
     IN /\ FetchOr(b, ready[t])
        /\ best' = [best EXCEPT ![t] =
                      IF /\ SuccessorPhase \subseteq ready[t]
                         /\ @ = NoBlock \/ chainWork[b] > chainWork[@]
                      THEN b ELSE @]
  /\ Goto(t, "phases")
  /\ UNCHANGED <<prev, height, chainWork, successors, phases,
                 call, withData, queue, ready, notified>>

\* The fetch_or that publishes the Ready bits, and the choice of the walk's best.
PublishReady(t) ==
  /\ pc[t] = "publish"
  /\ LET b == Current(t)
     IN /\ FetchOr(b, ready[t])
        /\ best' = [best EXCEPT ![t] =
                      IF /\ SuccessorPhase \subseteq flags[b] \cup ready[t]
                         /\ @ = NoBlock \/ chainWork[b] > chainWork[@]
                      THEN b ELSE @]
  /\ Goto(t, "phases")
  /\ UNCHANGED <<prev, height, chainWork, successors, phases,
                 call, withData, queue, ready, notified>>

\* Mutant: only the head of the list gets the phase
PublishPhasesToHead(t) ==
  /\ pc[t] = "phases"
  /\ LET b == Current(t)
     IN /\ phases' = [phases EXCEPT ![b] = @ \cup ready[t]]
        /\ NextItem(t, [i \in 1..(IF successors[b] = <<>> THEN 0 ELSE 1) |->
                          [block |-> successors[b][i], events |-> SuccessorEvents(ready[t])]])
  /\ UNCHANGED <<flags, prev, height, chainWork, successors, call, withData, best, notified>>

\* Mutant: a walk that publishes one phase starts both in the children
PublishPhasesBoth(t) ==
  /\ pc[t] = "phases"
  /\ LET b == Current(t)
     IN /\ phases' = [phases EXCEPT ![b] = @ \cup ready[t]]
        /\ NextItem(t, [i \in 1..Len(successors[b]) |->
                          [block |-> successors[b][i], events |-> SuccessorEvents(SuccessorPhase)]])
  /\ UNCHANGED <<flags, prev, height, chainWork, successors, call, withData, best, notified>>

\* The fetch_or on Successors hands the phase to the children on the list.
PublishPhases(t) ==
  /\ pc[t] = "phases"
  /\ LET b == Current(t)
     IN /\ phases' = [phases EXCEPT ![b] = @ \cup ready[t]]
        /\ NextItem(t, [i \in 1..Len(successors[b]) |->
                          [block |-> successors[b][i], events |-> SuccessorEvents(ready[t])]])
  /\ UNCHANGED <<flags, prev, height, chainWork, successors, call, withData, best, notified>>

NotifyReady(t) ==
  /\ pc[t] = "notify"
  /\ notified' = notified \cup ({best[t]} \ {NoBlock})
  /\ best' = [best EXCEPT ![t] = NoBlock]
  /\ Goto(t, "idle")
  /\ UNCHANGED <<index, call, withData, queue, ready>>

-----------------------------------------------------------------------------

\* The pipeline found the block invalid; it only looks at ready blocks.
MarkInvalid(b) ==
  /\ b # Genesis
  /\ Ready(b)
  /\ FetchOr(b, {"Invalid"})
  /\ UNCHANGED <<prev, height, chainWork, successors, phases,
                 pc, call, withData, walk, notified>>

\* What a thread does inside a call it has begun
Continue(t) ==
  \/ ElectHeaderWriter(t)
  \/ WriteHeader(t)
  \/ PublishHeader(t)
  \/ AddSuccessor(t)
  \/ PublishData(t)
  \/ BuildHeader(t)
  \/ MeetParentData(t)
  \/ CheckInvalid(t)
  \/ PublishReady(t)
  \/ PublishPhases(t)
  \/ NotifyReady(t)

Next ==
  \/ \E t \in Threads :
       \/ \E b \in Blocks : AddHeader(t, b) \/ AddBlock(t, b)
       \/ Continue(t)
  \/ \E b \in Blocks : MarkInvalid(b)

Spec == Init /\ [][Next]_vars

\* A thread inside a call keeps running; nothing makes a call begin.
FairSpec == Spec /\ \A t \in Threads : WF_vars(Continue(t))

-----------------------------------------------------------------------------
(***************************************************************************)
(* Properties                                                              *)
(***************************************************************************)

WalkSteps == {"item", "meet", "check", "publish", "phases"}

TypeOK ==
  /\ flags \in [Blocks -> SUBSET BlockFlags]
  /\ prev \in [Blocks -> Blocks \cup {NoBlock}]
  /\ height \in [Blocks -> Nat \cup {UnknownHeight}]
  /\ chainWork \in [Blocks -> Nat]
  /\ successors \in [Blocks -> Seq(Blocks \ {Genesis})]
  /\ phases \in [Blocks -> SUBSET SuccessorPhase]
  /\ pc \in [Threads -> WalkSteps \cup {"idle", "elect", "write", "done",
                                        "link", "data", "notify"}]
  /\ call \in [Threads -> Blocks \cup {NoBlock}]
  /\ withData \in [Threads -> BOOLEAN]
  /\ queue \in [Threads -> Seq([block : Blocks \ {Genesis}, events : SUBSET ChainEvent])]
  /\ ready \in [Threads -> SUBSET SuccessorPhase]
  /\ best \in [Threads -> Blocks \cup {NoBlock}]
  /\ notified \subseteq Blocks

\* The assertion of buildChain, "Each Ready bit has exactly one publisher":
\* whichever threads walk over a block, none publishes a bit that is on.
OnePublisher ==
  \A t \in Threads : pc[t] = "publish" => ready[t] \cap flags[Current(t)] = {}

\* HeaderReady, "header path to genesis: Height and ChainWork are readable":
\* the bit is on only above a parent that has it, and the two plain fields then
\* hold the distance and the work from the genesis block, whoever wrote them.
HeaderPath ==
  \A b \in Blocks : "HeaderReady" \in flags[b] =>
    /\ height[b] = Depth[b]
    /\ chainWork[b] = Total[b]
    /\ b # Genesis => /\ "HeaderDone" \in flags[b]
                      /\ prev[b] = Parent[b]
                      /\ "HeaderReady" \in flags[Parent[b]]

\* DataReady, "complete block-data path to genesis": a block has it only when its
\* data is there and its parent has it, although the data may come in any order.
DataPath ==
  \A b \in Blocks : "DataReady" \in flags[b] =>
    /\ {"HeaderDone", "DataDone"} \subseteq flags[b]
    /\ b # Genesis => "DataReady" \in flags[Parent[b]]

\* A thread reads a plain field of a block only after its writer published it:
\* Prev in addSuccessor and the Invalid check, the parent's Height and ChainWork
\* in the header step, the block's own ChainWork when it competes for best.
ReadsPublished ==
  \A t \in Threads :
    /\ pc[t] = "link" => "HeaderDone" \in flags[call[t]]
    /\ pc[t] \in WalkSteps => "HeaderDone" \in flags[Current(t)]
    /\ pc[t] = "item" /\ "BuildHeader" \in Events(t) =>
         "HeaderReady" \in flags[prev[Current(t)]]
    /\ best[t] # NoBlock => "HeaderReady" \in flags[best[t]]

Quiet == \A t \in Threads : pc[t] = "idle"

Valid(b) == "Invalid" \notin flags[b]

HeaderDue(b) ==
  /\ "HeaderDone" \in flags[b]
  /\ "HeaderReady" \in flags[Parent[b]]

DataDue(b) ==
  /\ {"HeaderDone", "DataDone"} \subseteq flags[b]
  /\ "DataReady" \in flags[Parent[b]]
  /\ Valid(b) /\ Valid(Parent[b])

\* addSuccessor: "Insertion before a phase's fetch_or belongs to that snapshot;
\* insertion after it inherits the phase".  Once every call has returned, no
\* header waits under a ready header and no data under ready data.
NothingLost ==
  Quiet => \A b \in Blocks \ {Genesis} :
    /\ HeaderDue(b) => "HeaderReady" \in flags[b]
    /\ DataDue(b) => "DataReady" \in flags[b]

\* notifyReady gets only ready blocks, and once every call has returned it has been
\* given a block at least as heavy as any that became ready since startup: the
\* header and the data walk that complete a block between them never both miss it.
HeaviestNotified ==
  /\ \A b \in notified : Ready(b)
  /\ Quiet => \A b \in Blocks \ Loaded : Ready(b) =>
       \E n \in notified : chainWork[n] >= chainWork[b]

\* "Header and Prev are immutable and readable" once HeaderDone is on, so are
\* Height and ChainWork under HeaderReady, and no bit of Flags is ever cleared.
PublishedStays ==
  [][\A b \in Blocks :
       /\ flags[b] \subseteq flags'[b]
       /\ "HeaderDone" \in flags[b] => prev'[b] = prev[b]
       /\ "HeaderReady" \in flags[b] =>
            height'[b] = height[b] /\ chainWork'[b] = chainWork[b]]_vars

-----------------------------------------------------------------------------
With(bit) == {b \in Blocks : bit \in flags[b]}

Readiness == INSTANCE BlockReadiness WITH
  known <- With("HeaderDone"),
  stored <- With("DataDone"),
  headerReady <- With("HeaderReady"),
  dataReady <- With("DataReady"),
  invalid <- With("Invalid")

\* However the threads interleave, the index as its readers see it behaves like
\* BlockReadiness: a block becomes ready above ready parents only, never twice.
ImplementsReadiness == Readiness!SafeSpec

=============================================================================
