-------------------- MODULE MCLive --------------------
(******************************************************************************)
(* What must happen in the end, on small instances: the archive follows the   *)
(* chain, a request for a transaction ends, and the node gets the chain of a  *)
(* peer that stays.  A behaviour is one of one component.                     *)
(******************************************************************************)
EXTENDS Integers, Sequences, FiniteSets, TLC

CONSTANTS g, x1, x2, y1, d1, d2, p, q, w1, none

ForkBlocks == {g, x1, x2, y1}
ForkParent == x1 :> g @@ x2 :> x1 @@ y1 :> g
ForkDepth == g :> 0 @@ x1 :> 1 @@ x2 :> 2 @@ y1 :> 1

\* A transaction with two witness variants and a child, and one only blocks hold
RelayIds == {"g", "a", "b", "d"}
RelayInputs ==
  [t \in RelayIds |-> CASE t = "a" -> {<<"g", 0>>} [] t \in {"b", "d"} -> {<<"a", 0>>} [] OTHER -> {}]
RelayKeys == [t \in RelayIds |-> IF t = "a" THEN {"a1", "a2"} ELSE {t}]

VARIABLES part,  \* the component this behaviour is of; what the others need is 0
  tasks, queues, worker, from, applied, log, pushing, queue, mutator, event, thread, batch, memory, stored,
  cached, disk, lanes, prepared, deleted, noticed, inbox, woken, queued, view, pc, tries, chain, w, timer,
  messages, bases, best, have, wire, expect, msgs, inFlight, lastPortion, headersFinished, released,
  lastKnown, enqueued, hp, slots, frontier, hand, asked, owed, starved, first, taken, losses

vars == <<part, tasks, queues, worker, from, applied, log, pushing, queue, mutator, event, thread, batch,
          memory, stored, cached, disk, lanes, prepared, deleted, noticed, inbox, woken, queued, view, pc,
          tries, chain, w, timer, messages, bases, best, have, wire, expect, msgs, inFlight, lastPortion,
          headersFinished, released, lastKnown, enqueued, hp, slots, frontier, hand, asked, owed, starved,
          first, taken, losses>>

Queue == INSTANCE StorageQueue WITH
  Blocks <- ForkBlocks, Genesis <- g, Parent <- ForkParent, Depth <- ForkDepth, Dbs <- {d1, d2},
  Never <- 100, CacheLimit <- 2, MaxMoves <- 3
Relay == INSTANCE TxRelay WITH
  Peers <- {p, q}, Txs <- {"a"}, OrphanLifetime <- 1, RequestTimeout <- 2, MaxMessages <- 2, MaxBases <- 0,
  Ids <- RelayIds, Inputs <- RelayInputs, Keys <- RelayKeys, Invs <- {<<"a">>},
  Blocks <- {{}, {"a"}, {"a", "d"}}, MaxOrphans <- 1, OverloadedPeerDelay <- 1, MaxPeerRequestsInFlight <- 1,
  MaxPeerAnnouncements <- 2, MarksSlack <- 0, ConfirmedBlocks <- 1, MaxRejected <- 2, MaxPeerQueued <- 2,
  MaxQueued <- 2, None <- none
Source == INSTANCE BlockSource WITH
  Top <- 2, HeaderBatch <- 2, BlockBatch <- 1, CacheLimit <- 1, Threads <- {w1}, MaxLosses <- 1

Init ==
  \/ /\ part = "queue" /\ Queue!Init
     /\ deleted = 0 /\ noticed = 0 /\ inbox = 0 /\ woken = 0 /\ queued = 0 /\ view = 0 /\ pc = 0 /\
        tries = 0 /\ chain = 0 /\ w = 0 /\ timer = 0 /\ messages = 0 /\ bases = 0 /\ best = 0 /\ have = 0 /\
        wire = 0 /\ expect = 0 /\ msgs = 0 /\ inFlight = 0 /\ lastPortion = 0 /\ headersFinished = 0 /\
        released = 0 /\ lastKnown = 0 /\ enqueued = 0 /\ hp = 0 /\ slots = 0 /\ frontier = 0 /\ hand = 0 /\
        asked = 0 /\ owed = 0 /\ starved = 0 /\ first = 0 /\ taken = 0 /\ losses = 0
  \/ /\ part = "relay" /\ Relay!Init
     /\ tasks = 0 /\ queues = 0 /\ worker = 0 /\ from = 0 /\ applied = 0 /\ log = 0 /\ pushing = 0 /\
        queue = 0 /\ mutator = 0 /\ event = 0 /\ thread = 0 /\ memory = 0 /\ stored = 0 /\ cached = 0 /\
        disk = 0 /\ lanes = 0 /\ prepared = 0 /\ best = 0 /\ have = 0 /\ wire = 0 /\ expect = 0 /\
        msgs = 0 /\ inFlight = 0 /\ lastPortion = 0 /\ headersFinished = 0 /\ released = 0 /\
        lastKnown = 0 /\ enqueued = 0 /\ hp = 0 /\ slots = 0 /\ frontier = 0 /\ hand = 0 /\ asked = 0 /\
        owed = 0 /\ starved = 0 /\ first = 0 /\ taken = 0 /\ losses = 0
  \/ /\ part = "source" /\ Source!Init
     /\ tasks = 0 /\ queues = 0 /\ worker = 0 /\ from = 0 /\ applied = 0 /\ log = 0 /\ pushing = 0 /\
        mutator = 0 /\ event = 0 /\ thread = 0 /\ batch = 0 /\ memory = 0 /\ stored = 0 /\ cached = 0 /\
        disk = 0 /\ lanes = 0 /\ prepared = 0 /\ deleted = 0 /\ noticed = 0 /\ inbox = 0 /\ woken = 0 /\
        queued = 0 /\ view = 0 /\ pc = 0 /\ tries = 0 /\ chain = 0 /\ w = 0 /\ timer = 0 /\ messages = 0 /\
        bases = 0

Next ==
  \/ /\ part = "queue" /\ Queue!Next
     /\ UNCHANGED <<part, deleted, noticed, inbox, woken, queued, view, pc, tries, chain, w, timer, messages,
                     bases, best, have, wire, expect, msgs, inFlight, lastPortion, headersFinished, released,
                     lastKnown, enqueued, hp, slots, frontier, hand, asked, owed, starved, first, taken,
                     losses>>
  \/ /\ part = "relay" /\ Relay!Next
     /\ UNCHANGED <<part, tasks, queues, worker, from, applied, log, pushing, queue, mutator, event, thread,
                     memory, stored, cached, disk, lanes, prepared, best, have, wire, expect, msgs, inFlight,
                     lastPortion, headersFinished, released, lastKnown, enqueued, hp, slots, frontier, hand,
                     asked, owed, starved, first, taken, losses>>
  \/ /\ part = "source" /\ Source!Next
     /\ UNCHANGED <<part, tasks, queues, worker, from, applied, log, pushing, mutator, event, thread, batch,
                     memory, stored, cached, disk, lanes, prepared, deleted, noticed, inbox, woken, queued,
                     view, pc, tries, chain, w, timer, messages, bases>>

ASSUME LiveAssumption ==
  Relay!RelayAssumption /\ Source!SourceAssumption /\ Queue!StorageAssumption

\* The fairness of each component, for the behaviours that are its own
QueueFair ==
  /\ WF_(Queue!vars)(part = "queue" /\ Queue!Push)
  /\ WF_(Queue!vars)(part = "queue" /\ Queue!WakeUp)
  /\ WF_(Queue!vars)(part = "queue" /\ Queue!StorageThread)
  /\ \A d \in {d1, d2} : WF_(Queue!vars)(part = "queue" /\ Queue!DbStep(d))

RelayFair == []<>(part = "relay" => pc = "idle" /\ ~woken) /\ WF_(Relay!vars)(part = "relay" /\ Relay!Tick)

SourceFair ==
  /\ WF_(Source!vars)(part = "source" /\ Source!Receive)
  /\ WF_(Source!vars)(part = "source" /\ Source!Connect)
  /\ WF_(Source!vars)(part = "source" /\ Source!Restart)
  /\ WF_(Source!vars)(part = "source" /\ \E m \in msgs : Source!Handle(m))
  /\ SF_(Source!vars)(part = "source" /\ \E m \in msgs : Source!Follows(m) /\ Source!Batch(m))
  /\ WF_(Source!vars)(part = "source" /\ Source!Dequeue(w1) /\ (starved' \/ hand'[w1] # <<>>))
  /\ WF_(Source!vars)(part = "source" /\ Source!Request(w1))
  /\ \A b \in 1..2 : /\ WF_(Source!vars)(part = "source" /\ Source!Deliver(b))
                     /\ WF_(Source!vars)(part = "source" /\ Source!Age(b))

FairSpec == Init /\ [][Next]_vars /\ QueueFair /\ RelayFair /\ SourceFair

-----------------------------------------------------------------------------
\* Every move of the chain reaches every archive database, however the wake-ups fall (storage.cpp:170).
ArchiveCatchesUp == []<>(part = "queue" => \A d \in {d1, d2} : applied[d] = log)

\* "No announcement waits for good": every request for a transaction ends, answered or with
\* all its announcers asked in turn (txRelay.cpp:620).
RequestsEnd == []<>(part = "relay" => DOMAIN w.requests = {})

\* The node gets the chain of a producer, whatever is lost, rejected or delayed on the
\* way, although a full cache lets only holes be asked for (blockSource.cpp:92-112, network.cpp:1276-1278).
CatchesUp == <>(part = "source" => best = 2)
=============================================================================
