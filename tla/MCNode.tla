-------------------- MODULE MCNode --------------------
(******************************************************************************)
(* What runs besides the chain: the mempool against a moving database, the    *)
(* relay of transactions, a peer's download loop, a source of blocks, the     *)
(* lists the HTTP server collects while the chain moves, and its connections. *)
(* A behaviour is one of one component.                                       *)
(******************************************************************************)
EXTENDS Integers, Sequences, FiniteSets, TLC

CONSTANTS g, c, a1, a2, b1, b2, b3, t1, t2, t3, t4, p, q, w1, w2, w3, s1, s2, none, SourceThreads

VARIABLES part,  \* the component this behaviour is of; what the others need is 0
  slots, changeSeq, cache, view, edits, op, wake, inbox, active, base, baseSeq, entries, spent, waiting, at,
  todo, probe, reply, deleted, noticed, woken, queued, pc, batch, tries, chain, w, timer, messages, bases,
  word, received, scheduled, source, armed, bulk, sent, have, h, disturbed, batches, relays, leaves,
  connects, best, wire, expect, msgs, inFlight, lastPortion, headersFinished, released, lastKnown, enqueued,
  queue, hp, frontier, hand, asked, owed, starved, first, taken, losses, next, onChain, byHeight,
  archiveTodo, archived, memTodo, pooled, switches, req, seen, room, old, given, filled, requests, replies,
  held, closes, refs, reads

vars == <<part, slots, changeSeq, cache, view, edits, op, wake, inbox, active, base, baseSeq, entries, spent,
          waiting, at, todo, probe, reply, deleted, noticed, woken, queued, pc, batch, tries, chain, w,
          timer, messages, bases, word, received, scheduled, source, armed, bulk, sent, have, h, disturbed,
          batches, relays, leaves, connects, best, wire, expect, msgs, inFlight, lastPortion,
          headersFinished, released, lastKnown, enqueued, queue, hp, frontier, hand, asked, owed, starved,
          first, taken, losses, next, onChain, byHeight, archiveTodo, archived, memTodo, pooled, switches,
          req, seen, room, old, given, filled, requests, replies, held, closes, refs, reads>>

\* Two branches over the genesis block: both hold t1, only one of them t2, which spends it
PoolPrev == a1 :> g @@ a2 :> a1 @@ b1 :> g @@ b2 :> b1
PoolTxsOf == g :> <<>> @@ a1 :> <<t1>> @@ a2 :> <<t2>> @@ b1 :> <<>> @@ b2 :> <<t1>>
PoolCoinbase == [b \in {g, a1, a2, b1, b2} |-> IF b = g THEN <<"c0">> ELSE <<>>]
PoolIns == t1 :> <<"c0">> @@ t2 :> <<"c1">> @@ t3 :> <<"c0">> @@ t4 :> <<"c2", "c1b">>
PoolOuts == t1 :> <<"c1", "c1b">> @@ t2 :> <<"c2">> @@ t3 :> <<"c3">> @@ t4 :> <<"c4">>

\* A transaction with two witness variants and a child, and one only blocks hold
RelayIds == {"g", "a", "b", "d"}
RelayInputs ==
  [t \in RelayIds |-> CASE t = "a" -> {<<"g", 0>>} [] t \in {"b", "d"} -> {<<"a", 0>>} [] OTHER -> {}]
RelayKeys == [t \in RelayIds |-> IF t = "a" THEN {"a1", "a2"} ELSE {t}]

\* A fork one block above the genesis block
ReadBlocks == {g, c, a1, b1, b2}
ReadPrev == [x \in ReadBlocks |-> CASE x \in {g, c} -> g [] x = b2 -> b1 [] OTHER -> c]
ReadHeight == [x \in ReadBlocks |-> CASE x = g -> 0 [] x = c -> 1 [] x = b2 -> 3 [] OTHER -> 2]

Pool == INSTANCE Mempool WITH
  Blocks <- {g, a1, a2, b1, b2}, Genesis <- g, PrevOf <- PoolPrev, TxsOf <- PoolTxsOf,
  CoinbaseOf <- PoolCoinbase, Txs <- {t2, t4}, Ins <- PoolIns, Outs <- PoolOuts, Cacheable <- {"c0", "c1"},
  Start <- b1, MaxSyncBlocks <- 1, MaxWaiting <- 2, MaxSeq <- 4, None <- none
Relay == INSTANCE TxRelay WITH
  Peers <- {p, q}, Txs <- {"a"}, OrphanLifetime <- 2, RequestTimeout <- 2, MaxMessages <- 2, MaxBases <- 0,
  Ids <- RelayIds, Inputs <- RelayInputs, Keys <- RelayKeys, Invs <- {<<"a">>, <<"b">>, <<"b", "a">>},
  Blocks <- {{}, {"a"}, {"a", "d"}}, MaxOrphans <- 1, OverloadedPeerDelay <- 1, MaxPeerRequestsInFlight <- 1,
  MaxPeerAnnouncements <- 2, MarksSlack <- 0, ConfirmedBlocks <- 1, MaxRejected <- 2, MaxPeerQueued <- 2,
  MaxQueued <- 2, None <- none
Orphans == INSTANCE TxRelay WITH
  Peers <- {p}, Txs <- {"a", "b"}, OrphanLifetime <- 1, RequestTimeout <- 1, MaxMessages <- 2, MaxBases <- 1,
  Ids <- RelayIds, Inputs <- RelayInputs, Keys <- RelayKeys, Invs <- {<<"a">>, <<"b">>, <<"b", "a">>},
  Blocks <- {{}, {"a"}, {"a", "d"}}, MaxOrphans <- 1, OverloadedPeerDelay <- 1, MaxPeerRequestsInFlight <- 1,
  MaxPeerAnnouncements <- 2, MarksSlack <- 0, ConfirmedBlocks <- 1, MaxRejected <- 2, MaxPeerQueued <- 2,
  MaxQueued <- 2, None <- none
Download == INSTANCE PeerDownload WITH
  Threads <- {w1, w2, w3}, Blocks <- {b1, b2, b3}, Sources <- {s1, s2},
  BlocksOf <- s1 :> {b1, b2} @@ s2 :> {b3}, After <- s1 :> s2 @@ s2 :> none, Range <- 256, MaxBatches <- 2,
  MaxRelays <- 1, MaxLeaves <- 1, MaxConnects <- 1, None <- none
Source == INSTANCE BlockSource WITH
  Top <- 2, HeaderBatch <- 1, BlockBatch <- 2, CacheLimit <- 1, Threads <- SourceThreads, MaxLosses <- 1
Reads == INSTANCE HttpReads WITH
  Blocks <- ReadBlocks, Genesis <- g, Prev <- ReadPrev, Height <- ReadHeight, TxBlocks <- {a1, b1},
  Limits <- {2, 9}, Tips <- {c, a1, b2}, Kinds <- {"list", "height", "hash", "txid"}, MaxSwitches <- 2,
  None <- none
Http == INSTANCE HttpConnection WITH
  Conns <- {p, q}, Capacity <- 2, MaxReads <- 3

Init ==
  \/ /\ part = "mempool" /\ Pool!Init
     /\ deleted = 0 /\ noticed = 0 /\ woken = 0 /\ queued = 0 /\ pc = 0 /\ batch = 0 /\ tries = 0 /\
        chain = 0 /\ w = 0 /\ timer = 0 /\ messages = 0 /\ bases = 0 /\ word = 0 /\ received = 0 /\
        scheduled = 0 /\ source = 0 /\ armed = 0 /\ bulk = 0 /\ sent = 0 /\ have = 0 /\ h = 0 /\
        disturbed = 0 /\ batches = 0 /\ relays = 0 /\ leaves = 0 /\ connects = 0 /\ best = 0 /\ wire = 0 /\
        expect = 0 /\ msgs = 0 /\ inFlight = 0 /\ lastPortion = 0 /\ headersFinished = 0 /\ released = 0 /\
        lastKnown = 0 /\ enqueued = 0 /\ queue = 0 /\ hp = 0 /\ frontier = 0 /\ hand = 0 /\ asked = 0 /\
        owed = 0 /\ starved = 0 /\ first = 0 /\ taken = 0 /\ losses = 0 /\ next = 0 /\ onChain = 0 /\
        byHeight = 0 /\ archiveTodo = 0 /\ archived = 0 /\ memTodo = 0 /\ pooled = 0 /\ switches = 0 /\
        req = 0 /\ seen = 0 /\ room = 0 /\ old = 0 /\ given = 0 /\ filled = 0 /\ requests = 0 /\
        replies = 0 /\ held = 0 /\ closes = 0 /\ refs = 0 /\ reads = 0
  \/ /\ part = "relay" /\ Relay!Init
     /\ slots = 0 /\ changeSeq = 0 /\ cache = 0 /\ edits = 0 /\ op = 0 /\ wake = 0 /\ active = 0 /\
        base = 0 /\ baseSeq = 0 /\ entries = 0 /\ spent = 0 /\ waiting = 0 /\ at = 0 /\ todo = 0 /\
        probe = 0 /\ reply = 0 /\ word = 0 /\ received = 0 /\ scheduled = 0 /\ source = 0 /\ armed = 0 /\
        bulk = 0 /\ sent = 0 /\ have = 0 /\ h = 0 /\ disturbed = 0 /\ batches = 0 /\ relays = 0 /\
        leaves = 0 /\ connects = 0 /\ best = 0 /\ wire = 0 /\ expect = 0 /\ msgs = 0 /\ inFlight = 0 /\
        lastPortion = 0 /\ headersFinished = 0 /\ released = 0 /\ lastKnown = 0 /\ enqueued = 0 /\
        queue = 0 /\ hp = 0 /\ frontier = 0 /\ hand = 0 /\ asked = 0 /\ owed = 0 /\ starved = 0 /\
        first = 0 /\ taken = 0 /\ losses = 0 /\ next = 0 /\ onChain = 0 /\ byHeight = 0 /\ archiveTodo = 0 /\
        archived = 0 /\ memTodo = 0 /\ pooled = 0 /\ switches = 0 /\ req = 0 /\ seen = 0 /\ room = 0 /\
        old = 0 /\ given = 0 /\ filled = 0 /\ requests = 0 /\ replies = 0 /\ held = 0 /\ closes = 0 /\
        refs = 0 /\ reads = 0
  \/ /\ part = "orphans" /\ Orphans!Init
     /\ slots = 0 /\ changeSeq = 0 /\ cache = 0 /\ edits = 0 /\ op = 0 /\ wake = 0 /\ active = 0 /\
        base = 0 /\ baseSeq = 0 /\ entries = 0 /\ spent = 0 /\ waiting = 0 /\ at = 0 /\ todo = 0 /\
        probe = 0 /\ reply = 0 /\ word = 0 /\ received = 0 /\ scheduled = 0 /\ source = 0 /\ armed = 0 /\
        bulk = 0 /\ sent = 0 /\ have = 0 /\ h = 0 /\ disturbed = 0 /\ batches = 0 /\ relays = 0 /\
        leaves = 0 /\ connects = 0 /\ best = 0 /\ wire = 0 /\ expect = 0 /\ msgs = 0 /\ inFlight = 0 /\
        lastPortion = 0 /\ headersFinished = 0 /\ released = 0 /\ lastKnown = 0 /\ enqueued = 0 /\
        queue = 0 /\ hp = 0 /\ frontier = 0 /\ hand = 0 /\ asked = 0 /\ owed = 0 /\ starved = 0 /\
        first = 0 /\ taken = 0 /\ losses = 0 /\ next = 0 /\ onChain = 0 /\ byHeight = 0 /\ archiveTodo = 0 /\
        archived = 0 /\ memTodo = 0 /\ pooled = 0 /\ switches = 0 /\ req = 0 /\ seen = 0 /\ room = 0 /\
        old = 0 /\ given = 0 /\ filled = 0 /\ requests = 0 /\ replies = 0 /\ held = 0 /\ closes = 0 /\
        refs = 0 /\ reads = 0
  \/ /\ part = "download" /\ Download!Init
     /\ slots = 0 /\ changeSeq = 0 /\ cache = 0 /\ view = 0 /\ edits = 0 /\ op = 0 /\ wake = 0 /\
        inbox = 0 /\ active = 0 /\ base = 0 /\ baseSeq = 0 /\ entries = 0 /\ spent = 0 /\ waiting = 0 /\
        at = 0 /\ todo = 0 /\ probe = 0 /\ reply = 0 /\ deleted = 0 /\ noticed = 0 /\ woken = 0 /\
        queued = 0 /\ pc = 0 /\ batch = 0 /\ tries = 0 /\ chain = 0 /\ w = 0 /\ timer = 0 /\ messages = 0 /\
        bases = 0 /\ best = 0 /\ wire = 0 /\ expect = 0 /\ msgs = 0 /\ inFlight = 0 /\ lastPortion = 0 /\
        headersFinished = 0 /\ released = 0 /\ lastKnown = 0 /\ enqueued = 0 /\ queue = 0 /\ hp = 0 /\
        frontier = 0 /\ hand = 0 /\ asked = 0 /\ owed = 0 /\ starved = 0 /\ first = 0 /\ taken = 0 /\
        losses = 0 /\ next = 0 /\ onChain = 0 /\ byHeight = 0 /\ archiveTodo = 0 /\ archived = 0 /\
        memTodo = 0 /\ pooled = 0 /\ switches = 0 /\ req = 0 /\ seen = 0 /\ room = 0 /\ old = 0 /\
        given = 0 /\ filled = 0 /\ requests = 0 /\ replies = 0 /\ held = 0 /\ closes = 0 /\ refs = 0 /\
        reads = 0
  \/ /\ part = "source" /\ Source!Init
     /\ changeSeq = 0 /\ cache = 0 /\ view = 0 /\ edits = 0 /\ op = 0 /\ wake = 0 /\ inbox = 0 /\
        active = 0 /\ base = 0 /\ baseSeq = 0 /\ entries = 0 /\ spent = 0 /\ waiting = 0 /\ at = 0 /\
        todo = 0 /\ probe = 0 /\ reply = 0 /\ deleted = 0 /\ noticed = 0 /\ woken = 0 /\ queued = 0 /\
        pc = 0 /\ batch = 0 /\ tries = 0 /\ chain = 0 /\ w = 0 /\ timer = 0 /\ messages = 0 /\ bases = 0 /\
        word = 0 /\ received = 0 /\ scheduled = 0 /\ source = 0 /\ armed = 0 /\ bulk = 0 /\ sent = 0 /\
        h = 0 /\ disturbed = 0 /\ batches = 0 /\ relays = 0 /\ leaves = 0 /\ connects = 0 /\ next = 0 /\
        onChain = 0 /\ byHeight = 0 /\ archiveTodo = 0 /\ archived = 0 /\ memTodo = 0 /\ pooled = 0 /\
        switches = 0 /\ req = 0 /\ seen = 0 /\ room = 0 /\ old = 0 /\ given = 0 /\ filled = 0 /\
        requests = 0 /\ replies = 0 /\ held = 0 /\ closes = 0 /\ refs = 0 /\ reads = 0
  \/ /\ part = "reads" /\ Reads!Init
     /\ slots = 0 /\ changeSeq = 0 /\ cache = 0 /\ view = 0 /\ edits = 0 /\ op = 0 /\ wake = 0 /\
        inbox = 0 /\ active = 0 /\ base = 0 /\ baseSeq = 0 /\ entries = 0 /\ spent = 0 /\ waiting = 0 /\
        at = 0 /\ probe = 0 /\ reply = 0 /\ deleted = 0 /\ noticed = 0 /\ woken = 0 /\ queued = 0 /\
        pc = 0 /\ batch = 0 /\ tries = 0 /\ chain = 0 /\ w = 0 /\ timer = 0 /\ messages = 0 /\ bases = 0 /\
        word = 0 /\ received = 0 /\ scheduled = 0 /\ source = 0 /\ armed = 0 /\ bulk = 0 /\ sent = 0 /\
        have = 0 /\ h = 0 /\ disturbed = 0 /\ batches = 0 /\ relays = 0 /\ leaves = 0 /\ connects = 0 /\
        wire = 0 /\ expect = 0 /\ msgs = 0 /\ inFlight = 0 /\ lastPortion = 0 /\ headersFinished = 0 /\
        released = 0 /\ lastKnown = 0 /\ enqueued = 0 /\ queue = 0 /\ hp = 0 /\ frontier = 0 /\ hand = 0 /\
        asked = 0 /\ owed = 0 /\ starved = 0 /\ first = 0 /\ taken = 0 /\ losses = 0 /\ room = 0 /\
        old = 0 /\ given = 0 /\ filled = 0 /\ requests = 0 /\ replies = 0 /\ held = 0 /\ closes = 0 /\
        refs = 0 /\ reads = 0
  \/ /\ part = "http" /\ Http!Init
     /\ slots = 0 /\ changeSeq = 0 /\ cache = 0 /\ view = 0 /\ edits = 0 /\ wake = 0 /\ inbox = 0 /\
        active = 0 /\ baseSeq = 0 /\ entries = 0 /\ spent = 0 /\ waiting = 0 /\ at = 0 /\ todo = 0 /\
        probe = 0 /\ reply = 0 /\ noticed = 0 /\ woken = 0 /\ queued = 0 /\ pc = 0 /\ batch = 0 /\
        tries = 0 /\ chain = 0 /\ w = 0 /\ timer = 0 /\ messages = 0 /\ bases = 0 /\ word = 0 /\
        received = 0 /\ scheduled = 0 /\ source = 0 /\ armed = 0 /\ bulk = 0 /\ sent = 0 /\ have = 0 /\
        h = 0 /\ disturbed = 0 /\ batches = 0 /\ relays = 0 /\ leaves = 0 /\ connects = 0 /\ best = 0 /\
        wire = 0 /\ expect = 0 /\ msgs = 0 /\ inFlight = 0 /\ lastPortion = 0 /\ headersFinished = 0 /\
        released = 0 /\ lastKnown = 0 /\ enqueued = 0 /\ queue = 0 /\ hp = 0 /\ frontier = 0 /\ hand = 0 /\
        asked = 0 /\ owed = 0 /\ starved = 0 /\ first = 0 /\ taken = 0 /\ losses = 0 /\ next = 0 /\
        onChain = 0 /\ byHeight = 0 /\ archiveTodo = 0 /\ archived = 0 /\ memTodo = 0 /\ pooled = 0 /\
        switches = 0 /\ req = 0 /\ seen = 0

Next ==
  \/ /\ part = "mempool" /\ Pool!Next
     /\ UNCHANGED <<part, deleted, noticed, woken, queued, pc, batch, tries, chain, w, timer, messages,
                     bases, word, received, scheduled, source, armed, bulk, sent, have, h, disturbed,
                     batches, relays, leaves, connects, best, wire, expect, msgs, inFlight, lastPortion,
                     headersFinished, released, lastKnown, enqueued, queue, hp, frontier, hand, asked, owed,
                     starved, first, taken, losses, next, onChain, byHeight, archiveTodo, archived, memTodo,
                     pooled, switches, req, seen, room, old, given, filled, requests, replies, held, closes,
                     refs, reads>>
  \/ /\ part = "relay" /\ Relay!Next
     /\ UNCHANGED <<part, slots, changeSeq, cache, edits, op, wake, active, base, baseSeq, entries, spent,
                     waiting, at, todo, probe, reply, word, received, scheduled, source, armed, bulk, sent,
                     have, h, disturbed, batches, relays, leaves, connects, best, wire, expect, msgs,
                     inFlight, lastPortion, headersFinished, released, lastKnown, enqueued, queue, hp,
                     frontier, hand, asked, owed, starved, first, taken, losses, next, onChain, byHeight,
                     archiveTodo, archived, memTodo, pooled, switches, req, seen, room, old, given, filled,
                     requests, replies, held, closes, refs, reads>>
  \/ /\ part = "orphans" /\ Orphans!Next
     /\ UNCHANGED <<part, slots, changeSeq, cache, edits, op, wake, active, base, baseSeq, entries, spent,
                     waiting, at, todo, probe, reply, word, received, scheduled, source, armed, bulk, sent,
                     have, h, disturbed, batches, relays, leaves, connects, best, wire, expect, msgs,
                     inFlight, lastPortion, headersFinished, released, lastKnown, enqueued, queue, hp,
                     frontier, hand, asked, owed, starved, first, taken, losses, next, onChain, byHeight,
                     archiveTodo, archived, memTodo, pooled, switches, req, seen, room, old, given, filled,
                     requests, replies, held, closes, refs, reads>>
  \/ /\ part = "download" /\ Download!Next
     /\ UNCHANGED <<part, slots, changeSeq, cache, view, edits, op, wake, inbox, active, base, baseSeq,
                     entries, spent, waiting, at, todo, probe, reply, deleted, noticed, woken, queued, pc,
                     batch, tries, chain, w, timer, messages, bases, best, wire, expect, msgs, inFlight,
                     lastPortion, headersFinished, released, lastKnown, enqueued, queue, hp, frontier, hand,
                     asked, owed, starved, first, taken, losses, next, onChain, byHeight, archiveTodo,
                     archived, memTodo, pooled, switches, req, seen, room, old, given, filled, requests,
                     replies, held, closes, refs, reads>>
  \/ /\ part = "source" /\ Source!Next
     /\ UNCHANGED <<part, changeSeq, cache, view, edits, op, wake, inbox, active, base, baseSeq, entries,
                     spent, waiting, at, todo, probe, reply, deleted, noticed, woken, queued, pc, batch,
                     tries, chain, w, timer, messages, bases, word, received, scheduled, source, armed, bulk,
                     sent, h, disturbed, batches, relays, leaves, connects, next, onChain, byHeight,
                     archiveTodo, archived, memTodo, pooled, switches, req, seen, room, old, given, filled,
                     requests, replies, held, closes, refs, reads>>
  \/ /\ part = "reads" /\ Reads!Next
     /\ UNCHANGED <<part, slots, changeSeq, cache, view, edits, op, wake, inbox, active, base, baseSeq,
                     entries, spent, waiting, at, probe, reply, deleted, noticed, woken, queued, pc, batch,
                     tries, chain, w, timer, messages, bases, word, received, scheduled, source, armed, bulk,
                     sent, have, h, disturbed, batches, relays, leaves, connects, wire, expect, msgs,
                     inFlight, lastPortion, headersFinished, released, lastKnown, enqueued, queue, hp,
                     frontier, hand, asked, owed, starved, first, taken, losses, room, old, given, filled,
                     requests, replies, held, closes, refs, reads>>
  \/ /\ part = "http" /\ Http!Next
     /\ UNCHANGED <<part, slots, changeSeq, cache, view, edits, wake, inbox, active, baseSeq, entries, spent,
                     waiting, at, todo, probe, reply, noticed, woken, queued, pc, batch, tries, chain, w,
                     timer, messages, bases, word, received, scheduled, source, armed, bulk, sent, have, h,
                     disturbed, batches, relays, leaves, connects, best, wire, expect, msgs, inFlight,
                     lastPortion, headersFinished, released, lastKnown, enqueued, queue, hp, frontier, hand,
                     asked, owed, starved, first, taken, losses, next, onChain, byHeight, archiveTodo,
                     archived, memTodo, pooled, switches, req, seen>>

\* What the properties of the download loop say ends with the first disturbance
Undisturbed == part = "download" => ~disturbed

ASSUME NodeAssumption ==
  /\ Relay!RelayAssumption /\ Orphans!RelayAssumption /\ Download!DownloadAssumption /\ Source!SourceAssumption
  /\ Http!BufferAssumption

Spec == Init /\ [][Next]_vars

-----------------------------------------------------------------------------
\* The mempool is consistent with its base, whatever the database did under the probes: every
\* input of an entry is a coin of the base's chain or made by another entry, no two entries
\* spend the same coin (mempool.cpp:469), and the ancestor it reads is the base's own.
ConsistentWithBase == part = "mempool" => Pool!ConsistentWithBase /\ Pool!AncestorExact

\* A request has exactly one live mark, among the deadlines while a peer is asked, among the
\* delayed asks while none is, the counters of a peer are those of the requests that name it,
\* a peer that has gone is named nowhere, and between passes no orphan is left whose missing
\* parents have all come (txRelay.cpp:563, 620).
OneLiveMark ==
  /\ part = "relay" => Relay!OneLiveMark /\ Relay!CountsMatch /\ Relay!GoneIsForgotten
  /\ part = "orphans" => Orphans!OneLiveMark /\ Orphans!CountsMatch /\ Orphans!NoOrphanLeft

\* As long as nothing resets or enters the download loop from outside, it is in one place: one
\* thread chooses the next batch, or the timer will, or a batch is under way and waits for a
\* block the peer still owes (network.cpp:651-663, 722-731, 756-771).
OneLoop == part = "download" => Download!OneLoop /\ Download!BatchWaits

\* The marker of the last portion overtakes batches that are still being verified, yet as long
\* as nothing was lost the headers are finished only when all of them are queued, and a source
\* queues every block from its first to its last once (blockSource.cpp:60-86, 209-222).
FinishedIsComplete == part = "source" => Source!FinishedIsComplete /\ Source!NoHeaderSkipped

\* A list of blocks is a piece of one chain: every item is the parent or the child of the item
\* before, although it is collected while the chain is switched, and a list that ends before
\* its limit has reached the end (http.cpp:885).
ListIsChain == part = "reads" => Reads!ListIsChain /\ Reads!ListReachesEnd /\ Reads!IndexIsChain

\* A connection is deleted at most once and every complete request is answered once, although
\* a reply may outlive its connection's removal (http.cpp).
DeletedOnce == part = "http" => Http!DeletedOnce /\ Http!OneReply /\ Http!ParserSeesArrived
=============================================================================
