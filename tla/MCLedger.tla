-------------------- MODULE MCLedger --------------------
(******************************************************************************)
(* What the node keeps about coins: the utxo database under whole segments,   *)
(* the databases of the archive, the dump of the coin cache, the block files, *)
(* and the catch-up of the databases at startup.  A behaviour is one of one   *)
(* component; those whose bound is used up are at rest.                       *)
(******************************************************************************)
EXTENDS Integers, Sequences, FiniteSets, TLC

CONSTANTS g, x1, x2, x3, y1, y2, d1, d2, fresh, noAddress, nullData, noWorker, theWriter, w1, w2

VARIABLES part,  \* the component this behaviour is of; what the others need is 0
  chain, db, undos, queue, applied, spent, txs, addr, history, phase, pos, stamp, geometry, cache, dump, tmp,
  lock, failed, next, worker, writer, hand, written, entries, moves, crashes, faults, tasks, queues, from,
  setup, main, cursor, window, serial, ring, utxo, utxoFrom, disk, buffer, todo, index, memory, loaded,
  flushed

vars == <<part, chain, db, undos, queue, applied, spent, txs, addr, history, phase, pos, stamp, geometry,
          cache, dump, tmp, lock, failed, next, worker, writer, hand, written, entries, moves, crashes,
          faults, tasks, queues, from, setup, main, cursor, window, serial, ring, utxo, utxoFrom, disk,
          buffer, todo, index, memory, loaded, flushed>>

Split == 11
Follow == 12
Join == 13
Double == 14
Both == 15
Self == 16

To(a, v) == [to |-> a, value |-> v]

\* A longer chain with a branch below its tip for the catch-up, two branches from the
\* genesis for the files
LongBlocks == {g, x1, x2, x3, y2}
LongParent == x1 :> g @@ x2 :> x1 @@ x3 :> x2 @@ y2 :> x1
LongDepth == g :> 0 @@ x1 :> 1 @@ x2 :> 2 @@ x3 :> 3 @@ y2 :> 2
ForkParent == x1 :> g @@ x2 :> x1 @@ y1 :> g

\* A payment with two outputs, one that spends the first of them, one that joins the
\* second with another coinbase, and a double spend of the first
SpendIns ==
  [t \in 1..5 |-> <<>>] @@ Split :> <<<<1, 1>>>> @@ Follow :> <<<<Split, 1>>>> @@
  Join :> <<<<Split, 2>>, <<2, 1>>>> @@ Double :> <<<<1, 1>>>>
SpendOuts ==
  [t \in 1..5 |-> <<To("x", 1)>>] @@ Split :> <<To("x", 1), To("y", 1)>> @@ Follow :> <<To("y", 1)>> @@
  Join :> <<To("y", 1), To(nullData, 1)>> @@ Double :> <<To("x", 1)>>

\* A payment that pays two addresses and one of them twice, one that spends two of its
\* outputs, one that sends to itself without a net change
PayIns ==
  [t \in 1..5 |-> <<>>] @@ Split :> <<<<1, 1>>>> @@ Both :> <<<<Split, 1>>, <<Split, 2>>>> @@ Self :> <<<<Split, 3>>>>
PayOuts ==
  [t \in 1..5 |-> <<To("x", 6)>>] @@ Split :> <<To("x", 1), To("y", 2), To("x", 3)>> @@
  Both :> <<To("y", 3), To(nullData, 0)>> @@ Self :> <<To("x", 3), To(noAddress, 0)>>

Utxo == INSTANCE UtxoSegments WITH
  BIP34Height <- 0, Repeats <- {}, MaxHeight <- 3, MaxPayments <- 2, MaxSegment <- 2, MaxUndos <- 2,
  TxIns <- SpendIns, TxOuts <- SpendOuts, Payments <- {Split, Follow, Join, Double}, Coinbases <- 1..5,
  CoinbaseMaturity <- 1, NoAddress <- noAddress, NullData <- nullData
Long == INSTANCE UtxoSegments WITH
  BIP34Height <- 0, Repeats <- {}, MaxHeight <- 3, MaxPayments <- 1, MaxSegment <- 3, MaxUndos <- 3,
  TxIns <- SpendIns, TxOuts <- SpendOuts, Payments <- {Split, Follow, Join, Double}, Coinbases <- 1..5,
  CoinbaseMaturity <- 1, NoAddress <- noAddress, NullData <- nullData
Again == INSTANCE UtxoSegments WITH
  BIP34Height <- 3, Repeats <- {2}, MaxHeight <- 5, MaxPayments <- 2, MaxSegment <- 1, MaxUndos <- 0,
  TxIns <- SpendIns, TxOuts <- SpendOuts, Payments <- {Split, Follow, Join, Double}, Coinbases <- 1..5,
  CoinbaseMaturity <- 1, NoAddress <- noAddress, NullData <- nullData
Archive == INSTANCE ArchiveData WITH
  Repeats <- {}, MaxHeight <- 3, MaxPayments <- 2, MaxBatch <- 2, MaxUndos <- 2, MaxLag <- 1,
  TxIns <- PayIns, TxOuts <- PayOuts, Payments <- {Split, Both, Self}, Addresses <- {"x", "y"},
  Coinbases <- 1..5, CoinbaseMaturity <- 1, NoAddress <- noAddress, NullData <- nullData
Twice == INSTANCE ArchiveData WITH
  Repeats <- {2}, MaxHeight <- 4, MaxPayments <- 1, MaxBatch <- 2, MaxUndos <- 2, MaxLag <- 1,
  TxIns <- PayIns, TxOuts <- PayOuts, Payments <- {Split, Both, Self}, Addresses <- {"x", "y"},
  Coinbases <- 1..5, CoinbaseMaturity <- 1, NoAddress <- noAddress, NullData <- nullData
Dump == INSTANCE CacheDump WITH
  NoWorker <- noWorker, Writer <- theWriter, Workers <- {w1, w2}, ChunkCount <- 3, QueueLimit <- 2,
  Positions <- {1, 2}, Geometries <- {1, 2}, MaxMoves <- 2, MaxCrashes <- 1, MaxFaults <- 1
Start == INSTANCE CatchUp WITH
  Blocks <- LongBlocks, Genesis <- g, Parent <- LongParent, Depth <- LongDepth, Fresh <- fresh,
  Dbs <- {d1, d2}, Never <- 100, Unreadable <- {{}, {x2}, {g}}, WindowDepth <- 1, RingDepth <- 1,
  PreparedLimit <- 2, BatchBlocks <- 2, Bests <- {g, x3, y2}, Stamps <- {fresh, x1, x3, y2}
Files == INSTANCE IndexFiles WITH
  Blocks <- {g, x1, x2, y1}, Genesis <- g, Parent <- ForkParent, FileLimit <- 2, BufferLimit <- 2,
  MaxCrashes <- 2

Init ==
  \/ /\ part = "utxo" /\ Utxo!Init
     /\ queue = 0 /\ applied = 0 /\ spent = 0 /\ txs = 0 /\ addr = 0 /\ history = 0 /\ phase = 0 /\
        pos = 0 /\ stamp = 0 /\ geometry = 0 /\ cache = 0 /\ dump = 0 /\ tmp = 0 /\ lock = 0 /\ failed = 0 /\
        next = 0 /\ worker = 0 /\ writer = 0 /\ hand = 0 /\ written = 0 /\ entries = 0 /\ moves = 0 /\
        crashes = 0 /\ faults = 0 /\ tasks = 0 /\ queues = 0 /\ from = 0 /\ setup = 0 /\ main = 0 /\
        cursor = 0 /\ window = 0 /\ serial = 0 /\ ring = 0 /\ utxo = 0 /\ utxoFrom = 0 /\ disk = 0 /\
        buffer = 0 /\ todo = 0 /\ index = 0 /\ memory = 0 /\ loaded = 0 /\ flushed = 0
  \/ /\ part = "long" /\ Long!Init
     /\ queue = 0 /\ applied = 0 /\ spent = 0 /\ txs = 0 /\ addr = 0 /\ history = 0 /\ phase = 0 /\
        pos = 0 /\ stamp = 0 /\ geometry = 0 /\ cache = 0 /\ dump = 0 /\ tmp = 0 /\ lock = 0 /\ failed = 0 /\
        next = 0 /\ worker = 0 /\ writer = 0 /\ hand = 0 /\ written = 0 /\ entries = 0 /\ moves = 0 /\
        crashes = 0 /\ faults = 0 /\ tasks = 0 /\ queues = 0 /\ from = 0 /\ setup = 0 /\ main = 0 /\
        cursor = 0 /\ window = 0 /\ serial = 0 /\ ring = 0 /\ utxo = 0 /\ utxoFrom = 0 /\ disk = 0 /\
        buffer = 0 /\ todo = 0 /\ index = 0 /\ memory = 0 /\ loaded = 0 /\ flushed = 0
  \/ /\ part = "again" /\ Again!Init
     /\ queue = 0 /\ applied = 0 /\ spent = 0 /\ txs = 0 /\ addr = 0 /\ history = 0 /\ phase = 0 /\
        pos = 0 /\ stamp = 0 /\ geometry = 0 /\ cache = 0 /\ dump = 0 /\ tmp = 0 /\ lock = 0 /\ failed = 0 /\
        next = 0 /\ worker = 0 /\ writer = 0 /\ hand = 0 /\ written = 0 /\ entries = 0 /\ moves = 0 /\
        crashes = 0 /\ faults = 0 /\ tasks = 0 /\ queues = 0 /\ from = 0 /\ setup = 0 /\ main = 0 /\
        cursor = 0 /\ window = 0 /\ serial = 0 /\ ring = 0 /\ utxo = 0 /\ utxoFrom = 0 /\ disk = 0 /\
        buffer = 0 /\ todo = 0 /\ index = 0 /\ memory = 0 /\ loaded = 0 /\ flushed = 0
  \/ /\ part = "archive" /\ Archive!Init
     /\ db = 0 /\ phase = 0 /\ pos = 0 /\ stamp = 0 /\ geometry = 0 /\ cache = 0 /\ dump = 0 /\ tmp = 0 /\
        lock = 0 /\ failed = 0 /\ next = 0 /\ worker = 0 /\ writer = 0 /\ hand = 0 /\ written = 0 /\
        entries = 0 /\ moves = 0 /\ crashes = 0 /\ faults = 0 /\ tasks = 0 /\ queues = 0 /\ from = 0 /\
        setup = 0 /\ main = 0 /\ cursor = 0 /\ window = 0 /\ serial = 0 /\ ring = 0 /\ utxo = 0 /\
        utxoFrom = 0 /\ disk = 0 /\ buffer = 0 /\ todo = 0 /\ index = 0 /\ memory = 0 /\ loaded = 0 /\
        flushed = 0
  \/ /\ part = "twice" /\ Twice!Init
     /\ db = 0 /\ phase = 0 /\ pos = 0 /\ stamp = 0 /\ geometry = 0 /\ cache = 0 /\ dump = 0 /\ tmp = 0 /\
        lock = 0 /\ failed = 0 /\ next = 0 /\ worker = 0 /\ writer = 0 /\ hand = 0 /\ written = 0 /\
        entries = 0 /\ moves = 0 /\ crashes = 0 /\ faults = 0 /\ tasks = 0 /\ queues = 0 /\ from = 0 /\
        setup = 0 /\ main = 0 /\ cursor = 0 /\ window = 0 /\ serial = 0 /\ ring = 0 /\ utxo = 0 /\
        utxoFrom = 0 /\ disk = 0 /\ buffer = 0 /\ todo = 0 /\ index = 0 /\ memory = 0 /\ loaded = 0 /\
        flushed = 0
  \/ /\ part = "dump" /\ Dump!Init
     /\ chain = 0 /\ db = 0 /\ undos = 0 /\ applied = 0 /\ spent = 0 /\ txs = 0 /\ addr = 0 /\ history = 0 /\
        tasks = 0 /\ queues = 0 /\ from = 0 /\ setup = 0 /\ main = 0 /\ cursor = 0 /\ window = 0 /\
        serial = 0 /\ ring = 0 /\ utxo = 0 /\ utxoFrom = 0 /\ disk = 0 /\ buffer = 0 /\ todo = 0 /\
        index = 0 /\ memory = 0 /\ loaded = 0 /\ flushed = 0
  \/ /\ part = "catchup" /\ Start!Init
     /\ chain = 0 /\ db = 0 /\ undos = 0 /\ queue = 0 /\ spent = 0 /\ txs = 0 /\ addr = 0 /\ history = 0 /\
        phase = 0 /\ pos = 0 /\ stamp = 0 /\ geometry = 0 /\ cache = 0 /\ dump = 0 /\ tmp = 0 /\ lock = 0 /\
        next = 0 /\ writer = 0 /\ hand = 0 /\ written = 0 /\ entries = 0 /\ moves = 0 /\ crashes = 0 /\
        faults = 0 /\ disk = 0 /\ buffer = 0 /\ todo = 0 /\ index = 0 /\ memory = 0 /\ loaded = 0 /\
        flushed = 0
  \/ /\ part = "files" /\ Files!Init
     /\ chain = 0 /\ db = 0 /\ undos = 0 /\ queue = 0 /\ applied = 0 /\ spent = 0 /\ txs = 0 /\ addr = 0 /\
        history = 0 /\ pos = 0 /\ stamp = 0 /\ geometry = 0 /\ cache = 0 /\ dump = 0 /\ tmp = 0 /\
        lock = 0 /\ failed = 0 /\ next = 0 /\ worker = 0 /\ writer = 0 /\ hand = 0 /\ written = 0 /\
        entries = 0 /\ moves = 0 /\ faults = 0 /\ tasks = 0 /\ queues = 0 /\ from = 0 /\ setup = 0 /\
        main = 0 /\ cursor = 0 /\ window = 0 /\ serial = 0 /\ ring = 0 /\ utxo = 0 /\ utxoFrom = 0

Next ==
  \/ /\ part = "utxo" /\ Utxo!Next
     /\ UNCHANGED <<part, queue, applied, spent, txs, addr, history, phase, pos, stamp, geometry, cache,
                     dump, tmp, lock, failed, next, worker, writer, hand, written, entries, moves, crashes,
                     faults, tasks, queues, from, setup, main, cursor, window, serial, ring, utxo, utxoFrom,
                     disk, buffer, todo, index, memory, loaded, flushed>>
  \/ /\ part = "long" /\ Long!Next
     /\ UNCHANGED <<part, queue, applied, spent, txs, addr, history, phase, pos, stamp, geometry, cache,
                     dump, tmp, lock, failed, next, worker, writer, hand, written, entries, moves, crashes,
                     faults, tasks, queues, from, setup, main, cursor, window, serial, ring, utxo, utxoFrom,
                     disk, buffer, todo, index, memory, loaded, flushed>>
  \/ /\ part = "again" /\ Again!Next
     /\ UNCHANGED <<part, queue, applied, spent, txs, addr, history, phase, pos, stamp, geometry, cache,
                     dump, tmp, lock, failed, next, worker, writer, hand, written, entries, moves, crashes,
                     faults, tasks, queues, from, setup, main, cursor, window, serial, ring, utxo, utxoFrom,
                     disk, buffer, todo, index, memory, loaded, flushed>>
  \/ /\ part = "archive" /\ Archive!Next
     /\ UNCHANGED <<part, db, phase, pos, stamp, geometry, cache, dump, tmp, lock, failed, next, worker,
                     writer, hand, written, entries, moves, crashes, faults, tasks, queues, from, setup,
                     main, cursor, window, serial, ring, utxo, utxoFrom, disk, buffer, todo, index, memory,
                     loaded, flushed>>
  \/ /\ part = "twice" /\ Twice!Next
     /\ UNCHANGED <<part, db, phase, pos, stamp, geometry, cache, dump, tmp, lock, failed, next, worker,
                     writer, hand, written, entries, moves, crashes, faults, tasks, queues, from, setup,
                     main, cursor, window, serial, ring, utxo, utxoFrom, disk, buffer, todo, index, memory,
                     loaded, flushed>>
  \/ /\ part = "dump" /\ Dump!Next
     /\ UNCHANGED <<part, chain, db, undos, applied, spent, txs, addr, history, tasks, queues, from, setup,
                     main, cursor, window, serial, ring, utxo, utxoFrom, disk, buffer, todo, index, memory,
                     loaded, flushed>>
  \/ /\ part = "catchup" /\ Start!Next
     /\ UNCHANGED <<part, chain, db, undos, queue, spent, txs, addr, history, phase, pos, stamp, geometry,
                     cache, dump, tmp, lock, next, writer, hand, written, entries, moves, crashes, faults,
                     disk, buffer, todo, index, memory, loaded, flushed>>
  \/ /\ part = "files" /\ Files!Next
     /\ UNCHANGED <<part, chain, db, undos, queue, applied, spent, txs, addr, history, pos, stamp, geometry,
                     cache, dump, tmp, lock, failed, next, worker, writer, hand, written, entries, moves,
                     faults, tasks, queues, from, setup, main, cursor, window, serial, ring, utxo, utxoFrom>>
  \/ part \in {"utxo", "long", "again", "archive", "twice", "dump"} /\ UNCHANGED vars

ASSUME LedgerAssumption == Dump!DumpAssumption

Spec == Init /\ [][Next]_vars

-----------------------------------------------------------------------------

\* The balance and the output count of an address are what the utxo set holds for it, and
\* its history has one element for each transaction counted, in chain order; the spent marks
\* are the complement of the unspent outputs, and the transaction databases hold exactly the
\* transactions of the chain (addrdb.cpp, spentdb.cpp, txdb.cpp).
BalanceIsUnspent ==
  /\ part = "archive" => /\ Archive!BalanceIsUnspent /\ Archive!HistoryAgrees
                         /\ Archive!Complement /\ Archive!TxExact
  /\ part = "twice" => Twice!BalanceIsUnspent /\ Twice!HistoryAgrees /\ Twice!TxExact

\* What a running node has cached belongs to its position: a load that ended left the whole
\* dump or none of it, and a crash in a save leaves the old dump or a complete new one
\* (swmrdump.h).
CacheExact == part = "dump" => Dump!CacheExact /\ Dump!DumpComplete

\* Every move a database makes at startup fits the block it stands at, and when the
\* catch-up reports success utxodb and every archive database stand at the best block,
\* wherever they started (blockDataBase.cpp:167-170).  Until then the decoded blocks, the
\* refs and the task live as long as a worker of the archive reads them, although submit()
\* does not wait (blockPipeline.h:67, sync.cpp:70-71).
EveryoneLevel ==
  part = "catchup" => /\ Start!MovesFit /\ Start!EveryoneLevel
                      /\ Start!BlocksOutliveReaders /\ Start!RefsOutliveReaders

\* A crash never takes back what a finished flush has covered: if the index loads, or can
\* be built again from the block files, those blocks are in it (blockDataBase.cpp:1604).
\* And what was written and let go of is at the position the index has for it
\* (blockDataBase.cpp:1199-1212).
FlushedSurvives ==
  [][part = "files" =>
       /\ Files!BlocksMatch' /\ Files!WrittenReadable'
       /\ phase # "run" /\ phase' = "run" => \A b \in flushed : (Files!indexStored(b) \/ b \in memory)']_vars
=============================================================================
