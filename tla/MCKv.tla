-------------------- MODULE MCKv --------------------
(******************************************************************************)
(* The key-value layer: the engine with its flusher (as it runs, and as it    *)
(* comes back from a crash), the array and the merge families, the life of    *)
(* the indexes, and the cache readers use beside one writer.  A behaviour is  *)
(* one of one component.                                                      *)
(******************************************************************************)
EXTENDS Integers, Sequences, FiniteSets, TLC

CONSTANTS ka, kb, x, y, z, m1, m2, r1, none

VARIABLES part,  \* the component this behaviour is of; what the others need is 0
  mode, layers, active, current, nextSeq, disk, durable, unflushed, published, flushed, mu, base, next, fl,
  rd, hist, states, work, fresh, crashes, bufs, view, pinned, meta, failed, done, restarts, data, index,
  rows, families, xcfg, proc, deferred, batches, opens, slot, live, condemned, alive, floor, sweep, op,
  owner, ops, value

vars == <<part, mode, layers, active, current, nextSeq, disk, durable, unflushed, published, flushed, mu,
          base, next, fl, rd, hist, states, work, fresh, crashes, bufs, view, pinned, meta, failed, done,
          restarts, data, index, rows, families, xcfg, proc, deferred, batches, opens, slot, live, condemned,
          alive, floor, sweep, op, owner, ops, value>>

\* Each key in a shard of its own, and every second key in the second shard
OneEach == ka :> 1 @@ kb :> 2
EverySecond == [k \in 1..4 |-> 1 + (k % 2)]

\* Money comes in or goes out, a disconnect; a transaction without either
UpOrDown == {<<1, 1>>, <<-1, 1>>, <<-1, -1>>}
UpOrSame == {<<1, 1>>, <<0, 1>>}

\* Two keys share both buckets and a third has only the first, so that insertions
\* displace each other
FirstBucket == [k \in {x, y, z} |-> 1]
SecondBucket == [k \in {x, y, z} |-> IF k = z THEN 1 ELSE 2]
OwnerOf == [k \in {x, y, z} |-> IF k = x THEN m1 ELSE m2]

Engine == INSTANCE KvEngine WITH
  Keys <- {ka}, ShardOf <- [k \in {ka} |-> 1], ShardsNum <- 1, Readers <- {r1}, Stamped <- FALSE,
  EraBytes <- 2, MaxUnits <- 2, UnitWrites <- 2, MaxRecords <- 2, MaxTickets <- 3, MaxCrashes <- 0
Crashing == INSTANCE KvEngine WITH
  Keys <- {ka, kb}, ShardOf <- OneEach, ShardsNum <- 2, Readers <- {}, Stamped <- TRUE, EraBytes <- 1,
  MaxUnits <- 2, UnitWrites <- 1, MaxRecords <- 1, MaxTickets <- 1, MaxCrashes <- 1
Arrays == INSTANCE KvArray WITH
  ChunkSize <- 2, Deltas <- {1, 2}, Caps <- {0, 1, 2}, Reorgs <- TRUE, Compacts <- FALSE, MaxTail <- 2,
  MaxLen <- 4, MaxUnits <- 3, MaxRestarts <- 1
Appends == INSTANCE KvArray WITH
  ChunkSize <- 3, Deltas <- {1, 2}, Caps <- {1}, Reorgs <- FALSE, Compacts <- TRUE, MaxTail <- 2,
  MaxLen <- 4, MaxUnits <- 4, MaxRestarts <- 0
Merges == INSTANCE KvMerge WITH
  Width <- 3, Changes <- UpOrDown, DepthFactor <- 1, DepthExtra <- 0, MaxMetric <- 2, Keys <- 1..3,
  ShardsNum <- 1, ShardOf <- [k \in 1..3 |-> 1], MaxUnits <- 2, MaxLayers <- 2
Shared == INSTANCE KvMerge WITH
  Width <- 3, Changes <- UpOrSame, DepthFactor <- 1, DepthExtra <- 0, MaxMetric <- 2, Keys <- 1..4,
  ShardsNum <- 2, ShardOf <- EverySecond, MaxUnits <- 1, MaxLayers <- 2
Indexes == INSTANCE KvIndexes WITH
  Indexes <- {ka, kb}, Keys <- {1, 2}, Values <- 0..2, MaxBatches <- 2, MaxCrashes <- 1, MaxOpens <- 3
Cache == INSTANCE SwmrCache WITH
  Keys <- {x, y, z}, None <- none, B1 <- FirstBucket, B2 <- SecondBucket, Owner <- OwnerOf,
  Mutators <- {m1, m2}, Readers <- {r1}, Buckets <- {1, 2}, Slots <- {1}, Heights <- {0}, Limit <- 1,
  CondemnedSlack <- 0, SweepChunk <- 1, MaxOps <- 2
Swept == INSTANCE SwmrCache WITH
  Keys <- {x, y, z}, None <- none, B1 <- FirstBucket, B2 <- SecondBucket, Owner <- [k \in {x, y, z} |-> m1],
  Mutators <- {m1}, Readers <- {}, Buckets <- {1, 2}, Slots <- {1, 2}, Heights <- {0, 1, 2}, Limit <- 2,
  CondemnedSlack <- 1, SweepChunk <- 1, MaxOps <- 3

Init ==
  \/ /\ part = "engine" /\ Engine!Init
     /\ bufs = 0 /\ view = 0 /\ pinned = 0 /\ meta = 0 /\ failed = 0 /\ done = 0 /\ restarts = 0 /\
        data = 0 /\ index = 0 /\ rows = 0 /\ families = 0 /\ xcfg = 0 /\ proc = 0 /\ deferred = 0 /\
        batches = 0 /\ opens = 0 /\ slot = 0 /\ live = 0 /\ condemned = 0 /\ alive = 0 /\ floor = 0 /\
        sweep = 0 /\ op = 0 /\ owner = 0 /\ ops = 0 /\ value = 0
  \/ /\ part = "crash" /\ Crashing!Init
     /\ bufs = 0 /\ view = 0 /\ pinned = 0 /\ meta = 0 /\ failed = 0 /\ done = 0 /\ restarts = 0 /\
        data = 0 /\ index = 0 /\ rows = 0 /\ families = 0 /\ xcfg = 0 /\ proc = 0 /\ deferred = 0 /\
        batches = 0 /\ opens = 0 /\ slot = 0 /\ live = 0 /\ condemned = 0 /\ alive = 0 /\ floor = 0 /\
        sweep = 0 /\ op = 0 /\ owner = 0 /\ ops = 0 /\ value = 0
  \/ /\ part = "array" /\ Arrays!Init
     /\ mode = 0 /\ active = 0 /\ current = 0 /\ nextSeq = 0 /\ unflushed = 0 /\ published = 0 /\ mu = 0 /\
        base = 0 /\ next = 0 /\ fl = 0 /\ rd = 0 /\ hist = 0 /\ states = 0 /\ work = 0 /\ fresh = 0 /\
        crashes = 0 /\ data = 0 /\ index = 0 /\ rows = 0 /\ families = 0 /\ xcfg = 0 /\ proc = 0 /\
        deferred = 0 /\ batches = 0 /\ opens = 0 /\ slot = 0 /\ live = 0 /\ condemned = 0 /\ alive = 0 /\
        floor = 0 /\ sweep = 0 /\ op = 0 /\ owner = 0 /\ ops = 0 /\ value = 0
  \/ /\ part = "append" /\ Appends!Init
     /\ mode = 0 /\ active = 0 /\ current = 0 /\ nextSeq = 0 /\ unflushed = 0 /\ published = 0 /\ mu = 0 /\
        base = 0 /\ next = 0 /\ fl = 0 /\ rd = 0 /\ hist = 0 /\ states = 0 /\ work = 0 /\ fresh = 0 /\
        crashes = 0 /\ data = 0 /\ index = 0 /\ rows = 0 /\ families = 0 /\ xcfg = 0 /\ proc = 0 /\
        deferred = 0 /\ batches = 0 /\ opens = 0 /\ slot = 0 /\ live = 0 /\ condemned = 0 /\ alive = 0 /\
        floor = 0 /\ sweep = 0 /\ op = 0 /\ owner = 0 /\ ops = 0 /\ value = 0
  \/ /\ part = "merge" /\ Merges!Init
     /\ mode = 0 /\ active = 0 /\ current = 0 /\ nextSeq = 0 /\ disk = 0 /\ unflushed = 0 /\ published = 0 /\
        flushed = 0 /\ mu = 0 /\ base = 0 /\ next = 0 /\ fl = 0 /\ rd = 0 /\ hist = 0 /\ states = 0 /\
        work = 0 /\ fresh = 0 /\ crashes = 0 /\ bufs = 0 /\ pinned = 0 /\ meta = 0 /\ failed = 0 /\
        restarts = 0 /\ rows = 0 /\ families = 0 /\ xcfg = 0 /\ proc = 0 /\ deferred = 0 /\ batches = 0 /\
        opens = 0 /\ slot = 0 /\ live = 0 /\ condemned = 0 /\ alive = 0 /\ floor = 0 /\ sweep = 0 /\
        op = 0 /\ owner = 0 /\ ops = 0 /\ value = 0
  \/ /\ part = "shards" /\ Shared!Init
     /\ mode = 0 /\ active = 0 /\ current = 0 /\ nextSeq = 0 /\ disk = 0 /\ unflushed = 0 /\ published = 0 /\
        flushed = 0 /\ mu = 0 /\ base = 0 /\ next = 0 /\ fl = 0 /\ rd = 0 /\ hist = 0 /\ states = 0 /\
        work = 0 /\ fresh = 0 /\ crashes = 0 /\ bufs = 0 /\ pinned = 0 /\ meta = 0 /\ failed = 0 /\
        restarts = 0 /\ rows = 0 /\ families = 0 /\ xcfg = 0 /\ proc = 0 /\ deferred = 0 /\ batches = 0 /\
        opens = 0 /\ slot = 0 /\ live = 0 /\ condemned = 0 /\ alive = 0 /\ floor = 0 /\ sweep = 0 /\
        op = 0 /\ owner = 0 /\ ops = 0 /\ value = 0
  \/ /\ part = "indexes" /\ Indexes!Init
     /\ mode = 0 /\ layers = 0 /\ current = 0 /\ nextSeq = 0 /\ durable = 0 /\ unflushed = 0 /\
        published = 0 /\ flushed = 0 /\ mu = 0 /\ base = 0 /\ next = 0 /\ fl = 0 /\ rd = 0 /\ hist = 0 /\
        states = 0 /\ work = 0 /\ fresh = 0 /\ bufs = 0 /\ view = 0 /\ pinned = 0 /\ meta = 0 /\
        failed = 0 /\ done = 0 /\ restarts = 0 /\ data = 0 /\ index = 0 /\ slot = 0 /\ live = 0 /\
        condemned = 0 /\ alive = 0 /\ floor = 0 /\ sweep = 0 /\ op = 0 /\ owner = 0 /\ ops = 0 /\ value = 0
  \/ /\ part = "cache" /\ Cache!Init
     /\ mode = 0 /\ layers = 0 /\ active = 0 /\ current = 0 /\ nextSeq = 0 /\ disk = 0 /\ durable = 0 /\
        unflushed = 0 /\ published = 0 /\ flushed = 0 /\ mu = 0 /\ base = 0 /\ next = 0 /\ fl = 0 /\
        hist = 0 /\ states = 0 /\ work = 0 /\ fresh = 0 /\ crashes = 0 /\ bufs = 0 /\ view = 0 /\
        pinned = 0 /\ meta = 0 /\ failed = 0 /\ done = 0 /\ restarts = 0 /\ data = 0 /\ index = 0 /\
        rows = 0 /\ families = 0 /\ xcfg = 0 /\ proc = 0 /\ deferred = 0 /\ batches = 0 /\ opens = 0
  \/ /\ part = "sweep" /\ Swept!Init
     /\ mode = 0 /\ layers = 0 /\ active = 0 /\ current = 0 /\ nextSeq = 0 /\ disk = 0 /\ durable = 0 /\
        unflushed = 0 /\ published = 0 /\ flushed = 0 /\ mu = 0 /\ base = 0 /\ next = 0 /\ fl = 0 /\
        hist = 0 /\ states = 0 /\ work = 0 /\ fresh = 0 /\ crashes = 0 /\ bufs = 0 /\ view = 0 /\
        pinned = 0 /\ meta = 0 /\ failed = 0 /\ done = 0 /\ restarts = 0 /\ data = 0 /\ index = 0 /\
        rows = 0 /\ families = 0 /\ xcfg = 0 /\ proc = 0 /\ deferred = 0 /\ batches = 0 /\ opens = 0

Next ==
  \/ /\ part = "engine" /\ Engine!Next
     /\ UNCHANGED <<part, bufs, view, pinned, meta, failed, done, restarts, data, index, rows, families,
                     xcfg, proc, deferred, batches, opens, slot, live, condemned, alive, floor, sweep, op,
                     owner, ops, value>>
  \/ /\ part = "crash" /\ Crashing!Next
     /\ UNCHANGED <<part, bufs, view, pinned, meta, failed, done, restarts, data, index, rows, families,
                     xcfg, proc, deferred, batches, opens, slot, live, condemned, alive, floor, sweep, op,
                     owner, ops, value>>
  \/ /\ part = "array" /\ Arrays!Next
     /\ UNCHANGED <<part, mode, active, current, nextSeq, unflushed, published, mu, base, next, fl, rd, hist,
                     states, work, fresh, crashes, data, index, rows, families, xcfg, proc, deferred,
                     batches, opens, slot, live, condemned, alive, floor, sweep, op, owner, ops, value>>
  \/ /\ part = "append" /\ Appends!Next
     /\ UNCHANGED <<part, mode, active, current, nextSeq, unflushed, published, mu, base, next, fl, rd, hist,
                     states, work, fresh, crashes, data, index, rows, families, xcfg, proc, deferred,
                     batches, opens, slot, live, condemned, alive, floor, sweep, op, owner, ops, value>>
  \/ /\ part = "merge" /\ Merges!Next
     /\ UNCHANGED <<part, mode, active, current, nextSeq, disk, unflushed, published, flushed, mu, base,
                     next, fl, rd, hist, states, work, fresh, crashes, bufs, pinned, meta, failed, restarts,
                     rows, families, xcfg, proc, deferred, batches, opens, slot, live, condemned, alive,
                     floor, sweep, op, owner, ops, value>>
  \/ /\ part = "shards" /\ Shared!Next
     /\ UNCHANGED <<part, mode, active, current, nextSeq, disk, unflushed, published, flushed, mu, base,
                     next, fl, rd, hist, states, work, fresh, crashes, bufs, pinned, meta, failed, restarts,
                     rows, families, xcfg, proc, deferred, batches, opens, slot, live, condemned, alive,
                     floor, sweep, op, owner, ops, value>>
  \/ /\ part = "indexes" /\ Indexes!Next
     /\ UNCHANGED <<part, mode, layers, current, nextSeq, durable, unflushed, published, flushed, mu, base,
                     next, fl, rd, hist, states, work, fresh, bufs, view, pinned, meta, failed, done,
                     restarts, data, index, slot, live, condemned, alive, floor, sweep, op, owner, ops, value>>
  \/ /\ part = "cache" /\ Cache!Next
     /\ UNCHANGED <<part, mode, layers, active, current, nextSeq, disk, durable, unflushed, published,
                     flushed, mu, base, next, fl, hist, states, work, fresh, crashes, bufs, view, pinned,
                     meta, failed, done, restarts, data, index, rows, families, xcfg, proc, deferred,
                     batches, opens>>
  \/ /\ part = "sweep" /\ Swept!Next
     /\ UNCHANGED <<part, mode, layers, active, current, nextSeq, disk, durable, unflushed, published,
                     flushed, mu, base, next, fl, hist, states, work, fresh, crashes, bufs, view, pinned,
                     meta, failed, done, restarts, data, index, rows, families, xcfg, proc, deferred,
                     batches, opens>>

ASSUME KvAssumption ==
  /\ Engine!EngineAssumption /\ Crashing!EngineAssumption
  /\ Merges!MergeAssumption /\ Shared!MergeAssumption
  /\ Cache!CacheAssumption /\ Swept!CacheAssumption

Spec == Init /\ [][Next]_vars

-----------------------------------------------------------------------------
\* Whoever pinned a revision reads the database exactly as the unit that published it left
\* it, for as long as it holds the pin; a layer is in the revision or in its snapshot, never
\* in both; and what open() accepts after a crash is the database as some unit left it, all
\* shards at that unit.  A checkpoint that has run left every shard complete, and the shards
\* close after the last reader let go (kvengine.h, kvstore.h open, flushAll, shutdown).
ViewExact ==
  /\ part = "engine" => Engine!ViewExact /\ Engine!PairedOnce /\ Engine!NoReaderLeft
  /\ part = "crash" => Crashing!ViewExact /\ Crashing!AcceptedIsExact /\ Crashing!CheckpointComplete


\* top() gives the greatest metrics there are, with the right values, for any page length
\* and any distribution between index rows and layers, and the index says what the data
\* rows say (kvmerge.h, top and flushFolded).
TopRanksRight ==
  /\ part = "merge" => Merges!TopRanksRight /\ Merges!IndexMatches /\ Merges!FindExact
  /\ part = "shards" => Shared!TopRanksRight


\* A hit of the cache is exact: the value a lookup returns is one the key had at some
\* moment of the lookup, although key and value are copied without a lock while slots are
\* overwritten, displaced, spent and swept; no key has two slots; and between waves the
\* counters agree with a scan of the table (swmrcache.h, debugCheck).
HitIsExact ==
  /\ part = "cache" => Cache!HitIsExact /\ Cache!KeyOnce /\ Cache!CountersAgree
  /\ part = "sweep" => Swept!KeyOnce /\ Swept!CountersAgree
=============================================================================
