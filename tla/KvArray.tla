------------------------------- MODULE KvArray -------------------------------
(***************************************************************************)
(* The array family (dbengine/kvarray.h): one key's array of elements, each *)
(* with the running sum up to it.  In memory a layer is a trim of what lies *)
(* below plus a tail in a buffer that several generations share; on disk    *)
(* the array is cut into chunks, with a metadata row once it outgrows one.  *)
(* Layers and snapshots follow KvEngine: the flusher takes the oldest       *)
(* frozen layer, the next commit drops it and refreshes the snapshot.       *)
(***************************************************************************)
EXTENDS Integers, Sequences, FiniteSets, SequencesExt, FiniteSetsExt

CONSTANTS
  ChunkSize,
  Deltas,                 \* what an element may add to the sum
  Caps,                   \* keys the resident metadata may hold
  Reorgs,                 \* disconnects happen
  Compacts,               \* rocksdb combines merge operands
  MaxTail, MaxLen, MaxUnits, MaxRestarts  \* bounds: elements of a unit, of the array, units, restarts

VARIABLES
  bufs,        \* the tail buffers of the arenas, as written so far
  layers,      \* every layer: [gen, frozen, recs], recs newest first
  durable,     \* layers flushed
  disk,        \* [row, chunks]: the metadata row and each chunk's base value and merge operands
  view, pinned,\* the published revision, and one a reader holds
  meta,        \* [fresh, cap, frozen, entry]: MetaCache_ for this key
  failed,      \* an abort() of the flush was reached
  done, restarts, flushed \* history: units so far, restarts, the array as last flushed

vars == <<bufs, layers, durable, disk, view, pinned, meta, failed, done, restarts, flushed>>

Total(s) == FoldLeft(LAMBDA acc, x : acc + x, 0, s)
WithSums(s) == [i \in DOMAIN s |-> [d |-> s[i], agg |-> Total(SubSeq(s, 1, i))]]
Ceil(a, b) == (a + b - 1) \div b

None == <<>>
NoChunk == [base |-> <<>>, ops |-> <<>>]
MaxChunks == Ceil(MaxLen, ChunkSize)
EmptyDisk == [row |-> None, chunks |-> [c \in 0..MaxChunks |-> NoChunk]]
View0(d, data) == [layers |-> <<>>, wm |-> 0, disk |-> d, data |-> data]

Init ==
  /\ bufs = <<>> /\ layers = <<>> /\ durable = 0 /\ disk = EmptyDisk
  /\ view = View0(EmptyDisk, <<>>) /\ pinned = View0(EmptyDisk, <<>>)
  /\ meta \in [fresh : {TRUE}, cap : Caps, frozen : {FALSE}, entry : {None}]
  /\ failed = FALSE /\ done = 0 /\ restarts = 0 /\ flushed = <<>>

-----------------------------------------------------------------------------
(***************************************************************************)
(* The disk.  A merge operand overlays elements at an offset                *)
(***************************************************************************)
Overlay(v, op) ==
  [i \in 1..Max({Len(v), op.off + Len(op.items)}) |->
     IF i > op.off /\ i <= op.off + Len(op.items) THEN op.items[i - op.off] ELSE v[i]]

\* FullMerge()
ChunkValue(chunk) == FoldLeft(LAMBDA v, op : Overlay(v, op), chunk.base, chunk.ops)

\* PartialMerge(): the right operand's elements go behind the left one's
PartialMerge(left, right) == [off |-> left.off, items |-> left.items \o right.items]

AggregateAt(d, index) == ChunkValue(d.chunks[index \div ChunkSize])[(index % ChunkSize) + 1].agg
Readable(d, index) == Len(ChunkValue(d.chunks[index \div ChunkSize])) > index % ChunkSize

ChunksFor(n) == n \div ChunkSize + (IF n % ChunkSize # 0 THEN 1 ELSE 0)

Rebase(items, base) == [i \in DOMAIN items |-> [items[i] EXCEPT !.agg = @ + base]]

\* Without a row chunk 0 describes the array
SelfDescribed(d) ==
  LET zero == ChunkValue(d.chunks[0]) IN
  [count |-> Len(zero), agg |-> IF zero = <<>> THEN 0 ELSE Last(zero).agg]

\* What the flush takes for the durable state on a miss: the row is asked for
\* only when chunk 0 is full
MissMeta(d) == IF Len(ChunkValue(d.chunks[0])) = ChunkSize /\ d.row # None THEN d.row[1] ELSE SelfDescribed(d)

-----------------------------------------------------------------------------
(***************************************************************************)
(* A unit: allocTail() with its elements, or truncate()                     *)
(***************************************************************************)
NewLayer == [gen |-> 1, frozen |-> FALSE, recs |-> <<>>]

\* The live layer, made when there is none
Live == layers # <<>> /\ ~Last(layers).frozen
Grown == IF Live THEN layers ELSE Append(layers, NewLayer)
Head0(L) == IF Last(L).recs = <<>> THEN [gen |-> 0, trim |-> 0, count |-> 0, cap |-> 0, buf |-> 0] ELSE Head(Last(L).recs)

\* CTailWriter: elements land with the layer's running sum
Tail0(prev, b, deltas) ==
  LET running == IF prev.count > 0 THEN b[prev.count].agg ELSE 0 IN
  [i \in DOMAIN deltas |-> [d |-> deltas[i], agg |-> running + Total(SubSeq(deltas, 1, i))]]

\* In place while the capacity lasts, else into a doubled buffer
AllocTail(prev, deltas) ==
  LET count == prev.count + Len(deltas)
      inPlace == prev.buf # 0 /\ count <= prev.cap
      kept == IF prev.buf = 0 THEN <<>> ELSE SubSeq(bufs[prev.buf], 1, prev.count)
      stale == IF inPlace THEN SubSeq(bufs[prev.buf], count + 1, Len(bufs[prev.buf])) ELSE <<>>
      filled == kept \o Tail0(prev, kept, deltas) \o stale
  IN  [bufs |-> IF inPlace THEN [bufs EXCEPT ![prev.buf] = filled] ELSE Append(bufs, filled),
       rec |-> [prev EXCEPT !.count = count, !.cap = IF inPlace THEN @ ELSE Max({count, 2 * @}),
                            !.buf = IF inPlace THEN @ ELSE Len(bufs) + 1]]


\* The tail first, the rest is charged to what lies below.  The capacity is
\* capped: the dropped slots stay visible to older generations
Truncate(prev, n) ==
  LET fromTail == Min({n, prev.count}) IN
  [prev EXCEPT !.trim = @ + n - fromTail, !.count = @ - fromTail, !.cap = prev.count - fromTail]

\* The engine's commit: the revision refreshes its snapshot and drops what is in it
Commit(L, rec, data, freeze) ==
  LET n == Len(L)
      l == L[n]
      ids == SelectSeq(view.layers, LAMBDA i : i > durable)
  IN
  /\ layers' = [L EXCEPT ![n] = [gen |-> l.gen + 1, frozen |-> freeze, recs |-> <<[rec EXCEPT !.gen = l.gen]>> \o l.recs]]
  /\ view' = [layers |-> IF n \in ToSet(ids) THEN ids ELSE Append(ids, n), wm |-> l.gen, disk |-> disk, data |-> data]
  /\ done' = done + 1

ConnectUnit(deltas, freeze) ==
  LET L == Grown
      tail == AllocTail(Head0(L), deltas)
  IN
  /\ done < MaxUnits /\ Len(view.data) + Len(deltas) <= MaxLen
  /\ bufs' = tail.bufs
  /\ Commit(L, tail.rec, view.data \o deltas, freeze)
  /\ UNCHANGED <<durable, disk, pinned, meta, failed, restarts, flushed>>

DisconnectUnit(n, freeze) ==
  LET L == Grown IN
  /\ Reorgs /\ done < MaxUnits /\ n <= Len(view.data)
  /\ Commit(L, Truncate(Head0(L), n), SubSeq(view.data, 1, Len(view.data) - n), freeze)
  /\ UNCHANGED <<bufs, durable, disk, pinned, meta, failed, restarts, flushed>>

-----------------------------------------------------------------------------
(***************************************************************************)
(* flushComposed() for one key                                              *)
(***************************************************************************)

\* The rows of a tail from 'offset' on: the boundary chunk is patched by an
\* operand, whole chunks are written outright
Chunked(chunks, offset, items) ==
  LET Piece(c) == SubSeq(items, Max({1, c * ChunkSize - offset + 1}), Min({Len(items), (c + 1) * ChunkSize - offset})) IN
  [c \in DOMAIN chunks |->
     IF Piece(c) = <<>> \/ c < offset \div ChunkSize THEN chunks[c]
     ELSE IF c = offset \div ChunkSize /\ offset % ChunkSize # 0
          THEN [chunks[c] EXCEPT !.ops = Append(@, [off |-> offset % ChunkSize, items |-> Piece(c)])]
          ELSE [base |-> Piece(c), ops |-> <<>>]]

\* A trimmed array of one chunk is rewritten whole, its length is the count;
\* chunks past the new end die
Written(d, was, trim, items, base, sum) ==
  LET count == base + Len(items)
      whole == trim > 0 /\ count > 0 /\ count <= ChunkSize
      w == IF whole THEN [d.chunks EXCEPT ![0] = [base |-> SubSeq(ChunkValue(d.chunks[0]), 1, base) \o items, ops |-> <<>>]]
           ELSE Chunked(d.chunks, base, items)
  IN  [row |-> IF count > ChunkSize THEN <<[count |-> count, agg |-> sum]>> ELSE None,
       chunks |-> [c \in DOMAIN w |-> IF c >= ChunksFor(count) /\ c < ChunksFor(was.count) THEN NoChunk ELSE w[c]]]

\* The resident metadata: exact on a database born empty, frozen past its cap
FrozenNow == meta.frozen \/ (meta.fresh /\ (IF meta.entry = None THEN 1 ELSE 2) > meta.cap)

Flush ==
  LET l == layers[durable + 1]
      rec == Head(l.recs)
      frozen == FrozenNow
      resident == meta.fresh /\ (~frozen \/ meta.entry # None)
      was == IF ~resident THEN MissMeta(disk) ELSE IF meta.entry = None THEN [count |-> 0, agg |-> 0] ELSE meta.entry[1]
      base == was.count - rec.trim
      tail == IF rec.buf = 0 THEN <<>> ELSE SubSeq(bufs[rec.buf], 1, rec.count)
      unreadable == rec.trim > 0 /\ base > 0 /\ ~Readable(disk, base - 1)
      below == IF rec.trim = 0 THEN was.agg ELSE IF base = 0 THEN 0 ELSE AggregateAt(disk, base - 1)
      sum == IF tail = <<>> THEN below ELSE below + Last(tail).agg
  IN
  /\ durable < Len(layers) /\ l.frozen /\ ~failed
  /\ IF base < 0 \/ unreadable
     THEN failed' = TRUE /\ UNCHANGED <<disk, durable, meta, flushed>>
     ELSE /\ disk' = Written(disk, was, rec.trim, Rebase(tail, below), base, sum)
          /\ durable' = durable + 1
          /\ meta' = [meta EXCEPT !.frozen = frozen,
                        !.entry = IF resident THEN <<[count |-> base + Len(tail), agg |-> IF base + Len(tail) = 0 THEN 0 ELSE sum]>>
                                  ELSE @]
          /\ flushed' = SubSeq(flushed, 1, base) \o [i \in DOMAIN tail |-> tail[i].d]
          /\ UNCHANGED failed
  /\ UNCHANGED <<bufs, layers, view, pinned, done, restarts>>

\* rocksdb (external): a compaction combines two neighbouring operands
Compact(c) ==
  /\ Compacts /\ Len(disk.chunks[c].ops) > 1
  /\ \E i \in 1..Len(disk.chunks[c].ops) - 1 :
       disk' = [disk EXCEPT !.chunks[c].ops =
                  SubSeq(@, 1, i - 1) \o <<PartialMerge(@[i], @[i + 1])>> \o SubSeq(@, i + 2, Len(@))]
  /\ UNCHANGED <<bufs, layers, durable, view, pinned, meta, failed, done, restarts, flushed>>

\* A crash drops what was not flushed
Restart ==
  /\ restarts < MaxRestarts /\ restarts' = restarts + 1
  /\ bufs' = <<>> /\ layers' = <<>> /\ durable' = 0
  /\ view' = View0(disk, flushed) /\ pinned' = view'
  /\ meta' = [meta EXCEPT !.fresh = FALSE, !.frozen = FALSE, !.entry = None]
  /\ UNCHANGED <<disk, failed, done, flushed>>

Pin == pinned' = view /\ pinned # view /\ UNCHANGED <<bufs, layers, durable, disk, view, meta, failed, done, restarts, flushed>>

-----------------------------------------------------------------------------
(***************************************************************************)
(* query()                                                                  *)
(***************************************************************************)
\* The newest descriptor of a layer that the revision may see
Described(v, j) ==
  SelectSeq(layers[v.layers[j]].recs, LAMBDA r : j < Len(v.layers) \/ r.gen <= v.wm)

\* compose(): a layer's trim eats the segments below from the back, the rest
\* reaches into the disk
CutBack(segs, n) ==
  LET Left(i) == Total([j \in 1..Len(segs) - i |-> Len(segs[i + j])])  \* elements behind segment i
      cut == [i \in DOMAIN segs |-> SubSeq(segs[i], 1, Len(segs[i]) - Min({Len(segs[i]), Max({0, n - Left(i)})}))]
  IN  SelectSeq(cut, LAMBDA s : s # <<>>)

Compose(v) ==
  FoldLeft(LAMBDA acc, j :
     IF Described(v, j) = <<>> THEN acc
     ELSE LET r == Head(Described(v, j))
              have == Total([i \in DOMAIN acc.segs |-> Len(acc.segs[i])])
              segs == CutBack(acc.segs, r.trim)
          IN  [trim |-> acc.trim + Max({0, r.trim - have}),
               segs |-> IF r.count = 0 THEN segs ELSE Append(segs, SubSeq(bufs[r.buf], 1, r.count))],
     [trim |-> 0, segs |-> <<>>], [j \in DOMAIN v.layers |-> j])

\* Segment sums are layer-relative: each is rebased onto the last element below
Rebased(segs, base) ==
  FoldLeft(LAMBDA acc, s : [out |-> acc.out \o Rebase(s, acc.base), base |-> acc.base + Last(s).agg],
           [out |-> <<>>, base |-> base], segs).out

OnDisk(d, n) == [i \in 1..n |-> ChunkValue(d.chunks[(i - 1) \div ChunkSize])[((i - 1) % ChunkSize) + 1]]

\* The whole array of a revision; a page is a cut of it
Query(v) ==
  LET c == Compose(v)
      was == IF v.disk.row # None THEN v.disk.row[1] ELSE SelfDescribed(v.disk)
      base == was.count - c.trim
      below == IF c.trim = 0 THEN was.agg ELSE IF base <= 0 THEN 0 ELSE AggregateAt(v.disk, base - 1)
  IN  IF base < 0 \/ \E i \in 0..base - 1 : ~Readable(v.disk, i) THEN <<"unreadable">>
      ELSE OnDisk(v.disk, base) \o Rebased(c.segs, below)

-----------------------------------------------------------------------------
Next ==
  \/ \E n \in 1..MaxTail, freeze \in BOOLEAN :
       \/ \E deltas \in [1..n -> Deltas] : ConnectUnit(deltas, freeze)
       \/ DisconnectUnit(n, freeze)
  \/ Flush \/ Restart \/ Pin
  \/ \E c \in DOMAIN disk.chunks : Compact(c)

Spec == Init /\ [][Next]_vars

-----------------------------------------------------------------------------
\* The flush never meets a layer it cannot apply ("fail closed"), and the
\* resident metadata is what the disk says
TypeOK ==
  /\ ~failed
  /\ meta.entry # None => meta.entry[1] = (IF disk.row # None THEN disk.row[1] ELSE SelfDescribed(disk))
  /\ disk.row # None => disk.row[1].count > ChunkSize


\* kvarray.h, PartialMerge(): assert(leftChunkOffset + left.size() - sizeof(uint64_t)
\* == rightChunkOffset): neighbouring operands of a chunk continue each other
OperandsContiguous ==
  \A c \in DOMAIN disk.chunks : \A i \in 1..Len(disk.chunks[c].ops) - 1 :
    LET left == disk.chunks[c].ops[i] IN left.off + Len(left.items) = disk.chunks[c].ops[i + 1].off
=============================================================================
