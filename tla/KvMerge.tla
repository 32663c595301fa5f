------------------------------- MODULE KvMerge -------------------------------
(***************************************************************************)
(* The merge family (dbengine/kvmerge.h) with a rank index: a value is a    *)
(* pair of counters modulo 2^Width, a layer record the sum of its units'    *)
(* deltas, a read the disk row plus every layer.  The index holds a copy of *)
(* the row under its metric; top() reads the head of the index per shard    *)
(* and folds the layers in.  Layers and snapshots follow KvEngine.          *)
(***************************************************************************)
EXTENDS Integers, Sequences, FiniteSets, SequencesExt, FiniteSetsExt

CONSTANTS
  Keys,                      \* 1..n, ordered as memcmp orders them
  ShardsNum, ShardOf,
  Width,                     \* bits of a counter
  Changes,                   \* what a unit may do to a key: <<to the metric, to the other counter>>
  DepthFactor, DepthExtra,   \* how deep top() scans: 4 and 256 in the code
  MaxMetric, MaxUnits, MaxLayers  \* bounds

Shards == 1..ShardsNum
Wrap == 2^Width

MergeAssumption == Keys \subseteq Nat /\ 2 * MaxMetric < Wrap /\ \A k \in Keys : ShardOf[k] \in Shards

VARIABLES
  data, index,     \* the data family, and the index rows [metric, key, val]
  layers, durable, \* layers [gen, frozen, rec], rec: key -> versions newest first; those flushed
  view,            \* the published revision [layers, wm, data, index, ref]
  done

vars == <<data, index, layers, durable, view, done>>

Identity == [m |-> 0, c |-> 0]
Merged(a, b) == [m |-> (a.m + b.m) % Wrap, c |-> (a.c + b.c) % Wrap]
IsNull(v) == v = Identity
Metric(v) == v.m % Wrap
NewLayer == [gen |-> 1, frozen |-> FALSE, rec |-> [k \in Keys |-> <<>>]]

RowOf(k, v) == IF IsNull(v) \/ Metric(v) = 0 THEN {} ELSE {[metric |-> Metric(v), key |-> k, val |-> v]}

\* Any rows that earlier units may have left on disk, and their index
Init ==
  /\ data \in [Keys -> {Identity} \union [m : 0..MaxMetric, c : {1}]]
  /\ index = UNION {RowOf(k, data[k]) : k \in Keys}
  /\ layers = <<>> /\ durable = 0 /\ done = 0
  /\ view = [layers |-> <<>>, wm |-> 0, data |-> data, index |-> index, ref |-> data]

-----------------------------------------------------------------------------
Live == layers # <<>> /\ ~Last(layers).frozen

\* merge(): folded into the record it replaces
WithDelta(l, k, delta) ==
  LET prev == IF l.rec[k] = <<>> THEN Identity ELSE Head(l.rec[k]).val IN
  [l EXCEPT !.rec[k] = <<[gen |-> l.gen, val |-> Merged(prev, delta)]>> \o @]

\* connect() and disconnect() of an address database: a delta per touched key,
\* and the commit
Unit(touched, change, freeze) ==
  LET L == IF Live THEN layers ELSE Append(layers, NewLayer)
      n == Len(L)
      delta == [m |-> change[1] % Wrap, c |-> change[2] % Wrap]
      ids == SelectSeq(view.layers, LAMBDA i : i > durable)
  IN
  /\ done < MaxUnits /\ n - durable <= MaxLayers
  /\ \A k \in touched : view.ref[k].m + change[1] \in 0..MaxMetric /\ view.ref[k].c + change[2] \in 0..MaxMetric
  /\ layers' = [L EXCEPT ![n] = [FoldSet(LAMBDA k, l : WithDelta(l, k, delta), @, touched) EXCEPT !.gen = @ + 1, !.frozen = freeze]]
  /\ view' = [layers |-> IF n \in ToSet(ids) THEN ids ELSE Append(ids, n), wm |-> L[n].gen, data |-> data, index |-> index,
              ref |-> [k \in Keys |-> IF k \in touched THEN Merged(view.ref[k], delta) ELSE view.ref[k]]]
  /\ done' = done + 1 /\ UNCHANGED <<data, index, durable>>

\* The row of an unchanged metric is rewritten too: it carries the value
RowsAfter(old, new, rows) ==
  (rows \ UNION {RowOf(k, old[k]) : k \in {j \in Keys : old[j] # new[j]}})
    \union UNION {RowOf(k, new[k]) : k \in {j \in Keys : old[j] # new[j]}}

\* writeLayer() and flushFolded() with an active index
Flush ==
  LET l == layers[durable + 1]
      folded == {k \in Keys : l.rec[k] # <<>> /\ ~IsNull(Head(l.rec[k]).val)}
      new == [k \in Keys |-> IF k \in folded THEN Merged(data[k], Head(l.rec[k]).val) ELSE data[k]]
  IN
  /\ durable < Len(layers) /\ l.frozen
  /\ data' = new /\ index' = RowsAfter(data, new, index) /\ durable' = durable + 1
  /\ UNCHANGED <<layers, view, done>>

-----------------------------------------------------------------------------
\* mergeLayer(), forEachDelta(): a layer's cumulative delta at the watermark
DeltaOf(v, j, k) ==
  LET seen == SelectSeq(layers[v.layers[j]].rec[k], LAMBDA r : j < Len(v.layers) \/ r.gen <= v.wm) IN
  IF seen = <<>> THEN Identity ELSE Head(seen).val

LayersSum(v, k) == FoldLeft(LAMBDA acc, j : Merged(acc, DeltaOf(v, j, k)), Identity, [j \in DOMAIN v.layers |-> j])
Touched(v, k) == \E j \in DOMAIN v.layers :
  \E i \in DOMAIN layers[v.layers[j]].rec[k] : j < Len(v.layers) \/ layers[v.layers[j]].rec[k][i].gen <= v.wm

Find(v, k) == Merged(v.data[k], LayersSum(v, k))

\* CMetricOrder
Before(a, b) == a.metric > b.metric \/ (a.metric = b.metric /\ a.key < b.key)
Ranked(rows) == [i \in 1..Cardinality(rows) |-> CHOOSE r \in rows : Cardinality({x \in rows : Before(x, r)}) = i - 1]
CutAt(seq, need) == IF Len(seq) >= need THEN seq[need].metric ELSE 0

Lowers(v) == Metric(v) = 0 \/ Metric(v) >= Wrap \div 2

\* topFromShard(): the head of the shard's index, the layers folded in, and
\* the layers' keys outside the head that the cut still lets in
Scan(rows, depth) == [head |-> SubSeq(rows, 1, Min({depth, Len(rows)})), exhausted |-> Len(rows) <= depth]
TailOf(scan) == IF scan.head = <<>> THEN 0 ELSE Last(scan.head).metric
Selected(scan) == {scan.head[i].key : i \in DOMAIN scan.head}
HeadRows(v, head) ==
  UNION {RowOf(head[i].key, Merged(head[i].val, LayersSum(v, head[i].key))) : i \in DOMAIN head}

Pruned(d, scan, cut) ==
  \/ scan.exhausted /\ Lowers(d)
  \/ cut # 0 /\ (Lowers(d) \/ (IF scan.exhausted THEN 0 ELSE TailOf(scan)) + Metric(d) < cut)
Extras(v, s, scan, cut) ==
  {k \in Keys \ Selected(scan) : ShardOf[k] = s /\ Touched(v, k) /\ ~Pruned(LayersSum(v, k), scan, cut)}

WithExtras(v, s, scan, merged, need) ==
  [candidates |-> merged \union UNION {RowOf(k, Find(v, k)) : k \in Extras(v, s, scan, CutAt(Ranked(merged), need))},
   tails |-> IF scan.exhausted THEN {} ELSE {TailOf(scan)}]
FromScan(v, s, scan, need) == WithExtras(v, s, scan, HeadRows(v, scan.head), need)
TopFromShard(v, s, depth, need) ==
  FromScan(v, s, Scan(Ranked({r \in v.index : ShardOf[r.key] = s}), depth), need)

Page(list, need) == SubSeq(list, 1, Min({need, Len(list)}))
Candidates(parts) == Ranked(UNION {parts[s].candidates : s \in Shards})
TopPassShallow(v, depth, need) ==
  [deeper |-> FALSE, list |-> Page(Candidates([s \in Shards |-> TopFromShard(v, s, depth, need)]), need)]

\* One pass of top(): go deeper while an unread row may beat the cut
Cut(parts, candidates, need) ==
  [deeper |-> \E s \in Shards : \E t \in parts[s].tails : t > CutAt(candidates, need), list |-> Page(candidates, need)]
FromShards(parts, need) == Cut(parts, Candidates(parts), need)
TopPass(v, depth, need) == FromShards([s \in Shards |-> TopFromShard(v, s, depth, need)], need)

DepthAt(need, i) == (need * DepthFactor + DepthExtra) * 4^i

FirstDone(pass) == pass[CHOOSE i \in DOMAIN pass : ~pass[i].deeper /\ \A j \in 0..i - 1 : pass[j].deeper]
Top(v, need) == FirstDone([i \in 0..Cardinality(Keys) |-> TopPass(v, DepthAt(need, i), need)]).list

-----------------------------------------------------------------------------
Next ==
  \/ \E touched \in SUBSET Keys \ {{}}, change \in Changes, freeze \in BOOLEAN : Unit(touched, change, freeze)
  \/ Flush

Spec == Init /\ [][Next]_vars

-----------------------------------------------------------------------------
\* What the answer should be: the keys a find() gives a metric, ranked
Exact(v, need) == Page(Ranked(UNION {RowOf(k, v.ref[k]) : k \in Keys}), need)
SameRanks(got, want) ==
  Len(got) = Len(want) /\ \A i \in DOMAIN got : got[i].metric = want[i].metric /\ got[i].val = view.ref[got[i].key]

\* The counters on disk and in the view stay in range
TypeOK == data \in [Keys -> [m : 0..Wrap - 1, c : 0..Wrap - 1]] /\ view.ref \in [Keys -> [m : 0..MaxMetric, c : 0..MaxMetric]]

\* find() of a revision is the sum of its units, each counted once, whatever
\* part of them is on disk
FindExact == \A k \in Keys : Find(view, k) = view.ref[k]

\* The index says what the data rows say: flushFolded() deletes the row of the
\* old value and writes that of the new one, none for a zero metric
IndexMatches == index = UNION {RowOf(k, data[k]) : k \in Keys}

\* top() gives the greatest metrics there are, with the right values, for any
\* page length, scan depth and distribution between rows and layers
TopRanksRight == \A need \in 1..Cardinality(Keys) : SameRanks(Top(view, need), Exact(view, need))

\* kvmerge.h, top(): "exact as of the revision, the same list a find() per key
\* would give"
TopExact == \A need \in 1..Cardinality(Keys) : Top(view, need) = Exact(view, need)
=============================================================================
