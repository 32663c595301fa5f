------------------------------ MODULE SwmrCache ------------------------------
(***************************************************************************)
(* The coin cache of the UTXO database (dbengine/swmrcache.h): two-choice  *)
(* buckets, a sequence lock per slot, mutators of disjoint keys, wait-free *)
(* readers, and the owner's maintenance between waves of mutations.  A     *)
(* miss is always legal; a hit has to be exact.  All keys have one tag, so *)
(* every occupied slot is a candidate.                                     *)
(***************************************************************************)
EXTENDS Integers, FiniteSets

CONSTANTS
  Keys, None, Mutators, Readers,
  Buckets, Slots,   \* 1..NumBuckets_, 1..SLOTS_PER_BUCKET
  B1, B2,           \* key -> its two buckets
  Owner,            \* key -> the mutator that may touch it
  Heights,          \* 0..n
  Limit, CondemnedSlack,
  SweepChunk,
  MaxOps            \* bound: insertions and spendings

CacheAssumption ==
  /\ Cardinality(Buckets) \in Nat \ {0} /\ Buckets = 1..Cardinality(Buckets) /\ Slots \subseteq Nat
  /\ B1 \in [Keys -> Buckets] /\ B2 \in [Keys -> Buckets] /\ Owner \in [Keys -> Mutators]
  /\ Limit \in Nat \ {0} /\ CondemnedSlack \in Nat /\ SweepChunk \in Nat \ {0}

VARIABLES
  slot,             \* bucket, index -> [tag, seq, key, val, height]
  live, condemned, alive, floor,
  sweep,            \* SweepBucket_
  op, rd,           \* what each mutator, each reader is doing
  owner,            \* Idle, Raising, or the buckets maintain() may still sweep
  ops,
  value             \* history: what a key maps to, 0 for nothing

counters == <<live, condemned, alive, floor>>
vars == <<slot, counters, sweep, op, rd, owner, ops, value>>

Idle == -1
Raising == -2
Places == Buckets \X Slots
Concurrent == \E m, n \in Mutators : m # n   \* ConcurrentMutators_
Free == [tag |-> 0, seq |-> 0, key |-> None, val |-> 0, height |-> 0]
IdleOp == [at |-> "idle", kind |-> "insert", key |-> None, val |-> 0, height |-> 0, old |-> 0, place |-> <<0, 0>>, goal |-> "free"]
IdleRd == [at |-> "idle", key |-> None, todo |-> {}, pass |-> 1, place |-> <<0, 0>>, seq |-> 0, gotKey |-> None, gotVal |-> 0, during |-> {}]

Init ==
  /\ slot = [p \in Places |-> Free]
  /\ live = 0 /\ condemned = 0 /\ alive = [h \in Heights |-> 0] /\ floor = 0 /\ sweep = 1
  /\ op = [m \in Mutators |-> IdleOp] /\ rd = [r \in Readers |-> IdleRd]
  /\ owner = Idle /\ ops = 0 /\ value = [k \in Keys |-> 0]

Below(h) == IF h < floor THEN 1 ELSE 0

-----------------------------------------------------------------------------
(***************************************************************************)
(* Mutators: insertWith and spend                                          *)
(***************************************************************************)
Begin(m, kind, k, h) ==
  /\ owner = Idle /\ op[m].at = "idle" /\ Owner[k] = m /\ ops < MaxOps
  /\ ops' = ops + 1
  /\ op' = [op EXCEPT ![m] = [IdleOp EXCEPT !.at = "own1", !.kind = kind, !.key = k, !.val = ops + 1, !.height = h]]
  /\ UNCHANGED <<slot, counters, sweep, rd, owner, value>>

\* findOwn(), a bucket at a time.  Not found: spend gives up, insert picks a slot
FindOwn(m) ==
  LET o == op[m]
      b == IF o.at = "own1" THEN B1[o.key] ELSE B2[o.key]
      found == {i \in Slots : slot[b, i].tag # 0 /\ slot[b, i].key = o.key}
  IN
  /\ o.at \in {"own1", "own2"}
  /\ \/ \E i \in found : /\ \A j \in found : i <= j
                         /\ op' = [op EXCEPT ![m] = [o EXCEPT !.at = "claim", !.place = <<b, i>>, !.goal = "own"]]
     \/ /\ found = {}
        /\ op' = [op EXCEPT ![m] = IF o.at = "own1" /\ B1[o.key] # B2[o.key] THEN [o EXCEPT !.at = "own2"]
                                  ELSE IF o.kind = "spend" THEN IdleOp
                                  ELSE [o EXCEPT !.at = "pick"]]
  /\ UNCHANGED <<slot, counters, sweep, rd, owner, ops, value>>

FreeIn(b) == {i \in Slots : slot[b, i].tag = 0}

\* The weakest of two full buckets: condemned first, then the lowest; the
\* first of equals in the order of the scan
Weaker(p, q) ==
  LET hp == slot[p].height hq == slot[q].height IN
  \/ hp < floor /\ hq >= floor
  \/ (hp < floor <=> hq < floor) /\ hp < hq

Victim(v, b1, b2) ==
  \A q \in {b1, b2} \X Slots :
    /\ ~Weaker(q, v)
    /\ (q[1] = b1 /\ v[1] # b1) \/ (q[1] = v[1] /\ q[2] < v[2]) => Weaker(v, q)

Pick(m) ==
  LET b1 == B1[op[m].key]
      b2 == B2[op[m].key]
      free1 == Cardinality(FreeIn(b1))
      free2 == IF b1 = b2 THEN 0 ELSE Cardinality(FreeIn(b2))
      b == IF free1 >= free2 THEN b1 ELSE b2
      Chosen(goal, p) == op' = [op EXCEPT ![m] = [@ EXCEPT !.at = "claim", !.goal = goal, !.place = p]]
  IN
  /\ op[m].at = "pick"
  /\ \/ \E i \in FreeIn(b) : (\A j \in FreeIn(b) : i <= j) /\ Chosen("free", <<b, i>>)
     \/ /\ FreeIn(b1) = {} /\ FreeIn(b2) = {}
        /\ \E v \in {b1, b2} \X Slots : Victim(v, b1, b2) /\ Chosen("victim", v)
  /\ UNCHANGED <<slot, counters, sweep, rd, owner, ops, value>>

\* tryClaim(): even to odd; held by another mutator, start over
Claim(m) ==
  LET p == op[m].place IN
  /\ op[m].at = "claim"
  /\ IF Concurrent /\ slot[p].seq % 2 = 1
     THEN op' = [op EXCEPT ![m].at = "own1"] /\ UNCHANGED slot
     ELSE op' = [op EXCEPT ![m].at = "verify"] /\ slot' = [slot EXCEPT ![p].seq = @ + 1]
  /\ UNCHANGED <<counters, sweep, rd, owner, ops, value>>

AccountRemoval(h) ==
  /\ live' = live - 1 /\ alive' = [alive EXCEPT ![h] = @ - 1]
  /\ condemned' = condemned - Below(h)

NextStep(o) == IF o.kind = "spend" THEN "untag" ELSE IF o.goal = "own" THEN "value" ELSE "key"

\* Under the claim: our key still there, the free slot still free, or the
\* victim taken over; otherwise unclaimClean() and start over
Verify(m) ==
  LET o == op[m]
      s == slot[o.place]
      kept == CASE o.goal = "own" -> s.tag # 0 /\ s.key = o.key
                [] o.goal = "free" -> s.tag = 0
                [] o.goal = "victim" -> TRUE
  IN
  /\ o.at = "verify"
  /\ IF kept
     THEN /\ op' = [op EXCEPT ![m].at = NextStep(o), ![m].old = s.height]
          /\ IF o.goal # "own" /\ s.tag # 0 THEN AccountRemoval(s.height) ELSE UNCHANGED <<live, alive, condemned>>
          /\ UNCHANGED slot
     ELSE /\ op' = [op EXCEPT ![m].at = "own1"] /\ slot' = [slot EXCEPT ![o.place].seq = @ - 1]
          /\ UNCHANGED <<live, alive, condemned>>
  /\ UNCHANGED <<floor, sweep, rd, owner, ops, value>>

WriteKey(m) ==
  /\ op[m].at = "key"
  /\ slot' = [slot EXCEPT ![op[m].place].key = op[m].key]
  /\ op' = [op EXCEPT ![m].at = "value"]
  /\ UNCHANGED <<counters, sweep, rd, owner, ops, value>>

WriteValue(m) ==
  LET o == op[m] IN
  /\ o.at = "value"
  /\ slot' = [slot EXCEPT ![o.place].val = o.val, ![o.place].height = o.height]
  /\ op' = [op EXCEPT ![m].at = IF o.goal = "own" THEN "end" ELSE "tag"]
  /\ UNCHANGED <<counters, sweep, rd, owner, ops, value>>

SetTag(m) ==
  /\ op[m].at \in {"tag", "untag"}
  /\ slot' = [slot EXCEPT ![op[m].place].tag = IF op[m].at = "tag" THEN 1 ELSE 0]
  /\ op' = [op EXCEPT ![m].at = "end"]
  /\ UNCHANGED <<counters, sweep, rd, owner, ops, value>>

\* What the keys map to from now on; a reader may return any of it
Now(v) ==
  /\ value' = v
  /\ rd' = [r \in Readers |-> IF rd[r].at = "idle" THEN rd[r] ELSE [rd[r] EXCEPT !.during = @ \union {v[rd[r].key]}]]

WriteEndClean(m) ==
  LET o == op[m] IN
  /\ o.at = "end"
  /\ slot' = [slot EXCEPT ![o.place].seq = @ - 1]
  /\ Now([k \in Keys |-> IF k = o.key THEN (IF o.kind = "spend" THEN 0 ELSE o.val)
                         ELSE IF \E p \in Places : slot[p].tag # 0 /\ slot[p].key = k THEN value[k] ELSE 0])
  /\ op' = [op EXCEPT ![m].at = "count"]
  /\ UNCHANGED <<counters, sweep, owner, ops>>

WriteEnd(m) ==
  LET o == op[m] IN
  /\ o.at = "end"
  /\ slot' = [slot EXCEPT ![o.place].seq = @ + 1]
  /\ Now([k \in Keys |-> IF k = o.key THEN (IF o.kind = "spend" THEN 0 ELSE o.val)
                         ELSE IF \E p \in Places : slot[p].tag # 0 /\ slot[p].key = k THEN value[k] ELSE 0])
  /\ op' = [op EXCEPT ![m].at = "count"]
  /\ UNCHANGED <<counters, sweep, owner, ops>>

\* The counters, after the slot: an entry removed, overwritten or added
Account(m) ==
  LET o == op[m]
      Left(h) == IF o.goal = "own" /\ h = o.old THEN 1 ELSE 0
  IN
  /\ o.at = "count"
  /\ IF o.kind = "spend" THEN AccountRemoval(o.old)
     ELSE /\ live' = IF o.goal = "own" THEN live ELSE live + 1
          /\ alive' = [h \in Heights |-> alive[h] - Left(h) + (IF h = o.height THEN 1 ELSE 0)]
          /\ condemned' = condemned + Below(o.height) - (IF o.goal = "own" THEN Below(o.old) ELSE 0)
  /\ op' = [op EXCEPT ![m] = IdleOp]
  /\ UNCHANGED <<slot, floor, sweep, rd, owner, ops, value>>

-----------------------------------------------------------------------------
(***************************************************************************)
(* The owner, between waves                                                *)
(***************************************************************************)
Quiet == \A m \in Mutators : op[m].at = "idle"

\* maintain(): the floor rises, a height at a time, until the population above it fits
Maintain ==
  /\ Quiet /\ owner = Idle
  /\ owner' = Raising
  /\ UNCHANGED <<slot, counters, sweep, op, rd, ops, value>>

Raise ==
  /\ owner = Raising
  /\ IF live - condemned >= Limit /\ floor < Cardinality(Heights)
     THEN floor' = floor + 1 /\ condemned' = condemned + alive[floor] /\ owner' = owner
     ELSE owner' = Cardinality(Buckets) /\ UNCHANGED <<floor, condemned>>
  /\ UNCHANGED <<slot, live, alive, sweep, op, rd, ops, value>>

\* sweepChunk(): the budget is one pass over the table
SweepChunkOf(n) == {((sweep + i - 1) % Cardinality(Buckets)) + 1 : i \in 0..n-1}

Sweep ==
  LET n == IF owner < SweepChunk THEN owner ELSE SweepChunk
      swept == {p \in SweepChunkOf(n) \X Slots : slot[p].tag # 0 /\ slot[p].height < floor}
  IN
  /\ owner \in Nat
  /\ IF condemned <= CondemnedSlack \/ owner = 0
     THEN owner' = Idle /\ UNCHANGED <<slot, counters, sweep, rd, value>>
     ELSE /\ owner' = owner - n /\ sweep' = ((sweep + n - 1) % Cardinality(Buckets)) + 1
          /\ slot' = [p \in Places |-> IF p \in swept THEN [slot[p] EXCEPT !.tag = 0, !.seq = @ + 2] ELSE slot[p]]
          /\ live' = live - Cardinality(swept) /\ condemned' = condemned - Cardinality(swept)
          /\ alive' = [h \in Heights |-> alive[h] - Cardinality({p \in swept : slot[p].height = h})]
          /\ Now([k \in Keys |-> IF \E p \in swept : slot[p].key = k THEN 0 ELSE value[k]])
          /\ floor' = floor
  /\ UNCHANGED <<op, ops>>

\* exportBucket() of every bucket, importBucket() into a new table and
\* finalizeImport(); or clear() when the dump is refused
Rank(b, i) == Cardinality({j \in Slots : j <= i /\ slot[b, j].tag # 0})
Packed(p) == {i \in Slots : slot[p[1], i].tag # 0 /\ Rank(p[1], i) = p[2]}

Reload ==
  LET occupied == {p \in Places : slot[p].tag # 0} IN
  /\ Quiet /\ owner = Idle /\ \A r \in Readers : rd[r].at = "idle"
  /\ slot' = [p \in Places |-> IF Packed(p) = {} THEN Free
                               ELSE [slot[p[1], CHOOSE i \in Packed(p) : TRUE] EXCEPT !.seq = 0]]
  /\ floor' = 0 /\ condemned' = 0 /\ sweep' = 1 /\ live' = Cardinality(occupied)
  /\ alive' = [h \in Heights |-> Cardinality({p \in occupied : slot[p].height = h})]
  /\ UNCHANGED <<op, rd, owner, ops, value>>

Clear ==
  /\ Quiet /\ owner = Idle /\ \A r \in Readers : rd[r].at = "idle"
  /\ slot' = [p \in Places |-> [slot[p] EXCEPT !.tag = 0]]
  /\ floor' = 0 /\ condemned' = 0 /\ sweep' = 1 /\ live' = 0 /\ alive' = [h \in Heights |-> 0]
  /\ value' = [k \in Keys |-> 0]
  /\ UNCHANGED <<op, rd, owner, ops>>

-----------------------------------------------------------------------------
(***************************************************************************)
(* Readers: lookupConcurrent.  "during" is history                         *)
(***************************************************************************)
Lookup(r, k) ==
  /\ rd[r].at = "idle"
  /\ rd' = [rd EXCEPT ![r] = [IdleRd EXCEPT !.at = "word", !.key = k, !.during = {value[k]}]]
  /\ UNCHANGED <<slot, counters, sweep, op, owner, ops, value>>

\* The word of tags: the slots that are worth a look, then the other bucket
LoadWord(r) ==
  LET k == rd[r].key
      b == IF rd[r].pass = 1 THEN B1[k] ELSE B2[k]
  IN
  /\ rd[r].at = "word"
  /\ rd' = IF rd[r].pass = 3 \/ (rd[r].pass = 2 /\ B1[k] = B2[k]) THEN [rd EXCEPT ![r] = IdleRd]
           ELSE [rd EXCEPT ![r].at = "slot", ![r].pass = @ + 1,
                           ![r].todo = {p \in {b} \X Slots : slot[p].tag # 0}]
  /\ UNCHANGED <<slot, counters, sweep, op, owner, ops, value>>

Skip(r, p) == [rd[r] EXCEPT !.at = "slot", !.todo = @ \ {p}]

LoadSeq(r) ==
  /\ rd[r].at = "slot"
  /\ \/ rd[r].todo = {} /\ rd' = [rd EXCEPT ![r].at = "word"]
     \/ \E p \in rd[r].todo :
          /\ \A q \in rd[r].todo : p[2] <= q[2]
          /\ rd' = [rd EXCEPT ![r] = IF slot[p].seq % 2 = 1 THEN Skip(r, p)
                                    ELSE [@ EXCEPT !.at = "key", !.place = p, !.seq = slot[p].seq]]
  /\ UNCHANGED <<slot, counters, sweep, op, owner, ops, value>>

CopyKey(r) ==
  /\ rd[r].at = "key"
  /\ rd' = [rd EXCEPT ![r].at = "value", ![r].gotKey = slot[rd[r].place].key]
  /\ UNCHANGED <<slot, counters, sweep, op, owner, ops, value>>

CopyValue(r) ==
  /\ rd[r].at = "value"
  /\ rd' = [rd EXCEPT ![r].at = "check", ![r].gotVal = slot[rd[r].place].val]
  /\ UNCHANGED <<slot, counters, sweep, op, owner, ops, value>>

Check(r) ==
  /\ rd[r].at = "check"
  /\ rd' = [rd EXCEPT ![r] = IF slot[@.place].seq # @.seq \/ @.gotKey # @.key THEN Skip(r, @.place)
                             ELSE [@ EXCEPT !.at = "hit"]]
  /\ UNCHANGED <<slot, counters, sweep, op, owner, ops, value>>

Leave(r) ==
  /\ rd[r].at = "hit" /\ rd' = [rd EXCEPT ![r] = IdleRd]
  /\ UNCHANGED <<slot, counters, sweep, op, owner, ops, value>>

Next ==
  \/ \E m \in Mutators :
       \/ \E k \in Keys : Begin(m, "spend", k, 0) \/ \E h \in Heights : Begin(m, "insert", k, h)
       \/ FindOwn(m) \/ Pick(m) \/ Claim(m) \/ Verify(m) \/ WriteKey(m) \/ WriteValue(m)
       \/ SetTag(m) \/ WriteEnd(m) \/ Account(m)
  \/ \E r \in Readers : \/ \E k \in Keys : Lookup(r, k)
                        \/ LoadWord(r) \/ LoadSeq(r) \/ CopyKey(r) \/ CopyValue(r) \/ Check(r) \/ Leave(r)
  \/ Maintain \/ Raise \/ Sweep \/ Reload \/ Clear

Spec == Init /\ [][Next]_vars

-----------------------------------------------------------------------------
(***************************************************************************)
(* Types                                                                   *)
(***************************************************************************)
TypeOK == live \in Int /\ condemned \in Int /\ floor \in 0..Cardinality(Heights)

(***************************************************************************)
(* A key never occupies two slots, however insertions, spendings and       *)
(* displacements by several mutators interleave: insertWith() and spend()  *)
(* search two buckets without a lock.                                      *)
(***************************************************************************)
KeyOnce ==
  \A p, q \in Places : slot[p].tag # 0 /\ slot[q].tag # 0 /\ slot[p].key = slot[q].key => p = q

(***************************************************************************)
(* A hit is exact: the value a lookup returns is one the key had at some   *)
(* moment of the lookup ("absence is always legal, a positive is exact"),  *)
(* although key and value are copied without a lock while slots are        *)
(* overwritten, displaced, spent and swept.                                *)
(***************************************************************************)
HitIsExact == \A r \in Readers : rd[r].at = "hit" => rd[r].gotVal \in rd[r].during /\ rd[r].gotVal # 0

(***************************************************************************)
(* debugCheck(): between waves the incremental counters agree with a scan  *)
(* of the table.                                                           *)
(***************************************************************************)
CountersAgree ==
  LET occupied == {p \in Places : slot[p].tag # 0} IN
  Quiet => /\ live = Cardinality(occupied)
           /\ condemned = Cardinality({p \in occupied : slot[p].height < floor})
           /\ \A h \in Heights : alive[h] = Cardinality({p \in occupied : slot[p].height = h})

=============================================================================
