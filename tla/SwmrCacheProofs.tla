--------------------------- MODULE SwmrCacheProofs ---------------------------
(***************************************************************************)
(* Proof that a hit of the coin cache is exact, for any number of          *)
(* mutators, readers, buckets, slots and keys: the sequence lock of a slot *)
(* arbitrates between mutators, a key has one slot, an occupied slot that  *)
(* nobody is rewriting maps its key to its value, and a reader whose two   *)
(* loads of the sequence agree has copied a key and a value that belong    *)
(* together.                                                               *)
(***************************************************************************)
EXTENDS SwmrCache, TLAPS

-----------------------------------------------------------------------------
(***************************************************************************)
(* The inductive invariant                                                 *)
(***************************************************************************)

\* Between tryClaim() and writeEnd() or unclaimClean()
Held == {"verify", "key", "value", "tag", "untag", "end"}
Steps == {"idle", "own1", "own2", "pick", "claim", "count"} \union Held
Copying == {"key", "value", "check"}
Holds(m, p) == op[m].at \in Held /\ op[m].place = p

\* An insertion has begun to rewrite the slot
Dirty(p) ==
  \E m \in Mutators : /\ op[m].place = p /\ op[m].kind = "insert"
                      /\ op[m].at \in {"tag", "end"} \/ (op[m].at = "value" /\ op[m].goal # "own")
Occupies(k, p) == slot[p].tag # 0 /\ slot[p].key = k

SlotType == [tag : {0, 1}, seq : Int, key : Keys \union {None}, val : Nat, height : Heights \union {0}]
OpType == [at : Steps, kind : {"insert", "spend"}, key : Keys \union {None}, val : Nat, height : Heights \union {0},
           old : Heights \union {0}, place : Places \union {<<0, 0>>}, goal : {"own", "free", "victim"}]
RdType == [at : {"idle", "word", "slot", "hit"} \union Copying, key : Keys \union {None}, todo : SUBSET Places,
           pass : Int, place : Places \union {<<0, 0>>}, seq : Int, gotKey : Keys \union {None}, gotVal : Nat,
           during : SUBSET Nat]

Types ==
  /\ slot \in [Places -> SlotType] /\ op \in [Mutators -> OpType] /\ rd \in [Readers -> RdType]
  /\ ops \in Nat /\ value \in [Keys -> Nat]
  /\ owner # Idle => Quiet

\* The claim: the sequence is odd while a mutator holds the slot, and one holds it
Locks ==
  /\ \A p \in Places : slot[p].seq % 2 = 1 <=> \E m \in Mutators : Holds(m, p)
  /\ \A m, n \in Mutators : \A p \in Places : Holds(m, p) /\ Holds(n, p) => m = n

\* What a mutator knows of its key and of its slot
Known(m) ==
  LET o == op[m] IN
  o.at # "idle" =>
    /\ o.key \in Keys /\ Owner[o.key] = m /\ o.val # 0
    /\ o.at \in Held \union {"claim"} => o.place \in Places /\ o.place[1] \in {B1[o.key], B2[o.key]}
    /\ o.kind = "spend" => o.at \notin {"pick", "key", "value", "tag"}
    /\ o.kind = "spend" /\ o.at \in Held \union {"claim"} => o.goal = "own"
    /\ o.at = "own2" => \A p \in Places : Occupies(o.key, p) => p[1] # B1[o.key]
    /\ o.at = "pick" \/ (o.at \in {"claim", "verify", "key"} /\ o.goal # "own") =>
         \A p \in Places : ~Occupies(o.key, p)
    /\ o.at \in {"key", "tag"} => o.goal # "own"
    /\ o.at = "untag" => o.kind = "spend" /\ Occupies(o.key, o.place)
    /\ o.at \in {"value", "tag"} => slot[o.place].key = o.key
    /\ o.at = "value" /\ o.goal = "own" => Occupies(o.key, o.place)
    /\ o.at = "tag" => slot[o.place].val = o.val
    /\ o.at \in {"value", "tag"} => \A p \in Places : Occupies(o.key, p) => p = o.place
    /\ o.at = "end" /\ o.kind = "insert" => Occupies(o.key, o.place) /\ slot[o.place].val = o.val
    /\ o.at = "end" /\ o.kind = "spend" => \A p \in Places : ~Occupies(o.key, p)

Knows == \A m \in Mutators : Known(m)

\* A key has one slot, in one of its buckets
Unique ==
  /\ \A p \in Places : slot[p].tag # 0 =>
       slot[p].key \in Keys /\ p[1] \in {B1[slot[p].key], B2[slot[p].key]}
  /\ \A p, q \in Places : \A k \in Keys : Occupies(k, p) /\ Occupies(k, q) => p = q

\* An occupied slot that nobody is rewriting maps its key to its value
Mapped == \A p \in Places : slot[p].tag # 0 /\ ~Dirty(p) => value[slot[p].key] = slot[p].val /\ slot[p].val # 0

\* What a reader x may find in the slots it still has to look at
SeenBy(x) ==
  x.at # "idle" =>
    /\ x.key \in Keys /\ value[x.key] \in x.during
    /\ \A p \in x.todo : slot[p].key = x.key /\ ~Dirty(p) => slot[p].val \in x.during \ {0}

\* Nothing was written in the slot since the reader loaded its sequence
Intact(x) ==
  \/ slot[x.place].seq = x.seq
  \/ slot[x.place].seq = x.seq + 1 /\ \E m \in Mutators : op[m].at = "verify" /\ op[m].place = x.place

CopiedBy(x) ==
  x.at \in Copying =>
    /\ x.place \in x.todo /\ x.seq % 2 = 0 /\ x.seq <= slot[x.place].seq
    /\ Intact(x) => /\ x.at \in {"value", "check"} => x.gotKey = slot[x.place].key
                    /\ x.at = "check" => x.gotVal = slot[x.place].val

Exact(x) == x.at = "hit" => x.gotVal \in x.during /\ x.gotVal # 0

Reading == \A r \in Readers : SeenBy(rd[r]) /\ CopiedBy(rd[r]) /\ Exact(rd[r])

IInv == Types /\ Locks /\ Knows /\ Unique /\ Mapped /\ Reading

-----------------------------------------------------------------------------
(***************************************************************************)
(* Readers                                                                 *)
(***************************************************************************)

\* A step of a reader leaves the table alone.
LEMMA ReaderStep ==
  ASSUME IInv, NEW r \in Readers, NEW x \in RdType, rd' = [rd EXCEPT ![r] = x],
         UNCHANGED <<slot, op, value, owner, ops>>,
         SeenBy(x), CopiedBy(x), Exact(x)
  PROVE  IInv'
<1>1. Types'
  <2>1. rd' \in [Readers -> RdType]
    BY DEF IInv, Types
  <2> QED
    BY <2>1 DEF IInv, Types, Quiet
<1>2. Locks'
  BY ZenonT(30) DEF IInv, Locks, Holds
<1>3. Knows'
  BY DEF IInv, Knows, Known, Occupies
<1>4. Unique'
  BY DEF IInv, Unique, Occupies
<1>5. Mapped'
  BY DEF IInv, Mapped, Dirty
<1>6. ASSUME NEW s \in Readers
      PROVE  SeenBy(rd[s])' /\ CopiedBy(rd[s])' /\ Exact(rd[s])'
  <2>1. rd'[s] = x \/ rd'[s] = rd[s]
    BY DEF IInv, Types
  <2>2. SeenBy(rd[s]) /\ CopiedBy(rd[s]) /\ Exact(rd[s])
    BY DEF IInv, Reading
  <2>3. CASE rd'[s] = x
    BY <2>3 DEF SeenBy, CopiedBy, Exact, Intact, Dirty
  <2>4. CASE rd'[s] = rd[s]
    BY <2>2, <2>4 DEF SeenBy, CopiedBy, Exact, Intact, Dirty
  <2> QED
    BY <2>1, <2>3, <2>4
<1> QED
  BY <1>1, <1>2, <1>3, <1>4, <1>5, <1>6 DEF IInv, Reading

\* The reader takes up the tagged slots S of the next bucket.
LEMMA NextBucket ==
  ASSUME NEW y \in RdType, NEW S \in SUBSET Places
  PROVE  LET x == [y EXCEPT !.at = "slot", !.pass = @ + 1, !.todo = S] IN x.at = "slot" /\ x \in RdType
<1> DEFINE n == y.pass + 1
           x == [y EXCEPT !.at = "slot", !.pass = n, !.todo = S]
<1>1. n \in Int
  BY DEF RdType
<1> HIDE DEF n
<1>2. x.at = "slot" /\ x \in RdType
  BY <1>1, ZenonT(30) DEF RdType
<1> QED
  BY <1>2 DEF n

\* Every step of a reader.
LEMMA ReaderMoves ==
  ASSUME CacheAssumption, IInv, NEW r \in Readers,
         \/ \E k \in Keys : Lookup(r, k)
         \/ LoadWord(r) \/ LoadSeq(r) \/ CopyKey(r) \/ CopyValue(r) \/ Check(r) \/ Leave(r)
  PROVE  IInv'
<1>1. /\ rd \in [Readers -> RdType] /\ rd[r] \in RdType
      /\ SeenBy(rd[r]) /\ CopiedBy(rd[r]) /\ Exact(rd[r])
  BY DEF IInv, Types, Reading
<1>2. IdleRd \in RdType /\ SeenBy(IdleRd) /\ CopiedBy(IdleRd) /\ Exact(IdleRd)
  BY DEF IdleRd, RdType, SeenBy, CopiedBy, Exact, Copying
<1>3. ASSUME NEW k \in Keys, Lookup(r, k)
      PROVE  IInv'
  <2> DEFINE x == [IdleRd EXCEPT !.at = "word", !.key = k, !.during = {value[k]}]
  <2>1. rd' = [rd EXCEPT ![r] = x] /\ UNCHANGED <<slot, op, value, owner, ops>>
    BY <1>3, ZenonT(30) DEF Lookup
  <2>2. {value[k]} \in SUBSET Nat
    BY DEF IInv, Types
  <2>3. x \in RdType
    BY <1>2, <2>2, ZenonT(30) DEF RdType
  <2>4. x.at = "word" /\ x.key = k /\ x.during = {value[k]} /\ x.todo = {}
    BY DEF IdleRd
  <2> HIDE DEF x
  <2>5. SeenBy(x) /\ CopiedBy(x) /\ Exact(x)
    BY <2>4 DEF SeenBy, CopiedBy, Exact, Copying
  <2> QED
    BY <2>1, <2>3, <2>5, ReaderStep, Zenon
<1>4. CASE LoadWord(r)
  <2> DEFINE k == rd[r].key
             b == IF rd[r].pass = 1 THEN B1[k] ELSE B2[k]
             S == {p \in {b} \X Slots : slot[p].tag # 0}
             x == [rd[r] EXCEPT !.at = "slot", !.pass = @ + 1, !.todo = S]
  <2>1. (rd' = [rd EXCEPT ![r] = IdleRd] \/ rd' = [rd EXCEPT ![r] = x])
        /\ rd[r].at = "word" /\ UNCHANGED <<slot, op, value, owner, ops>>
    BY <1>1, <1>4, ZenonT(30) DEF LoadWord
  <2>2. k \in Keys /\ value[k] \in rd[r].during /\ b \in Buckets
    BY <1>1, <2>1 DEF SeenBy, CacheAssumption
  <2>3. x \in RdType /\ CopiedBy(x) /\ Exact(x)
    <3>1. S \in SUBSET Places
      BY <2>2 DEF Places
    <3> HIDE DEF S
    <3>2. x.at = "slot" /\ x \in RdType
      BY <1>1, <3>1, NextBucket, Zenon
    <3> QED
      BY <3>2 DEF CopiedBy, Exact, Copying
  <2>4. SeenBy(x)
    <3>1. x.key = k /\ x.during = rd[r].during /\ \A p \in x.todo : p \in Places /\ slot[p].tag # 0
      BY <1>1, <2>2 DEF RdType, Places
    <3>2. ASSUME NEW p \in x.todo, slot[p].key = k, ~Dirty(p)
          PROVE  slot[p].val \in rd[r].during \ {0}
      <4>1. value[slot[p].key] = slot[p].val /\ slot[p].val # 0
        BY <3>1, <3>2 DEF IInv, Mapped
      <4> QED
        BY <2>2, <3>2, <4>1
    <3> HIDE DEF x, k
    <3> QED
      BY <2>2, <3>1, <3>2 DEF SeenBy
  <2> HIDE DEF x
  <2> QED
    BY <1>2, <2>1, <2>3, <2>4, ReaderStep, Zenon
<1>5. CASE LoadSeq(r)
  <2>1. CASE rd[r].todo = {} /\ rd' = [rd EXCEPT ![r].at = "word"]
    <3> DEFINE x == [rd[r] EXCEPT !.at = "word"]
    <3>1. rd' = [rd EXCEPT ![r] = x] /\ UNCHANGED <<slot, op, value, owner, ops>>
      BY <1>5, <2>1, ZenonT(30) DEF LoadSeq
    <3>2. x \in RdType /\ SeenBy(x) /\ CopiedBy(x) /\ Exact(x)
      BY <1>1, <1>5, ZenonT(30) DEF LoadSeq, RdType, SeenBy, CopiedBy, Exact, Copying
    <3> HIDE DEF x
    <3> QED
      BY <3>1, <3>2, ReaderStep, Zenon
  <2>2. ASSUME NEW p \in rd[r].todo,
               rd' = [rd EXCEPT ![r] = IF slot[p].seq % 2 = 1 THEN Skip(r, p)
                                       ELSE [@ EXCEPT !.at = "key", !.place = p, !.seq = slot[p].seq]]
        PROVE  IInv'
    <3> DEFINE x == [rd[r] EXCEPT !.at = "key", !.place = p, !.seq = slot[p].seq]
    <3>1. /\ rd' = [rd EXCEPT ![r] = IF slot[p].seq % 2 = 1 THEN Skip(r, p) ELSE x]
          /\ UNCHANGED <<slot, op, value, owner, ops>> /\ rd[r].at = "slot"
      BY <1>1, <1>5, <2>2, ZenonT(30) DEF LoadSeq
    <3>2. Skip(r, p) \in RdType /\ SeenBy(Skip(r, p)) /\ CopiedBy(Skip(r, p)) /\ Exact(Skip(r, p))
      BY <1>1, <3>1, ZenonT(30) DEF Skip, RdType, SeenBy, CopiedBy, Exact, Copying
    <3>3. p \in Places /\ slot[p].seq \in Int
      BY <1>1 DEF RdType, IInv, Types, SlotType
    <3>4. x \in RdType /\ Exact(x) /\ SeenBy(x)
      BY <1>1, <3>1, <3>3, ZenonT(30) DEF RdType, SeenBy, Exact, Copying
    <3>5. slot[p].seq % 2 # 1 => CopiedBy(x)
      <4>1. slot[p].seq % 2 # 1 => slot[p].seq % 2 = 0
        BY <3>3
      <4>2. /\ x.at = "key" /\ x.place = p /\ x.todo = rd[r].todo /\ x.seq = slot[p].seq
        BY <1>1 DEF RdType
      <4> HIDE DEF x
      <4> QED
        BY <3>3, <4>1, <4>2 DEF CopiedBy
    <3> HIDE DEF x
    <3> QED
      BY <3>1, <3>2, <3>4, <3>5, ReaderStep, Zenon
  <2> QED
    BY <1>5, <2>1, <2>2, ZenonT(30) DEF LoadSeq
<1>6. CASE CopyKey(r)
  <2> DEFINE p == rd[r].place
             x == [rd[r] EXCEPT !.at = "value", !.gotKey = slot[p].key]
  <2>1. rd' = [rd EXCEPT ![r] = x] /\ UNCHANGED <<slot, op, value, owner, ops>> /\ rd[r].at = "key"
    BY <1>1, <1>6, ZenonT(30) DEF CopyKey
  <2>2. p \in rd[r].todo /\ p \in Places /\ slot[p] \in SlotType
    BY <1>1, <2>1 DEF CopiedBy, Copying, RdType, IInv, Types
  <2>3. x \in RdType /\ SeenBy(x) /\ Exact(x)
    BY <1>1, <2>1, <2>2, ZenonT(30) DEF RdType, SlotType, SeenBy, Exact, Copying
  <2>4. CopiedBy(x)
    BY <1>1, <2>1, <2>2 DEF CopiedBy, Copying, RdType
  <2> HIDE DEF x
  <2> QED
    BY <2>1, <2>3, <2>4, ReaderStep, Zenon
<1>7. CASE CopyValue(r)
  <2> DEFINE p == rd[r].place
             x == [rd[r] EXCEPT !.at = "check", !.gotVal = slot[p].val]
  <2>1. rd' = [rd EXCEPT ![r] = x] /\ UNCHANGED <<slot, op, value, owner, ops>> /\ rd[r].at = "value"
    BY <1>1, <1>7, ZenonT(30) DEF CopyValue
  <2>2. p \in rd[r].todo /\ p \in Places /\ slot[p] \in SlotType
    BY <1>1, <2>1 DEF CopiedBy, Copying, RdType, IInv, Types
  <2>3. x \in RdType /\ SeenBy(x) /\ Exact(x)
    BY <1>1, <2>1, <2>2, ZenonT(30) DEF RdType, SlotType, SeenBy, Exact, Copying
  <2>4. CopiedBy(x)
    BY <1>1, <2>1, <2>2 DEF CopiedBy, Copying, RdType, Intact
  <2> HIDE DEF x
  <2> QED
    BY <2>1, <2>3, <2>4, ReaderStep, Zenon
<1>8. CASE Check(r)
  <2> DEFINE p == rd[r].place
             x == [rd[r] EXCEPT !.at = "hit"]
  <2>1. /\ rd' = [rd EXCEPT ![r] = IF slot[p].seq # rd[r].seq \/ rd[r].gotKey # rd[r].key THEN Skip(r, p) ELSE x]
        /\ UNCHANGED <<slot, op, value, owner, ops>> /\ rd[r].at = "check"
    BY <1>1, <1>8 DEF Check
  <2>2. p \in rd[r].todo /\ p \in Places /\ slot[p] \in SlotType
    BY <1>1, <2>1 DEF CopiedBy, Copying, RdType, IInv, Types
  <2>3. Skip(r, p) \in RdType /\ SeenBy(Skip(r, p)) /\ CopiedBy(Skip(r, p)) /\ Exact(Skip(r, p))
    BY <1>1, <2>1, ZenonT(30) DEF Skip, RdType, SeenBy, CopiedBy, Exact, Copying
  <2>4. x \in RdType /\ SeenBy(x) /\ CopiedBy(x)
    BY <1>1, <2>1 DEF RdType, SeenBy, CopiedBy, Copying
  <2>5. ASSUME slot[p].seq = rd[r].seq, rd[r].gotKey = rd[r].key
        PROVE  Exact(x)
    <3>1. rd[r].seq % 2 = 0 /\ rd[r].gotKey = slot[p].key /\ rd[r].gotVal = slot[p].val
      BY <1>1, <2>1, <2>5 DEF CopiedBy, Copying, Intact
    <3>2. slot[p].seq % 2 # 1
      BY <2>5, <3>1
    <3>3. \A m \in Mutators : ~Holds(m, p)
      BY <2>2, <3>2 DEF IInv, Locks
    <3>4. ~Dirty(p)
      BY <3>3 DEF Dirty, Holds, Held
    <3>5. slot[p].val \in rd[r].during \ {0}
      BY <1>1, <2>1, <2>2, <2>5, <3>1, <3>4 DEF SeenBy
    <3> QED
      BY <1>1, <3>1, <3>5 DEF Exact, RdType
  <2> HIDE DEF x, p
  <2> QED
    BY <2>1, <2>3, <2>4, <2>5, ReaderStep, Zenon
<1>9. CASE Leave(r)
  <2>1. rd' = [rd EXCEPT ![r] = IdleRd] /\ UNCHANGED <<slot, op, value, owner, ops>>
    BY <1>9 DEF Leave
  <2> QED
    BY <1>2, <2>1, ReaderStep, Zenon
<1> QED
  BY <1>3, <1>4, <1>5, <1>6, <1>7, <1>8, <1>9

-----------------------------------------------------------------------------
(***************************************************************************)
(* Mutators                                                                *)
(***************************************************************************)

\* A mutator that holds no slot, before or after, changes nothing but its
\* own record: beginning, searching, picking, starting over, accounting.
LEMMA SearchStep ==
  ASSUME IInv, NEW m \in Mutators, NEW x \in OpType, op' = [op EXCEPT ![m] = x],
         UNCHANGED <<slot, rd, value, owner>>, ops' \in Nat, owner = Idle,
         op[m].at \notin Held, x.at \notin Held, Known(m)'
  PROVE  IInv'
<1>1. /\ op' \in [Mutators -> OpType] /\ op'[m] = x
      /\ \A n \in Mutators : n # m => op'[n] = op[n]
  BY DEF IInv, Types
<1>2. Types'
  BY <1>1 DEF IInv, Types
<1>3. \A n \in Mutators, p \in Places : Holds(n, p)' <=> Holds(n, p)
  BY <1>1 DEF Holds
<1>4. Locks'
  BY <1>3, ZenonT(30) DEF IInv, Locks
<1>5. ASSUME NEW n \in Mutators, n # m
      PROVE  Known(n)'
  <2>1. op'[n] = op[n] /\ Known(n)
    BY <1>1, <1>5 DEF IInv, Knows
  <2> QED
    BY <2>1 DEF Known, Occupies
<1>6. Knows'
  BY <1>5 DEF Knows
<1>7. Unique'
  BY DEF IInv, Unique, Occupies
<1>8. \A p : Dirty(p)' <=> Dirty(p)
  BY <1>1 DEF Dirty, Held
<1>9. Mapped'
  BY <1>8 DEF IInv, Mapped
<1>10. \A p : (\E n \in Mutators : op[n].at = "verify" /\ op[n].place = p)'
              <=> (\E n \in Mutators : op[n].at = "verify" /\ op[n].place = p)
  BY <1>1 DEF Held
<1>11. Reading'
  <2> SUFFICES ASSUME NEW r \in Readers
               PROVE  SeenBy(rd[r])' /\ CopiedBy(rd[r])' /\ Exact(rd[r])'
    BY DEF Reading
  <2>1. rd'[r] = rd[r] /\ SeenBy(rd[r]) /\ CopiedBy(rd[r]) /\ Exact(rd[r])
    BY DEF IInv, Reading
  <2>2. SeenBy(rd[r])'
    BY <1>8, <2>1 DEF SeenBy
  <2>3. CopiedBy(rd[r])'
    <3>1. Intact(rd[r])' => Intact(rd[r])
      <4>1. rd[r]' = rd[r]
        OBVIOUS
      <4> QED
        BY <1>10, <4>1 DEF Intact
    <3> QED
      BY <2>1, <3>1 DEF CopiedBy
  <2> QED
    BY <2>1, <2>2, <2>3 DEF Exact
<1> QED
  BY <1>2, <1>4, <1>6, <1>7, <1>9, <1>11 DEF IInv

\* The mutator m, at slot p, becomes x and makes the slot s: it holds the
\* slot, or it is claiming one that nobody holds.
Writes(m, p, x, s) ==
  /\ op[m].at \in Held \union {"claim"} /\ op[m].place = p /\ x.place = p
  /\ op' = [op EXCEPT ![m] = x] /\ slot' = [slot EXCEPT ![p] = s]
  /\ op[m].at \in Held \/ \A n \in Mutators : ~Holds(n, p)

\* What such a step leaves alone.
LEMMA Apart ==
  ASSUME IInv, NEW m \in Mutators, NEW p \in Places, NEW x \in OpType, NEW s \in SlotType, Writes(m, p, x, s)
  PROVE  /\ op' \in [Mutators -> OpType] /\ slot' \in [Places -> SlotType] /\ op'[m] = x /\ slot'[p] = s
         /\ \A n \in Mutators : n # m => op'[n] = op[n] /\ ~Holds(n, p)
         /\ \A q \in Places : q # p => slot'[q] = slot[q] /\ (Dirty(q)' <=> Dirty(q))
         /\ \A q \in Places, n \in Mutators : q # p => (Holds(n, q)' <=> Holds(n, q))
<1>1. op' \in [Mutators -> OpType] /\ op'[m] = x /\ \A n \in Mutators : n # m => op'[n] = op[n]
  BY DEF IInv, Types, Writes
<1>2. slot' \in [Places -> SlotType] /\ slot'[p] = s /\ \A q \in Places : q # p => slot'[q] = slot[q]
  BY DEF IInv, Types, Writes
<1>3. \A n \in Mutators : n # m => ~Holds(n, p)
  <2>1. CASE op[m].at \in Held
    BY <2>1 DEF IInv, Locks, Holds, Writes
  <2>2. CASE \A n \in Mutators : ~Holds(n, p)
    BY <2>2
  <2> QED
    BY <2>1, <2>2 DEF Writes
<1>4. \A q \in Places : q # p => (Dirty(q)' <=> Dirty(q))
  BY <1>1 DEF Dirty, Writes
<1>5. \A q \in Places, n \in Mutators : q # p => (Holds(n, q)' <=> Holds(n, q))
  BY <1>1 DEF Holds, Writes
<1> QED
  BY <1>1, <1>2, <1>3, <1>4, <1>5

\* It keeps the claim's parity and puts no key in the slot but its own, and
\* that one only where no other slot has it.
Lawful(m, p, x, s) ==
  /\ s.seq % 2 = 1 <=> x.at \in Held
  /\ s.tag # 0 => \/ slot[p].tag # 0 /\ s.key = slot[p].key
                  \/ s.key = op[m].key /\ \A q \in Places : Occupies(op[m].key, q) => q = p

\* It publishes nothing: the slot keeps key and value, or is being rewritten.
Discreet(p, s) ==
  \/ Dirty(p)'
  \/ /\ s.key = slot[p].key /\ s.val = slot[p].val /\ (s.tag # 0 => slot[p].tag # 0)
     /\ Dirty(p) => Dirty(p)'

\* The locks, what the mutators know and the one slot of a key survive a
\* lawful step.
LEMMA TableStep ==
  ASSUME CacheAssumption, IInv, NEW m \in Mutators, NEW p \in Places, NEW x \in OpType, NEW s \in SlotType,
         Writes(m, p, x, s), Lawful(m, p, x, s), Known(m)'
  PROVE  Locks' /\ Knows' /\ Unique'
<1>1. /\ op'[m] = x /\ slot'[p] = s
      /\ \A n \in Mutators : n # m => op'[n] = op[n] /\ ~Holds(n, p)
      /\ \A q \in Places : q # p => slot'[q] = slot[q]
      /\ \A q \in Places, n \in Mutators : q # p => (Holds(n, q)' <=> Holds(n, q))
  BY Apart
<1>0. /\ s.seq % 2 = 1 <=> x.at \in Held
      /\ s.tag # 0 => \/ slot[p].tag # 0 /\ s.key = slot[p].key
                      \/ s.key = op[m].key /\ \A q \in Places : Occupies(op[m].key, q) => q = p
  BY ZenonT(30) DEF Lawful
<1>2. op[m].key \in Keys /\ Owner[op[m].key] = m /\ p[1] \in {B1[op[m].key], B2[op[m].key]}
  BY ZenonT(30) DEF Writes, Held, IInv, Knows, Known
<1>3. Locks'
  <2>1. \A n \in Mutators : Holds(n, p)' <=> n = m /\ x.at \in Held
    BY <1>1 DEF Holds, Writes
  <2>2. ASSUME NEW q \in Places
        PROVE  (slot[q].seq % 2 = 1 <=> \E n \in Mutators : Holds(n, q))'
    <3>1. CASE q = p
      BY <1>0, <1>1, <2>1, <3>1
    <3>2. CASE q # p
      BY <1>1, <3>2 DEF IInv, Locks
    <3> QED
      BY <3>1, <3>2
  <2>3. ASSUME NEW n \in Mutators, NEW k \in Mutators, NEW q \in Places, (Holds(n, q) /\ Holds(k, q))'
        PROVE  n = k
    <3>1. CASE q = p
      BY <2>1, <2>3, <3>1
    <3>2. CASE q # p
      BY <1>1, <2>3, <3>2 DEF IInv, Locks
    <3> QED
      BY <3>1, <3>2
  <2> QED
    BY <2>2, <2>3, ZenonT(30) DEF Locks
<1>4. ASSUME NEW k \in Keys, NEW q \in Places, k # op[m].key, Occupies(k, q)'
      PROVE  Occupies(k, q)
  BY <1>0, <1>1, <1>4 DEF Occupies
<1>5. ASSUME NEW n \in Mutators, n # m
      PROVE  Known(n)'
  <2>1. op'[n] = op[n] /\ Known(n)
    BY <1>1, <1>5, ZenonT(30) DEF IInv, Knows
  <2>2. CASE op[n].at = "idle"
    BY <2>1, <2>2, ZenonT(30) DEF Known
  <2>3. CASE op[n].at # "idle"
    <3>1. op[n].key \in Keys /\ Owner[op[n].key] = n
      BY <2>1, <2>3, ZenonT(30) DEF Known
    <3>2. \A q \in Places : Occupies(op[n].key, q)' => Occupies(op[n].key, q)
      BY <1>2, <1>4, <1>5, <2>1, <3>1, ZenonT(30)
    <3>3. op[n].at \in Held => op[n].place \in Places /\ slot'[op[n].place] = slot[op[n].place]
      BY <1>1, <1>5, <2>1, <2>3, ZenonT(30) DEF Known, Holds
    <3> QED
      BY <2>1, <2>3, <3>1, <3>2, <3>3, ZenonT(30) DEF Known, Occupies, Held
  <2> QED
    BY <2>2, <2>3
<1>6. Knows'
  BY <1>5 DEF Knows
<1>7. Unique'
  <2>1. ASSUME NEW q \in Places, (slot[q].tag # 0)'
        PROVE  (slot[q].key \in Keys /\ q[1] \in {B1[slot[q].key], B2[slot[q].key]})'
    <3>1. CASE q = p /\ s.key = op[m].key
      BY <1>1, <1>2, <3>1
    <3>2. CASE slot[q].tag # 0 /\ slot'[q].key = slot[q].key
      BY <3>2 DEF IInv, Unique
    <3> QED
      BY <1>0, <1>1, <2>1, <3>1, <3>2
  <2>2. ASSUME NEW q \in Places, NEW k \in Keys, Occupies(k, q)'
        PROVE  Occupies(k, q) \/ (q = p /\ k = op[m].key /\ \A z \in Places : Occupies(k, z) => z = p)
    BY <1>0, <1>1, <2>2, ZenonT(30) DEF Occupies
  <2>3. ASSUME NEW q \in Places, NEW z \in Places, NEW k \in Keys, (Occupies(k, q) /\ Occupies(k, z))'
        PROVE  q = z
    BY <2>2, <2>3 DEF IInv, Unique
  <2> QED
    BY <2>1, <2>3, ZenonT(30) DEF Unique
<1> QED
  BY <1>3, <1>6, <1>7

\* A step of a mutator inside its claim, or at its edges, that publishes
\* nothing: the slot keeps key and value, or it is being rewritten.
LEMMA SlotStep ==
  ASSUME CacheAssumption, IInv, NEW m \in Mutators, NEW p \in Places, NEW x \in OpType, NEW s \in SlotType,
         Writes(m, p, x, s), Lawful(m, p, x, s), Known(m)', Discreet(p, s),
         UNCHANGED <<rd, value, owner, ops>>,
         \A y \in RdType : y.place = p /\ CopiedBy(y) => CopiedBy(y)'
  PROVE  IInv'
<1>1. /\ op' \in [Mutators -> OpType] /\ slot' \in [Places -> SlotType] /\ op'[m] = x /\ slot'[p] = s
      /\ \A n \in Mutators : n # m => op'[n] = op[n]
      /\ \A q \in Places : q # p => slot'[q] = slot[q] /\ (Dirty(q)' <=> Dirty(q))
  BY Apart
<1>2. Locks' /\ Knows' /\ Unique'
  BY TableStep
<1>3. Types'
  <2>1. owner = Idle
    BY ZenonT(30) DEF IInv, Types, Quiet, Writes, Held
  <2> QED
    BY <1>1, <2>1, ZenonT(30) DEF IInv, Types
<1>4. Mapped'
  <2> SUFFICES ASSUME NEW q \in Places, (slot[q].tag # 0 /\ ~Dirty(q))'
               PROVE  (value[slot[q].key] = slot[q].val /\ slot[q].val # 0)'
    BY ZenonT(30) DEF Mapped
  <2>1. slot[q].tag # 0 /\ ~Dirty(q) /\ slot'[q].key = slot[q].key /\ slot'[q].val = slot[q].val
    BY <1>1, ZenonT(30) DEF Discreet
  <2> QED
    BY <2>1, ZenonT(30) DEF IInv, Mapped
<1>5. Reading'
  <2> SUFFICES ASSUME NEW r \in Readers
               PROVE  SeenBy(rd[r])' /\ CopiedBy(rd[r])' /\ Exact(rd[r])'
    BY DEF Reading
  <2>1. rd[r]' = rd[r] /\ rd[r] \in RdType /\ SeenBy(rd[r]) /\ CopiedBy(rd[r]) /\ Exact(rd[r])
    BY ZenonT(30) DEF IInv, Reading, Types
  <2>2. SeenBy(rd[r])'
    <3>1. rd[r].todo \in SUBSET Places
      BY <2>1, ZenonT(30) DEF RdType
    <3>2. ASSUME NEW q \in rd[r].todo, ~Dirty(q)'
          PROVE  ~Dirty(q) /\ slot'[q].key = slot[q].key /\ slot'[q].val = slot[q].val
      BY <1>1, <3>1, <3>2 DEF Discreet
    <3> QED
      BY <2>1, <3>2, ZenonT(30) DEF SeenBy
  <2>3. CopiedBy(rd[r])'
    <3>1. CASE rd[r].place = p
      <4> DEFINE y == rd[r]
      <4>1. CopiedBy(y)'
        BY <2>1, <3>1, ZenonT(30)
      <4> QED
        BY <4>1
    <3>2. CASE rd[r].at \notin Copying
      BY <2>1, <3>2, ZenonT(30) DEF CopiedBy
    <3>3. CASE rd[r].at \in Copying /\ rd[r].place # p
      <4>1. rd[r].place \in Places
        BY <2>1, <3>3, ZenonT(30) DEF CopiedBy, RdType
      <4>2. slot'[rd[r].place] = slot[rd[r].place]
        BY <1>1, <3>3, <4>1, ZenonT(30)
      <4>3. Intact(rd[r])' => Intact(rd[r])
        BY <1>1, <2>1, <3>3, <4>2, ZenonT(30) DEF Intact, Writes
      <4> QED
        BY <2>1, <4>2, <4>3, ZenonT(30) DEF CopiedBy
    <3> QED
      BY <3>1, <3>2, <3>3
  <2> QED
    BY <2>1, <2>2, <2>3 DEF Exact
<1> QED
  BY <1>2, <1>3, <1>4, <1>5, ZenonT(30) DEF IInv

\* A reader that has loaded the sequence of the slot learns nothing wrong:
\* a claim and its withdrawal leave key and value alone, and every other
\* step of the holder is one after which the reader's check must fail.
LEMMA Spared ==
  ASSUME IInv, NEW m \in Mutators, NEW p \in Places, NEW x \in OpType, NEW s \in SlotType, Writes(m, p, x, s),
         NEW y \in RdType, y.place = p, CopiedBy(y),
         \/ s.seq \in {slot[p].seq, slot[p].seq + 1} /\ slot[p].seq % 2 = 1 /\ x.at # "verify"
         \/ s.seq = slot[p].seq + 1 /\ slot[p].seq % 2 = 0 /\ s.key = slot[p].key /\ s.val = slot[p].val
         \/ /\ s.seq = slot[p].seq - 1 /\ slot[p].seq % 2 = 1 /\ s.key = slot[p].key /\ s.val = slot[p].val
            /\ op[m].at = "verify" /\ x.at \notin Held
  PROVE  CopiedBy(y)'
<1> SUFFICES ASSUME y.at \in Copying
             PROVE  CopiedBy(y)'
  BY ZenonT(30) DEF CopiedBy
<1>1. slot'[p] = s /\ op'[m] = x /\ \A n \in Mutators : n # m => op'[n] = op[n] /\ ~Holds(n, p)
  BY Apart
<1>2. y.place \in y.todo /\ y.seq % 2 = 0 /\ y.seq <= slot[p].seq /\ y.seq \in Int /\ slot[p].seq \in Int
  BY DEF CopiedBy, RdType, IInv, Types, SlotType
<1>3. (\E n \in Mutators : op[n].at = "verify" /\ op[n].place = y.place)' => x.at = "verify"
  BY <1>1, ZenonT(30) DEF Holds, Held
<1>4. CASE s.seq \in {slot[p].seq, slot[p].seq + 1} /\ slot[p].seq % 2 = 1 /\ x.at # "verify"
  <2>1. s.seq # y.seq
    BY <1>2, <1>4
  <2>2. ~Intact(y)'
    BY <1>1, <1>3, <1>4, <2>1, ZenonT(30) DEF Intact
  <2>3. y.seq <= s.seq
    BY <1>2, <1>4
  <2> QED
    BY <1>1, <1>2, <2>2, <2>3, ZenonT(30) DEF CopiedBy
<1>5. CASE s.seq = slot[p].seq + 1 /\ slot[p].seq % 2 = 0 /\ s.key = slot[p].key /\ s.val = slot[p].val
  <2>1. s.seq # y.seq /\ y.seq <= s.seq /\ (s.seq = y.seq + 1 => slot[p].seq = y.seq)
    BY <1>2, <1>5
  <2>2. Intact(y)' => Intact(y)
    BY <1>1, <2>1, ZenonT(30) DEF Intact
  <2> QED
    BY <1>1, <1>2, <1>5, <2>1, <2>2, ZenonT(30) DEF CopiedBy
<1>6. CASE /\ s.seq = slot[p].seq - 1 /\ slot[p].seq % 2 = 1 /\ s.key = slot[p].key /\ s.val = slot[p].val
           /\ op[m].at = "verify" /\ x.at \notin Held
  <2>1. y.seq <= s.seq /\ (s.seq = y.seq => slot[p].seq = y.seq + 1)
    BY <1>2, <1>6
  <2>2. op[m].place = y.place /\ x.at # "verify"
    BY <1>6, ZenonT(30) DEF Writes, Held
  <2>3. Intact(y)' => Intact(y)
    BY <1>1, <1>3, <1>6, <2>1, <2>2, ZenonT(30) DEF Intact
  <2> QED
    BY <1>1, <1>2, <1>6, <2>1, <2>3 DEF CopiedBy
<1> QED
  BY <1>4, <1>5, <1>6, ZenonT(30)

\* A mutator that is at work keeps the owner out, and its record is typed.
LEMMA AtWork ==
  ASSUME IInv, NEW m \in Mutators, op[m].at # "idle"
  PROVE  /\ owner = Idle /\ op[m] \in OpType /\ Known(m) /\ ops \in Nat
         /\ op[m].key \in Keys /\ Owner[op[m].key] = m /\ op[m].val # 0
BY ZenonT(30) DEF IInv, Types, Quiet, Knows, Known

\* insertWith() or spend() begins.
LEMMA BeginKeeps ==
  ASSUME IInv, NEW m \in Mutators, NEW kind \in {"insert", "spend"}, NEW k \in Keys, NEW h \in Heights \union {0},
         Begin(m, kind, k, h)
  PROVE  IInv'
<1> DEFINE x == [IdleOp EXCEPT !.at = "own1", !.kind = kind, !.key = k, !.val = ops + 1, !.height = h]
<1>1. ops \in Nat /\ ops + 1 \in Nat /\ ops + 1 # 0
  BY DEF IInv, Types
<1>2. x \in OpType
  BY <1>1, ZenonT(30) DEF IdleOp, OpType, Steps, Held
<1>3. x.at = "own1" /\ x.key = k /\ x.val = ops + 1
  BY DEF IdleOp
<1>4. /\ op' = [op EXCEPT ![m] = x] /\ op[m].at = "idle" /\ Owner[k] = m /\ owner = Idle /\ ops' = ops + 1
      /\ UNCHANGED <<slot, rd, value, owner>>
  BY DEF Begin
<1> HIDE DEF x
<1>5. op'[m] = x
  BY <1>4 DEF IInv, Types
<1>6. Known(m)'
  BY <1>1, <1>3, <1>4, <1>5 DEF Known, Held
<1> QED
  BY <1>1, <1>2, <1>3, <1>4, <1>6, SearchStep, ZenonT(30) DEF Held

\* findOwn(): the slot of the key, or its absence from one bucket, then from
\* both.
LEMMA FindOwnKeeps ==
  ASSUME CacheAssumption, IInv, NEW m \in Mutators, FindOwn(m)
  PROVE  IInv'
<1> DEFINE o == op[m]
           b == IF o.at = "own1" THEN B1[o.key] ELSE B2[o.key]
           found == {i \in Slots : slot[b, i].tag # 0 /\ slot[b, i].key = o.key}
<1>1. o.at \in {"own1", "own2"} /\ UNCHANGED <<slot, rd, value, owner, ops>>
  BY ZenonT(30) DEF FindOwn
<1>2. /\ owner = Idle /\ o \in OpType /\ Known(m) /\ ops \in Nat
      /\ o.key \in Keys /\ Owner[o.key] = m /\ o.val # 0 /\ op \in [Mutators -> OpType]
  BY <1>1, AtWork DEF IInv, Types
<1>3. b \in Buckets /\ b \in {B1[o.key], B2[o.key]}
  BY <1>2 DEF CacheAssumption
<1>4. ASSUME NEW i \in found, op' = [op EXCEPT ![m] = [o EXCEPT !.at = "claim", !.place = <<b, i>>, !.goal = "own"]]
      PROVE  IInv'
  <2> DEFINE x == [o EXCEPT !.at = "claim", !.place = <<b, i>>, !.goal = "own"]
  <2>1. <<b, i>> \in Places /\ <<b, i>>[1] = b
    BY <1>3, ZenonT(30) DEF Places
  <2>2. /\ x \in OpType /\ x.at = "claim" /\ x.key = o.key /\ x.val = o.val /\ x.kind = o.kind
        /\ x.place \in Places /\ x.place[1] = b /\ x.goal = "own"
    BY <1>2, <2>1, ZenonT(30) DEF OpType, Steps
  <2> HIDE DEF x
  <2>3. op' = [op EXCEPT ![m] = x] /\ op'[m] = x
    BY <1>2, <1>4, ZenonT(30) DEF x
  <2>4. Known(m)'
    BY <1>2, <1>3, <2>2, <2>3, ZenonT(30) DEF Known, Held
  <2> QED
    BY <1>1, <1>2, <2>2, <2>3, <2>4, SearchStep, ZenonT(30) DEF Held
<1>5. ASSUME found = {},
             op' = [op EXCEPT ![m] = IF o.at = "own1" /\ B1[o.key] # B2[o.key] THEN [o EXCEPT !.at = "own2"]
                                     ELSE IF o.kind = "spend" THEN IdleOp
                                     ELSE [o EXCEPT !.at = "pick"]]
      PROVE  IInv'
  <2>1. \A p \in Places : Occupies(o.key, p) => p[1] # b
    <3> SUFFICES ASSUME NEW p \in Places, Occupies(o.key, p), p[1] = b
                 PROVE  FALSE
      OBVIOUS
    <3>1. p = <<b, p[2]>> /\ p[2] \in Slots
      BY DEF Places
    <3>2. p[2] \in found
      BY <3>1, Zenon DEF Occupies
    <3> QED
      BY <1>5, <3>2, ZenonT(30)
  <2>2. CASE o.at = "own1" /\ B1[o.key] # B2[o.key]
    <3> DEFINE x == [o EXCEPT !.at = "own2"]
    <3>1. x \in OpType /\ x.at = "own2" /\ x.key = o.key /\ x.val = o.val /\ x.kind = o.kind
      BY <1>2 DEF OpType, Steps
    <3> HIDE DEF x
    <3>2. op' = [op EXCEPT ![m] = x] /\ op'[m] = x
      BY <1>2, <1>5, <2>2, ZenonT(30) DEF x
    <3>3. Known(m)'
      BY <1>1, <1>2, <2>1, <2>2, <3>1, <3>2 DEF Known, Held, Occupies
    <3> QED
      BY <1>1, <1>2, <3>1, <3>2, <3>3, SearchStep, ZenonT(30) DEF Held
  <2>3. CASE ~(o.at = "own1" /\ B1[o.key] # B2[o.key]) /\ o.kind = "spend"
    <3>1. IdleOp \in OpType /\ IdleOp.at = "idle"
      BY DEF IdleOp, OpType, Steps
    <3>2. op' = [op EXCEPT ![m] = IdleOp] /\ op'[m] = IdleOp
      BY <1>2, <1>5, <2>3, ZenonT(30)
    <3>3. Known(m)'
      BY <3>1, <3>2, ZenonT(30) DEF Known
    <3> QED
      BY <1>1, <1>2, <3>1, <3>2, <3>3, SearchStep, ZenonT(30) DEF Held
  <2>4. CASE ~(o.at = "own1" /\ B1[o.key] # B2[o.key]) /\ o.kind # "spend"
    <3> DEFINE x == [o EXCEPT !.at = "pick"]
    <3>1. x \in OpType /\ x.at = "pick" /\ x.key = o.key /\ x.val = o.val /\ x.kind = o.kind
      BY <1>2 DEF OpType, Steps
    <3> HIDE DEF x
    <3>2. op' = [op EXCEPT ![m] = x] /\ op'[m] = x
      BY <1>2, <1>5, <2>4, ZenonT(30) DEF x
    <3>3. \A p \in Places : Occupies(o.key, p) => p[1] \in {B1[o.key], B2[o.key]}
      BY DEF IInv, Unique, Occupies
    <3>4. o.at = "own2" => \A p \in Places : Occupies(o.key, p) => p[1] # B1[o.key]
      BY <1>2 DEF Known
    <3>5. \A p \in Places : ~Occupies(o.key, p)
      BY <1>1, <2>1, <2>4, <3>3, <3>4, ZenonT(30)
    <3>6. Known(m)'
      BY <1>1, <1>2, <2>4, <3>1, <3>2, <3>5, ZenonT(30) DEF Known, Held, Occupies
    <3> QED
      BY <1>1, <1>2, <3>1, <3>2, <3>6, SearchStep, ZenonT(30) DEF Held
  <2> QED
    BY <1>5, <2>2, <2>3, <2>4, ZenonT(30)
<1> HIDE DEF found
<1>6. \/ \E i \in found : op' = [op EXCEPT ![m] = [o EXCEPT !.at = "claim", !.place = <<b, i>>, !.goal = "own"]]
      \/ /\ found = {}
         /\ op' = [op EXCEPT ![m] = IF o.at = "own1" /\ B1[o.key] # B2[o.key] THEN [o EXCEPT !.at = "own2"]
                                    ELSE IF o.kind = "spend" THEN IdleOp
                                    ELSE [o EXCEPT !.at = "pick"]]
  BY Zenon DEF FindOwn, found
<1> QED
  BY <1>4, <1>5, <1>6, Zenon

\* The insertion picks a slot of one of its two buckets.
LEMMA PickKeeps ==
  ASSUME CacheAssumption, IInv, NEW m \in Mutators, Pick(m)
  PROVE  IInv'
<1> DEFINE o == op[m]
<1>1. o.at = "pick" /\ UNCHANGED <<slot, rd, value, owner, ops>>
  BY ZenonT(30) DEF Pick
<1>2. /\ owner = Idle /\ o \in OpType /\ Known(m) /\ ops \in Nat
      /\ o.key \in Keys /\ Owner[o.key] = m /\ o.val # 0 /\ op \in [Mutators -> OpType]
  BY <1>1, AtWork DEF IInv, Types
<1>3. B1[o.key] \in Buckets /\ B2[o.key] \in Buckets
  BY <1>2 DEF CacheAssumption
<1>4. PICK goal \in {"free", "victim"}, p \in {B1[o.key], B2[o.key]} \X Slots :
        op' = [op EXCEPT ![m] = [o EXCEPT !.at = "claim", !.goal = goal, !.place = p]]
  <2> DEFINE b1 == B1[o.key]
             b2 == B2[o.key]
             free2 == IF b1 = b2 THEN 0 ELSE Cardinality(FreeIn(b2))
             b == IF Cardinality(FreeIn(b1)) >= free2 THEN b1 ELSE b2
             Chosen(goal, p) == op' = [op EXCEPT ![m] = [o EXCEPT !.at = "claim", !.goal = goal, !.place = p]]
  <2>1. \/ \E i \in FreeIn(b) : Chosen("free", <<b, i>>)
        \/ \E v \in {b1, b2} \X Slots : Chosen("victim", v)
    BY ZenonT(30) DEF Pick
  <2>2. b \in {b1, b2}
    OBVIOUS
  <2>3. \A i \in FreeIn(b) : <<b, i>> \in {b1, b2} \X Slots
    BY <2>2, ZenonT(30) DEF FreeIn
  <2> QED
    BY <2>1, <2>3, Zenon
<1> DEFINE x == [o EXCEPT !.at = "claim", !.goal = goal, !.place = p]
<1>5. p \in Places /\ p[1] \in {B1[o.key], B2[o.key]}
  BY <1>3 DEF Places
<1>6. /\ x \in OpType /\ x.at = "claim" /\ x.key = o.key /\ x.val = o.val /\ x.kind = o.kind
      /\ x.place = p /\ x.goal = goal
  BY <1>2, <1>5, ZenonT(30) DEF OpType, Steps
<1> HIDE DEF x
<1>7. op' = [op EXCEPT ![m] = x] /\ op'[m] = x
  BY <1>2, <1>4 DEF x
<1>8. o.kind # "spend" /\ \A q \in Places : ~Occupies(o.key, q)
  BY <1>1, <1>2 DEF Known
<1>9. Known(m)'
  BY <1>1, <1>2, <1>5, <1>6, <1>7, <1>8, ZenonT(30) DEF Known, Held, Occupies
<1> QED
  BY <1>1, <1>2, <1>6, <1>7, <1>9, SearchStep, ZenonT(30) DEF Held

\* The counters, after the slot.
LEMMA AccountKeeps ==
  ASSUME IInv, NEW m \in Mutators, Account(m)
  PROVE  IInv'
<1>1. op[m].at = "count" /\ op' = [op EXCEPT ![m] = IdleOp] /\ UNCHANGED <<slot, rd, owner, ops, value>>
  BY DEF Account
<1>2. owner = Idle /\ ops \in Nat /\ op \in [Mutators -> OpType]
  BY <1>1, AtWork DEF IInv, Types
<1>3. IdleOp \in OpType /\ IdleOp.at = "idle" /\ op'[m] = IdleOp
  BY <1>1, <1>2 DEF IdleOp, OpType, Steps
<1>4. Known(m)'
  BY <1>3 DEF Known
<1> QED
  BY <1>1, <1>2, <1>3, <1>4, SearchStep, ZenonT(30) DEF Held

\* A mutator that starts over.
LEMMA AgainKnown ==
  ASSUME NEW m \in Mutators, Known(m), op[m].at # "idle", NEW x, op'[m] = x, x.at = "own1", x.key = op[m].key, x.val = op[m].val
  PROVE  Known(m)'
BY ZenonT(30) DEF Known, Held

\* tryClaim().
LEMMA ClaimKeeps ==
  ASSUME CacheAssumption, IInv, NEW m \in Mutators, Claim(m)
  PROVE  IInv'
<1> DEFINE o == op[m]
           p == o.place
<1>1. o.at = "claim" /\ UNCHANGED <<rd, value, owner, ops>>
  BY ZenonT(30) DEF Claim
<1>2. /\ owner = Idle /\ o \in OpType /\ Known(m) /\ ops \in Nat
      /\ op \in [Mutators -> OpType] /\ slot \in [Places -> SlotType]
  BY <1>1, AtWork, ZenonT(30) DEF IInv, Types
<1>3. p \in Places /\ slot[p] \in SlotType /\ slot[p].seq \in Int
  BY <1>1, <1>2 DEF Known, SlotType
<1>4. CASE Concurrent /\ slot[p].seq % 2 = 1
  <2> DEFINE x == [o EXCEPT !.at = "own1"]
  <2>1. x \in OpType /\ x.at = "own1" /\ x.key = o.key /\ x.val = o.val
    BY <1>2 DEF OpType, Steps
  <2>2. op' = [op EXCEPT ![m] = x] /\ op'[m] = x /\ UNCHANGED slot
    BY <1>2, <1>4 DEF Claim
  <2> HIDE DEF x
  <2>3. Known(m)'
    BY <1>1, <1>2, <2>1, <2>2, AgainKnown
  <2> QED
    BY <1>1, <1>2, <2>1, <2>2, <2>3, SearchStep, ZenonT(30) DEF Held
<1>5. CASE ~(Concurrent /\ slot[p].seq % 2 = 1)
  <2> DEFINE x == [o EXCEPT !.at = "verify"]
             s == [slot[p] EXCEPT !.seq = @ + 1]
  <2>1. /\ x \in OpType /\ x.at = "verify" /\ x.key = o.key /\ x.val = o.val /\ x.kind = o.kind
        /\ x.place = p /\ x.goal = o.goal
    BY <1>2 DEF OpType, Steps, Held
  <2>2. slot[p].seq + 1 \in Int
    BY <1>3
  <2>3. /\ s \in SlotType /\ s.seq = slot[p].seq + 1 /\ s.key = slot[p].key /\ s.val = slot[p].val
        /\ s.tag = slot[p].tag
    BY <1>3, <2>2 DEF SlotType
  <2>4. op' = [op EXCEPT ![m] = x] /\ op'[m] = x /\ slot' = [slot EXCEPT ![p] = s] /\ slot'[p] = s
        /\ \A q \in Places : q # p => slot'[q] = slot[q]
    BY <1>2, <1>3, <1>5 DEF Claim
  <2> HIDE DEF x, s, p, o
  <2>5. \A n \in Mutators : ~Holds(n, p)
    <3>1. CASE slot[p].seq % 2 # 1
      BY <1>3, <3>1 DEF IInv, Locks
    <3>2. CASE ~Concurrent
      BY <1>1, <3>2 DEF Concurrent, Holds, Held, o
    <3> QED
      BY <1>5, <3>1, <3>2
  <2>6. slot[p].seq % 2 = 0 /\ s.seq % 2 = 1
    <3>1. slot[p].seq % 2 # 1
      BY <1>3, <2>5 DEF IInv, Locks
    <3> QED
      BY <1>3, <2>3, <3>1
  <2>7. Writes(m, p, x, s)
    BY <1>1, <2>1, <2>4, <2>5 DEF Writes, p, o
  <2>8. \A k, q : q \in Places => (Occupies(k, q)' <=> Occupies(k, q))
    BY <2>3, <2>4, ZenonT(30) DEF Occupies
  <2>9. Known(m)'
    BY <1>1, <1>2, <1>3, <2>1, <2>4, <2>8, ZenonT(30) DEF Known, Held, o, p
  <2>10. Dirty(p) => Dirty(p)'
    BY <2>5, ZenonT(30) DEF Dirty, Holds, Held
  <2>11. \A y \in RdType : y.place = p /\ CopiedBy(y) => CopiedBy(y)'
    BY <1>3, <2>1, <2>3, <2>6, <2>7, Spared, ZenonT(30)
  <2>12. Lawful(m, p, x, s) /\ Discreet(p, s)
    BY <2>1, <2>3, <2>6, <2>10, ZenonT(30) DEF Lawful, Discreet, Held
  <2> QED
    BY <1>1, <1>3, <2>1, <2>3, <2>7, <2>9, <2>11, <2>12, SlotStep, Zenon
<1> QED
  BY <1>4, <1>5

\* What a mutator finds while it holds a slot.
LEMMA InClaim ==
  ASSUME IInv, NEW m \in Mutators, op[m].at \in Held
  PROVE  /\ op[m].place \in Places /\ op[m].place[1] \in {B1[op[m].key], B2[op[m].key]}
         /\ slot[op[m].place] \in SlotType /\ slot[op[m].place].seq \in Int /\ slot[op[m].place].seq % 2 = 1
         /\ op[m].at # "idle" /\ op[m] \in OpType /\ Known(m) /\ op[m].key \in Keys /\ op[m].val # 0
         /\ Owner[op[m].key] = m
         /\ op \in [Mutators -> OpType] /\ slot \in [Places -> SlotType]
<1>1. op[m].at # "idle" /\ op \in [Mutators -> OpType] /\ slot \in [Places -> SlotType]
  BY DEF IInv, Types, Held
<1>2. op[m] \in OpType /\ Known(m) /\ op[m].key \in Keys /\ op[m].val # 0 /\ Owner[op[m].key] = m
  BY <1>1, AtWork, ZenonT(30)
<1>3. op[m].place \in Places /\ op[m].place[1] \in {B1[op[m].key], B2[op[m].key]}
  BY <1>1, <1>2, ZenonT(30) DEF Known
<1>4. slot[op[m].place].seq % 2 = 1
  BY <1>3 DEF IInv, Locks, Holds
<1>5. slot[op[m].place] \in SlotType /\ slot[op[m].place].seq \in Int
  BY <1>1, <1>3 DEF SlotType
<1> QED
  BY <1>1, <1>2, <1>3, <1>4, <1>5

\* A step inside the claim, past the verification.
LEMMA HeldStep ==
  ASSUME CacheAssumption, IInv, NEW m \in Mutators, NEW p \in Places, NEW x \in OpType, NEW s \in SlotType,
         op[m].at \in Held, op[m].place = p, x.at \in Held, x.at # "verify", x.place = p,
         op' = [op EXCEPT ![m] = x], slot' = [slot EXCEPT ![p] = s],
         s.seq = slot[p].seq, UNCHANGED <<rd, value, owner, ops>>, Known(m)',
         s.tag # 0 => \/ slot[p].tag # 0 /\ s.key = slot[p].key
                      \/ s.key = op[m].key /\ \A q \in Places : Occupies(op[m].key, q) => q = p,
         Discreet(p, s)
  PROVE  IInv'
<1>1. slot[p].seq % 2 = 1
  BY InClaim, ZenonT(30)
<1>2. Writes(m, p, x, s)
  BY ZenonT(30) DEF Writes
<1>3. Lawful(m, p, x, s)
  BY <1>1 DEF Lawful
<1>4. \A y \in RdType : y.place = p /\ CopiedBy(y) => CopiedBy(y)'
  <2>1. s.seq \in {slot[p].seq, slot[p].seq + 1}
    OBVIOUS
  <2> QED
    BY <1>1, <1>2, <2>1, Spared, Zenon
<1> QED
  BY <1>2, <1>3, <1>4, SlotStep, Zenon

\* The operation o and the slot p of a mutator that holds one.
Grasped(m, o, p) ==
  /\ o = op[m] /\ p = o.place /\ o.at \in Held /\ o.at # "idle"
  /\ p[1] \in {B1[o.key], B2[o.key]} /\ slot[p] \in SlotType /\ slot[p].seq \in Int /\ slot[p].seq % 2 = 1
  /\ o.key \in Keys /\ o.val # 0 /\ Owner[o.key] = m
  /\ Known(m) /\ op \in [Mutators -> OpType] /\ slot \in [Places -> SlotType]

\* A mutator between tryClaim() and writeEnd() has them.
LEMMA Grasp ==
  ASSUME IInv, NEW m \in Mutators, op[m].at \in Held
  PROVE  \E o \in OpType, p \in Places : Grasped(m, o, p)
BY InClaim, Zenon DEF Grasped

\* No other mutator rewrites the slot.
LEMMA Alone ==
  ASSUME IInv, NEW m \in Mutators, NEW o \in OpType, NEW p \in Places, Grasped(m, o, p),
         o.at \in {"verify", "key", "untag"} \/ o.kind = "spend"
  PROVE  ~Dirty(p)
<1>1. ASSUME NEW n \in Mutators, op[n].place = p, op[n].at \in Held
      PROVE  n = m
  BY <1>1 DEF IInv, Locks, Holds, Grasped
<1> QED
  BY <1>1, ZenonT(30) DEF Dirty, Held, Grasped

\* Under the claim the mutator looks again: it goes on, or withdraws.
LEMMA VerifyKeeps ==
  ASSUME CacheAssumption, IInv, NEW m \in Mutators, Verify(m)
  PROVE  IInv'
<1>1. op[m].at = "verify" /\ op[m].at \in Held /\ UNCHANGED <<rd, value, owner, ops>>
  BY DEF Verify, Held
<1>2. PICK o \in OpType, p \in Places : Grasped(m, o, p)
  BY <1>1, Grasp
<1>3. ~Dirty(p)
  BY <1>1, <1>2, Alone DEF Grasped
<1> DEFINE kept == CASE o.goal = "own" -> slot[p].tag # 0 /\ slot[p].key = o.key
                     [] o.goal = "free" -> slot[p].tag = 0
                     [] o.goal = "victim" -> TRUE
<1>4. CASE kept
  <2> DEFINE x == [o EXCEPT !.at = NextStep(o), !.old = slot[p].height]
  <2>1. NextStep(o) \in {"untag", "value", "key"} /\ slot[p].height \in Heights \union {0}
    BY <1>2 DEF NextStep, SlotType, Grasped
  <2>2. /\ x \in OpType /\ x.at = NextStep(o) /\ x.key = o.key /\ x.val = o.val /\ x.kind = o.kind
        /\ x.place = p /\ x.goal = o.goal
    BY <1>2, <2>1, ZenonT(30) DEF OpType, Steps, Held, Grasped
  <2>3. op' = [op EXCEPT ![m] = x] /\ op'[m] = x /\ slot' = slot /\ slot' = [slot EXCEPT ![p] = slot[p]]
    BY <1>2, <1>4, ZenonT(30) DEF Verify, Grasped
  <2>4. o.goal \in {"own", "free", "victim"} /\ o.kind \in {"insert", "spend"}
    BY DEF OpType
  <2>5. o.goal = "own" => Occupies(o.key, p)
    BY <1>4 DEF Occupies
  <2> HIDE DEF x, kept
  <2>6. \A q \in Places : Occupies(o.key, p) /\ Occupies(o.key, q) => q = p
    BY <1>2 DEF IInv, Unique, Grasped
  <2>7. /\ o.kind = "spend" => o.goal = "own"
        /\ o.goal # "own" => \A q \in Places : ~Occupies(o.key, q)
    BY <1>1, <1>2, ZenonT(30) DEF Known, Grasped
  <2>8. Known(m)'
    <3>1. CASE o.kind = "spend"
      BY <1>2, <2>2, <2>3, <2>5, <2>7, <3>1, ZenonT(30) DEF Known, NextStep, Occupies, Grasped
    <3>2. CASE o.kind # "spend" /\ o.goal = "own"
      BY <1>2, <2>2, <2>3, <2>5, <2>6, <3>2, ZenonT(30) DEF Known, NextStep, Occupies, Grasped
    <3>3. CASE o.kind # "spend" /\ o.goal # "own"
      BY <1>2, <2>2, <2>3, <2>7, <3>3, ZenonT(30) DEF Known, NextStep, Occupies, Grasped
    <3> QED
      BY <3>1, <3>2, <3>3, ZenonT(30)
  <2>9. Discreet(p, slot[p]) /\ x.at \in Held /\ x.at # "verify"
    BY <1>3, <2>1, <2>2, ZenonT(30) DEF Discreet, Held
  <2>10. op[m].place = p /\ slot[p] \in SlotType
    BY <1>2, ZenonT(30) DEF Grasped
  <2> QED
    BY <1>1, <2>2, <2>3, <2>8, <2>9, <2>10, HeldStep, Zenon
<1>5. CASE ~kept
  <2> DEFINE x == [o EXCEPT !.at = "own1"]
             s == [slot[p] EXCEPT !.seq = @ - 1]
  <2>1. x \in OpType /\ x.at = "own1" /\ x.key = o.key /\ x.val = o.val /\ x.place = p
    BY <1>2, ZenonT(30) DEF OpType, Steps, Grasped
  <2>2. slot[p].seq - 1 \in Int
    BY <1>2 DEF Grasped
  <2>3. /\ s \in SlotType /\ s.seq = slot[p].seq - 1 /\ s.key = slot[p].key /\ s.val = slot[p].val
        /\ s.tag = slot[p].tag
    BY <1>2, <2>2 DEF SlotType, Grasped
  <2>4. op' = [op EXCEPT ![m] = x] /\ op'[m] = x /\ slot' = [slot EXCEPT ![p] = s]
    BY <1>2, <1>5, ZenonT(30) DEF Verify, Grasped
  <2> HIDE DEF x, s, kept
  <2>5. slot[p].seq % 2 = 1 /\ s.seq % 2 = 0 /\ x.at \notin Held
    BY <1>2, <2>1, <2>3 DEF Held, Grasped
  <2>6. Writes(m, p, x, s)
    BY <1>1, <1>2, <2>1, <2>4 DEF Writes, Grasped
  <2>7. Known(m)'
    BY <1>2, <2>1, <2>4, AgainKnown, ZenonT(30) DEF Grasped
  <2>8. Lawful(m, p, x, s) /\ Discreet(p, s)
    BY <1>3, <2>3, <2>5 DEF Lawful, Discreet
  <2>9. \A y \in RdType : y.place = p /\ CopiedBy(y) => CopiedBy(y)'
    BY <1>1, <2>1, <2>3, <2>5, <2>6, Spared, Zenon
  <2> QED
    BY <1>1, <2>1, <2>3, <2>6, <2>7, <2>8, <2>9, SlotStep, Zenon
<1> QED
  BY <1>4, <1>5, ZenonT(30)

\* The key of an insertion in a slot that was free or another's.
LEMMA WriteKeyKeeps ==
  ASSUME CacheAssumption, IInv, NEW m \in Mutators, WriteKey(m)
  PROVE  IInv'
<1>1. op[m].at = "key" /\ op[m].at \in Held /\ UNCHANGED <<rd, value, owner, ops>>
  BY ZenonT(30) DEF WriteKey, Held
<1>2. PICK o \in OpType, p \in Places : Grasped(m, o, p)
  BY <1>1, Grasp
<1> DEFINE x == [o EXCEPT !.at = "value"]
           s == [slot[p] EXCEPT !.key = o.key]
<1>3. /\ x \in OpType /\ x.at = "value" /\ x.key = o.key /\ x.val = o.val /\ x.kind = o.kind
      /\ x.place = p /\ x.goal = o.goal
  BY <1>2 DEF OpType, Steps, Held, Grasped
<1>4. s \in SlotType /\ s.seq = slot[p].seq /\ s.key = o.key
  BY <1>2 DEF SlotType, Grasped
<1>5. op' = [op EXCEPT ![m] = x] /\ op'[m] = x /\ slot' = [slot EXCEPT ![p] = s]
  BY <1>2 DEF WriteKey, Grasped
<1> HIDE DEF x, s
<1>6. slot'[p] = s /\ \A q \in Places : q # p => slot'[q] = slot[q]
  BY <1>2, <1>5, ZenonT(30) DEF Grasped
<1>7. o.goal # "own" /\ o.kind = "insert" /\ \A q \in Places : ~Occupies(o.key, q)
  BY <1>1, <1>2, ZenonT(30) DEF Known, OpType, Grasped
<1>8. Known(m)'
  <2>1. \A q \in Places : Occupies(o.key, q)' => q = p
    BY <1>6, <1>7 DEF Occupies
  <2> QED
    BY <1>2, <1>3, <1>4, <1>5, <1>6, <1>7, <2>1, ZenonT(30) DEF Known, Grasped
<1>9. Discreet(p, s)
  BY <1>3, <1>5, <1>7, ZenonT(30) DEF Discreet, Dirty
<1>10. x.at \in Held /\ x.at # "verify" /\ op[m].place = p
  BY <1>2, <1>3, ZenonT(30) DEF Held, Grasped
<1>11. s.key = op[m].key /\ \A q \in Places : Occupies(op[m].key, q) => q = p
  BY <1>2, <1>4, <1>7, ZenonT(30) DEF Grasped
<1> QED
  BY <1>1, <1>3, <1>4, <1>5, <1>8, <1>9, <1>10, <1>11, HeldStep, Zenon

\* The value of an insertion, in the key's slot or in a new one.
LEMMA WriteValueKeeps ==
  ASSUME CacheAssumption, IInv, NEW m \in Mutators, WriteValue(m)
  PROVE  IInv'
<1>1. op[m].at = "value" /\ op[m].at \in Held /\ UNCHANGED <<rd, value, owner, ops>>
  BY DEF WriteValue, Held
<1>2. PICK o \in OpType, p \in Places : Grasped(m, o, p)
  BY <1>1, Grasp
<1> DEFINE at == IF o.goal = "own" THEN "end" ELSE "tag"
           x == [o EXCEPT !.at = at]
           s == [slot[p] EXCEPT !.val = o.val, !.height = o.height]
<1>3. /\ x \in OpType /\ x.at = at /\ x.key = o.key /\ x.val = o.val /\ x.kind = o.kind
      /\ x.place = p /\ x.goal = o.goal
  BY <1>2 DEF OpType, Steps, Held, Grasped
<1>4. s \in SlotType /\ s.seq = slot[p].seq /\ s.key = slot[p].key /\ s.val = o.val /\ s.tag = slot[p].tag
  BY <1>2, ZenonT(30) DEF SlotType, OpType, Grasped
<1>5. op' = [op EXCEPT ![m] = x] /\ op'[m] = x /\ slot' = [slot EXCEPT ![p] = s]
  BY <1>2, ZenonT(30) DEF WriteValue, Grasped
<1> HIDE DEF x, s
<1>6. slot'[p] = s /\ \A q \in Places : q # p => slot'[q] = slot[q]
  BY <1>2, <1>5 DEF Grasped
<1>7. /\ o.kind = "insert" /\ slot[p].key = o.key /\ (o.goal = "own" => Occupies(o.key, p))
      /\ \A q \in Places : Occupies(o.key, q) => q = p
  BY <1>1, <1>2, ZenonT(30) DEF Known, OpType, Grasped
<1>8. \A q \in Places : Occupies(o.key, q)' <=> Occupies(o.key, q)
  BY <1>4, <1>6 DEF Occupies
<1>9. at \in {"end", "tag"} /\ (at = "end" <=> o.goal = "own")
  BY ZenonT(30)
<1> HIDE DEF at
<1>10. Known(m)'
  BY <1>2, <1>3, <1>4, <1>5, <1>6, <1>7, <1>8, <1>9, ZenonT(30) DEF Known, Grasped
<1>11. Discreet(p, s)
  BY <1>3, <1>5, <1>7, <1>9, ZenonT(30) DEF Discreet, Dirty
<1>12. x.at \in Held /\ x.at # "verify" /\ op[m].place = p
  BY <1>2, <1>3, <1>9 DEF Held, Grasped
<1>13. s.tag # 0 => slot[p].tag # 0 /\ s.key = slot[p].key
  BY <1>4
<1> QED
  BY <1>1, <1>3, <1>4, <1>5, <1>10, <1>11, <1>12, <1>13, HeldStep, Zenon

\* The tag: the insertion appears, or the spent entry disappears.
LEMMA SetTagKeeps ==
  ASSUME CacheAssumption, IInv, NEW m \in Mutators, SetTag(m)
  PROVE  IInv'
<1>1. op[m].at \in {"tag", "untag"} /\ op[m].at \in Held /\ UNCHANGED <<rd, value, owner, ops>>
  BY DEF SetTag, Held
<1>2. PICK o \in OpType, p \in Places : Grasped(m, o, p)
  BY <1>1, Grasp
<1> DEFINE tag == IF o.at = "tag" THEN 1 ELSE 0
           x == [o EXCEPT !.at = "end"]
           s == [slot[p] EXCEPT !.tag = tag]
<1>3. /\ x \in OpType /\ x.at = "end" /\ x.key = o.key /\ x.val = o.val /\ x.kind = o.kind
      /\ x.place = p /\ x.goal = o.goal
  BY <1>2 DEF OpType, Steps, Held, Grasped
<1>4. s \in SlotType /\ s.seq = slot[p].seq /\ s.key = slot[p].key /\ s.val = slot[p].val /\ s.tag = tag
  BY <1>2 DEF SlotType, Grasped
<1>5. op' = [op EXCEPT ![m] = x] /\ op'[m] = x /\ slot' = [slot EXCEPT ![p] = s]
  BY <1>2, ZenonT(30) DEF SetTag, Grasped
<1> HIDE DEF x, s
<1>6. slot'[p] = s /\ \A q \in Places : q # p => slot'[q] = slot[q]
  BY <1>2, <1>5 DEF Grasped
<1>7. /\ o.at = "tag" => /\ o.kind = "insert" /\ slot[p].key = o.key /\ slot[p].val = o.val /\ o.goal # "own"
                         /\ \A q \in Places : Occupies(o.key, q) => q = p
      /\ o.at = "untag" => o.kind = "spend" /\ Occupies(o.key, p) /\ o.goal = "own"
  BY <1>1, <1>2, ZenonT(30) DEF Known, OpType, Grasped
<1>8. Occupies(o.key, p) => \A q \in Places : Occupies(o.key, q) => q = p
  BY <1>2, ZenonT(30) DEF IInv, Unique, Grasped
<1>9. op[m] = o /\ op[m].place = p /\ x.at \in Held /\ x.at # "verify"
  BY <1>2, <1>3 DEF Held, Grasped
<1>10. CASE o.at = "tag"
  <2>1. Occupies(o.key, p)' /\ slot'[p].val = o.val
    BY <1>4, <1>6, <1>7, <1>10 DEF Occupies
  <2>2. Known(m)'
    BY <1>2, <1>3, <1>5, <1>7, <1>10, <2>1, ZenonT(30) DEF Known, Grasped
  <2>3. Discreet(p, s)
    BY <1>3, <1>5, <1>7, <1>10, ZenonT(30) DEF Discreet, Dirty
  <2>4. s.key = op[m].key /\ \A q \in Places : Occupies(op[m].key, q) => q = p
    BY <1>4, <1>7, <1>9, <1>10
  <2> QED
    BY <1>1, <1>3, <1>4, <1>5, <1>9, <2>2, <2>3, <2>4, HeldStep, Zenon
<1>11. CASE o.at = "untag"
  <2>1. s.tag = 0
    BY <1>4, <1>11, ZenonT(30)
  <2>2. \A q \in Places : ~Occupies(o.key, q)'
    BY <1>6, <1>7, <1>8, <1>11, <2>1, ZenonT(30) DEF Occupies
  <2>3. Known(m)'
    BY <1>2, <1>3, <1>5, <1>7, <1>11, <2>2, ZenonT(30) DEF Known, Grasped
  <2>4. ~Dirty(p)
    BY <1>2, <1>11, Alone
  <2>5. Discreet(p, s)
    BY <1>4, <2>1, <2>4 DEF Discreet
  <2> QED
    BY <1>1, <1>3, <1>4, <1>5, <1>9, <2>1, <2>3, <2>5, HeldStep, Zenon
<1> QED
  BY <1>1, <1>9, <1>10, <1>11

\* What the readers may return grows by what their keys map to now.
LEMMA NowReaders ==
  ASSUME IInv, NEW v \in [Keys -> Nat], Now(v)
  PROVE  /\ rd' \in [Readers -> RdType] /\ value' = v
         /\ \A r \in Readers :
              /\ rd'[r].at = rd[r].at /\ rd'[r].key = rd[r].key /\ rd'[r].todo = rd[r].todo
              /\ rd'[r].place = rd[r].place /\ rd'[r].seq = rd[r].seq
              /\ rd'[r].gotKey = rd[r].gotKey /\ rd'[r].gotVal = rd[r].gotVal
              /\ rd[r].during \subseteq rd'[r].during
              /\ rd[r].at # "idle" => rd[r].key \in Keys /\ v[rd[r].key] \in rd'[r].during
<1>1. value' = v /\ rd' = [r \in Readers |-> IF rd[r].at = "idle" THEN rd[r]
                                             ELSE [rd[r] EXCEPT !.during = @ \union {v[rd[r].key]}]]
  BY DEF Now
<1>2. ASSUME NEW r \in Readers
      PROVE  /\ rd'[r] \in RdType
             /\ rd'[r].at = rd[r].at /\ rd'[r].key = rd[r].key /\ rd'[r].todo = rd[r].todo
             /\ rd'[r].place = rd[r].place /\ rd'[r].seq = rd[r].seq
             /\ rd'[r].gotKey = rd[r].gotKey /\ rd'[r].gotVal = rd[r].gotVal
             /\ rd[r].during \subseteq rd'[r].during
             /\ rd[r].at # "idle" => rd[r].key \in Keys /\ v[rd[r].key] \in rd'[r].during
  <2>1. rd[r] \in RdType /\ (rd[r].at # "idle" => rd[r].key \in Keys)
    BY ZenonT(30) DEF IInv, Types, Reading, SeenBy
  <2>2. CASE rd[r].at = "idle"
    BY <1>1, <2>1, <2>2
  <2>3. CASE rd[r].at # "idle"
    <3> DEFINE D == rd[r].during \union {v[rd[r].key]}
    <3>1. rd'[r] = [rd[r] EXCEPT !.during = D]
      BY <1>1, <2>3, ZenonT(30)
    <3>2. D \in SUBSET Nat /\ rd[r].during \subseteq D /\ v[rd[r].key] \in D
      BY <2>1, <2>3 DEF RdType
    <3> HIDE DEF D
    <3> QED
      BY <2>1, <3>1, <3>2 DEF RdType
  <2> QED
    BY <2>2, <2>3
<1>3. rd' \in [Readers -> RdType]
  <2>1. rd' = [r \in Readers |-> rd'[r]]
    BY <1>1, ZenonT(30)
  <2> QED
    BY <1>2, <2>1
<1> QED
  BY <1>1, <1>2, <1>3, ZenonT(30)

\* The readers, when mappings change.
LEMMA NowReading ==
  ASSUME IInv, NEW v \in [Keys -> Nat], Now(v),
         \A q \in Places : ~Dirty(q)' =>
           \/ ~Dirty(q) /\ slot'[q].key = slot[q].key /\ slot'[q].val = slot[q].val
           \/ slot'[q].val = v[slot'[q].key] /\ slot'[q].val # 0,
         \A y \in RdType : CopiedBy(y) => CopiedBy(y)'
  PROVE  Reading'
<1> SUFFICES ASSUME NEW r \in Readers
             PROVE  SeenBy(rd[r])' /\ CopiedBy(rd[r])' /\ Exact(rd[r])'
  BY ZenonT(30) DEF Reading
<1>1. /\ value' = v
      /\ rd'[r].at = rd[r].at /\ rd'[r].key = rd[r].key /\ rd'[r].todo = rd[r].todo
      /\ rd'[r].place = rd[r].place /\ rd'[r].seq = rd[r].seq
      /\ rd'[r].gotKey = rd[r].gotKey /\ rd'[r].gotVal = rd[r].gotVal
      /\ rd[r].during \subseteq rd'[r].during
      /\ rd[r].at # "idle" => rd[r].key \in Keys /\ v[rd[r].key] \in rd'[r].during
  BY NowReaders, Zenon
<1>2. rd[r] \in RdType /\ SeenBy(rd[r]) /\ CopiedBy(rd[r]) /\ Exact(rd[r]) /\ rd[r].todo \in SUBSET Places
  BY ZenonT(30) DEF IInv, Reading, Types, RdType
<1>3. SeenBy(rd[r])'
  <2>1. ASSUME rd[r].at # "idle", NEW q \in rd[r].todo, slot'[q].key = rd[r].key, ~Dirty(q)'
        PROVE  slot'[q].val \in rd'[r].during \ {0}
    <3>1. CASE ~Dirty(q) /\ slot'[q].key = slot[q].key /\ slot'[q].val = slot[q].val
      BY <1>1, <1>2, <2>1, <3>1, ZenonT(30) DEF SeenBy
    <3>2. CASE slot'[q].val = v[slot'[q].key] /\ slot'[q].val # 0
      BY <1>1, <2>1, <3>2, ZenonT(30)
    <3> QED
      BY <1>2, <2>1, <3>1, <3>2, ZenonT(30)
  <2> QED
    BY <1>1, <2>1, ZenonT(30) DEF SeenBy
<1>4. CopiedBy(rd[r])'
  <2>1. PICK y \in RdType : y = rd[r]
    BY <1>2, ZenonT(30)
  <2>2. CopiedBy(y)'
    BY <1>2, <2>1, ZenonT(30)
  <2>3. Intact(rd[r])' => Intact(y)'
    BY <1>1, <2>1 DEF Intact
  <2> QED
    BY <1>1, <2>1, <2>2, <2>3, ZenonT(30) DEF CopiedBy
<1> QED
  BY <1>1, <1>2, <1>3, <1>4, ZenonT(30) DEF Exact

\* writeEnd(): the insertion or the spending is published.
LEMMA WriteEndKeeps ==
  ASSUME CacheAssumption, IInv, NEW m \in Mutators, WriteEnd(m)
  PROVE  IInv'
<1>1. op[m].at = "end" /\ op[m].at \in Held /\ UNCHANGED <<owner, ops>>
  BY DEF WriteEnd, Held
<1>2. PICK o \in OpType, p \in Places : Grasped(m, o, p)
  BY <1>1, Grasp
<1> DEFINE x == [o EXCEPT !.at = "count"]
           s == [slot[p] EXCEPT !.seq = @ + 1]
           V(k) == IF k = o.key THEN (IF o.kind = "spend" THEN 0 ELSE o.val)
                   ELSE IF \E q \in Places : slot[q].tag # 0 /\ slot[q].key = k THEN value[k] ELSE 0
           v == [k \in Keys |-> V(k)]
<1>3. x \in OpType /\ x.at = "count" /\ x.key = o.key /\ x.val = o.val /\ x.kind = o.kind /\ x.place = p
  BY <1>2 DEF OpType, Steps, Grasped
<1>4. slot[p].seq + 1 \in Int
  BY <1>2 DEF Grasped
<1>5. /\ s \in SlotType /\ s.seq = slot[p].seq + 1 /\ s.key = slot[p].key /\ s.val = slot[p].val
      /\ s.tag = slot[p].tag
  BY <1>2, <1>4 DEF SlotType, Grasped
<1>6. op' = [op EXCEPT ![m] = x] /\ op'[m] = x /\ slot' = [slot EXCEPT ![p] = s]
  BY <1>2 DEF WriteEnd, Grasped
<1>7. Now(v)
  BY <1>2 DEF WriteEnd, Grasped
<1>8. v \in [Keys -> Nat]
  <2>1. \A k \in Keys : V(k) \in Nat
    BY ZenonT(30) DEF IInv, Types, OpType
  <2> HIDE DEF V
  <2> QED
    BY <2>1
<1>9. /\ o.kind = "insert" => Occupies(o.key, p) /\ slot[p].val = o.val
      /\ o.kind = "spend" => \A q \in Places : ~Occupies(o.key, q)
      /\ o.kind \in {"insert", "spend"} /\ o.key \in Keys /\ o.val # 0
  BY <1>1, <1>2, ZenonT(30) DEF Known, OpType, Grasped
<1>10. ASSUME NEW q \in Places, slot[q].tag # 0, slot[q].key # o.key
       PROVE  v[slot[q].key] = value[slot[q].key]
  BY <1>10, ZenonT(30) DEF IInv, Unique
<1>11. o.kind = "insert" => v[o.key] = o.val
  BY <1>9, ZenonT(30)
<1> HIDE DEF x, s, v
<1>12. slot[p].seq % 2 = 1 /\ s.seq % 2 = 0 /\ x.at \notin Held
  BY <1>2, <1>3, <1>5 DEF Held, Grasped
<1>13. Writes(m, p, x, s)
  BY <1>1, <1>2, <1>3, <1>6, ZenonT(30) DEF Writes, Grasped
<1>14. Known(m)'
  BY <1>2, <1>3, <1>6, ZenonT(30) DEF Known, Held, Grasped
<1>15. Locks' /\ Knows' /\ Unique'
  <2>1. Lawful(m, p, x, s)
    BY <1>5, <1>12 DEF Lawful
  <2> QED
    BY <1>3, <1>5, <1>13, <1>14, <2>1, TableStep, Zenon
<1>16. /\ op' \in [Mutators -> OpType] /\ slot' \in [Places -> SlotType] /\ slot'[p] = s
       /\ \A n \in Mutators : n # m => op'[n] = op[n] /\ ~Holds(n, p)
       /\ \A q \in Places : q # p => slot'[q] = slot[q] /\ (Dirty(q)' <=> Dirty(q))
  BY <1>3, <1>5, <1>13, Apart
<1>17. value' = v /\ rd' \in [Readers -> RdType]
  BY <1>7, <1>8, NowReaders, Zenon
<1>18. Types'
  <2>1. owner = Idle
    BY <1>1, AtWork, ZenonT(30) DEF Held
  <2> QED
    BY <1>1, <1>8, <1>16, <1>17, <2>1 DEF IInv, Types
<1>19. ASSUME NEW q \in Places, q # p, slot[q].tag # 0
       PROVE  slot[q].key # o.key
  BY <1>9, <1>19 DEF IInv, Unique, Occupies
<1>20. o.kind = "spend" => ~Dirty(p)
  BY <1>2, Alone
<1>21. Mapped'
  <2> SUFFICES ASSUME NEW q \in Places, (slot[q].tag # 0 /\ ~Dirty(q))'
               PROVE  (value[slot[q].key] = slot[q].val /\ slot[q].val # 0)'
    BY ZenonT(30) DEF Mapped
  <2>1. CASE q # p
    <3>1. slot'[q] = slot[q] /\ slot[q].tag # 0 /\ ~Dirty(q) /\ slot[q].key # o.key
      BY <1>16, <1>19, <2>1, ZenonT(30)
    <3>2. value[slot[q].key] = slot[q].val /\ slot[q].val # 0
      BY <3>1, ZenonT(30) DEF IInv, Mapped
    <3> QED
      BY <1>10, <1>17, <3>1, <3>2, ZenonT(30)
  <2>2. CASE q = p /\ o.kind = "insert"
    BY <1>5, <1>9, <1>11, <1>16, <1>17, <2>2, ZenonT(30) DEF Occupies
  <2>3. CASE q = p /\ o.kind = "spend"
    <3>1. slot[p].tag # 0 /\ slot[p].key # o.key
      BY <1>5, <1>9, <1>16, <2>3, ZenonT(30) DEF Occupies
    <3>2. value[slot[p].key] = slot[p].val /\ slot[p].val # 0
      BY <1>20, <2>3, <3>1, ZenonT(30) DEF IInv, Mapped
    <3> QED
      BY <1>5, <1>10, <1>16, <1>17, <2>3, <3>1, <3>2, ZenonT(30)
  <2> QED
    BY <1>9, <2>1, <2>2, <2>3, ZenonT(30)
<1>22. ASSUME NEW q \in Places, ~Dirty(q)'
       PROVE  \/ ~Dirty(q) /\ slot'[q].key = slot[q].key /\ slot'[q].val = slot[q].val
              \/ slot'[q].val = v[slot'[q].key] /\ slot'[q].val # 0
  <2>1. CASE q # p
    BY <1>16, <1>22, <2>1, ZenonT(30)
  <2>2. CASE q = p /\ o.kind = "insert"
    BY <1>5, <1>9, <1>11, <1>16, <2>2, ZenonT(30) DEF Occupies
  <2>3. CASE q = p /\ o.kind = "spend"
    BY <1>5, <1>16, <1>20, <2>3
  <2> QED
    BY <1>9, <2>1, <2>2, <2>3, ZenonT(30)
<1>23. ASSUME NEW y \in RdType, CopiedBy(y)
       PROVE  CopiedBy(y)'
  <2>1. CASE y.place = p
    <3>1. s.seq \in {slot[p].seq, slot[p].seq + 1} /\ x.at # "verify"
      BY <1>3, <1>5, ZenonT(30)
    <3> QED
      BY <1>3, <1>5, <1>12, <1>13, <1>23, <2>1, <3>1, Spared, Zenon
  <2>2. CASE y.at \notin Copying
    BY <2>2, ZenonT(30) DEF CopiedBy
  <2>3. CASE y.at \in Copying /\ y.place # p
    <3>1. y.place \in Places
      BY <1>23, <2>3, ZenonT(30) DEF CopiedBy, RdType
    <3>2. slot'[y.place] = slot[y.place]
      BY <1>16, <2>3, <3>1, ZenonT(30)
    <3>3. Intact(y)' => Intact(y)
      BY <1>3, <1>6, <1>16, <3>2 DEF Intact
    <3> QED
      BY <1>23, <3>2, <3>3, ZenonT(30) DEF CopiedBy
  <2> QED
    BY <2>1, <2>2, <2>3
<1>24. Reading'
  BY <1>7, <1>8, <1>22, <1>23, NowReading, Zenon
<1> QED
  BY <1>15, <1>18, <1>21, <1>24 DEF IInv

-----------------------------------------------------------------------------
(***************************************************************************)
(* The owner, between waves                                                *)
(***************************************************************************)

\* Between waves nobody holds a slot and no slot is being rewritten.
LEMMA Calm ==
  ASSUME Quiet
  PROVE  /\ \A m \in Mutators : op[m].at = "idle" /\ Known(m)
         /\ \A m \in Mutators, p \in Places : ~Holds(m, p)
         /\ \A p : ~Dirty(p)
         /\ \A p : ~\E m \in Mutators : op[m].at = "verify" /\ op[m].place = p
BY ZenonT(30) DEF Quiet, Known, Holds, Held, Dirty

\* maintain() before it sweeps: the floor and the turn of the owner.
LEMMA OwnerStep ==
  ASSUME IInv, Quiet, UNCHANGED <<slot, op, rd, ops, value>>
  PROVE  IInv'
<1>1. Types'
  BY DEF IInv, Types, Quiet
<1>2. Locks'
  BY ZenonT(30) DEF IInv, Locks, Holds
<1>3. ASSUME NEW m \in Mutators
      PROVE  Known(m)'
  <2>1. Known(m)
    BY DEF IInv, Knows
  <2> QED
    BY <2>1, ZenonT(30) DEF Known, Occupies
<1>4. Unique' /\ Mapped'
  BY ZenonT(30) DEF IInv, Unique, Mapped, Dirty, Occupies
<1>5. Reading'
  BY ZenonT(30) DEF IInv, Reading, SeenBy, CopiedBy, Intact, Exact, Dirty
<1> QED
  BY <1>1, <1>2, <1>3, <1>4, <1>5 DEF IInv, Knows

\* The places swept are emptied, their sequences stay even.
Sweeps(swept) ==
  /\ slot' = [p \in Places |-> IF p \in swept THEN [slot[p] EXCEPT !.tag = 0, !.seq = @ + 2] ELSE slot[p]]
  /\ Now([k \in Keys |-> IF \E p \in swept : slot[p].key = k THEN 0 ELSE value[k]])

\* A sweep of any set of places, under the readers' eyes.
LEMMA SweptTable ==
  ASSUME IInv, Quiet, UNCHANGED <<op, ops>>, NEW swept \in SUBSET Places, \A p \in swept : slot[p].tag # 0,
         Sweeps(swept)
  PROVE  IInv'
<1>0. Quiet'
  BY DEF Quiet
<1> DEFINE V(k) == IF \E p \in swept : slot[p].key = k THEN 0 ELSE value[k]
           v == [k \in Keys |-> V(k)]
<1>1. Now(v) /\ v \in [Keys -> Nat]
  <2>1. \A k \in Keys : V(k) \in Nat
    BY ZenonT(30) DEF IInv, Types
  <2>2. Now(v)
    BY ZenonT(30) DEF Sweeps
  <2> HIDE DEF V
  <2> QED
    BY <2>1, <2>2
<1>2. ASSUME NEW p \in Places
      PROVE  /\ slot'[p] \in SlotType /\ slot'[p].key = slot[p].key /\ slot'[p].val = slot[p].val
             /\ slot[p].seq \in Int /\ (slot'[p].seq = slot[p].seq \/ slot'[p].seq = slot[p].seq + 2)
             /\ (slot'[p].tag # 0 => slot[p].tag # 0 /\ p \notin swept)
  <2>1. slot[p] \in SlotType /\ slot[p].seq \in Int
    BY DEF IInv, Types, SlotType
  <2>2. CASE p \notin swept
    <3>1. slot'[p] = slot[p]
      BY <2>2, ZenonT(30) DEF Sweeps
    <3> QED
      BY <2>1, <2>2, <3>1, ZenonT(30)
  <2>3. CASE p \in swept
    <3>1. slot'[p] = [slot[p] EXCEPT !.tag = 0, !.seq = slot[p].seq + 2]
      BY <2>3, Zenon DEF Sweeps
    <3>2. slot[p].seq + 2 \in Int
      BY <2>1
    <3>3. /\ slot'[p] \in SlotType /\ slot'[p].key = slot[p].key /\ slot'[p].val = slot[p].val
          /\ slot'[p].tag = 0 /\ slot'[p].seq = slot[p].seq + 2
      <4>1. PICK s \in SlotType, n \in Int : s = slot[p] /\ n = slot[p].seq + 2
        BY <2>1, <3>2
      <4>2. slot'[p] = [s EXCEPT !.tag = 0, !.seq = n]
        BY <3>1, <4>1
      <4> DEFINE x == [s EXCEPT !.tag = 0, !.seq = n]
      <4>3. x \in SlotType /\ x.key = s.key /\ x.val = s.val /\ x.tag = 0 /\ x.seq = n
        BY ZenonT(30) DEF SlotType
      <4> HIDE DEF x
      <4>4. slot'[p] = x
        BY <4>2 DEF x
      <4> QED
        BY <4>1, <4>3, <4>4
    <3> QED
      BY <2>1, <3>3
  <2> QED
    BY <2>2, <2>3
<1>3. slot' \in [Places -> SlotType]
  <2>1. slot' = [p \in Places |-> slot'[p]]
    BY ZenonT(30) DEF Sweeps
  <2> QED
    BY <1>2, <2>1
<1>4. value' = v /\ rd' \in [Readers -> RdType]
  BY <1>1, NowReaders, Zenon
<1>5. Types'
  BY <1>0, <1>1, <1>3, <1>4, ZenonT(30) DEF IInv, Types
<1>6. Locks'
  <2>1. \A p \in Places : slot[p].seq % 2 # 1
    BY Calm DEF IInv, Locks
  <2>2. \A p \in Places : slot'[p].seq % 2 # 1
    BY <1>2, <2>1
  <2>3. \A m \in Mutators, p \in Places : ~Holds(m, p)'
    BY Calm, ZenonT(30) DEF Holds
  <2> QED
    BY <2>2, <2>3, ZenonT(30) DEF Locks
<1>7. Knows'
  BY ZenonT(30) DEF Quiet, Knows, Known
<1>8. Unique'
  <2>1. \A k, p : p \in Places /\ Occupies(k, p)' => Occupies(k, p)
    BY <1>2, ZenonT(30) DEF Occupies
  <2>2. \A p \in Places : slot'[p].tag # 0 => slot'[p].key \in Keys /\ p[1] \in {B1[slot'[p].key], B2[slot'[p].key]}
    BY <1>2, ZenonT(30) DEF IInv, Unique
  <2> QED
    BY <2>1, <2>2, ZenonT(30) DEF IInv, Unique
<1>9. \A p : ~Dirty(p) /\ ~Dirty(p)'
  BY Calm, ZenonT(30) DEF Dirty
<1>10. Mapped'
  <2> SUFFICES ASSUME NEW p \in Places, slot'[p].tag # 0
               PROVE  (value[slot[p].key] = slot[p].val /\ slot[p].val # 0)'
    BY ZenonT(30) DEF Mapped
  <2>1. slot[p].tag # 0 /\ p \notin swept /\ slot[p].key \in Keys
    BY <1>2, ZenonT(30) DEF IInv, Unique
  <2>2. value[slot[p].key] = slot[p].val /\ slot[p].val # 0
    BY <1>9, <2>1, ZenonT(30) DEF IInv, Mapped
  <2>3. ~\E q \in swept : slot[q].key = slot[p].key
    BY <2>1, ZenonT(30) DEF IInv, Unique, Occupies
  <2> QED
    BY <1>2, <1>4, <2>1, <2>2, <2>3, ZenonT(30)
<1>11. ASSUME NEW y \in RdType, CopiedBy(y)
       PROVE  CopiedBy(y)'
  <2> SUFFICES ASSUME y.at \in Copying
               PROVE  CopiedBy(y)'
    BY DEF CopiedBy
  <2>1. y.place \in Places /\ y.seq \in Int /\ y.seq <= slot[y.place].seq
    BY <1>11, ZenonT(30) DEF CopiedBy, RdType
  <2>2. y.seq <= slot'[y.place].seq /\ (slot'[y.place].seq = y.seq => slot[y.place].seq = y.seq)
    BY <1>2, <2>1
  <2>3. Intact(y)' => Intact(y)
    BY <2>2, Calm, ZenonT(30) DEF Intact
  <2> QED
    BY <1>2, <1>11, <2>1, <2>2, <2>3, ZenonT(30) DEF CopiedBy
<1>12. Reading'
  <2> HIDE DEF v
  <2> QED
    BY <1>1, <1>2, <1>9, <1>11, NowReading
<1> QED
  BY <1>5, <1>6, <1>7, <1>8, <1>10, <1>12 DEF IInv

\* sweepChunk(): condemned entries disappear.
LEMMA SweepKeeps ==
  ASSUME CacheAssumption, IInv, sweep \in Nat, Sweep
  PROVE  IInv' /\ sweep' \in Nat
<1> DEFINE N == Cardinality(Buckets)
           n == IF owner < SweepChunk THEN owner ELSE SweepChunk
           swept == {p \in SweepChunkOf(n) \X Slots : slot[p].tag # 0 /\ slot[p].height < floor}
<1>1. /\ owner \in Nat /\ UNCHANGED <<op, ops>>
      /\ sweep' = sweep \/ sweep' = ((sweep + n - 1) % N) + 1
      /\ UNCHANGED <<slot, rd, value>> \/ Sweeps(swept)
  BY Zenon DEF Sweep, Sweeps
<1> HIDE DEF swept
<1>2. owner \in Nat
  BY <1>1
<1>3. Quiet
  <2>1. owner # Idle
    BY <1>2 DEF Idle
  <2> QED
    BY <2>1 DEF IInv, Types
<1>4. N \in Nat \ {0} /\ Buckets = 1..N /\ n \in Nat
  BY <1>2 DEF CacheAssumption
<1>5. swept \in SUBSET Places /\ \A p \in swept : slot[p].tag # 0
  <2>1. \A i \in 0..n-1 : ((sweep + i - 1) % N) + 1 \in Buckets
    BY <1>4
  <2>2. SweepChunkOf(n) \in SUBSET Buckets
    BY <2>1 DEF SweepChunkOf
  <2> HIDE DEF n
  <2> QED
    BY <2>2 DEF Places, swept
<1>6. sweep' \in Nat
  <2>1. ((sweep + n - 1) % N) + 1 \in Nat
    BY <1>4
  <2> QED
    BY <1>1, <2>1, Zenon
<1>7. IInv'
  <2>1. CASE UNCHANGED <<slot, rd, value>>
    BY <1>1, <1>3, <2>1, OwnerStep, Zenon
  <2>2. CASE Sweeps(swept)
    BY <1>1, <1>3, <1>5, <2>2, SweptTable, Zenon
  <2> QED
    BY <1>1, <2>1, <2>2, Zenon
<1> QED
  BY <1>6, <1>7

\* The dump and its import pack every bucket; nothing else changes.
LEMMA ReloadKeeps ==
  ASSUME IInv, Reload
  PROVE  IInv' /\ sweep' \in Nat
<1>1. Quiet /\ UNCHANGED <<op, rd, owner, ops, value>> /\ sweep' = 1 /\ \A r \in Readers : rd[r].at = "idle"
  BY ZenonT(30) DEF Reload
<1> DEFINE At(p) == <<p[1], CHOOSE i \in Packed(p) : TRUE>>
<1>2. slot' = [p \in Places |-> IF Packed(p) = {} THEN Free ELSE [slot[At(p)] EXCEPT !.seq = 0]]
  BY ZenonT(30) DEF Reload
<1>3. ASSUME NEW p \in Places, Packed(p) # {}
      PROVE  At(p) \in Places /\ slot[At(p)].tag # 0 /\ At(p)[1] = p[1] /\ p = <<p[1], Rank(At(p)[1], At(p)[2])>>
  <2>1. (CHOOSE i \in Packed(p) : TRUE) \in Packed(p)
    BY <1>3
  <2>2. PICK j \in Packed(p) : j = CHOOSE i \in Packed(p) : TRUE
    BY <2>1
  <2>3. j \in Slots /\ slot[<<p[1], j>>].tag # 0 /\ Rank(p[1], j) = p[2]
    BY <2>2, ZenonT(30) DEF Packed
  <2>4. At(p) = <<p[1], j>> /\ p = <<p[1], p[2]>> /\ p[1] \in Buckets
    BY <2>2 DEF Places
  <2> HIDE DEF At
  <2> QED
    BY <2>3, <2>4 DEF Places
<1> HIDE DEF At
<1>4. ASSUME NEW p \in Places, NEW s \in SlotType
      PROVE  LET x == [s EXCEPT !.seq = 0] IN
               x \in SlotType /\ x.key = s.key /\ x.val = s.val /\ x.tag = s.tag /\ x.seq = 0
  BY DEF SlotType
<1>5. Free \in SlotType /\ Free.tag = 0 /\ Free.seq = 0
  BY DEF Free, SlotType
<1>6. ASSUME NEW p \in Places
      PROVE  /\ slot'[p] \in SlotType /\ slot'[p].seq = 0
             /\ slot'[p].tag # 0 => /\ Packed(p) # {}
                                    /\ slot'[p].key = slot[At(p)].key /\ slot'[p].val = slot[At(p)].val
  <2>1. CASE Packed(p) = {}
    <3>1. slot'[p] = Free
      BY <1>2, <2>1, Zenon
    <3> QED
      BY <1>5, <3>1
  <2>2. CASE Packed(p) # {}
    <3>1. slot'[p] = [slot[At(p)] EXCEPT !.seq = 0]
      BY <1>2, <2>2, Zenon
    <3>2. slot[At(p)] \in SlotType
      BY <1>3, <2>2 DEF IInv, Types
    <3> QED
      BY <1>4, <2>2, <3>1, <3>2
  <2> QED
    BY <2>1, <2>2
<1>7. Types'
  <2>1. slot' = [p \in Places |-> slot'[p]]
    BY <1>2, Zenon
  <2>2. slot' \in [Places -> SlotType]
    BY <1>6, <2>1
  <2> QED
    BY <1>1, <2>2 DEF IInv, Types, Quiet
<1>8. Locks'
  <2>1. \A m \in Mutators, p \in Places : ~Holds(m, p)'
    BY <1>1, Calm DEF Holds
  <2>2. \A p \in Places : slot'[p].seq % 2 # 1
    BY <1>6
  <2> QED
    BY <2>1, <2>2 DEF Locks
<1>9. Knows'
  BY <1>1, ZenonT(30) DEF Quiet, Knows, Known
<1>10. Unique'
  <2>1. ASSUME NEW p \in Places, slot'[p].tag # 0
        PROVE  slot'[p].key \in Keys /\ p[1] \in {B1[slot'[p].key], B2[slot'[p].key]}
    BY <1>3, <1>6, <2>1 DEF IInv, Unique
  <2>2. ASSUME NEW p \in Places, NEW q \in Places, NEW k \in Keys, Occupies(k, p)', Occupies(k, q)'
        PROVE  p = q
    <3>1. /\ At(p) \in Places /\ At(q) \in Places /\ Occupies(k, At(p)) /\ Occupies(k, At(q))
          /\ p = <<At(p)[1], Rank(At(p)[1], At(p)[2])>> /\ q = <<At(q)[1], Rank(At(q)[1], At(q)[2])>>
      BY <1>3, <1>6, <2>2, ZenonT(30) DEF Occupies
    <3>2. At(p) = At(q)
      BY <3>1, ZenonT(30) DEF IInv, Unique
    <3> QED
      BY <3>1, <3>2, Zenon
  <2> QED
    BY <2>1, <2>2, ZenonT(30) DEF Unique
<1>11. Mapped'
  <2> SUFFICES ASSUME NEW p \in Places, slot'[p].tag # 0
               PROVE  (value[slot[p].key] = slot[p].val /\ slot[p].val # 0)'
    BY DEF Mapped
  <2>1. At(p) \in Places /\ slot[At(p)].tag # 0 /\ ~Dirty(At(p))
    BY <1>1, <1>3, <1>6, Calm
  <2>2. value[slot[At(p)].key] = slot[At(p)].val /\ slot[At(p)].val # 0
    BY <2>1, ZenonT(30) DEF IInv, Mapped
  <2> QED
    BY <1>1, <1>6, <2>2
<1>12. Reading'
  BY <1>1 DEF Reading, SeenBy, CopiedBy, Exact, Copying
<1> QED
  BY <1>1, <1>7, <1>8, <1>9, <1>10, <1>11, <1>12 DEF IInv

\* clear(): an empty table maps nothing.
LEMMA ClearKeeps ==
  ASSUME IInv, Clear
  PROVE  IInv' /\ sweep' \in Nat
<1>1. /\ Quiet /\ UNCHANGED <<op, rd, owner, ops>> /\ sweep' = 1 /\ \A r \in Readers : rd[r].at = "idle"
      /\ slot' = [p \in Places |-> [slot[p] EXCEPT !.tag = 0]] /\ value' = [k \in Keys |-> 0]
  BY DEF Clear
<1>2. ASSUME NEW p \in Places
      PROVE  slot'[p] \in SlotType /\ slot'[p].tag = 0 /\ slot'[p].seq = slot[p].seq
  <2>1. slot[p] \in SlotType
    BY DEF IInv, Types
  <2> QED
    BY <1>1, <2>1 DEF SlotType
<1>3. Types'
  <2>1. slot' = [p \in Places |-> slot'[p]]
    BY <1>1
  <2>2. slot' \in [Places -> SlotType]
    BY <1>2, <2>1
  <2>3. value' \in [Keys -> Nat]
    BY <1>1
  <2> QED
    BY <1>1, <2>2, <2>3 DEF IInv, Types, Quiet
<1>4. Locks'
  BY <1>1, <1>2 DEF IInv, Locks, Holds
<1>5. Knows'
  BY <1>1, ZenonT(30) DEF Quiet, Knows, Known
<1>6. Unique' /\ Mapped'
  BY <1>2 DEF Unique, Mapped, Occupies
<1>7. Reading'
  BY <1>1 DEF Reading, SeenBy, CopiedBy, Exact, Copying
<1> QED
  BY <1>1, <1>3, <1>4, <1>5, <1>6, <1>7 DEF IInv

-----------------------------------------------------------------------------
(***************************************************************************)
(* The theorems                                                            *)
(***************************************************************************)

\* The empty cache.
LEMMA InitHolds ==
  ASSUME CacheAssumption, Init
  PROVE  IInv /\ sweep \in Nat
<1>1. Free \in SlotType /\ Free.tag = 0 /\ Free.seq = 0
  BY DEF Free, SlotType
<1>2. IdleOp \in OpType /\ IdleOp.at = "idle"
  BY ZenonT(30) DEF IdleOp, OpType, Steps
<1>3. IdleRd \in RdType /\ IdleRd.at = "idle"
  BY DEF IdleRd, RdType
<1>4. /\ \A p \in Places : slot[p] = Free
      /\ \A m \in Mutators : op[m] = IdleOp
      /\ \A r \in Readers : rd[r] = IdleRd
  BY DEF Init
<1>5. Types
  <2>1. slot \in [Places -> SlotType]
    BY <1>1 DEF Init
  <2>2. op \in [Mutators -> OpType]
    BY <1>2 DEF Init
  <2>3. rd \in [Readers -> RdType]
    BY <1>3 DEF Init
  <2> QED
    BY <2>1, <2>2, <2>3 DEF Init, Types
<1>6. Locks
  BY <1>1, <1>2, <1>4 DEF Locks, Holds, Held
<1>7. Knows
  BY <1>2, <1>4, ZenonT(30) DEF Knows, Known
<1>8. Unique /\ Mapped
  BY <1>1, <1>4, ZenonT(30) DEF Unique, Mapped, Occupies
<1>9. Reading
  BY <1>3, <1>4 DEF Reading, SeenBy, CopiedBy, Exact, Copying
<1>10. sweep \in Nat
  BY DEF Init
<1> QED
  BY <1>5, <1>6, <1>7, <1>8, <1>9, <1>10 DEF IInv

\* Every step of a mutator, of a reader and of the owner, one case each.
LEMMA StepHolds ==
  ASSUME CacheAssumption, IInv, sweep \in Nat, [Next]_vars
  PROVE  IInv' /\ sweep' \in Nat
<1>1. ASSUME NEW m \in Mutators, NEW k \in Keys, Begin(m, "spend", k, 0)
      PROVE  IInv' /\ sweep' \in Nat
  <2>1. sweep' = sweep
    BY <1>1 DEF Begin
  <2> QED
    BY <1>1, <2>1, BeginKeeps
<1>2. ASSUME NEW m \in Mutators, NEW k \in Keys, NEW h \in Heights, Begin(m, "insert", k, h)
      PROVE  IInv' /\ sweep' \in Nat
  <2>1. sweep' = sweep
    BY <1>2 DEF Begin
  <2> QED
    BY <1>2, <2>1, BeginKeeps
<1>3. ASSUME NEW m \in Mutators,
             \/ FindOwn(m) \/ Pick(m) \/ Claim(m) \/ Verify(m) \/ WriteKey(m) \/ WriteValue(m)
             \/ SetTag(m) \/ WriteEnd(m) \/ Account(m)
      PROVE  IInv' /\ sweep' \in Nat
  <2>1. sweep' = sweep
    BY <1>3, ZenonT(30) DEF FindOwn, Pick, Claim, Verify, WriteKey, WriteValue, SetTag, WriteEnd, Account
  <2>2. IInv'
    BY <1>3, FindOwnKeeps, PickKeeps, ClaimKeeps, VerifyKeeps, WriteKeyKeeps, WriteValueKeeps, SetTagKeeps,
       WriteEndKeeps, AccountKeeps, Zenon
  <2> QED
    BY <2>1, <2>2, ZenonT(30)
<1>4. ASSUME NEW r \in Readers,
             \/ \E k \in Keys : Lookup(r, k)
             \/ LoadWord(r) \/ LoadSeq(r) \/ CopyKey(r) \/ CopyValue(r) \/ Check(r) \/ Leave(r)
      PROVE  IInv' /\ sweep' \in Nat
  <2>1. sweep' = sweep
    BY <1>4, ZenonT(30) DEF Lookup, LoadWord, LoadSeq, CopyKey, CopyValue, Check, Leave
  <2>2. IInv'
    BY <1>4, ReaderMoves, Zenon
  <2> QED
    BY <2>1, <2>2
<1>5. CASE Maintain
  BY <1>5, OwnerStep DEF Maintain
<1>6. CASE Raise
  <2>1. UNCHANGED <<slot, op, rd, ops, value>> /\ sweep' = sweep /\ owner = Raising
    BY <1>6 DEF Raise
  <2>2. Quiet
    BY <2>1 DEF IInv, Types, Raising, Idle
  <2> QED
    BY <2>1, <2>2, OwnerStep
<1>7. CASE Sweep
  BY <1>7, SweepKeeps
<1>8. CASE Reload
  BY <1>8, ReloadKeeps
<1>9. CASE Clear
  BY <1>9, ClearKeeps
<1>10. CASE UNCHANGED vars
  <2>1. UNCHANGED <<slot, op, rd, owner, ops, value>> /\ sweep' = sweep
    BY <1>10 DEF vars
  <2>2. Types'
    BY <2>1, ZenonT(30) DEF IInv, Types, Quiet
  <2>3. Locks'
    BY <2>1, ZenonT(30) DEF IInv, Locks, Holds
  <2>4. ASSUME NEW m \in Mutators
        PROVE  Known(m)'
    <3>1. Known(m)
      BY DEF IInv, Knows
    <3> QED
      BY <2>1, <3>1, ZenonT(30) DEF Known, Occupies
  <2>5. Unique' /\ Mapped'
    BY <2>1, ZenonT(30) DEF IInv, Unique, Occupies, Mapped, Dirty
  <2>6. Reading'
    BY <2>1, ZenonT(30) DEF IInv, Reading, SeenBy, CopiedBy, Exact, Intact, Dirty
  <2> QED
    BY <2>1, <2>2, <2>3, <2>4, <2>5, <2>6 DEF IInv, Knows
<1> QED
  BY <1>1, <1>2, <1>3, <1>4, <1>5, <1>6, <1>7, <1>8, <1>9, <1>10, Zenon DEF Next

\* The invariant holds throughout.
LEMMA Invariance == ASSUME CacheAssumption PROVE Spec => [](IInv /\ sweep \in Nat)
<1>1. Init => IInv /\ sweep \in Nat
  BY InitHolds
<1>2. IInv /\ sweep \in Nat /\ [Next]_vars => (IInv /\ sweep \in Nat)'
  BY StepHolds
<1> QED
  BY <1>1, <1>2, PTL DEF Spec

\* A hit of lookupConcurrent() is exact, for any number of mutators,
\* readers, keys, buckets and slots: the value it returns is one the key
\* mapped to at some moment of the lookup, however insertions,
\* displacements, spendings, sweeps and reloads interleave with it.
THEOREM HitIsExactHolds == ASSUME CacheAssumption PROVE Spec => []HitIsExact
<1>1. IInv => HitIsExact
  BY DEF IInv, Reading, Exact, HitIsExact
<1> QED
  BY <1>1, Invariance, PTL

\* A key never occupies two slots: insertWith() and spend() search their two
\* buckets without a lock, and displacement, sweeping and packing move keys
\* meanwhile.
THEOREM KeyOnceHolds == ASSUME CacheAssumption PROVE Spec => []KeyOnce
<1>1. IInv => KeyOnce
  BY DEF IInv, Unique, Occupies, KeyOnce
<1> QED
  BY <1>1, Invariance, PTL

=============================================================================
