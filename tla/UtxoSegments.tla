----------------------------- MODULE UtxoSegments -----------------------------
(***************************************************************************)
(* A segment of blocks is linked before the state it builds on exists: an    *)
(* input is answered by its own block, by an earlier block of the segment,   *)
(* or left to the wave at the connect (common/blockDataBase.cpp).  A coin     *)
(* made and spent inside the segment never reaches the utxo database; the     *)
(* disconnect that splits such a pair puts the coin back (db/utxodb.cpp).     *)
(* The database is a window over the disk that drops what was born and died   *)
(* in it (dbengine/kvlayer.h, kvbase.h).                                      *)
(***************************************************************************)
EXTENDS Ledger

CONSTANTS
  BIP34Height,            \* below it a coinbase may repeat
  Repeats,                \* heights of the pinned repeats
  MaxHeight, MaxPayments, MaxSegment, MaxUndos  \* bounds

VARIABLES
  chain,    \* connected blocks [txs, repeat, links]; links: input coin -> meta it was made with
  db,       \* the utxo database: coin -> meta
  undos

vars == <<chain, db, undos>>

Init == chain = <<>> /\ db = NewDb /\ undos = 0

-----------------------------------------------------------------------------
NoVal == [height |-> 0, coinbase |-> FALSE]
Query(c) == LET found == Lookup(db, c) IN IF found = {} THEN NoVal ELSE CHOOSE meta \in found : TRUE

-----------------------------------------------------------------------------
(***************************************************************************)
(* Linking                                                                 *)
(***************************************************************************)
\* fillLocalSpendTopology(): the inputs of a block as [tx, coin, local], local
\* when an earlier transaction of the block has the txid
LocalInputs(b) ==
  FlattenSeq([k \in 1..Len(b.txs) - 1 |->
    LET i == k + 1 IN
    [j \in DOMAIN TxIns[b.txs[i]] |->
      [coin |-> TxIns[b.txs[i]][j], local |-> \E l \in 1..k : b.txs[l] = TxIns[b.txs[i]][j][1]]]])

SpentLocally(b) == {LocalInputs(b)[i].coin : i \in {j \in DOMAIN LocalInputs(b) : LocalInputs(b)[j].local}}

LocalSpendInvalid(b) ==
  LET ins == LocalInputs(b) IN
  \E i \in DOMAIN ins : ins[i].local /\ (ins[i].coin \notin Outputs(ins[i].coin[1]) \/ \E j \in DOMAIN ins : j < i /\ ins[j] = ins[i])

MetaAt(c, height) == [height |-> height, coinbase |-> c[1] \in Coinbases]
Failed(acc, pos) == [acc EXCEPT !.bad = @ \union {pos}]

\* An output of block p that nothing in the segment has spent
Unspent(acc, blocks, p, c) == IsCoin(c) /\ c \notin SpentLocally(blocks[p]) /\ <<p, c>> \notin acc.batch

\* One input: acc is [creator: txid -> position, batch: marked <<position, coin>>
\* of outputs, pairs: of inputs, residual, bad, links]
LinkInput(acc, blocks, base, pos, in) ==
  LET c == in.coin
      height == base + pos
      p == acc.creator[c[1]]
      meta == IF in.local THEN MetaAt(c, height) ELSE MetaAt(c, base + p)
  IN
  IF in.local THEN IF Mature(meta, height) THEN acc ELSE Failed(acc, pos)
  ELSE IF c[1] \in DOMAIN acc.creator THEN
    IF ~Unspent(acc, blocks, p, c) \/ ~Mature(meta, height) THEN Failed(acc, pos)
    ELSE [acc EXCEPT !.batch = @ \union {<<p, c>>}, !.pairs = @ \union {<<pos, c>>}, !.links[pos] = (c :> meta) @@ @]
  ELSE IF \E q \in DOMAIN blocks : <<q, c>> \in acc.residual THEN Failed(acc, pos)
  ELSE [acc EXCEPT !.residual = @ \union {<<pos, c>>}]

\* The txids of the block become creators; one seen before is a twin
AddTx(acc, blocks, pos, t) ==
  LET p == acc.creator[t]
      spent == \A c \in Outputs(t) : c \in SpentLocally(blocks[p]) \/ <<p, c>> \in acc.batch
  IN
  IF t \in DOMAIN acc.creator /\ ~spent /\ ~blocks[pos].repeat THEN Failed(acc, pos)
  ELSE [acc EXCEPT !.creator = (t :> pos) @@ @]

LinkBlock(acc, blocks, base, pos) ==
  IF LocalSpendInvalid(blocks[pos]) THEN Failed(acc, pos)
  ELSE LET linked == FoldLeft(LAMBDA a, in : LinkInput(a, blocks, base, pos, in), acc, LocalInputs(blocks[pos])) IN
       FoldLeft(LAMBDA a, t : AddTx(a, blocks, pos, t), linked, blocks[pos].txs)

\* resolveSegmentInputs()
Linked(blocks, base) ==
  FoldLeft(LAMBDA a, pos : LinkBlock(a, blocks, base, pos),
           [creator |-> [t \in {} |-> 0], batch |-> {}, pairs |-> {}, residual |-> {}, bad |-> {},
            links |-> [pos \in DOMAIN blocks |-> [c \in {} |-> NoVal]]],
           [pos \in DOMAIN blocks |-> pos])

\* resolveSegmentResidual(): the wave, against the state the segment connects to
ResidualBad(linked, base) ==
  {r[1] : r \in {x \in linked.residual : Query(x[2]) = NoVal \/ ~Mature(Query(x[2]), base + x[1])}}

-----------------------------------------------------------------------------
SpentInBatch(linked, pos, c) == <<pos, c>> \in linked.batch

\* A coinbase that may land on the live coin of an earlier one
MayRepeat(b, i, height) == i = 1 /\ (b.repeat \/ height < BIP34Height)

\* UTXODb::connect() of one transaction: pairs are skipped on both sides
ConnectTx(w, b, pos, height, linked, i) ==
  LET t == b.txs[i]
      local == SpentLocally(b)
      taken == IF i = 1 THEN <<>> ELSE SelectSeq(TxIns[t], LAMBDA c : c \notin local /\ <<pos, c>> \notin linked.pairs)
      made == SelectSeq([n \in DOMAIN TxOuts[t] |-> <<t, n>>], LAMBDA c : IsCoin(c) /\ c \notin local /\ ~SpentInBatch(linked, pos, c))
  IN  FoldLeft(LAMBDA v, c : PutAs(v, c, MetaAt(c, height), MayRepeat(b, i, height)), FoldLeft(Erase, w, taken), made)

ConnectWalk(w, blocks, base, linked) ==
  FoldLeft(LAMBDA v, pos : FoldLeft(LAMBDA u, i : ConnectTx(u, blocks[pos], pos, base + pos, linked, i),
                                    v, [i \in DOMAIN blocks[pos].txs |-> i]),
           w, [pos \in DOMAIN blocks |-> pos])

\* UTXODb::disconnect() of one transaction: only same-block pairs are skipped.
\* A coin put back may well be on disk: a later spend must leave a real tombstone
DisconnectTx(w, b, i) ==
  LET t == b.txs[i]
      local == SpentLocally(b)
      back == IF i = 1 THEN <<>> ELSE SelectSeq(TxIns[t], LAMBDA c : c \notin local)
      made == SelectSeq([n \in DOMAIN TxOuts[t] |-> <<t, n>>], LAMBDA c : IsCoin(c) /\ c \notin local)
  IN  FoldLeft(Erase, FoldLeft(LAMBDA v, c : PutRestore(v, c, b.links[c]), w, back), made)

-----------------------------------------------------------------------------
\* The blocks a segment may hold: any payments over a fresh coinbase, or a
\* pinned repeat.  A coinbase is named by the height it belongs to
Bodies == UNION {{s \in [1..n -> Payments] : IsInjective(s)} : n \in 0..MaxPayments}
CoinbaseAt(height) == IF height \in Repeats THEN 1 ELSE height
BlockAt(height, body) == [txs |-> <<CoinbaseAt(height)>> \o body, repeat |-> height \in Repeats]
Segments ==
  UNION {{[i \in 1..n |-> BlockAt(Len(chain) + i, bodies[i])] : bodies \in [1..n -> Bodies]} :
         n \in 1..Min({MaxSegment, MaxHeight - Len(chain)})}

\* prepareSegment() cuts at what the linking refuses, connectSegment() fails at
\* what the wave refuses
Refused(linked, base) == IF linked.bad # {} THEN linked.bad ELSE ResidualBad(linked, base)

\* A segment nobody refuses connects as one unit; a refused one changes nothing
Connect(blocks) ==
  LET base == Len(chain)
      linked == Linked(blocks, base)
      links == [pos \in DOMAIN blocks |->
                  [c \in {r[2] : r \in {x \in linked.residual : x[1] = pos}} |-> Query(c)] @@ linked.links[pos]]
  IN
  /\ Refused(linked, base) = {}
  /\ db' = ConnectWalk(db, blocks, base, linked)
  /\ chain' = chain \o [pos \in DOMAIN blocks |-> [txs |-> blocks[pos].txs, repeat |-> blocks[pos].repeat, links |-> links[pos]]]
  /\ UNCHANGED undos

\* DisconnectBlock() of the tip
Disconnect ==
  /\ chain # <<>> /\ undos < MaxUndos
  /\ db' = FoldLeft(LAMBDA w, i : DisconnectTx(w, Last(chain), i), db, [i \in DOMAIN Last(chain).txs |-> i])
  /\ chain' = Front(chain) /\ undos' = undos + 1

\* A layer freezes and reaches the disk
Flush == DOMAIN db.window # {} /\ db' = WrittenLayer(db) /\ UNCHANGED <<chain, undos>>

Next == (\E blocks \in Segments : Connect(blocks)) \/ Disconnect \/ Flush

Spec == Init /\ [][Next]_vars

-----------------------------------------------------------------------------
\* What is on the chain links every input it spends outside its own block
TypeOK ==
  \A b \in ToSet(chain) : DOMAIN b.links = {c \in ToSet(Inputs(b)) : c \notin SpentLocally(b)}


\* A segment is accepted exactly when its blocks applied one by one are valid,
\* and the block condemned first is invalid or stands above an invalid one
VerdictRight ==
  LET base == Len(chain)
      state == ApplyChain(NoCoins, chain, 0)
  IN  \A blocks \in Segments :
        LET refused == Refused(Linked(blocks, base), base) IN
        IF refused = {} THEN ApplyChain(state, blocks, base).ok
        ELSE ~ApplyChain(state, SubSeq(blocks, 1, Min(refused)), base).ok
=============================================================================
