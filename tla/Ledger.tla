-------------------------------- MODULE Ledger --------------------------------
(***************************************************************************)
(* Transactions, coins and blocks, and what a chain of blocks means when its *)
(* transactions are applied one by one: the reference the databases and the  *)
(* linking of whole segments are compared with; and the key-value store under *)
(* them.                                                                     *)
(***************************************************************************)
EXTENDS Integers, Sequences, FiniteSets, SequencesExt, FiniteSetsExt, Functions, TLC

CONSTANTS
  TxIns,      \* transaction -> the coins <<transaction, n>> it spends, in order
  TxOuts,     \* transaction -> its outputs [to, value]; to is NoAddress or NullData or an address
  Coinbases, Payments,   \* the transactions of either kind
  NoAddress,  \* an output script without an address
  NullData,   \* an OP_RETURN output: not a coin
  CoinbaseMaturity

Txs == Coinbases \union Payments
Outputs(t) == {<<t, n>> : n \in DOMAIN TxOuts[t]}
OutputOf(c) == TxOuts[c[1]][c[2]]
IsCoin(c) == c[2] \in DOMAIN TxOuts[c[1]] /\ OutputOf(c).to # NullData
Coins == {c \in UNION {Outputs(t) : t \in Txs} : IsCoin(c)}

\* A block is [txs, repeat]: the coinbase and the payments; repeat marks one of
\* the pinned blocks that carry an earlier coinbase again (BIP30)
Inputs(b) == FlattenSeq([i \in 1..Len(b.txs) - 1 |-> TxIns[b.txs[i + 1]]])
BlockTxs(b) == ToSet(b.txs)

\* coinMature()
Mature(meta, height) == meta.coinbase => height - meta.height >= CoinbaseMaturity

\* The coins of the chain: coin -> [height, coinbase]
Minted(utxo, t, height) ==
  LET new == {c \in Outputs(t) : IsCoin(c)} IN
  [c \in DOMAIN utxo \union new |-> IF c \in new THEN [height |-> height, coinbase |-> t \in Coinbases] ELSE utxo[c]]

SpendsRight(utxo, t, height) ==
  /\ \A i, j \in DOMAIN TxIns[t] : TxIns[t][i] = TxIns[t][j] => i = j
  /\ \A i \in DOMAIN TxIns[t] : TxIns[t][i] \in DOMAIN utxo /\ Mature(utxo[TxIns[t][i]], height)

\* One transaction after the other; ok turns FALSE at the first wrong one
ApplyTx(acc, t, height) ==
  IF ~acc.ok \/ ~SpendsRight(acc.utxo, t, height) THEN [acc EXCEPT !.ok = FALSE]
  ELSE [acc EXCEPT !.utxo = Minted(Restrict(@, DOMAIN @ \ ToSet(TxIns[t])), t, height)]

ApplyBlock(acc, b, height) == FoldLeft(LAMBDA a, t : ApplyTx(a, t, height), acc, b.txs)
ApplyChain(acc, blocks, base) == FoldLeft(LAMBDA a, i : ApplyBlock(a, blocks[i], base + i), acc, [i \in DOMAIN blocks |-> i])

NoCoins == [ok |-> TRUE, utxo |-> [c \in {} |-> 0]]
CoinsOf(chain) == ApplyChain(NoCoins, chain, 0).utxo

-----------------------------------------------------------------------------
\* A key-value database as its writer sees it: the live layer over the disk
\* (dbengine/kvlayer.h, kvbase.h).  A record knows whether the key may exist below it; a
\* value born and dead in the layer never reaches the disk.  KvEngine has the layers,
\* views and crashes behind it.

\* val is a set of one value, or empty for a tombstone
NewDb == [disk |-> <<>>, window |-> <<>>]

\* put() keeps a "may exist below" it finds
PutAs(db, k, v, below) ==
  [db EXCEPT !.window = (k :> [val |-> {v}, below |-> below \/ (k \in DOMAIN @ /\ @[k].below)]) @@ @]
PutNew(db, k, v) == PutAs(db, k, v, FALSE)
PutRestore(db, k, v) == PutAs(db, k, v, TRUE)

\* erase() of a record born here leaves a tombstone that dies with it
Erase(db, k) ==
  [db EXCEPT !.window = (k :> [val |-> {}, below |-> k \notin DOMAIN @ \/ @[k].below]) @@ @]

\* find(): the value as a set of at most one
Lookup(db, k) ==
  IF k \in DOMAIN db.window THEN db.window[k].val ELSE IF k \in DOMAIN db.disk THEN {db.disk[k]} ELSE {}

\* writeLayer(): a tombstone that nothing below can need is not written
WrittenLayer(db) ==
  LET w == db.window
      gone == {k \in DOMAIN w : w[k].val = {} /\ w[k].below}
      put == {k \in DOMAIN w : w[k].val # {}}
  IN  [window |-> <<>>,
       disk |-> [k \in (DOMAIN db.disk \ gone) \union put |-> IF k \in put THEN CHOOSE v \in w[k].val : TRUE ELSE db.disk[k]]]
=============================================================================
