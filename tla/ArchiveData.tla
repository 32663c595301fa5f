----------------------------- MODULE ArchiveData -----------------------------
(***************************************************************************)
(* What the archive databases hold: spentdb (which input took an output),    *)
(* txdb and txdbRef (where a transaction lies), addrdb (counters of an       *)
(* address) and addrhistorydb (its transactions with the running balance).   *)
(* The block index moves first; the databases take the same connects and     *)
(* disconnects later, in order (StorageQueue, ArchiveWorkers).  A linked     *)
(* output is the output the coin names.                                      *)
(***************************************************************************)
EXTENDS Ledger

CONSTANTS
  Addresses,
  Repeats,                                        \* heights of the pinned repeats
  MaxHeight, MaxPayments, MaxBatch, MaxUndos, MaxLag  \* bounds

VARIABLES
  chain,    \* by height, as the block index has it
  queue,    \* units the databases have not taken: the blocks of a connect, or none for a disconnect
  applied,  \* the chain the databases stand at
  spent,    \* coin -> [by, input, height]
  txs,      \* transaction -> [height, index]
  addr,     \* address -> counters
  history,  \* address -> elements [height, index, sum]
  undos

vars == <<chain, queue, applied, spent, txs, addr, history, undos>>

NoCounters == [received |-> 0, sent |-> 0, mined |-> 0, txCount |-> 0, txInCount |-> 0, txOutCount |-> 0, minedTxCount |-> 0]

Init ==
  /\ chain = <<>> /\ queue = <<>> /\ applied = <<>> /\ undos = 0
  /\ spent = NewDb /\ txs = NewDb
  /\ addr = [a \in Addresses |-> NoCounters] /\ history = [a \in Addresses |-> <<>>]

Positions(b) == [i \in DOMAIN b.txs |-> i]

-----------------------------------------------------------------------------
(***************************************************************************)
(* spentdb                                                                 *)
(***************************************************************************)

\* A mark for every input behind the coinbase, same-block pairs too
Marks(b, height) ==
  FlattenSeq([i \in 1..Len(b.txs) - 1 |->
    LET t == b.txs[i + 1] IN
    [j \in DOMAIN TxIns[t] |-> [coin |-> TxIns[t][j], mark |-> [by |-> t, input |-> j, height |-> height]]]])

SpentConnect(db, b, height) == FoldLeft(LAMBDA d, x : PutNew(d, x.coin, x.mark), db, Marks(b, height))
SpentDisconnect(db, b, height) == FoldLeft(LAMBDA d, x : Erase(d, x.coin), db, Marks(b, height))

-----------------------------------------------------------------------------
(***************************************************************************)
(* txdb, txdbRef                                                           *)
(***************************************************************************)

\* The coinbase of a repeat is stored under its twin already
firstTx(b) == IF b.repeat THEN 2 ELSE 1

Stored(b) == SelectSeq(Positions(b), LAMBDA i : i >= firstTx(b))
TxConnect(db, b, height) == FoldLeft(LAMBDA d, i : PutNew(d, b.txs[i], [height |-> height, index |-> i]), db, Stored(b))
TxDisconnect(db, b) == FoldLeft(LAMBDA d, i : Erase(d, b.txs[i]), db, Stored(b))

Corrupted == 0  \* no transaction
Garbage == -1   \* read beyond the block

\* queryTransaction(): the stored position, through the index as it is now; a
\* height without a block is DataCorrupted
queryTransaction(t) ==
  {IF row.height > Len(chain) THEN Corrupted
   ELSE IF row.index > Len(chain[row.height].txs) THEN Garbage
   ELSE chain[row.height].txs[row.index] : row \in Lookup(txs, t)}

-----------------------------------------------------------------------------
(***************************************************************************)
(* addrdb and addrhistorydb                                                *)
(***************************************************************************)
InsOf(b, i, a) == IF i = 1 THEN {} ELSE {j \in DOMAIN TxIns[b.txs[i]] : OutputOf(TxIns[b.txs[i]][j]).to = a}
OutsOf(b, i, a) == {n \in DOMAIN TxOuts[b.txs[i]] : TxOuts[b.txs[i]][n].to = a}
Touches(b, i, a) == InsOf(b, i, a) \union OutsOf(b, i, a) # {}
Taken(b, i, a) == MapThenSumSet(LAMBDA c : OutputOf(c).value, {TxIns[b.txs[i]][j] : j \in InsOf(b, i, a)})

\* A repeat pays no one twice: it is counted, its money is not
Pays(b, i) == ~(i = 1 /\ b.repeat)

Paid(b, i, a) == IF Pays(b, i) THEN MapThenSumSet(LAMBDA n : TxOuts[b.txs[i]][n].value, OutsOf(b, i, a)) ELSE 0

\* What a transaction adds to the counters of an address
TxDelta(b, i, a) ==
  LET one == IF Touches(b, i, a) THEN 1 ELSE 0 IN
  [received |-> Paid(b, i, a), sent |-> Taken(b, i, a), mined |-> IF i = 1 THEN Paid(b, i, a) ELSE 0,
   txCount |-> one, txInCount |-> Cardinality(InsOf(b, i, a)),
   txOutCount |-> IF Pays(b, i) THEN Cardinality(OutsOf(b, i, a)) ELSE 0, minedTxCount |-> IF i = 1 THEN one ELSE 0]

Plus(x, y) == [f \in DOMAIN x |-> x[f] + y[f]]
NegatedNotSent(x) == [[f \in DOMAIN x |-> -x[f]] EXCEPT !.sent = x.sent]
Negated(x) == [f \in DOMAIN x |-> -x[f]]
buildBlockDelta(b, a) == FoldLeft(LAMBDA d, i : Plus(d, TxDelta(b, i, a)), NoCounters, Positions(b))

SumOf(h) == IF h = <<>> THEN 0 ELSE Last(h).sum

\* One element for each transaction that touches the address, its delta folded
\* into the running balance
HistoryConnect(h, b, height, a) ==
  FoldLeft(LAMBDA s, i : Append(s, [height |-> height, index |-> i, sum |-> SumOf(s) + Paid(b, i, a) - Taken(b, i, a)]),
           h, SelectSeq(Positions(b), LAMBDA i : Touches(b, i, a)))

\* truncate() by the same count
HistoryDisconnect(h, b, a) == SubSeq(h, 1, Len(h) - Cardinality({i \in DOMAIN b.txs : Touches(b, i, a)}))

-----------------------------------------------------------------------------
(***************************************************************************)
(* The index moves; the databases take the units in order                  *)
(***************************************************************************)
Bodies == UNION {{s \in [1..n -> Payments] : IsInjective(s)} : n \in 0..MaxPayments}
BlockAt(height, body) == [txs |-> <<IF height \in Repeats THEN 1 ELSE height>> \o body, repeat |-> height \in Repeats]
Batches ==
  UNION {{[i \in 1..n |-> BlockAt(Len(chain) + i, bodies[i])] : bodies \in [1..n -> Bodies]} :
         n \in 1..Min({MaxBatch, MaxHeight - Len(chain)})}

Connect(blocks) ==
  /\ Len(queue) < MaxLag
  /\ ApplyChain(ApplyChain(NoCoins, chain, 0), blocks, Len(chain)).ok
  /\ chain' = chain \o blocks /\ queue' = Append(queue, blocks)
  /\ UNCHANGED <<applied, spent, txs, addr, history, undos>>

Disconnect ==
  /\ Len(queue) < MaxLag /\ chain # <<>> /\ undos < MaxUndos
  /\ chain' = Front(chain) /\ queue' = Append(queue, <<>>) /\ undos' = undos + 1
  /\ UNCHANGED <<applied, spent, txs, addr, history>>

\* connect() of every database for a whole batch
ApplyBatch ==
  /\ queue # <<>> /\ Head(queue) # <<>>
  /\ LET blocks == Head(queue)
         base == Len(applied)
         walk == [i \in DOMAIN blocks |-> i]
     IN
     /\ spent' = FoldLeft(LAMBDA d, i : SpentConnect(d, blocks[i], base + i), spent, walk)
     /\ txs' = FoldLeft(LAMBDA d, i : TxConnect(d, blocks[i], base + i), txs, walk)
     /\ addr' = [a \in Addresses |-> FoldLeft(LAMBDA d, b : Plus(d, buildBlockDelta(b, a)), addr[a], blocks)]
     /\ history' = [a \in Addresses |-> FoldLeft(LAMBDA h, i : HistoryConnect(h, blocks[i], base + i, a), history[a], walk)]
     /\ applied' = applied \o blocks
  /\ queue' = Tail(queue) /\ UNCHANGED <<chain, undos>>

\* disconnect() of every database
ApplyDisconnect ==
  /\ queue # <<>> /\ Head(queue) = <<>>
  /\ LET b == Last(applied) IN
     /\ spent' = SpentDisconnect(spent, b, Len(applied)) /\ txs' = TxDisconnect(txs, b)
     /\ addr' = [a \in Addresses |-> Plus(addr[a], Negated(buildBlockDelta(b, a)))]
     /\ history' = [a \in Addresses |-> HistoryDisconnect(history[a], b, a)]
     /\ applied' = Front(applied)
  /\ queue' = Tail(queue) /\ UNCHANGED <<chain, undos>>

\* A layer of either database reaches its disk
FlushSpent == DOMAIN spent.window # {} /\ spent' = WrittenLayer(spent) /\ UNCHANGED <<chain, queue, applied, txs, addr, history, undos>>
FlushTxs == DOMAIN txs.window # {} /\ txs' = WrittenLayer(txs) /\ UNCHANGED <<chain, queue, applied, spent, addr, history, undos>>

Next ==
  (\E blocks \in Batches : Connect(blocks)) \/ Disconnect \/ ApplyBatch \/ ApplyDisconnect \/ FlushSpent \/ FlushTxs

Spec == Init /\ [][Next]_vars

-----------------------------------------------------------------------------
Heights(t) == {h \in DOMAIN applied : t \in BlockTxs(applied[h])}

\* Counters never leave the naturals a row of addrdb can hold, and no history
\* reaches above the chain
TypeOK ==
  /\ \A a \in Addresses : \A f \in DOMAIN NoCounters : addr[a][f] \in Nat
  /\ \A a \in Addresses : \A x \in ToSet(history[a]) : x.height \in DOMAIN applied

\* spentdb is the complement of the unspent outputs: a coin of the chain is
\* either unspent or marked, and the mark names the input that took it
Complement ==
  LET unspent == DOMAIN CoinsOf(applied) IN
  \A c \in Coins :
    LET mark == Lookup(spent, c) IN
    IF Heights(c[1]) = {} \/ c \in unspent THEN mark = {}
    ELSE \E m \in mark : Heights(m.by) = {m.height} /\ TxIns[m.by][m.input] = c

\* The transaction databases hold exactly the transactions of the chain, each at
\* the block that brought it first, whatever was repeated and disconnected since
TxExact ==
  \A t \in Txs :
    IF Heights(t) = {} THEN Lookup(txs, t) = {}
    ELSE \E row \in Lookup(txs, t) : row.height = Min(Heights(t)) /\ applied[row.height].txs[row.index] = t

\* The balance and the output count of an address are what the utxo set holds for it
BalanceIsUnspent ==
  LET unspent == DOMAIN CoinsOf(applied) IN
  \A a \in Addresses :
    LET own == {c \in unspent : OutputOf(c).to = a} IN
    /\ addr[a].received - addr[a].sent = MapThenSumSet(LAMBDA c : OutputOf(c).value, own)
    /\ addr[a].txOutCount - addr[a].txInCount = Cardinality(own)

\* The history has one element for each transaction addrdb counts, in chain
\* order, each at a transaction that touches the address, and ends at the balance
HistoryAgrees ==
  \A a \in Addresses :
    LET h == history[a] IN
    /\ Len(h) = addr[a].txCount /\ SumOf(h) = addr[a].received - addr[a].sent
    /\ \A i \in DOMAIN h : Touches(applied[h[i].height], h[i].index, a)
    /\ \A i, j \in DOMAIN h : i < j => h[i].height < h[j].height \/ (h[i].height = h[j].height /\ h[i].index < h[j].index)

\* What is answered for a txid is that transaction
AnswerIsAsked == \A t \in Txs : queryTransaction(t) \subseteq {t, Corrupted}
=============================================================================
