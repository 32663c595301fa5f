------------------------------- MODULE Mempool -------------------------------
(***************************************************************************)
(* The mempool writer (common/mempool.cpp) beside the utxo database        *)
(* (db/utxodb.cpp) it follows.  The pipeline thread connects and           *)
(* disconnects blocks: it counts the operation in ChangeSeq_, changes the  *)
(* read cache key by key and then publishes a revision.  The writer thread *)
(* moves its base to the published revision, and decides on transactions   *)
(* with probes that may see a database further on than the base: what the  *)
(* age rule cannot vouch for waits.                                        *)
(*                                                                         *)
(* A coin is an outpoint; its meta is its creation height and the Restored *)
(* mark.  Consensus and policy checks of a transaction, and the limits of  *)
(* the pool, are one choice: pass or not.                                  *)
(***************************************************************************)
EXTENDS Integers, Sequences, FiniteSets, SequencesExt, FiniteSetsExt

CONSTANTS
  Blocks, Genesis, None,
  PrevOf, TxsOf, CoinbaseOf,  \* the tree: Prev, the transactions, the coinbase's coins
  Ins, Outs,                  \* what a transaction spends, in order, and makes
  Txs,                        \* the transactions given to the mempool
  Cacheable,                  \* coins whose record has the width the cache admits
  Start,                      \* the block the database stands at when the node starts
  MaxSyncBlocks, MaxWaiting,
  MaxSeq                      \* bound: operations of the utxo database

VARIABLES
  slots,                 \* the height index of the chain
  changeSeq,             \* ChangeSeq_
  cache,                 \* Cache_: meta of the coins it holds
  view,                  \* the published revision: coins, stamp, number
  edits, op,             \* the operation under way: edits to come, what it will publish
  wake,                  \* WakeEvent_ is active
  inbox,                 \* Inbox_
  active, base, baseSeq, \* Active_, BaseIndex_, BaseSeq_
  entries, spent,        \* Entries_ in the generation's order, Spent_
  waiting,               \* Waiting_, WaitingSeq_
  at, todo,              \* where the writer's pass is, and what it has still to decide
  probe,                 \* decide() under way: its transaction, inputs to read, what was read
  reply                  \* the verdict each transaction got

utxoVars == <<slots, changeSeq, cache, view, edits, op>>
poolVars == <<active, base, baseSeq, entries, spent, waiting, at, todo, probe, reply>>
vars == <<utxoVars, wake, inbox, poolVars>>

-----------------------------------------------------------------------------
(***************************************************************************)
(* Blocks and coins                                                        *)
(***************************************************************************)
PathTo[b \in Blocks] == IF b = Genesis THEN <<b>> ELSE Append(PathTo[PrevOf[b]], b)
Path == [b \in Blocks |-> PathTo[b]]

Height(b) == Len(Path[b]) - 1
Above(b, c) == SelectSeq(Path[c], LAMBDA x : x \notin ToSet(Path[b]))

Spends(b) == FlattenSeq([i \in DOMAIN TxsOf[b] |-> Ins[TxsOf[b][i]]])
Makes(b) == ToSet(CoinbaseOf[b]) \union UNION {ToSet(Outs[t]) : t \in ToSet(TxsOf[b])}
Maker(c) == IF \E t \in Txs : c \in ToSet(Outs[t]) THEN CHOOSE t \in Txs : c \in ToSet(Outs[t]) ELSE None

\* The coins of the chain that ends at b, with their creation heights
CoinsAt[b \in Blocks] ==
  LET below == IF b = Genesis THEN <<>> ELSE CoinsAt[PrevOf[b]]
  IN  [c \in (DOMAIN below \union Makes(b)) \ ToSet(Spends(b)) |->
        IF c \in DOMAIN below THEN below[c] ELSE Height(b)]

UtxoAt == [b \in Blocks |-> CoinsAt[b]]

Meta(h, restored) == [h |-> h, restored |-> restored]
Fresh(b) == [c \in DOMAIN UtxoAt[b] |-> Meta(UtxoAt[b][c], FALSE)]

Init ==
  /\ slots = [h \in 0..Height(Start) |-> Path[Start][h + 1]]
  /\ changeSeq = 0
  /\ cache = [c \in DOMAIN Fresh(Start) \intersect Cacheable |-> Fresh(Start)[c]]
  /\ view = [coins |-> Fresh(Start), stamp |-> Start, seq |-> 0]
  /\ edits = <<>> /\ op = None
  /\ wake = FALSE /\ inbox = <<>>
  /\ active = FALSE /\ base = None /\ baseSeq = 0
  /\ entries = <<>> /\ spent = <<>> /\ waiting = <<>>
  /\ at = "idle" /\ todo = <<>> /\ probe = None
  /\ reply = [t \in Txs |-> "none"]

-----------------------------------------------------------------------------
(***************************************************************************)
(* The utxo database, on the pipeline thread                               *)
(***************************************************************************)
Put(c, meta) == [coin |-> c, put |-> TRUE, meta |-> meta]
Erase(c) == [coin |-> c, put |-> FALSE, meta |-> Meta(0, FALSE)]

\* A pair made and spent inside the run is never seen outside it
Paired(run) ==
  (UNION {Makes(b) : b \in ToSet(run)}) \intersect ToSet(FlattenSeq([i \in DOMAIN run |-> Spends(run[i])]))

EditsOf(b, skip, input(_), output(_)) ==
  LET one(t) == [i \in DOMAIN Ins[t] |-> input(Ins[t][i])] \o
                [i \in DOMAIN Outs[t] |-> output(Outs[t][i])]
      coinbase == [i \in DOMAIN CoinbaseOf[b] |-> output(CoinbaseOf[b][i])]
  IN  SelectSeq(coinbase \o FlattenSeq([i \in DOMAIN TxsOf[b] |-> one(TxsOf[b][i])]),
                LAMBDA e : e.coin \notin skip)

ConnectEdits(run) ==
  FlattenSeq([i \in DOMAIN run |->
    EditsOf(run[i], Paired(run), LAMBDA c : Erase(c), LAMBDA c : Put(c, Meta(Height(run[i]), FALSE)))])

\* What a block spent comes back with its own height; pairs of a run are plain again
DisconnectEdits(b) ==
  EditsOf(b, Paired(<<b>>), LAMBDA c : Put(c, Meta(UtxoAt[PrevOf[b]][c], TRUE)), LAMBDA c : Erase(c))

Apply(coins, e) ==
  [c \in IF e.put THEN DOMAIN coins \union {e.coin} ELSE DOMAIN coins \ {e.coin} |->
    IF c = e.coin THEN e.meta ELSE coins[c]]

\* The chain's bookkeeping goes first: markConnected of every block of the run, or the
\* cleared slot of the block that leaves
Mark(to, ops, list) ==
  /\ op = None /\ changeSeq + ops <= MaxSeq
  /\ slots' = [h \in 0..Height(to) |-> Path[to][h + 1]]
  /\ edits' = list
  /\ op' = [coins |-> FoldLeft(Apply, view.coins, list), stamp |-> to, seq |-> changeSeq + ops]
  /\ UNCHANGED <<changeSeq, cache, view, wake, inbox, poolVars>>

Connect(b) ==
  /\ view.stamp # b /\ view.stamp \in ToSet(Path[b])
  /\ LET run == Above(view.stamp, b) IN Mark(b, Len(run), ConnectEdits(run))

Disconnect ==
  /\ view.stamp # Genesis
  /\ Mark(PrevOf[view.stamp], 1, DisconnectEdits(view.stamp))

\* beginChange, then maintain(): the cache lets go of what is below the floor
BeginChange ==
  /\ op # None /\ op.seq # changeSeq
  /\ changeSeq' = op.seq
  /\ \E floor \in 0..1 :
       cache' = [c \in {x \in DOMAIN cache : cache[x].h >= floor} |-> cache[c]]
  /\ UNCHANGED <<slots, view, edits, op, wake, inbox, poolVars>>

Begun == op # None /\ op.seq = changeSeq

\* One cacheAdd or cacheRemove; the database's own record waits for commit
EditCache ==
  /\ Begun /\ edits # <<>>
  /\ edits' = Tail(edits)
  /\ cache' = IF Head(edits).coin \in Cacheable THEN Apply(cache, Head(edits)) ELSE cache
  /\ UNCHANGED <<slots, changeSeq, view, op, wake, inbox, poolVars>>

\* The revision is published, then the storage wakes the mempool
Commit ==
  /\ Begun /\ edits = <<>>
  /\ view' = op /\ op' = None
  /\ wake' = TRUE
  /\ UNCHANGED <<slots, changeSeq, cache, edits, inbox, poolVars>>

-----------------------------------------------------------------------------
(***************************************************************************)
(* Other threads: activate() once the node has caught up, submit()         *)
(***************************************************************************)
Activation == "activate"

Send(message) ==
  /\ inbox' = Append(inbox, message)
  /\ wake' = TRUE
  /\ UNCHANGED <<utxoVars, poolVars>>

Sent(x) ==
  x \in ToSet(inbox) \/ x \in {todo[i].tx : i \in DOMAIN todo}

Activate == ~active /\ ~Sent(Activation) /\ Send(Activation)

Submit(t) ==
  /\ reply[t] = "none" /\ ~Sent(t)
  /\ t \notin {waiting[i].tx : i \in DOMAIN waiting} /\ (probe # None => probe.tx # t)
  /\ Send(t)

-----------------------------------------------------------------------------
(***************************************************************************)
(* Removal                                                                 *)
(***************************************************************************)
RECURSIVE WithDescendants(_, _)
WithDescendants(pool, found) ==
  LET more == found \union {pool.spent[c] : c \in (UNION {ToSet(Outs[t]) : t \in found}) \intersect DOMAIN pool.spent}
  IN  IF more = found THEN found ELSE WithDescendants(pool, more)

EraseAll(pool, gone) ==
  LET freed == UNION {ToSet(Ins[t]) : t \in gone \intersect ToSet(pool.entries)} IN
  [entries |-> SelectSeq(pool.entries, LAMBDA t : t \notin gone),
   spent |-> [c \in DOMAIN pool.spent \ freed |-> pool.spent[c]]]

Reset(pool) == [entries |-> <<>>, spent |-> <<>>]

\* connectBlock: what the block confirms leaves alone, what conflicts with it takes its
\* descendants along; a block that cannot be read drops everything
ConnectBlock(pool, b, readable) ==
  LET conflict(p, c) ==
        IF c \in DOMAIN p.spent THEN EraseAll(p, WithDescendants(p, {p.spent[c]})) ELSE p
  IN  IF readable
      THEN FoldLeft(conflict, EraseAll(pool, ToSet(TxsOf[b])), Spends(b))
      ELSE Reset(pool)

\* The oldest entries expire, with their descendants
Expire(pool, n) ==
  LET old == ToSet(SubSeq(pool.entries, 1, n))
  IN  EraseAll(pool, WithDescendants(pool, old))

(***************************************************************************)
(* sync: the base moves to the published revision, block by block when     *)
(* the way is short and forward; then the waiting are tried again, ahead   *)
(* of the rest of the pass.                                                *)
(***************************************************************************)
Sync(rest) ==
  IF base = view.stamp /\ baseSeq = view.seq
  THEN todo' = rest /\ UNCHANGED <<base, baseSeq, entries, spent, waiting>>
  ELSE
    LET pool == [entries |-> entries, spent |-> spent]
        connects == IF base = None THEN <<>> ELSE Above(base, view.stamp)
        walk == base # None /\ Above(view.stamp, base) = <<>> /\ Len(connects) <= MaxSyncBlocks
    IN  \E bad \in {None} \union ToSet(connects), n \in 0..1 :
          LET moved == IF walk
                       THEN FoldLeft(LAMBDA p, b : ConnectBlock(p, b, b # bad), pool, connects)
                       ELSE Reset(pool)
              kept == Expire(moved, IF n <= Len(moved.entries) THEN n ELSE 0)
          IN  /\ base' = view.stamp /\ baseSeq' = view.seq
              /\ entries' = kept.entries /\ spent' = kept.spent
              /\ todo' = waiting \o rest /\ waiting' = <<>>

-----------------------------------------------------------------------------
(***************************************************************************)
(* One pass of the writer: the chain and the waiting, then the messages    *)
(***************************************************************************)
OnWake ==
  /\ at = "idle" /\ wake
  /\ wake' = FALSE
  /\ at' = "chain"
  /\ IF active THEN Sync(<<>>) ELSE UNCHANGED <<base, baseSeq, entries, spent, waiting, todo>>
  /\ UNCHANGED <<utxoVars, inbox, active, probe, reply>>

TakeInbox ==
  /\ at = "chain" /\ todo = <<>> /\ probe = None
  /\ at' = "messages"
  /\ todo' = [i \in DOMAIN inbox |-> [tx |-> inbox[i], seq |-> 0]]
  /\ inbox' = <<>>
  /\ UNCHANGED <<utxoVars, wake, active, base, baseSeq, entries, spent, waiting, probe, reply>>

PassDone ==
  /\ at = "messages" /\ todo = <<>> /\ probe = None
  /\ at' = "idle"
  /\ UNCHANGED <<utxoVars, wake, inbox, active, base, baseSeq, entries, spent, waiting, todo, probe, reply>>

OnActivate ==
  /\ probe = None /\ todo # <<>> /\ Head(todo).tx = Activation
  /\ Sync(Tail(todo))
  /\ active' = TRUE
  /\ UNCHANGED <<utxoVars, wake, inbox, at, probe, reply>>

\* apply(): the verdict of a decision that makes no entry, and the waiting list
Answer(t, verdict) ==
  /\ reply' = [reply EXCEPT ![t] = verdict]
  /\ probe' = None
  /\ UNCHANGED <<entries, spent, waiting>>

Wait(t, seq) ==
  IF Len(waiting) >= MaxWaiting THEN Answer(t, "rejected")
  ELSE /\ waiting' = Append(waiting, [tx |-> t, seq |-> seq])
       /\ probe' = None
       /\ UNCHANGED <<entries, spent, reply>>

Accept(t) ==
  /\ entries' = Append(entries, t)
  /\ spent' = [c \in DOMAIN spent \union ToSet(Ins[t]) |-> IF c \in ToSet(Ins[t]) THEN t ELSE spent[c]]
  /\ reply' = [reply EXCEPT ![t] = "accepted"]
  /\ probe' = None
  /\ UNCHANGED waiting

WaitingSeq(t) == {waiting[i].seq : i \in {j \in DOMAIN waiting : waiting[j].tx = t}}
InMempool(t) == t \in ToSet(entries) \/ WaitingSeq(t) # {}

\* An input that ends the input loop of decide(): taken by an entry, or behind a parent
\* that waits itself
Stops(c) ==
  c \in DOMAIN spent \/ (Maker(c) \notin ToSet(entries) /\ WaitingSeq(Maker(c)) # {})

\* The head of the list: kept waiting, or decide() begins on the writer's own state
Decide ==
  /\ probe = None /\ todo # <<>> /\ Head(todo).tx # Activation
  /\ todo' = Tail(todo)
  /\ LET t == Head(todo).tx
         stop == SelectInSeq(Ins[t], Stops)
     IN  IF Head(todo).seq > baseSeq
         THEN /\ waiting' = Append(waiting, Head(todo))
              /\ UNCHANGED <<entries, spent, probe, reply>>
         ELSE IF ~active \/ InMempool(t) THEN Answer(t, "rejected")
         ELSE IF stop # 0
              THEN IF Ins[t][stop] \in DOMAIN spent THEN Answer(t, "rejected")
                   ELSE Wait(t, Max(WaitingSeq(Maker(Ins[t][stop]))))
         ELSE /\ probe' = [tx |-> t, stage |-> "cache", got |-> <<>>, slot |-> <<>>,
                           left |-> SelectSeq(Ins[t], LAMBDA c : Maker(c) \notin ToSet(entries))]
              /\ UNCHANGED <<entries, spent, waiting, reply>>
  /\ UNCHANGED <<utxoVars, wake, inbox, active, base, baseSeq, at>>

(***************************************************************************)
(* UTXODb::query for one input: the cache, then the published revision     *)
(***************************************************************************)
Got(found) ==
  probe' = [probe EXCEPT !.stage = "cache", !.got = Append(@, found), !.left = Tail(@)]

Probed == UNCHANGED <<utxoVars, wake, inbox, active, base, baseSeq, entries, spent, waiting, at, todo, reply>>

ProbeCache ==
  /\ probe # None /\ probe.stage = "cache" /\ probe.left # <<>>
  /\ IF Head(probe.left) \in DOMAIN cache
     THEN Got(cache[Head(probe.left)])
     ELSE probe' = [probe EXCEPT !.stage = "view"]
  /\ Probed

ProbeView ==
  /\ probe # None /\ probe.stage = "view"
  /\ Got(IF Head(probe.left) \in DOMAIN view.coins THEN view.coins[Head(probe.left)] ELSE None)
  /\ Probed

(***************************************************************************)
(* The age rule, with one load of the sequence after all probes: a coin    *)
(* that is not Restored and no higher than the base's height less the lag  *)
(* was there at the base.                                                  *)
(***************************************************************************)
Lag == changeSeq - baseSeq

UnsureUnmarked(meta) ==
  IF meta = None THEN Lag # 0 ELSE meta.h > Height(base) - Lag

Unsure(meta) ==
  IF meta = None \/ meta.restored THEN Lag # 0 ELSE meta.h > Height(base) - Lag

Unresolved(got) == \E i \in DOMAIN got : Unsure(got[i])

Conclude ==
  /\ probe # None /\ probe.stage = "cache" /\ probe.left = <<>>
  /\ IF Unresolved(probe.got) THEN Wait(probe.tx, changeSeq)
     ELSE IF None \in ToSet(probe.got) THEN Answer(probe.tx, "missing")
     ELSE /\ \E h \in 0..Height(base) :
               probe' = [probe EXCEPT !.stage = "checks", !.got = <<>>,
                           !.slot = [h |-> h, index |-> IF h \in DOMAIN slots THEN slots[h] ELSE None]]
          /\ UNCHANGED <<entries, spent, waiting, reply>>
  /\ UNCHANGED <<utxoVars, wake, inbox, active, base, baseSeq, at, todo>>

\* baseAncestor: the slot, if the sequence loaded after it says it is the base's

BaseAncestor(slot) ==
  IF slot.index # None /\ slot.h < Height(base) - Lag THEN slot.index ELSE Path[base][slot.h + 1]

\* The contextual checks, the policy and the limits: pass or not
Judge ==
  /\ probe # None /\ probe.stage = "checks"
  /\ Accept(probe.tx) \/ Answer(probe.tx, "rejected")
  /\ UNCHANGED <<utxoVars, wake, inbox, active, base, baseSeq, at, todo>>

-----------------------------------------------------------------------------
Writer ==
  \/ OnWake \/ TakeInbox \/ PassDone \/ OnActivate
  \/ Decide \/ ProbeCache \/ ProbeView \/ Conclude \/ Judge

Next ==
  \/ \E b \in Blocks : Connect(b)
  \/ Disconnect \/ BeginChange \/ EditCache \/ Commit
  \/ Activate \/ \E t \in Txs : Submit(t)
  \/ Writer

Spec == Init /\ [][Next]_vars

\* The writer's loop runs while it has work, and an operation of the database ends
FairSpec == Spec /\ WF_vars(Writer) /\ WF_vars(BeginChange \/ EditCache \/ Commit)

-----------------------------------------------------------------------------
(***************************************************************************)
(* Types; and the cache agrees with what the database will publish or has  *)
(* published: a positive is always exact once the operation's edits are in *)
(***************************************************************************)
TypeOK ==
  /\ changeSeq \in view.seq..MaxSeq /\ baseSeq \in 0..view.seq
  /\ LET coins == IF op = None THEN view.coins ELSE op.coins IN
       edits = <<>> => \A c \in DOMAIN cache : c \in DOMAIN coins /\ cache[c] = coins[c]
  /\ Len(waiting) <= MaxWaiting

(***************************************************************************)
(* The mempool is consistent with its base, whatever the database did      *)
(* under the probes: every input of an entry is a coin of the base's chain *)
(* or made by another entry, no two entries spend the same coin, and       *)
(* Spent_ says exactly who spends what.                                    *)
(***************************************************************************)
ConsistentWithBase ==
  /\ \A t \in ToSet(entries) : \A c \in ToSet(Ins[t]) :
       /\ c \in DOMAIN UtxoAt[base] \/ Maker(c) \in ToSet(entries)
       /\ c \in DOMAIN spent /\ spent[c] = t
  /\ \A c \in DOMAIN spent : spent[c] \in ToSet(entries)

(***************************************************************************)
(* baseAncestor gives the base's own ancestor, although the height index   *)
(* is the best chain's and changes between the two loads.                  *)
(***************************************************************************)
AncestorExact ==
  probe # None /\ probe.stage = "checks" =>
    BaseAncestor(probe.slot) = Path[base][probe.slot.h + 1]

(***************************************************************************)
(* Every transaction given to the mempool gets its verdict in the end: the *)
(* ones that wait are woken by the revision they wait for.                 *)
(***************************************************************************)
Answered == \A t \in Txs : Sent(t) ~> reply[t] # "none"
=============================================================================
