------------------------------- MODULE TxRelay -------------------------------
(***************************************************************************)
(* Transaction relay (BTC/txRelay.cpp).  Network threads queue what peers  *)
(* announce, send or do not have; the mempool's writer thread takes the    *)
(* queue, asks one announcer at a time for each transaction, hands what    *)
(* arrives to the mempool, keeps the ones whose parents are missing and    *)
(* tries them again when a parent or a block comes.  The mempool's         *)
(* decisions (module Mempool) are any that its inputs allow.  Times are    *)
(* seconds still to go; an id is a txid, a key a txid or a wtxid.          *)
(***************************************************************************)
EXTENDS Integers, Sequences, FiniteSets, SequencesExt

CONSTANTS
  Peers, None,
  Txs,               \* transactions peers know of
  Ids,               \* all txids: Txs, what only blocks hold, old ones
  Inputs,            \* id -> the outpoints it spends, as <<id, index>>
  Keys,              \* id -> the reject keys of its copies (witness variants)
  Invs,              \* the announcements: sequences of ids
  Blocks,            \* the blocks: sets of ids
  MaxOrphans, OrphanLifetime, RequestTimeout, OverloadedPeerDelay,
  MaxPeerRequestsInFlight, MaxPeerAnnouncements, MarksSlack,
  ConfirmedBlocks, MaxRejected, MaxPeerQueued, MaxQueued,
  MaxMessages,       \* bound: messages from peers
  MaxBases           \* bound: base changes

RelayAssumption ==
  /\ Txs \subseteq Ids /\ \A t \in Txs : Keys[t] # {}
  /\ RequestTimeout > 0 /\ OverloadedPeerDelay > 0 /\ OrphanLifetime > 0

VARIABLES
  deleted,   \* peers with Deleted_ set
  noticed,   \* of those, the ones that RemovePeer has reported
  inbox, woken, queued,
  view,      \* the transactions of the published view, None before activation
  pc, batch, \* the writer: where its pass is, the messages it took
  tries,     \* the waiting transactions, or the ready orphans, still to be tried
  chain,     \* the blocks of the mempool's base
  w,         \* the writer's state, mempool and relay
  timer,     \* seconds until TimerDeadline_, 0 when it fired
  messages, bases

vars == <<deleted, noticed, inbox, woken, queued, view, pc, batch, tries, chain, w, timer, messages, bases>>

Request0 == [announcers |-> <<>>, requested |-> None, mark |-> 0]
Peer0 == [inFlight |-> 0, announced |-> 0, batch |-> <<>>]
Nothing == [x \in {} |-> None]
Without(f, k) == [x \in DOMAIN f \ {k} |-> f[x]]
With(f, k, v) == [x \in DOMAIN f \union {k} |-> IF x = k THEN v ELSE f[x]]

Init ==
  /\ deleted = {} /\ noticed = {} /\ inbox = <<>> /\ woken = FALSE
  /\ queued = [p \in Peers |-> 0] /\ view = None
  /\ pc = "idle" /\ batch = <<>> /\ tries = <<>> /\ chain = <<{}>>
  /\ w = [pool |-> {}, waiting |-> {}, orphans |-> Nothing, added |-> {}, retryAll |-> FALSE,
          recent |-> <<>>, confirmed |-> [t \in Ids |-> 0], rejected |-> {},
          requests |-> Nothing, order |-> <<>>, delayed |-> <<>>, seq |-> 0, peers |-> Nothing]
  /\ timer = 0 /\ messages = 0 /\ bases = 0

-----------------------------------------------------------------------------
(***************************************************************************)
(* Requests                                                                *)
(***************************************************************************)
InMempool(s, t) == t \in s.pool \/ \E x \in s.waiting : x.tx = t

Known(s, t) == InMempool(s, t) \/ t \in DOMAIN s.orphans \/ s.confirmed[t] > 0 \/ t \in s.rejected

\* mark(): a new live mark; stale ones are compacted away when they outnumber the requests
MarkReused(s, line, t, time) ==
  LET r == [s EXCEPT !.seq = 1, !.requests[t].mark = 1]
  IN  [r EXCEPT ![line] = Append(@, [time |-> time, id |-> t, seq |-> 1])]

Mark(s, line, t, time) ==
  LET r == [s EXCEPT !.seq = @ + 1, !.requests[t].mark = s.seq + 1]
      marks == Append(r[line], [time |-> time, id |-> t, seq |-> r.seq])
      LiveMark(m) == m.id \in DOMAIN r.requests /\ r.requests[m.id].mark = m.seq
  IN  [r EXCEPT ![line] = IF Len(marks) > 2 * Cardinality(DOMAIN r.requests) + MarksSlack
                          THEN SelectSeq(marks, LiveMark) ELSE marks]

Ask(s, t, p) ==
  LET r == Mark([s EXCEPT !.requests[t].requested = p], "order", t, RequestTimeout)
  IN  [r EXCEPT !.peers[p].inFlight = @ + 1, !.peers[p].batch = Append(@, t)]

Delay(s, t) == Mark(s, "delayed", t, OverloadedPeerDelay)

Overloaded(s, p) == s.peers[p].inFlight >= MaxPeerRequestsInFlight

RequestNext(s, t, waited) ==
  LET who == s.requests[t].announcers
      free == SelectInSeq(who, LAMBDA p : p \in DOMAIN s.peers /\ ~Overloaded(s, p))
  IN  IF free # 0 THEN Ask(s, t, who[free])
      ELSE IF who = <<>> THEN s
      ELSE IF waited THEN Ask(s, t, Head(who))
      ELSE Delay(s, t)

\* peerState(): a peer that left gets no new state

PeerState(s, p) ==
  IF p \in DOMAIN s.peers \/ p \in deleted THEN s
  ELSE [s EXCEPT !.peers = With(@, p, Peer0)]

Announce(s0, p, t) ==
  LET s == IF Known(s0, t) THEN s0 ELSE PeerState(s0, p) IN
  IF Known(s0, t) \/ p \notin DOMAIN s.peers THEN s
  ELSE IF s.peers[p].announced >= MaxPeerAnnouncements THEN s
  ELSE LET entry == IF t \in DOMAIN s.requests THEN s.requests[t] ELSE Request0
           r == [s EXCEPT !.requests = With(@, t, [entry EXCEPT !.announcers = Append(@, p)]),
                          !.peers[p].announced = @ + 1]
       IN  IF Contains(entry.announcers, p) THEN s
           ELSE IF entry.requested # None THEN r
           ELSE IF ~Overloaded(s, p) THEN Ask(r, t, p)
           ELSE IF entry.announcers = <<>> THEN Delay(r, t)
           ELSE r

\* dropRequest(): the peer will not deliver, the next announcer is asked
DropRequest(s, t, p) ==
  IF t \notin DOMAIN s.requests \/ ~Contains(s.requests[t].announcers, p) THEN s
  ELSE LET held == s.requests[t].requested = p
           r == [s EXCEPT !.requests[t].announcers = SelectSeq(@, LAMBDA x : x # p),
                          !.requests[t].requested = IF held THEN None ELSE @,
                          !.peers = IF p \notin DOMAIN @ THEN @
                                    ELSE [@ EXCEPT ![p].announced = @ - 1,
                                                   ![p].inFlight = IF held THEN @ - 1 ELSE @]]
           n == IF held THEN RequestNext(r, t, FALSE) ELSE r
       IN  IF n.requests[t].requested = None /\ n.requests[t].announcers = <<>>
           THEN [n EXCEPT !.requests = Without(@, t)] ELSE n

\* forget(): known now
Forget(s, t) ==
  IF t \notin DOMAIN s.requests THEN s
  ELSE LET entry == s.requests[t] IN
       [s EXCEPT !.requests = Without(@, t),
                 !.peers = [p \in DOMAIN @ |->
                   [@[p] EXCEPT !.announced = IF Contains(entry.announcers, p) THEN @ - 1 ELSE @,
                                !.inFlight = IF entry.requested = p THEN @ - 1 ELSE @]]]

OnPeerGone(s, p) ==
  LET r == [s EXCEPT !.orphans = [t \in {x \in DOMAIN @ : @[x].source # p} |-> @[t]]]
      announced == {t \in DOMAIN r.requests : Contains(r.requests[t].announcers, p)}
      d == FoldLeft(LAMBDA acc, t : DropRequest(acc, t, p), r, SetToSeq(announced))
  IN  IF p \notin DOMAIN s.peers THEN r ELSE [d EXCEPT !.peers = Without(@, p)]

\* timeouts() and delayed(): the marks whose time has come, the live ones acted upon
RECURSIVE TimeoutsStale(_)
TimeoutsStale(s) ==
  IF s.order = <<>> \/ Head(s.order).time > 0 THEN s
  ELSE LET m == Head(s.order)
           r == [s EXCEPT !.order = Tail(@)]
       IN  TimeoutsStale(IF m.id \in DOMAIN r.requests /\ r.requests[m.id].requested # None
                         THEN DropRequest(r, m.id, r.requests[m.id].requested) ELSE r)

RECURSIVE Timeouts(_)
Timeouts(s) ==
  IF s.order = <<>> \/ Head(s.order).time > 0 THEN s
  ELSE LET m == Head(s.order)
           r == [s EXCEPT !.order = Tail(@)]
       IN  Timeouts(IF m.id \in DOMAIN r.requests /\ r.requests[m.id].mark = m.seq
                    THEN DropRequest(r, m.id, r.requests[m.id].requested) ELSE r)

RECURSIVE Delayed(_)
Delayed(s) ==
  IF s.delayed = <<>> \/ Head(s.delayed).time > 0 THEN s
  ELSE LET m == Head(s.delayed)
           r == [s EXCEPT !.delayed = Tail(@)]
       IN  Delayed(IF m.id \in DOMAIN r.requests /\ r.requests[m.id].mark = m.seq
                   THEN RequestNext(r, m.id, TRUE) ELSE r)

SendRequests(s) == [s EXCEPT !.peers = [p \in DOMAIN @ |-> [@[p] EXCEPT !.batch = <<>>]]]

-----------------------------------------------------------------------------
(***************************************************************************)
(* Acceptance.  x is a transaction handed to the mempool: its id, reject   *)
(* key, the peer it came from (None for a local one), and whether it is an *)
(* orphan tried again, which keeps its lifetime.                           *)
(***************************************************************************)
Confirmed == UNION ToSet(chain)
Available(s, o) == \/ o[1] \in s.pool
                   \/ (o[1] \in Confirmed \/ o[1] \notin Txs) /\ \A t \in Confirmed : o \notin Inputs[t]

Missing(s, t) == {o[1] : o \in {i \in Inputs[t] : ~Available(s, i)}}

\* What CMempool::decide may answer
Outcomes(s, x) ==
  IF InMempool(s, x.tx) THEN {"reject"}
  ELSE {"reject", "wait"} \union (IF Missing(s, x.tx) = {} THEN {"accept"} ELSE {"missing"})

Reject(s, key) == [s EXCEPT !.rejected = (IF Cardinality(@) >= MaxRejected THEN {} ELSE @) \union {key}]

OldestOrphans(s) ==
  {t \in DOMAIN s.orphans : \A u \in DOMAIN s.orphans : s.orphans[t].expire <= s.orphans[u].expire}

\* The end of onVerdict: a place among the orphans, the parents asked of the sender
Keep(s, x, missing) ==
  LET full == Cardinality(DOMAIN s.orphans) >= MaxOrphans
      room == IF full THEN Without(s.orphans, CHOOSE t \in OldestOrphans(s) : TRUE) ELSE s.orphans
      kept == [s EXCEPT !.orphans = With(room, x.tx,
                 [key |-> x.key, source |-> x.source, missing |-> missing,
                  expire |-> IF x.retry THEN x.expire ELSE OrphanLifetime])]
  IN  IF x.retry THEN kept
      ELSE FoldLeft(LAMBDA acc, t : Announce(acc, x.source, t), kept, SetToSeq(missing))

OnMissing(s, x) ==
  LET missing == Missing(s, x.tx) IN
  IF \E t \in missing : t \in s.rejected \/ s.confirmed[t] > 0 THEN Reject(s, x.tx)
  ELSE IF x.source \in deleted THEN s
  ELSE Keep(s, x, missing)

TransactionAdded(s, t) == Forget([s EXCEPT !.added = @ \union {t}], t)

\* apply() and onVerdict(); a local transaction's verdict goes elsewhere
Apply(s, x, outcome) ==
  CASE outcome = "accept" -> TransactionAdded([s EXCEPT !.pool = @ \union {x.tx}], x.tx)
    [] outcome = "wait" -> [s EXCEPT !.waiting = @ \union {x}]
    [] x.source = None -> s
    [] outcome = "reject" -> Reject(s, x.key)
    [] OTHER -> OnMissing(s, x)

\* onTx(): already decided, or to the mempool
Decided(s, x) ==
  x.tx \in DOMAIN s.orphans \/ s.confirmed[x.tx] > 0 \/ {x.key, x.tx} \intersect s.rejected # {} \/ InMempool(s, x.tx)

OnTx(s, x, outcome) == IF Decided(Forget(s, x.tx), x) THEN Forget(s, x.tx) ELSE Apply(Forget(s, x.tx), x, outcome)

-----------------------------------------------------------------------------
(***************************************************************************)
(* The chain                                                               *)
(***************************************************************************)
Spends(S) == UNION {Inputs[t] : t \in S}

\* blockConnected(): the confirmed filter, the orphans included or in conflict
BlockConnected(s, block) ==
  LET kept == {t \in DOMAIN s.orphans : t \notin block /\ Inputs[t] \intersect Spends(block) = {}}
      f == FoldLeft(LAMBDA acc, t : Forget(acc, t), s, SetToSeq(block))
      recent == Append(f.recent, block)
      old == Len(recent) > ConfirmedBlocks
  IN  [f EXCEPT !.orphans = [t \in kept |-> @[t]],
                !.recent = IF old THEN Tail(recent) ELSE recent,
                !.confirmed = [t \in Ids |-> @[t] + (IF t \in block THEN 1 ELSE 0)
                                                  - (IF old /\ t \in Head(recent) THEN 1 ELSE 0)]]

BaseChanged(s, disconnected) ==
  LET r == [s EXCEPT !.rejected = {}, !.retryAll = TRUE] IN
  IF disconnected THEN [r EXCEPT !.confirmed = [t \in Ids |-> 0], !.recent = <<>>] ELSE r

\* connectBlock() in the mempool: the confirmed leave, the conflicting leave with their descendants
RECURSIVE WithChildren(_, _)
WithChildren(pool, S) ==
  LET more == {t \in pool : \E o \in Inputs[t] : o[1] \in S} \ S
  IN  IF more = {} THEN S ELSE WithChildren(pool, S \union more)

Unconfirmed(pool, block) ==
  LET rest == pool \ block
      struck == {t \in rest : Inputs[t] \intersect Spends(block) # {}}
  IN  rest \ WithChildren(rest, struck)

Fits(block, below) ==
  /\ block \intersect below = {} /\ Spends(block) \intersect Spends(below) = {}
  /\ \A t \in block : \A o \in Inputs[t] : o[1] \in Txs => o[1] \in below \union block

-----------------------------------------------------------------------------
(***************************************************************************)
(* Network threads                                                         *)
(***************************************************************************)
Total == FoldLeft(LAMBDA n, m : IF m.type = "gone" THEN n ELSE n + 1, 0, inbox \o batch)

\* admit(), then send(): over a share, the message is dropped
SendMessage(m) ==
  IF queued[m.peer] < MaxPeerQueued /\ Total < MaxQueued
  THEN inbox' = Append(inbox, m) /\ woken' = TRUE /\ queued' = [queued EXCEPT ![m.peer] = @ + 1]
  ELSE UNCHANGED <<inbox, woken, queued>>

\* Before activation, or for what the view has, nothing is queued.  The messages of a peer may
\* outlive the notice of its leaving
Received == view # None /\ messages < MaxMessages /\ messages' = messages + 1

ReceiveInv(p, ids) ==
  /\ Received
  /\ LET unknown == SelectSeq(ids, LAMBDA t : t \notin view) IN
     unknown # <<>> /\ SendMessage([type |-> "inv", peer |-> p, ids |-> unknown])
  /\ UNCHANGED <<deleted, noticed, view, pc, batch, tries, chain, w, timer, bases>>

ReceiveTx(p, t, key) ==
  /\ Received
  /\ t \notin view
  /\ SendMessage([type |-> "tx", peer |-> p, x |-> [tx |-> t, key |-> key, source |-> p, retry |-> FALSE, expire |-> 0]])
  /\ UNCHANGED <<deleted, noticed, view, pc, batch, tries, chain, w, timer, bases>>

ReceiveNotFound(p, t) ==
  /\ Received
  /\ SendMessage([type |-> "notfound", peer |-> p, ids |-> <<t>>])
  /\ UNCHANGED <<deleted, noticed, view, pc, batch, tries, chain, w, timer, bases>>

\* RemovePeer(): Deleted_ first, the notice later; messages of the peer may still follow it
Disconnect(p) ==
  /\ p \notin deleted /\ deleted' = deleted \union {p}
  /\ UNCHANGED <<noticed, inbox, woken, queued, view, pc, batch, tries, chain, w, timer, messages, bases>>

PeerGone(p) ==
  /\ p \in deleted \ noticed /\ noticed' = noticed \union {p}
  /\ IF view # None THEN inbox' = Append(inbox, [type |-> "gone", peer |-> p]) /\ woken' = TRUE
     ELSE UNCHANGED <<inbox, woken>>
  /\ UNCHANGED <<deleted, queued, view, pc, batch, tries, chain, w, timer, messages, bases>>

-----------------------------------------------------------------------------
(***************************************************************************)
(* The writer's pass (CMempool::onWake, CTxRelay::onWake)                  *)
(***************************************************************************)
Tries(s) == SetToSeq(s.waiting)

\* sync(): forward block by block, otherwise a jump that starts over
Walk(block) ==
  /\ Fits(block, Confirmed) /\ chain' = Append(chain, block)
  /\ \E expired \in {{}, w.pool \ block} :
       LET s == BaseChanged(BlockConnected([w EXCEPT !.pool = Unconfirmed(@, block)], block), FALSE)
       IN  w' = [s EXCEPT !.pool = @ \ expired, !.waiting = {}]

Jump(n, block) ==
  /\ Fits(block, UNION ToSet(SubSeq(chain, 1, n))) /\ chain' = SubSeq(chain, 1, n) \o <<block>>
  /\ LET s == BaseChanged([w EXCEPT !.pool = {}, !.waiting = {}], TRUE)
     IN  w' = FoldLeft(LAMBDA acc, b : BlockConnected(acc, b), s, chain')

Sync ==
  /\ pc = "idle" /\ view # None /\ bases < MaxBases /\ bases' = bases + 1
  /\ \E block \in Blocks : Walk(block) \/ \E n \in 0..(Len(chain) - 1) : Jump(n, block)
  /\ tries' = Tries(w) /\ pc' = "sync" /\ woken' = FALSE
  /\ UNCHANGED <<deleted, noticed, inbox, queued, view, batch, timer, messages>>

Wake ==
  /\ pc = "idle" /\ woken
  /\ woken' = FALSE /\ pc' = "sync"
  /\ UNCHANGED <<deleted, noticed, inbox, queued, view, batch, tries, chain, w, timer, messages, bases>>

Activate ==
  /\ pc = "idle" /\ view = None /\ view' = w.pool
  /\ UNCHANGED <<deleted, noticed, inbox, woken, queued, pc, batch, tries, chain, w, timer, messages, bases>>

\* retryWaiting(): a verdict, or a wait for another base
RetryWaiting ==
  /\ pc = "sync" /\ tries # <<>>
  /\ \E outcome \in Outcomes(w, Head(tries)) : w' = Apply(w, Head(tries), outcome)
  /\ tries' = Tail(tries)
  /\ UNCHANGED <<deleted, noticed, inbox, woken, queued, view, pc, batch, chain, timer, messages, bases>>

\* A local submission, then the relay takes its queue
Submit(t, key) ==
  /\ pc = "sync" /\ tries = <<>> /\ view # None /\ messages < MaxMessages /\ messages' = messages + 1
  /\ LET x == [tx |-> t, key |-> key, source |-> None, retry |-> FALSE, expire |-> 0] IN
     \E outcome \in Outcomes(w, x) : w' = Apply(w, x, outcome)
  /\ UNCHANGED <<deleted, noticed, inbox, woken, queued, view, pc, batch, tries, chain, timer, bases>>

Take ==
  /\ pc = "sync" /\ tries = <<>>
  /\ batch' = inbox /\ inbox' = <<>> /\ pc' = "messages"
  /\ UNCHANGED <<deleted, noticed, woken, queued, view, tries, chain, w, timer, messages, bases>>

Handle ==
  /\ pc = "messages" /\ batch # <<>>
  /\ LET m == Head(batch) IN
     /\ \/ m.type = "inv" /\ w' = FoldLeft(LAMBDA s, t : Announce(s, m.peer, t), w, m.ids)
        \/ m.type = "tx" /\ \E outcome \in Outcomes(w, m.x) : w' = OnTx(w, m.x, outcome)
        \/ m.type = "notfound" /\ w' = FoldLeft(LAMBDA s, t : DropRequest(s, t, m.peer), w, m.ids)
        \/ m.type = "gone" /\ w' = OnPeerGone(w, m.peer)
     /\ queued' = [queued EXCEPT ![m.peer] = IF m.type = "gone" THEN @ ELSE @ - 1]
  /\ batch' = Tail(batch)
  /\ UNCHANGED <<deleted, noticed, inbox, woken, view, pc, tries, chain, timer, messages, bases>>

\* retryOrphans(): what the accepted parents or the new base may have made ready
Ready(s) == {t \in DOMAIN s.orphans : s.retryAll \/ s.orphans[t].missing \intersect s.added # {}}

Collect ==
  /\ pc = "messages" /\ batch = <<>> /\ tries = <<>> /\ (w.retryAll \/ w.added # {})
  /\ tries' = SetToSeq(Ready(w))
  /\ w' = [w EXCEPT !.retryAll = FALSE, !.added = {}]
  /\ UNCHANGED <<deleted, noticed, inbox, woken, queued, view, pc, batch, chain, timer, messages, bases>>

RetryOrphan ==
  /\ pc = "messages" /\ batch = <<>> /\ tries # <<>>
  /\ LET t == Head(tries)
         gone == t \notin DOMAIN w.orphans
         o == w.orphans[t]
         x == [tx |-> t, key |-> o.key, source |-> o.source, retry |-> TRUE, expire |-> o.expire]
         s == [w EXCEPT !.orphans = Without(@, t)]
     IN  \/ gone /\ w' = w
         \/ ~gone /\ \E outcome \in Outcomes(s, x) : w' = Apply(s, x, outcome)
  /\ tries' = Tail(tries)
  /\ UNCHANGED <<deleted, noticed, inbox, woken, queued, view, pc, batch, chain, timer, messages, bases>>

ExpireOrphans(s) == [s EXCEPT !.orphans = [t \in {x \in DOMAIN @ : @[x].expire > 0} |-> @[t]]]

\* deadline(): the nearest of the first marks and the orphans, 0 for none
Nearest(times) == IF times = {} THEN 0 ELSE Min(times)
FirstMark(line) == {line[i].time : i \in DOMAIN line \intersect {1}}

DeadlineForgets(s) == Nearest(FirstMark(s.delayed) \union {s.orphans[t].expire : t \in DOMAIN s.orphans})

Deadline(s) ==
  Nearest(FirstMark(s.order) \union FirstMark(s.delayed) \union {s.orphans[t].expire : t \in DOMAIN s.orphans})

Finish ==
  /\ pc = "messages" /\ batch = <<>> /\ tries = <<>> /\ ~w.retryAll /\ w.added = {}
  /\ w' = SendRequests(Delayed(Timeouts(ExpireOrphans(w))))
  /\ timer' = IF Deadline(w') \in {0, timer} THEN timer ELSE Deadline(w')
  /\ pc' = "idle" /\ view' = IF view = None THEN None ELSE w'.pool
  /\ UNCHANGED <<deleted, noticed, inbox, woken, queued, batch, tries, chain, messages, bases>>

\* A second passes; the timer wakes the writer
Less(n) == IF n = 0 THEN 0 ELSE n - 1

Tick ==
  LET s == [w EXCEPT !.order = [i \in DOMAIN @ |-> [@[i] EXCEPT !.time = Less(@)]],
                     !.delayed = [i \in DOMAIN @ |-> [@[i] EXCEPT !.time = Less(@)]],
                     !.orphans = [t \in DOMAIN @ |-> [@[t] EXCEPT !.expire = Less(@)]],
                     !.waiting = {[x EXCEPT !.expire = Less(@)] : x \in @}]
  IN
  /\ pc = "idle" /\ (s # w \/ timer # 0)
  /\ w' = s /\ timer' = Less(timer) /\ woken' = (woken \/ timer = 1)
  /\ UNCHANGED <<deleted, noticed, inbox, queued, view, pc, batch, tries, chain, messages, bases>>

Writer == Wake \/ RetryWaiting \/ Take \/ Handle \/ Collect \/ RetryOrphan \/ Finish

Next ==
  \/ \E p \in Peers : \/ \E ids \in Invs : ReceiveInv(p, ids)
                      \/ \E t \in Txs : ReceiveNotFound(p, t) \/ \E key \in Keys[t] : ReceiveTx(p, t, key)
                      \/ Disconnect(p) \/ PeerGone(p)
  \/ \E t \in Txs : \E key \in Keys[t] : Submit(t, key)
  \/ Sync \/ Activate \/ Writer \/ Tick

Spec == Init /\ [][Next]_vars

\* The writer's thread runs: each wake is followed by a whole pass.  The clock goes on.
\* Peers and blocks promise nothing
FairSpec == Spec /\ []<>(pc = "idle" /\ ~woken) /\ WF_vars(Tick)

-----------------------------------------------------------------------------
(***************************************************************************)
(* Types and limits; a peer's share of the queue is what it has in it; the *)
(* filter counts the recent blocks that hold an id.                        *)
(***************************************************************************)
TypeOK ==
  /\ pc \in {"idle", "sync", "messages"} /\ noticed \subseteq deleted
  /\ Cardinality(DOMAIN w.orphans) <= MaxOrphans /\ Cardinality(w.rejected) <= MaxRejected
  /\ \A p \in Peers : queued[p] = Len(SelectSeq(inbox \o batch, LAMBDA m : m.peer = p /\ m.type # "gone"))
  /\ \A t \in Ids : w.confirmed[t] = Cardinality({i \in DOMAIN w.recent : t \in w.recent[i]})

(***************************************************************************)
(* The counters of a peer are those of the requests that name it, every    *)
(* announcer of a request has state (the assertion in request()), and the  *)
(* peer asked is one of the announcers.                                    *)
(***************************************************************************)
CountsMatch ==
  /\ \A p \in DOMAIN w.peers :
       /\ w.peers[p].inFlight = Cardinality({t \in DOMAIN w.requests : w.requests[t].requested = p})
       /\ w.peers[p].announced = Cardinality({t \in DOMAIN w.requests : Contains(w.requests[t].announcers, p)})
  /\ \A t \in DOMAIN w.requests :
       LET r == w.requests[t] IN
       ToSet(r.announcers) \subseteq DOMAIN w.peers /\ r.requested \in ToSet(r.announcers) \union {None}

(***************************************************************************)
(* A request has exactly one live mark: among the deadlines while a peer   *)
(* is asked, among the delayed asks while none is.  Without it a request   *)
(* waits for good or is passed on twice.                                   *)
(***************************************************************************)
OneLiveMark ==
  \A t \in DOMAIN w.requests :
    LET r == w.requests[t]
        InLine(line) == Cardinality({i \in DOMAIN line : line[i].id = t /\ line[i].seq = r.mark})
    IN  /\ r.announcers # <<>>
        /\ InLine(w.order) = (IF r.requested # None THEN 1 ELSE 0)
        /\ InLine(w.delayed) = (IF r.requested = None THEN 1 ELSE 0)

(***************************************************************************)
(* Between passes no orphan is left whose missing parents have all come:   *)
(* a parent accepted while orphans are tried makes its own children ready. *)
(***************************************************************************)
NoOrphanLeft == pc = "idle" => \A t \in DOMAIN w.orphans : Missing(w, t) # {}

(***************************************************************************)
(* Once the notice of a peer's leaving has been handled, nothing the       *)
(* relay keeps names it, whatever came of it late.                         *)
(***************************************************************************)
GoneIsForgotten ==
  \A p \in noticed :
    ~(\E i \in DOMAIN (inbox \o batch) : (inbox \o batch)[i].type = "gone" /\ (inbox \o batch)[i].peer = p) =>
      p \notin DOMAIN w.peers /\ \A t \in DOMAIN w.orphans : w.orphans[t].source # p

(***************************************************************************)
(* "No announcement waits for good": every request ends, answered or with  *)
(* all its announcers asked in turn.                                       *)
(***************************************************************************)
RequestsEnd == \A t \in Ids : (t \in DOMAIN w.requests) ~> (t \notin DOMAIN w.requests)
=============================================================================
