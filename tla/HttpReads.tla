----------------------------- MODULE HttpReads -----------------------------
(***************************************************************************)
(* Requests of the HTTP API that look at the chain while it moves          *)
(* (BTC/http.cpp over BlockInMemoryIndex).  The pipeline's serial stage    *)
(* takes blocks off and puts blocks on (common/blockDataBase.cpp), one     *)
(* store after the other; a request reads the same words, one after the    *)
(* other, on another thread.  The archive follows in order, behind; the    *)
(* mempool publishes a view without the transactions of a connected block, *)
(* and an empty one after a disconnect.                                    *)
(*                                                                         *)
(* Blocks form a fixed tree, all of them validated; one transaction is in  *)
(* TxBlocks and may wait in the mempool.                                   *)
(***************************************************************************)
EXTENDS Integers, Sequences, FiniteSets, SequencesExt

CONSTANTS
  Blocks, Genesis, None,
  Prev,           \* block -> its parent
  Height,         \* block -> its height
  Tips,           \* tips the pipeline may switch to
  TxBlocks,       \* the blocks with the transaction
  Limits,         \* page limits
  Kinds,          \* kinds of requests made
  MaxSwitches     \* bound: switches of the chain

VARIABLES
  next,           \* block -> Next
  onChain,        \* blocks with BFOnChain
  byHeight,       \* BlockHeightIndex_
  best,           \* BestIndex_
  todo,           \* stores the serial stage has still to make, in order
  archiveTodo,    \* connects and disconnects the archive has still to apply
  archived,       \* blocks the archive has connected
  memTodo,        \* moves of the base the mempool has still to follow
  pooled,         \* the transaction is in the published view
  switches,       \* switches left
  req,            \* the request being answered
  seen            \* history: tips and disconnects since the request came, and
                  \* whether the transaction was nowhere at some moment
vars == <<next, onChain, byHeight, best, todo, archiveTodo, archived, memTodo, pooled, switches, req, seen>>
chain == <<next, onChain, byHeight, best, todo, archiveTodo, archived, memTodo, pooled, switches>>

Heights == {Height[b] : b \in Blocks}
NoRequest == [kind |-> "none", at |-> "idle", asc |-> FALSE, limit |-> 0, cur |-> None, top |-> None, offset |-> 0,
              items |-> <<>>, answer |-> "none"]

\* The chain below and with b, from the genesis block
PathTo[b \in Blocks] == IF b = Genesis THEN <<b>> ELSE Append(PathTo[Prev[b]], b)

Init ==
  /\ next = [b \in Blocks |-> None] /\ onChain = {Genesis}
  /\ byHeight = [h \in Heights |-> IF h = 0 THEN Genesis ELSE None]
  /\ best = Genesis /\ todo = <<>>
  /\ archiveTodo = <<>> /\ archived = {Genesis}
  /\ memTodo = <<>> /\ pooled = TRUE
  /\ switches = MaxSwitches /\ req = NoRequest
  /\ seen = [top |-> Genesis, undone |-> FALSE, absent |-> FALSE]

(***************************************************************************)
(* The serial stage, connectSegment: the old branch comes off from its     *)
(* tip, while best still names it; the blocks of the segment are marked,   *)
(* the databases hear of all of them, and best moves last.                 *)
(***************************************************************************)
Store(what, b) == [what |-> what, block |-> b]
Each(bs, whats) == FlattenSeq([i \in DOMAIN bs |-> [j \in DOMAIN whats |-> Store(whats[j], bs[i])]])
DisconnectBlock(bs) == Each(bs, <<"unlink", "unflag", "unset", "undo">>)
MarkConnected(bs) == Each(bs, <<"link", "flag", "set">>)

ConnectSegment(tip) ==
  LET old == PathTo[best]
      new == PathTo[tip]
      off == SelectSeq(Reverse(old), LAMBDA b : b \notin ToSet(new))
      on == SelectSeq(new, LAMBDA b : b \notin ToSet(old))
  IN  /\ todo = <<>> /\ switches > 0 /\ on # <<>>
      /\ switches' = switches - 1
      /\ todo' = DisconnectBlock(off) \o MarkConnected(on) \o Each(on, <<"do">>) \o <<Store("best", tip)>>
      /\ UNCHANGED <<next, onChain, byHeight, best, archiveTodo, archived, memTodo, pooled, req, seen>>

Watched == req.at # "idle"

Apply ==
  LET what == todo[1].what
      b == todo[1].block
  IN  /\ todo # <<>>
      /\ todo' = Tail(todo)
      /\ next' = CASE what = "link" -> [next EXCEPT ![Prev[b]] = b]
                   [] what = "unlink" -> [next EXCEPT ![Prev[b]] = None]
                   [] OTHER -> next
      /\ onChain' = CASE what = "flag" -> onChain \union {b}
                      [] what = "unflag" -> onChain \ {b}
                      [] OTHER -> onChain
      /\ byHeight' = CASE what = "set" -> [byHeight EXCEPT ![Height[b]] = b]
                       [] what = "unset" -> [byHeight EXCEPT ![Height[b]] = None]
                       [] OTHER -> byHeight
      /\ best' = IF what = "best" THEN b ELSE best
      /\ archiveTodo' = IF what \in {"do", "undo"} THEN Append(archiveTodo, todo[1]) ELSE archiveTodo
      /\ memTodo' = IF what \in {"do", "undo"} THEN Append(memTodo, todo[1]) ELSE memTodo
      /\ seen' = [seen EXCEPT !.undone = @ \/ (Watched /\ what = "unlink")]
      /\ UNCHANGED <<archived, pooled, switches, req>>

\* Nowhere: neither in the archive nor in the published view
Noted(a, p) == [seen EXCEPT !.absent = @ \/ (Watched /\ a \intersect TxBlocks = {} /\ ~p)]

ArchiveStep ==
  LET s == archiveTodo[1] IN
  /\ archiveTodo # <<>>
  /\ archiveTodo' = Tail(archiveTodo)
  /\ archived' = IF s.what = "do" THEN archived \union {s.block} ELSE archived \ {s.block}
  /\ seen' = Noted(archived', pooled)
  /\ UNCHANGED <<next, onChain, byHeight, best, todo, memTodo, pooled, switches, req>>

\* The view without the block's transactions; a disconnect resets the mempool
MempoolStep ==
  LET s == memTodo[1] IN
  /\ memTodo # <<>>
  /\ memTodo' = Tail(memTodo)
  /\ pooled' = (pooled /\ s.what = "do" /\ s.block \notin TxBlocks)
  /\ seen' = Noted(archived, pooled')
  /\ UNCHANGED <<next, onChain, byHeight, best, todo, archiveTodo, archived, switches, req>>

(***************************************************************************)
(* A request comes; what the chain does from here on is noted.             *)
(***************************************************************************)
Begin(kind, at, asc, limit, block, offset) ==
  /\ req.at = "idle" /\ kind \in Kinds
  /\ req' = [NoRequest EXCEPT !.kind = kind, !.at = at, !.asc = asc, !.limit = limit,
                              !.cur = block, !.offset = offset]
  /\ seen' = [top |-> best, undone |-> best \notin onChain \/ \E i \in DOMAIN todo : todo[i].what \in {"unlink", "unflag"},
              absent |-> archived \intersect TxBlocks = {} /\ ~pooled]
  /\ UNCHANGED chain

\* onBlocksList; onBlocksByHeight and onBlocksTxs; onBlocksByHash and onBlocksLatest; onTxsByTxid
Ask ==
  \/ \E asc \in BOOLEAN, limit \in Limits, offset \in Heights :
       Begin("list", "best", asc, limit, None, offset)
  \/ \E h \in Heights : Begin("height", "lookup", TRUE, 1, None, h)
  \/ \E b \in Blocks : Begin("hash", "item", TRUE, 1, b, 0)
  \/ Begin("txid", "archive", TRUE, 1, None, 0)

At(at) == req.at = at
Answer(fields) == req' = fields /\ UNCHANGED <<chain, seen>>
Fail(why) == [req EXCEPT !.at = "done", !.answer = why]

LoadBest ==
  /\ At("best")
  /\ Answer([req EXCEPT !.top = best, !.at = "lookup"])

\* The block at a height, or the best one itself for a listing from the tip
LookupHeight ==
  LET h == IF req.asc THEN req.offset ELSE Height[req.top] - req.offset
      b == IF ~req.asc /\ req.offset = 0 THEN req.top ELSE IF h \in Heights THEN byHeight[h] ELSE None
  IN  /\ At("lookup")
      /\ Answer(IF b = None THEN Fail("not_found") ELSE [req EXCEPT !.cur = b, !.at = "item"])

\* serializeBlock or serializeTx
Item ==
  /\ At("item")
  /\ Answer([req EXCEPT !.items = Append(@, req.cur),
                        !.at = IF req.kind = "list" THEN "advance" ELSE "done",
                        !.answer = "found"])

Following(b) == IF req.asc THEN next[b] ELSE IF b = Genesis THEN None ELSE Prev[b]
FollowingByHeight(b) ==
  LET h == Height[b] + (IF req.asc THEN 1 ELSE -1) IN IF h \in Heights THEN byHeight[h] ELSE None
Walk(b) == Following(b)

Advance ==
  LET b == Walk(req.cur) IN
  /\ At("advance")
  /\ Answer([req EXCEPT !.cur = b, !.at = IF b = None \/ Len(req.items) = req.limit THEN "done" ELSE "item"])

(***************************************************************************)
(* onTxsByTxid: the archive, then the mempool's view.                      *)
(***************************************************************************)
QueryArchive ==
  /\ At("archive")
  /\ Answer(IF archived \intersect TxBlocks = {} THEN [req EXCEPT !.at = "mempool"]
            ELSE [req EXCEPT !.cur = CHOOSE b \in archived \intersect TxBlocks : TRUE, !.at = "item"])

QueryMempool ==
  /\ At("mempool")
  /\ Answer(Fail(IF pooled THEN "pooled" ELSE "not_found"))

Finish ==
  /\ At("done")
  /\ req' = NoRequest
  /\ UNCHANGED <<chain, seen>>

Next ==
  \/ \E tip \in Tips : ConnectSegment(tip)
  \/ Apply \/ ArchiveStep \/ MempoolStep
  \/ Ask \/ LoadBest \/ LookupHeight \/ Item \/ Advance \/ QueryArchive \/ QueryMempool \/ Finish

Spec == Init /\ [][Next]_vars

(***************************************************************************)
(* Properties.                                                             *)
(***************************************************************************)

\* A list is a piece of one chain: every item is the parent or the child of the
\* item before, although the list is collected while the chain is switched.
ListIsChain ==
  \A i \in 1..Len(req.items) - 1 :
    IF req.asc THEN Prev[req.items[i + 1]] = req.items[i] ELSE Prev[req.items[i]] = req.items[i + 1]

\* A list that ends before its limit is complete: upwards it reached the tip of
\* the moment the request came, unless blocks were taken off meanwhile; downwards
\* it reached the genesis block.
ListReachesEnd ==
  req.kind = "list" /\ At("done") /\ req.items # <<>> /\ Len(req.items) < req.limit =>
    IF req.asc THEN seen.undone \/ seen.top \in ToSet(PathTo[Last(req.items)])
    ELSE Last(req.items) = Genesis

\* Once the serial stage is between segments, the height index, the flags and the
\* Next pointers all describe the one chain that ends in best, and no block off it
\* points on.
IndexIsChain ==
  todo = <<>> =>
    /\ onChain = ToSet(PathTo[best])
    /\ \A h \in Heights : byHeight[h] = (IF h <= Height[best] THEN PathTo[best][h + 1] ELSE None)
    /\ \A b \in onChain \ {best} : next[b] = PathTo[best][Height[b] + 2]
    /\ \A b \in {best} \union (Blocks \ onChain) : next[b] = None

\* A transaction that is in the archive or in the mempool's view at every moment
\* of a lookup is found by it ("the chain first, then the mempool: a transaction
\* leaves the snapshot when its block comes").
TxNeverLost == req.kind = "txid" /\ req.answer = "not_found" => seen.absent
=============================================================================
