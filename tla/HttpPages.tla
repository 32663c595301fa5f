----------------------------- MODULE HttpPages -----------------------------
(***************************************************************************)
(* The page arithmetic of the HTTP API (BTC/http.cpp): which elements of a *)
(* list a request with an offset, a limit and an order is answered with.   *)
(* Numbers of a request are words of WideBits (64 in the code), heights    *)
(* words of NarrowBits (32).                                               *)
(* The list stands still.  A height of NarrowBits or more is cut to its    *)
(* low bits by the lookup: Offsets below 2^NarrowBits are the ones the     *)
(* answer is right for.                                                    *)
(***************************************************************************)
EXTENDS Integers, Sequences, FiniteSets, SequencesExt

CONSTANTS
  WideBits, NarrowBits,
  MaxTotal,       \* bound: elements of the list
  Offsets, Limits,\* request values enumerated
  HistoryCap,     \* largest page of addresses/txs and of the rich list: 500
  DepthCap        \* depth of the rich list: 1000

VARIABLES
  kind, total, ascending,   \* the list asked for
  offset, limit,            \* the request
  page                      \* the answer: positions in the list, or Refused

vars == <<kind, total, ascending, offset, limit, page>>

Wide(x) == x % 2^WideBits
Narrow(x) == x % 2^NarrowBits
Refused == <<-1>>
MinOf(x, y) == IF x < y THEN x ELSE y
Up(from, count) == [i \in 1..count |-> from + i - 1]

HistoryFrom(o, l, end) == IF end > l THEN end - l ELSE 0

History(o, asked, asc) ==
  LET l == MinOf(asked, HistoryCap)
      from == IF asc THEN o ELSE HistoryFrom(o, l, Wide(total - o))
      count == MinOf(IF asc THEN Wide(total - o) ELSE Wide(Wide(total - o) - from), l)
  IN  IF o < total
      THEN IF asc THEN Up(from, count) ELSE Reverse(Up(from, count))
      ELSE <<>>

(***************************************************************************)
(* onBlocksList: heights 0..total - 1; the height looked up is cut to its  *)
(* width.  The walk follows Next or Prev until it ends.                    *)
(***************************************************************************)
Blocks(o, l, asc) ==
  LET first == Narrow(IF asc THEN o ELSE Wide(total - 1 - o))
      count == MinOf(l, IF asc THEN total - first ELSE first + 1)
  IN  IF first >= total THEN Refused
      ELSE IF asc THEN Up(first, count) ELSE [i \in 1..count |-> first - i + 1]

\* onBlocksTxs: i from offset while i < size and i - offset < limit
BlockTxs(o, l) == IF o >= total THEN <<>> ELSE Up(o, MinOf(l, total - o))

(***************************************************************************)
(* onStatsRichList, up to the depth it allows.                             *)
(***************************************************************************)
RichDeep(o, l) == Wide(o + l) > DepthCap

RichList(o, asked) ==
  LET l == MinOf(asked, HistoryCap) IN
  IF RichDeep(o, l) THEN Refused
  ELSE IF o >= total THEN <<>> ELSE Up(o, MinOf(l, total - o))

Answer(o, l) ==
  CASE kind = "history" -> History(o, l, ascending)
    [] kind = "blocks" -> Blocks(o, l, ascending)
    [] kind = "block_txs" -> BlockTxs(o, l)
    [] kind = "rich_list" -> RichList(o, l)

Kinds == {"history", "blocks", "block_txs", "rich_list"}

Init ==
  /\ kind \in Kinds /\ total \in 1..MaxTotal
  /\ ascending \in (IF kind \in {"history", "blocks"} THEN BOOLEAN ELSE {TRUE})
  /\ offset = 0 /\ limit = 0 /\ page = <<>>

Ask(o, l) ==
  /\ offset' = o /\ limit' = l /\ page' = Answer(o, l)
  /\ UNCHANGED <<kind, total, ascending>>

Next == \E o \in Offsets, l \in Limits : Ask(o, l)

Spec == Init /\ [][Next]_vars

(***************************************************************************)
(* Properties.                                                             *)
(***************************************************************************)

\* The list in the order asked for
Listed == IF ascending THEN Up(0, total) ELSE Reverse(Up(0, total))

Capped == IF kind \in {"history", "rich_list"} THEN MinOf(limit, HistoryCap) ELSE limit


\* An accepted rich list request stays within the depth its refusal announces
\* ("rich list depth is limited to 1000").
DepthLimited ==
  kind = "rich_list" /\ page # Refused => offset + Capped <= DepthCap
=============================================================================
