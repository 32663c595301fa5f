--------------------------- MODULE HttpConnection ---------------------------
(***************************************************************************)
(* A connection of the HTTP API (BTC/http.cpp, http.h): the reads that     *)
(* collect a request, its dispatch, the one write that answers it, and the *)
(* end of the connection.  A transaction sent to the mempool is answered   *)
(* later, from the mempool's writer thread.                                *)
(*                                                                         *)
(* External: the event loop calls a handler when an operation is over,     *)
(* with a failure for what is pending or started on a deleted socket, and  *)
(* destroys the connection with the last reference: its own, one for every *)
(* operation, one for every holder.  The request parser takes any part of  *)
(* what it is given, and some of a full buffer.                            *)
(***************************************************************************)
EXTENDS Integers, FiniteSets, TLAPS

CONSTANTS
  Conns,
  Capacity,      \* bytes of the buffer
  MaxReads       \* bound: successful reads of one connection

\* The buffer of a connection has a fixed size
BufferAssumption == Capacity \in Nat

VARIABLES
  op,            \* connection -> its pending operation: none, read, write
  base, room,    \* where a pending read lands and how much it may take
  old,           \* oldDataSize
  given,         \* bytes handed to the parser by the last onRead
  filled,        \* bytes that are really there
  requests,      \* complete requests met
  replies,       \* replies written
  held,          \* a verdict is due: the reply holds the connection
  deleted,       \* Deleted_
  closes,        \* calls of deleteAioObject
  refs,          \* references of the socket object
  reads          \* successful reads so far

vars == <<op, base, room, old, given, filled, requests, replies, held, deleted, closes, refs, reads>>

Init ==
  /\ op = [c \in Conns |-> "read"]
  /\ base = [c \in Conns |-> 0] /\ room = [c \in Conns |-> Capacity]
  /\ old = [c \in Conns |-> 0] /\ given = [c \in Conns |-> 0] /\ filled = [c \in Conns |-> 0]
  /\ requests = [c \in Conns |-> 0] /\ replies = [c \in Conns |-> 0]
  /\ held = [c \in Conns |-> FALSE]
  /\ deleted = [c \in Conns |-> 0] /\ closes = [c \in Conns |-> 0]
  /\ refs = [c \in Conns |-> 2]
  /\ reads = [c \in Conns |-> 0]

(***************************************************************************)
(* removeConnection: the first caller deletes the socket object, which     *)
(* gives up its own reference.                                             *)
(***************************************************************************)
DeletesAlways(c) == TRUE
Deletes(c) == deleted[c] = 0

\* A finished operation drops its reference; what the handler starts takes one
References(c, starts, holds, removes) ==
  refs' = [refs EXCEPT ![c] = @ - 1 + starts + holds - (IF removes /\ Deletes(c) THEN 1 ELSE 0)]

Remove(c, removes) ==
  /\ deleted' = [deleted EXCEPT ![c] = IF removes THEN @ + 1 ELSE @]
  /\ closes' = [closes EXCEPT ![c] = IF removes /\ Deletes(c) THEN @ + 1 ELSE @]

StartRead(c, at) ==
  /\ op' = [op EXCEPT ![c] = "read"]
  /\ base' = [base EXCEPT ![c] = at] /\ room' = [room EXCEPT ![c] = Capacity - at]

(***************************************************************************)
(* onRead.                                                                 *)
(***************************************************************************)
ReadFailed(c) ==
  /\ op[c] = "read"
  /\ op' = [op EXCEPT ![c] = "none"]
  /\ Remove(c, TRUE) /\ References(c, 0, 0, TRUE)
  /\ UNCHANGED <<base, room, old, given, filled, requests, replies, held, reads>>

\* n bytes arrive and the parser sees them behind the retained tail
Arrives(c, n) ==
  /\ op[c] = "read" /\ deleted[c] = 0 /\ n <= room[c] /\ reads[c] < MaxReads
  /\ reads' = [reads EXCEPT ![c] = @ + 1]
  /\ given' = [given EXCEPT ![c] = old[c] + n]
  /\ filled' = [filled EXCEPT ![c] = base[c] + n]

\* Need more: the tail moves to the front, the next read lands behind it
ReadMore(c, n) ==
  /\ Arrives(c, n)
  /\ \E tail \in 0..given'[c] :
       /\ tail < Capacity
       /\ old' = [old EXCEPT ![c] = tail]
       /\ StartRead(c, tail)
  /\ References(c, 1, 0, FALSE)
  /\ UNCHANGED <<requests, replies, held, deleted, closes>>

\* The parser gives up
ReadBad(c, n) ==
  /\ Arrives(c, n)
  /\ op' = [op EXCEPT ![c] = "none"]
  /\ Remove(c, TRUE) /\ References(c, 0, 0, TRUE)
  /\ UNCHANGED <<base, room, old, requests, replies, held>>

\* A complete request: the last part of it runs onParse
Request(c, n) ==
  /\ Arrives(c, n)
  /\ requests' = [requests EXCEPT ![c] = @ + 1]

Reply(c) ==
  /\ op' = [op EXCEPT ![c] = "write"]
  /\ replies' = [replies EXCEPT ![c] = @ + 1]

\* No such function, or not a POST: answered, and the parse is cancelled, which
\* removes the connection while the answer is being written
Unknown(c, n) ==
  /\ Request(c, n)
  /\ Reply(c)
  /\ Remove(c, TRUE) /\ References(c, 1, 0, TRUE)
  /\ UNCHANGED <<base, room, old, held>>

\* Malformed JSON, a failed check of a field, an error, a result: one reply.
\* The path of a second request is appended to the first one and is unknown.
Answered(c, n) ==
  /\ Request(c, n) /\ requests[c] = 0
  /\ Reply(c)
  /\ References(c, 1, 0, FALSE)
  /\ UNCHANGED <<base, room, old, held, deleted, closes>>

\* txs/send: the mempool takes the transaction and will call the reply
Sent(c, n) ==
  /\ Request(c, n) /\ requests[c] = 0
  /\ op' = [op EXCEPT ![c] = "none"]
  /\ held' = [held EXCEPT ![c] = TRUE]
  /\ References(c, 0, 1, FALSE)
  /\ UNCHANGED <<base, room, old, replies, deleted, closes>>

\* The writer's verdict: the write takes a reference, the reply gives its own up
Verdict(c) ==
  /\ held[c]
  /\ held' = [held EXCEPT ![c] = FALSE]
  /\ Reply(c)
  /\ UNCHANGED <<base, room, old, given, filled, requests, deleted, closes, refs, reads>>

(***************************************************************************)
(* onWrite, whatever became of the write: shut the socket down and read    *)
(* once more, to meet the end of the stream.  What the peer had sent       *)
(* before may still arrive.                                                *)
(***************************************************************************)
Written(c) ==
  /\ op[c] = "write"
  /\ old' = [old EXCEPT ![c] = 0]
  /\ StartRead(c, 0)
  /\ References(c, 1, 0, FALSE)
  /\ UNCHANGED <<given, filled, requests, replies, held, deleted, closes, reads>>

Read(c) ==
  \E n \in 1..Capacity :
    ReadMore(c, n) \/ ReadBad(c, n) \/ Unknown(c, n) \/ Answered(c, n) \/ Sent(c, n)

Step(c) == ReadFailed(c) \/ Read(c) \/ Verdict(c) \/ Written(c)
Next == \E c \in Conns : Step(c)

Spec == Init /\ [][Next]_vars

(***************************************************************************)
(* Properties.                                                             *)
(***************************************************************************)

\* The references are exactly the socket's own until it is deleted, the pending
\* operation and the pending verdict: nothing frees a connection a handler or
\* the reply of a transaction will still use.
ReferencesExact ==
  \A c \in Conns :
    refs[c] = (IF closes[c] = 0 THEN 1 ELSE 0) + (IF op[c] # "none" THEN 1 ELSE 0)
              + (IF held[c] THEN 1 ELSE 0)

\* The socket object is deleted at most once, although the handler of a 404's
\* write comes after its connection was removed and leads to a second removal.
DeletedOnce == \A c \in Conns : closes[c] <= 1

\* Every complete request is answered once: by the handler, or by the verdict
\* that is still due.
OneReply == \A c \in Conns : requests[c] = replies[c] + (IF held[c] THEN 1 ELSE 0)

\* The parser is handed exactly the bytes that are there: the retained tail and
\* this read, never more than the buffer holds ("what the parser gets is what has
\* arrived").
ParserSeesArrived == \A c \in Conns : given[c] = filled[c] /\ given[c] <= Capacity

\* The inductive invariant, connection by connection.  A connection that is held for a
\* verdict has nothing pending and was not removed, so the verdict's write is its only
\* operation; a pending read lands behind the tail the parser has kept.
Sound(c) ==
  /\ closes[c] = (IF deleted[c] = 0 THEN 0 ELSE 1)
  /\ refs[c] = (IF closes[c] = 0 THEN 1 ELSE 0) + (IF op[c] # "none" THEN 1 ELSE 0)
               + (IF held[c] THEN 1 ELSE 0)
  /\ held[c] => op[c] = "none" /\ deleted[c] = 0
  /\ requests[c] = replies[c] + (IF held[c] THEN 1 ELSE 0)
  /\ op[c] = "read" => base[c] = old[c] /\ room[c] = Capacity - base[c]
  /\ given[c] = filled[c] /\ given[c] <= Capacity

Types ==
  /\ op \in [Conns -> {"none", "read", "write"}] /\ held \in [Conns -> BOOLEAN]
  /\ base \in [Conns -> Nat] /\ room \in [Conns -> Int] /\ old \in [Conns -> Nat]
  /\ given \in [Conns -> Nat] /\ filled \in [Conns -> Nat]
  /\ requests \in [Conns -> Int] /\ replies \in [Conns -> Int]
  /\ deleted \in [Conns -> Nat] /\ closes \in [Conns -> Int] /\ refs \in [Conns -> Int]

IInv == Types /\ \A c \in Conns : Sound(c)

-----------------------------------------------------------------------------
(***************************************************************************)
(* Proofs: the properties hold for any number of connections and any size  *)
(* of the buffer, however many reads there are.                            *)
(***************************************************************************)

\* Every handler changes its own connection only, and keeps that one sound.
Kept(c) == Types' /\ Sound(c)' /\ \A d \in Conns \ {c} : Sound(d)'

\* A new connection has one reference of its own and one of its first read
\* (HttpApiConnection::run).
LEMMA InitSound == ASSUME BufferAssumption, Init PROVE IInv
BY DEF BufferAssumption, Init, IInv, Types, Sound

\* A read that fails removes the connection, for the first or for a further time.
LEMMA ReadFailedKeeps == ASSUME BufferAssumption, IInv, NEW c \in Conns, ReadFailed(c) PROVE Kept(c)
<1>1. Types'
  BY DEF ReadFailed, Remove, Deletes, References, IInv, Types
<1>2. Sound(c)'
  BY DEF BufferAssumption, ReadFailed, Remove, Deletes, References, IInv, Types, Sound
<1>3. \A d \in Conns \ {c} : Sound(d)'
  BY DEF ReadFailed, Remove, Deletes, References, IInv, Types, Sound
<1> QED
  BY <1>1, <1>2, <1>3 DEF Kept

\* The parser needs more: what it keeps and where the next read lands stay together.
LEMMA ReadMoreKeeps ==
  ASSUME BufferAssumption, IInv, NEW c \in Conns, NEW n \in 1..Capacity, ReadMore(c, n) PROVE Kept(c)
<1>1. Types'
  BY DEF BufferAssumption, ReadMore, Arrives, StartRead, References, IInv, Types, Sound
<1>2. Sound(c)'
  BY DEF BufferAssumption, ReadMore, Arrives, StartRead, References, IInv, Types, Sound
<1>3. \A d \in Conns \ {c} : Sound(d)'
  BY DEF ReadMore, Arrives, StartRead, References, IInv, Types, Sound
<1> QED
  BY <1>1, <1>2, <1>3 DEF Kept

\* The parser gives up, which removes the connection for the first time.
LEMMA ReadBadKeeps ==
  ASSUME BufferAssumption, IInv, NEW c \in Conns, NEW n \in 1..Capacity, ReadBad(c, n) PROVE Kept(c)
<1>1. Types'
  BY DEF BufferAssumption, ReadBad, Arrives, Remove, Deletes, References, IInv, Types, Sound
<1>2. Sound(c)'
  BY DEF BufferAssumption, ReadBad, Arrives, Remove, Deletes, References, IInv, Types, Sound
<1>3. \A d \in Conns \ {c} : Sound(d)'
  BY DEF ReadBad, Arrives, Remove, Deletes, References, IInv, Types, Sound
<1> QED
  BY <1>1, <1>2, <1>3 DEF Kept

\* An unknown function is answered on a connection that is removed at the same time.
LEMMA UnknownKeeps ==
  ASSUME BufferAssumption, IInv, NEW c \in Conns, NEW n \in 1..Capacity, Unknown(c, n) PROVE Kept(c)
<1>1. Types'
  BY DEF BufferAssumption, Unknown, Request, Arrives, Reply, Remove, Deletes, References, IInv, Types, Sound
<1>2. Sound(c)'
  BY DEF BufferAssumption, Unknown, Request, Arrives, Reply, Remove, Deletes, References, IInv, Types, Sound
<1>3. \A d \in Conns \ {c} : Sound(d)'
  BY DEF Unknown, Request, Arrives, Reply, Remove, Deletes, References, IInv, Types, Sound
<1> QED
  BY <1>1, <1>2, <1>3 DEF Kept

\* A request is answered by its handler.
LEMMA AnsweredKeeps ==
  ASSUME BufferAssumption, IInv, NEW c \in Conns, NEW n \in 1..Capacity, Answered(c, n) PROVE Kept(c)
<1>1. Types'
  BY DEF BufferAssumption, Answered, Request, Arrives, Reply, References, IInv, Types, Sound
<1>2. Sound(c)'
  BY DEF BufferAssumption, Answered, Request, Arrives, Reply, References, IInv, Types, Sound
<1>3. \A d \in Conns \ {c} : Sound(d)'
  BY DEF Answered, Request, Arrives, Reply, References, IInv, Types, Sound
<1> QED
  BY <1>1, <1>2, <1>3 DEF Kept

\* A transaction is handed to the mempool: the reply it owes holds the connection.
LEMMA SentKeeps ==
  ASSUME BufferAssumption, IInv, NEW c \in Conns, NEW n \in 1..Capacity, Sent(c, n) PROVE Kept(c)
<1>1. Types'
  BY DEF BufferAssumption, Sent, Request, Arrives, References, IInv, Types, Sound
<1>2. Sound(c)'
  BY DEF BufferAssumption, Sent, Request, Arrives, References, IInv, Types, Sound
<1>3. \A d \in Conns \ {c} : Sound(d)'
  BY DEF Sent, Request, Arrives, References, IInv, Types, Sound
<1> QED
  BY <1>1, <1>2, <1>3 DEF Kept

\* The verdict turns the reference of the reply into that of its write.
LEMMA VerdictKeeps ==
  ASSUME BufferAssumption, IInv, NEW c \in Conns, Verdict(c) PROVE Kept(c)
<1>1. Types'
  BY DEF BufferAssumption, Verdict, Reply, IInv, Types, Sound
<1>2. Sound(c)'
  BY DEF BufferAssumption, Verdict, Reply, IInv, Types, Sound
<1>3. \A d \in Conns \ {c} : Sound(d)'
  BY DEF Verdict, Reply, IInv, Types, Sound
<1> QED
  BY <1>1, <1>2, <1>3 DEF Kept

\* The read after a write starts at the front of the buffer, with nothing retained.
LEMMA WrittenKeeps ==
  ASSUME BufferAssumption, IInv, NEW c \in Conns, Written(c) PROVE Kept(c)
<1>1. Types'
  BY DEF BufferAssumption, Written, StartRead, References, IInv, Types, Sound
<1>2. Sound(c)'
  BY DEF BufferAssumption, Written, StartRead, References, IInv, Types, Sound
<1>3. \A d \in Conns \ {c} : Sound(d)'
  BY DEF Written, StartRead, References, IInv, Types, Sound
<1> QED
  BY <1>1, <1>2, <1>3 DEF Kept

\* Every step of every connection keeps the invariant.
LEMMA StepSound == ASSUME BufferAssumption, IInv, [Next]_vars PROVE IInv'
<1>1. CASE UNCHANGED vars
  BY <1>1 DEF vars, IInv, Types, Sound
<1>2. CASE Next
  <2>1. PICK c \in Conns : Step(c)
    BY <1>2 DEF Next
  <2>2. CASE \E n \in 1..Capacity : ReadMore(c, n) \/ ReadBad(c, n) \/ Unknown(c, n)
                                      \/ Answered(c, n) \/ Sent(c, n)
    <3>1. PICK n \in 1..Capacity : ReadMore(c, n) \/ ReadBad(c, n) \/ Unknown(c, n)
                                      \/ Answered(c, n) \/ Sent(c, n)
      BY <2>2
    <3> QED
      BY <3>1, ReadMoreKeeps, ReadBadKeeps, UnknownKeeps, AnsweredKeeps, SentKeeps DEF Kept, IInv
  <2>3. CASE ReadFailed(c) \/ Verdict(c) \/ Written(c)
    BY <2>3, ReadFailedKeeps, VerdictKeeps, WrittenKeeps DEF Kept, IInv
  <2> QED
    BY <2>1, <2>2, <2>3 DEF Step, Read
<1> QED
  BY <1>1, <1>2

\* The invariant holds in every reachable state.
LEMMA AlwaysSound == ASSUME BufferAssumption PROVE Spec => []IInv
<1>1. Init => IInv
  BY InitSound
<1>2. IInv /\ [Next]_vars => IInv'
  BY StepSound
<1> QED
  BY <1>1, <1>2, PTL DEF Spec

\* The socket object of a connection is deleted at most once, each complete request is
\* answered once, and the parser sees exactly what has arrived (onRead, onWrite,
\* removeConnection and the verdict of a sent transaction, in any order).
THEOREM ConnectionsHold ==
  ASSUME BufferAssumption PROVE Spec => [](DeletedOnce /\ OneReply /\ ParserSeesArrived)
<1>1. IInv => DeletedOnce /\ OneReply /\ ParserSeesArrived
  <2>1. IInv => DeletedOnce
    BY DEF IInv, Types, Sound, DeletedOnce
  <2>2. IInv => OneReply /\ ParserSeesArrived
    BY DEF IInv, Types, Sound, OneReply, ParserSeesArrived
  <2> QED
    BY <2>1, <2>2
<1> QED
  BY <1>1, AlwaysSound, PTL

\* Nobody uses a connection that is gone: its references are exactly its users'
\* (socketDestructorCb runs with the last one).
THEOREM ReferencesHold == ASSUME BufferAssumption PROVE Spec => []ReferencesExact
<1>1. IInv => ReferencesExact
  BY DEF IInv, Sound, ReferencesExact
<1> QED
  BY <1>1, AlwaysSound, PTL
=============================================================================
