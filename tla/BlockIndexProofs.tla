-------------------------- MODULE BlockIndexProofs --------------------------
(***************************************************************************)
(* The safety properties of BlockIndex, for every tree of blocks and every *)
(* number of threads.  IInv is inductive, step by step: the steps that     *)
(* start a walk or stay at one queue item are in the modules this one      *)
(* extends, the steps of buildChain that finish an item (the Invalid       *)
(* check, which may, and the hand-over of phases to the children) and the  *)
(* publishing of the Ready bits are here.  Each property follows from it.  *)
(***************************************************************************)
EXTENDS BlockIndexWalkProofs, TLAPS

USE ZenonT(30)

QueueItem == [block : Blocks \ {Genesis}, events : SUBSET ChainEvent]

\* Thread t finishes its first item: the items of thread u that stay in its queue,
\* by their new place, and the place each had before
Kept(t, u, i) == u # t \/ i < Len(queue[t])
Was(t, u, i) == IF u = t THEN i + 1 ELSE i

\* The place of a new item among the new ones
LEMMA NewPlace ==
  ASSUME NEW n \in Nat, NEW m \in Nat, NEW i \in 1..(n - 1 + m), ~(i < n)
  PROVE  i - (n - 1) \in 1..m /\ i = n - 1 + (i - (n - 1))
BY SMTT(30)

\* The tail of a queue followed by new items, place by place
LEMMA TailThenNew ==
  ASSUME NEW S, NEW q \in Seq(S), q # <<>>, NEW c \in Seq(S)
  PROVE  /\ Len(q) \in Nat /\ Len(q) > 0 /\ Len(c) \in Nat
         /\ Tail(q) \o c \in Seq(S) /\ Len(Tail(q) \o c) = Len(q) - 1 + Len(c)
         /\ \A i \in 1..(Len(q) - 1) : (Tail(q) \o c)[i] = q[i + 1]
         /\ \A k \in 1..Len(c) : (Tail(q) \o c)[Len(q) - 1 + k] = c[k]
<1>1. /\ Len(q) \in Nat /\ Len(q) > 0 /\ Len(c) \in Nat
      /\ Tail(q) \in Seq(S) /\ Len(Tail(q)) = Len(q) - 1
      /\ \A i \in 1..(Len(q) - 1) : Tail(q)[i] = q[i + 1]
  BY SMTT(30)
<1> DEFINE s == Tail(q)
<1>2. s \in Seq(S) /\ Len(s) = Len(q) - 1
  BY <1>1
<1>3. \A i \in 1..(Len(q) - 1) : s[i] = q[i + 1]
  BY <1>1
<1> HIDE DEF s
<1>4. s \o c \in Seq(S) /\ Len(s \o c) = Len(s) + Len(c)
  BY <1>2, SMTT(30)
<1>5. \A i \in 1..Len(s) : (s \o c)[i] = s[i]
  BY <1>2, <1>1, SMTT(30)
<1>6. \A k \in 1..Len(c) : (s \o c)[Len(s) + k] = c[k]
  BY <1>2, <1>1, SMTT(30)
<1> QED
  BY <1>1, <1>2, <1>3, <1>4, <1>5, <1>6, SMTT(30) DEF s

\* What becomes of the queues and the tokens when thread t finishes its item
LEMMA NextItemTokens ==
  ASSUME IInv, NEW t \in Threads, pc[t] \in WalkSteps,
         NEW children \in Seq(QueueItem), NextItem(t, children)
  PROVE  /\ queue' \in [Threads -> Seq(QueueItem)]
         /\ ready' \in [Threads -> SUBSET SuccessorPhase]
         /\ pc' \in [Threads -> WalkSteps \cup {"idle", "elect", "write", "done",
                                                "link", "data", "notify"}]
         /\ pc'[t] \in {"item", "notify"} /\ ready'[t] = {}
         /\ pc'[t] = "item" <=> queue'[t] # <<>>
         /\ \A u \in Threads \ {t} : pc'[u] = pc[u] /\ queue'[u] = queue[u] /\ ready'[u] = ready[u]
         /\ \A u \in Threads : \A i \in Items(u)' : Kept(t, u, i) =>
              /\ Was(t, u, i) \in Items(u)
              /\ u # t \/ Was(t, u, i) # 1
              /\ queue'[u][i] = queue[u][Was(t, u, i)]
         /\ \A i \in Items(t)' : ~Kept(t, t, i) =>
              \E k \in 1..Len(children) : i = Len(queue[t]) - 1 + k /\ queue'[t][i] = children[k]
         /\ \A k \in 1..Len(children) :
              /\ Len(queue[t]) - 1 + k \in Items(t)'
              /\ ~Kept(t, t, Len(queue[t]) - 1 + k)
              /\ queue'[t][Len(queue[t]) - 1 + k] = children[k]
         /\ \A u \in Threads : \A j \in Items(u) : u # t \/ j # 1 =>
              \E i \in Items(u)' : Kept(t, u, i) /\ Was(t, u, i) = j
<1> DEFINE q == queue[t]
           n == Len(queue[t])
           m == Len(children)
<1>1. q \in Seq(QueueItem) /\ q # <<>> /\ queue \in [Threads -> Seq(QueueItem)]
  BY WalkItem DEF IInv, TypeOK, QueueItem
<1>2. /\ n \in Nat /\ n > 0 /\ m \in Nat
      /\ Tail(q) \o children \in Seq(QueueItem) /\ Len(Tail(q) \o children) = n - 1 + m
      /\ \A i \in 1..(n - 1) : (Tail(q) \o children)[i] = q[i + 1]
      /\ \A k \in 1..m : (Tail(q) \o children)[n - 1 + k] = children[k]
  BY <1>1, TailThenNew, SMTT(30)
<1>3. /\ queue' = [queue EXCEPT ![t] = Tail(q) \o children]
      /\ ready' = [ready EXCEPT ![t] = {}]
      /\ pc' = [pc EXCEPT ![t] = IF Tail(q) \o children = <<>> THEN "notify" ELSE "item"]
  BY DEF NextItem, Goto
<1>4. /\ queue' \in [Threads -> Seq(QueueItem)]
      /\ queue'[t] = Tail(q) \o children
      /\ \A u \in Threads \ {t} : queue'[u] = queue[u]
  BY <1>1, <1>2, <1>3
<1>5. /\ ready' \in [Threads -> SUBSET SuccessorPhase]
      /\ ready'[t] = {}
      /\ \A u \in Threads \ {t} : ready'[u] = ready[u]
  BY <1>3, SMTT(30) DEF IInv, TypeOK
<1>6. /\ pc' \in [Threads -> WalkSteps \cup {"idle", "elect", "write", "done", "link", "data", "notify"}]
      /\ pc'[t] \in {"item", "notify"}
      /\ pc'[t] = "item" <=> queue'[t] # <<>>
      /\ \A u \in Threads \ {t} : pc'[u] = pc[u]
  <2>1. pc \in [Threads -> WalkSteps \cup {"idle", "elect", "write", "done", "link", "data", "notify"}]
    BY DEF IInv, TypeOK
  <2> DEFINE e == Tail(q) \o children = <<>>
  <2>2. pc' = [pc EXCEPT ![t] = IF e THEN "notify" ELSE "item"] /\ (queue'[t] = <<>> <=> e)
    BY <1>3, <1>4
  <2> HIDE DEF e
  <2> QED
    BY <2>1, <2>2, SMTT(30) DEF WalkSteps
<1>7. /\ Items(t)' = 1..(n - 1 + m)
      /\ \A i \in 1..(n - 1) : queue'[t][i] = queue[t][i + 1]
      /\ \A k \in 1..m : queue'[t][n - 1 + k] = children[k]
  BY <1>2, <1>4 DEF Items
<1>8. \A u \in Threads \ {t} : Items(u)' = Items(u)
  BY <1>4 DEF Items
<1>9. Items(t) = 1..n
  BY DEF Items
<1> HIDE DEF q, m
<1>10. \A u \in Threads : \A i \in Items(u)' : Kept(t, u, i) =>
         /\ Was(t, u, i) \in Items(u)
         /\ u # t \/ Was(t, u, i) # 1
         /\ queue'[u][i] = queue[u][Was(t, u, i)]
  <2>1. ASSUME NEW u \in Threads \ {t}, NEW i \in Items(u)'
        PROVE  Was(t, u, i) \in Items(u) /\ queue'[u][i] = queue[u][Was(t, u, i)]
    BY <1>4, <1>8, <2>1 DEF Was
  <2>2. ASSUME NEW i \in Items(t)', Kept(t, t, i)
        PROVE  /\ Was(t, t, i) \in Items(t) /\ Was(t, t, i) # 1
               /\ queue'[t][i] = queue[t][Was(t, t, i)]
    <3>1. i \in 1..(n - 1) /\ Was(t, t, i) = i + 1
      BY <1>2, <1>7, <2>2, SMTT(30) DEF Kept, Was
    <3>2. i + 1 \in 1..n /\ i + 1 # 1
      BY <1>2, <3>1, SMTT(30)
    <3> QED
      BY <1>7, <1>9, <3>1, <3>2
  <2> QED
    BY <2>1, <2>2
<1>11. \A i \in Items(t)' : ~Kept(t, t, i) =>
         \E k \in 1..m : i = n - 1 + k /\ queue'[t][i] = children[k]
  <2> SUFFICES ASSUME NEW i \in Items(t)', ~Kept(t, t, i)
               PROVE  \E k \in 1..m : i = n - 1 + k /\ queue'[t][i] = children[k]
    OBVIOUS
  <2>1. i \in 1..(n - 1 + m) /\ ~(i < n) /\ n \in Nat /\ m \in Nat
    BY <1>2, <1>7 DEF Kept
  <2>2. i - (n - 1) \in 1..m /\ i = n - 1 + (i - (n - 1))
    BY <2>1, NewPlace
  <2> QED
    BY <1>7, <2>2
<1>12. \A k \in 1..m : /\ n - 1 + k \in Items(t)'
                       /\ ~Kept(t, t, n - 1 + k)
                       /\ queue'[t][n - 1 + k] = children[k]
  <2> TAKE k \in 1..m
  <2>1. n - 1 + k \in 1..(n - 1 + m) /\ ~(n - 1 + k < n)
    BY <1>2, SMTT(30)
  <2> QED
    BY <1>7, <2>1 DEF Kept
<1>13. \A u \in Threads : \A j \in Items(u) : u # t \/ j # 1 =>
         \E i \in Items(u)' : Kept(t, u, i) /\ Was(t, u, i) = j
  <2>1. ASSUME NEW u \in Threads \ {t}, NEW j \in Items(u)
        PROVE  j \in Items(u)' /\ Kept(t, u, j) /\ Was(t, u, j) = j
    BY <1>8, <2>1 DEF Kept, Was
  <2>2. ASSUME NEW j \in Items(t), j # 1
        PROVE  j - 1 \in Items(t)' /\ Kept(t, t, j - 1) /\ Was(t, t, j - 1) = j
    <3>1. j - 1 \in 1..(n - 1 + m) /\ j - 1 < n /\ j - 1 + 1 = j
      BY <1>2, <1>9, <2>2, SMTT(30)
    <3> QED
      BY <1>7, <3>1 DEF Kept, Was
  <2> QED
    BY <2>1, <2>2
<1> QED
  BY <1>4, <1>5, <1>6, <1>10, <1>11, <1>12, <1>13 DEF m

\* An item keeps its tokens when it moves up, and a new item has those it came with.
LEMMA MovedTokens ==
  ASSUME IInv, NEW t \in Threads, pc[t] \in WalkSteps,
         NEW children \in Seq(QueueItem), NextItem(t, children)
  PROVE  /\ \A u \in Threads : \A i \in Items(u)' : Kept(t, u, i) =>
              /\ Block(u, i)' = Block(u, Was(t, u, i))
              /\ HeaderToken(u, i)' <=> HeaderToken(u, Was(t, u, i))
              /\ ParentToken(u, i)' <=> ParentToken(u, Was(t, u, i))
              /\ Unmet(u, i)' <=> Unmet(u, Was(t, u, i))
              /\ DataToken(u, i)' <=> DataToken(u, Was(t, u, i))
              /\ (i = 1 /\ pc'[u] = "phases") <=> (Was(t, u, i) = 1 /\ pc[u] = "phases")
         /\ \A i \in Items(t)' : ~Kept(t, t, i) =>
              /\ Unmet(t, i)' <=> ParentToken(t, i)'
              /\ DataToken(t, i)' <=> "PublishDataReady" \in queue'[t][i].events
         /\ \A i : ~Begun(t, i)'
         /\ \A u \in Threads : u # t => (Begun(u, 1)' <=> Begun(u, 1))
<1>1. /\ pc'[t] \in {"item", "notify"}
      /\ pc'[t] = "item" <=> queue'[t] # <<>>
      /\ \A u \in Threads \ {t} : pc'[u] = pc[u] /\ queue'[u] = queue[u] /\ ready'[u] = ready[u]
      /\ \A u \in Threads : \A i \in Items(u)' : Kept(t, u, i) =>
           /\ Was(t, u, i) \in Items(u)
           /\ u # t \/ Was(t, u, i) # 1
           /\ queue'[u][i] = queue[u][Was(t, u, i)]
  BY NextItemTokens
<1>2. \A i : ~Begun(t, i)'
  BY <1>1 DEF Begun
<1>3. \A i \in Items(t)' : pc'[t] = "item"
  <2>1. queue'[t] = <<>> => Items(t)' = {}
    BY SMTT(30) DEF Items
  <2> QED
    BY <1>1, <2>1
<1>4. ASSUME NEW u \in Threads, NEW i \in Items(u)', Kept(t, u, i)
      PROVE  /\ Block(u, i)' = Block(u, Was(t, u, i))
             /\ HeaderToken(u, i)' <=> HeaderToken(u, Was(t, u, i))
             /\ ParentToken(u, i)' <=> ParentToken(u, Was(t, u, i))
  BY <1>1, <1>4 DEF Block, HeaderToken, ParentToken
<1>5. ASSUME NEW u \in Threads \ {t}, NEW i \in Items(u)'
      PROVE  /\ Was(t, u, i) = i /\ pc'[u] = pc[u] /\ ready'[u] = ready[u] /\ queue'[u] = queue[u]
             /\ Unmet(u, i)' <=> Unmet(u, i)
             /\ DataToken(u, i)' <=> DataToken(u, i)
  <2>1. /\ Was(t, u, i) = i /\ pc'[u] = pc[u] /\ ready'[u] = ready[u] /\ queue'[u] = queue[u]
    BY <1>1, <1>5 DEF Was
  <2> QED
    BY <2>1 DEF Unmet, DataToken, ParentToken, Begun
<1>6. ASSUME NEW i \in Items(t)', Kept(t, t, i)
      PROVE  /\ Unmet(t, i)' <=> Unmet(t, Was(t, t, i))
             /\ DataToken(t, i)' <=> DataToken(t, Was(t, t, i))
             /\ ~(i = 1 /\ pc'[t] = "phases") /\ ~(Was(t, t, i) = 1 /\ pc[t] = "phases")
  <2>1. Was(t, t, i) # 1 /\ ~Begun(t, Was(t, t, i)) /\ queue'[t][i] = queue[t][Was(t, t, i)]
    BY <1>1, <1>6 DEF Begun
  <2>2. pc'[t] = "item" /\ ~Begun(t, i)'
    BY <1>2, <1>3
  <2>3. Unmet(t, i)' <=> Unmet(t, Was(t, t, i))
    BY <1>4, <1>6, <2>1, <2>2 DEF Unmet
  <2>4. DataToken(t, i)' <=> DataToken(t, Was(t, t, i))
    BY <2>1, <2>2 DEF DataToken
  <2> QED
    BY <2>1, <2>2, <2>3, <2>4
<1>7. \A i \in Items(t)' : /\ Unmet(t, i)' <=> ParentToken(t, i)'
                           /\ DataToken(t, i)' <=> "PublishDataReady" \in queue'[t][i].events
  BY <1>2, <1>3 DEF Unmet, DataToken
<1>8. \A u \in Threads : u # t => (Begun(u, 1)' <=> Begun(u, 1))
  BY <1>1 DEF Begun
<1>9. \A u \in Threads : \A i \in Items(u)' : Kept(t, u, i) =>
        /\ Unmet(u, i)' <=> Unmet(u, Was(t, u, i))
        /\ DataToken(u, i)' <=> DataToken(u, Was(t, u, i))
        /\ (i = 1 /\ pc'[u] = "phases") <=> (Was(t, u, i) = 1 /\ pc[u] = "phases")
  <2> SUFFICES ASSUME NEW u \in Threads, NEW i \in Items(u)', Kept(t, u, i)
               PROVE  /\ Unmet(u, i)' <=> Unmet(u, Was(t, u, i))
                      /\ DataToken(u, i)' <=> DataToken(u, Was(t, u, i))
                      /\ (i = 1 /\ pc'[u] = "phases") <=> (Was(t, u, i) = 1 /\ pc[u] = "phases")
    OBVIOUS
  <2>1. CASE u = t
    BY <1>6, <2>1
  <2>2. CASE u # t
    BY <1>5, <2>2
  <2> QED
    BY <2>1, <2>2
<1> QED
  BY <1>2, <1>4, <1>7, <1>8, <1>9

\* Two items of one queue had two places.
LEMMA WasInjective ==
  ASSUME IInv, NEW t \in Threads, NEW u \in Threads,
         NEW i \in Items(u)', NEW j \in Items(u)', Was(t, u, i) = Was(t, u, j)
  PROVE  i = j
<1>1. Items(u)' \subseteq Int
  <2>1. Items(u)' = 1..Len(queue'[u])
    BY DEF Items
  <2> QED
    BY <2>1, SMTT(30)
<1>2. i \in Int /\ j \in Int
  BY <1>1
<1> QED
  BY <1>2, SMTT(30) DEF Was

\* The conjuncts of the invariant that only ask what the new items are about
LEMMA NextItemFrame ==
  ASSUME IInv, NEW t \in Threads, pc[t] \in WalkSteps,
         NEW children \in Seq(QueueItem), NextItem(t, children),
         \A k \in 1..Len(children) : children[k].block \in Blocks \ Loaded /\ Linked(children[k].block),
         UNCHANGED <<flags, prev, height, chainWork, successors, call, withData, best, notified>>,
         phases' \in [Blocks -> SUBSET SuccessorPhase],
         \A c \in Blocks : phases[c] \subseteq phases'[c]
  PROVE  /\ TypeOK' /\ Control' /\ Writers' /\ Lists' /\ ItemsLinked' /\ Fields' /\ NotifyCover'
         /\ \A c : Linked(c)' <=> Linked(c)
<1> USE DEF IInv
<1>1. /\ queue' \in [Threads -> Seq(QueueItem)]
      /\ ready' \in [Threads -> SUBSET SuccessorPhase]
      /\ pc' \in [Threads -> WalkSteps \cup {"idle", "elect", "write", "done", "link", "data", "notify"}]
      /\ pc'[t] \in {"item", "notify"} /\ ready'[t] = {}
      /\ pc'[t] = "item" <=> queue'[t] # <<>>
      /\ \A u \in Threads \ {t} : pc'[u] = pc[u] /\ queue'[u] = queue[u] /\ ready'[u] = ready[u]
      /\ \A u \in Threads : \A i \in Items(u)' : Kept(t, u, i) => Was(t, u, i) \in Items(u)
      /\ \A i \in Items(t)' : ~Kept(t, t, i) =>
           \E k \in 1..Len(children) : i = Len(queue[t]) - 1 + k /\ queue'[t][i] = children[k]
  BY NextItemTokens
<1>2. /\ \A u \in Threads : \A i \in Items(u)' : Kept(t, u, i) => Block(u, i)' = Block(u, Was(t, u, i))
      /\ ~Begun(t, 1)'
      /\ \A u \in Threads : u # t => (Begun(u, 1)' <=> Begun(u, 1))
  BY MovedTokens
<1>3. TypeOK'
  BY <1>1 DEF TypeOK, QueueItem
<1>4. \A c : Linked(c)' <=> Linked(c)
  BY DEF Linked
<1>5. Writers' /\ Lists'
  <2>1. \A u \in Threads : pc[u] \in WriteSteps \/ pc'[u] \in WriteSteps => pc'[u] = pc[u]
    BY <1>1 DEF WriteSteps, WalkSteps
  <2>2. /\ \A b \in Blocks : flags[b] \subseteq flags'[b] /\ phases[b] \subseteq phases'[b]
        /\ \A b \in Blocks : \A r \in {"HeaderDone", "DataDone"} : r \in flags'[b] => r \in flags[b]
    OBVIOUS
  <2> QED
    BY <2>1, <2>2, WalkFrame
<1>6. ItemsLinked'
  <2>1. ASSUME NEW u \in Threads, NEW i \in Items(u)'
        PROVE  Block(u, i)' \in Blocks \ Loaded /\ Linked(Block(u, i)')
    <3>1. CASE Kept(t, u, i)
      <4>1. Was(t, u, i) \in Items(u) /\ Block(u, i)' = Block(u, Was(t, u, i))
        BY <1>1, <1>2, <2>1, <3>1
      <4>2. Block(u, Was(t, u, i)) \in Blocks \ Loaded /\ Linked(Block(u, Was(t, u, i)))
        BY <4>1 DEF ItemsLinked
      <4> QED
        BY <4>1, <4>2
    <3>2. CASE ~Kept(t, u, i)
      <4>1. u = t
        BY <3>2 DEF Kept
      <4>2. PICK k \in 1..Len(children) : queue'[t][i] = children[k]
        BY <1>1, <2>1, <3>2, <4>1
      <4> QED
        BY <4>1, <4>2 DEF Block
    <3> QED
      BY <3>1, <3>2
  <2>2. \A u \in Threads : \A i \in Items(u)' : Block(u, i)' \in Blocks \ Loaded
    BY <2>1
  <2>3. \A u \in Threads : \A i \in Items(u)' : Linked(Block(u, i))'
    <3>1. ASSUME NEW c, Linked(c) PROVE \E i \in 1..Len(successors'[Parent[c]]) : successors'[Parent[c]][i] = c
      BY <3>1 DEF Linked
    <3> QED
      BY <2>1, <3>1 DEF Linked
  <2> QED
    BY <2>2, <2>3 DEF ItemsLinked
<1>7. Control'
  <2>1. \A u \in Threads : u # t => (HeaderToken(u, 1)' <=> HeaderToken(u, 1))
    BY <1>1 DEF HeaderToken
  <2>2. \A u \in Threads : pc'[u] \in WalkSteps <=> queue'[u] # <<>>
    BY <1>1 DEF Control, WalkSteps
  <2>3. \A u \in Threads : pc'[u] \in {"elect", "data", "write", "done", "link"} => call'[u] \in Blocks \ Loaded
    BY <1>1 DEF Control
  <2>4. \A u \in Threads : Begun(u, 1)' => ("HeaderReady" \in ready'[u] <=> HeaderToken(u, 1)')
    BY <1>1, <1>2, <2>1 DEF Control
  <2> QED
    BY <2>2, <2>3, <2>4 DEF Control
<1>8. Fields'
  <2>1. \A u \in Threads : Begun(u, 1)' => /\ Begun(u, 1) /\ Block(u, 1)' = Block(u, 1)
                                           /\ HeaderToken(u, 1)' <=> HeaderToken(u, 1)
    BY <1>1, <1>2 DEF Block, HeaderToken
  <2>2. ASSUME NEW u \in Threads, Begun(u, 1)', HeaderToken(u, 1)'
        PROVE  height[Block(u, 1)'] = Depth[Block(u, 1)'] /\ chainWork[Block(u, 1)'] = Total[Block(u, 1)']
    <3>1. Begun(u, 1) /\ Block(u, 1)' = Block(u, 1) /\ HeaderToken(u, 1)
      BY <2>1, <2>2
    <3>2. height[Block(u, 1)] = Depth[Block(u, 1)] /\ chainWork[Block(u, 1)] = Total[Block(u, 1)]
      BY <3>1 DEF Fields
    <3> QED
      BY <3>1, <3>2
  <2> QED
    BY <2>2 DEF Fields
<1>9. NotifyCover'
  <2>1. \A u \in Threads : pc[u] \in WalkSteps \cup {"notify"} => pc'[u] \in WalkSteps \cup {"notify"}
    BY <1>1 DEF WalkSteps
  <2> QED
    BY <2>1 DEF NotifyCover, Ready
<1> QED
  BY <1>3, <1>4, <1>5, <1>6, <1>7, <1>8, <1>9

\* The Invalid check keeps the invariant when nothing is left to publish: the item
\* had no token any more but, on invalid data, the dropped one.
LEMMA CheckInvalidEnds ==
  ASSUME IInv, NEW t \in Threads, pc[t] = "check",
         "HeaderReady" \notin ready[t],
         "DataReady" \in ready[t] => ~Valid(Block(t, 1)) \/ ~Valid(Parent[Block(t, 1)]),
         NextItem(t, <<>>),
         UNCHANGED <<flags, prev, height, chainWork, successors, phases, call, withData,
                     best, notified>>
  PROVE  IInv'
<1> USE DEF IInv
<1>1. pc[t] \in WalkSteps /\ Begun(t, 1) /\ 1 \in Items(t)
  BY WalkItem DEF WalkSteps, Begun
<1>2. ~HeaderToken(t, 1) /\ ~Unmet(t, 1) /\ (DataToken(t, 1) <=> "DataReady" \in ready[t])
  BY <1>1 DEF Control, Unmet, DataToken
<1>3. <<>> \in Seq(QueueItem) /\ \A k \in 1..Len(<<>>) : FALSE
  BY SMTT(30)
<1>4. /\ TypeOK' /\ Control' /\ Writers' /\ Lists' /\ ItemsLinked' /\ Fields' /\ NotifyCover'
      /\ \A c : Linked(c)' <=> Linked(c)
  <2>1. \A k \in 1..Len(<<>>) : <<>>[k].block \in Blocks \ Loaded /\ Linked(<<>>[k].block)
    BY <1>3
  <2>2. phases' \in [Blocks -> SUBSET SuccessorPhase] /\ \A c \in Blocks : phases[c] \subseteq phases'[c]
    BY DEF TypeOK
  <2> QED
    BY <1>1, <1>3, <2>1, <2>2, NextItemFrame
<1>5. /\ \A u \in Threads \ {t} : pc'[u] = pc[u] /\ queue'[u] = queue[u] /\ ready'[u] = ready[u]
      /\ \A u \in Threads : \A i \in Items(u)' : Kept(t, u, i) =>
           /\ Was(t, u, i) \in Items(u)
           /\ u # t \/ Was(t, u, i) # 1
           /\ queue'[u][i] = queue[u][Was(t, u, i)]
      /\ \A i \in Items(t)' : ~Kept(t, t, i) =>
           \E k \in 1..Len(<<>>) : i = Len(queue[t]) - 1 + k /\ queue'[t][i] = <<>>[k]
      /\ \A u \in Threads : \A j \in Items(u) : u # t \/ j # 1 =>
           \E i \in Items(u)' : Kept(t, u, i) /\ Was(t, u, i) = j
  BY <1>1, <1>3, NextItemTokens
<1>6. \A u \in Threads : \A i \in Items(u)' : Kept(t, u, i)
  BY <1>3, <1>5 DEF Kept
<1>7. \A u \in Threads : \A i \in Items(u)' :
        /\ Was(t, u, i) \in Items(u) /\ Block(u, Was(t, u, i)) \in Blocks \ Loaded
        /\ Block(u, i)' = Block(u, Was(t, u, i))
        /\ HeaderToken(u, i)' <=> HeaderToken(u, Was(t, u, i))
        /\ ParentToken(u, i)' <=> ParentToken(u, Was(t, u, i))
        /\ Unmet(u, i)' <=> Unmet(u, Was(t, u, i))
        /\ DataToken(u, i)' <=> DataToken(u, Was(t, u, i))
        /\ (i = 1 /\ pc'[u] = "phases") <=> (Was(t, u, i) = 1 /\ pc[u] = "phases")
  <2>1. \A u \in Threads : \A i \in Items(u)' :
          Was(t, u, i) \in Items(u) /\ Block(u, Was(t, u, i)) \in Blocks \ Loaded
    BY <1>5, <1>6 DEF ItemsLinked
  <2> QED
    BY <1>1, <1>3, <1>6, <2>1, MovedTokens
<1>8. \A u \in Threads : \A i, j \in Items(u)' : Was(t, u, i) = Was(t, u, j) => i = j
  BY WasInjective
<1>9. HeaderTokens'
  <2>1. \A u \in Threads : \A i \in Items(u)' : HeaderToken(u, i)' =>
          /\ "HeaderReady" \in phases[Parent[Block(u, i)']]
          /\ "HeaderReady" \notin phases[Block(u, i)']
          /\ "HeaderReady" \in flags[Block(u, i)'] <=> i = 1 /\ pc'[u] = "phases"
    <3>1. HeaderTokens
      OBVIOUS
    <3> HIDE DEF IInv
    <3> QED
      BY <1>7, <3>1, SMTT(30) DEF HeaderTokens
  <2>2. ASSUME NEW u \in Threads, NEW v \in Threads, NEW i \in Items(u)', NEW j \in Items(v)',
               HeaderToken(u, i)', HeaderToken(v, j)', Block(u, i)' = Block(v, j)'
        PROVE  u = v /\ i = j
    <3>1. /\ Was(t, u, i) \in Items(u) /\ Was(t, v, j) \in Items(v)
          /\ HeaderToken(u, Was(t, u, i)) /\ HeaderToken(v, Was(t, v, j))
          /\ Block(u, Was(t, u, i)) = Block(v, Was(t, v, j))
      BY <1>7, <2>2, SMTT(30)
    <3>2. u = v /\ Was(t, u, i) = Was(t, v, j)
      BY <3>1, HeaderTokenSingle
    <3> QED
      BY <1>8, <3>2
  <2>3. HeaderTokens
    OBVIOUS
  <2> HIDE DEF IInv
  <2> QED
    BY <2>1, <2>2, <2>3, SMTT(30) DEF HeaderTokens
<1>10. DataTokens'
  <2>1. \A u \in Threads : \A i \in Items(u)' : ParentToken(u, i)' =>
          /\ "DataReady" \in phases[Parent[Block(u, i)']]
          /\ Unmet(u, i)' => "ParentDataReady" \notin flags[Block(u, i)']
    <3>1. DataTokens
      OBVIOUS
    <3> HIDE DEF IInv
    <3> QED
      BY <1>7, <3>1, SMTT(30) DEF DataTokens
  <2>2. ASSUME NEW u \in Threads, NEW v \in Threads, NEW i \in Items(u)', NEW j \in Items(v)',
               ParentToken(u, i)', ParentToken(v, j)', Block(u, i)' = Block(v, j)'
        PROVE  u = v /\ i = j
    <3>1. /\ Was(t, u, i) \in Items(u) /\ Was(t, v, j) \in Items(v)
          /\ ParentToken(u, Was(t, u, i)) /\ ParentToken(v, Was(t, v, j))
          /\ Block(u, Was(t, u, i)) = Block(v, Was(t, v, j))
      BY <1>7, <2>2, SMTT(30)
    <3>2. u = v /\ Was(t, u, i) = Was(t, v, j)
      BY <3>1, ParentTokenSingle
    <3> QED
      BY <1>8, <3>2
  <2>3. \A u \in Threads : \A i \in Items(u)' : DataToken(u, i)' =>
          /\ {"DataDone", "ParentDataReady"} \subseteq flags[Block(u, i)']
          /\ "DataReady" \in flags[Block(u, i)'] <=> i = 1 /\ pc'[u] = "phases"
          /\ "DataReady" \notin phases[Block(u, i)']
    <3>1. DataTokens
      OBVIOUS
    <3> HIDE DEF IInv
    <3> QED
      BY <1>7, <3>1, SMTT(30) DEF DataTokens
  <2>4. ASSUME NEW u \in Threads, NEW v \in Threads, NEW i \in Items(u)', NEW j \in Items(v)',
               DataToken(u, i)', DataToken(v, j)', Block(u, i)' = Block(v, j)'
        PROVE  u = v /\ i = j
    <3>1. /\ Was(t, u, i) \in Items(u) /\ Was(t, v, j) \in Items(v)
          /\ DataToken(u, Was(t, u, i)) /\ DataToken(v, Was(t, v, j))
          /\ Block(u, Was(t, u, i)) = Block(v, Was(t, v, j))
      BY <1>7, <2>4, SMTT(30)
    <3>2. u = v /\ Was(t, u, i) = Was(t, v, j)
      BY <3>1, DataTokenSingle
    <3> QED
      BY <1>8, <3>2
  <2>5. DataTokens
    OBVIOUS
  <2> HIDE DEF IInv
  <2> QED
    BY <2>1, <2>2, <2>3, <2>4, <2>5, SMTT(30) DEF DataTokens
<1>11. HeaderBits' /\ DataBits'
  BY <1>4 DEF HeaderBits, DataBits
<1>12. PhaseCover("HeaderReady")' /\ PhaseCover("DataReady")'
  <2>1. \A u \in Threads : pc[u] = "phases" =>
          pc'[u] = "phases" /\ Block(u, 1)' = Block(u, 1) /\ ready'[u] = ready[u]
    BY <1>5 DEF Block
  <2>2. ASSUME NEW r, PhaseCover(r) PROVE PhaseCover(r)'
    BY <2>1, <2>2 DEF PhaseCover
  <2> QED
    BY <2>2
<1>13. \A u \in Threads : \A j \in Items(u) : u # t \/ j # 1 =>
         \E i \in Items(u)' :
            /\ Block(u, i)' = Block(u, j)
            /\ HeaderToken(u, i)' <=> HeaderToken(u, j)
            /\ Unmet(u, i)' <=> Unmet(u, j)
            /\ DataToken(u, i)' <=> DataToken(u, j)
  BY <1>5, <1>7, SMTT(30)
<1>14. HeaderCover'
  <2>1. ASSUME NEW c \in Blocks \ Loaded, Linked(c), "HeaderReady" \in phases[Parent[c]],
               "HeaderReady" \notin flags[c]
        PROVE  \E u \in Threads : \E i \in Items(u)' : HeaderToken(u, i)' /\ Block(u, i)' = c
    <3>1. PICK u \in Threads : \E i \in Items(u) : HeaderToken(u, i) /\ Block(u, i) = c
      BY <2>1 DEF HeaderCover
    <3>2. PICK i \in Items(u) : HeaderToken(u, i) /\ Block(u, i) = c
      BY <3>1
    <3>3. u # t \/ i # 1
      BY <1>2, <3>2
    <3> QED
      BY <1>13, <3>2, <3>3
  <2> QED
    BY <1>4, <2>1 DEF HeaderCover
<1>15. ParentCover'
  <2>1. ASSUME NEW c \in Blocks \ Loaded, Linked(c), "DataReady" \in phases[Parent[c]],
               "ParentDataReady" \notin flags[c]
        PROVE  \E u \in Threads : \E i \in Items(u)' : Unmet(u, i)' /\ Block(u, i)' = c
    <3>1. PICK u \in Threads : \E i \in Items(u) : Unmet(u, i) /\ Block(u, i) = c
      BY <2>1 DEF ParentCover
    <3>2. PICK i \in Items(u) : Unmet(u, i) /\ Block(u, i) = c
      BY <3>1
    <3>3. u # t \/ i # 1
      BY <1>2, <3>2
    <3> QED
      BY <1>13, <3>2, <3>3
  <2> QED
    BY <1>4, <2>1 DEF ParentCover
<1>16. DataCover'
  <2>1. ASSUME NEW c \in Blocks \ Loaded, {"DataDone", "ParentDataReady"} \subseteq flags[c]
        PROVE  \/ "DataReady" \in flags[c]
               \/ ~Valid(c) \/ ~Valid(Parent[c])
               \/ \E u \in Threads : \E i \in Items(u)' : DataToken(u, i)' /\ Block(u, i)' = c
    <3>1. CASE \E u \in Threads : \E i \in Items(u) : DataToken(u, i) /\ Block(u, i) = c
      <4>1. PICK u \in Threads : \E i \in Items(u) : DataToken(u, i) /\ Block(u, i) = c
        BY <3>1
      <4>2. PICK i \in Items(u) : DataToken(u, i) /\ Block(u, i) = c
        BY <4>1
      <4>3. CASE u = t /\ i = 1
        BY <1>2, <4>2, <4>3
      <4>4. CASE u # t \/ i # 1
        BY <1>13, <4>2, <4>4
      <4> QED
        BY <4>3, <4>4
    <3> QED
      BY <2>1, <3>1 DEF DataCover
  <2>2. \A c : Valid(c)' <=> Valid(c)
    BY DEF Valid
  <2> QED
    BY <2>1, <2>2 DEF DataCover
<1> QED
  BY <1>4, <1>9, <1>10, <1>11, <1>12, <1>14, <1>15, <1>16

\* The Invalid check of buildChain keeps the invariant.
LEMMA CheckInvalidInv ==
  ASSUME IInv, NEW t \in Threads, CheckInvalid(t)
  PROVE  IInv'
<1> DEFINE b == Block(t, 1)
           drop == "Invalid" \in flags[b] \/ "Invalid" \in flags[Parent[b]]
           left == IF "DataReady" \in ready[t] /\ drop THEN ready[t] \ {"DataReady"} ELSE ready[t]
<1>1. /\ Current(t) = b /\ prev[b] = Parent[b] /\ pc[t] = "check"
  BY WalkItem DEF CheckInvalid, WalkSteps
<1>2. /\ UNCHANGED <<flags, prev, height, chainWork, successors, phases, call, withData, best, notified>>
      /\ IF left = {} THEN NextItem(t, <<>>)
                      ELSE ready' = [ready EXCEPT ![t] = left] /\ Goto(t, "publish") /\ UNCHANGED queue
  BY <1>1, SMTT(30) DEF CheckInvalid, index
<1>3. ready[t] \subseteq SuccessorPhase
  BY DEF IInv, TypeOK
<1>4. /\ left \subseteq ready[t]
      /\ "HeaderReady" \in ready[t] => "HeaderReady" \in left
      /\ "DataReady" \in ready[t] /\ "DataReady" \notin left => ~Valid(b) \/ ~Valid(Parent[b])
  BY SMTT(30) DEF Valid
<1> HIDE DEF left, b
<1>5. CASE left = {}
  <2>1. NextItem(t, <<>>) /\ "HeaderReady" \notin ready[t]
    BY <1>2, <1>4, <1>5
  <2>2. "DataReady" \in ready[t] => ~Valid(b) \/ ~Valid(Parent[b])
    BY <1>4, <1>5
  <2> QED
    BY <1>1, <1>2, <2>1, <2>2, CheckInvalidEnds DEF b
<1>6. CASE left # {}
  BY <1>1, <1>2, <1>4, <1>6, CheckInvalidKeeps DEF b
<1> QED
  BY <1>5, <1>6

\* What published bits imply survives the publication of phases behind Ready bits.
LEMMA BitsAfter ==
  ASSUME HeaderBits, DataBits, flags' = flags,
         \A c : Linked(c)' <=> Linked(c),
         \A c \in Blocks : \A r \in phases'[c] : r \in flags[c],
         \A c \in Blocks : phases[c] \subseteq phases'[c]
  PROVE  HeaderBits' /\ DataBits'
<1>1. \A c \in Blocks \ Loaded : phases[Parent[c]] \subseteq phases'[Parent[c]]
  BY Tree
<1>2. HeaderBits'
  BY <1>1, SMTT(30) DEF HeaderBits
<1>3. DataBits'
  BY <1>1, SMTT(30) DEF DataBits
<1> QED
  BY <1>2, <1>3

\* The fetch_or on Successors keeps the invariant: it hands a phase to the children
\* on the list in the same step in which later insertions start to inherit it.
LEMMA PublishPhasesInv ==
  ASSUME IInv, NEW t \in Threads, PublishPhases(t)
  PROVE  IInv'
<1> USE DEF IInv
<1> DEFINE b == Block(t, 1)
           R == ready[t]
           L == Len(successors[b])
           n == Len(queue[t])
           children == [k \in 1..L |-> [block |-> successors[b][k], events |-> SuccessorEvents(R)]]
<1>1. /\ 1 \in Items(t) /\ b \in Blocks \ Loaded /\ Parent[b] \in Blocks
      /\ Current(t) = b /\ pc[t] = "phases" /\ pc[t] \in WalkSteps
  BY WalkItem DEF PublishPhases, WalkSteps
<1>2. /\ UNCHANGED <<flags, prev, height, chainWork, successors, call, withData, best, notified>>
      /\ phases' = [phases EXCEPT ![b] = @ \cup R]
      /\ NextItem(t, children)
  BY <1>1 DEF PublishPhases
<1>3. /\ R \subseteq SuccessorPhase /\ Begun(t, 1) /\ ~Unmet(t, 1)
      /\ "HeaderReady" \in R <=> HeaderToken(t, 1)
      /\ "DataReady" \in R <=> DataToken(t, 1)
  BY <1>1 DEF TypeOK, Control, Begun, DataToken, Unmet
<1>4. /\ SuccessorEvents(R) \subseteq ChainEvent
      /\ "BuildHeader" \in SuccessorEvents(R) <=> "HeaderReady" \in R
      /\ "ParentDataReady" \in SuccessorEvents(R) <=> "DataReady" \in R
      /\ "PublishDataReady" \notin SuccessorEvents(R)
  BY DEF SuccessorEvents, ChainEvent
<1>5. /\ L \in Nat /\ successors[b] \in Seq(Blocks \ {Genesis})
      /\ \A k \in 1..L : successors[b][k] \in Blocks \ {Genesis}
  <2>1. TypeOK
    OBVIOUS
  <2> HIDE DEF IInv
  <2> QED
    BY <1>1, <2>1, SMTT(30) DEF TypeOK
<1>6. /\ children \in Seq(QueueItem) /\ Len(children) = L
      /\ \A k \in 1..L : /\ children[k].block = successors[b][k]
                         /\ children[k].events = SuccessorEvents(R)
  <2>1. \A k \in 1..L : [block |-> successors[b][k], events |-> SuccessorEvents(R)] \in QueueItem
    BY <1>4, <1>5 DEF QueueItem
  <2> DEFINE item(k) == [block |-> successors[b][k], events |-> SuccessorEvents(R)]
  <2>2. \A k \in 1..L : /\ item(k).block = successors[b][k]
                        /\ item(k).events = SuccessorEvents(R)
    OBVIOUS
  <2>3. children = [k \in 1..L |-> item(k)] /\ \A k \in 1..L : item(k) \in QueueItem
    BY <2>1
  <2> HIDE DEF item, L, children
  <2>4. children \in Seq(QueueItem) /\ Len(children) = L /\ \A k \in 1..L : children[k] = item(k)
    BY <1>5, <2>3, SMTT(30)
  <2> QED
    BY <2>2, <2>4
<1>7. \A k \in 1..L : /\ successors[b][k] \in Blocks \ Loaded
                      /\ Parent[successors[b][k]] = b
                      /\ successors[b][k] # b
                      /\ Linked(successors[b][k])
                      /\ \A l \in 1..L : successors[b][k] = successors[b][l] => k = l
  <2> TAKE k \in 1..L
  <2>1. /\ successors[b][k] \in Blocks \ Loaded
        /\ Parent[successors[b][k]] = b
        /\ \A l \in 1..L : successors[b][k] = successors[b][l] => k = l
    <3>1. Lists
      OBVIOUS
    <3> HIDE DEF IInv
    <3> QED
      BY <1>1, <3>1, SMTT(30) DEF Lists
  <2>2. Linked(successors[b][k])
    BY <2>1 DEF Linked
  <2>3. successors[b][k] # b
    <3>1. successors[b][k] \in Blocks \ {Genesis}
      BY <2>1, Tree
    <3>2. Depth[successors[b][k]] = Depth[b] + 1 /\ Depth[b] \in Nat
      BY <1>1, <2>1, <3>1, BlockTree
    <3> QED
      BY <3>2, SMTT(30)
  <2> QED
    BY <2>1, <2>2, <2>3
<1> HIDE DEF children, b, R, L
<1>8. /\ phases' \in [Blocks -> SUBSET SuccessorPhase]
      /\ phases'[b] = phases[b] \cup R
      /\ \A c \in Blocks \ {b} : phases'[c] = phases[c]
      /\ \A c \in Blocks : phases[c] \subseteq phases'[c]
  <2>1. phases \in [Blocks -> SUBSET SuccessorPhase]
    BY DEF TypeOK
  <2>2. /\ phases' \in [Blocks -> SUBSET SuccessorPhase]
        /\ phases'[b] = phases[b] \cup R
        /\ \A c \in Blocks \ {b} : phases'[c] = phases[c]
    BY <1>1, <1>2, <1>3, <2>1, SMTT(30)
  <2> QED
    BY <1>1, <2>2
<1>9. /\ TypeOK' /\ Control' /\ Writers' /\ Lists' /\ ItemsLinked' /\ Fields' /\ NotifyCover'
      /\ \A c : Linked(c)' <=> Linked(c)
  <2>1. \A k \in 1..Len(children) : children[k].block \in Blocks \ Loaded /\ Linked(children[k].block)
    BY <1>6, <1>7
  <2> QED
    BY <1>1, <1>2, <1>6, <1>8, <2>1, NextItemFrame
<1>10. /\ \A u \in Threads \ {t} : pc'[u] = pc[u] /\ queue'[u] = queue[u] /\ ready'[u] = ready[u]
       /\ pc'[t] \in {"item", "notify"}
       /\ \A u \in Threads : \A i \in Items(u)' : Kept(t, u, i) =>
            /\ Was(t, u, i) \in Items(u)
            /\ u # t \/ Was(t, u, i) # 1
            /\ queue'[u][i] = queue[u][Was(t, u, i)]
       /\ \A i \in Items(t)' : ~Kept(t, t, i) =>
            \E k \in 1..Len(children) : i = Len(queue[t]) - 1 + k /\ queue'[t][i] = children[k]
       /\ \A k \in 1..Len(children) :
            /\ Len(queue[t]) - 1 + k \in Items(t)'
            /\ ~Kept(t, t, Len(queue[t]) - 1 + k)
            /\ queue'[t][Len(queue[t]) - 1 + k] = children[k]
       /\ \A u \in Threads : \A j \in Items(u) : u # t \/ j # 1 =>
            \E i \in Items(u)' : Kept(t, u, i) /\ Was(t, u, i) = j
  <2>1. pc[t] \in WalkSteps /\ children \in Seq(QueueItem) /\ NextItem(t, children)
    BY <1>1, <1>2, <1>6
  <2> QED
    BY <2>1, NextItemTokens
<1>11. \A u \in Threads : \A i \in Items(u)' : Kept(t, u, i) =>
         /\ Was(t, u, i) \in Items(u) /\ Block(u, Was(t, u, i)) \in Blocks \ Loaded
         /\ u # t \/ Was(t, u, i) # 1
         /\ Block(u, i)' = Block(u, Was(t, u, i))
         /\ HeaderToken(u, i)' <=> HeaderToken(u, Was(t, u, i))
         /\ ParentToken(u, i)' <=> ParentToken(u, Was(t, u, i))
         /\ Unmet(u, i)' <=> Unmet(u, Was(t, u, i))
         /\ DataToken(u, i)' <=> DataToken(u, Was(t, u, i))
         /\ (i = 1 /\ pc'[u] = "phases") <=> (Was(t, u, i) = 1 /\ pc[u] = "phases")
  <2>1. \A u \in Threads : \A i \in Items(u)' : Kept(t, u, i) =>
          /\ Was(t, u, i) \in Items(u) /\ Block(u, Was(t, u, i)) \in Blocks \ Loaded
          /\ u # t \/ Was(t, u, i) # 1
    BY <1>10 DEF ItemsLinked
  <2>2. pc[t] \in WalkSteps /\ children \in Seq(QueueItem) /\ NextItem(t, children)
    BY <1>1, <1>2, <1>6
  <2> QED
    BY <2>1, <2>2, MovedTokens
<1>12. ASSUME NEW u \in Threads, NEW i \in Items(u)', ~Kept(t, u, i)
       PROVE  /\ u = t
              /\ \E k \in 1..L : i = n - 1 + k /\ Block(u, i)' = successors[b][k]
              /\ HeaderToken(u, i)' <=> "HeaderReady" \in R
              /\ ParentToken(u, i)' <=> "DataReady" \in R
              /\ Unmet(u, i)' <=> "DataReady" \in R
              /\ ~DataToken(u, i)'
              /\ pc'[u] # "phases"
  <2>1. u = t
    BY <1>12 DEF Kept
  <2>2. PICK k \in 1..L : i = n - 1 + k /\ queue'[t][i] = children[k]
    BY <1>6, <1>10, <1>12, <2>1
  <2>3. queue'[t][i].block = successors[b][k] /\ queue'[t][i].events = SuccessorEvents(R)
    BY <1>6, <2>2
  <2>4. /\ Unmet(t, i)' <=> ParentToken(t, i)'
        /\ DataToken(t, i)' <=> "PublishDataReady" \in queue'[t][i].events
    BY <1>1, <1>2, <1>6, <1>12, <2>1, MovedTokens
  <2>5. /\ HeaderToken(t, i)' <=> "HeaderReady" \in R
        /\ ParentToken(t, i)' <=> "DataReady" \in R
    BY <1>4, <2>3 DEF HeaderToken, ParentToken
  <2>6. Block(t, i)' = successors[b][k]
    BY <2>3 DEF Block
  <2> QED
    BY <1>4, <1>10, <2>1, <2>2, <2>3, <2>4, <2>5, <2>6
<1>13. \A k \in 1..L : \E i \in Items(t)' : ~Kept(t, t, i) /\ Block(t, i)' = successors[b][k]
  <2> TAKE k \in 1..L
  <2>1. n - 1 + k \in Items(t)' /\ ~Kept(t, t, n - 1 + k) /\ queue'[t][n - 1 + k] = children[k]
    BY <1>6, <1>10
  <2>2. PICK i \in Items(t)' : ~Kept(t, t, i) /\ queue'[t][i] = children[k]
    BY <2>1
  <2>3. Block(t, i)' = successors[b][k]
    BY <1>6, <2>2 DEF Block
  <2> QED
    BY <2>2, <2>3
<1>14. \A u \in Threads : \A j \in Items(u) : u # t \/ j # 1 =>
         \E i \in Items(u)' :
            /\ Block(u, i)' = Block(u, j)
            /\ HeaderToken(u, i)' <=> HeaderToken(u, j)
            /\ Unmet(u, i)' <=> Unmet(u, j)
            /\ DataToken(u, i)' <=> DataToken(u, j)
  BY <1>10, <1>11, SMTT(30)
<1>15. \A u \in Threads : \A i, j \in Items(u)' : Was(t, u, i) = Was(t, u, j) => i = j
  BY WasInjective
<1>16. /\ "HeaderReady" \in R => "HeaderReady" \in flags[b] /\ "HeaderReady" \notin phases[b]
       /\ "DataReady" \in R => "DataReady" \in flags[b] /\ "DataReady" \notin phases[b]
  <2>1. HeaderTokens /\ DataTokens
    OBVIOUS
  <2> HIDE DEF IInv
  <2> QED
    BY <1>1, <1>3, <2>1, SMTT(30) DEF HeaderTokens, DataTokens, b
<1>17. ASSUME NEW u \in Threads, NEW v \in Threads, NEW i \in Items(u)', NEW j \in Items(v)',
              Block(u, i)' = Block(v, j)', ~Kept(t, u, i), ~Kept(t, v, j)
       PROVE  u = v /\ i = j
  <2>1. PICK k \in 1..L : i = n - 1 + k /\ Block(u, i)' = successors[b][k]
    BY <1>12, <1>17
  <2>2. PICK l \in 1..L : j = n - 1 + l /\ Block(v, j)' = successors[b][l]
    BY <1>12, <1>17
  <2>3. k = l
    BY <1>7, <1>17, <2>1, <2>2
  <2> QED
    BY <1>12, <1>17, <2>1, <2>2, <2>3
<1>18. HeaderTokens'
  <2>1. ASSUME NEW u \in Threads, NEW i \in Items(u)', HeaderToken(u, i)'
        PROVE  /\ "HeaderReady" \in phases'[Parent[Block(u, i)']]
               /\ "HeaderReady" \notin phases'[Block(u, i)']
               /\ "HeaderReady" \in flags[Block(u, i)'] <=> i = 1 /\ pc'[u] = "phases"
    <3>1. CASE Kept(t, u, i)
      <4> DEFINE j == Was(t, u, i)
                 c == Block(u, j)
      <4>1. /\ j \in Items(u) /\ c \in Blocks \ Loaded /\ (u # t \/ j # 1) /\ Block(u, i)' = c
            /\ HeaderToken(u, j)
            /\ (i = 1 /\ pc'[u] = "phases") <=> (j = 1 /\ pc[u] = "phases")
        BY <1>11, <2>1, <3>1
      <4>2. /\ "HeaderReady" \in phases[Parent[c]] /\ "HeaderReady" \notin phases[c]
            /\ "HeaderReady" \in flags[c] <=> j = 1 /\ pc[u] = "phases"
        BY <4>1 DEF HeaderTokens
      <4>3. "HeaderReady" \in R => c # b
        BY <1>1, <1>3, <4>1, HeaderTokenSingle DEF b
      <4>4. Parent[c] \in Blocks
        BY <4>1, Tree
      <4> HIDE DEF c, j
      <4> QED
        BY <1>8, <4>1, <4>2, <4>3, <4>4
    <3>2. CASE ~Kept(t, u, i)
      <4>1. "HeaderReady" \in R /\ pc'[u] # "phases"
        BY <1>12, <2>1, <3>2
      <4>2. PICK k \in 1..L : Block(u, i)' = successors[b][k]
        BY <1>12, <3>2
      <4>3. "HeaderReady" \notin flags[successors[b][k]] /\ "HeaderReady" \notin phases[successors[b][k]]
        BY <1>7, <1>16, <4>1 DEF HeaderBits
      <4> QED
        BY <1>7, <1>8, <4>1, <4>2, <4>3
    <3> QED
      BY <3>1, <3>2
  <2>2. ASSUME NEW u \in Threads, NEW v \in Threads, NEW i \in Items(u)', NEW j \in Items(v)',
               HeaderToken(u, i)', HeaderToken(v, j)', Block(u, i)' = Block(v, j)',
               Kept(t, u, i), Kept(t, v, j)
        PROVE  u = v /\ i = j
    <3>1. /\ Was(t, u, i) \in Items(u) /\ Was(t, v, j) \in Items(v)
          /\ HeaderToken(u, Was(t, u, i)) /\ HeaderToken(v, Was(t, v, j))
          /\ Block(u, Was(t, u, i)) = Block(v, Was(t, v, j))
      BY <1>11, <2>2
    <3>2. u = v /\ Was(t, u, i) = Was(t, v, j)
      BY <3>1, HeaderTokenSingle
    <3> QED
      BY <1>15, <3>2
  <2>3. ASSUME NEW u \in Threads, NEW v \in Threads, NEW i \in Items(u)', NEW j \in Items(v)',
               HeaderToken(u, i)', HeaderToken(v, j)', Block(u, i)' = Block(v, j)',
               ~Kept(t, u, i)
        PROVE  ~Kept(t, v, j)
    <3> SUFFICES ASSUME Kept(t, v, j) PROVE FALSE
      OBVIOUS
    <3>1. PICK k \in 1..L : Block(u, i)' = successors[b][k]
      BY <1>12, <2>3
    <3>2. "HeaderReady" \in R
      BY <1>12, <2>3
    <3>3. "HeaderReady" \in phases[Parent[Block(v, j)']]
      <4>1. /\ Was(t, v, j) \in Items(v) /\ HeaderToken(v, Was(t, v, j))
            /\ Block(v, j)' = Block(v, Was(t, v, j))
        BY <1>11, <2>3
      <4>2. "HeaderReady" \in phases[Parent[Block(v, Was(t, v, j))]]
        BY <4>1 DEF HeaderTokens
      <4> QED
        BY <4>1, <4>2
    <3> QED
      BY <1>7, <1>16, <2>3, <3>1, <3>2, <3>3
  <2>4. ASSUME NEW u \in Threads, NEW v \in Threads, NEW i \in Items(u)', NEW j \in Items(v)',
               Block(u, i)' = Block(v, j)', ~Kept(t, u, i), ~Kept(t, v, j)
        PROVE  u = v /\ i = j
    BY <1>17, <2>4
  <2>5. HeaderTokens
    OBVIOUS
  <2> HIDE DEF IInv
  <2> QED
    BY <1>2, <2>1, <2>2, <2>3, <2>4, <2>5, SMTT(30) DEF HeaderTokens
<1>19. DataTokens'
  <2>1. ASSUME NEW u \in Threads, NEW i \in Items(u)', ParentToken(u, i)'
        PROVE  /\ "DataReady" \in phases'[Parent[Block(u, i)']]
               /\ Unmet(u, i)' => "ParentDataReady" \notin flags[Block(u, i)']
    <3>1. CASE Kept(t, u, i)
      <4> DEFINE j == Was(t, u, i)
                 c == Block(u, j)
      <4>1. /\ j \in Items(u) /\ c \in Blocks \ Loaded /\ Block(u, i)' = c
            /\ ParentToken(u, j) /\ (Unmet(u, i)' <=> Unmet(u, j))
        BY <1>11, <2>1, <3>1
      <4>2. /\ "DataReady" \in phases[Parent[c]]
            /\ Unmet(u, j) => "ParentDataReady" \notin flags[c]
        BY <4>1 DEF DataTokens
      <4>3. Parent[c] \in Blocks
        BY <4>1, Tree
      <4> HIDE DEF c, j
      <4> QED
        BY <1>8, <4>1, <4>2, <4>3
    <3>2. CASE ~Kept(t, u, i)
      <4>1. "DataReady" \in R
        BY <1>12, <2>1, <3>2
      <4>2. PICK k \in 1..L : Block(u, i)' = successors[b][k]
        BY <1>12, <3>2
      <4>3. "ParentDataReady" \notin flags[successors[b][k]]
        BY <1>7, <1>16, <4>1 DEF DataBits
      <4> QED
        BY <1>7, <1>8, <4>1, <4>2, <4>3
    <3> QED
      BY <3>1, <3>2
  <2>2. ASSUME NEW u \in Threads, NEW v \in Threads, NEW i \in Items(u)', NEW j \in Items(v)',
               ParentToken(u, i)', ParentToken(v, j)', Block(u, i)' = Block(v, j)',
               Kept(t, u, i), Kept(t, v, j)
        PROVE  u = v /\ i = j
    <3>1. /\ Was(t, u, i) \in Items(u) /\ Was(t, v, j) \in Items(v)
          /\ ParentToken(u, Was(t, u, i)) /\ ParentToken(v, Was(t, v, j))
          /\ Block(u, Was(t, u, i)) = Block(v, Was(t, v, j))
      BY <1>11, <2>2
    <3>2. u = v /\ Was(t, u, i) = Was(t, v, j)
      BY <3>1, ParentTokenSingle
    <3> QED
      BY <1>15, <3>2
  <2>3. ASSUME NEW u \in Threads, NEW v \in Threads, NEW i \in Items(u)', NEW j \in Items(v)',
               ParentToken(u, i)', ParentToken(v, j)', Block(u, i)' = Block(v, j)',
               ~Kept(t, u, i)
        PROVE  ~Kept(t, v, j)
    <3> SUFFICES ASSUME Kept(t, v, j) PROVE FALSE
      OBVIOUS
    <3>1. PICK k \in 1..L : Block(u, i)' = successors[b][k]
      BY <1>12, <2>3
    <3>2. "DataReady" \in R
      BY <1>12, <2>3
    <3>3. "DataReady" \in phases[Parent[Block(v, j)']]
      <4>1. /\ Was(t, v, j) \in Items(v) /\ ParentToken(v, Was(t, v, j))
            /\ Block(v, j)' = Block(v, Was(t, v, j))
        BY <1>11, <2>3
      <4>2. "DataReady" \in phases[Parent[Block(v, Was(t, v, j))]]
        BY <4>1 DEF DataTokens
      <4> QED
        BY <4>1, <4>2
    <3> QED
      BY <1>7, <1>16, <2>3, <3>1, <3>2, <3>3
  <2>4. ASSUME NEW u \in Threads, NEW i \in Items(u)', DataToken(u, i)'
        PROVE  /\ Kept(t, u, i)
               /\ {"DataDone", "ParentDataReady"} \subseteq flags[Block(u, i)']
               /\ "DataReady" \in flags[Block(u, i)'] <=> i = 1 /\ pc'[u] = "phases"
               /\ "DataReady" \notin phases'[Block(u, i)']
    <3> DEFINE j == Was(t, u, i)
               c == Block(u, j)
    <3>1. Kept(t, u, i)
      BY <1>12, <2>4
    <3>2. /\ j \in Items(u) /\ c \in Blocks \ Loaded /\ (u # t \/ j # 1) /\ Block(u, i)' = c
          /\ DataToken(u, j)
          /\ (i = 1 /\ pc'[u] = "phases") <=> (j = 1 /\ pc[u] = "phases")
      BY <1>11, <2>4, <3>1
    <3>3. /\ {"DataDone", "ParentDataReady"} \subseteq flags[c]
          /\ "DataReady" \in flags[c] <=> j = 1 /\ pc[u] = "phases"
          /\ "DataReady" \notin phases[c]
      BY <3>2 DEF DataTokens
    <3>4. "DataReady" \in R => c # b
      BY <1>1, <1>3, <3>2, DataTokenSingle DEF b
    <3> HIDE DEF c, j
    <3> QED
      BY <1>8, <3>1, <3>2, <3>3, <3>4
  <2>5. ASSUME NEW u \in Threads, NEW v \in Threads, NEW i \in Items(u)', NEW j \in Items(v)',
               DataToken(u, i)', DataToken(v, j)', Block(u, i)' = Block(v, j)'
        PROVE  u = v /\ i = j
    <3>1. Kept(t, u, i) /\ Kept(t, v, j)
      BY <2>4, <2>5
    <3>2. /\ Was(t, u, i) \in Items(u) /\ Was(t, v, j) \in Items(v)
          /\ DataToken(u, Was(t, u, i)) /\ DataToken(v, Was(t, v, j))
          /\ Block(u, Was(t, u, i)) = Block(v, Was(t, v, j))
      BY <1>11, <2>5, <3>1
    <3>3. u = v /\ Was(t, u, i) = Was(t, v, j)
      BY <3>2, DataTokenSingle
    <3> QED
      BY <1>15, <3>3
  <2>6. ASSUME NEW u \in Threads, NEW v \in Threads, NEW i \in Items(u)', NEW j \in Items(v)',
               Block(u, i)' = Block(v, j)', ~Kept(t, u, i), ~Kept(t, v, j)
        PROVE  u = v /\ i = j
    BY <1>17, <2>6
  <2>7. ASSUME NEW u \in Threads, NEW v \in Threads, NEW i \in Items(u)', NEW j \in Items(v)',
               ParentToken(u, i)', ParentToken(v, j)', Block(u, i)' = Block(v, j)'
        PROVE  u = v /\ i = j
    BY <2>2, <2>3, <2>6, <2>7
  <2>8. DataTokens
    OBVIOUS
  <2> HIDE DEF IInv
  <2> QED
    BY <1>2, <2>1, <2>4, <2>5, <2>7, <2>8, SMTT(30) DEF DataTokens
<1>20. HeaderBits' /\ DataBits'
  <2>1. \A c \in Blocks : \A r \in phases'[c] : r \in flags[c]
    <3>1. \A c \in Blocks : \A r \in phases[c] : r \in flags[c]
      <4>1. \A c \in Blocks : phases[c] \subseteq {"HeaderReady", "DataReady"}
        BY DEF TypeOK, SuccessorPhase
      <4> QED
        BY <4>1 DEF HeaderBits, DataBits
    <3>2. \A r \in R : r \in flags[b]
      BY <1>1, <1>3, <1>16 DEF TypeOK, SuccessorPhase
    <3> QED
      BY <1>8, <3>1, <3>2
  <2> QED
    BY <1>2, <1>8, <1>9, <2>1, BitsAfter
<1>21. PhaseCover("HeaderReady")' /\ PhaseCover("DataReady")'
  <2>1. \A u \in Threads \ {t} : /\ pc'[u] = pc[u] /\ ready'[u] = ready[u]
                                 /\ Block(u, 1)' = Block(u, 1)
    BY <1>10 DEF Block
  <2>2. ASSUME NEW r, PhaseCover(r) PROVE PhaseCover(r)'
    <3>1. ASSUME NEW c \in Blocks, r \in flags[c], r \notin phases'[c]
          PROVE  \E u \in Threads : pc'[u] = "phases" /\ Block(u, 1)' = c /\ r \in ready'[u]
      <4>1. r \notin phases[c]
        BY <1>8, <3>1
      <4>2. PICK u \in Threads : pc[u] = "phases" /\ Block(u, 1) = c /\ r \in ready[u]
        BY <2>2, <3>1, <4>1 DEF PhaseCover
      <4>3. u # t
        BY <1>8, <3>1, <4>2 DEF b, R
      <4> QED
        BY <2>1, <4>2, <4>3
    <3> QED
      BY <1>2, <3>1 DEF PhaseCover
  <2> QED
    BY <2>2
<1>22. HeaderCover'
  <2>1. ASSUME NEW c \in Blocks \ Loaded, Linked(c), "HeaderReady" \in phases'[Parent[c]]
        PROVE  \/ "HeaderReady" \in flags[c]
               \/ \E u \in Threads : \E i \in Items(u)' : HeaderToken(u, i)' /\ Block(u, i)' = c
    <3>0. Parent[c] \in Blocks
      BY Tree
    <3>1. CASE "HeaderReady" \in phases[Parent[c]] /\ "HeaderReady" \notin flags[c]
      <4>1. PICK u \in Threads : \E i \in Items(u) : HeaderToken(u, i) /\ Block(u, i) = c
        BY <2>1, <3>1 DEF HeaderCover
      <4>2. PICK i \in Items(u) : HeaderToken(u, i) /\ Block(u, i) = c
        BY <4>1
      <4>3. u # t \/ i # 1
        BY <1>3, <1>16, <3>1, <4>2 DEF b
      <4> QED
        BY <1>14, <4>2, <4>3
    <3>2. CASE "HeaderReady" \notin phases[Parent[c]]
      <4>1. Parent[c] = b /\ "HeaderReady" \in R
        BY <1>8, <2>1, <3>0, <3>2
      <4>2. PICK k \in 1..L : successors[b][k] = c
        BY <2>1, <4>1 DEF Linked, L
      <4>3. PICK i \in Items(t)' : ~Kept(t, t, i) /\ Block(t, i)' = c
        BY <1>13, <4>2
      <4> QED
        BY <1>12, <4>1, <4>3
    <3> QED
      BY <3>1, <3>2
  <2> HIDE DEF IInv
  <2> QED
    BY <1>2, <1>9, <2>1, SMTT(30) DEF HeaderCover
<1>23. ParentCover'
  <2>1. ASSUME NEW c \in Blocks \ Loaded, Linked(c), "DataReady" \in phases'[Parent[c]]
        PROVE  \/ "ParentDataReady" \in flags[c]
               \/ \E u \in Threads : \E i \in Items(u)' : Unmet(u, i)' /\ Block(u, i)' = c
    <3>0. Parent[c] \in Blocks
      BY Tree
    <3>1. CASE "DataReady" \in phases[Parent[c]] /\ "ParentDataReady" \notin flags[c]
      <4>1. PICK u \in Threads : \E i \in Items(u) : Unmet(u, i) /\ Block(u, i) = c
        BY <2>1, <3>1 DEF ParentCover
      <4>2. PICK i \in Items(u) : Unmet(u, i) /\ Block(u, i) = c
        BY <4>1
      <4>3. u # t \/ i # 1
        BY <1>3, <4>2
      <4> QED
        BY <1>14, <4>2, <4>3
    <3>2. CASE "DataReady" \notin phases[Parent[c]]
      <4>1. Parent[c] = b /\ "DataReady" \in R
        BY <1>8, <2>1, <3>0, <3>2
      <4>2. PICK k \in 1..L : successors[b][k] = c
        BY <2>1, <4>1 DEF Linked, L
      <4>3. PICK i \in Items(t)' : ~Kept(t, t, i) /\ Block(t, i)' = c
        BY <1>13, <4>2
      <4> QED
        BY <1>12, <4>1, <4>3
    <3> QED
      BY <3>1, <3>2
  <2>2. ParentCover
    OBVIOUS
  <2> HIDE DEF IInv
  <2> QED
    BY <1>2, <1>9, <2>1, <2>2, SMTT(30) DEF ParentCover
<1>24. DataCover'
  <2>1. ASSUME NEW c \in Blocks \ Loaded, {"DataDone", "ParentDataReady"} \subseteq flags[c]
        PROVE  \/ "DataReady" \in flags[c]
               \/ ~Valid(c) \/ ~Valid(Parent[c])
               \/ \E u \in Threads : \E i \in Items(u)' : DataToken(u, i)' /\ Block(u, i)' = c
    <3>1. CASE \E u \in Threads : \E i \in Items(u) : DataToken(u, i) /\ Block(u, i) = c
      <4>1. PICK u \in Threads : \E i \in Items(u) : DataToken(u, i) /\ Block(u, i) = c
        BY <3>1
      <4>2. PICK i \in Items(u) : DataToken(u, i) /\ Block(u, i) = c
        BY <4>1
      <4>3. CASE u = t /\ i = 1
        BY <1>3, <1>16, <4>2, <4>3 DEF b
      <4>4. CASE u # t \/ i # 1
        BY <1>14, <4>2, <4>4
      <4> QED
        BY <4>3, <4>4
    <3> QED
      BY <2>1, <3>1 DEF DataCover
  <2>2. \A c : Valid(c)' <=> Valid(c)
    BY <1>2 DEF Valid
  <2>3. DataCover
    OBVIOUS
  <2> HIDE DEF IInv
  <2> QED
    BY <1>2, <2>1, <2>2, <2>3, SMTT(30) DEF DataCover
<1> QED
  BY <1>9, <1>18, <1>19, <1>20, <1>21, <1>22, <1>23, <1>24

-----------------------------------------------------------------------------
(***************************************************************************)
(* The fetch_or of the Ready bits, and the theorems                        *)
(***************************************************************************)

\* The fetch_or that publishes the Ready bits keeps the invariant: the bits come
\* from this thread's tokens, so nobody else's token names them.
LEMMA PublishReadyInv ==
  ASSUME IInv, NEW t \in Threads, PublishReady(t)
  PROVE  IInv'
<1> USE DEF IInv
<1> DEFINE b == Block(t, 1)
           R == ready[t]
           Better == /\ SuccessorPhase \subseteq flags[b] \cup R
                     /\ best[t] = NoBlock \/ chainWork[b] > chainWork[best[t]]
<1>1. /\ 1 \in Items(t) /\ b \in Blocks \ Loaded /\ Parent[b] \in Blocks /\ Linked(b)
      /\ Current(t) = b /\ pc[t] = "publish" /\ pc[t] \in WalkSteps
  BY WalkItem DEF PublishReady, WalkSteps
<1>2. /\ UNCHANGED <<prev, height, chainWork, successors, phases, call, withData, queue, ready, notified>>
      /\ pc' = [pc EXCEPT ![t] = "phases"]
      /\ FetchOr(b, R)
      /\ best' = [best EXCEPT ![t] = IF Better THEN b ELSE best[t]]
  BY <1>1, SMTT(30) DEF PublishReady, Goto
<1>3. R \subseteq SuccessorPhase /\ R \subseteq BlockFlags
  <2>1. R \in SUBSET SuccessorPhase
    BY DEF TypeOK
  <2> QED
    BY <2>1 DEF SuccessorPhase, BlockFlags
<1>4. /\ "HeaderReady" \in R <=> HeaderToken(t, 1)
      /\ "DataReady" \in R <=> DataToken(t, 1)
      /\ Begun(t, 1) /\ ~Unmet(t, 1)
  BY <1>1 DEF Control, Begun, DataToken, Unmet
<1> HIDE DEF b, R, Better
<1>5. /\ flags' \in [Blocks -> SUBSET BlockFlags]
      /\ flags'[b] = flags[b] \cup R
      /\ \A c \in Blocks \ {b} : flags'[c] = flags[c]
      /\ \A c \in Blocks : flags[c] \subseteq flags'[c]
  <2>1. /\ flags' \in [Blocks -> SUBSET BlockFlags]
        /\ flags'[b] = flags[b] \cup R
        /\ \A c \in Blocks \ {b} : flags'[c] = flags[c]
    BY <1>1, <1>2, <1>3, FetchOrBits
  <2> QED
    BY <1>1, <2>1
<1>6. \A c \in Blocks : \A r \in {"HeaderDone", "DataDone", "ParentDataReady", "Invalid"} :
        r \in flags'[c] <=> r \in flags[c]
  BY <1>3, <1>5 DEF SuccessorPhase
<1>7. /\ pc'[t] = "phases" /\ pc'[t] \in WalkSteps /\ Begun(t, 1)' /\ ~Unmet(t, 1)'
      /\ \A u \in Threads \ {t} : pc'[u] = pc[u] /\ best'[u] = best[u]
      /\ best'[t] = IF Better THEN b ELSE best[t]
  <2>1. TypeOK
    OBVIOUS
  <2> HIDE DEF IInv
  <2> QED
    BY <1>2, <2>1, SMTT(30) DEF TypeOK, WalkSteps, Begun, Unmet
<1>8. TypeOK'
  <2>1. pc' \in [Threads -> WalkSteps \cup {"idle", "elect", "write", "done", "link", "data", "notify"}]
    <3>1. TypeOK
      OBVIOUS
    <3> HIDE DEF IInv
    <3> QED
      BY <1>2, <3>1, SMTT(30) DEF TypeOK, WalkSteps
  <2>2. best' \in [Threads -> Blocks \cup {NoBlock}]
    <3>1. TypeOK
      OBVIOUS
    <3> HIDE DEF IInv
    <3> QED
      BY <1>1, <1>2, <3>1, SMTT(30) DEF TypeOK
  <2> QED
    BY <1>2, <1>5, <2>1, <2>2 DEF TypeOK
<1>9. Control' /\ Writers' /\ Lists' /\ ItemsLinked' /\ \A c : Linked(c)' <=> Linked(c)
  <2>1. "HeaderReady" \in ready'[t] <=> HeaderToken(t, 1)
    BY <1>2, <1>4 DEF R
  <2>2. \A c \in Blocks : \A r \in {"HeaderDone", "DataDone"} : r \in flags'[c] => r \in flags[c]
    BY <1>6
  <2>3. \A u \in Threads \ {t} : pc'[u] = pc[u] /\ ready'[u] = ready[u]
    BY <1>2, <1>7
  <2> QED
    BY <1>1, <1>2, <1>5, <1>7, <2>1, <2>2, <2>3, StayFrame
<1>10. \A u \in Threads :
         /\ Items(u)' = Items(u)
         /\ \A i \in Items(u) :
              /\ Block(u, i) \in Blocks \ Loaded /\ Linked(Block(u, i)) /\ Block(u, i)' = Block(u, i)
              /\ HeaderToken(u, i)' <=> HeaderToken(u, i)
              /\ ParentToken(u, i)' <=> ParentToken(u, i)
              /\ Unmet(u, i)' <=> Unmet(u, i)
              /\ DataToken(u, i)' <=> DataToken(u, i)
  <2>1. DataToken(t, 1)' <=> DataToken(t, 1)
    BY <1>2, <1>4, <1>7 DEF DataToken
  <2>2. \A u \in Threads \ {t} : pc'[u] = pc[u] /\ ready'[u] = ready[u]
    BY <1>2, <1>7
  <2> QED
    BY <1>2, <1>4, <1>7, <2>1, <2>2, StayTokens
<1>11. \A u \in Threads : \A i \in Items(u) :
         (i = 1 /\ pc'[u] = "phases") <=> (u = t /\ i = 1) \/ (i = 1 /\ pc[u] = "phases")
  BY <1>1, <1>7
<1>12. HeaderTokens'
  <2>1. ASSUME NEW u \in Threads, NEW i \in Items(u), HeaderToken(u, i)
        PROVE  "HeaderReady" \in flags'[Block(u, i)] <=> i = 1 /\ pc'[u] = "phases"
    <3>1. CASE u = t /\ i = 1
      BY <1>4, <1>5, <1>7, <2>1, <3>1 DEF b
    <3>2. CASE ~(u = t /\ i = 1)
      <4>1. "HeaderReady" \in R => Block(u, i) # b
        BY <1>1, <1>4, <2>1, <3>2, HeaderTokenSingle DEF b
      <4>2. "HeaderReady" \in flags'[Block(u, i)] <=> "HeaderReady" \in flags[Block(u, i)]
        BY <1>5, <1>10, <4>1
      <4> QED
        BY <1>11, <2>1, <3>2, <4>2 DEF HeaderTokens
    <3> QED
      BY <3>1, <3>2
  <2>2. \A u \in Threads : \A i \in Items(u)' : HeaderToken(u, i)' =>
          /\ "HeaderReady" \in phases'[Parent[Block(u, i)']]
          /\ "HeaderReady" \notin phases'[Block(u, i)']
          /\ "HeaderReady" \in flags'[Block(u, i)'] <=> i = 1 /\ pc'[u] = "phases"
    <3>1. HeaderTokens
      OBVIOUS
    <3> HIDE DEF IInv
    <3> QED
      BY <1>2, <1>10, <2>1, <3>1, SMTT(30) DEF HeaderTokens
  <2>3. \A u, v \in Threads : \A i \in Items(u)', j \in Items(v)' :
          HeaderToken(u, i)' /\ HeaderToken(v, j)' /\ Block(u, i)' = Block(v, j)' => u = v /\ i = j
    <3> SUFFICES ASSUME NEW u \in Threads, NEW v \in Threads, NEW i \in Items(u)', NEW j \in Items(v)',
                        HeaderToken(u, i)', HeaderToken(v, j)', Block(u, i)' = Block(v, j)'
                 PROVE  u = v /\ i = j
      OBVIOUS
    <3>1. /\ i \in Items(u) /\ j \in Items(v) /\ HeaderToken(u, i) /\ HeaderToken(v, j)
          /\ Block(u, i) = Block(v, j)
      BY <1>10
    <3> QED
      BY <3>1, HeaderTokenSingle
  <2> QED
    BY <2>2, <2>3, HeaderTokensAfter
<1>13. DataTokens'
  <2>1. ASSUME NEW u \in Threads, NEW i \in Items(u), DataToken(u, i)
        PROVE  "DataReady" \in flags'[Block(u, i)] <=> i = 1 /\ pc'[u] = "phases"
    <3>1. CASE u = t /\ i = 1
      BY <1>4, <1>5, <1>7, <2>1, <3>1 DEF b
    <3>2. CASE ~(u = t /\ i = 1)
      <4>1. "DataReady" \in R => Block(u, i) # b
        BY <1>1, <1>4, <2>1, <3>2, DataTokenSingle DEF b
      <4>2. "DataReady" \in flags'[Block(u, i)] <=> "DataReady" \in flags[Block(u, i)]
        BY <1>5, <1>10, <4>1
      <4> QED
        BY <1>11, <2>1, <3>2, <4>2 DEF DataTokens
    <3> QED
      BY <3>1, <3>2
  <2>2. \A u \in Threads : \A i \in Items(u) : \A r \in {"DataDone", "ParentDataReady"} :
          r \in flags'[Block(u, i)] <=> r \in flags[Block(u, i)]
    BY <1>6, <1>10
  <2>3. \A u \in Threads : \A i \in Items(u)' : DataToken(u, i)' =>
          /\ {"DataDone", "ParentDataReady"} \subseteq flags'[Block(u, i)']
          /\ "DataReady" \in flags'[Block(u, i)'] <=> i = 1 /\ pc'[u] = "phases"
          /\ "DataReady" \notin phases'[Block(u, i)']
    <3>1. DataTokens
      OBVIOUS
    <3> HIDE DEF IInv
    <3> QED
      BY <1>2, <1>10, <2>1, <2>2, <3>1, SMTT(30) DEF DataTokens
  <2>4. \A u \in Threads : \A i \in Items(u)' : ParentToken(u, i)' =>
          /\ "DataReady" \in phases'[Parent[Block(u, i)']]
          /\ Unmet(u, i)' => "ParentDataReady" \notin flags'[Block(u, i)']
    <3>1. DataTokens
      OBVIOUS
    <3> HIDE DEF IInv
    <3> QED
      BY <1>2, <1>10, <2>2, <3>1, SMTT(30) DEF DataTokens
  <2>5. \A u, v \in Threads : \A i \in Items(u)', j \in Items(v)' :
          ParentToken(u, i)' /\ ParentToken(v, j)' /\ Block(u, i)' = Block(v, j)' => u = v /\ i = j
    <3> SUFFICES ASSUME NEW u \in Threads, NEW v \in Threads, NEW i \in Items(u)', NEW j \in Items(v)',
                        ParentToken(u, i)', ParentToken(v, j)', Block(u, i)' = Block(v, j)'
                 PROVE  u = v /\ i = j
      OBVIOUS
    <3>1. /\ i \in Items(u) /\ j \in Items(v) /\ ParentToken(u, i) /\ ParentToken(v, j)
          /\ Block(u, i) = Block(v, j)
      BY <1>10
    <3> QED
      BY <3>1, ParentTokenSingle
  <2>6. \A u, v \in Threads : \A i \in Items(u)', j \in Items(v)' :
          DataToken(u, i)' /\ DataToken(v, j)' /\ Block(u, i)' = Block(v, j)' => u = v /\ i = j
    <3> SUFFICES ASSUME NEW u \in Threads, NEW v \in Threads, NEW i \in Items(u)', NEW j \in Items(v)',
                        DataToken(u, i)', DataToken(v, j)', Block(u, i)' = Block(v, j)'
                 PROVE  u = v /\ i = j
      OBVIOUS
    <3>1. /\ i \in Items(u) /\ j \in Items(v) /\ DataToken(u, i) /\ DataToken(v, j)
          /\ Block(u, i) = Block(v, j)
      BY <1>10
    <3> QED
      BY <3>1, DataTokenSingle
  <2> QED
    BY <2>3, <2>4, <2>5, <2>6, DataTokensAfter
<1>14. HeaderBits'
  <2>1. "HeaderReady" \in R => "HeaderReady" \in phases[Parent[b]]
    BY <1>1, <1>4 DEF HeaderTokens, b
  <2>2. HeaderBits
    OBVIOUS
  <2> HIDE DEF IInv
  <2> QED
    BY <1>1, <1>2, <1>5, <1>9, <2>1, <2>2, SMTT(30) DEF HeaderBits
<1>15. DataBits'
  <2>1. "DataReady" \in R => {"DataDone", "ParentDataReady"} \subseteq flags[b]
    BY <1>1, <1>4 DEF DataTokens, b
  <2>2. DataBits
    OBVIOUS
  <2> HIDE DEF IInv
  <2> QED
    BY <1>1, <1>2, <1>5, <1>6, <1>9, <2>1, <2>2, SMTT(30) DEF DataBits
<1>16. Fields'
  <2>1. \A u \in Threads : Begun(u, 1)' => Begun(u, 1) /\ 1 \in Items(u)
    <3>1. \A u \in Threads : Begun(u, 1)' => Begun(u, 1) /\ pc[u] \in WalkSteps
      BY <1>1, <1>4, <1>7 DEF Begun, WalkSteps
    <3> QED
      BY <3>1, WalkItem
  <2>2. "HeaderReady" \in R => height[b] = Depth[b] /\ chainWork[b] = Total[b]
    BY <1>1, <1>4 DEF Fields, b
  <2>3. \A c \in Blocks : "HeaderReady" \in flags'[c] => height[c] = Depth[c] /\ chainWork[c] = Total[c]
    BY <1>5, <2>2 DEF Fields
  <2>4. Fields
    OBVIOUS
  <2> HIDE DEF IInv
  <2> QED
    BY <1>2, <1>10, <2>1, <2>3, <2>4, SMTT(30) DEF Fields
<1>17. PhaseCover("HeaderReady")' /\ PhaseCover("DataReady")'
  <2>1. \A u \in Threads : /\ Block(u, 1)' = Block(u, 1)
                           /\ pc[u] = "phases" => pc'[u] = "phases"
    BY <1>1, <1>2, <1>7 DEF Block
  <2>2. ASSUME NEW r \in {"HeaderReady", "DataReady"}, PhaseCover(r) PROVE PhaseCover(r)'
    <3>1. ASSUME NEW c \in Blocks, r \in flags'[c], r \notin phases[c]
          PROVE  \E u \in Threads : pc'[u] = "phases" /\ Block(u, 1) = c /\ r \in ready[u]
      <4>1. CASE c = b /\ r \in R
        BY <1>7, <4>1 DEF b, R
      <4>2. CASE ~(c = b /\ r \in R)
        <5>1. r \in flags[c] \ phases[c]
          BY <1>5, <3>1, <4>2
        <5> QED
          BY <2>1, <2>2, <5>1 DEF PhaseCover
      <4> QED
        BY <4>1, <4>2
    <3> QED
      BY <1>2, <2>1, <3>1 DEF PhaseCover
  <2> QED
    BY <2>2
<1>18. HeaderCover'
  <2>1. ASSUME NEW c \in Blocks \ Loaded, Linked(c), "HeaderReady" \in phases[Parent[c]],
               "HeaderReady" \notin flags[c]
        PROVE  \E u \in Threads : \E i \in Items(u)' : HeaderToken(u, i)' /\ Block(u, i)' = c
    <3>1. HeaderCover
      OBVIOUS
    <3> HIDE DEF IInv
    <3> QED
      BY <1>10, <2>1, <3>1, SMTT(30) DEF HeaderCover
  <2> QED
    BY <1>2, <1>5, <1>9, <2>1 DEF HeaderCover
<1>19. ParentCover'
  <2>1. ASSUME NEW c \in Blocks \ Loaded, Linked(c), "DataReady" \in phases[Parent[c]],
               "ParentDataReady" \notin flags[c]
        PROVE  \E u \in Threads : \E i \in Items(u)' : Unmet(u, i)' /\ Block(u, i)' = c
    <3>1. ParentCover
      OBVIOUS
    <3> HIDE DEF IInv
    <3> QED
      BY <1>10, <2>1, <3>1, SMTT(30) DEF ParentCover
  <2> QED
    BY <1>2, <1>5, <1>9, <2>1 DEF ParentCover
<1>20. DataCover'
  <2>1. \A c \in Blocks : Valid(c)' <=> Valid(c)
    BY <1>6 DEF Valid
  <2>2. \A c \in Blocks \ Loaded : Parent[c] \in Blocks
    BY Tree
  <2>3. DataCover
    OBVIOUS
  <2> HIDE DEF IInv
  <2> QED
    BY <1>5, <1>6, <1>10, <2>1, <2>2, <2>3, SMTT(30) DEF DataCover
<1>21. NotifyCover'
  <2>1. \A c \in Blocks : Ready(c) => Ready(c)'
    BY <1>5 DEF Ready
  <2>2. notified \subseteq Blocks /\ \A u \in Threads : best[u] # NoBlock => best[u] \in Blocks
    BY DEF TypeOK
  <2>3. {"HeaderReady", "DataReady"} \subseteq flags'[b] <=> SuccessorPhase \subseteq flags[b] \cup R
    BY <1>5 DEF Ready, SuccessorPhase
  <2>4. \A c \in Blocks : Ready(c)' => chainWork[c] = Total[c]
    BY <1>2, <1>16 DEF Fields, Ready
  <2>5. best[t] # NoBlock => Ready(best[t])
    BY DEF NotifyCover
  <2>6. /\ \A c \in notified : Ready(c)'
        /\ \A u \in Threads : best'[u] # NoBlock =>
             {"HeaderReady", "DataReady"} \subseteq flags'[best'[u]] /\ pc'[u] \in WalkSteps \cup {"notify"}
    <3>1. \A c \in notified : Ready(c)'
      BY <2>1, <2>2 DEF NotifyCover
    <3>2. Better => {"HeaderReady", "DataReady"} \subseteq flags'[b]
      BY <2>3 DEF Better
    <3>3. \A u \in Threads : best[u] # NoBlock =>
            {"HeaderReady", "DataReady"} \subseteq flags'[best[u]] /\ pc[u] \in WalkSteps \cup {"notify"}
      BY <2>1, <2>2 DEF NotifyCover, Ready
    <3>4. ASSUME NEW u \in Threads, best'[u] # NoBlock
          PROVE  {"HeaderReady", "DataReady"} \subseteq flags'[best'[u]] /\ pc'[u] \in WalkSteps \cup {"notify"}
      <4>1. CASE u = t
        BY <1>7, <3>2, <3>3, <3>4, <4>1 DEF Ready
      <4>2. CASE u # t
        BY <1>7, <3>3, <3>4, <4>2 DEF Ready
      <4> QED
        BY <4>1, <4>2
    <3> QED
      BY <3>1, <3>4
  <2>7. best[t] # NoBlock => best'[t] # NoBlock /\ Total[best'[t]] >= Total[best[t]]
    <3> HAVE best[t] # NoBlock
    <3>1. chainWork[best[t]] = Total[best[t]]
      BY <2>1, <2>2, <2>4, <2>5
    <3>2. Better => chainWork[b] = Total[b]
      BY <1>1, <2>3, <2>4 DEF Better, Ready
    <3>3. Total[b] \in Nat /\ Total[best[t]] \in Nat
      BY <1>1, <2>2, BlockTree
    <3>4. Better => Total[b] > Total[best[t]]
      BY <3>1, <3>2 DEF Better
    <3>5. b # NoBlock
      BY <1>1, Tree
    <3>6. CASE Better
      BY <1>7, <3>3, <3>4, <3>5, <3>6, SMTT(30)
    <3>7. CASE ~Better
      BY <1>7, <3>3, <3>7, SMTT(30)
    <3> QED
      BY <3>6, <3>7
  <2>8. {"HeaderReady", "DataReady"} \subseteq flags'[b] => best'[t] # NoBlock /\ Total[best'[t]] >= Total[b]
    <3> HAVE {"HeaderReady", "DataReady"} \subseteq flags'[b]
    <3>1. b # NoBlock /\ Total[b] \in Nat /\ chainWork[b] = Total[b]
      BY <1>1, <2>4, Tree, BlockTree DEF Ready
    <3>2. CASE Better
      BY <1>7, <3>1, <3>2, SMTT(30)
    <3>3. CASE ~Better
      <4>1. best[t] # NoBlock /\ ~(chainWork[b] > chainWork[best[t]])
        BY <2>3, <3>3 DEF Better
      <4>2. chainWork[best[t]] = Total[best[t]] /\ Total[best[t]] \in Nat
        BY <2>1, <2>2, <2>4, <2>5, <4>1, BlockTree
      <4> QED
        BY <1>7, <3>1, <3>3, <4>1, <4>2, SMTT(30)
    <3> QED
      BY <3>2, <3>3
  <2>9. ASSUME NEW c \in Blocks \ Loaded, Ready(c)'
        PROVE  \/ \E n \in notified : Total[n] >= Total[c]
               \/ \E u \in Threads : best'[u] # NoBlock /\ Total[best'[u]] >= Total[c]
    <3>1. CASE c = b
      BY <2>8, <2>9, <3>1 DEF Ready
    <3>2. CASE c # b
      <4>1. Ready(c)
        BY <1>5, <2>9, <3>2 DEF Ready
      <4>2. CASE \E n \in notified : Total[n] >= Total[c]
        BY <4>2
      <4>3. CASE \E u \in Threads : best[u] # NoBlock /\ Total[best[u]] >= Total[c]
        <5>1. PICK u \in Threads : best[u] # NoBlock /\ Total[best[u]] >= Total[c]
          BY <4>3
        <5>2. CASE u # t
          BY <1>7, <5>1, <5>2
        <5>3. CASE u = t
          <6>1. best'[t] # NoBlock /\ Total[best'[t]] >= Total[best[t]]
            BY <2>7, <5>1, <5>3
          <6>2. best'[t] \in Blocks /\ best[t] \in Blocks
            BY <1>1, <1>7, <2>2, <5>1, <5>3
          <6>3. Total[best'[t]] \in Nat /\ Total[best[t]] \in Nat /\ Total[c] \in Nat
            BY <6>2, BlockTree
          <6> QED
            BY <5>1, <5>3, <6>1, <6>3, SMTT(30)
        <5> QED
          BY <5>2, <5>3
      <4> QED
        BY <4>1, <4>2, <4>3 DEF NotifyCover
    <3> QED
      BY <3>1, <3>2
  <2>10. NotifyCover
    OBVIOUS
  <2> HIDE DEF IInv
  <2> QED
    BY <1>2, <2>6, <2>9, <2>10, SMTT(30) DEF NotifyCover, Ready
<1> QED
  BY <1>8, <1>9, <1>12, <1>13, <1>14, <1>15, <1>16, <1>17, <1>18, <1>19, <1>20, <1>21

\* A step that changes nothing keeps the invariant.
LEMMA StutterInv ==
  ASSUME IInv, UNCHANGED vars
  PROVE  IInv'
<1> USE DEF IInv
<1>1. UNCHANGED <<flags, prev, height, chainWork, successors, phases, pc, call, withData,
                  queue, ready, best, notified>>
  BY DEF vars, index, walk
<1>2. TypeOK' /\ Control'
  BY <1>1 DEF TypeOK, Control, Begun, HeaderToken
<1>3. Writers' /\ Lists'
  <2>1. /\ \A b \in Blocks : flags[b] \subseteq flags'[b] /\ phases[b] \subseteq phases'[b]
        /\ \A b \in Blocks : \A r \in {"HeaderDone", "DataDone"} : r \in flags'[b] => r \in flags[b]
    BY <1>1
  <2> QED
    BY <1>1, <2>1, WalkFrame
<1>4. /\ ItemsLinked' /\ HeaderTokens' /\ HeaderBits' /\ DataTokens' /\ DataBits'
      /\ HeaderCover' /\ ParentCover' /\ DataCover'
  <2>1. \A u \in Threads :
          /\ Items(u)' = Items(u)
          /\ \A i \in Items(u) :
               /\ Block(u, i) \in Blocks \ Loaded /\ Linked(Block(u, i)) /\ Block(u, i)' = Block(u, i)
               /\ HeaderToken(u, i)' <=> HeaderToken(u, i)
               /\ ParentToken(u, i)' <=> ParentToken(u, i)
               /\ Unmet(u, i)' <=> Unmet(u, i)
               /\ DataToken(u, i)' <=> DataToken(u, i)
               /\ (i = 1 /\ pc'[u] = "phases") <=> (i = 1 /\ pc[u] = "phases")
    <3>1. ItemsLinked
      OBVIOUS
    <3> HIDE DEF IInv
    <3> QED
      BY <1>1, <3>1, SMTT(30) DEF ItemsLinked, Items, Block, HeaderToken, ParentToken, Unmet, DataToken, Begun
  <2>2. /\ \A c \in Blocks : \A r \in {"HeaderReady", "DataReady", "DataDone", "ParentDataReady"} :
             r \in flags'[c] <=> r \in flags[c]
        /\ \A c \in Blocks : Valid(c)' => Valid(c)
    BY <1>1 DEF Valid
  <2> QED
    BY <1>1, <2>1, <2>2, SameTokens
<1>5. Fields'
  <2>1. Fields
    OBVIOUS
  <2> HIDE DEF IInv
  <2> QED
    BY <1>1, <2>1, SMTT(30) DEF Fields, Block, HeaderToken, Begun
<1>6. PhaseCover("HeaderReady")' /\ PhaseCover("DataReady")'
  <2>1. ASSUME NEW r, PhaseCover(r) PROVE PhaseCover(r)'
    BY <1>1, <2>1 DEF PhaseCover, Block
  <2> QED
    BY <2>1
<1>7. NotifyCover'
  BY <1>1 DEF NotifyCover, Ready
<1> QED
  BY <1>2, <1>3, <1>4, <1>5, <1>6, <1>7

\* Every step of every thread, and of the pipeline, keeps the invariant.
LEMMA NextInv ==
  ASSUME IInv, [Next]_vars
  PROVE  IInv'
<1>1. ASSUME NEW t \in Threads, NEW b \in Blocks, AddHeader(t, b)
      PROVE  IInv'
  BY <1>1, AddHeaderInv
<1>2. ASSUME NEW t \in Threads, NEW b \in Blocks, AddBlock(t, b)
      PROVE  IInv'
  BY <1>2, AddBlockInv
<1>3. ASSUME NEW t \in Threads, Continue(t)
      PROVE  IInv'
  <2>1. CASE ElectHeaderWriter(t)
    BY <2>1, ElectHeaderWriterInv
  <2>2. CASE WriteHeader(t)
    BY <2>2, WriteHeaderInv
  <2>3. CASE PublishHeader(t)
    BY <2>3, PublishHeaderInv
  <2>4. CASE AddSuccessor(t)
    BY <2>4, AddSuccessorInv
  <2>5. CASE PublishData(t)
    BY <2>5, PublishDataInv
  <2>6. CASE BuildHeader(t)
    BY <2>6, BuildHeaderInv
  <2>7. CASE MeetParentData(t)
    BY <2>7, MeetParentDataInv
  <2>8. CASE CheckInvalid(t)
    BY <2>8, CheckInvalidInv
  <2>9. CASE PublishReady(t)
    BY <2>9, PublishReadyInv
  <2>10. CASE PublishPhases(t)
    BY <2>10, PublishPhasesInv
  <2>11. CASE NotifyReady(t)
    BY <2>11, NotifyReadyInv
  <2> QED
    BY <1>3, <2>1, <2>2, <2>3, <2>4, <2>5, <2>6, <2>7, <2>8, <2>9, <2>10, <2>11 DEF Continue
<1>4. ASSUME NEW b \in Blocks, MarkInvalid(b)
      PROVE  IInv'
  BY <1>4, MarkInvalidInv
<1>5. CASE UNCHANGED vars
  BY <1>5, StutterInv
<1> QED
  BY <1>1, <1>2, <1>3, <1>4, <1>5 DEF Next

\* The invariant holds in every reachable state of the index.
THEOREM Invariance == Spec => []IInv
<1>1. Init => IInv
  BY InitInv
<1>2. IInv /\ [Next]_vars => IInv'
  BY NextInv
<1> QED
  BY <1>1, <1>2, PTL DEF Spec

\* Every field and local of the index and of its threads keeps its type.
THEOREM TypeCorrect == Spec => []TypeOK
<1>1. IInv => TypeOK
  BY DEF IInv
<1> QED
  BY <1>1, Invariance, PTL

\* The assertion of buildChain holds: no thread publishes a Ready bit that is on.
THEOREM OnePublisherHolds == Spec => []OnePublisher
<1>1. IInv => OnePublisher
  <2> SUFFICES ASSUME IInv, NEW t \in Threads, pc[t] = "publish",
                      NEW r \in ready[t], r \in flags[Current(t)]
               PROVE  FALSE
    BY DEF OnePublisher
  <2>1. 1 \in Items(t) /\ Current(t) = Block(t, 1) /\ Begun(t, 1)
    BY WalkItem DEF WalkSteps, Begun
  <2>2. r = "HeaderReady" \/ r = "DataReady"
    BY DEF IInv, TypeOK, SuccessorPhase
  <2>3. CASE r = "HeaderReady"
    <3>1. HeaderToken(t, 1)
      BY <2>1, <2>3 DEF IInv, Control
    <3> QED
      BY <2>1, <2>3, <3>1 DEF IInv, HeaderTokens
  <2>4. CASE r = "DataReady"
    <3>1. DataToken(t, 1)
      BY <2>1, <2>4 DEF DataToken
    <3> QED
      BY <2>1, <2>4, <3>1 DEF IInv, DataTokens
  <2> QED
    BY <2>2, <2>3, <2>4
<1> QED
  BY <1>1, Invariance, PTL

\* A block on a successor list has a published header and a Prev.
LEMMA LinkedDone ==
  ASSUME IInv, NEW b \in Blocks, b # Genesis, b \in Loaded \/ Linked(b)
  PROVE  "HeaderDone" \in flags[b] /\ prev[b] = Parent[b] /\ Parent[b] \in Blocks
<1>1. Parent[b] \in Blocks
  BY Tree
<1>2. "HeaderDone" \in flags[b]
  <2>1. CASE b \in Loaded
    BY <2>1 DEF IInv, Writers, LoadedFlags, BlockFlags
  <2>2. CASE Linked(b)
    <3>1. PICK i \in 1..Len(successors[Parent[b]]) : successors[Parent[b]][i] = b
      BY <2>2 DEF Linked
    <3> QED
      BY <1>1, <3>1, SMTT(30) DEF IInv, Lists
  <2> QED
    BY <2>1, <2>2
<1> QED
  BY <1>1, <1>2 DEF IInv, Writers

\* Height and ChainWork can be read under HeaderReady, whose path is complete.
THEOREM HeaderPathHolds == Spec => []HeaderPath
<1>1. IInv => HeaderPath
  <2> SUFFICES ASSUME IInv, NEW b \in Blocks, "HeaderReady" \in flags[b]
               PROVE  /\ height[b] = Depth[b] /\ chainWork[b] = Total[b]
                      /\ b # Genesis => /\ "HeaderDone" \in flags[b]
                                        /\ prev[b] = Parent[b]
                                        /\ "HeaderReady" \in flags[Parent[b]]
    BY DEF HeaderPath
  <2>1. height[b] = Depth[b] /\ chainWork[b] = Total[b]
    BY DEF IInv, Fields
  <2>2. ASSUME b # Genesis
        PROVE  /\ "HeaderDone" \in flags[b] /\ prev[b] = Parent[b]
               /\ "HeaderReady" \in flags[Parent[b]]
    <3>1. b \in Loaded \/ (Linked(b) /\ "HeaderReady" \in phases[Parent[b]])
      BY DEF IInv, HeaderBits
    <3>2. "HeaderDone" \in flags[b] /\ prev[b] = Parent[b] /\ Parent[b] \in Blocks
      BY <2>2, <3>1, LinkedDone
    <3>3. CASE b \in Loaded
      <4>1. Parent[b] \in Loaded
        BY <2>2, <3>3, LoadedTree
      <4> QED
        BY <3>2, <4>1 DEF IInv, Writers, LoadedFlags, BlockFlags
    <3>4. CASE "HeaderReady" \in phases[Parent[b]]
      BY <3>2, <3>4 DEF IInv, HeaderBits
    <3> QED
      BY <3>1, <3>2, <3>3, <3>4
  <2> QED
    BY <2>1, <2>2
<1> QED
  BY <1>1, Invariance, PTL

\* DataReady is on only at the end of a complete path of block data.
THEOREM DataPathHolds == Spec => []DataPath
<1>1. IInv => DataPath
  <2> SUFFICES ASSUME IInv, NEW b \in Blocks, "DataReady" \in flags[b]
               PROVE  /\ {"HeaderDone", "DataDone"} \subseteq flags[b]
                      /\ b # Genesis => "DataReady" \in flags[Parent[b]]
    BY DEF DataPath
  <2>1. "DataDone" \in flags[b] /\ (b \in Loaded \/ (Linked(b) /\ "DataReady" \in phases[Parent[b]]))
    BY DEF IInv, DataBits
  <2>2. CASE b = Genesis
    BY <2>1, <2>2, Tree DEF IInv, Writers, LoadedFlags, BlockFlags
  <2>3. CASE b # Genesis
    <3>1. "HeaderDone" \in flags[b] /\ Parent[b] \in Blocks
      BY <2>1, <2>3, LinkedDone
    <3>2. CASE b \in Loaded
      <4>1. Parent[b] \in Loaded
        BY <2>3, <3>2, LoadedTree
      <4> QED
        BY <2>1, <3>1, <4>1 DEF IInv, Writers, LoadedFlags, BlockFlags
    <3>3. CASE "DataReady" \in phases[Parent[b]]
      BY <2>1, <3>1, <3>3 DEF IInv, DataBits
    <3> QED
      BY <2>1, <3>2, <3>3
  <2> QED
    BY <2>2, <2>3
<1> QED
  BY <1>1, Invariance, PTL

\* No thread reads a plain field of a block before its writer has published it.
THEOREM ReadsPublishedHolds == Spec => []ReadsPublished
<1>1. IInv => ReadsPublished
  <2> SUFFICES ASSUME IInv, NEW t \in Threads
               PROVE  /\ pc[t] = "link" => "HeaderDone" \in flags[call[t]]
                      /\ pc[t] \in WalkSteps => "HeaderDone" \in flags[Current(t)]
                      /\ pc[t] = "item" /\ "BuildHeader" \in Events(t) =>
                           "HeaderReady" \in flags[prev[Current(t)]]
                      /\ best[t] # NoBlock => "HeaderReady" \in flags[best[t]]
    BY DEF ReadsPublished
  <2>1. pc[t] = "link" => "HeaderDone" \in flags[call[t]]
    BY DEF IInv, Writers, HeaderWriter
  <2>2. pc[t] \in WalkSteps => "HeaderDone" \in flags[Current(t)]
    BY WalkItem
  <2>3. ASSUME pc[t] = "item", "BuildHeader" \in Events(t)
        PROVE  "HeaderReady" \in flags[prev[Current(t)]]
    <3>1. /\ 1 \in Items(t) /\ Current(t) = Block(t, 1) /\ Events(t) = queue[t][1].events
          /\ Parent[Block(t, 1)] \in Blocks /\ prev[Block(t, 1)] = Parent[Block(t, 1)]
      BY <2>3, WalkItem DEF WalkSteps
    <3>2. HeaderToken(t, 1)
      BY <2>3, <3>1 DEF HeaderToken
    <3>3. "HeaderReady" \in phases[Parent[Block(t, 1)]]
      BY <3>1, <3>2 DEF IInv, HeaderTokens
    <3> QED
      BY <3>1, <3>3 DEF IInv, HeaderBits
  <2>4. best[t] # NoBlock => "HeaderReady" \in flags[best[t]]
    BY DEF IInv, NotifyCover, Ready
  <2> QED
    BY <2>1, <2>2, <2>3, <2>4
<1> QED
  BY <1>1, Invariance, PTL

\* When every call has returned nobody holds a token.
LEMMA QuietTokens ==
  ASSUME IInv, Quiet
  PROVE  \A t \in Threads : Items(t) = {} /\ pc[t] = "idle" /\ best[t] = NoBlock
<1> TAKE t \in Threads
<1>1. pc[t] = "idle"
  BY DEF Quiet
<1>2. queue[t] = <<>>
  BY <1>1 DEF IInv, Control, WalkSteps
<1>3. Items(t) = {}
  BY <1>2, SMTT(30) DEF Items
<1>4. best[t] = NoBlock
  BY <1>1 DEF IInv, NotifyCover, WalkSteps
<1> QED
  BY <1>1, <1>3, <1>4

\* Once every call has returned, no header waits under a ready header and no valid
\* data under ready data, whichever of the two arrived first.
THEOREM NothingLostHolds == Spec => []NothingLost
<1>1. IInv => NothingLost
  <2> SUFFICES ASSUME IInv, Quiet, NEW b \in Blocks \ {Genesis}
               PROVE  /\ HeaderDue(b) => "HeaderReady" \in flags[b]
                      /\ DataDue(b) => "DataReady" \in flags[b]
    BY DEF NothingLost
  <2>1. \A t \in Threads : Items(t) = {} /\ pc[t] = "idle"
    BY QuietTokens
  <2>2. CASE b \in Loaded
    BY <2>2 DEF IInv, Writers, LoadedFlags, BlockFlags
  <2>3. CASE b \notin Loaded
    <3>1. Parent[b] \in Blocks
      BY Tree
    <3>2. "HeaderDone" \in flags[b] => Linked(b)
      BY <2>1, <2>3 DEF IInv, Lists
    <3>3. \A r \in {"HeaderReady", "DataReady"} : r \in flags[Parent[b]] => r \in phases[Parent[b]]
      BY <2>1, <3>1 DEF IInv, PhaseCover
    <3>4. HeaderDue(b) => "HeaderReady" \in flags[b]
      BY <2>1, <2>3, <3>2, <3>3 DEF HeaderDue, IInv, HeaderCover
    <3>5. ASSUME DataDue(b)
          PROVE  "DataReady" \in flags[b]
      <4>1. Linked(b) /\ "DataReady" \in phases[Parent[b]]
        BY <3>2, <3>3, <3>5 DEF DataDue
      <4>2. "ParentDataReady" \in flags[b]
        BY <2>1, <2>3, <4>1 DEF IInv, ParentCover
      <4> QED
        BY <2>1, <2>3, <3>5, <4>2 DEF DataDue, IInv, DataCover
    <3> QED
      BY <3>4, <3>5
  <2> QED
    BY <2>2, <2>3
<1> QED
  BY <1>1, Invariance, PTL

\* The pipeline is told of a block at least as heavy as every block that became
\* ready, and of ready blocks only.
THEOREM HeaviestNotifiedHolds == Spec => []HeaviestNotified
<1>1. IInv => HeaviestNotified
  <2> SUFFICES ASSUME IInv
               PROVE  /\ \A b \in notified : Ready(b)
                      /\ Quiet => \A b \in Blocks \ Loaded : Ready(b) =>
                           \E n \in notified : chainWork[n] >= chainWork[b]
    BY DEF HeaviestNotified
  <2>1. \A b \in notified : Ready(b) /\ b \in Blocks
    BY DEF IInv, NotifyCover, TypeOK
  <2>2. \A b \in Blocks : Ready(b) => chainWork[b] = Total[b]
    BY DEF IInv, Fields, Ready
  <2>3. ASSUME Quiet, NEW b \in Blocks \ Loaded, Ready(b)
        PROVE  \E n \in notified : chainWork[n] >= chainWork[b]
    <3>1. \E n \in notified : Total[n] >= Total[b]
      BY <2>3, QuietTokens DEF IInv, NotifyCover
    <3> QED
      BY <2>1, <2>2, <2>3, <3>1
  <2> QED
    BY <2>1, <2>3
<1> QED
  BY <1>1, Invariance, PTL

\* Every step either leaves Flags alone or is one fetch_or, and it writes Prev,
\* Height or ChainWork of a block only before the block's bit is published.
LEMMA StepEffect ==
  ASSUME IInv, [Next]_vars
  PROVE  /\ \A b \in Blocks : flags[b] \subseteq flags'[b]
         /\ \A b \in Blocks : "HeaderDone" \in flags[b] => prev'[b] = prev[b]
         /\ \A b \in Blocks : "HeaderReady" \in flags[b] =>
              height'[b] = height[b] /\ chainWork'[b] = chainWork[b]
<1> USE DEF IInv
<1>1. ASSUME NEW b \in Blocks, NEW bits, FetchOr(b, bits), bits \subseteq BlockFlags,
             UNCHANGED <<prev, height, chainWork>>
      PROVE  /\ \A c \in Blocks : flags[c] \subseteq flags'[c]
             /\ UNCHANGED <<prev, height, chainWork>>
  BY <1>1, FetchOrBits
<1>2. ASSUME UNCHANGED <<flags, prev, height, chainWork>>
      PROVE  /\ \A c \in Blocks : flags[c] \subseteq flags'[c]
             /\ UNCHANGED <<prev, height, chainWork>>
  BY <1>2
<1> DEFINE Goal == /\ \A b \in Blocks : flags[b] \subseteq flags'[b]
                   /\ \A b \in Blocks : "HeaderDone" \in flags[b] => prev'[b] = prev[b]
                   /\ \A b \in Blocks : "HeaderReady" \in flags[b] =>
                        height'[b] = height[b] /\ chainWork'[b] = chainWork[b]
           Easy == /\ \A c \in Blocks : flags[c] \subseteq flags'[c]
                   /\ UNCHANGED <<prev, height, chainWork>>
<1>3. Easy => Goal
  OBVIOUS
<1>4. ASSUME NEW t \in Threads, NEW b \in Blocks, AddHeader(t, b) \/ AddBlock(t, b)
      PROVE  Easy
  <2>1. CASE AddHeader(t, b)
    BY <1>1, <2>1 DEF AddHeader, BlockFlags
  <2>2. CASE AddBlock(t, b)
    BY <1>1, <2>2 DEF AddBlock, BlockFlags
  <2> QED
    BY <1>4, <2>1, <2>2
<1>5. ASSUME NEW b \in Blocks, MarkInvalid(b)
      PROVE  Easy
  BY <1>1, <1>5 DEF MarkInvalid, BlockFlags
<1>6. ASSUME NEW t \in Threads, ElectHeaderWriter(t) \/ PublishHeader(t) \/ PublishData(t)
      PROVE  Easy
  <2>1. call[t] \in Blocks
    BY <1>6 DEF ElectHeaderWriter, PublishHeader, PublishData, Control
  <2>2. CASE ElectHeaderWriter(t)
    BY <1>1, <2>1, <2>2 DEF ElectHeaderWriter, BlockFlags
  <2>3. CASE PublishHeader(t)
    <3>1. (IF withData[t] THEN {"HeaderDone", "DataDone"} ELSE {"HeaderDone"}) \subseteq BlockFlags
      BY DEF BlockFlags
    <3> QED
      BY <1>1, <2>1, <2>3, <3>1 DEF PublishHeader
  <2>4. CASE PublishData(t)
    BY <1>1, <2>1, <2>4 DEF PublishData, BlockFlags
  <2> QED
    BY <1>6, <2>2, <2>3, <2>4
<1>7. ASSUME NEW t \in Threads, MeetParentData(t) \/ PublishReady(t)
      PROVE  Easy
  <2>1. Current(t) \in Blocks
    BY <1>7, WalkItem DEF MeetParentData, PublishReady, WalkSteps
  <2>2. CASE MeetParentData(t)
    <3>1. CASE "ParentDataReady" \in Events(t)
      BY <1>1, <2>1, <2>2, <3>1 DEF MeetParentData, BlockFlags
    <3>2. CASE "ParentDataReady" \notin Events(t)
      BY <1>2, <2>2, <3>2 DEF MeetParentData
    <3> QED
      BY <3>1, <3>2
  <2>3. CASE PublishReady(t)
    <3>1. ready[t] \subseteq BlockFlags
      BY DEF TypeOK, SuccessorPhase, BlockFlags
    <3> QED
      BY <1>1, <2>1, <2>3, <3>1 DEF PublishReady
  <2> QED
    BY <1>7, <2>2, <2>3
<1>8. ASSUME NEW t \in Threads, AddSuccessor(t) \/ CheckInvalid(t) \/ PublishPhases(t) \/ NotifyReady(t)
      PROVE  Easy
  BY <1>8 DEF AddSuccessor, CheckInvalid, PublishPhases, NotifyReady, index
<1>9. ASSUME NEW t \in Threads, WriteHeader(t)
      PROVE  Goal
  <2>1. call[t] \in Blocks /\ "HeaderDone" \notin flags[call[t]]
    BY <1>9 DEF WriteHeader, Control, Writers, HeaderWriter
  <2>2. \A b \in Blocks \ {call[t]} : prev'[b] = prev[b]
    BY <1>9 DEF WriteHeader, TypeOK
  <2> QED
    BY <1>9, <2>1, <2>2 DEF WriteHeader
<1>10. ASSUME NEW t \in Threads, BuildHeader(t)
       PROVE  Goal
  <2>1. /\ 1 \in Items(t) /\ Current(t) = Block(t, 1) /\ Events(t) = queue[t][1].events
        /\ Current(t) \in Blocks /\ pc[t] = "item"
    BY <1>10, WalkItem DEF BuildHeader, WalkSteps
  <2>2. CASE HeaderToken(t, 1)
    <3>1. "HeaderReady" \notin flags[Current(t)]
      BY <2>1, <2>2 DEF HeaderTokens
    <3>2. \A b \in Blocks \ {Current(t)} : height'[b] = height[b] /\ chainWork'[b] = chainWork[b]
      <4>1. TypeOK
        OBVIOUS
      <4> HIDE DEF IInv
      <4> QED
        BY <1>10, <2>1, <2>2, <4>1, SMTT(30) DEF BuildHeader, HeaderToken, TypeOK
    <3> QED
      BY <1>10, <3>1, <3>2 DEF BuildHeader
  <2>3. CASE ~HeaderToken(t, 1)
    BY <1>10, <2>1, <2>3 DEF BuildHeader, HeaderToken
  <2> QED
    BY <2>2, <2>3
<1>11. ASSUME UNCHANGED vars
       PROVE  Goal
  BY <1>11 DEF vars, index
<1> HIDE DEF Goal, Easy
<1>12. Goal
  BY <1>3, <1>4, <1>5, <1>6, <1>7, <1>8, <1>9, <1>10, <1>11 DEF Next, Continue
<1> QED
  BY <1>12 DEF Goal

\* No bit of Flags is ever cleared, and what a bit publishes never changes again.
THEOREM PublishedStaysHolds == Spec => PublishedStays
<1>1. IInv /\ [Next]_vars =>
        [\A b \in Blocks :
           /\ flags[b] \subseteq flags'[b]
           /\ "HeaderDone" \in flags[b] => prev'[b] = prev[b]
           /\ "HeaderReady" \in flags[b] =>
                height'[b] = height[b] /\ chainWork'[b] = chainWork[b]]_vars
  BY StepEffect
<1> QED
  BY <1>1, Invariance, PTL DEF Spec, PublishedStays

\* What a fetch_or on Flags does to the sets the readiness specification is about
LEMMA FetchOrWith ==
  ASSUME TypeOK, NEW b \in Blocks, NEW bits, FetchOr(b, bits), bits \subseteq BlockFlags
  PROVE  \A x : With(x)' = IF x \in bits THEN With(x) \cup {b} ELSE With(x)
<1> TAKE x
<1>1. \A c \in Blocks : x \in flags'[c] <=> x \in flags[c] \/ (c = b /\ x \in bits)
  <2>1. flags'[b] = flags[b] \cup bits /\ \A c \in Blocks \ {b} : flags'[c] = flags[c]
    BY FetchOrBits
  <2> QED
    BY <2>1
<1> QED
  BY <1>1 DEF With

\* The steps that publish a bit the readers look at, as steps of BlockReadiness;
\* every other step leaves the five sets alone.
LEMMA ReadinessStep ==
  ASSUME IInv, [Next]_vars
  PROVE  [Readiness!Next]_(Readiness!vars)
<1> USE DEF IInv
<1> DEFINE Still == UNCHANGED <<With("HeaderDone"), With("DataDone"), With("HeaderReady"),
                                With("DataReady"), With("Invalid")>>
<1>1. Still => [Readiness!Next]_(Readiness!vars)
  BY DEF Readiness!vars
<1>2. UNCHANGED flags => Still
  BY DEF With
<1>3. ASSUME NEW b \in Blocks, NEW bits, FetchOr(b, bits), bits \subseteq BlockFlags,
             bits \cap {"HeaderDone", "DataDone", "HeaderReady", "DataReady", "Invalid"} = {}
      PROVE  Still
  <2>1. \A x : x \notin bits => With(x)' = With(x)
    BY <1>3, FetchOrWith
  <2> QED
    BY <1>3, <2>1
<1>4. ASSUME NEW t \in Threads, NEW b \in Blocks, AddHeader(t, b) \/ AddBlock(t, b)
      PROVE  Still
  <2>1. CASE AddHeader(t, b)
    <3>1. FetchOr(b, {"HeaderWriteStarted", "WorkChecked"})
      BY <2>1 DEF AddHeader
    <3> QED
      BY <1>3, <3>1 DEF BlockFlags
  <2>2. CASE AddBlock(t, b)
    <3>1. FetchOr(b, {"DataWriteStarted"})
      BY <2>2 DEF AddBlock
    <3> QED
      BY <1>3, <3>1 DEF BlockFlags
  <2> QED
    BY <1>4, <2>1, <2>2
<1>5. ASSUME NEW t \in Threads, ElectHeaderWriter(t)
      PROVE  Still
  <2>1. call[t] \in Blocks /\ FetchOr(call[t], {"HeaderWriteStarted"})
    BY <1>5 DEF ElectHeaderWriter, Control
  <2> QED
    BY <1>3, <2>1 DEF BlockFlags
<1>6. ASSUME NEW t \in Threads, MeetParentData(t)
      PROVE  Still
  <2>1. Current(t) \in Blocks
    BY <1>6, WalkItem DEF MeetParentData, WalkSteps
  <2>2. CASE "ParentDataReady" \in Events(t)
    <3>1. FetchOr(Current(t), {"ParentDataReady"})
      BY <1>6, <2>2 DEF MeetParentData
    <3> QED
      BY <1>3, <2>1, <3>1 DEF BlockFlags
  <2>3. CASE "ParentDataReady" \notin Events(t)
    BY <1>2, <1>6, <2>3 DEF MeetParentData
  <2> QED
    BY <2>2, <2>3
<1>7. ASSUME NEW t \in Threads,
             WriteHeader(t) \/ AddSuccessor(t) \/ BuildHeader(t) \/ CheckInvalid(t)
               \/ PublishPhases(t) \/ NotifyReady(t)
      PROVE  Still
  <2>1. UNCHANGED flags
    BY <1>7 DEF WriteHeader, AddSuccessor, BuildHeader, CheckInvalid, PublishPhases, NotifyReady, index
  <2> QED
    BY <1>2, <2>1
<1>8. UNCHANGED vars => Still
  BY <1>2 DEF vars, index
<1> HIDE DEF Still
<1>9. ASSUME NEW t \in Threads, PublishHeader(t)
      PROVE  Readiness!Next
  <2> DEFINE b == call[t]
             bits == IF withData[t] THEN {"HeaderDone", "DataDone"} ELSE {"HeaderDone"}
  <2>1. /\ b \in Blocks /\ b # Genesis /\ "HeaderDone" \notin flags[b]
        /\ withData[t] => "DataDone" \notin flags[b]
        /\ withData[t] \in BOOLEAN
    BY <1>9, Tree DEF PublishHeader, Control, Writers, HeaderWriter, DataWriter, TypeOK
  <2>2. FetchOr(b, bits) /\ bits \subseteq BlockFlags
    BY <1>9 DEF PublishHeader, BlockFlags
  <2>3. \A x : With(x)' = IF x \in bits THEN With(x) \cup {b} ELSE With(x)
    <3> HIDE DEF b, bits
    <3> QED
      BY <2>1, <2>2, FetchOrWith
  <2>4. /\ With("HeaderDone")' = With("HeaderDone") \cup {b}
        /\ With("DataDone")' = IF withData[t] THEN With("DataDone") \cup {b} ELSE With("DataDone")
        /\ UNCHANGED <<With("HeaderReady"), With("DataReady"), With("Invalid")>>
    BY <2>3
  <2>5. b \notin With("HeaderDone") /\ (withData[t] => b \notin With("DataDone"))
    BY <2>1 DEF With
  <2>6. Readiness!Arrive(b, TRUE, withData[t])
    BY <2>4, <2>5 DEF Readiness!Arrive
  <2> QED
    BY <2>1, <2>6 DEF Readiness!Next
<1>10. ASSUME NEW t \in Threads, PublishData(t)
       PROVE  Readiness!Next
  <2> DEFINE b == call[t]
  <2>1. b \in Blocks /\ b # Genesis /\ "DataDone" \notin flags[b]
    BY <1>10, Tree DEF PublishData, Control, Writers, DataWriter
  <2>2. FetchOr(b, {"DataDone"}) /\ {"DataDone"} \subseteq BlockFlags
    BY <1>10 DEF PublishData, BlockFlags
  <2>3. \A x : With(x)' = IF x \in {"DataDone"} THEN With(x) \cup {b} ELSE With(x)
    <3> HIDE DEF b
    <3> QED
      BY <2>1, <2>2, FetchOrWith
  <2>4. /\ With("DataDone")' = With("DataDone") \cup {b}
        /\ UNCHANGED <<With("HeaderDone"), With("HeaderReady"), With("DataReady"), With("Invalid")>>
    BY <2>3
  <2>5. b \notin With("DataDone")
    BY <2>1 DEF With
  <2>6. Readiness!Arrive(b, FALSE, TRUE)
    BY <2>4, <2>5 DEF Readiness!Arrive
  <2> QED
    BY <2>1, <2>6 DEF Readiness!Next
<1>11. ASSUME NEW t \in Threads, PublishReady(t)
       PROVE  Readiness!Next
  <2> DEFINE b == Block(t, 1)
             R == ready[t]
             H == "HeaderReady" \in R
             D == "DataReady" \in R
  <2>1. /\ 1 \in Items(t) /\ b \in Blocks \ Loaded /\ Parent[b] \in Blocks
        /\ "HeaderDone" \in flags[b] /\ Current(t) = b /\ pc[t] = "publish" /\ Begun(t, 1)
    BY <1>11, WalkItem DEF PublishReady, WalkSteps, Begun
  <2>2. FetchOr(b, R) /\ R \subseteq SuccessorPhase /\ R \subseteq BlockFlags
    BY <1>11, <2>1 DEF PublishReady, TypeOK, SuccessorPhase, BlockFlags
  <2>3. H => "HeaderReady" \notin flags[b] /\ "HeaderReady" \in flags[Parent[b]]
    <3> HAVE H
    <3>1. HeaderToken(t, 1)
      BY <2>1 DEF Control
    <3>2. "HeaderReady" \in phases[Parent[b]] /\ "HeaderReady" \notin flags[b]
      BY <2>1, <3>1 DEF HeaderTokens
    <3> QED
      BY <2>1, <3>2 DEF HeaderBits
  <2>4. D => "DataDone" \in flags[b] /\ "DataReady" \notin flags[b] /\ "DataReady" \in flags[Parent[b]]
    <3> HAVE D
    <3>1. DataToken(t, 1)
      BY <2>1 DEF DataToken
    <3>2. {"DataDone", "ParentDataReady"} \subseteq flags[b] /\ "DataReady" \notin flags[b]
      BY <2>1, <3>1 DEF DataTokens
    <3> QED
      BY <2>1, <3>2 DEF DataBits
  <2>5. \A x : With(x)' = IF x \in R THEN With(x) \cup {b} ELSE With(x)
    <3> HIDE DEF b, R
    <3> QED
      BY <2>1, <2>2, FetchOrWith
  <2>6. /\ With("HeaderReady")' = IF H THEN With("HeaderReady") \cup {b} ELSE With("HeaderReady")
        /\ With("DataReady")' = IF D THEN With("DataReady") \cup {b} ELSE With("DataReady")
        /\ UNCHANGED <<With("HeaderDone"), With("DataDone"), With("Invalid")>>
    <3>1. "HeaderDone" \notin R /\ "DataDone" \notin R /\ "Invalid" \notin R
      BY <2>2 DEF SuccessorPhase
    <3> QED
      BY <2>5, <3>1
  <2>7. /\ H => Readiness!MayHeader(b)
        /\ D => Readiness!MayData(b)
    BY <2>1, <2>3, <2>4 DEF Readiness!MayHeader, Readiness!MayData, With
  <2>8. Readiness!Publish(b, H, D)
    <3> HIDE DEF b, H, D
    <3> QED
      BY <2>6, <2>7 DEF Readiness!Publish
  <2>9. b \in Blocks \ {Genesis}
    BY <2>1, Tree
  <2>10. H \in BOOLEAN /\ D \in BOOLEAN
    BY SMTT(30)
  <2> HIDE DEF b, H, D
  <2> QED
    BY <2>8, <2>9, <2>10 DEF Readiness!Next
<1>12. ASSUME NEW b \in Blocks, MarkInvalid(b)
       PROVE  Readiness!Next
  <2>1. b # Genesis /\ Ready(b) /\ FetchOr(b, {"Invalid"}) /\ {"Invalid"} \subseteq BlockFlags
    BY <1>12 DEF MarkInvalid, BlockFlags
  <2>2. \A x : With(x)' = IF x \in {"Invalid"} THEN With(x) \cup {b} ELSE With(x)
    BY <2>1, FetchOrWith
  <2>3. /\ With("Invalid")' = With("Invalid") \cup {b}
        /\ UNCHANGED <<With("HeaderDone"), With("DataDone"), With("HeaderReady"), With("DataReady")>>
    BY <2>2
  <2>4. b \in With("HeaderReady") \cap With("DataReady")
    BY <2>1 DEF With, Ready
  <2>5. Readiness!Reject(b)
    BY <2>3, <2>4 DEF Readiness!Reject
  <2> QED
    BY <2>1, <2>5 DEF Readiness!Next
<1> QED
  BY <1>1, <1>4, <1>5, <1>6, <1>7, <1>8, <1>9, <1>10, <1>11, <1>12 DEF Next, Continue

\* The index as its readers see it implements BlockReadiness: a block becomes ready
\* above ready parents only, never twice, however the threads interleave.
THEOREM ReadinessRefinement == Spec => ImplementsReadiness
<1>1. Init => Readiness!Init
  <2> SUFFICES ASSUME Init PROVE Readiness!Init
    OBVIOUS
  <2>1. flags = [b \in Blocks |-> IF b \in Loaded THEN LoadedFlags ELSE {}]
    BY DEF Init
  <2>2. \A x \in BlockFlags \ {"Invalid"} : With(x) = Loaded
    BY <2>1, Tree DEF With, LoadedFlags
  <2>3. With("Invalid") = {}
    BY <2>1 DEF With, LoadedFlags
  <2> QED
    BY <2>2, <2>3 DEF Readiness!Init, BlockFlags
<1>2. IInv /\ [Next]_vars => [Readiness!Next]_(Readiness!vars)
  BY ReadinessStep
<1> QED
  BY <1>1, <1>2, Invariance, PTL DEF Spec, ImplementsReadiness, Readiness!SafeSpec
=============================================================================
