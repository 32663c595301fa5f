------------------------ MODULE BlockIndexLinkProofs ------------------------
(***************************************************************************)
(* IInv is kept by the two steps that hand a thread over to buildChain:    *)
(* addSuccessor and the fetch_or of DataDone in addBlock.                  *)
(***************************************************************************)
EXTENDS BlockIndexLemmas, TLAPS

USE ZenonT(30)

\* Two tokens of one kind for one block are the same token.
LEMMA HeaderTokenSingle ==
  ASSUME HeaderTokens, NEW u \in Threads, NEW v \in Threads, NEW i \in Items(u), NEW j \in Items(v),
         HeaderToken(u, i), HeaderToken(v, j), Block(u, i) = Block(v, j)
  PROVE  u = v /\ i = j
BY SMTT(30) DEF HeaderTokens

\* ... the right to hand over the parent's phase
LEMMA ParentTokenSingle ==
  ASSUME DataTokens, NEW u \in Threads, NEW v \in Threads, NEW i \in Items(u), NEW j \in Items(v),
         ParentToken(u, i), ParentToken(v, j), Block(u, i) = Block(v, j)
  PROVE  u = v /\ i = j
BY SMTT(30) DEF DataTokens

\* ... the right to publish the block's data
LEMMA DataTokenSingle ==
  ASSUME DataTokens, NEW u \in Threads, NEW v \in Threads, NEW i \in Items(u), NEW j \in Items(v),
         DataToken(u, i), DataToken(v, j), Block(u, i) = Block(v, j)
  PROVE  u = v /\ i = j
BY SMTT(30) DEF DataTokens

\* HeaderTokens after a step, conjunct by conjunct
LEMMA HeaderTokensAfter ==
  ASSUME \A u \in Threads : \A i \in Items(u)' : HeaderToken(u, i)' =>
           /\ "HeaderReady" \in phases'[Parent[Block(u, i)']]
           /\ "HeaderReady" \notin phases'[Block(u, i)']
           /\ "HeaderReady" \in flags'[Block(u, i)'] <=> i = 1 /\ pc'[u] = "phases",
         \A u, v \in Threads : \A i \in Items(u)', j \in Items(v)' :
           HeaderToken(u, i)' /\ HeaderToken(v, j)' /\ Block(u, i)' = Block(v, j)' => u = v /\ i = j
  PROVE  HeaderTokens'
BY DEF HeaderTokens

\* DataTokens after a step, conjunct by conjunct
LEMMA DataTokensAfter ==
  ASSUME \A u \in Threads : \A i \in Items(u)' : ParentToken(u, i)' =>
           /\ "DataReady" \in phases'[Parent[Block(u, i)']]
           /\ Unmet(u, i)' => "ParentDataReady" \notin flags'[Block(u, i)'],
         \A u \in Threads : \A i \in Items(u)' : DataToken(u, i)' =>
           /\ {"DataDone", "ParentDataReady"} \subseteq flags'[Block(u, i)']
           /\ "DataReady" \in flags'[Block(u, i)'] <=> i = 1 /\ pc'[u] = "phases"
           /\ "DataReady" \notin phases'[Block(u, i)'],
         \A u, v \in Threads : \A i \in Items(u)', j \in Items(v)' :
           ParentToken(u, i)' /\ ParentToken(v, j)' /\ Block(u, i)' = Block(v, j)' => u = v /\ i = j,
         \A u, v \in Threads : \A i \in Items(u)', j \in Items(v)' :
           DataToken(u, i)' /\ DataToken(v, j)' /\ Block(u, i)' = Block(v, j)' => u = v /\ i = j
  PROVE  DataTokens'
BY DEF DataTokens

\* The list after addSuccessor: the new block at its head
LEMMA Prepend ==
  ASSUME NEW S, NEW s \in Seq(S), NEW x \in S
  PROVE  /\ <<x>> \o s \in Seq(S) /\ Len(<<x>> \o s) = Len(s) + 1
         /\ Len(s) \in Nat /\ 1 \in 1..Len(<<x>> \o s)
         /\ (<<x>> \o s)[1] = x
         /\ \A i \in 1..Len(s) : i + 1 \in 1..Len(<<x>> \o s) /\ (<<x>> \o s)[i + 1] = s[i]
         /\ \A i \in 1..Len(<<x>> \o s) : i # 1 => i - 1 \in 1..Len(s) /\ (<<x>> \o s)[i] = s[i - 1]
BY SMTT(30)

\* A thread that enters buildChain with the events E of one block: what becomes
\* of the tokens, its own and those of the other threads
LEMMA StartWalkTokens ==
  ASSUME TypeOK, NEW t \in Threads, NEW b \in Blocks \ {Genesis}, NEW E \in SUBSET ChainEvent,
         StartWalk(t, b, E)
  PROVE  /\ call' \in [Threads -> Blocks \cup {NoBlock}]
         /\ withData' \in [Threads -> BOOLEAN]
         /\ queue' \in [Threads -> Seq([block : Blocks \ {Genesis}, events : SUBSET ChainEvent])]
         /\ pc' \in [Threads -> WalkSteps \cup {"idle", "elect", "write", "done",
                                                "link", "data", "notify"}]
         /\ UNCHANGED <<ready, best>>
         /\ \A u \in Threads \ {t} : /\ pc'[u] = pc[u] /\ call'[u] = call[u]
                                     /\ withData'[u] = withData[u] /\ queue'[u] = queue[u]
                                     /\ Items(u)' = Items(u)
         /\ \A u \in Threads \ {t} : \A i \in Items(u) :
              /\ Block(u, i)' = Block(u, i)
              /\ Begun(u, i)' <=> Begun(u, i)
              /\ HeaderToken(u, i)' <=> HeaderToken(u, i)
              /\ ParentToken(u, i)' <=> ParentToken(u, i)
              /\ Unmet(u, i)' <=> Unmet(u, i)
              /\ DataToken(u, i)' <=> DataToken(u, i)
         /\ E = {} => pc'[t] = "idle" /\ queue'[t] = <<>> /\ Items(t)' = {}
         /\ E # {} => /\ pc'[t] = "item" /\ queue'[t] # <<>> /\ Items(t)' = {1}
                      /\ Block(t, 1)' = b /\ ~Begun(t, 1)'
                      /\ HeaderToken(t, 1)' <=> "BuildHeader" \in E
                      /\ ParentToken(t, 1)' <=> "ParentDataReady" \in E
                      /\ Unmet(t, 1)' <=> "ParentDataReady" \in E
                      /\ DataToken(t, 1)' <=> "PublishDataReady" \in E
<1> DEFINE Item == [block : Blocks \ {Genesis}, events : SUBSET ChainEvent]
           r == [block |-> b, events |-> E]
<1>1. r \in Item /\ r.block = b /\ r.events = E
  OBVIOUS
<1> HIDE DEF r
<1>2. /\ call' = [call EXCEPT ![t] = NoBlock]
      /\ withData' = [withData EXCEPT ![t] = FALSE]
      /\ queue' = [queue EXCEPT ![t] = IF E = {} THEN <<>> ELSE <<r>>]
      /\ pc' = [pc EXCEPT ![t] = IF E = {} THEN "idle" ELSE "item"]
      /\ UNCHANGED <<ready, best>>
  BY DEF StartWalk, Goto, r
<1>3. withData' \in [Threads -> BOOLEAN]
  BY <1>2, Zenon DEF TypeOK
<1>4. call' \in [Threads -> Blocks \cup {NoBlock}]
  BY <1>2 DEF TypeOK
<1>5. queue' \in [Threads -> Seq(Item)]
  <2> HIDE DEF Item
  <2>1. <<r>> \in Seq(Item) /\ <<>> \in Seq(Item)
    BY <1>1, SMTT(30)
  <2>2. queue \in [Threads -> Seq(Item)]
    BY DEF TypeOK, Item
  <2> QED
    BY <1>2, <2>1, <2>2
<1>6. pc' \in [Threads -> WalkSteps \cup {"idle", "elect", "write", "done", "link", "data", "notify"}]
  BY <1>2 DEF TypeOK, WalkSteps
<1>7. \A u \in Threads \ {t} : /\ pc'[u] = pc[u] /\ call'[u] = call[u]
                              /\ withData'[u] = withData[u] /\ queue'[u] = queue[u]
                              /\ Items(u)' = Items(u)
  BY <1>2 DEF TypeOK, Items
<1>8. \A u \in Threads \ {t} : \A i \in Items(u) :
        /\ Block(u, i)' = Block(u, i)
        /\ Begun(u, i)' <=> Begun(u, i)
        /\ HeaderToken(u, i)' <=> HeaderToken(u, i)
        /\ ParentToken(u, i)' <=> ParentToken(u, i)
        /\ Unmet(u, i)' <=> Unmet(u, i)
        /\ DataToken(u, i)' <=> DataToken(u, i)
  BY <1>2, <1>7 DEF Block, Begun, HeaderToken, ParentToken, Unmet, DataToken
<1>9. E = {} => pc'[t] = "idle" /\ queue'[t] = <<>> /\ Items(t)' = {}
  BY <1>2, SMTT(30) DEF TypeOK, Items
<1>10. E # {} => pc'[t] = "item" /\ queue'[t] = <<r>>
  BY <1>2 DEF TypeOK
<1>11. <<r>> # <<>> /\ Len(<<r>>) = 1 /\ <<r>>[1] = r
  OBVIOUS
<1>12. E # {} => /\ queue'[t] # <<>> /\ Items(t)' = {1}
                 /\ Block(t, 1)' = b /\ queue'[t][1].events = E
  <2> SUFFICES ASSUME E # {}
               PROVE  /\ queue'[t] # <<>> /\ Items(t)' = {1}
                      /\ Block(t, 1)' = b /\ queue'[t][1].events = E
    OBVIOUS
  <2>1. queue'[t] = <<r>> /\ queue'[t][1] = r /\ Len(queue'[t]) = 1
    BY <1>10, <1>11
  <2>2. Items(t)' = {1}
    BY <2>1, SMTT(30) DEF Items
  <2> QED
    BY <1>1, <1>11, <2>1, <2>2 DEF Block
<1>13. E # {} => /\ ~Begun(t, 1)'
                 /\ HeaderToken(t, 1)' <=> "BuildHeader" \in E
                 /\ ParentToken(t, 1)' <=> "ParentDataReady" \in E
                 /\ Unmet(t, 1)' <=> "ParentDataReady" \in E
                 /\ DataToken(t, 1)' <=> "PublishDataReady" \in E
  <2> SUFFICES ASSUME E # {}
               PROVE  /\ ~Begun(t, 1)'
                      /\ HeaderToken(t, 1)' <=> "BuildHeader" \in E
                      /\ ParentToken(t, 1)' <=> "ParentDataReady" \in E
                      /\ Unmet(t, 1)' <=> "ParentDataReady" \in E
                      /\ DataToken(t, 1)' <=> "PublishDataReady" \in E
    OBVIOUS
  <2>1. pc'[t] = "item" /\ queue'[t][1].events = E
    BY <1>10, <1>12
  <2>2. ~Begun(t, 1)'
    BY <2>1 DEF Begun
  <2>3. /\ HeaderToken(t, 1)' <=> "BuildHeader" \in E
        /\ ParentToken(t, 1)' <=> "ParentDataReady" \in E
    BY <2>1 DEF HeaderToken, ParentToken
  <2>4. Unmet(t, 1)' <=> "ParentDataReady" \in E
    BY <2>1, <2>3 DEF Unmet
  <2>5. DataToken(t, 1)' <=> "PublishDataReady" \in E
    BY <2>1, <2>2 DEF DataToken
  <2> QED
    BY <2>2, <2>3, <2>4, <2>5
<1> QED
  <2>1. UNCHANGED <<ready, best>>
    BY <1>2
  <2> HIDE DEF Item
  <2> QED
    BY <2>1, <1>3, <1>4, <1>5, <1>6, <1>7, <1>8, <1>9, <1>10, <1>12, <1>13 DEF Item

\* The successful compare-and-swap of addSuccessor keeps the invariant: the thread
\* takes a token for exactly the phases the parent's word already carried.
LEMMA AddSuccessorInv ==
  ASSUME IInv, NEW t \in Threads, AddSuccessor(t)
  PROVE  IInv'
<1> USE DEF IInv
<1> DEFINE b == call[t]
           p == Parent[b]
           E == SuccessorEvents(phases[p])
<1>1. /\ b \in Blocks \ Loaded /\ b # Genesis /\ p \in Blocks
      /\ pc[t] = "link" /\ prev[b] = p /\ ~Linked(b) /\ HeaderWriter(t)
      /\ {"HeaderWriteStarted", "HeaderDone"} \subseteq flags[b]
  <2>1. Control /\ Writers
    OBVIOUS
  <2> HIDE DEF IInv
  <2> QED
    BY Tree, <2>1, SMTT(30) DEF AddSuccessor, Control, Writers, HeaderWriter
<1>2. /\ successors' = [successors EXCEPT ![p] = <<b>> \o @]
      /\ StartWalk(t, b, E)
      /\ UNCHANGED <<flags, prev, height, chainWork, phases, notified>>
  BY <1>1 DEF AddSuccessor
<1>3. /\ E \in SUBSET ChainEvent /\ "PublishDataReady" \notin E
      /\ "BuildHeader" \in E <=> "HeaderReady" \in phases[p]
      /\ "ParentDataReady" \in E <=> "DataReady" \in phases[p]
  BY DEF SuccessorEvents, ChainEvent
<1>4. /\ UNCHANGED <<ready, best>>
      /\ \A u \in Threads \ {t} : /\ pc'[u] = pc[u] /\ call'[u] = call[u]
                                  /\ withData'[u] = withData[u] /\ queue'[u] = queue[u]
                                  /\ Items(u)' = Items(u)
      /\ E = {} => pc'[t] = "idle" /\ queue'[t] = <<>> /\ Items(t)' = {}
      /\ E # {} => /\ pc'[t] = "item" /\ queue'[t] # <<>> /\ Items(t)' = {1}
                   /\ Block(t, 1)' = b /\ ~Begun(t, 1)' /\ ~DataToken(t, 1)'
                   /\ HeaderToken(t, 1)' <=> "HeaderReady" \in phases[p]
                   /\ ParentToken(t, 1)' <=> "DataReady" \in phases[p]
                   /\ Unmet(t, 1)' <=> "DataReady" \in phases[p]
  <2> HIDE DEF E
  <2> QED
    BY <1>1, <1>2, <1>3, StartWalkTokens
<1>5. \A u \in Threads \ {t} : \A i \in Items(u) :
        /\ Block(u, i) \in Blocks \ Loaded /\ Linked(Block(u, i)) /\ Block(u, i) # b
        /\ Block(u, i)' = Block(u, i)
        /\ Begun(u, i)' <=> Begun(u, i)
        /\ HeaderToken(u, i)' <=> HeaderToken(u, i)
        /\ ParentToken(u, i)' <=> ParentToken(u, i)
        /\ Unmet(u, i)' <=> Unmet(u, i)
        /\ DataToken(u, i)' <=> DataToken(u, i)
  <2>1. \A u \in Threads \ {t} : \A i \in Items(u) :
          Block(u, i) \in Blocks \ Loaded /\ Linked(Block(u, i)) /\ Block(u, i) # b
    BY <1>1 DEF ItemsLinked
  <2> HIDE DEF E
  <2> QED
    BY <1>1, <1>2, <1>3, <2>1, StartWalkTokens, SMTT(30)
<1>6. Items(t) = {}
  <2>1. Control
    OBVIOUS
  <2> HIDE DEF IInv
  <2> QED
    BY <1>1, <2>1, SMTT(30) DEF Control, WalkSteps, Items
<1>7. E = {} => "HeaderReady" \notin phases[p] /\ "DataReady" \notin phases[p]
  BY <1>3
<1>8. /\ \A c \in Blocks \ {p} : successors'[c] = successors[c]
      /\ successors' \in [Blocks -> Seq(Blocks \ {Genesis})]
      /\ Len(successors[p]) \in Nat
      /\ Len(successors'[p]) = Len(successors[p]) + 1 /\ successors'[p][1] = b
      /\ 1 \in 1..Len(successors'[p])
      /\ \A i \in 1..Len(successors[p]) :
           i + 1 \in 1..Len(successors'[p]) /\ successors'[p][i + 1] = successors[p][i]
      /\ \A i \in 1..Len(successors'[p]) : i # 1 =>
           i - 1 \in 1..Len(successors[p]) /\ successors'[p][i] = successors[p][i - 1]
  <2>1. successors'[p] = <<b>> \o successors[p] /\ successors[p] \in Seq(Blocks \ {Genesis})
    BY <1>1, <1>2 DEF TypeOK
  <2>2. <<b>> \o successors[p] \in Seq(Blocks \ {Genesis})
    BY <1>1, <2>1, Prepend
  <2>3. successors' \in [Blocks -> Seq(Blocks \ {Genesis})]
    BY <1>2, <2>2 DEF TypeOK
  <2>4. \A c \in Blocks \ {p} : successors'[c] = successors[c]
    BY <1>2 DEF TypeOK
  <2>5. b \in Blocks \ {Genesis}
    BY <1>1
  <2> DEFINE s == successors[p]
  <2>6. /\ Len(<<b>> \o s) = Len(s) + 1
        /\ Len(s) \in Nat /\ 1 \in 1..Len(<<b>> \o s)
        /\ (<<b>> \o s)[1] = b
        /\ \A i \in 1..Len(s) : i + 1 \in 1..Len(<<b>> \o s) /\ (<<b>> \o s)[i + 1] = s[i]
        /\ \A i \in 1..Len(<<b>> \o s) : i # 1 => i - 1 \in 1..Len(s) /\ (<<b>> \o s)[i] = s[i - 1]
    BY <2>1, <2>5, Prepend, SMTT(30)
  <2> QED
    BY <2>1, <2>3, <2>4, <2>6
<1>9. \A c \in Blocks \ Loaded : Linked(c)' <=> Linked(c) \/ c = b
  <2> TAKE c \in Blocks \ Loaded
  <2>1. Parent[c] \in Blocks
    BY Tree
  <2>2. CASE Parent[c] # p
    BY <1>8, <2>1, <2>2 DEF Linked
  <2>3. CASE Parent[c] = p
    <3>1. ASSUME NEW i \in 1..Len(successors[p]), successors[p][i] = c
          PROVE  i + 1 \in 1..Len(successors'[p]) /\ successors'[p][i + 1] = c
      BY <1>8, <3>1
    <3>2. 1 \in 1..Len(successors'[p])
      BY <1>8
    <3>3. ASSUME NEW i \in 1..Len(successors'[p]), successors'[p][i] = c, c # b
          PROVE  i - 1 \in 1..Len(successors[p]) /\ successors[p][i - 1] = c
      BY <1>8, <3>3
    <3>4. Linked(c) => Linked(c)'
      BY <2>3, <3>1 DEF Linked
    <3>5. c = b => Linked(c)'
      BY <1>8, <2>3, <3>2 DEF Linked
    <3>6. Linked(c)' /\ c # b => Linked(c)
      <4>1. SUFFICES ASSUME Linked(c)', c # b PROVE Linked(c)
        OBVIOUS
      <4>2. PICK i \in 1..Len(successors'[p]) : successors'[p][i] = c
        BY <2>3, <4>1 DEF Linked
      <4> QED
        BY <2>3, <3>3, <4>1, <4>2 DEF Linked
    <3> QED
      BY <3>4, <3>5, <3>6
  <2> QED
    BY <2>2, <2>3
<1> HIDE DEF E
<1>10. TypeOK'
  <2>1. /\ withData' \in [Threads -> BOOLEAN]
        /\ call' \in [Threads -> Blocks \cup {NoBlock}]
        /\ queue' \in [Threads -> Seq([block : Blocks \ {Genesis}, events : SUBSET ChainEvent])]
        /\ pc' \in [Threads -> WalkSteps \cup {"idle", "elect", "write", "done",
                                               "link", "data", "notify"}]
    BY <1>1, <1>2, <1>3, StartWalkTokens
  <2> QED
    BY <1>2, <1>4, <1>8, <2>1 DEF TypeOK
<1>11. Control'
  <2>1. \A u \in Threads \ {t} : (Begun(u, 1)' <=> Begun(u, 1)) /\ (HeaderToken(u, 1)' <=> HeaderToken(u, 1))
    BY <1>4 DEF Begun, HeaderToken
  <2> QED
    BY <1>4, <2>1 DEF Control, WalkSteps, Begun
<1>12. Writers'
  <2>1. ~HeaderWriter(t)' /\ ~DataWriter(t)'
    BY <1>4 DEF HeaderWriter, DataWriter
  <2>2. \A u \in Threads \ {t} : (HeaderWriter(u)' <=> HeaderWriter(u)) /\ (DataWriter(u)' <=> DataWriter(u))
    BY <1>4 DEF HeaderWriter, DataWriter
  <2>3. \A u \in Threads \ {t} : HeaderWriter(u) => call[u] \in Blocks \ Loaded /\ ~Linked(call[u])'
    <3>1. Writers
      OBVIOUS
    <3> HIDE DEF IInv
    <3> QED
      BY <1>1, <1>4, <1>9, WriterCalls, <3>1, SMTT(30) DEF Writers
  <2>4. Writers
    OBVIOUS
  <2> HIDE DEF IInv
  <2> QED
    BY <2>4, <1>2, <1>4, <2>1, <2>2, <2>3, SMTT(30) DEF Writers
<1>13. Lists'
  <2>1. ASSUME NEW q \in Blocks, NEW i \in 1..Len(successors'[q]), NEW j \in 1..Len(successors'[q])
        PROVE  /\ successors'[q][i] \in Blocks \ Loaded
               /\ Parent[successors'[q][i]] = q
               /\ "HeaderDone" \in flags'[successors'[q][i]]
               /\ successors'[q][i] = successors'[q][j] => i = j
    <3>1. CASE q # p
      <4>1. Lists
        OBVIOUS
      <4> HIDE DEF IInv
      <4> QED
        BY <4>1, <1>2, <1>8, <2>1, <3>1, SMTT(30) DEF Lists
    <3>2. CASE q = p
      <4>1. ASSUME NEW k \in 1..Len(successors'[p]), k # 1
            PROVE  /\ k - 1 \in 1..Len(successors[p]) /\ successors'[p][k] = successors[p][k - 1]
                   /\ successors'[p][k] # b
                   /\ successors'[p][k] \in Blocks \ Loaded /\ Parent[successors'[p][k]] = p
                   /\ "HeaderDone" \in flags[successors'[p][k]]
        <5>1. k - 1 \in 1..Len(successors[p]) /\ successors'[p][k] = successors[p][k - 1]
          BY <1>8, <4>1
        <5>2. /\ successors[p][k - 1] \in Blocks \ Loaded /\ Parent[successors[p][k - 1]] = p
              /\ "HeaderDone" \in flags[successors[p][k - 1]]
          BY <1>1, <5>1 DEF Lists
        <5>3. successors[p][k - 1] # b
          BY <1>1, <5>1 DEF Linked
        <5> QED
          BY <5>1, <5>2, <5>3
      <4>0. successors'[p][1] = b /\ i \in 1..Len(successors'[p]) /\ j \in 1..Len(successors'[p])
        BY <1>8, <2>1, <3>2
      <4>2. CASE i = 1
        <5>1. successors'[q][i] = b /\ flags'[b] = flags[b]
          BY <1>2, <3>2, <4>0, <4>2
        <5>2. j # 1 => successors'[q][j] # b
          BY <3>2, <4>0, <4>1
        <5> QED
          BY <1>1, <3>2, <4>2, <5>1, <5>2
      <4>3. CASE i # 1 /\ j = 1
        BY <1>2, <3>2, <4>0, <4>1, <4>3
      <4>4. CASE i # 1 /\ j # 1
        <5>1. i - 1 \in 1..Len(successors[p]) /\ j - 1 \in 1..Len(successors[p])
          BY <2>1, <3>2, <4>1, <4>4
        <5>2. successors[p][i - 1] = successors[p][j - 1] => i - 1 = j - 1
          <6>1. Lists
            OBVIOUS
          <6> HIDE DEF IInv
          <6> QED
            BY <1>1, <5>1, <6>1, SMTT(30) DEF Lists
        <5>3. i \in Int /\ j \in Int
          BY <2>1, SMTT(30)
        <5>4. i - 1 = j - 1 => i = j
          BY <5>3, SMTT(30)
        <5> QED
          BY <1>2, <2>1, <3>2, <4>1, <4>4, <5>2, <5>4
      <4> QED
        BY <4>2, <4>3, <4>4
    <3> QED
      BY <3>1, <3>2
  <2>2. \A c \in Blocks \ Loaded : "HeaderDone" \in flags[c] =>
          Linked(c)' \/ \E u \in Threads : pc'[u] = "link" /\ call'[u] = c
    <3>1. Lists
      OBVIOUS
    <3> HIDE DEF IInv
    <3> QED
      BY <1>4, <1>9, <3>1, SMTT(30) DEF Lists
  <2> QED
    BY <1>2, <2>1, <2>2 DEF Lists
<1>14. ItemsLinked'
  <2>1. ItemsLinked
    OBVIOUS
  <2> HIDE DEF IInv
  <2> QED
    BY <1>1, <1>4, <1>5, <1>9, <2>1, SMTT(30) DEF ItemsLinked
<1>15. /\ "HeaderReady" \notin flags[b] /\ "HeaderReady" \notin phases[b]
       /\ "ParentDataReady" \notin flags[b] /\ "DataReady" \notin flags[b]
  BY <1>1 DEF HeaderBits, DataBits
<1>16. HeaderTokens'
  <2>1. HeaderTokens
    OBVIOUS
  <2> HIDE DEF IInv
  <2>2. ASSUME NEW u \in Threads, NEW i \in Items(u)', HeaderToken(u, i)'
        PROVE  /\ "HeaderReady" \in phases'[Parent[Block(u, i)']]
               /\ "HeaderReady" \notin phases'[Block(u, i)']
               /\ "HeaderReady" \in flags'[Block(u, i)'] <=> i = 1 /\ pc'[u] = "phases"
    BY <2>2, <2>1, <1>1, <1>2, <1>4, <1>5, <1>15, SMTT(30) DEF HeaderTokens
  <2>3. \A u, v \in Threads : \A i \in Items(u)', j \in Items(v)' :
          HeaderToken(u, i)' /\ HeaderToken(v, j)' /\ Block(u, i)' = Block(v, j)' => u = v /\ i = j
    BY <2>1, <1>1, <1>2, <1>4, <1>5, <1>15, SMTT(30) DEF HeaderTokens
  <2> QED
    BY <2>2, <2>3, Zenon DEF HeaderTokens
<1>17. HeaderBits' /\ DataBits'
  BY <1>2, <1>9 DEF HeaderBits, DataBits
<1>18. Fields'
  <2>1. \A u \in Threads : Begun(u, 1)' => u # t /\ 1 \in Items(u)
    <3>1. TypeOK /\ Control
      OBVIOUS
    <3> HIDE DEF IInv
    <3> QED
      BY <1>4, <1>10, <3>1, SMTT(30) DEF Begun, Control, Items, WalkSteps, TypeOK
  <2> QED
    BY <1>2, <1>5, <2>1 DEF Fields
<1>19. DataTokens'
  <2>1. DataTokens
    OBVIOUS
  <2> HIDE DEF IInv
  <2>2. ASSUME NEW u \in Threads, NEW i \in Items(u)', ParentToken(u, i)'
        PROVE  /\ "DataReady" \in phases'[Parent[Block(u, i)']]
               /\ Unmet(u, i)' => "ParentDataReady" \notin flags'[Block(u, i)']
    BY <2>2, <2>1, <1>1, <1>2, <1>4, <1>5, <1>15, SMTT(30) DEF DataTokens
  <2>3. \A u, v \in Threads : \A i \in Items(u)', j \in Items(v)' :
          ParentToken(u, i)' /\ ParentToken(v, j)' /\ Block(u, i)' = Block(v, j)' => u = v /\ i = j
    BY <2>1, <1>1, <1>2, <1>4, <1>5, <1>15, SMTT(30) DEF DataTokens
  <2>4. ASSUME NEW u \in Threads, NEW i \in Items(u)', DataToken(u, i)'
        PROVE  /\ {"DataDone", "ParentDataReady"} \subseteq flags'[Block(u, i)']
               /\ "DataReady" \in flags'[Block(u, i)'] <=> i = 1 /\ pc'[u] = "phases"
               /\ "DataReady" \notin phases'[Block(u, i)']
    BY <2>4, <2>1, <1>1, <1>2, <1>4, <1>5, <1>15, SMTT(30) DEF DataTokens
  <2>5. \A u, v \in Threads : \A i \in Items(u)', j \in Items(v)' :
          DataToken(u, i)' /\ DataToken(v, j)' /\ Block(u, i)' = Block(v, j)' => u = v /\ i = j
    BY <2>1, <1>1, <1>2, <1>4, <1>5, <1>15, SMTT(30) DEF DataTokens
  <2> QED
    BY <2>2, <2>3, <2>4, <2>5, Zenon DEF DataTokens
<1>20. \A u \in Threads : pc[u] = "phases" => u # t /\ pc'[u] = "phases" /\ Block(u, 1)' = Block(u, 1)
  BY <1>1, <1>4 DEF Block
<1>21. PhaseCover("HeaderReady")' /\ PhaseCover("DataReady")'
  <2>1. PhaseCover("HeaderReady") /\ PhaseCover("DataReady")
    OBVIOUS
  <2> HIDE DEF IInv
  <2>2. ASSUME NEW r, PhaseCover(r)
        PROVE  PhaseCover(r)'
    BY <2>2, <1>2, <1>4, <1>20, SMTT(30) DEF PhaseCover
  <2> QED
    BY <2>1, <2>2, Zenon
<1>22. HeaderCover' /\ ParentCover' /\ DataCover'
  <2>1. HeaderCover'
    <3>1. ASSUME NEW c \in Blocks \ Loaded, Linked(c)', "HeaderReady" \in phases[Parent[c]]
          PROVE  \/ "HeaderReady" \in flags[c]
                 \/ \E u \in Threads : \E i \in Items(u)' : HeaderToken(u, i)' /\ Block(u, i)' = c
      <4>1. CASE c = b
        BY <1>4, <1>7, <3>1, <4>1
      <4>2. CASE c # b
        <5>1. HeaderCover
          OBVIOUS
        <5> HIDE DEF IInv
        <5> QED
          BY <1>4, <1>5, <1>6, <1>9, <3>1, <4>2, <5>1, SMTT(30) DEF HeaderCover
      <4> QED
        BY <4>1, <4>2
    <3> QED
      BY <1>2, <3>1 DEF HeaderCover
  <2>2. ParentCover'
    <3>1. ASSUME NEW c \in Blocks \ Loaded, Linked(c)', "DataReady" \in phases[Parent[c]]
          PROVE  \/ "ParentDataReady" \in flags[c]
                 \/ \E u \in Threads : \E i \in Items(u)' : Unmet(u, i)' /\ Block(u, i)' = c
      <4>1. CASE c = b
        BY <1>4, <1>7, <3>1, <4>1
      <4>2. CASE c # b
        <5>1. ParentCover
          OBVIOUS
        <5> HIDE DEF IInv
        <5> QED
          BY <1>4, <1>5, <1>6, <1>9, <3>1, <4>2, <5>1, SMTT(30) DEF ParentCover
      <4> QED
        BY <4>1, <4>2
    <3> QED
      BY <1>2, <3>1 DEF ParentCover
  <2>3. DataCover'
    <3>1. DataCover
      OBVIOUS
    <3> HIDE DEF IInv
    <3> QED
      BY <1>2, <1>4, <1>5, <1>6, <1>15, <3>1, SMTT(30) DEF DataCover, Valid
  <2> QED
    BY <2>1, <2>2, <2>3
<1>23. NotifyCover'
  BY <1>1, <1>2, <1>4 DEF NotifyCover, Ready, WalkSteps
<1> QED
  BY <1>10, <1>11, <1>12, <1>13, <1>14, <1>16, <1>17, <1>18, <1>19, <1>21, <1>22, <1>23

\* DataDone keeps the invariant: the thread takes the DataReady token only when the
\* parent's phase came first, and then no walk can take it.
LEMMA PublishDataInv ==
  ASSUME IInv, NEW t \in Threads, PublishData(t)
  PROVE  IInv'
<1> USE DEF IInv
<1> DEFINE b == call[t]
           E == IF "ParentDataReady" \in flags[b] THEN {"PublishDataReady"} ELSE {}
<1>1. /\ b \in Blocks \ Loaded /\ b \in Blocks \ {Genesis} /\ pc[t] = "data" /\ DataWriter(t)
      /\ "DataWriteStarted" \in flags[b] /\ "DataDone" \notin flags[b] /\ "DataReady" \notin flags[b]
      /\ "DataReady" \notin phases[b]
  BY Tree DEF PublishData, Control, Writers, DataWriter, DataBits
<1>2. /\ FetchOr(b, {"DataDone"}) /\ StartWalk(t, b, E)
      /\ UNCHANGED <<prev, height, chainWork, successors, phases, notified>>
  BY DEF PublishData
<1>3. /\ E \in SUBSET ChainEvent /\ "BuildHeader" \notin E /\ "ParentDataReady" \notin E
      /\ E = {} \/ "PublishDataReady" \in E
      /\ E # {} <=> "ParentDataReady" \in flags[b]
  BY DEF ChainEvent
<1> HIDE DEF E
<1>4. /\ UNCHANGED <<ready, best>>
      /\ \A u \in Threads \ {t} : /\ pc'[u] = pc[u] /\ call'[u] = call[u]
                                  /\ withData'[u] = withData[u] /\ queue'[u] = queue[u]
                                  /\ Items(u)' = Items(u)
      /\ E = {} => pc'[t] = "idle" /\ queue'[t] = <<>> /\ Items(t)' = {}
      /\ E # {} => /\ pc'[t] = "item" /\ queue'[t] # <<>> /\ Items(t)' = {1}
                   /\ Block(t, 1)' = b /\ ~Begun(t, 1)' /\ DataToken(t, 1)'
                   /\ ~HeaderToken(t, 1)' /\ ~ParentToken(t, 1)' /\ ~Unmet(t, 1)'
  BY <1>1, <1>2, <1>3, StartWalkTokens
<1>5. \A u \in Threads \ {t} : \A i \in Items(u) :
        /\ Block(u, i) \in Blocks \ Loaded /\ Linked(Block(u, i))
        /\ Block(u, i)' = Block(u, i)
        /\ Begun(u, i)' <=> Begun(u, i)
        /\ HeaderToken(u, i)' <=> HeaderToken(u, i)
        /\ ParentToken(u, i)' <=> ParentToken(u, i)
        /\ Unmet(u, i)' <=> Unmet(u, i)
        /\ DataToken(u, i)' <=> DataToken(u, i)
        /\ DataToken(u, i) => Block(u, i) # b
  <2>1. \A u \in Threads \ {t} : \A i \in Items(u) :
          /\ Block(u, i) \in Blocks \ Loaded /\ Linked(Block(u, i))
          /\ DataToken(u, i) => Block(u, i) # b
    BY <1>1 DEF ItemsLinked, DataTokens
  <2> QED
    BY <1>1, <1>2, <1>3, <2>1, StartWalkTokens, SMTT(30)
<1>6. Items(t) = {}
  <2>1. Control
    OBVIOUS
  <2> HIDE DEF IInv
  <2> QED
    BY <1>1, <2>1, SMTT(30) DEF Control, WalkSteps, Items
<1>7. /\ flags' \in [Blocks -> SUBSET BlockFlags]
      /\ flags'[b] = flags[b] \cup {"DataDone"}
      /\ \A c \in Blocks \ {b} : flags'[c] = flags[c]
      /\ \A c \in Blocks : flags[c] \subseteq flags'[c]
      /\ \A c \in Blocks : flags'[c] \subseteq flags[c] \cup {"DataDone"}
  BY <1>1, <1>2, FetchOrBits DEF BlockFlags
<1>8. \A c : Linked(c)' <=> Linked(c)
  BY <1>2 DEF Linked
<1>9. \A u \in Threads : \A i \in Items(u)' :
        (u = t /\ i = 1 /\ E # {}) \/ (u \in Threads \ {t} /\ i \in Items(u))
  BY <1>4
<1>10. TypeOK'
  <2>1. /\ withData' \in [Threads -> BOOLEAN]
        /\ call' \in [Threads -> Blocks \cup {NoBlock}]
        /\ queue' \in [Threads -> Seq([block : Blocks \ {Genesis}, events : SUBSET ChainEvent])]
        /\ pc' \in [Threads -> WalkSteps \cup {"idle", "elect", "write", "done",
                                               "link", "data", "notify"}]
    BY <1>1, <1>2, <1>3, StartWalkTokens
  <2> QED
    BY <1>2, <1>4, <1>7, <2>1 DEF TypeOK
<1>11. Control'
  <2>1. \A u \in Threads \ {t} : (Begun(u, 1)' <=> Begun(u, 1)) /\ (HeaderToken(u, 1)' <=> HeaderToken(u, 1))
    BY <1>4 DEF Begun, HeaderToken
  <2> QED
    BY <1>4, <2>1 DEF Control, WalkSteps, Begun
<1>12. Writers'
  <2>1. ~HeaderWriter(t)' /\ ~DataWriter(t)'
    BY <1>4 DEF HeaderWriter, DataWriter
  <2>2. \A u \in Threads \ {t} :
          /\ HeaderWriter(u)' <=> HeaderWriter(u)
          /\ DataWriter(u)' <=> DataWriter(u)
          /\ HeaderWriter(u) => call[u] \in Blocks
          /\ DataWriter(u) => call[u] \in Blocks /\ call[u] # b
    BY <1>1, <1>4, WriterCalls DEF HeaderWriter, DataWriter, Writers
  <2>3. \A u \in Threads \ {t} : HeaderWriter(u) =>
          /\ "HeaderWriteStarted" \in flags'[call[u]]
          /\ "HeaderDone" \in flags'[call[u]] <=> pc[u] = "link"
    <3>1. Writers
      OBVIOUS
    <3> HIDE DEF IInv
    <3> QED
      BY <1>7, <2>2, <3>1, SMTT(30) DEF Writers
  <2>4. \A u \in Threads \ {t} : DataWriter(u) =>
          "DataWriteStarted" \in flags'[call[u]] /\ "DataDone" \notin flags'[call[u]]
    BY <1>7, <2>2 DEF Writers
  <2>5. \A c \in Blocks :
          /\ "HeaderDone" \in flags'[c] => "HeaderDone" \in flags[c]
          /\ "DataDone" \in flags'[c] => "DataWriteStarted" \in flags'[c]
    <3>1. Writers
      OBVIOUS
    <3> HIDE DEF IInv
    <3> QED
      BY <1>1, <1>7, <3>1, SMTT(30) DEF Writers
  <2>6. \A u \in Threads : HeaderWriter(u)' =>
          /\ u \in Threads \ {t} /\ HeaderWriter(u) /\ pc'[u] = pc[u] /\ call'[u] = call[u]
          /\ pc[u] # "write" => prev'[call[u]] = Parent[call[u]]
          /\ ~Linked(call[u])'
    BY <1>2, <1>4, <1>8, <2>1, <2>2 DEF Writers
  <2>7. \A u \in Threads : HeaderWriter(u)' =>
          /\ "HeaderWriteStarted" \in flags'[call'[u]]
          /\ "HeaderDone" \in flags'[call'[u]] <=> pc'[u] = "link"
          /\ pc'[u] # "write" => prev'[call'[u]] = Parent[call'[u]]
          /\ ~Linked(call[u])'
    <3> SUFFICES ASSUME NEW u \in Threads, HeaderWriter(u)'
                 PROVE  /\ "HeaderWriteStarted" \in flags'[call'[u]]
                        /\ "HeaderDone" \in flags'[call'[u]] <=> pc'[u] = "link"
                        /\ pc'[u] # "write" => prev'[call'[u]] = Parent[call'[u]]
                        /\ ~Linked(call[u])'
      OBVIOUS
    <3>1. /\ u \in Threads \ {t} /\ HeaderWriter(u) /\ pc'[u] = pc[u] /\ call'[u] = call[u]
          /\ pc[u] # "write" => prev'[call[u]] = Parent[call[u]]
      BY <2>6
    <3>2. ~Linked(call[u])'
      BY <2>6, <1>8, <3>1 DEF Linked
    <3> QED
      BY <2>3, <3>1, <3>2
  <2>8. \A u \in Threads : DataWriter(u)' =>
          /\ u \in Threads \ {t} /\ DataWriter(u) /\ call'[u] = call[u]
          /\ "DataWriteStarted" \in flags'[call'[u]] /\ "DataDone" \notin flags'[call'[u]]
    BY <1>4, <2>1, <2>2, <2>4
  <2>9. \A u, v \in Threads : u # v =>
          /\ HeaderWriter(u)' /\ HeaderWriter(v)' => call'[u] # call'[v]
          /\ DataWriter(u)' /\ DataWriter(v)' => call'[u] # call'[v]
    <3>1. \A u, v \in Threads : u # v =>
            /\ HeaderWriter(u) /\ HeaderWriter(v) => call[u] # call[v]
            /\ DataWriter(u) /\ DataWriter(v) => call[u] # call[v]
      BY DEF Writers
    <3>2. ASSUME NEW u \in Threads, NEW v \in Threads, u # v, HeaderWriter(u)', HeaderWriter(v)'
          PROVE  call'[u] # call'[v]
      <4>1. HeaderWriter(u) /\ HeaderWriter(v) /\ call'[u] = call[u] /\ call'[v] = call[v]
        BY <2>6, <3>2
      <4> QED
        BY <3>1, <3>2, <4>1
    <3>3. ASSUME NEW u \in Threads, NEW v \in Threads, u # v, DataWriter(u)', DataWriter(v)'
          PROVE  call'[u] # call'[v]
      <4>1. DataWriter(u) /\ DataWriter(v) /\ call'[u] = call[u] /\ call'[v] = call[v]
        BY <2>8, <3>3
      <4> QED
        BY <3>1, <3>3, <4>1
    <3> QED
      BY <3>2, <3>3
  <2>10. \A c \in Blocks :
           /\ "HeaderDone" \in flags'[c] =>
                /\ "HeaderWriteStarted" \in flags'[c]
                /\ c # Genesis => prev'[c] = Parent[c]
           /\ c \in Loaded => LoadedFlags \subseteq flags'[c] /\ SuccessorPhase \subseteq phases'[c]
    <3>1. \A c \in Blocks :
            /\ "HeaderDone" \in flags[c] =>
                 /\ "HeaderWriteStarted" \in flags[c]
                 /\ c # Genesis => prev[c] = Parent[c]
            /\ c \in Loaded => LoadedFlags \subseteq flags[c] /\ SuccessorPhase \subseteq phases[c]
      BY DEF Writers
    <3>2. prev' = prev /\ phases' = phases /\ \A c \in Blocks : flags[c] \subseteq flags'[c]
      BY <1>2, <1>7
    <3> QED
      BY <2>5, <3>1, <3>2
  <2> QED
    BY <2>5, <2>7, <2>8, <2>9, <2>10 DEF Writers
<1>13. Lists'
  <2>1. \A c \in Blocks : "HeaderDone" \in flags'[c] <=> "HeaderDone" \in flags[c]
    BY <1>7
  <2>2. \A u \in Threads : pc[u] = "link" => pc'[u] = "link" /\ call'[u] = call[u]
    BY <1>1, <1>4
  <2>3. Lists
    OBVIOUS
  <2> HIDE DEF IInv
  <2> QED
    BY <1>2, <1>8, <2>1, <2>2, <2>3, SMTT(30) DEF Lists
<1>14. ItemsLinked'
  <2>1. ItemsLinked /\ DataBits
    OBVIOUS
  <2> HIDE DEF IInv
  <2> QED
    BY <1>1, <1>3, <1>4, <1>5, <1>8, <2>1, SMTT(30) DEF ItemsLinked, DataBits
<1>15. \A c \in Blocks : \A r \in {"HeaderReady", "DataReady", "ParentDataReady", "Invalid"} :
         r \in flags'[c] <=> r \in flags[c]
  BY <1>7
<1>16. HeaderTokens'
  <2>1. HeaderTokens
    OBVIOUS
  <2> HIDE DEF IInv
  <2> QED
    BY <1>2, <1>4, <1>5, <1>15, <2>1, SMTT(30) DEF HeaderTokens
<1>17. HeaderBits' /\ DataBits'
  <2>1. HeaderBits /\ DataBits
    OBVIOUS
  <2> HIDE DEF IInv
  <2> QED
    BY <1>2, <1>7, <1>8, <1>15, <2>1, SMTT(30) DEF HeaderBits, DataBits
<1>18. Fields'
  <2>1. \A u \in Threads : Begun(u, 1)' => u # t /\ 1 \in Items(u)
    <3>1. TypeOK /\ Control
      OBVIOUS
    <3> HIDE DEF IInv
    <3> QED
      BY <1>4, <1>10, <3>1, SMTT(30) DEF Begun, Control, Items, WalkSteps, TypeOK
  <2> QED
    BY <1>2, <1>5, <1>15, <2>1 DEF Fields
<1>19. DataTokens'
  <2>1. \A u \in Threads : \A i \in Items(u)' : DataToken(u, i)' =>
          /\ {"DataDone", "ParentDataReady"} \subseteq flags'[Block(u, i)']
          /\ "DataReady" \in flags'[Block(u, i)'] <=> i = 1 /\ pc'[u] = "phases"
          /\ "DataReady" \notin phases[Block(u, i)']
    <3>1. ASSUME E # {}
          PROVE  /\ {"DataDone", "ParentDataReady"} \subseteq flags'[b]
                 /\ "DataReady" \notin flags'[b] /\ pc'[t] # "phases"
                 /\ "DataReady" \notin phases[b]
      BY <1>1, <1>3, <1>4, <1>7, <1>15, <3>1
    <3>2. ASSUME NEW u \in Threads \ {t}, NEW i \in Items(u), DataToken(u, i)
          PROVE  /\ {"DataDone", "ParentDataReady"} \subseteq flags'[Block(u, i)]
                 /\ "DataReady" \in flags'[Block(u, i)] <=> i = 1 /\ pc[u] = "phases"
                 /\ "DataReady" \notin phases[Block(u, i)]
      <4>1. Block(u, i) \in Blocks
        BY <1>5, <3>2
      <4>2. /\ {"DataDone", "ParentDataReady"} \subseteq flags[Block(u, i)]
            /\ "DataReady" \in flags[Block(u, i)] <=> i = 1 /\ pc[u] = "phases"
            /\ "DataReady" \notin phases[Block(u, i)]
        BY <3>2 DEF DataTokens
      <4> QED
        BY <1>7, <1>15, <4>1, <4>2
    <3>3. ASSUME NEW u \in Threads, NEW i \in Items(u)', DataToken(u, i)'
          PROVE  /\ {"DataDone", "ParentDataReady"} \subseteq flags'[Block(u, i)']
                 /\ "DataReady" \in flags'[Block(u, i)'] <=> i = 1 /\ pc'[u] = "phases"
                 /\ "DataReady" \notin phases[Block(u, i)']
      <4>1. CASE u = t /\ i = 1 /\ E # {}
        BY <1>4, <3>1, <4>1
      <4>2. CASE u \in Threads \ {t} /\ i \in Items(u)
        <5>1. DataToken(u, i) /\ Block(u, i)' = Block(u, i) /\ pc'[u] = pc[u]
          BY <1>4, <1>5, <3>3, <4>2
        <5> QED
          BY <3>2, <4>2, <5>1
      <4> QED
        BY <1>9, <4>1, <4>2
    <3> QED
      BY <3>3
  <2>2. ASSUME NEW u \in Threads, NEW v \in Threads, NEW i \in Items(u)', NEW j \in Items(v)',
               DataToken(u, i)', DataToken(v, j)', Block(u, i)' = Block(v, j)'
        PROVE  u = v /\ i = j
    <3>1. CASE u = t /\ v = t
      BY <1>9, <3>1
    <3>2. CASE u # t /\ v # t
      <4>1. i \in Items(u) /\ j \in Items(v) /\ u \in Threads \ {t} /\ v \in Threads \ {t}
        BY <1>9, <3>2
      <4>2. DataToken(u, i) /\ DataToken(v, j) /\ Block(u, i) = Block(v, j)
        BY <1>5, <2>2, <4>1
      <4> QED
        BY <4>1, <4>2, DataTokenSingle
    <3>3. \A w \in Threads : \A k \in Items(w)' : DataToken(w, k)' => (w = t <=> Block(w, k)' = b)
      BY <1>4, <1>5, <1>9
    <3> QED
      BY <2>2, <3>1, <3>2, <3>3
  <2>3. \A u \in Threads : \A i \in Items(u)' : ParentToken(u, i)' =>
          /\ u \in Threads \ {t} /\ i \in Items(u) /\ ParentToken(u, i)
    BY <1>4, <1>5, <1>9
  <2>4. \A u \in Threads : \A i \in Items(u)' : ParentToken(u, i)' =>
          /\ "DataReady" \in phases[Parent[Block(u, i)]]
          /\ Unmet(u, i)' => "ParentDataReady" \notin flags'[Block(u, i)]
    BY <1>5, <1>15, <2>3 DEF DataTokens
  <2>5. \A u, v \in Threads : \A i \in Items(u)', j \in Items(v)' :
          ParentToken(u, i)' /\ ParentToken(v, j)' /\ Block(u, i)' = Block(v, j)' => u = v /\ i = j
    <3>1. DataTokens
      OBVIOUS
    <3> HIDE DEF IInv
    <3> QED
      BY <1>5, <2>3, <3>1, SMTT(30) DEF DataTokens
  <2>6. \A u \in Threads : \A i \in Items(u)' : ParentToken(u, i)' =>
          /\ "DataReady" \in phases'[Parent[Block(u, i)']]
          /\ Unmet(u, i)' => "ParentDataReady" \notin flags'[Block(u, i)']
    BY <1>2, <1>5, <2>3, <2>4
  <2>7. \A u, v \in Threads : \A i \in Items(u)', j \in Items(v)' :
          DataToken(u, i)' /\ DataToken(v, j)' /\ Block(u, i)' = Block(v, j)' => u = v /\ i = j
    BY <2>2
  <2>8. phases' = phases
    BY <1>2
  <2> QED
    BY <2>1, <2>5, <2>6, <2>7, <2>8, DataTokensAfter
<1>20. \A u \in Threads : pc[u] = "phases" => u # t /\ pc'[u] = "phases" /\ Block(u, 1)' = Block(u, 1)
  BY <1>1, <1>4 DEF Block
<1>21. PhaseCover("HeaderReady")' /\ PhaseCover("DataReady")' /\ HeaderCover' /\ ParentCover'
  <2>1. PhaseCover("HeaderReady")' /\ PhaseCover("DataReady")'
    <3>1. ASSUME NEW r \in {"HeaderReady", "DataReady"}, PhaseCover(r) PROVE PhaseCover(r)'
      BY <1>2, <1>4, <1>15, <1>20, <3>1 DEF PhaseCover
    <3> QED
      BY <3>1
  <2>2. HeaderCover'
    <3>1. ASSUME NEW c \in Blocks \ Loaded, Linked(c), "HeaderReady" \in phases[Parent[c]],
                 "HeaderReady" \notin flags[c]
          PROVE  \E u \in Threads : \E i \in Items(u)' : HeaderToken(u, i)' /\ Block(u, i)' = c
      <4>1. PICK u \in Threads : \E i \in Items(u) : HeaderToken(u, i) /\ Block(u, i) = c
        BY <3>1 DEF HeaderCover
      <4> QED
        BY <1>4, <1>5, <1>6, <4>1
    <3> QED
      BY <1>2, <1>8, <1>15, <3>1 DEF HeaderCover
  <2>3. ParentCover'
    <3>1. ASSUME NEW c \in Blocks \ Loaded, Linked(c), "DataReady" \in phases[Parent[c]],
                 "ParentDataReady" \notin flags[c]
          PROVE  \E u \in Threads : \E i \in Items(u)' : Unmet(u, i)' /\ Block(u, i)' = c
      <4>1. PICK u \in Threads : \E i \in Items(u) : Unmet(u, i) /\ Block(u, i) = c
        BY <3>1 DEF ParentCover
      <4> QED
        BY <1>4, <1>5, <1>6, <4>1
    <3> QED
      BY <1>2, <1>8, <1>15, <3>1 DEF ParentCover
  <2> QED
    BY <2>1, <2>2, <2>3
<1>22. DataCover'
  <2>1. \A c \in Blocks : Valid(c)' <=> Valid(c)
    BY <1>15 DEF Valid
  <2>2. ASSUME NEW c \in Blocks \ Loaded, {"DataDone", "ParentDataReady"} \subseteq flags'[c]
        PROVE  \/ "DataReady" \in flags'[c]
               \/ ~Valid(c)' \/ ~Valid(Parent[c])'
               \/ \E u \in Threads : \E i \in Items(u)' : DataToken(u, i)' /\ Block(u, i)' = c
    <3>1. CASE c = b
      BY <1>3, <1>4, <1>7, <2>2, <3>1, SMTT(30)
    <3>2. CASE c # b
      <4>1. {"DataDone", "ParentDataReady"} \subseteq flags[c] /\ Parent[c] \in Blocks
        BY <1>7, <2>2, <3>2, Tree
      <4>2. \/ "DataReady" \in flags[c]
            \/ ~Valid(c) \/ ~Valid(Parent[c])
            \/ \E u \in Threads : \E i \in Items(u) : DataToken(u, i) /\ Block(u, i) = c
        BY <4>1 DEF DataCover
      <4> QED
        BY <1>4, <1>5, <1>6, <1>15, <2>1, <4>1, <4>2
    <3> QED
      BY <3>1, <3>2
  <2> QED
    BY <2>2 DEF DataCover
<1>23. NotifyCover'
  <2>1. \A c \in Blocks : Ready(c)' <=> Ready(c)
    BY <1>15 DEF Ready
  <2> QED
    BY <1>1, <1>2, <1>4, <2>1 DEF NotifyCover, WalkSteps, TypeOK
<1> QED
  BY <1>10, <1>11, <1>12, <1>13, <1>14, <1>16, <1>17, <1>18, <1>19, <1>21, <1>22, <1>23
=============================================================================
