------------------------ MODULE BlockIndexWalkProofs ------------------------
(***************************************************************************)
(* IInv is kept by the steps of buildChain that stay at one queue item,    *)
(* and by the pipeline's marking of an invalid block.                      *)
(***************************************************************************)
EXTENDS BlockIndexLinkProofs, TLAPS

USE ZenonT(30)

\* What a walking thread knows of the item at the head of its queue
LEMMA WalkItem ==
  ASSUME IInv, NEW t \in Threads, pc[t] \in WalkSteps
  PROVE  /\ queue[t] # <<>> /\ 1 \in Items(t)
         /\ Current(t) = Block(t, 1) /\ Events(t) = queue[t][1].events
         /\ Block(t, 1) \in Blocks \ Loaded /\ Linked(Block(t, 1))
         /\ Parent[Block(t, 1)] \in Blocks
         /\ "HeaderDone" \in flags[Block(t, 1)]
         /\ prev[Block(t, 1)] = Parent[Block(t, 1)]
<1> USE DEF IInv
<1>1. queue[t] # <<>>
  BY DEF Control
<1>2. queue[t] \in Seq([block : Blocks \ {Genesis}, events : SUBSET ChainEvent])
  BY DEF TypeOK
<1>3. 1 \in Items(t) /\ Current(t) = Block(t, 1) /\ Events(t) = queue[t][1].events
  BY <1>1, <1>2, SMTT(30) DEF Items, Current, Events, Block
<1>4. Block(t, 1) \in Blocks \ Loaded /\ Linked(Block(t, 1))
  BY <1>3 DEF ItemsLinked
<1>5. Parent[Block(t, 1)] \in Blocks /\ Block(t, 1) # Genesis
  BY <1>4, Tree
<1>6. "HeaderDone" \in flags[Block(t, 1)]
  <2>1. PICK i \in 1..Len(successors[Parent[Block(t, 1)]]) : successors[Parent[Block(t, 1)]][i] = Block(t, 1)
    BY <1>4 DEF Linked
  <2>2. Lists
    OBVIOUS
  <2> HIDE DEF IInv
  <2> QED
    BY <1>5, <2>1, <2>2, SMTT(30) DEF Lists
<1>7. prev[Block(t, 1)] = Parent[Block(t, 1)]
  BY <1>4, <1>5, <1>6 DEF Writers
<1> QED
  BY <1>1, <1>3, <1>4, <1>5, <1>6, <1>7

\* The tokens when no queue changes and only thread t moves
LEMMA StayTokens ==
  ASSUME IInv, NEW t \in Threads, queue' = queue,
         \A u \in Threads \ {t} : pc'[u] = pc[u] /\ ready'[u] = ready[u]
  PROVE  \A u \in Threads :
           /\ Items(u)' = Items(u)
           /\ \A i \in Items(u) :
                /\ Block(u, i) \in Blocks \ Loaded /\ Linked(Block(u, i)) /\ Block(u, i)' = Block(u, i)
                /\ HeaderToken(u, i)' <=> HeaderToken(u, i)
                /\ ParentToken(u, i)' <=> ParentToken(u, i)
                /\ u # t \/ i # 1 => /\ Begun(u, i)' <=> Begun(u, i)
                                     /\ Unmet(u, i)' <=> Unmet(u, i)
                                     /\ DataToken(u, i)' <=> DataToken(u, i)
<1> TAKE u \in Threads
<1>1. Items(u)' = Items(u)
  BY DEF Items
<1>2. ASSUME NEW i \in Items(u)
      PROVE  /\ Block(u, i) \in Blocks \ Loaded /\ Linked(Block(u, i)) /\ Block(u, i)' = Block(u, i)
             /\ HeaderToken(u, i)' <=> HeaderToken(u, i)
             /\ ParentToken(u, i)' <=> ParentToken(u, i)
  BY <1>2 DEF IInv, ItemsLinked, Block, HeaderToken, ParentToken
<1>3. ASSUME NEW i \in Items(u), u # t \/ i # 1
      PROVE  /\ Begun(u, i)' <=> Begun(u, i)
             /\ Unmet(u, i)' <=> Unmet(u, i)
  BY <1>2, <1>3 DEF Begun, Unmet
<1>4. ASSUME NEW i \in Items(u), u # t \/ i # 1
      PROVE  DataToken(u, i)' <=> DataToken(u, i)
  BY <1>3, <1>4 DEF DataToken, Begun
<1> QED
  BY <1>1, <1>2, <1>3, <1>4

\* The tokens and the bits they stand for when a step touches neither, save that it
\* may drop a data token
LEMMA FewerTokens ==
  ASSUME IInv, UNCHANGED <<phases, successors>>,
         \A u \in Threads :
           /\ Items(u)' = Items(u)
           /\ \A i \in Items(u) :
                /\ Block(u, i) \in Blocks \ Loaded /\ Linked(Block(u, i)) /\ Block(u, i)' = Block(u, i)
                /\ HeaderToken(u, i)' <=> HeaderToken(u, i)
                /\ ParentToken(u, i)' <=> ParentToken(u, i)
                /\ Unmet(u, i)' <=> Unmet(u, i)
                /\ DataToken(u, i)' => DataToken(u, i)
                /\ (i = 1 /\ pc'[u] = "phases") <=> (i = 1 /\ pc[u] = "phases"),
         \A c \in Blocks : \A r \in {"HeaderReady", "DataReady", "DataDone", "ParentDataReady"} :
           r \in flags'[c] <=> r \in flags[c]
  PROVE  /\ ItemsLinked' /\ HeaderTokens' /\ HeaderBits' /\ DataTokens' /\ DataBits'
         /\ HeaderCover' /\ ParentCover'
<1> USE DEF IInv
<1>1. \A c : Linked(c)' <=> Linked(c)
  BY DEF Linked
<1>2. ItemsLinked'
  <2>1. ItemsLinked
    OBVIOUS
  <2> HIDE DEF IInv
  <2> QED
    BY <1>1, <2>1, SMTT(30) DEF ItemsLinked
<1>3. HeaderTokens'
  <2>1. HeaderTokens
    OBVIOUS
  <2> HIDE DEF IInv
  <2> QED
    BY <2>1, SMTT(30) DEF HeaderTokens
<1>4. DataTokens'
  <2>1. DataTokens
    OBVIOUS
  <2> HIDE DEF IInv
  <2> QED
    BY <2>1, SMTT(30) DEF DataTokens
<1>5. HeaderBits'
  <2>1. HeaderBits
    OBVIOUS
  <2> HIDE DEF IInv
  <2> QED
    BY <1>1, <2>1, SMTT(30) DEF HeaderBits
<1>6. DataBits'
  <2>1. DataBits
    OBVIOUS
  <2> HIDE DEF IInv
  <2> QED
    BY <1>1, <2>1, SMTT(30) DEF DataBits
<1>7. HeaderCover'
  <2>1. HeaderCover
    OBVIOUS
  <2> HIDE DEF IInv
  <2> QED
    BY <1>1, <2>1, SMTT(30) DEF HeaderCover
<1>8. ParentCover'
  <2>1. ParentCover
    OBVIOUS
  <2> HIDE DEF IInv
  <2> QED
    BY <1>1, <2>1, SMTT(30) DEF ParentCover
<1> QED
  BY <1>2, <1>3, <1>4, <1>5, <1>6, <1>7, <1>8

\* ... and when it drops none
LEMMA SameTokens ==
  ASSUME IInv, UNCHANGED <<phases, successors>>,
         \A u \in Threads :
           /\ Items(u)' = Items(u)
           /\ \A i \in Items(u) :
                /\ Block(u, i) \in Blocks \ Loaded /\ Linked(Block(u, i)) /\ Block(u, i)' = Block(u, i)
                /\ HeaderToken(u, i)' <=> HeaderToken(u, i)
                /\ ParentToken(u, i)' <=> ParentToken(u, i)
                /\ Unmet(u, i)' <=> Unmet(u, i)
                /\ DataToken(u, i)' <=> DataToken(u, i)
                /\ (i = 1 /\ pc'[u] = "phases") <=> (i = 1 /\ pc[u] = "phases"),
         \A c \in Blocks : \A r \in {"HeaderReady", "DataReady", "DataDone", "ParentDataReady"} :
           r \in flags'[c] <=> r \in flags[c],
         \A c \in Blocks : Valid(c)' => Valid(c)
  PROVE  /\ ItemsLinked' /\ HeaderTokens' /\ HeaderBits' /\ DataTokens' /\ DataBits'
         /\ HeaderCover' /\ ParentCover' /\ DataCover'
<1>1. /\ ItemsLinked' /\ HeaderTokens' /\ HeaderBits' /\ DataTokens' /\ DataBits'
      /\ HeaderCover' /\ ParentCover'
  BY FewerTokens
<1>2. \A c \in Blocks \ Loaded : Parent[c] \in Blocks
  BY Tree DEF IInv
<1>3. DataCover'
  BY <1>2, SMTT(30) DEF IInv, DataCover
<1> QED
  BY <1>1, <1>3

\* A thread that has published a Ready bit and not yet the phase stays where it is.
LEMMA PhaseStays ==
  ASSUME NEW r, PhaseCover(r), UNCHANGED <<flags, phases>>,
         \A u \in Threads : pc[u] = "phases" =>
           pc'[u] = "phases" /\ Block(u, 1)' = Block(u, 1) /\ ready'[u] = ready[u]
  PROVE  PhaseCover(r)'
<1>1. ASSUME NEW c \in Blocks, r \in flags[c] \ phases[c]
      PROVE  \E u \in Threads : pc'[u] = "phases" /\ Block(u, 1)' = c /\ r \in ready'[u]
  <2>1. PICK u \in Threads : pc[u] = "phases" /\ Block(u, 1) = c /\ r \in ready[u]
    BY <1>1 DEF PhaseCover
  <2> QED
    BY <2>1
<1> QED
  BY <1>1 DEF PhaseCover

\* What a step that stays at its item leaves alone in any case
LEMMA StayFrame ==
  ASSUME IInv, NEW t \in Threads, pc[t] \in WalkSteps, pc'[t] \in WalkSteps,
         UNCHANGED <<prev, successors, phases, call, withData, queue>>,
         \A u \in Threads \ {t} : pc'[u] = pc[u] /\ ready'[u] = ready[u],
         \A b \in Blocks : flags[b] \subseteq flags'[b],
         \A b \in Blocks : \A r \in {"HeaderDone", "DataDone"} : r \in flags'[b] => r \in flags[b],
         Begun(t, 1)', "HeaderReady" \in ready'[t] <=> HeaderToken(t, 1)
  PROVE  Control' /\ Writers' /\ Lists' /\ ItemsLinked' /\ \A c : Linked(c)' <=> Linked(c)
<1> USE DEF IInv
<1>1. \A c : Linked(c)' <=> Linked(c)
  BY DEF Linked
<1>2. Writers' /\ Lists'
  <2>1. \A u \in Threads : pc[u] \in WriteSteps \/ pc'[u] \in WriteSteps => pc'[u] = pc[u]
    BY DEF WriteSteps, WalkSteps
  <2> QED
    BY <2>1, WalkFrame
<1>3. ItemsLinked'
  <2>1. ItemsLinked
    OBVIOUS
  <2> HIDE DEF IInv
  <2> QED
    BY <1>1, StayTokens, <2>1, SMTT(30) DEF ItemsLinked
<1>4. Control'
  <2>1. \A u \in Threads : 1 \in Items(u) => (HeaderToken(u, 1)' <=> HeaderToken(u, 1))
    BY StayTokens
  <2>2. \A u \in Threads : HeaderToken(u, 1)' <=> HeaderToken(u, 1)
    BY DEF HeaderToken
  <2>3. \A u \in Threads \ {t} : Begun(u, 1)' <=> Begun(u, 1)
    BY DEF Begun
  <2>4. \A u \in Threads : pc'[u] \in WalkSteps <=> queue'[u] # <<>>
    BY DEF Control
  <2>5. \A u \in Threads : pc'[u] \in {"elect", "data", "write", "done", "link"} => call'[u] \in Blocks \ Loaded
    BY DEF Control, WalkSteps
  <2>6. \A u \in Threads : Begun(u, 1)' => ("HeaderReady" \in ready'[u] <=> HeaderToken(u, 1)')
    BY <2>2, <2>3 DEF Control
  <2> QED
    BY <2>4, <2>5, <2>6 DEF Control
<1> QED
  BY <1>1, <1>2, <1>3, <1>4

\* The header step keeps the invariant: Height and ChainWork are written under a
\* token, from a parent whose fields are published.
LEMMA BuildHeaderInv ==
  ASSUME IInv, NEW t \in Threads, BuildHeader(t)
  PROVE  IInv'
<1> USE DEF IInv
<1> DEFINE b == Block(t, 1)
           H == HeaderToken(t, 1)
<1>1. /\ 1 \in Items(t) /\ b \in Blocks \ Loaded /\ Parent[b] \in Blocks /\ Linked(b)
      /\ Current(t) = b /\ Events(t) = queue[t][1].events /\ prev[b] = Parent[b] /\ pc[t] = "item"
      /\ pc[t] \in WalkSteps
  BY WalkItem DEF BuildHeader, WalkSteps
<1>2. /\ UNCHANGED <<flags, prev, successors, phases, call, withData, queue, best, notified>>
      /\ pc' = [pc EXCEPT ![t] = "meet"]
      /\ ready' = [ready EXCEPT ![t] = {r \in SuccessorPhase :
                       \/ r = "HeaderReady" /\ H
                       \/ r = "DataReady" /\ "PublishDataReady" \in queue[t][1].events}]
  BY <1>1 DEF BuildHeader, Goto, HeaderToken
<1>3. /\ H => /\ height' = [height EXCEPT ![b] = height[Parent[b]] + 1]
              /\ chainWork' = [chainWork EXCEPT ![b] = chainWork[Parent[b]] + Proof[b]]
      /\ ~H => UNCHANGED <<height, chainWork>>
  BY <1>1, SMTT(30) DEF BuildHeader, HeaderToken
<1> HIDE DEF b, H
<1>4. /\ pc'[t] = "meet" /\ pc'[t] \in WalkSteps
      /\ \A u \in Threads \ {t} : pc'[u] = pc[u] /\ ready'[u] = ready[u]
      /\ "HeaderReady" \in ready'[t] <=> H
      /\ "DataReady" \in ready'[t] <=> "PublishDataReady" \in queue[t][1].events
  <2>1. TypeOK
    OBVIOUS
  <2> HIDE DEF IInv
  <2> QED
    BY <1>2, <2>1, SMTT(30) DEF TypeOK, WalkSteps, SuccessorPhase
<1>5. H => /\ "HeaderReady" \in flags[Parent[b]] /\ "HeaderReady" \notin flags[b]
           /\ height[Parent[b]] = Depth[Parent[b]] /\ chainWork[Parent[b]] = Total[Parent[b]]
  <2>1. HeaderTokens /\ HeaderBits /\ Fields
    OBVIOUS
  <2> HIDE DEF IInv
  <2> QED
    BY <1>1, <2>1, SMTT(30) DEF HeaderTokens, HeaderBits, Fields, b, H
<1>6. TypeOK'
  <2>1. ready' \in [Threads -> SUBSET SuccessorPhase]
    <3>1. TypeOK
      OBVIOUS
    <3> HIDE DEF IInv
    <3> QED
      BY <1>2, <3>1, SMTT(30) DEF TypeOK
  <2>2. height' \in [Blocks -> Nat \cup {UnknownHeight}] /\ chainWork' \in [Blocks -> Nat]
    <3>1. CASE ~H
      BY <1>3, <3>1 DEF TypeOK
    <3>2. CASE H
      <4>1. height[Parent[b]] + 1 \in Nat /\ chainWork[Parent[b]] + Proof[b] \in Nat
        BY <1>1, <1>5, <3>2, BlockTree, SMTT(30)
      <4>2. height \in [Blocks -> Nat \cup {UnknownHeight}] /\ chainWork \in [Blocks -> Nat]
        BY DEF TypeOK
      <4> QED
        BY <1>1, <1>3, <3>2, <4>1, <4>2, SMTT(30)
    <3> QED
      BY <3>1, <3>2
  <2>3. pc' \in [Threads -> WalkSteps \cup {"idle", "elect", "write", "done", "link", "data", "notify"}]
    <3>1. TypeOK
      OBVIOUS
    <3> HIDE DEF IInv
    <3> QED
      BY <1>2, <3>1, SMTT(30) DEF TypeOK, WalkSteps
  <2> QED
    BY <1>2, <2>1, <2>2, <2>3 DEF TypeOK
<1>7. /\ Begun(t, 1)' /\ Control' /\ Writers' /\ Lists' /\ ItemsLinked' /\ \A c : Linked(c)' <=> Linked(c)
  <2>1. Begun(t, 1)'
    BY <1>4 DEF Begun
  <2>2. "HeaderReady" \in ready'[t] <=> HeaderToken(t, 1)
    BY <1>4 DEF H
  <2> QED
    BY <1>1, <1>2, <1>4, <2>1, <2>2, StayFrame
<1>8. \A u \in Threads :
        /\ Items(u)' = Items(u)
        /\ \A i \in Items(u) :
             /\ Block(u, i) \in Blocks \ Loaded /\ Linked(Block(u, i)) /\ Block(u, i)' = Block(u, i)
             /\ HeaderToken(u, i)' <=> HeaderToken(u, i)
             /\ ParentToken(u, i)' <=> ParentToken(u, i)
             /\ Unmet(u, i)' <=> Unmet(u, i)
             /\ DataToken(u, i)' <=> DataToken(u, i)
             /\ (i = 1 /\ pc'[u] = "phases") <=> (i = 1 /\ pc[u] = "phases")
  <2>1. Unmet(t, 1)' <=> Unmet(t, 1)
    BY <1>1, <1>2, <1>4 DEF Unmet, ParentToken
  <2>2. DataToken(t, 1)' <=> DataToken(t, 1)
    BY <1>1, <1>4, <1>7 DEF DataToken, Begun
  <2>3. \A u \in Threads : pc'[u] = "phases" <=> pc[u] = "phases"
    BY <1>1, <1>4
  <2> QED
    BY <1>1, <1>2, <1>4, <2>1, <2>2, <2>3, StayTokens
<1>9. /\ HeaderTokens' /\ HeaderBits' /\ DataTokens' /\ DataBits'
      /\ HeaderCover' /\ ParentCover' /\ DataCover'
  <2>1. /\ \A c \in Blocks : \A r \in {"HeaderReady", "DataReady", "DataDone", "ParentDataReady"} :
             r \in flags'[c] <=> r \in flags[c]
        /\ \A c \in Blocks : Valid(c)' => Valid(c)
    BY <1>2 DEF Valid
  <2> QED
    BY <1>2, <1>8, <2>1, SameTokens
<1>10. Fields'
  <2>1. \A c \in Blocks \ {b} : height'[c] = height[c] /\ chainWork'[c] = chainWork[c]
    <3>1. TypeOK
      OBVIOUS
    <3> HIDE DEF IInv
    <3> QED
      BY <1>1, <1>3, <3>1, SMTT(30) DEF TypeOK
  <2>2. H => height'[b] = Depth[b] /\ chainWork'[b] = Total[b]
    <3>1. b \in Blocks \ {Genesis}
      BY <1>1, Tree
    <3>2. Depth[b] = Depth[Parent[b]] + 1 /\ Total[b] = Total[Parent[b]] + Proof[b]
      BY <3>1, BlockTree
    <3>3. height \in [Blocks -> Nat \cup {UnknownHeight}] /\ chainWork \in [Blocks -> Nat]
      BY DEF TypeOK
    <3> QED
      BY <1>1, <1>3, <1>5, <3>2, <3>3, SMTT(30)
  <2>3. ~H => UNCHANGED <<height, chainWork>>
    BY <1>3
  <2>4. ASSUME NEW u \in Threads, u # t, Begun(u, 1)', HeaderToken(u, 1)'
        PROVE  /\ Begun(u, 1) /\ HeaderToken(u, 1) /\ Block(u, 1)' = Block(u, 1) /\ Block(u, 1) \in Blocks
               /\ H => Block(u, 1) # b
    <3>1. pc[u] \in WalkSteps
      BY <1>4, <2>4 DEF Begun, WalkSteps
    <3>2. 1 \in Items(u)
      BY <3>1, WalkItem
    <3>3. /\ Begun(u, 1) /\ HeaderToken(u, 1) /\ Block(u, 1)' = Block(u, 1) /\ Block(u, 1) \in Blocks
      BY <1>4, <1>8, <2>4, <3>2 DEF Begun
    <3> QED
      BY <1>1, <2>4, <3>2, <3>3 DEF HeaderTokens, b, H
  <2>5. \A u \in Threads : Begun(u, 1)' /\ HeaderToken(u, 1)' =>
          height'[Block(u, 1)'] = Depth[Block(u, 1)'] /\ chainWork'[Block(u, 1)'] = Total[Block(u, 1)']
    <3> SUFFICES ASSUME NEW u \in Threads, Begun(u, 1)', HeaderToken(u, 1)'
                 PROVE  height'[Block(u, 1)'] = Depth[Block(u, 1)'] /\ chainWork'[Block(u, 1)'] = Total[Block(u, 1)']
      OBVIOUS
    <3>1. CASE u = t
      BY <1>1, <1>8, <2>2, <3>1 DEF b, H
    <3>2. CASE u # t
      BY <2>1, <2>3, <2>4, <3>2 DEF Fields
    <3> QED
      BY <3>1, <3>2
  <2>6. \A c \in Blocks : "HeaderReady" \in flags[c] => height'[c] = Depth[c] /\ chainWork'[c] = Total[c]
    BY <1>5, <2>1, <2>3 DEF Fields
  <2> QED
    BY <1>2, <2>5, <2>6 DEF Fields
<1>11. PhaseCover("HeaderReady")' /\ PhaseCover("DataReady")'
  <2>1. \A u \in Threads : pc[u] = "phases" =>
          pc'[u] = "phases" /\ Block(u, 1)' = Block(u, 1) /\ ready'[u] = ready[u]
    BY <1>1, <1>2, <1>4 DEF Block
  <2>2. ASSUME NEW r, PhaseCover(r) PROVE PhaseCover(r)'
    BY <1>2, <2>1, <2>2 DEF PhaseCover
  <2> QED
    BY <2>2
<1>12. NotifyCover'
  BY <1>2, <1>4 DEF NotifyCover, Ready
<1> QED
  BY <1>6, <1>7, <1>9, <1>10, <1>11, <1>12

\* ParentDataReady meets DataDone: the thread takes the DataReady token only when
\* the data came first, and then addBlock did not take it.
LEMMA MeetParentDataInv ==
  ASSUME IInv, NEW t \in Threads, MeetParentData(t)
  PROVE  IInv'
<1> USE DEF IInv
<1> DEFINE b == Block(t, 1)
           P == ParentToken(t, 1)
<1>1. /\ 1 \in Items(t) /\ b \in Blocks \ Loaded /\ Parent[b] \in Blocks /\ Linked(b)
      /\ Current(t) = b /\ Events(t) = queue[t][1].events /\ pc[t] = "meet"
      /\ pc[t] \in WalkSteps
  BY WalkItem DEF MeetParentData, WalkSteps
<1>2. /\ UNCHANGED <<prev, height, chainWork, successors, phases, call, withData, queue, best, notified>>
      /\ pc' = [pc EXCEPT ![t] = "check"]
      /\ P => /\ FetchOr(b, {"ParentDataReady"})
              /\ ready' = [ready EXCEPT ![t] =
                             IF "DataDone" \in flags[b] THEN @ \cup {"DataReady"} ELSE @]
      /\ ~P => UNCHANGED <<flags, ready>>
  BY <1>1, SMTT(30) DEF MeetParentData, Goto, ParentToken
<1> HIDE DEF b, P
<1>3. /\ flags' \in [Blocks -> SUBSET BlockFlags]
      /\ flags'[b] = IF P THEN flags[b] \cup {"ParentDataReady"} ELSE flags[b]
      /\ \A c \in Blocks \ {b} : flags'[c] = flags[c]
      /\ \A c \in Blocks : flags[c] \subseteq flags'[c]
      /\ \A c \in Blocks : \A r : r \in flags'[c] /\ r # "ParentDataReady" => r \in flags[c]
  <2>1. CASE P
    <3>1. /\ flags' \in [Blocks -> SUBSET BlockFlags]
          /\ flags'[b] = flags[b] \cup {"ParentDataReady"}
          /\ \A c \in Blocks \ {b} : flags'[c] = flags[c]
      BY <1>1, <1>2, <2>1, FetchOrBits DEF BlockFlags
    <3> QED
      BY <1>1, <2>1, <3>1
  <2>2. CASE ~P
    BY <1>2, <2>2 DEF TypeOK
  <2> QED
    BY <2>1, <2>2
<1>4. /\ pc'[t] = "check" /\ pc'[t] \in WalkSteps /\ Begun(t, 1) /\ Begun(t, 1)'
      /\ \A u \in Threads \ {t} : pc'[u] = pc[u]
  <2>1. TypeOK
    OBVIOUS
  <2> HIDE DEF IInv
  <2> QED
    BY <1>1, <1>2, <2>1, SMTT(30) DEF TypeOK, WalkSteps, Begun
<1>5. /\ ready' \in [Threads -> SUBSET SuccessorPhase]
      /\ \A u \in Threads \ {t} : ready'[u] = ready[u]
      /\ "HeaderReady" \in ready'[t] <=> "HeaderReady" \in ready[t]
      /\ "DataReady" \in ready'[t] <=> "DataReady" \in ready[t] \/ (P /\ "DataDone" \in flags[b])
  <2>1. ready \in [Threads -> SUBSET SuccessorPhase]
    BY DEF TypeOK
  <2>2. CASE P
    BY <1>2, <2>1, <2>2, SMTT(30) DEF SuccessorPhase
  <2>3. CASE ~P
    BY <1>2, <2>1, <2>3
  <2> QED
    BY <2>2, <2>3
<1>6. TypeOK'
  <2>1. pc' \in [Threads -> WalkSteps \cup {"idle", "elect", "write", "done", "link", "data", "notify"}]
    <3>1. TypeOK
      OBVIOUS
    <3> HIDE DEF IInv
    <3> QED
      BY <1>2, <3>1, SMTT(30) DEF TypeOK, WalkSteps
  <2> QED
    BY <1>2, <1>3, <1>5, <2>1 DEF TypeOK
<1>7. Control' /\ Writers' /\ Lists' /\ ItemsLinked' /\ \A c : Linked(c)' <=> Linked(c)
  <2>1. "HeaderReady" \in ready'[t] <=> HeaderToken(t, 1)
    BY <1>4, <1>5 DEF Control
  <2>2. \A c \in Blocks : \A r \in {"HeaderDone", "DataDone"} : r \in flags'[c] => r \in flags[c]
    BY <1>3
  <2> QED
    BY <1>1, <1>2, <1>3, <1>4, <1>5, <2>1, <2>2, StayFrame
<1>8. \A u \in Threads :
        /\ Items(u)' = Items(u)
        /\ \A i \in Items(u) :
             /\ Block(u, i) \in Blocks \ Loaded /\ Linked(Block(u, i)) /\ Block(u, i)' = Block(u, i)
             /\ HeaderToken(u, i)' <=> HeaderToken(u, i)
             /\ ParentToken(u, i)' <=> ParentToken(u, i)
             /\ u # t \/ i # 1 => /\ Unmet(u, i)' <=> Unmet(u, i)
                                  /\ DataToken(u, i)' <=> DataToken(u, i)
             /\ (i = 1 /\ pc'[u] = "phases") <=> (i = 1 /\ pc[u] = "phases")
  <2>1. \A u \in Threads : pc'[u] = "phases" <=> pc[u] = "phases"
    BY <1>1, <1>4
  <2> QED
    BY <1>2, <1>4, <1>5, <2>1, StayTokens
<1>9. /\ Unmet(t, 1) <=> P
      /\ ~Unmet(t, 1)'
      /\ DataToken(t, 1)' <=> DataToken(t, 1) \/ (P /\ "DataDone" \in flags[b])
  BY <1>1, <1>4, <1>5 DEF Unmet, DataToken, P
<1>10. P => /\ "DataReady" \in phases[Parent[b]]
            /\ "ParentDataReady" \notin flags[b] /\ "DataReady" \notin flags[b] /\ "DataReady" \notin phases[b]
  <2> HAVE P
  <2>1. "DataReady" \in phases[Parent[b]] /\ "ParentDataReady" \notin flags[b]
    BY <1>1, <1>9 DEF DataTokens, P, b
  <2> QED
    BY <1>1, <2>1 DEF DataBits
<1>11. \A c \in Blocks : \A r \in {"HeaderReady", "DataReady", "DataDone", "Invalid"} :
         r \in flags'[c] <=> r \in flags[c]
  BY <1>3
<1>12. HeaderTokens'
  <2>1. HeaderTokens
    OBVIOUS
  <2> HIDE DEF IInv
  <2> QED
    BY <1>2, <1>8, <1>11, <2>1, SMTT(30) DEF HeaderTokens
<1>13. DataTokens'
  <2>1. ASSUME NEW u \in Threads, NEW i \in Items(u), ParentToken(u, i), Unmet(u, i)'
        PROVE  "ParentDataReady" \notin flags'[Block(u, i)]
    <3>1. u # t \/ i # 1
      BY <1>9, <2>1
    <3>2. Unmet(u, i)
      BY <1>8, <2>1, <3>1
    <3>3. P => Block(u, i) # b
      <4>1. DataTokens
        OBVIOUS
      <4> HIDE DEF IInv
      <4> QED
        BY <1>1, <2>1, <3>1, <4>1, SMTT(30) DEF DataTokens, P, b
    <3>4. "ParentDataReady" \notin flags[Block(u, i)] /\ Block(u, i) \in Blocks
      BY <1>8, <2>1, <3>2 DEF DataTokens
    <3> QED
      BY <1>3, <3>3, <3>4
  <2>2. ASSUME NEW u \in Threads, NEW i \in Items(u), DataToken(u, i)'
        PROVE  /\ {"DataDone", "ParentDataReady"} \subseteq flags'[Block(u, i)]
               /\ "DataReady" \in flags'[Block(u, i)] <=> i = 1 /\ pc'[u] = "phases"
               /\ "DataReady" \notin phases[Block(u, i)]
    <3>1. Block(u, i) \in Blocks
      BY <1>8
    <3>2. CASE DataToken(u, i)
      <4>1. /\ {"DataDone", "ParentDataReady"} \subseteq flags[Block(u, i)]
            /\ "DataReady" \in flags[Block(u, i)] <=> i = 1 /\ pc[u] = "phases"
            /\ "DataReady" \notin phases[Block(u, i)]
        BY <3>2 DEF DataTokens
      <4> QED
        BY <1>3, <1>8, <1>11, <3>1, <4>1
    <3>3. CASE ~DataToken(u, i)
      <4>1. u = t /\ i = 1 /\ P /\ "DataDone" \in flags[b]
        BY <1>8, <1>9, <2>2, <3>3
      <4> QED
        BY <1>1, <1>3, <1>4, <1>10, <1>11, <4>1 DEF b
    <3> QED
      BY <3>2, <3>3
  <2>3. ASSUME NEW u \in Threads, NEW v \in Threads, NEW i \in Items(u), NEW j \in Items(v),
               DataToken(u, i)', DataToken(v, j)', Block(u, i) = Block(v, j)
        PROVE  u = v /\ i = j
    <3>1. CASE DataToken(u, i) /\ DataToken(v, j)
      <4>1. DataTokens
        OBVIOUS
      <4> HIDE DEF IInv
      <4> QED
        BY <2>3, <3>1, <4>1, SMTT(30) DEF DataTokens
    <3>2. \A w \in Threads : \A k \in Items(w) : DataToken(w, k)' /\ ~DataToken(w, k) => w = t /\ k = 1 /\ P
      BY <1>8, <1>9
    <3>3. \A w \in Threads : \A k \in Items(w) : DataToken(w, k) /\ P => Block(w, k) # b
      BY <1>10 DEF DataTokens
    <3> QED
      BY <2>3, <3>1, <3>2, <3>3, SMTT(30) DEF b
  <2>4. \A u \in Threads : \A i \in Items(u) : ParentToken(u, i) => "DataReady" \in phases[Parent[Block(u, i)]]
    BY DEF DataTokens
  <2>5. \A u, v \in Threads : \A i \in Items(u), j \in Items(v) :
          ParentToken(u, i) /\ ParentToken(v, j) /\ Block(u, i) = Block(v, j) => u = v /\ i = j
    BY DEF DataTokens
  <2>6. DataTokens
    OBVIOUS
  <2> HIDE DEF IInv
  <2> QED
    BY <1>2, <1>8, <2>1, <2>2, <2>3, <2>4, <2>5, <2>6, SMTT(30) DEF DataTokens
<1>14. HeaderBits'
  <2>1. HeaderBits
    OBVIOUS
  <2> HIDE DEF IInv
  <2> QED
    BY <1>2, <1>7, <1>11, <2>1, SMTT(30) DEF HeaderBits
<1>15. DataBits'
  <2>1. DataBits
    OBVIOUS
  <2> HIDE DEF IInv
  <2> QED
    BY <1>1, <1>2, <1>3, <1>7, <1>10, <1>11, <2>1, SMTT(30) DEF DataBits
<1>16. Fields'
  <2>1. \A u \in Threads : Begun(u, 1)' => Begun(u, 1) /\ 1 \in Items(u)
    <3>1. \A u \in Threads : Begun(u, 1)' => Begun(u, 1) /\ pc[u] \in WalkSteps
      BY <1>4 DEF Begun, WalkSteps
    <3> QED
      BY <3>1, WalkItem
  <2>2. Fields
    OBVIOUS
  <2> HIDE DEF IInv
  <2> QED
    BY <1>2, <1>8, <1>11, <2>1, <2>2, SMTT(30) DEF Fields
<1>17. PhaseCover("HeaderReady")' /\ PhaseCover("DataReady")'
  <2>1. \A u \in Threads : pc[u] = "phases" =>
          pc'[u] = "phases" /\ Block(u, 1)' = Block(u, 1) /\ ready'[u] = ready[u]
    BY <1>1, <1>2, <1>4, <1>5 DEF Block
  <2>2. ASSUME NEW r \in {"HeaderReady", "DataReady"}, PhaseCover(r) PROVE PhaseCover(r)'
    <3>1. PhaseCover("HeaderReady") /\ PhaseCover("DataReady")
      OBVIOUS
    <3> HIDE DEF IInv
    <3> QED
      BY <1>2, <1>11, <2>1, <2>2, <3>1, SMTT(30) DEF PhaseCover
  <2> QED
    BY <2>2
<1>18. HeaderCover'
  <2>1. HeaderCover
    OBVIOUS
  <2> HIDE DEF IInv
  <2> QED
    BY <1>2, <1>7, <1>8, <1>11, <2>1, SMTT(30) DEF HeaderCover
<1>19. ParentCover'
  <2>1. ASSUME NEW c \in Blocks \ Loaded, Linked(c), "DataReady" \in phases[Parent[c]]
        PROVE  \/ "ParentDataReady" \in flags'[c]
               \/ \E u \in Threads : \E i \in Items(u) : Unmet(u, i)' /\ Block(u, i) = c
    <3>1. CASE "ParentDataReady" \in flags[c]
      BY <1>3, <3>1
    <3>2. CASE "ParentDataReady" \notin flags[c]
      <4>1. PICK u \in Threads : \E i \in Items(u) : Unmet(u, i) /\ Block(u, i) = c
        BY <2>1, <3>2 DEF ParentCover
      <4>2. PICK i \in Items(u) : Unmet(u, i) /\ Block(u, i) = c
        BY <4>1
      <4>3. CASE u = t /\ i = 1
        BY <1>1, <1>3, <1>9, <4>2, <4>3 DEF b
      <4>4. CASE u # t \/ i # 1
        BY <1>8, <4>2, <4>4
      <4> QED
        BY <4>3, <4>4
    <3> QED
      BY <3>1, <3>2
  <2>2. ParentCover
    OBVIOUS
  <2> HIDE DEF IInv
  <2> QED
    BY <1>2, <1>7, <1>8, <2>1, <2>2, SMTT(30) DEF ParentCover
<1>20. DataCover'
  <2>1. \A c \in Blocks : Valid(c)' <=> Valid(c)
    BY <1>11 DEF Valid
  <2>2. ASSUME NEW c \in Blocks \ Loaded, {"DataDone", "ParentDataReady"} \subseteq flags'[c]
        PROVE  \/ "DataReady" \in flags'[c]
               \/ ~Valid(c)' \/ ~Valid(Parent[c])'
               \/ \E u \in Threads : \E i \in Items(u) : DataToken(u, i)' /\ Block(u, i) = c
    <3>1. CASE c = b /\ P
      BY <1>1, <1>9, <1>11, <2>2, <3>1 DEF b
    <3>2. CASE ~(c = b /\ P)
      <4>1. {"DataDone", "ParentDataReady"} \subseteq flags[c] /\ Parent[c] \in Blocks
        BY <1>1, <1>3, <2>2, <3>2, Tree
      <4>2. \/ "DataReady" \in flags[c]
            \/ ~Valid(c) \/ ~Valid(Parent[c])
            \/ \E u \in Threads : \E i \in Items(u) : DataToken(u, i) /\ Block(u, i) = c
        BY <4>1 DEF DataCover
      <4>3. \A u \in Threads : \A i \in Items(u) : DataToken(u, i) => DataToken(u, i)'
        BY <1>8, <1>9
      <4> QED
        BY <1>11, <2>1, <4>1, <4>2, <4>3
    <3> QED
      BY <3>1, <3>2
  <2> HIDE DEF IInv
  <2> QED
    BY <1>8, <2>2, SMTT(30) DEF DataCover
<1>21. NotifyCover'
  <2>1. \A c \in Blocks : Ready(c)' <=> Ready(c)
    BY <1>11 DEF Ready
  <2>2. notified \subseteq Blocks /\ \A u \in Threads : best[u] # NoBlock => best[u] \in Blocks
    BY DEF TypeOK
  <2> QED
    BY <1>1, <1>2, <1>4, <2>1, <2>2 DEF NotifyCover
<1> QED
  BY <1>6, <1>7, <1>12, <1>13, <1>14, <1>15, <1>16, <1>17, <1>18, <1>19, <1>20, <1>21

\* notifyReady at the end of a walk moves its best block into the set of notified
\* blocks, and leaves the index and every token alone.
LEMMA NotifyReadyInv ==
  ASSUME IInv, NEW t \in Threads, NotifyReady(t)
  PROVE  IInv'
<1> USE DEF IInv
<1>1. /\ UNCHANGED <<flags, prev, height, chainWork, successors, phases, call, withData, queue, ready>>
      /\ pc' = [pc EXCEPT ![t] = "idle"] /\ best' = [best EXCEPT ![t] = NoBlock]
      /\ notified' = notified \cup ({best[t]} \ {NoBlock})
      /\ pc[t] = "notify"
  BY DEF NotifyReady, Goto, index
<1>2. /\ pc'[t] = "idle" /\ best'[t] = NoBlock
      /\ \A u \in Threads \ {t} : pc'[u] = pc[u] /\ best'[u] = best[u] /\ ready'[u] = ready[u]
  <2>1. TypeOK
    OBVIOUS
  <2> HIDE DEF IInv
  <2> QED
    BY <1>1, <2>1, SMTT(30) DEF TypeOK
<1>3. queue[t] = <<>> /\ Items(t) = {}
  <2>1. queue[t] = <<>>
    BY <1>1 DEF Control, WalkSteps
  <2> QED
    BY <2>1, SMTT(30) DEF Items
<1>4. TypeOK'
  <2>1. pc' \in [Threads -> WalkSteps \cup {"idle", "elect", "write", "done", "link", "data", "notify"}]
    <3>1. TypeOK
      OBVIOUS
    <3> HIDE DEF IInv
    <3> QED
      BY <1>1, <3>1, SMTT(30) DEF TypeOK, WalkSteps
  <2>2. best' \in [Threads -> Blocks \cup {NoBlock}]
    <3>1. TypeOK
      OBVIOUS
    <3> HIDE DEF IInv
    <3> QED
      BY <1>1, <3>1, SMTT(30) DEF TypeOK
  <2>3. notified' \subseteq Blocks
    <3>1. TypeOK
      OBVIOUS
    <3> HIDE DEF IInv
    <3> QED
      BY <1>1, <3>1, SMTT(30) DEF TypeOK
  <2> QED
    BY <1>1, <2>1, <2>2, <2>3 DEF TypeOK
<1>5. Writers' /\ Lists' /\ \A c : Linked(c)' <=> Linked(c)
  <2>1. \A c : Linked(c)' <=> Linked(c)
    BY <1>1 DEF Linked
  <2>2. \A u \in Threads : pc[u] \in WriteSteps \/ pc'[u] \in WriteSteps => pc'[u] = pc[u]
    BY <1>1, <1>2 DEF WriteSteps
  <2>3. /\ \A b \in Blocks : flags[b] \subseteq flags'[b]
        /\ \A b \in Blocks : \A r \in {"HeaderDone", "DataDone"} : r \in flags'[b] => r \in flags[b]
    BY <1>1
  <2> QED
    BY <1>1, <2>1, <2>2, <2>3, WalkFrame
<1>6. \A u \in Threads :
        /\ Items(u)' = Items(u)
        /\ \A i \in Items(u) :
             /\ Block(u, i) \in Blocks \ Loaded /\ Linked(Block(u, i)) /\ Block(u, i)' = Block(u, i)
             /\ HeaderToken(u, i)' <=> HeaderToken(u, i)
             /\ ParentToken(u, i)' <=> ParentToken(u, i)
             /\ Unmet(u, i)' <=> Unmet(u, i)
             /\ DataToken(u, i)' <=> DataToken(u, i)
             /\ (i = 1 /\ pc'[u] = "phases") <=> (i = 1 /\ pc[u] = "phases")
  <2>1. \A u \in Threads : pc'[u] = "phases" <=> pc[u] = "phases"
    BY <1>1, <1>2
  <2>2. \A u \in Threads : \A i \in Items(u) : u # t
    BY <1>3
  <2> QED
    BY <1>1, <1>2, <2>1, <2>2, StayTokens
<1>7. Control'
  <2>1. \A u \in Threads : /\ HeaderToken(u, 1)' <=> HeaderToken(u, 1)
                           /\ Begun(u, 1)' => Begun(u, 1) /\ u # t
    BY <1>1, <1>2 DEF HeaderToken, Begun
  <2>2. \A u \in Threads : pc'[u] \in WalkSteps <=> queue'[u] # <<>>
    BY <1>1, <1>2, <1>3 DEF Control, WalkSteps
  <2>3. \A u \in Threads : pc'[u] \in {"elect", "data", "write", "done", "link"} => call'[u] \in Blocks \ Loaded
    BY <1>1, <1>2 DEF Control
  <2> QED
    BY <1>1, <2>1, <2>2, <2>3 DEF Control
<1>8. /\ ItemsLinked' /\ HeaderTokens' /\ HeaderBits' /\ DataTokens' /\ DataBits'
      /\ HeaderCover' /\ ParentCover' /\ DataCover'
  <2>1. /\ \A c \in Blocks : \A r \in {"HeaderReady", "DataReady", "DataDone", "ParentDataReady"} :
             r \in flags'[c] <=> r \in flags[c]
        /\ \A c \in Blocks : Valid(c)' => Valid(c)
    BY <1>1 DEF Valid
  <2> QED
    BY <1>1, <1>6, <2>1, SameTokens
<1>9. Fields'
  <2>1. \A u \in Threads : Begun(u, 1)' => Begun(u, 1)
    BY <1>2 DEF Begun
  <2>2. Fields
    OBVIOUS
  <2> HIDE DEF IInv
  <2> QED
    BY <1>1, <2>1, <2>2, SMTT(30) DEF Fields, Block, HeaderToken
<1>10. PhaseCover("HeaderReady")' /\ PhaseCover("DataReady")'
  <2>1. \A u \in Threads : pc[u] = "phases" =>
          pc'[u] = "phases" /\ Block(u, 1)' = Block(u, 1) /\ ready'[u] = ready[u]
    BY <1>1, <1>2 DEF Block
  <2>2. ASSUME NEW r, PhaseCover(r) PROVE PhaseCover(r)'
    BY <1>1, <2>1, <2>2 DEF PhaseCover
  <2> QED
    BY <2>2
<1>11. NotifyCover'
  <2>1. \A c : Ready(c)' <=> Ready(c)
    BY <1>1 DEF Ready
  <2>2. \A c \in notified' : Ready(c)
    BY <1>1 DEF NotifyCover
  <2>3. \A u \in Threads : best'[u] # NoBlock =>
          Ready(best[u]) /\ best'[u] = best[u] /\ pc'[u] \in WalkSteps \cup {"notify"}
    BY <1>2 DEF NotifyCover
  <2>4. ASSUME NEW c \in Blocks \ Loaded, Ready(c)
        PROVE  \/ \E n \in notified' : Total[n] >= Total[c]
               \/ \E u \in Threads : best'[u] # NoBlock /\ Total[best'[u]] >= Total[c]
    <3>1. CASE \E n \in notified : Total[n] >= Total[c]
      BY <1>1, <3>1
    <3>2. CASE \E u \in Threads : best[u] # NoBlock /\ Total[best[u]] >= Total[c]
      <4>1. PICK u \in Threads : best[u] # NoBlock /\ Total[best[u]] >= Total[c]
        BY <3>2
      <4> QED
        BY <1>1, <1>2, <4>1
    <3> QED
      BY <2>4, <3>1, <3>2 DEF NotifyCover
  <2> QED
    BY <1>1, <2>1, <2>2, <2>3, <2>4 DEF NotifyCover, Ready
<1> QED
  BY <1>4, <1>5, <1>7, <1>8, <1>9, <1>10, <1>11

\* The pipeline's Invalid bit takes no Ready bit away and hands out no token; it
\* only excuses a missing DataReady.
LEMMA MarkInvalidInv ==
  ASSUME IInv, NEW b \in Blocks, MarkInvalid(b)
  PROVE  IInv'
<1> USE DEF IInv
<1>1. /\ UNCHANGED <<prev, height, chainWork, successors, phases, pc, call, withData,
                     queue, ready, best, notified>>
      /\ FetchOr(b, {"Invalid"})
  BY DEF MarkInvalid, walk
<1>2. /\ flags' \in [Blocks -> SUBSET BlockFlags]
      /\ \A c \in Blocks : flags[c] \subseteq flags'[c]
      /\ \A c \in Blocks : \A r : r # "Invalid" => (r \in flags'[c] <=> r \in flags[c])
  <2>1. /\ flags' \in [Blocks -> SUBSET BlockFlags]
        /\ flags'[b] = flags[b] \cup {"Invalid"}
        /\ \A c \in Blocks \ {b} : flags'[c] = flags[c]
    BY <1>1, FetchOrBits DEF BlockFlags
  <2> QED
    BY <2>1
<1>3. /\ \A c \in Blocks : \A r \in {"HeaderReady", "DataReady", "DataDone", "ParentDataReady"} :
           r \in flags'[c] <=> r \in flags[c]
      /\ \A c \in Blocks : Valid(c)' => Valid(c)
  BY <1>2 DEF Valid
<1>4. TypeOK'
  BY <1>1, <1>2 DEF TypeOK
<1>5. Writers' /\ Lists' /\ \A c : Linked(c)' <=> Linked(c)
  <2>1. \A c : Linked(c)' <=> Linked(c)
    BY <1>1 DEF Linked
  <2>2. \A u \in Threads : pc[u] \in WriteSteps \/ pc'[u] \in WriteSteps => pc'[u] = pc[u]
    BY <1>1
  <2>3. \A c \in Blocks : \A r \in {"HeaderDone", "DataDone"} : r \in flags'[c] => r \in flags[c]
    BY <1>2
  <2> QED
    BY <1>1, <1>2, <2>1, <2>2, <2>3, WalkFrame
<1>6. \A u \in Threads :
        /\ Items(u)' = Items(u)
        /\ \A i \in Items(u) :
             /\ Block(u, i) \in Blocks \ Loaded /\ Linked(Block(u, i)) /\ Block(u, i)' = Block(u, i)
             /\ HeaderToken(u, i)' <=> HeaderToken(u, i)
             /\ ParentToken(u, i)' <=> ParentToken(u, i)
             /\ Unmet(u, i)' <=> Unmet(u, i)
             /\ DataToken(u, i)' <=> DataToken(u, i)
             /\ (i = 1 /\ pc'[u] = "phases") <=> (i = 1 /\ pc[u] = "phases")
  <2>1. ItemsLinked
    OBVIOUS
  <2> HIDE DEF IInv
  <2> QED
    BY <1>1, <2>1, SMTT(30) DEF ItemsLinked, Items, Block, HeaderToken, ParentToken, Unmet, DataToken, Begun
<1>7. Control'
  BY <1>1 DEF Control, Begun, HeaderToken
<1>8. /\ ItemsLinked' /\ HeaderTokens' /\ HeaderBits' /\ DataTokens' /\ DataBits'
      /\ HeaderCover' /\ ParentCover' /\ DataCover'
  BY <1>1, <1>3, <1>6, SameTokens
<1>9. Fields'
  <2>1. \A c \in Blocks : "HeaderReady" \in flags'[c] <=> "HeaderReady" \in flags[c]
    BY <1>2
  <2>2. Fields
    OBVIOUS
  <2> HIDE DEF IInv
  <2> QED
    BY <1>1, <2>1, <2>2, SMTT(30) DEF Fields, Block, HeaderToken, Begun
<1>10. PhaseCover("HeaderReady")' /\ PhaseCover("DataReady")'
  <2>1. \A u \in Threads : Block(u, 1)' = Block(u, 1)
    BY <1>1 DEF Block
  <2>2. ASSUME NEW r \in {"HeaderReady", "DataReady"}, PhaseCover(r) PROVE PhaseCover(r)'
    <3>1. \A c \in Blocks : r \in flags'[c] <=> r \in flags[c]
      BY <1>2
    <3> QED
      BY <1>1, <2>1, <2>2, <3>1 DEF PhaseCover
  <2> QED
    BY <2>2
<1>11. NotifyCover'
  <2>1. \A c \in Blocks : Ready(c)' <=> Ready(c)
    BY <1>2 DEF Ready
  <2>2. notified \subseteq Blocks /\ \A u \in Threads : best[u] # NoBlock => best[u] \in Blocks
    BY DEF TypeOK
  <2>3. NotifyCover
    OBVIOUS
  <2> HIDE DEF IInv
  <2> QED
    BY <1>1, <2>1, <2>2, <2>3, SMTT(30) DEF NotifyCover, Ready
<1> QED
  BY <1>4, <1>5, <1>7, <1>8, <1>9, <1>10, <1>11

\* The Invalid check keeps the invariant when something is left to publish: at
\* most a DataReady token is dropped, and then the block or its parent is invalid.
LEMMA CheckInvalidKeeps ==
  ASSUME IInv, NEW t \in Threads, pc[t] = "check",
         NEW left, left \subseteq ready[t],
         "HeaderReady" \in ready[t] => "HeaderReady" \in left,
         "DataReady" \in ready[t] /\ "DataReady" \notin left =>
           ~Valid(Block(t, 1)) \/ ~Valid(Parent[Block(t, 1)]),
         ready' = [ready EXCEPT ![t] = left], Goto(t, "publish"),
         UNCHANGED <<flags, prev, height, chainWork, successors, phases, call, withData,
                     queue, best, notified>>
  PROVE  IInv'
<1> USE DEF IInv
<1> DEFINE b == Block(t, 1)
<1>1. /\ 1 \in Items(t) /\ b \in Blocks \ Loaded /\ Parent[b] \in Blocks /\ Linked(b)
      /\ pc[t] \in WalkSteps
  BY WalkItem DEF WalkSteps
<1>2. /\ ready' \in [Threads -> SUBSET SuccessorPhase] /\ ready'[t] = left
      /\ \A u \in Threads \ {t} : ready'[u] = ready[u]
  <2>1. TypeOK
    OBVIOUS
  <2> HIDE DEF IInv
  <2> QED
    BY <2>1, SMTT(30) DEF TypeOK
<1>3. /\ pc' \in [Threads -> WalkSteps \cup {"idle", "elect", "write", "done", "link", "data", "notify"}]
      /\ pc'[t] = "publish" /\ pc'[t] \in WalkSteps
      /\ \A u \in Threads \ {t} : pc'[u] = pc[u]
  <2>1. TypeOK
    OBVIOUS
  <2> HIDE DEF IInv
  <2> QED
    BY <2>1, SMTT(30) DEF TypeOK, Goto, WalkSteps
<1>4. Begun(t, 1) /\ Begun(t, 1)'
  BY <1>3 DEF Begun
<1>5. TypeOK'
  BY <1>2, <1>3 DEF TypeOK
<1>6. Control' /\ Writers' /\ Lists' /\ ItemsLinked' /\ \A c : Linked(c)' <=> Linked(c)
  <2>1. "HeaderReady" \in ready'[t] <=> HeaderToken(t, 1)
    BY <1>2, <1>4 DEF Control
  <2>2. /\ \A c \in Blocks : flags[c] \subseteq flags'[c]
        /\ \A c \in Blocks : \A r \in {"HeaderDone", "DataDone"} : r \in flags'[c] => r \in flags[c]
    OBVIOUS
  <2> QED
    BY <1>1, <1>2, <1>3, <1>4, <2>1, <2>2, StayFrame
<1>7. \A u \in Threads :
        /\ Items(u)' = Items(u)
        /\ \A i \in Items(u) :
             /\ Block(u, i) \in Blocks \ Loaded /\ Linked(Block(u, i)) /\ Block(u, i)' = Block(u, i)
             /\ HeaderToken(u, i)' <=> HeaderToken(u, i)
             /\ ParentToken(u, i)' <=> ParentToken(u, i)
             /\ Unmet(u, i)' <=> Unmet(u, i)
             /\ DataToken(u, i)' => DataToken(u, i)
             /\ u # t \/ i # 1 => (DataToken(u, i)' <=> DataToken(u, i))
             /\ (i = 1 /\ pc'[u] = "phases") <=> (i = 1 /\ pc[u] = "phases")
  <2>1. /\ Unmet(t, 1)' <=> Unmet(t, 1)
        /\ DataToken(t, 1)' => DataToken(t, 1)
    BY <1>2, <1>3, <1>4 DEF Unmet, DataToken
  <2>2. \A u \in Threads : pc'[u] = "phases" <=> pc[u] = "phases"
    BY <1>3
  <2>3. \A u \in Threads \ {t} : pc'[u] = pc[u] /\ ready'[u] = ready[u]
    BY <1>2, <1>3
  <2>4. \A u \in Threads :
          /\ Items(u)' = Items(u)
          /\ \A i \in Items(u) :
               /\ Block(u, i) \in Blocks \ Loaded /\ Linked(Block(u, i)) /\ Block(u, i)' = Block(u, i)
               /\ HeaderToken(u, i)' <=> HeaderToken(u, i)
               /\ ParentToken(u, i)' <=> ParentToken(u, i)
               /\ u # t \/ i # 1 => /\ Unmet(u, i)' <=> Unmet(u, i)
                                    /\ DataToken(u, i)' <=> DataToken(u, i)
    BY <2>3, StayTokens
  <2> QED
    BY <2>1, <2>2, <2>4
<1>8. /\ HeaderTokens' /\ HeaderBits' /\ DataTokens' /\ DataBits'
      /\ HeaderCover' /\ ParentCover'
  BY <1>7, FewerTokens
<1>9. Fields'
  <2>1. \A u \in Threads : /\ Begun(u, 1)' => Begun(u, 1)
                           /\ HeaderToken(u, 1)' <=> HeaderToken(u, 1)
                           /\ Block(u, 1)' = Block(u, 1)
    BY <1>3, <1>4 DEF Begun, HeaderToken, Block
  <2>2. \A c \in Blocks : "HeaderReady" \in flags'[c] => height[c] = Depth[c] /\ chainWork[c] = Total[c]
    BY DEF Fields
  <2>3. \A u \in Threads : Begun(u, 1)' /\ HeaderToken(u, 1)' =>
          height[Block(u, 1)'] = Depth[Block(u, 1)'] /\ chainWork[Block(u, 1)'] = Total[Block(u, 1)']
    BY <2>1 DEF Fields
  <2> QED
    BY <2>2, <2>3 DEF Fields
<1>10. PhaseCover("HeaderReady")' /\ PhaseCover("DataReady")'
  <2>1. \A u \in Threads : pc[u] = "phases" =>
          pc'[u] = "phases" /\ Block(u, 1)' = Block(u, 1) /\ ready'[u] = ready[u]
    BY <1>2, <1>3 DEF Block
  <2>2. ASSUME NEW r, PhaseCover(r) PROVE PhaseCover(r)'
    BY <2>1, <2>2, PhaseStays
  <2> QED
    BY <2>2
<1>11. DataCover'
  <2>1. DataToken(t, 1) /\ ~DataToken(t, 1)' => ~Valid(b) \/ ~Valid(Parent[b])
    BY <1>2, <1>4 DEF DataToken
  <2>2. ASSUME NEW c \in Blocks \ Loaded, {"DataDone", "ParentDataReady"} \subseteq flags[c]
        PROVE  \/ "DataReady" \in flags[c]
               \/ ~Valid(c) \/ ~Valid(Parent[c])
               \/ \E u \in Threads : \E i \in Items(u) : DataToken(u, i)' /\ Block(u, i) = c
    <3>1. CASE \E u \in Threads : \E i \in Items(u) : DataToken(u, i) /\ Block(u, i) = c
      <4>1. PICK u \in Threads : \E i \in Items(u) : DataToken(u, i) /\ Block(u, i) = c
        BY <3>1
      <4>2. PICK i \in Items(u) : DataToken(u, i) /\ Block(u, i) = c
        BY <4>1
      <4> QED
        BY <1>7, <2>1, <4>2
    <3> QED
      BY <2>2, <3>1 DEF DataCover
  <2>3. \A c : Valid(c)' <=> Valid(c)
    BY DEF Valid
  <2> HIDE DEF IInv
  <2> QED
    BY <1>7, <2>2, <2>3, SMTT(30) DEF DataCover
<1>12. NotifyCover'
  BY <1>1, <1>3 DEF NotifyCover, Ready
<1> QED
  BY <1>5, <1>6, <1>8, <1>9, <1>10, <1>11, <1>12
=============================================================================
