-------------------------- MODULE BlockIndexLemmas --------------------------
(***************************************************************************)
(* The inductive invariant behind the safety properties of BlockIndex, and *)
(* the steps of addHeader and addBlock that keep it.                       *)
(*                                                                         *)
(* Every event in a thread's queue is a token: it is handed out once,      *)
(* carried by one thread, and spent by the step that publishes the bit it  *)
(* stands for.  The invariant says where a token can be, that no two       *)
(* threads hold the same one, and that a bit still missing has a holder.   *)
(***************************************************************************)
EXTENDS BlockIndex, TLAPS

Items(t) == 1..Len(queue[t])
Block(t, i) == queue[t][i].block

\* The item at the head of the queue after its first step
Begun(t, i) == i = 1 /\ pc[t] \in {"meet", "check", "publish", "phases"}

\* The successor list of its parent contains the block.
Linked(c) == \E i \in 1..Len(successors[Parent[c]]) : successors[Parent[c]][i] = c

\* Thread t is to publish, or is publishing, HeaderReady of the block of item i.
HeaderToken(t, i) == "BuildHeader" \in queue[t][i].events

\* Thread t tells the block of item i that its parent's data is ready.
ParentToken(t, i) == "ParentDataReady" \in queue[t][i].events
Unmet(t, i) == ParentToken(t, i) /\ (i # 1 \/ pc[t] \in {"item", "meet"})

\* Thread t has been elected to publish DataReady of the block of item i.
DataToken(t, i) ==
  IF Begun(t, i) THEN "DataReady" \in ready[t]
                 ELSE "PublishDataReady" \in queue[t][i].events

HeaderWriter(t) == pc[t] \in {"write", "done", "link"}
DataWriter(t) == pc[t] \in {"elect", "data"} \/ (pc[t] \in {"write", "done"} /\ withData[t])

-----------------------------------------------------------------------------

\* The control of one thread
Control ==
  \A t \in Threads :
    /\ pc[t] \in WalkSteps <=> queue[t] # <<>>
    /\ pc[t] \in {"elect", "data", "write", "done", "link"} => call[t] \in Blocks \ Loaded
    /\ Begun(t, 1) => ("HeaderReady" \in ready[t] <=> HeaderToken(t, 1))

\* The write of Header and Prev, and that of the data, have one owner each.
Writers ==
  /\ \A t \in Threads :
       /\ HeaderWriter(t) =>
            /\ "HeaderWriteStarted" \in flags[call[t]]
            /\ "HeaderDone" \in flags[call[t]] <=> pc[t] = "link"
            /\ pc[t] # "write" => prev[call[t]] = Parent[call[t]]
            /\ ~Linked(call[t])
       /\ DataWriter(t) =>
            /\ "DataWriteStarted" \in flags[call[t]]
            /\ "DataDone" \notin flags[call[t]]
  /\ \A t, u \in Threads : t # u =>
       /\ HeaderWriter(t) /\ HeaderWriter(u) => call[t] # call[u]
       /\ DataWriter(t) /\ DataWriter(u) => call[t] # call[u]
  /\ \A b \in Blocks :
       /\ "HeaderDone" \in flags[b] =>
            /\ "HeaderWriteStarted" \in flags[b]
            /\ b # Genesis => prev[b] = Parent[b]
       /\ "DataDone" \in flags[b] => "DataWriteStarted" \in flags[b]
       /\ b \in Loaded => LoadedFlags \subseteq flags[b] /\ SuccessorPhase \subseteq phases[b]

\* A list holds published children, each once; only a linker is missing from one.
Lists ==
  /\ \A p \in Blocks : \A i, j \in 1..Len(successors[p]) :
       /\ successors[p][i] \in Blocks \ Loaded
       /\ Parent[successors[p][i]] = p
       /\ "HeaderDone" \in flags[successors[p][i]]
       /\ successors[p][i] = successors[p][j] => i = j
  /\ \A b \in Blocks \ Loaded :
       "HeaderDone" \in flags[b] =>
         Linked(b) \/ \E t \in Threads : pc[t] = "link" /\ call[t] = b

\* Every queue item is about a block some list holds.
ItemsLinked ==
  \A t \in Threads : \A i \in Items(t) : Block(t, i) \in Blocks \ Loaded /\ Linked(Block(t, i))

HeaderTokens ==
  /\ \A t \in Threads : \A i \in Items(t) : HeaderToken(t, i) =>
       /\ "HeaderReady" \in phases[Parent[Block(t, i)]]
       /\ "HeaderReady" \notin phases[Block(t, i)]
       /\ "HeaderReady" \in flags[Block(t, i)] <=> i = 1 /\ pc[t] = "phases"
  /\ \A t, u \in Threads : \A i \in Items(t), j \in Items(u) :
       HeaderToken(t, i) /\ HeaderToken(u, j) /\ Block(t, i) = Block(u, j) => t = u /\ i = j

HeaderBits ==
  \A b \in Blocks :
    /\ "HeaderReady" \in phases[b] => "HeaderReady" \in flags[b]
    /\ "HeaderReady" \in flags[b] /\ b \notin Loaded =>
         Linked(b) /\ "HeaderReady" \in phases[Parent[b]]

\* Height and ChainWork, from the step that writes them on
Fields ==
  /\ \A b \in Blocks : "HeaderReady" \in flags[b] => height[b] = Depth[b] /\ chainWork[b] = Total[b]
  /\ \A t \in Threads : Begun(t, 1) /\ HeaderToken(t, 1) =>
       height[Block(t, 1)] = Depth[Block(t, 1)] /\ chainWork[Block(t, 1)] = Total[Block(t, 1)]

DataTokens ==
  /\ \A t \in Threads : \A i \in Items(t) : ParentToken(t, i) =>
       /\ "DataReady" \in phases[Parent[Block(t, i)]]
       /\ Unmet(t, i) => "ParentDataReady" \notin flags[Block(t, i)]
  /\ \A t, u \in Threads : \A i \in Items(t), j \in Items(u) :
       ParentToken(t, i) /\ ParentToken(u, j) /\ Block(t, i) = Block(u, j) => t = u /\ i = j
  /\ \A t \in Threads : \A i \in Items(t) : DataToken(t, i) =>
       /\ {"DataDone", "ParentDataReady"} \subseteq flags[Block(t, i)]
       /\ "DataReady" \in flags[Block(t, i)] <=> i = 1 /\ pc[t] = "phases"
       /\ "DataReady" \notin phases[Block(t, i)]
  /\ \A t, u \in Threads : \A i \in Items(t), j \in Items(u) :
       DataToken(t, i) /\ DataToken(u, j) /\ Block(t, i) = Block(u, j) => t = u /\ i = j

DataBits ==
  \A b \in Blocks :
    /\ "DataReady" \in phases[b] => "DataReady" \in flags[b]
    /\ "DataReady" \in flags[b] => {"DataDone", "ParentDataReady"} \subseteq flags[b]
    /\ "ParentDataReady" \in flags[b] /\ b \notin Loaded =>
         Linked(b) /\ "DataReady" \in phases[Parent[b]]

\* What has not been handed on yet has a thread that will hand it on: a Ready bit
\* to the children, ...
PhaseCover(r) ==
  \A b \in Blocks : r \in flags[b] \ phases[b] =>
    \E t \in Threads : pc[t] = "phases" /\ Block(t, 1) = b /\ r \in ready[t]

\* ... the parent's phases to a block on its list, ...
HeaderCover ==
  \A b \in Blocks \ Loaded : Linked(b) /\ "HeaderReady" \in phases[Parent[b]] =>
    \/ "HeaderReady" \in flags[b]
    \/ \E t \in Threads : \E i \in Items(t) : HeaderToken(t, i) /\ Block(t, i) = b

ParentCover ==
  \A b \in Blocks \ Loaded : Linked(b) /\ "DataReady" \in phases[Parent[b]] =>
    \/ "ParentDataReady" \in flags[b]
    \/ \E t \in Threads : \E i \in Items(t) : Unmet(t, i) /\ Block(t, i) = b

\* ... and a block's data to those who wait for DataReady.
DataCover ==
  \A b \in Blocks \ Loaded : {"DataDone", "ParentDataReady"} \subseteq flags[b] =>
    \/ "DataReady" \in flags[b]
    \/ ~Valid(b) \/ ~Valid(Parent[b])
    \/ \E t \in Threads : \E i \in Items(t) : DataToken(t, i) /\ Block(t, i) = b

\* A ready block was notified, or a walk that holds one as heavy will do it.
NotifyCover ==
  /\ \A b \in notified : Ready(b)
  /\ \A t \in Threads : best[t] # NoBlock =>
       Ready(best[t]) /\ pc[t] \in WalkSteps \cup {"notify"}
  /\ \A b \in Blocks \ Loaded : Ready(b) =>
       \/ \E n \in notified : Total[n] >= Total[b]
       \/ \E t \in Threads : best[t] # NoBlock /\ Total[best[t]] >= Total[b]

IInv ==
  /\ TypeOK /\ Control /\ Writers /\ Lists /\ ItemsLinked
  /\ HeaderTokens /\ HeaderBits /\ Fields
  /\ DataTokens /\ DataBits
  /\ PhaseCover("HeaderReady") /\ PhaseCover("DataReady")
  /\ HeaderCover /\ ParentCover /\ DataCover /\ NotifyCover

-----------------------------------------------------------------------------
(* IInv holds initially and is kept by the steps of addHeader and addBlock *)
(* up to the one that links the block or publishes its data.               *)

USE ZenonT(30)

WriteSteps == {"elect", "write", "done", "link", "data"}

\* What the loader leaves behind satisfies the invariant: no thread holds a token.
LEMMA InitInv == Init => IInv
<1> SUFFICES ASSUME Init PROVE IInv
  OBVIOUS
<1>1. /\ Genesis \in Loaded /\ Loaded \subseteq Blocks /\ NoBlock \notin Blocks
      /\ \A b \in Blocks \ {Genesis} : Parent[b] \in Blocks
  BY BlockTree, LoadedTree
<1>2. TypeOK
  BY BlockTree, <1>1, SMTT(30) DEF Init, TypeOK, LoadedFlags, BlockFlags, SuccessorPhase, UnknownHeight, WalkSteps
<1>3. \A t \in Threads : queue[t] = <<>> /\ Items(t) = {} /\ pc[t] = "idle" /\ best[t] = NoBlock
  BY SMTT(30) DEF Init, Items
<1>4. \A b \in Blocks : Len(successors[b]) = 0
  BY DEF Init
<1>5. Control
  BY <1>3 DEF Control, Begun, WalkSteps
<1>6. Writers
  BY <1>1, <1>3, BlockTree DEF Init, Writers, HeaderWriter, DataWriter, LoadedFlags, BlockFlags
<1>7. Lists
  BY <1>4, SMTT(30) DEF Init, Lists
<1>8. ItemsLinked /\ HeaderTokens /\ DataTokens
  BY <1>3 DEF ItemsLinked, HeaderTokens, DataTokens
<1>9. HeaderBits /\ DataBits
  <2>1. \A b \in Blocks \ Loaded : flags[b] = {} /\ phases[b] = {}
    BY DEF Init
  <2>2. \A b \in Loaded : flags[b] = LoadedFlags
    BY <1>1 DEF Init
  <2> QED
    BY <2>1, <2>2 DEF HeaderBits, DataBits, LoadedFlags, BlockFlags
<1>10. Fields
  BY <1>3 DEF Init, Fields, Begun
<1>11. PhaseCover("HeaderReady") /\ PhaseCover("DataReady") /\ HeaderCover /\ ParentCover /\ DataCover
  <2>1. \A b \in Blocks \ Loaded : flags[b] = {} /\ phases[b] = {} /\ ~Linked(b)
    <3> TAKE b \in Blocks \ Loaded
    <3>1. Len(successors[Parent[b]]) = 0
      BY <1>1, <1>4
    <3> QED
      BY <3>1, SMTT(30) DEF Init, Linked
  <2>2. \A b \in Loaded : phases[b] = SuccessorPhase
    BY <1>1 DEF Init
  <2> QED
    BY <1>1, <2>1, <2>2 DEF PhaseCover, HeaderCover, ParentCover, DataCover, SuccessorPhase
<1>12. NotifyCover
  BY <1>3 DEF Init, NotifyCover, Ready
<1> QED
  BY <1>2, <1>5, <1>6, <1>7, <1>8, <1>9, <1>10, <1>11, <1>12 DEF IInv

\* Facts about the tree that the steps below use
LEMMA Tree ==
  /\ Genesis \in Loaded /\ Loaded \subseteq Blocks /\ NoBlock \notin Blocks
  /\ \A b \in Blocks \ Loaded : b # Genesis /\ Parent[b] \in Blocks
  /\ \A b \in Blocks \ {Genesis} : Parent[b] \in Blocks
  BY BlockTree, LoadedTree

(***************************************************************************)
(* What a step inside addHeader or addBlock cannot disturb: it moves a     *)
(* thread that holds no queue item, and it sets no bit that a walk sets.   *)
(***************************************************************************)
LEMMA WriterFrame ==
  ASSUME IInv, NEW t \in Threads,
         pc[t] \notin WalkSteps \cup {"notify"},
         pc'[t] \notin WalkSteps,
         \A u \in Threads \ {t} : pc'[u] = pc[u],
         UNCHANGED <<height, chainWork, successors, phases, queue, ready, best, notified>>,
         \A b \in Blocks : flags[b] \subseteq flags'[b],
         \A b \in Blocks : \A r \in {"HeaderReady", "DataReady", "ParentDataReady", "Invalid"} :
           r \in flags'[b] => r \in flags[b],
         \A b \in Blocks : "DataDone" \in flags'[b] \ flags[b] => "ParentDataReady" \notin flags[b]
  PROVE  /\ ItemsLinked' /\ HeaderTokens' /\ HeaderBits' /\ Fields'
         /\ DataTokens' /\ DataBits' /\ PhaseCover("HeaderReady")' /\ PhaseCover("DataReady")'
         /\ HeaderCover' /\ ParentCover' /\ DataCover' /\ NotifyCover'
<1> USE DEF IInv
<1>1. queue[t] = <<>> /\ Items(t) = {}
  <2>1. Control
    OBVIOUS
  <2> HIDE DEF IInv
  <2> QED
    BY <2>1, SMTT(30) DEF Control, Items
<1>2. \A u \in Threads : Items(u)' = Items(u)
  BY DEF Items
<1>3. \A u \in Threads : \A i \in Items(u) :
        /\ u # t /\ pc'[u] = pc[u] /\ Block(u, i) \in Blocks
        /\ Block(u, i)' = Block(u, i)
        /\ Begun(u, i)' <=> Begun(u, i)
        /\ HeaderToken(u, i)' <=> HeaderToken(u, i)
        /\ ParentToken(u, i)' <=> ParentToken(u, i)
        /\ Unmet(u, i)' <=> Unmet(u, i)
        /\ DataToken(u, i)' <=> DataToken(u, i)
  BY <1>1 DEF Block, Begun, HeaderToken, ParentToken, Unmet, DataToken, ItemsLinked
<1>4. \A b : Linked(b)' <=> Linked(b)
  BY DEF Linked
<1>5. ItemsLinked'
  <2>1. ItemsLinked
    OBVIOUS
  <2> HIDE DEF IInv
  <2> QED
    BY <1>2, <1>3, <1>4, <2>1, SMTT(30) DEF ItemsLinked
<1>6. HeaderTokens'
  <2>1. HeaderTokens
    OBVIOUS
  <2> HIDE DEF IInv
  <2> QED
    BY <1>2, <1>3, <2>1, SMTT(30) DEF HeaderTokens
<1>7. HeaderBits'
  BY <1>4 DEF HeaderBits
<1>8. Fields'
  <2>1. \A u \in Threads : Begun(u, 1)' => 1 \in Items(u) /\ Begun(u, 1)
    <3>1. TypeOK /\ Control
      OBVIOUS
    <3> HIDE DEF IInv
    <3> QED
      BY <3>1, SMTT(30) DEF Begun, Control, Items, WalkSteps, TypeOK
  <2>2. Fields
    OBVIOUS
  <2> HIDE DEF IInv
  <2> QED
    BY <2>1, <1>3, <2>2, SMTT(30) DEF Fields
<1>9. DataTokens'
  <2>1. DataTokens
    OBVIOUS
  <2> HIDE DEF IInv
  <2> QED
    BY <1>2, <1>3, <2>1, SMTT(30) DEF DataTokens
<1>10. DataBits'
  BY <1>4 DEF DataBits
<1>11. \A u \in Threads : pc[u] = "phases" =>
         pc'[u] = "phases" /\ Block(u, 1)' = Block(u, 1)
  BY DEF WalkSteps, Block
<1>12. PhaseCover("HeaderReady")' /\ PhaseCover("DataReady")' /\ HeaderCover' /\ ParentCover'
  <2>1. PhaseCover("HeaderReady") /\ PhaseCover("DataReady") /\ HeaderCover /\ ParentCover
    OBVIOUS
  <2> HIDE DEF IInv
  <2> QED
    BY <1>2, <1>3, <1>4, <1>11, <2>1, SMTT(30) DEF PhaseCover, HeaderCover, ParentCover
<1>13. DataCover'
  <2>1. \A b \in Blocks : Valid(b)' <=> Valid(b)
    BY DEF Valid
  <2>2. \A b \in Blocks \ Loaded : {"DataDone", "ParentDataReady"} \subseteq flags'[b] =>
          {"DataDone", "ParentDataReady"} \subseteq flags[b]
    OBVIOUS
  <2>3. DataCover
    OBVIOUS
  <2> HIDE DEF IInv
  <2> QED
    BY <1>2, <1>3, <2>1, <2>2, Tree, <2>3, SMTT(30) DEF DataCover
<1>14. NotifyCover'
  <2>1. \A b \in Blocks : Ready(b)' <=> Ready(b)
    BY DEF Ready
  <2> QED
    BY <2>1 DEF NotifyCover, TypeOK
<1> QED
  BY <1>5, <1>6, <1>7, <1>8, <1>9, <1>10, <1>12, <1>13, <1>14

\* What a step that moves no thread inside addHeader or addBlock leaves alone
LEMMA WalkFrame ==
  ASSUME IInv, UNCHANGED <<prev, successors, call, withData>>,
         \A u \in Threads : pc[u] \in WriteSteps \/ pc'[u] \in WriteSteps => pc'[u] = pc[u],
         \A b \in Blocks : flags[b] \subseteq flags'[b] /\ phases[b] \subseteq phases'[b],
         \A b \in Blocks : \A r \in {"HeaderDone", "DataDone"} : r \in flags'[b] => r \in flags[b]
  PROVE  Writers' /\ Lists'
<1> USE DEF IInv
<1>1. \A c : Linked(c)' <=> Linked(c)
  BY DEF Linked
<1>2. \A u \in Threads :
        /\ HeaderWriter(u)' => HeaderWriter(u) /\ pc'[u] = pc[u] /\ call[u] \in Blocks
        /\ DataWriter(u)' => DataWriter(u) /\ call[u] \in Blocks
  BY DEF HeaderWriter, DataWriter, WriteSteps, Control
<1>3. Writers'
  <2>1. \A u \in Threads : HeaderWriter(u)' =>
          /\ "HeaderWriteStarted" \in flags'[call[u]]
          /\ "HeaderDone" \in flags'[call[u]] <=> pc'[u] = "link"
          /\ pc'[u] # "write" => prev[call[u]] = Parent[call[u]]
          /\ ~Linked(call[u])'
    BY <1>1, <1>2 DEF Writers
  <2>2. \A u \in Threads : DataWriter(u)' =>
            /\ "DataWriteStarted" \in flags'[call[u]]
            /\ "DataDone" \notin flags'[call[u]]
    BY <1>2 DEF Writers
  <2>3. \A b \in Blocks :
          /\ "HeaderDone" \in flags'[b] =>
               /\ "HeaderWriteStarted" \in flags'[b]
               /\ b # Genesis => prev[b] = Parent[b]
          /\ "DataDone" \in flags'[b] => "DataWriteStarted" \in flags'[b]
          /\ b \in Loaded => LoadedFlags \subseteq flags'[b] /\ SuccessorPhase \subseteq phases'[b]
    BY DEF Writers
  <2>4. \A u, v \in Threads : u # v =>
          /\ HeaderWriter(u)' /\ HeaderWriter(v)' => call[u] # call[v]
          /\ DataWriter(u)' /\ DataWriter(v)' => call[u] # call[v]
    BY <1>2 DEF Writers
  <2> QED
    BY <1>1, <2>1, <2>2, <2>3, <2>4 DEF Writers
<1>4. Lists'
  <2>1. \A c \in Blocks : "HeaderDone" \in flags'[c] <=> "HeaderDone" \in flags[c]
    OBVIOUS
  <2>2. \A u \in Threads : pc[u] = "link" => pc'[u] = "link"
    BY DEF WriteSteps
  <2>3. Lists
    OBVIOUS
  <2> HIDE DEF IInv
  <2> QED
    BY <1>1, <2>1, <2>2, <2>3, SMTT(30) DEF Lists
<1> QED
  BY <1>3, <1>4

\* A fetch_or on the Flags word of one block, as its readers see it
LEMMA FetchOrBits ==
  ASSUME TypeOK, NEW b \in Blocks, NEW bits, FetchOr(b, bits), bits \subseteq BlockFlags
  PROVE  /\ flags' \in [Blocks -> SUBSET BlockFlags]
         /\ flags'[b] = flags[b] \cup bits
         /\ \A c \in Blocks \ {b} : flags'[c] = flags[c]
         /\ \A c \in Blocks : flags[c] \subseteq flags'[c]
         /\ \A c \in Blocks : flags'[c] \subseteq flags[c] \cup bits
BY DEF TypeOK, FetchOr

\* The start of addHeader keeps the invariant: it elects one writer of the header.
LEMMA AddHeaderInv ==
  ASSUME IInv, NEW t \in Threads, NEW b \in Blocks, AddHeader(t, b)
  PROVE  IInv'
<1> USE DEF IInv
<1>1. /\ flags' \in [Blocks -> SUBSET BlockFlags]
      /\ flags'[b] = flags[b] \cup {"HeaderWriteStarted", "WorkChecked"}
      /\ \A c \in Blocks \ {b} : flags'[c] = flags[c]
  BY FetchOrBits DEF AddHeader, BlockFlags
<1>2. /\ UNCHANGED <<prev, height, chainWork, successors, phases, queue, ready, best, notified>>
      /\ pc[t] = "idle"
  BY DEF AddHeader, walk
<1>3. \/ "HeaderWriteStarted" \in flags[b] /\ UNCHANGED <<pc, call, withData>>
      \/ /\ "HeaderWriteStarted" \notin flags[b] /\ b \notin Loaded
         /\ pc' = [pc EXCEPT ![t] = "write"]
         /\ call' = [call EXCEPT ![t] = b]
         /\ withData' = [withData EXCEPT ![t] = FALSE]
  BY DEF AddHeader, Goto, Writers, LoadedFlags, BlockFlags
<1>4. TypeOK'
  <2>1. withData' \in [Threads -> BOOLEAN]
    BY <1>3, Zenon DEF TypeOK
  <2>2. pc' \in [Threads -> WalkSteps \cup {"idle", "elect", "write", "done", "link", "data", "notify"}]
    BY <1>3 DEF TypeOK
  <2>3. call' \in [Threads -> Blocks \cup {NoBlock}]
    BY <1>3 DEF TypeOK
  <2> QED
    BY <1>1, <1>2, <2>1, <2>2, <2>3 DEF TypeOK
<1>5. /\ pc'[t] \in {"idle", "write"} /\ \A u \in Threads \ {t} : pc'[u] = pc[u] /\ call'[u] = call[u]
      /\ \A u \in Threads \ {t} : withData'[u] = withData[u]
  BY <1>2, <1>3 DEF TypeOK
<1>6. /\ \A c \in Blocks : flags[c] \subseteq flags'[c]
      /\ \A c \in Blocks : flags'[c] \subseteq flags[c] \cup {"HeaderWriteStarted", "WorkChecked"}
  BY <1>1 DEF TypeOK
<1>7. Control'
  BY <1>2, <1>3, <1>5, <1>4 DEF Control, Begun, HeaderToken, WalkSteps, TypeOK
<1>8. \A c : Linked(c)' <=> Linked(c)
  BY <1>2 DEF Linked
<1>9. Writers'
  <2>1. CASE UNCHANGED <<pc, call, withData>>
    BY <2>1, <1>2, <1>6, WalkFrame
  <2>2. CASE /\ "HeaderWriteStarted" \notin flags[b] /\ b \notin Loaded
             /\ pc'[t] = "write" /\ call'[t] = b /\ withData'[t] = FALSE
    <3>1. ~Linked(b) /\ "HeaderDone" \notin flags[b]
      BY <2>2, Tree DEF Writers, Linked, Lists
    <3>2. \A u \in Threads \ {t} : HeaderWriter(u) => call[u] \in Blocks /\ call[u] # b
      BY <2>2 DEF Writers, HeaderWriter, Control
    <3>3. \A u \in Threads \ {t} : DataWriter(u) => call[u] \in Blocks
      BY DEF DataWriter, Control
    <3>4. HeaderWriter(t)' /\ ~DataWriter(t)' /\ "HeaderWriteStarted" \in flags'[b]
      BY <2>2, <1>1 DEF HeaderWriter, DataWriter, TypeOK
    <3>5. \A u \in Threads \ {t} : (HeaderWriter(u)' <=> HeaderWriter(u)) /\ (DataWriter(u)' <=> DataWriter(u))
      BY <1>5 DEF HeaderWriter, DataWriter
    <3>6. Writers
      OBVIOUS
    <3> HIDE DEF IInv
    <3> QED
      BY <1>2, <1>5, <1>6, <1>8, <2>2, <3>1, <3>2, <3>3, <3>4, <3>5, <3>6, SMTT(30) DEF Writers
  <2> QED
    BY <1>3, <2>1, <2>2 DEF TypeOK
<1>10. Lists'
  <2>1. \A c \in Blocks : "HeaderDone" \in flags'[c] <=> "HeaderDone" \in flags[c]
    BY <1>6
  <2>2. \A u \in Threads : pc[u] = "link" => pc'[u] = "link" /\ call'[u] = call[u]
    BY <1>2, <1>5
  <2>3. Lists
    OBVIOUS
  <2> HIDE DEF IInv
  <2> QED
    BY <1>2, <1>8, <2>1, <2>2, <2>3, SMTT(30) DEF Lists
<1> QED
  BY <1>2, <1>4, <1>5, <1>6, <1>7, <1>9, <1>10, WriterFrame DEF WalkSteps

\* A thread in the steps of addHeader and addBlock is about a block of the index.
LEMMA WriterCalls ==
  ASSUME IInv, NEW u \in Threads
  PROVE  /\ HeaderWriter(u) => call[u] \in Blocks \ Loaded
         /\ DataWriter(u) => call[u] \in Blocks \ Loaded
BY DEF IInv, Control, HeaderWriter, DataWriter

\* The start of addBlock keeps the invariant: it elects one writer of the data.
LEMMA AddBlockInv ==
  ASSUME IInv, NEW t \in Threads, NEW b \in Blocks, AddBlock(t, b)
  PROVE  IInv'
<1> USE DEF IInv
<1>1. /\ flags' \in [Blocks -> SUBSET BlockFlags]
      /\ flags'[b] = flags[b] \cup {"DataWriteStarted"}
      /\ \A c \in Blocks \ {b} : flags'[c] = flags[c]
  BY FetchOrBits DEF AddBlock, BlockFlags
<1>2. /\ UNCHANGED <<prev, height, chainWork, successors, phases, queue, ready, best, notified>>
      /\ pc[t] = "idle" /\ pc' = [pc EXCEPT ![t] = "elect"]
      /\ call' = [call EXCEPT ![t] = b]
      /\ withData' = [withData EXCEPT ![t] = TRUE]
      /\ "DataWriteStarted" \notin flags[b]
  BY DEF AddBlock, walk, Goto
<1>3. b \notin Loaded /\ "DataDone" \notin flags[b]
  BY <1>2 DEF Writers, LoadedFlags, BlockFlags
<1>4. TypeOK'
  <2>1. withData' \in [Threads -> BOOLEAN]
    BY <1>2, Zenon DEF TypeOK
  <2> QED
    BY <1>1, <1>2, <2>1 DEF TypeOK
<1>5. /\ pc'[t] = "elect" /\ call'[t] = b
      /\ \A u \in Threads \ {t} : pc'[u] = pc[u] /\ call'[u] = call[u] /\ withData'[u] = withData[u]
  BY <1>2 DEF TypeOK
<1>6. /\ \A c \in Blocks : flags[c] \subseteq flags'[c]
      /\ \A c \in Blocks : flags'[c] \subseteq flags[c] \cup {"DataWriteStarted"}
  BY <1>1
<1>7. Control'
  BY <1>2, <1>3, <1>5 DEF Control, Begun, HeaderToken, WalkSteps
<1>8. \A c : Linked(c)' <=> Linked(c)
  BY <1>2 DEF Linked
<1>9. Writers'
  <2>1. ~HeaderWriter(t)'
    BY <1>5 DEF HeaderWriter
  <2>2. \A u \in Threads \ {t} : (HeaderWriter(u)' <=> HeaderWriter(u)) /\ (DataWriter(u)' <=> DataWriter(u))
    BY <1>5 DEF HeaderWriter, DataWriter
  <2>3. \A u \in Threads \ {t} : DataWriter(u) => call[u] # b
    BY <1>2 DEF Writers
  <2>4. Writers
    OBVIOUS
  <2> HIDE DEF IInv
  <2> QED
    BY <1>1, <1>2, <1>3, <1>5, <1>6, <1>8, <2>1, <2>2, <2>3, WriterCalls, <2>4, SMTT(30) DEF Writers
<1>10. Lists'
  <2>1. \A c \in Blocks : "HeaderDone" \in flags'[c] <=> "HeaderDone" \in flags[c]
    BY <1>6
  <2>2. \A u \in Threads : pc[u] = "link" => pc'[u] = "link" /\ call'[u] = call[u]
    BY <1>2, <1>5
  <2>3. Lists
    OBVIOUS
  <2> HIDE DEF IInv
  <2> QED
    BY <1>2, <1>8, <2>1, <2>2, <2>3, SMTT(30) DEF Lists
<1> QED
  BY <1>2, <1>4, <1>5, <1>6, <1>7, <1>9, <1>10, WriterFrame DEF WalkSteps

\* The second election of addBlock keeps the invariant.
LEMMA ElectHeaderWriterInv ==
  ASSUME IInv, NEW t \in Threads, ElectHeaderWriter(t)
  PROVE  IInv'
<1> USE DEF IInv
<1> DEFINE b == call[t]
<1>0. b \in Blocks \ Loaded
  BY DEF ElectHeaderWriter, Control
<1>1. /\ flags' \in [Blocks -> SUBSET BlockFlags]
      /\ flags'[b] = flags[b] \cup {"HeaderWriteStarted"}
      /\ \A c \in Blocks \ {b} : flags'[c] = flags[c]
  BY <1>0, FetchOrBits DEF ElectHeaderWriter, BlockFlags
<1>2. /\ UNCHANGED <<prev, height, chainWork, successors, phases, call, withData,
                     queue, ready, best, notified>>
      /\ pc[t] = "elect"
      /\ pc' = [pc EXCEPT ![t] = IF "HeaderWriteStarted" \in flags[b] THEN "data" ELSE "write"]
  BY DEF ElectHeaderWriter, walk, Goto
<1>3. /\ pc'[t] = IF "HeaderWriteStarted" \in flags[b] THEN "data" ELSE "write"
      /\ \A u \in Threads \ {t} : pc'[u] = pc[u]
  BY <1>2 DEF TypeOK
<1>4. TypeOK'
  BY <1>1, <1>2 DEF TypeOK
<1>6. /\ \A c \in Blocks : flags[c] \subseteq flags'[c]
      /\ \A c \in Blocks : flags'[c] \subseteq flags[c] \cup {"HeaderWriteStarted"}
  BY <1>1
<1>7. Control'
  <2>1. Control
    OBVIOUS
  <2> HIDE DEF IInv
  <2> QED
    BY <1>0, <1>2, <1>3, <2>1, SMTT(30) DEF Control, Begun, HeaderToken, WalkSteps
<1>8. \A c : Linked(c)' <=> Linked(c)
  BY <1>2 DEF Linked
<1>9. Writers'
  <2>1. HeaderWriter(t)' => pc'[t] = "write" /\ "HeaderWriteStarted" \notin flags[b]
    BY <1>3 DEF HeaderWriter
  <2>2. "HeaderWriteStarted" \notin flags[b] => "HeaderDone" \notin flags[b] /\ ~Linked(b)
    BY <1>0, Tree DEF Writers, Linked, Lists
  <2>3. /\ \A u \in Threads \ {t} : HeaderWriter(u)' <=> HeaderWriter(u)
        /\ \A u \in Threads : DataWriter(u)' => DataWriter(u)
    BY <1>2, <1>3 DEF HeaderWriter, DataWriter
  <2>4. \A u \in Threads \ {t} : HeaderWriter(u) => "HeaderWriteStarted" \in flags[call[u]]
    BY DEF Writers
  <2>5. \A u, v \in Threads : u # v /\ HeaderWriter(u)' /\ HeaderWriter(v)' => call[u] # call[v]
    BY <2>1, <2>3, <2>4 DEF Writers
  <2>6. \A u \in Threads : HeaderWriter(u)' =>
          /\ "HeaderWriteStarted" \in flags'[call[u]]
          /\ "HeaderDone" \in flags'[call[u]] <=> pc'[u] = "link"
          /\ pc'[u] # "write" => prev[call[u]] = Parent[call[u]]
          /\ ~Linked(call[u])
    <3>1. \A u \in Threads \ {t} : HeaderWriter(u) => call[u] \in Blocks
      BY WriterCalls
    <3>2. Writers
      OBVIOUS
    <3> HIDE DEF IInv
    <3> QED
      BY <1>0, <1>1, <1>3, <1>6, <2>1, <2>2, <2>3, <3>1, <3>2, SMTT(30) DEF Writers
  <2>7. \A u \in Threads : DataWriter(u)' =>
          /\ "DataWriteStarted" \in flags'[call[u]]
          /\ "DataDone" \notin flags'[call[u]]
    BY <1>6, <2>3, WriterCalls DEF Writers
  <2>8. Writers
    OBVIOUS
  <2> HIDE DEF IInv
  <2> QED
    BY <1>1, <1>2, <1>6, <1>8, <2>3, <2>5, <2>6, <2>7, <2>8, SMTT(30) DEF Writers
<1>10. Lists'
  <2>1. \A c \in Blocks : "HeaderDone" \in flags'[c] <=> "HeaderDone" \in flags[c]
    BY <1>6
  <2>2. \A u \in Threads : pc[u] = "link" => pc'[u] = "link"
    BY <1>2, <1>3
  <2>3. Lists
    OBVIOUS
  <2> HIDE DEF IInv
  <2> QED
    BY <1>2, <1>8, <2>1, <2>2, <2>3, SMTT(30) DEF Lists
<1> QED
  BY <1>2, <1>3, <1>4, <1>6, <1>7, <1>9, <1>10, WriterFrame, SMTT(30) DEF WalkSteps

\* The writes of Prev and Header keep the invariant: nobody reads them yet.
LEMMA WriteHeaderInv ==
  ASSUME IInv, NEW t \in Threads, WriteHeader(t)
  PROVE  IInv'
<1> USE DEF IInv
<1> DEFINE b == call[t]
<1>0. b \in Blocks \ Loaded /\ Parent[b] \in Blocks
  BY Tree DEF WriteHeader, Control
<1>2. /\ UNCHANGED <<flags, height, chainWork, successors, phases, call, withData,
                     queue, ready, best, notified>>
      /\ pc[t] = "write" /\ pc' = [pc EXCEPT ![t] = "done"]
      /\ prev' = [prev EXCEPT ![b] = Parent[b]]
  BY DEF WriteHeader, walk, Goto
<1>3. /\ pc'[t] = "done" /\ \A u \in Threads \ {t} : pc'[u] = pc[u]
      /\ prev'[b] = Parent[b] /\ \A c \in Blocks \ {b} : prev'[c] = prev[c]
  BY <1>0, <1>2 DEF TypeOK
<1>4. TypeOK'
  BY <1>0, <1>2 DEF TypeOK
<1>7. Control'
  BY <1>0, <1>2, <1>3 DEF Control, Begun, HeaderToken, WalkSteps
<1>8. \A c : Linked(c)' <=> Linked(c)
  BY <1>2 DEF Linked
<1>9. Writers'
  <2>1. \A u \in Threads : (HeaderWriter(u)' <=> HeaderWriter(u)) /\ (DataWriter(u)' <=> DataWriter(u))
    BY <1>2, <1>3 DEF HeaderWriter, DataWriter
  <2>2. HeaderWriter(t)
    BY <1>2 DEF HeaderWriter
  <2>3. \A u \in Threads : HeaderWriter(u) => call[u] \in Blocks /\ (u # t => call[u] # b)
    BY <2>2, WriterCalls DEF Writers
  <2>4. Writers
    OBVIOUS
  <2> HIDE DEF IInv
  <2> QED
    BY <1>0, <1>2, <1>3, <1>8, <2>1, <2>2, <2>3, <2>4, SMTT(30) DEF Writers
<1>10. Lists'
  <2>1. Lists
    OBVIOUS
  <2> HIDE DEF IInv
  <2> QED
    BY <1>2, <1>3, <1>8, <2>1, SMTT(30) DEF Lists
<1> QED
  BY <1>2, <1>3, <1>4, <1>7, <1>9, <1>10, WriterFrame DEF WalkSteps

\* The fetch_or that publishes the header keeps the invariant.
LEMMA PublishHeaderInv ==
  ASSUME IInv, NEW t \in Threads, PublishHeader(t)
  PROVE  IInv'
<1> USE DEF IInv
<1> DEFINE b == call[t]
           bits == IF withData[t] THEN {"HeaderDone", "DataDone"} ELSE {"HeaderDone"}
<1>0. b \in Blocks \ Loaded
  BY DEF PublishHeader, Control
<1>1. /\ flags' \in [Blocks -> SUBSET BlockFlags]
      /\ flags'[b] = flags[b] \cup bits
      /\ \A c \in Blocks \ {b} : flags'[c] = flags[c]
  <2>1. bits \subseteq BlockFlags /\ FetchOr(b, bits)
    BY DEF PublishHeader, BlockFlags
  <2> HIDE DEF bits
  <2> QED
    BY <1>0, <2>1, FetchOrBits
<1>2. /\ UNCHANGED <<prev, height, chainWork, successors, phases, call, withData,
                     queue, ready, best, notified>>
      /\ pc[t] = "done" /\ pc' = [pc EXCEPT ![t] = "link"]
  BY DEF PublishHeader, walk, Goto
<1>3. pc'[t] = "link" /\ \A u \in Threads \ {t} : pc'[u] = pc[u]
  BY <1>2 DEF TypeOK
<1>4. TypeOK'
  BY <1>1, <1>2 DEF TypeOK
<1>5. HeaderWriter(t) /\ (withData[t] => DataWriter(t))
  BY <1>2 DEF HeaderWriter, DataWriter
<1>6. /\ \A c \in Blocks : flags[c] \subseteq flags'[c]
      /\ \A c \in Blocks : flags'[c] \subseteq flags[c] \cup {"HeaderDone", "DataDone"}
  BY <1>1
<1>7. Control'
  BY <1>0, <1>2, <1>3 DEF Control, Begun, HeaderToken, WalkSteps
<1>8. \A c : Linked(c)' <=> Linked(c)
  BY <1>2 DEF Linked
<1>9. Writers'
  <2>1. \A u \in Threads : HeaderWriter(u)' <=> HeaderWriter(u)
    BY <1>2, <1>3 DEF HeaderWriter
  <2>2. ~DataWriter(t)' /\ \A u \in Threads \ {t} : DataWriter(u)' <=> DataWriter(u)
    BY <1>2, <1>3 DEF DataWriter
  <2>3. \A u \in Threads \ {t} :
          /\ HeaderWriter(u) => call[u] \in Blocks /\ call[u] # b
          /\ DataWriter(u) => call[u] \in Blocks /\ (withData[t] => call[u] # b)
    BY <1>5, WriterCalls DEF Writers
  <2>4. \A u \in Threads : HeaderWriter(u)' =>
          /\ "HeaderWriteStarted" \in flags'[call[u]]
          /\ "HeaderDone" \in flags'[call[u]] <=> pc'[u] = "link"
          /\ pc'[u] # "write" => prev[call[u]] = Parent[call[u]]
          /\ ~Linked(call[u])
    <3>1. HeaderWriter(t) => /\ "HeaderWriteStarted" \in flags[b] /\ prev[b] = Parent[b] /\ ~Linked(b)
      BY <1>2 DEF Writers
    <3>2. "HeaderDone" \in flags'[b] /\ "HeaderWriteStarted" \in flags'[b]
      BY <1>1, <1>5, <3>1
    <3> QED
      BY <1>1, <1>3, <1>5, <2>1, <2>3, <3>1, <3>2 DEF Writers
  <2>5. \A u \in Threads : DataWriter(u)' =>
          /\ "DataWriteStarted" \in flags'[call[u]]
          /\ "DataDone" \notin flags'[call[u]]
    <3>1. Writers
      OBVIOUS
    <3> HIDE DEF IInv
    <3> QED
      BY <1>1, <2>2, <2>3, <3>1, SMTT(30) DEF Writers
  <2>6. \A c \in Blocks :
          /\ "HeaderDone" \in flags'[c] =>
               /\ "HeaderWriteStarted" \in flags'[c]
               /\ c # Genesis => prev[c] = Parent[c]
          /\ "DataDone" \in flags'[c] => "DataWriteStarted" \in flags'[c]
    <3>1. Writers
      OBVIOUS
    <3> HIDE DEF IInv
    <3> QED
      BY <1>0, <1>1, <1>2, <1>5, <1>6, <3>1, SMTT(30) DEF Writers
  <2>7. Writers
    OBVIOUS
  <2> HIDE DEF IInv
  <2> QED
    BY <1>2, <1>6, <1>8, <2>1, <2>2, <2>4, <2>5, <2>6, <2>7, SMTT(30) DEF Writers
<1>10. Lists'
  <2>1. \A c \in Blocks \ {b} : "HeaderDone" \in flags'[c] <=> "HeaderDone" \in flags[c]
    BY <1>1
  <2>2. \A u \in Threads : pc[u] = "link" => pc'[u] = "link"
    BY <1>2, <1>3
  <2>3. \A p \in Blocks : \A i \in 1..Len(successors[p]) : "HeaderDone" \in flags'[successors[p][i]]
    BY <1>6 DEF Lists
  <2>4. Lists
    OBVIOUS
  <2> HIDE DEF IInv
  <2> QED
    BY <1>2, <1>3, <1>8, <2>1, <2>2, <2>3, <2>4, SMTT(30) DEF Lists
<1>11. \A c \in Blocks : "DataDone" \in flags'[c] \ flags[c] => "ParentDataReady" \notin flags[c]
  BY <1>0, <1>1, <1>5 DEF Writers, DataBits
<1> QED
  BY <1>2, <1>3, <1>4, <1>6, <1>7, <1>9, <1>10, <1>11, WriterFrame DEF WalkSteps
=============================================================================
