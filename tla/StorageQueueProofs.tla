------------------------- MODULE StorageQueueProofs -------------------------
(***************************************************************************)
(* The storage thread and its archive workers, for any tree of blocks and  *)
(* any finite set of databases: every database follows utxodb, a task      *)
(* outlives its readers, blocks stay readable, and the end of the process  *)
(* leaves nothing behind.                                                  *)
(*                                                                         *)
(* The invariant gives every move that is under way its place in the log:  *)
(* the log is what the databases have, then the batch, then the disconnect *)
(* the storage thread has in hand, then the queue, then what the serial    *)
(* worker is still pushing.  A database is at the start of the batch, or,  *)
(* once its worker has connected it, at its end.                           *)
(***************************************************************************)
EXTENDS StorageQueue, TLAPS, FiniteSetTheorems

Born == Blocks \ {Genesis}
Made == [op : {"connect", "disconnect"}, block : Born]
Queued == [op : {"connect", "disconnect"}, block : Born, end : BOOLEAN]
Batched == [block : Born, shared : BOOLEAN]
Tasks == [batch : Seq(Born), first : Nat, pending : Int, segment : BOOLEAN, shares : Int, kept : BOOLEAN]

ChainTypes ==
  /\ log \in Seq(Made) /\ pushing \in Seq(Queued) /\ queue \in Seq(Queued)
  /\ batch \in Seq(Batched)
  /\ thread \in [pc : {"loop", "pop", "apply", "wait", "undo", "finish", "closed"},
                 then : {"loop", "pop", "undo", "finish"}, block : Blocks]
  /\ prepared \subseteq Born /\ lanes \subseteq Born

ArchiveTypes ==
  /\ tasks \in Seq(Tasks) /\ queues \in [Dbs -> Seq(Nat)]
  /\ worker \in [Dbs -> [pc : {"idle", "connect", "release", "done"}, task : Nat]]
  /\ from = [d \in Dbs |-> 0]
  /\ applied \in [Dbs -> Seq(Made)]

-----------------------------------------------------------------------------
\* The disconnect in the hands of the storage thread, behind its batch
InHand == thread.then = "undo" /\ thread.pc \in {"apply", "wait", "undo"}
Hand == IF InHand THEN 1 ELSE 0

QueueFrom == Len(log) - Len(pushing) - Len(queue)
BatchEnd == QueueFrom - Hand
BatchFrom == BatchEnd - Len(batch)

\* What is under way is in the order of the log
Order ==
  /\ BatchFrom >= 0
  /\ \A i \in 1..Len(batch) : log[BatchFrom + i] = Move("connect", batch[i].block)
  /\ InHand => log[QueueFrom] = Move("disconnect", thread.block)
  /\ \A i \in 1..Len(queue) : log[QueueFrom + i] = Move(queue[i].op, queue[i].block)
  /\ \A i \in 1..Len(pushing) :
       log[QueueFrom + Len(queue) + i] = Move(pushing[i].op, pushing[i].block)
  /\ thread.pc = "undo" => thread.then = "undo"
  /\ thread.pc \in {"undo", "loop", "finish", "closed"} => batch = <<>>

\* Database d has made the first n moves
Followed(d, n) == Len(applied[d]) = n /\ \A i \in 1..n : applied[d][i] = log[i]

\* A database that has not finished, and one that has not begun, with the task in flight
Busy(d) == queues[d] # <<>> \/ worker[d].pc # "idle"
Before(d) == queues[d] # <<>> \/ worker[d].pc = "connect"

\* A database without a task, at the start of the batch
Resting(d) == queues[d] = <<>> /\ worker[d].pc = "idle" /\ Followed(d, BatchFrom)

\* The last task is the batch, and counts those who have not finished with it
InFlight ==
  LET task == tasks[Len(tasks)] IN
    /\ Len(tasks) > 0
    /\ task.kept /\ ~task.segment
    /\ Len(task.batch) = Len(batch)
    /\ \A i \in 1..Len(batch) : task.batch[i] = batch[i].block
    /\ task.pending = Cardinality({d \in Dbs : Busy(d)})

\* A database while the task is in flight
Placed(d) ==
  /\ queues[d] # <<>> => Len(queues[d]) = 1 /\ queues[d][1] = Len(tasks) /\ worker[d].pc = "idle"
  /\ worker[d].pc # "idle" => worker[d].task = Len(tasks)
  /\ Followed(d, IF Before(d) THEN BatchFrom ELSE BatchEnd)

\* At most one task is in flight, and only while the storage thread waits for it
Fan ==
  /\ thread.pc # "wait" => \A d \in Dbs : Resting(d)
  /\ thread.pc = "wait" => InFlight /\ \A d \in Dbs : Placed(d)

\* A queue that is not empty will be looked at
Woken ==
  /\ pushing # <<>> => mutator = "moving"
  /\ queue # <<>> => \/ event \/ mutator = "moving" \/ thread.pc \in {"pop", "undo"}
                     \/ thread.pc \in {"apply", "wait"} /\ thread.then \in {"pop", "undo"}
  /\ thread.pc = "closed" => mutator = "stopped" /\ ~event

\* A block is in memory or on disk; its copy goes only when the files have it
Files ==
  /\ memory \subseteq Blocks /\ stored \subseteq Blocks
  /\ cached \subseteq stored /\ disk \subseteq stored /\ Genesis \in disk
  /\ Blocks \subseteq memory \union disk
  /\ thread.pc = "closed" => disk = stored
  /\ \A i \in 1..BatchFrom : log[i].op = "connect" => log[i].block \in stored

IInv == ChainTypes /\ ArchiveTypes /\ Order /\ Fan /\ Woken /\ Files

-----------------------------------------------------------------------------
\* Sequences

\* What an append does to a sequence, element by element.
LEMMA Appended ==
  ASSUME NEW S, NEW s \in Seq(S), NEW x \in S
  PROVE  /\ Append(s, x) \in Seq(S) /\ Len(Append(s, x)) = Len(s) + 1
         /\ \A i \in 1..Len(s) : Append(s, x)[i] = s[i]
         /\ Append(s, x)[Len(s) + 1] = x
  OBVIOUS

\* A sequence of one element.
LEMMA Single ==
  ASSUME NEW S, NEW x \in S
  PROVE  <<x>> \in Seq(S) /\ Len(<<x>>) = 1 /\ <<x>>[1] = x
  OBVIOUS

\* What taking the head off a queue does to it.
LEMMA Popped ==
  ASSUME NEW S, NEW s \in Seq(S), s # <<>>
  PROVE  /\ Len(s) > 0 /\ Head(s) = s[1] /\ s[1] \in S
         /\ Tail(s) \in Seq(S) /\ Len(Tail(s)) = Len(s) - 1
         /\ \A i \in 1..Len(Tail(s)) : Tail(s)[i] = s[i + 1]
  OBVIOUS

\* What a concatenation does.
LEMMA Joined ==
  ASSUME NEW S, NEW s \in Seq(S), NEW t \in Seq(S)
  PROVE  /\ s \o t \in Seq(S) /\ Len(s \o t) = Len(s) + Len(t)
         /\ \A i \in 1..Len(s) : (s \o t)[i] = s[i]
         /\ \A i \in 1..Len(t) : (s \o t)[Len(s) + i] = t[i]
  OBVIOUS

\* The same for moves of the chain.
LEMMA JoinedMade ==
  \A s, t \in Seq(Made) : /\ s \o t \in Seq(Made) /\ Len(s \o t) = Len(s) + Len(t)
                          /\ \A i \in 1..Len(s) : (s \o t)[i] = s[i]
                          /\ \A i \in 1..Len(t) : (s \o t)[Len(s) + i] = t[i]
  BY Joined

\* A sequence is its elements.
LEMMA SameElements ==
  ASSUME NEW S, NEW s \in Seq(S), NEW t \in Seq(S), Len(s) = Len(t),
         \A i \in 1..Len(s) : s[i] = t[i]
  PROVE  s = t
  OBVIOUS

\* A function on 1..n with values in S is a sequence over S.
LEMMA Sequence ==
  ASSUME NEW S, NEW n \in Nat, NEW f, DOMAIN f = 1..n, f = [i \in 1..n |-> f[i]],
         \A i \in 1..n : f[i] \in S
  PROVE  f \in Seq(S) /\ Len(f) = n
  OBVIOUS

\* All of a sequence.
LEMMA Whole == ASSUME NEW S, NEW s \in Seq(S) PROVE SubSeq(s, 1, Len(s)) = s
  OBVIOUS

\* A sequence without elements.
LEMMA Emptied == ASSUME NEW S, NEW s \in Seq(S), Len(s) = 0 PROVE s = <<>>
  OBVIOUS

\* One element of a sequence is replaced.
LEMMA Replaced ==
  ASSUME NEW S, NEW s \in Seq(S), NEW n \in 1..Len(s), NEW x \in S
  PROVE  /\ [s EXCEPT ![n] = x] \in Seq(S) /\ Len([s EXCEPT ![n] = x]) = Len(s)
         /\ [s EXCEPT ![n] = x][n] = x
  OBVIOUS

\* A task is dropped.
LEMMA TaskDropped == ASSUME NEW task \in Tasks PROVE [task EXCEPT !.kept = FALSE] \in Tasks
BY Zenon DEF Tasks

\* A worker is done with a task.
LEMMA TaskCounted ==
  ASSUME NEW task \in Tasks, task.kept, ~task.segment, NEW n \in Int
  PROVE  /\ [task EXCEPT !.pending = n] \in Tasks /\ [task EXCEPT !.pending = n].kept
         /\ ~[task EXCEPT !.pending = n].segment /\ [task EXCEPT !.pending = n].batch = task.batch
         /\ [task EXCEPT !.pending = n].pending = n
BY DEF Tasks

\* The connects a run of blocks becomes.
LEMMA MovesMade ==
  ASSUME NEW run \in Seq(Born)
  PROVE  /\ Moves("connect", run) \in Seq(Made) /\ Len(Moves("connect", run)) = Len(run)
         /\ \A i \in 1..Len(run) : Moves("connect", run)[i] = Move("connect", run[i])
<1>1. DOMAIN run = 1..Len(run) /\ Len(run) \in Nat /\ \A i \in 1..Len(run) : run[i] \in Born
  OBVIOUS
<1>2. \A i \in 1..Len(run) : Move("connect", run[i]) \in Made
  BY <1>1 DEF Move, Made
<1>3. Moves("connect", run) = [i \in 1..Len(run) |-> Move("connect", run[i])]
  BY <1>1 DEF Moves
<1> QED
  BY <1>1, <1>2, <1>3

-----------------------------------------------------------------------------
\* The parts of the invariant a step may leave alone

\* A step that leaves the tasks and the storage thread alone keeps the order.
LEMMA OrderStill ==
  ASSUME Order, UNCHANGED <<log, pushing, queue, thread, batch>>
  PROVE  Order' /\ BatchFrom' = BatchFrom /\ BatchEnd' = BatchEnd
BY DEF Order, BatchFrom, BatchEnd, QueueFrom, Hand, InHand

\* A step that leaves the workers and the place of the batch alone keeps the fan-out.
LEMMA FanStill ==
  ASSUME Fan, UNCHANGED <<archive, log, thread, batch>>,
         BatchFrom' = BatchFrom, BatchEnd' = BatchEnd
  PROVE  Fan'
<1>1. {d \in Dbs : Busy(d)}' = {d \in Dbs : Busy(d)}
  BY DEF Busy, archive
<1>2. InFlight => InFlight'
  BY <1>1, Zenon DEF InFlight, archive
<1>3. ASSUME NEW d \in Dbs
      PROVE  (Resting(d) => Resting(d)') /\ (Placed(d) => Placed(d)')
  BY DEF Resting, Placed, Followed, Before, archive
<1> QED
  BY <1>2, <1>3 DEF Fan

\* The files stay as they are when neither they nor the place of the batch changes.
LEMMA FilesStill ==
  ASSUME ChainTypes, Files, Order, UNCHANGED <<fileVars, log>>, BatchFrom' = BatchFrom,
         thread'.pc = "closed" => thread.pc = "closed"
  PROVE  Files'
<1>1. \A i \in 1..BatchFrom' : log'[i].op = "connect" => log'[i].block \in stored'
  BY DEF Files, fileVars
<1> QED
  BY <1>1 DEF Files, fileVars

\* A step of the serial worker or of the timer that moves no task.
LEMMA AsideKeeps ==
  ASSUME IInv, UNCHANGED <<archive, log, pushing, queue, thread, batch>>,
         prepared' \subseteq Born, lanes' \subseteq Born, Woken', Files'
  PROVE  IInv'
<1>1. ChainTypes'
  BY DEF IInv, ChainTypes
<1>2. ArchiveTypes'
  BY DEF IInv, ArchiveTypes, archive
<1>3. Order' /\ BatchFrom' = BatchFrom /\ BatchEnd' = BatchEnd
  BY OrderStill DEF IInv
<1>4. Fan'
  BY <1>3, FanStill DEF IInv
<1> QED
  BY <1>1, <1>2, <1>3, <1>4 DEF IInv

-----------------------------------------------------------------------------
\* The initial state

LEMMA InitHolds == ASSUME StorageAssumption, Init PROVE IInv
<1> USE DEF Init
<1>1. log = <<>> /\ pushing = <<>> /\ queue = <<>> /\ batch = <<>> /\ Len(<<>>) = 0
  OBVIOUS
<1>2. QueueFrom = 0 /\ BatchEnd = 0 /\ BatchFrom = 0 /\ ~InHand
  <2>1. thread.then = "loop"
    OBVIOUS
  <2> HIDE DEF Init
  <2>2. ~InHand /\ Hand = 0
    BY <2>1 DEF Hand, InHand
  <2>3. Len(log) = 0 /\ Len(pushing) = 0 /\ Len(queue) = 0 /\ Len(batch) = 0
    BY <1>1
  <2> QED
    BY <2>2, <2>3 DEF QueueFrom, BatchEnd, BatchFrom
<1>3. ChainTypes
  <2>1. log \in Seq(Made) /\ pushing \in Seq(Queued) /\ queue \in Seq(Queued) /\ batch \in Seq(Batched)
    BY <1>1
  <2>2. thread \in [pc : {"loop", "pop", "apply", "wait", "undo", "finish", "closed"},
                    then : {"loop", "pop", "undo", "finish"}, block : Blocks]
    BY DEF StorageAssumption
  <2>3. prepared = {} /\ lanes = {}
    OBVIOUS
  <2> QED
    BY <2>1, <2>2, <2>3, Zenon DEF ChainTypes
<1>4. ArchiveTypes
  BY DEF ArchiveTypes, ArchiveInit, IdleWorker
<1>5. Order
  BY <1>1, <1>2 DEF Order
<1>6. Fan
  BY <1>1, <1>2 DEF Fan, Resting, Followed, ArchiveInit, IdleWorker
<1>7. Woken /\ Files
  BY <1>1, <1>2 DEF Woken, Files, StorageAssumption
<1> QED
  BY <1>3, <1>4, <1>5, <1>6, <1>7 DEF IInv

-----------------------------------------------------------------------------
\* The serial worker

\* A database stays where it is when the log grows behind it.
LEMMA DatabaseStill ==
  ASSUME NEW d \in Dbs, queues'[d] = queues[d], worker'[d] = worker[d], tasks' = tasks,
         Before(d)' <=> Before(d),
         Followed(d, BatchFrom) => Followed(d, BatchFrom)', Followed(d, BatchEnd) => Followed(d, BatchEnd)'
  PROVE  (Resting(d) => Resting(d)') /\ (Placed(d) => Placed(d)')
<1>1. Resting(d) => Resting(d)'
  BY DEF Resting
<1>2. CASE Before(d)
  BY <1>1, <1>2 DEF Placed
<1>3. CASE ~Before(d)
  BY <1>1, <1>3 DEF Placed
<1> QED
  BY <1>2, <1>3

\* A move of the chain puts its tasks at the end of the log, and leaves what is under
\* way where it is.
LEMMA LogGrows ==
  ASSUME IInv, pushing = <<>>, UNCHANGED <<archive, fileVars, queue, thread, batch>>,
         log' \in Seq(Made), pushing' \in Seq(Queued), Len(log') = Len(log) + Len(pushing'),
         \A i \in 1..Len(log) : log'[i] = log[i],
         \A i \in 1..Len(pushing') : log'[Len(log) + i] = Move(pushing'[i].op, pushing'[i].block)
  PROVE  Order' /\ Fan' /\ Files'
<1>1. /\ Len(log) \in Nat /\ Len(pushing) = 0 /\ Len(queue) \in Nat /\ Len(batch) \in Nat
      /\ Len(pushing') \in Nat /\ Hand \in 0..1 /\ (InHand => Hand = 1)
  BY DEF IInv, ChainTypes, Hand
<1>2. QueueFrom' = QueueFrom /\ Hand' = Hand /\ InHand' = InHand
  BY <1>1 DEF QueueFrom, Hand, InHand
<1>3. BatchFrom' = BatchFrom /\ BatchEnd' = BatchEnd
  BY <1>2 DEF BatchFrom, BatchEnd
<1>4. /\ QueueFrom = Len(log) - Len(queue) /\ BatchEnd = QueueFrom - Hand
      /\ BatchFrom = BatchEnd - Len(batch) /\ BatchFrom >= 0
  BY <1>1 DEF IInv, Order, QueueFrom, BatchEnd, BatchFrom
<1>5. Order'
  <2>1. \A i \in 1..Len(batch) : log'[BatchFrom + i] = log[BatchFrom + i]
    BY <1>1, <1>4
  <2>2. \A i \in 1..Len(queue) : log'[QueueFrom + i] = log[QueueFrom + i]
    <3>1. \A i \in 1..Len(queue) : QueueFrom + i \in 1..Len(log)
      BY <1>1, <1>4
    <3> QED
      BY <3>1
  <2>3. InHand => log'[QueueFrom] = log[QueueFrom]
    <3>1. InHand => QueueFrom \in 1..Len(log)
      BY <1>1, <1>4
    <3> QED
      BY <3>1, Zenon
  <2>4. Len(log) = QueueFrom + Len(queue)
    BY <1>1, <1>4
  <2>5. \A i \in 1..Len(pushing') :
          log'[QueueFrom' + Len(queue') + i] = Move(pushing'[i].op, pushing'[i].block)
    BY <1>2, <2>4
  <2>6. \A i \in 1..Len(batch') : log'[BatchFrom' + i] = Move("connect", batch'[i].block)
    BY <1>3, <2>1 DEF IInv, Order
  <2>7. \A i \in 1..Len(queue') : log'[QueueFrom' + i] = Move(queue'[i].op, queue'[i].block)
    BY <1>2, <2>2 DEF IInv, Order
  <2>8. InHand' => log'[QueueFrom'] = Move("disconnect", thread'.block)
    BY <1>2, <2>3 DEF IInv, Order
  <2> QED
    BY <1>3, <1>4, <2>5, <2>6, <2>7, <2>8 DEF IInv, Order
<1>6. Fan'
  <2>1. \A i \in 1..BatchEnd : log'[i] = log[i]
    BY <1>1, <1>4
  <2>2. \A i \in 1..BatchFrom : log'[i] = log[i]
    BY <1>1, <1>4
  <2>3. {d \in Dbs : Busy(d)}' = {d \in Dbs : Busy(d)} /\ \A d \in Dbs : Before(d)' <=> Before(d)
    BY DEF Busy, Before, archive
  <2>4. InFlight => InFlight'
    BY <2>3, Zenon DEF InFlight, archive
  <2>5. ASSUME NEW d \in Dbs
        PROVE  (Resting(d) => Resting(d)') /\ (Placed(d) => Placed(d)')
    <3>1. /\ Followed(d, BatchFrom) => Followed(d, BatchFrom)'
          /\ Followed(d, BatchEnd) => Followed(d, BatchEnd)'
      BY <1>3, <2>1, <2>2 DEF Followed, archive
    <3>2. queues'[d] = queues[d] /\ worker'[d] = worker[d] /\ tasks' = tasks
      BY DEF archive
    <3> QED
      BY <2>3, <3>1, <3>2, DatabaseStill, Zenon
  <2> QED
    BY <2>4, <2>5 DEF IInv, Fan
<1>7. Files'
  <2>1. \A i \in 1..BatchFrom : log'[i] = log[i]
    BY <1>1, <1>4
  <2>2. \A i \in 1..BatchFrom : log[i].op = "connect" => log[i].block \in stored
    BY DEF IInv, Files
  <2>3. stored' = stored
    BY DEF fileVars
  <2>4. \A i \in 1..BatchFrom' : log'[i].op = "connect" => log'[i].block \in stored'
    BY <1>3, <2>1, <2>2, <2>3, Zenon
  <2> QED
    BY <2>4 DEF IInv, Files, fileVars
<1> QED
  BY <1>5, <1>6, <1>7

\* The tip of the chain is a block.
LEMMA TipBorn == ASSUME StorageAssumption, log \in Seq(Made) PROVE Tip \in Blocks
<1>1. CASE log = <<>>
  BY <1>1 DEF Tip, StorageAssumption
<1>2. CASE log # <<>>
  <2>1. log[Len(log)] \in Made
    BY <1>2
  <2> QED
    BY <1>2, <2>1 DEF Tip, Made, Born, StorageAssumption
<1> QED
  BY <1>1, <1>2

\* One block is taken off the chain (connectSegment, switchTo).
LEMMA DisconnectKeeps == ASSUME StorageAssumption, IInv, Disconnect PROVE IInv'
<1>1. Tip \in Born
  BY TipBorn DEF IInv, ChainTypes, Disconnect, Born
<1>2. Move("disconnect", Tip) \in Made /\ Task("disconnect", Tip, FALSE) \in Queued
  BY <1>1 DEF Move, Task, Made, Queued
<1>3. /\ log' \in Seq(Made) /\ Len(log') = Len(log) + 1
      /\ \A i \in 1..Len(log) : log'[i] = log[i]
      /\ log'[Len(log) + 1] = Move("disconnect", Tip)
  BY <1>2, Appended DEF IInv, ChainTypes, Disconnect
<1>4. pushing' \in Seq(Queued) /\ Len(pushing') = 1 /\ pushing'[1] = Task("disconnect", Tip, FALSE)
  BY <1>2, Single, Zenon DEF Disconnect
<1>5. Move(pushing'[1].op, pushing'[1].block) = Move("disconnect", Tip)
  BY <1>4 DEF Move, Task
<1>6. Order' /\ Fan' /\ Files'
  <2>1. pushing = <<>> /\ UNCHANGED <<archive, fileVars, queue, thread, batch>>
    BY DEF Disconnect
  <2>2. \A i \in 1..Len(pushing') : log'[Len(log) + i] = Move(pushing'[i].op, pushing'[i].block)
    <3>1. \A i \in 1..Len(pushing') : i = 1
      BY <1>4
    <3> QED
      BY <1>3, <1>5, <3>1
  <2> QED
    BY <1>3, <1>4, <2>1, <2>2, LogGrows
<1>7. ChainTypes' /\ ArchiveTypes'
  BY <1>3, <1>4, Zenon DEF IInv, ChainTypes, ArchiveTypes, Disconnect, archive
<1>8. Woken'
  BY DEF IInv, Woken, Disconnect
<1> QED
  BY <1>6, <1>7, <1>8 DEF IInv

\* A task for the storage thread to connect a block.
LEMMA Tasked ==
  ASSUME NEW b \in Born, NEW end \in BOOLEAN
  PROVE  /\ Task("connect", b, end) \in Queued
         /\ Task("connect", b, end).op = "connect" /\ Task("connect", b, end).block = b
BY DEF Task, Queued

\* A segment is connected in one go.
LEMMA ConnectKeeps == ASSUME StorageAssumption, IInv, NEW run \in Runs, ConnectRun(run) PROVE IInv'
<1>1. run \in Seq(Born) /\ DOMAIN run = 1..Len(run) /\ Len(run) \in Nat
      /\ \A i \in 1..Len(run) : run[i] \in Born
  <2>1. PICK n \in 1..2 : run \in [1..n -> Born]
    BY DEF Runs, Born
  <2> QED
    BY <2>1
<1>2. /\ log' \in Seq(Made) /\ Len(log') = Len(log) + Len(run)
      /\ \A i \in 1..Len(log) : log'[i] = log[i]
      /\ \A i \in 1..Len(run) : log'[Len(log) + i] = Move("connect", run[i])
  <2>1. log \in Seq(Made) /\ log' = log \o Moves("connect", run)
    BY DEF IInv, ChainTypes, ConnectRun
  <2>2. /\ Moves("connect", run) \in Seq(Made) /\ Len(Moves("connect", run)) = Len(run)
        /\ \A i \in 1..Len(run) : Moves("connect", run)[i] = Move("connect", run[i])
    BY <1>1, MovesMade
  <2>3. /\ log' \in Seq(Made) /\ Len(log') = Len(log) + Len(Moves("connect", run))
        /\ \A i \in 1..Len(log) : log'[i] = log[i]
        /\ \A i \in 1..Len(Moves("connect", run)) : log'[Len(log) + i] = Moves("connect", run)[i]
    BY <2>1, <2>2, Joined
  <2> QED
    BY <2>2, <2>3, Zenon
<1>3. /\ pushing' \in Seq(Queued) /\ Len(pushing') = Len(run)
      /\ \A i \in 1..Len(run) : pushing'[i].op = "connect" /\ pushing'[i].block = run[i]
  <2>1. pushing' = [i \in 1..Len(run) |-> Task("connect", run[i], i = Len(run))]
    BY <1>1 DEF ConnectRun
  <2>2. DOMAIN pushing' = 1..Len(run) /\ pushing' = [i \in 1..Len(run) |-> pushing'[i]]
    BY <2>1, Zenon
  <2>3. ASSUME NEW i \in 1..Len(run)
        PROVE  pushing'[i] \in Queued /\ pushing'[i].op = "connect" /\ pushing'[i].block = run[i]
    <3>1. pushing'[i] = Task("connect", run[i], i = Len(run))
      BY <2>1, Zenon
    <3>2. (i = Len(run)) \in BOOLEAN
      OBVIOUS
    <3>3. run[i] \in Born
      BY <1>1
    <3> QED
      BY <3>1, <3>2, <3>3, Tasked, Zenon
  <2>4. pushing' \in Seq(Queued) /\ Len(pushing') = Len(run)
    BY <1>1, <2>2, <2>3, Sequence
  <2> QED
    BY <2>3, <2>4
<1>4. Order' /\ Fan' /\ Files'
  <2>1. pushing = <<>> /\ UNCHANGED <<archive, fileVars, queue, thread, batch>>
    BY DEF ConnectRun
  <2>2. \A i \in 1..Len(pushing') : log'[Len(log) + i] = Move(pushing'[i].op, pushing'[i].block)
    BY <1>2, <1>3
  <2> QED
    BY <1>2, <1>3, <2>1, <2>2, LogGrows
<1>5. ChainTypes' /\ ArchiveTypes'
  BY <1>2, <1>3, Zenon DEF IInv, ChainTypes, ArchiveTypes, ConnectRun, archive
<1>6. Woken'
  BY DEF IInv, Woken, ConnectRun
<1> QED
  BY <1>4, <1>5, <1>6 DEF IInv

\* Preparation, the wake-up call, the stop and the timer move no task.
LEMMA AsideSteps ==
  ASSUME IInv,
         \/ \E b \in Blocks \ {Genesis} : PrepBegin(b) \/ PrepEnd(b)
         \/ WakeUp \/ StopPipeline \/ Timer
  PROVE  IInv'
<1>1. ASSUME NEW b \in Born, PrepBegin(b) PROVE IInv'
  <2>1. Files'
    <3>1. BatchFrom' = BatchFrom
      BY <1>1 DEF PrepBegin, BatchFrom, BatchEnd, QueueFrom, Hand, InHand
    <3> QED
      BY <1>1, <3>1 DEF PrepBegin, IInv, Files, Born
  <2> QED
    BY <1>1, <2>1, AsideKeeps DEF PrepBegin, IInv, Woken, ChainTypes
<1>2. ASSUME NEW b \in Born, PrepEnd(b) PROVE IInv'
  <2>1. BatchFrom' = BatchFrom
    BY <1>2 DEF PrepEnd, BatchFrom, BatchEnd, QueueFrom, Hand, InHand
  <2>2. Files'
    BY <1>2, <2>1, FilesStill DEF PrepEnd, IInv
  <2> QED
    BY <1>2, <2>2, AsideKeeps DEF PrepEnd, IInv, Woken, ChainTypes
<1>3. CASE WakeUp
  <2>1. BatchFrom' = BatchFrom
    BY <1>3 DEF WakeUp, BatchFrom, BatchEnd, QueueFrom, Hand, InHand
  <2>2. Files'
    BY <1>3, <2>1, FilesStill DEF WakeUp, IInv
  <2> QED
    BY <1>3, <2>2, AsideKeeps DEF WakeUp, IInv, Woken, ChainTypes
<1>4. CASE StopPipeline
  <2>1. BatchFrom' = BatchFrom
    BY <1>4 DEF StopPipeline, BatchFrom, BatchEnd, QueueFrom, Hand, InHand
  <2>2. Files'
    BY <1>4, <2>1, FilesStill DEF StopPipeline, IInv
  <2> QED
    BY <1>4, <2>2, AsideKeeps DEF StopPipeline, IInv, Woken, ChainTypes
<1>5. CASE Timer
  <2>1. BatchFrom' = BatchFrom /\ UNCHANGED <<log, stored, thread>> /\ thread.pc = "loop"
    BY <1>5 DEF Timer, FlushOrNot, BatchFrom, BatchEnd, QueueFrom, Hand, InHand, chainVars
  <2>2. \/ disk' = stored /\ memory' = memory \ cached /\ cached' = {}
        \/ UNCHANGED <<memory, cached, disk>>
    BY <1>5 DEF Timer, FlushOrNot, Flush
  <2>3. Files'
    BY <2>1, <2>2 DEF IInv, Files
  <2> QED
    BY <1>5, <2>1, <2>3, AsideKeeps DEF Timer, IInv, Woken, ChainTypes, chainVars
<1> QED
  BY <1>1, <1>2, <1>3, <1>4, <1>5, SMTT(30) DEF Born

\* A task reaches the queue.
LEMMA PushKeeps == ASSUME IInv, Push PROVE IInv'
<1>1. /\ Len(pushing) > 0 /\ Head(pushing) = pushing[1] /\ pushing[1] \in Queued
      /\ pushing' \in Seq(Queued) /\ Len(pushing') = Len(pushing) - 1
      /\ \A i \in 1..Len(pushing') : pushing'[i] = pushing[i + 1]
  BY Popped DEF IInv, ChainTypes, Push
<1>2. /\ queue' \in Seq(Queued) /\ Len(queue') = Len(queue) + 1
      /\ \A i \in 1..Len(queue) : queue'[i] = queue[i]
      /\ queue'[Len(queue) + 1] = pushing[1]
  BY <1>1, Appended DEF IInv, ChainTypes, Push
<1>3. UNCHANGED <<archive, fileVars, log, thread, batch>>
  BY DEF Push
<1>4. Len(log) \in Nat /\ Len(queue) \in Nat /\ Len(pushing) \in Nat /\ Len(batch) \in Nat
  BY DEF IInv, ChainTypes
<1>5. QueueFrom' = QueueFrom /\ Hand' = Hand /\ InHand' = InHand
  BY <1>1, <1>2, <1>3, <1>4 DEF QueueFrom, Hand, InHand
<1>6. BatchFrom' = BatchFrom /\ BatchEnd' = BatchEnd
  BY <1>3, <1>5 DEF BatchFrom, BatchEnd
<1>7. Order'
  <2>1. \A i \in 1..Len(queue') : log[QueueFrom + i] = Move(queue'[i].op, queue'[i].block)
    <3>1. log[QueueFrom + Len(queue) + 1] = Move(pushing[1].op, pushing[1].block)
      BY <1>1, <1>4 DEF IInv, Order
    <3>2. QueueFrom + Len(queue) + 1 = QueueFrom + (Len(queue) + 1)
      BY <1>4 DEF QueueFrom
    <3>3. \A i \in 1..Len(queue') : i \in 1..Len(queue) \/ i = Len(queue) + 1
      BY <1>2, <1>4
    <3> QED
      BY <1>2, <3>1, <3>2, <3>3 DEF IInv, Order
  <2>2. \A i \in 1..Len(pushing') :
          log[QueueFrom + Len(queue') + i] = Move(pushing'[i].op, pushing'[i].block)
    <3>1. \A i \in 1..Len(pushing') :
            i + 1 \in 1..Len(pushing) /\ QueueFrom + Len(queue') + i = QueueFrom + Len(queue) + (i + 1)
      BY <1>1, <1>2, <1>4 DEF QueueFrom
    <3>2. \A i \in 1..Len(pushing) :
            log[QueueFrom + Len(queue) + i] = Move(pushing[i].op, pushing[i].block)
      BY DEF IInv, Order
    <3> QED
      BY <1>1, <3>1, <3>2, Zenon
  <2> QED
    BY <1>3, <1>5, <1>6, <2>1, <2>2 DEF IInv, Order
<1>8. Fan' /\ Files'
  BY <1>3, <1>6, FanStill, FilesStill DEF IInv
<1>9. ChainTypes' /\ ArchiveTypes'
  BY <1>1, <1>2 DEF IInv, ChainTypes, ArchiveTypes, Push, archive
<1>10. Woken'
  BY DEF IInv, Woken, Push
<1> QED
  BY <1>7, <1>8, <1>9, <1>10 DEF IInv

-----------------------------------------------------------------------------
\* The storage thread

\* While no task is in flight, a step that leaves the databases and the start of the
\* batch alone keeps the fan-out.
LEMMA FanFree ==
  ASSUME Fan, UNCHANGED <<archive, log>>, BatchFrom' = BatchFrom,
         thread.pc # "wait", thread'.pc # "wait"
  PROVE  Fan'
<1>1. ASSUME NEW d \in Dbs PROVE Resting(d)'
  BY DEF Fan, Resting, archive, Followed
<1> QED
  BY <1>1 DEF Fan

\* The storage thread wakes up.
LEMMA WakeKeeps == ASSUME IInv, Wake PROVE IInv'
<1>1. /\ UNCHANGED <<archive, chainVars, fileVars, queue, batch>>
      /\ UNCHANGED <<log, pushing, prepared, lanes>> /\ thread.pc = "loop" /\ thread'.pc = "pop"
      /\ thread' = [thread EXCEPT !.pc = "pop"]
  BY DEF IInv, ChainTypes, Wake, chainVars
<1>2. ChainTypes' /\ ArchiveTypes'
  BY <1>1, Zenon DEF IInv, ChainTypes, ArchiveTypes, archive
<1>3. ~InHand /\ ~InHand' /\ Hand' = Hand
  BY <1>1 DEF InHand, Hand
<1>4. QueueFrom' = QueueFrom /\ BatchFrom' = BatchFrom
  BY <1>1, <1>3 DEF QueueFrom, BatchEnd, BatchFrom
<1>5. Order'
  BY <1>1, <1>3, <1>4 DEF IInv, Order
<1>6. Fan' /\ Files'
  BY <1>1, <1>4, FanFree, FilesStill DEF IInv
<1>7. Woken'
  BY <1>1 DEF IInv, Woken, Wake, chainVars
<1> QED
  BY <1>2, <1>5, <1>6, <1>7 DEF IInv

\* The queue has run dry: what was collected is applied.
LEMMA RanDryKeeps == ASSUME IInv, RanDry PROVE IInv'
<1>1. /\ UNCHANGED <<archive, chainVars, fileVars, queue, batch>>
      /\ UNCHANGED <<log, pushing, prepared, lanes>> /\ thread.pc = "pop"
      /\ thread'.pc = "apply" /\ thread'.then = "finish"
      /\ thread' = [thread EXCEPT !.pc = "apply", !.then = "finish"]
  BY DEF IInv, ChainTypes, RanDry, chainVars
<1>2. ChainTypes' /\ ArchiveTypes'
  BY <1>1, Zenon DEF IInv, ChainTypes, ArchiveTypes, archive
<1>3. ~InHand /\ ~InHand' /\ Hand' = Hand
  BY <1>1 DEF InHand, Hand
<1>4. QueueFrom' = QueueFrom /\ BatchFrom' = BatchFrom
  BY <1>1, <1>3 DEF QueueFrom, BatchEnd, BatchFrom
<1>5. Order'
  BY <1>1, <1>3, <1>4 DEF IInv, Order
<1>6. Fan' /\ Files'
  BY <1>1, <1>4, FanFree, FilesStill DEF IInv
<1>7. Woken'
  BY <1>1 DEF IInv, Woken, RanDry, chainVars
<1> QED
  BY <1>2, <1>5, <1>6, <1>7 DEF IInv

\* The next task comes off the queue: a connect joins the batch, a disconnect ends it.
LEMMA PopKeeps == ASSUME IInv, Pop PROVE IInv'
<1>1. /\ Len(queue) > 0 /\ Head(queue) = queue[1] /\ queue[1] \in Queued
      /\ queue' \in Seq(Queued) /\ Len(queue') = Len(queue) - 1
      /\ \A i \in 1..Len(queue') : queue'[i] = queue[i + 1]
  BY Popped DEF IInv, ChainTypes, Pop
<1>2. /\ UNCHANGED <<archive, chainVars, fileVars, event>>
      /\ UNCHANGED <<log, pushing, prepared, lanes, mutator>> /\ thread.pc = "pop" /\ ~InHand /\ Hand = 0
  BY DEF IInv, ChainTypes, Pop, chainVars, InHand, Hand
<1>3. Len(log) \in Nat /\ Len(queue) \in Nat /\ Len(pushing) \in Nat /\ Len(batch) \in Nat
  BY DEF IInv, ChainTypes
<1>4. QueueFrom \in Int /\ QueueFrom' = QueueFrom + 1
  BY <1>1, <1>2, <1>3 DEF QueueFrom
<1>5. log[QueueFrom + 1] = Move(queue[1].op, queue[1].block)
  BY <1>1, <1>3 DEF IInv, Order
<1>6. \A i \in 1..Len(queue') : log'[QueueFrom' + i] = Move(queue'[i].op, queue'[i].block)
  <2>1. \A i \in 1..Len(queue') : i + 1 \in 1..Len(queue) /\ QueueFrom' + i = QueueFrom + (i + 1)
    BY <1>1, <1>3, <1>4
  <2>2. \A i \in 1..Len(queue) : log[QueueFrom + i] = Move(queue[i].op, queue[i].block)
    BY DEF IInv, Order
  <2> QED
    BY <1>1, <1>2, <2>1, <2>2
<1>7. \A i \in 1..Len(pushing') :
        log'[QueueFrom' + Len(queue') + i] = Move(pushing'[i].op, pushing'[i].block)
  <2>1. QueueFrom' + Len(queue') = QueueFrom + Len(queue)
    BY <1>1, <1>3, <1>4
  <2>2. \A i \in 1..Len(pushing) :
          log[QueueFrom + Len(queue) + i] = Move(pushing[i].op, pushing[i].block)
    BY DEF IInv, Order
  <2> QED
    BY <1>2, <2>1, <2>2
<1>8. CASE queue[1].op = "connect"
  <2> DEFINE piece == [block |-> queue[1].block, shared |-> queue[1].block \in memory]
  <2>1. batch' = Append(batch, piece)
    BY <1>1, <1>8, Zenon DEF Pop
  <2>2. thread' \in [pc : {"pop", "apply"}, then : {"loop", "pop", "undo", "finish"}, block : Blocks]
        /\ (thread'.pc = "apply" => thread'.then = "pop")
    BY <1>1, <1>2, <1>8, Zenon DEF IInv, ChainTypes, Pop
  <2>3. piece \in Batched /\ piece.block = queue[1].block
    <3>1. queue[1].block \in Born
      BY <1>1 DEF Queued
    <3>2. (queue[1].block \in memory) \in BOOLEAN
      OBVIOUS
    <3> QED
      BY <3>1, <3>2 DEF Batched
  <2> HIDE DEF piece
  <2>4. /\ batch' \in Seq(Batched) /\ Len(batch') = Len(batch) + 1
        /\ \A i \in 1..Len(batch) : batch'[i] = batch[i]
        /\ batch'[Len(batch) + 1] = piece
    BY <2>1, <2>3, Appended DEF IInv, ChainTypes
  <2>5. ~InHand' /\ Hand' = 0
    BY <2>2 DEF InHand, Hand
  <2>6. BatchFrom' = BatchFrom /\ BatchFrom \in Int /\ BatchFrom + (Len(batch) + 1) = QueueFrom + 1
    BY <1>2, <1>3, <1>4, <2>4, <2>5, SMTT(30) DEF BatchFrom, BatchEnd
  <2>7. \A i \in 1..Len(batch') : log'[BatchFrom' + i] = Move("connect", batch'[i].block)
    <3>1. \A i \in 1..Len(batch') : i \in 1..Len(batch) \/ i = Len(batch) + 1
      BY <1>3, <2>4
    <3>2. log[BatchFrom + (Len(batch) + 1)] = Move("connect", batch'[Len(batch) + 1].block)
      BY <1>5, <1>8, <2>3, <2>4, <2>6
    <3>3. \A i \in 1..Len(batch) : log[BatchFrom + i] = Move("connect", batch[i].block)
      BY DEF IInv, Order
    <3>4. \A i \in 1..Len(batch') : log[BatchFrom + i] = Move("connect", batch'[i].block)
      BY <2>4, <3>1, <3>2, <3>3
    <3> QED
      BY <1>2, <2>6, <3>4, Zenon
  <2>8. Order'
    BY <1>6, <1>7, <2>2, <2>5, <2>6, <2>7 DEF IInv, Order
  <2>9. Fan' /\ Files'
    BY <1>2, <2>2, <2>6, FanFree, FilesStill DEF IInv
  <2>10. ChainTypes' /\ ArchiveTypes'
    BY <1>1, <1>2, <2>2, <2>4, Zenon DEF IInv, ChainTypes, ArchiveTypes, archive
  <2>11. Woken'
    BY <1>2, <2>2 DEF IInv, Woken
  <2> QED
    BY <2>8, <2>9, <2>10, <2>11 DEF IInv
<1>9. CASE queue[1].op # "connect"
  <2>1. thread' = [pc |-> "apply", then |-> "undo", block |-> queue[1].block] /\ UNCHANGED batch
    BY <1>1, <1>9, Zenon DEF Pop
  <2>2. queue[1].op = "disconnect" /\ queue[1].block \in Born
    BY <1>1, <1>9 DEF Queued
  <2>3. InHand' /\ Hand' = 1
    BY <2>1 DEF InHand, Hand
  <2>4. BatchFrom' = BatchFrom /\ BatchFrom \in Int
    BY <1>2, <1>3, <1>4, <2>1, <2>3 DEF BatchFrom, BatchEnd
  <2>5. log'[QueueFrom'] = Move("disconnect", thread'.block)
    BY <1>2, <1>4, <1>5, <2>1, <2>2, SMTT(30)
  <2>6. Order'
    BY <1>2, <1>6, <1>7, <2>1, <2>3, <2>4, <2>5, SMTT(30) DEF IInv, Order
  <2>7. Fan' /\ Files'
    BY <1>2, <2>1, <2>4, FanFree, FilesStill, Zenon DEF IInv
  <2>8. ChainTypes' /\ ArchiveTypes'
    BY <1>1, <1>2, <2>1, <2>2 DEF IInv, ChainTypes, ArchiveTypes, archive, Born
  <2>9. Woken'
    BY <1>2, <2>1 DEF IInv, Woken
  <2> QED
    BY <2>6, <2>7, <2>8, <2>9 DEF IInv
<1> QED
  BY <1>8, <1>9

\* There is no batch to apply.
LEMMA NothingKeeps == ASSUME IInv, ApplyNothing PROVE IInv'
<1>1. /\ UNCHANGED <<archive, chainVars, fileVars, queue, event, batch>>
      /\ UNCHANGED <<log, pushing, prepared, lanes, mutator>> /\ thread.pc = "apply" /\ batch = <<>>
      /\ thread'.pc = thread.then /\ thread'.then = thread.then /\ thread'.block = thread.block
      /\ thread' = [thread EXCEPT !.pc = thread.then]
      /\ thread.then \in {"loop", "pop", "undo", "finish"}
  BY DEF IInv, ChainTypes, ApplyNothing, chainVars
<1>2. ChainTypes' /\ ArchiveTypes'
  BY <1>1, Zenon DEF IInv, ChainTypes, ArchiveTypes, archive
<1>3. InHand' = InHand /\ Hand' = Hand
  BY <1>1 DEF InHand, Hand
<1>4. QueueFrom' = QueueFrom /\ BatchFrom' = BatchFrom
  BY <1>1, <1>3 DEF QueueFrom, BatchEnd, BatchFrom
<1>5. Order'
  BY <1>1, <1>3, <1>4 DEF IInv, Order
<1>6. Fan' /\ Files'
  BY <1>1, <1>4, FanFree, FilesStill DEF IInv
<1>7. Woken'
  BY <1>1 DEF IInv, Woken
<1> QED
  BY <1>2, <1>5, <1>6, <1>7 DEF IInv

\* The batch is handed to every worker.
LEMMA ApplyKeeps == ASSUME StorageAssumption, IInv, ApplyBatch PROVE IInv'
<1> DEFINE blocks == [i \in DOMAIN batch |-> batch[i].block]
<1> DEFINE task == NewTask(blocks, Depth[batch[1].block], FALSE)
<1>1. /\ UNCHANGED <<worker, from, applied, chainVars, fileVars, queue, event, batch>>
      /\ UNCHANGED <<log, pushing, prepared, lanes, mutator>> /\ thread.pc = "apply" /\ batch # <<>>
      /\ thread'.pc = "wait" /\ thread'.then = thread.then /\ thread'.block = thread.block
      /\ thread' = [thread EXCEPT !.pc = "wait"]
      /\ tasks' = Append(tasks, task)
      /\ queues' = [d \in Dbs |-> Append(queues[d], Len(tasks) + 1)]
  BY DEF IInv, ChainTypes, ApplyBatch, chainVars, Submit
<1>2. blocks \in Seq(Born) /\ Len(blocks) = Len(batch) /\ \A i \in 1..Len(batch) : blocks[i] = batch[i].block
  <2>1. batch \in Seq(Batched)
    BY DEF IInv, ChainTypes
  <2>2. DOMAIN batch = 1..Len(batch) /\ Len(batch) \in Nat /\ \A i \in 1..Len(batch) : batch[i] \in Batched
    BY <2>1
  <2>3. \A i \in 1..Len(batch) : batch[i].block \in Born
    BY <2>2 DEF Batched
  <2> QED
    BY <2>2, <2>3
<1>3. Depth[batch[1].block] \in Nat
  <2>1. batch \in Seq(Batched) /\ Len(batch) > 0
    BY <1>1 DEF IInv, ChainTypes
  <2>2. batch[1] \in Batched
    BY <2>1
  <2> QED
    BY <2>2 DEF Batched, Born, StorageAssumption
<1>4. Cardinality(Dbs) \in Nat
  BY FS_CardinalityType, SMTT(30) DEF StorageAssumption
<1>5. /\ task \in Tasks /\ task.kept /\ ~task.segment /\ task.batch = blocks
      /\ task.pending = Cardinality(Dbs)
  <2> HIDE DEF blocks
  <2> QED
    BY <1>2, <1>3, <1>4 DEF Tasks, NewTask
<1> HIDE DEF blocks, task
<1>6. /\ tasks' \in Seq(Tasks) /\ Len(tasks') = Len(tasks) + 1 /\ Len(tasks) \in Nat
      /\ tasks'[Len(tasks')] = task
  <2>1. tasks \in Seq(Tasks)
    BY DEF IInv, ArchiveTypes
  <2> QED
    BY <1>1, <1>5, <2>1, Appended
<1>7. \A d \in Dbs : queues[d] = <<>> /\ worker[d].pc = "idle" /\ Followed(d, BatchFrom)
  BY <1>1 DEF IInv, Fan, Resting
<1>8. \A d \in Dbs : /\ queues'[d] \in Seq(Nat) /\ Len(queues'[d]) = 1 /\ queues'[d][1] = Len(tasks')
                     /\ queues'[d] # <<>>
  <2>1. ASSUME NEW d \in Dbs PROVE queues'[d] = Append(<<>>, Len(tasks) + 1)
    <3>1. queues[d] = <<>> /\ queues'[d] = Append(queues[d], Len(tasks) + 1)
      BY <1>1, <1>7
    <3> QED
      BY <3>1
  <2>2. /\ Append(<<>>, Len(tasks) + 1) \in Seq(Nat) /\ Len(Append(<<>>, Len(tasks) + 1)) = 1
        /\ Append(<<>>, Len(tasks) + 1)[1] = Len(tasks) + 1
    <3>1. Len(tasks) + 1 \in Nat /\ <<>> \in Seq(Nat) /\ Len(<<>>) = 0
      BY <1>6
    <3> QED
      BY <3>1
  <2>3. Append(<<>>, Len(tasks) + 1) # <<>>
    BY <2>2
  <2> QED
    BY <1>6, <2>1, <2>2, <2>3, Zenon
<1>9. {d \in Dbs : Busy(d)}' = Dbs /\ \A d \in Dbs : Before(d)'
  BY <1>8 DEF Busy, Before
<1>10. InHand' = InHand /\ Hand' = Hand
  BY <1>1 DEF InHand, Hand
<1>11. QueueFrom' = QueueFrom /\ BatchFrom' = BatchFrom
  BY <1>1, <1>10 DEF QueueFrom, BatchEnd, BatchFrom
<1>12. ChainTypes'
  BY <1>1, Zenon DEF IInv, ChainTypes
<1>13. ArchiveTypes'
  <2>1. queues' \in [Dbs -> Seq(Nat)]
    BY <1>1, <1>8
  <2> QED
    BY <1>1, <1>6, <2>1 DEF IInv, ArchiveTypes
<1>14. Order'
  BY <1>1, <1>10, <1>11 DEF IInv, Order
<1>15. Fan'
  <2>1. Len(tasks') > 0
    BY <1>6
  <2>2. /\ tasks'[Len(tasks')].kept /\ ~tasks'[Len(tasks')].segment
        /\ Len(tasks'[Len(tasks')].batch) = Len(batch')
        /\ \A i \in 1..Len(batch') : tasks'[Len(tasks')].batch[i] = batch'[i].block
    BY <1>1, <1>2, <1>5, <1>6
  <2>3. tasks'[Len(tasks')].pending = Cardinality({d \in Dbs : Busy(d)})'
    BY <1>5, <1>6, <1>9, Zenon
  <2>4. InFlight'
    BY <2>1, <2>2, <2>3 DEF InFlight
  <2>5. ASSUME NEW d \in Dbs PROVE Placed(d)'
    <3>1. Followed(d, BatchFrom)'
      BY <1>1, <1>7, <1>11 DEF Followed
    <3> QED
      BY <1>1, <1>7, <1>8, <1>9, <3>1 DEF Placed
  <2> QED
    BY <1>1, <2>4, <2>5 DEF Fan
<1>16. Files'
  BY <1>1, <1>11, FilesStill DEF IInv
<1>17. Woken'
  BY <1>1 DEF IInv, Woken
<1> QED
  BY <1>12, <1>13, <1>14, <1>15, <1>16, <1>17 DEF IInv

\* A disconnect: every database takes the block off.
LEMMA UndoKeeps == ASSUME IInv, Undo PROVE IInv'
<1>1. /\ UNCHANGED <<tasks, queues, worker, from, chainVars, fileVars, queue, event, batch>>
      /\ UNCHANGED <<log, pushing, prepared, lanes, mutator>> /\ thread.pc = "undo"
      /\ thread'.pc = "pop" /\ thread'.then = thread.then
      /\ thread' = [thread EXCEPT !.pc = "pop"]
      /\ applied' = [d \in Dbs |-> Append(applied[d], Move("disconnect", thread.block))]
  BY DEF IInv, ChainTypes, Undo, chainVars
<1>2. /\ InHand /\ Hand = 1 /\ ~InHand' /\ Hand' = 0 /\ batch = <<>> /\ Len(batch) = 0
      /\ log[QueueFrom] = Move("disconnect", thread.block)
  BY <1>1 DEF IInv, Order, InHand, Hand
<1>3. Len(log) \in Nat /\ Len(queue) \in Nat /\ Len(pushing) \in Nat
  BY DEF IInv, ChainTypes
<1>4. /\ QueueFrom \in Int /\ QueueFrom' = QueueFrom /\ BatchFrom = QueueFrom - 1
      /\ BatchFrom' = QueueFrom /\ BatchFrom >= 0 /\ QueueFrom \in 1..Len(log)
  BY <1>1, <1>2, <1>3 DEF IInv, Order, QueueFrom, BatchFrom, BatchEnd
<1>5. Move("disconnect", thread.block) \in Made
  BY <1>2, <1>4 DEF IInv, ChainTypes
<1>6. ASSUME NEW d \in Dbs
      PROVE  applied'[d] \in Seq(Made) /\ Followed(d, BatchFrom)'
  <2>1. applied[d] \in Seq(Made) /\ Followed(d, BatchFrom)
    BY <1>1 DEF IInv, ArchiveTypes, Fan, Resting
  <2>2. applied'[d] = Append(applied[d], Move("disconnect", thread.block))
    BY <1>1
  <2>3. /\ applied'[d] \in Seq(Made) /\ Len(applied'[d]) = BatchFrom + 1
        /\ \A i \in 1..BatchFrom : applied'[d][i] = applied[d][i]
        /\ applied'[d][BatchFrom + 1] = Move("disconnect", thread.block)
    BY <1>5, <2>1, <2>2, Appended DEF Followed
  <2>4. \A i \in 1..BatchFrom' : i \in 1..BatchFrom \/ i = BatchFrom + 1
    BY <1>4
  <2>5. \A i \in 1..BatchFrom' : applied'[d][i] = log'[i]
    BY <1>1, <1>2, <1>4, <2>1, <2>3, <2>4 DEF Followed
  <2> QED
    BY <1>4, <2>3, <2>5 DEF Followed
<1>7. ChainTypes'
  BY <1>1 DEF IInv, ChainTypes
<1>8. ArchiveTypes'
  <2>1. applied' \in [Dbs -> Seq(Made)]
    BY <1>1, <1>6
  <2> QED
    BY <1>1, <2>1 DEF IInv, ArchiveTypes
<1>9. Order'
  BY <1>1, <1>2, <1>4 DEF IInv, Order
<1>10. Fan'
  BY <1>1, <1>6 DEF IInv, Fan, Resting
<1>11. Files'
  <2>1. \A i \in 1..BatchFrom' : i \in 1..BatchFrom \/ i = QueueFrom
    BY <1>4
  <2>2. log[QueueFrom].op # "connect"
    BY <1>2 DEF Move
  <2> QED
    BY <1>1, <2>1, <2>2 DEF IInv, Files, fileVars
<1>12. Woken'
  BY <1>1 DEF IInv, Woken
<1> QED
  BY <1>7, <1>8, <1>9, <1>10, <1>11, <1>12 DEF IInv

\* A flush, or none.
LEMMA FlushKeeps ==
  ASSUME IInv, NEW must \in BOOLEAN, FlushOrNot(must), UNCHANGED log, BatchFrom' = BatchFrom,
         thread'.pc = "closed" => must
  PROVE  Files'
<1>1. CASE must
  BY <1>1 DEF IInv, Files, FlushOrNot, Flush
<1>2. CASE ~must
  BY <1>2 DEF IInv, Files, FlushOrNot
<1> QED
  BY <1>1, <1>2

\* A round of the storage thread ends; and at the end of the process it ends for good.
LEMMA RestKeeps == ASSUME IInv, Finish \/ CloseStorage PROVE IInv'
<1>1. /\ UNCHANGED <<archive, chainVars, queue, event, batch>>
      /\ UNCHANGED <<log, pushing, prepared, lanes, mutator>>
      /\ thread.pc \in {"finish", "loop"} /\ thread'.pc \in {"loop", "closed"}
      /\ thread'.then = thread.then /\ thread' = [thread EXCEPT !.pc = thread'.pc]
      /\ thread'.pc = "closed" => CloseStorage
  BY Zenon DEF IInv, ChainTypes, Finish, CloseStorage, chainVars
<1>2. ChainTypes' /\ ArchiveTypes'
  BY <1>1, Zenon DEF IInv, ChainTypes, ArchiveTypes, archive
<1>3. ~InHand /\ ~InHand' /\ Hand' = Hand
  BY <1>1 DEF InHand, Hand
<1>4. QueueFrom' = QueueFrom /\ BatchFrom' = BatchFrom
  BY <1>1, <1>3 DEF QueueFrom, BatchEnd, BatchFrom
<1>5. Order'
  BY <1>1, <1>3, <1>4 DEF IInv, Order
<1>6. Fan'
  BY <1>1, <1>4, FanFree DEF IInv
<1>7. Files'
  <2>1. CASE Finish
    <3>1. thread'.pc # "closed" /\ FlushOrNot(Overflow) /\ Overflow \in BOOLEAN
      BY <2>1 DEF IInv, ChainTypes, Finish, Overflow
    <3> QED
      BY <1>1, <1>4, <3>1, FlushKeeps
  <2>2. CASE CloseStorage
    BY <1>1, <1>4, <2>2, FlushKeeps, Zenon DEF CloseStorage
  <2> QED
    BY <2>1, <2>2
<1>8. Woken'
  <2>1. thread'.pc = "closed" => mutator = "stopped" /\ ~event
    BY <1>1 DEF CloseStorage
  <2> QED
    BY <1>1, <2>1 DEF IInv, Woken
<1> QED
  BY <1>2, <1>5, <1>6, <1>7, <1>8 DEF IInv

\* Every worker has the batch: it goes to the block files and the task is dropped.
LEMMA WriteKeeps == ASSUME StorageAssumption, IInv, WriteBatch PROVE IInv'
<1> DEFINE blocks == {batch[i].block : i \in DOMAIN batch}
<1>1. /\ UNCHANGED <<queues, worker, from, applied, chainVars, queue, event>>
      /\ UNCHANGED <<log, pushing, prepared, lanes, mutator>> /\ thread.pc = "wait"
      /\ thread'.pc = thread.then /\ thread'.then = thread.then /\ thread'.block = thread.block
      /\ thread' = [thread EXCEPT !.pc = thread.then]
      /\ thread.then \in {"loop", "pop", "undo", "finish"}
      /\ batch' = <<>> /\ Len(batch') = 0
  BY DEF IInv, ChainTypes, WriteBatch, chainVars
<1>2. /\ tasks \in Seq(Tasks) /\ Len(tasks) > 0
      /\ tasks[Len(tasks)].pending = Cardinality({d \in Dbs : Busy(d)})
  BY <1>1 DEF IInv, ArchiveTypes, Fan, InFlight
<1>3. \A d \in Dbs : ~Busy(d)
  <2>1. IsFiniteSet({d \in Dbs : Busy(d)})
    BY FS_Subset DEF StorageAssumption
  <2>2. Cardinality({d \in Dbs : Busy(d)}) = 0
    BY <1>2 DEF WriteBatch, BatchTaken, Waited
  <2>3. {d \in Dbs : Busy(d)} = {}
    BY <2>1, <2>2, FS_EmptySet
  <2> QED
    BY <2>3
<1>4. \A d \in Dbs : queues[d] = <<>> /\ worker[d].pc = "idle" /\ Followed(d, BatchEnd)
  <2>1. \A d \in Dbs : ~Before(d)
    BY <1>3 DEF Busy, Before
  <2> QED
    BY <1>1, <1>3, <2>1 DEF IInv, Fan, Placed, Busy
<1>5. InHand' = InHand /\ Hand' = Hand /\ Hand \in Int
  BY <1>1 DEF InHand, Hand
<1>6. Len(log) \in Nat /\ Len(queue) \in Nat /\ Len(pushing) \in Nat /\ Len(batch) \in Nat
  BY DEF IInv, ChainTypes
<1>7. /\ QueueFrom' = QueueFrom /\ BatchFrom' = BatchEnd /\ BatchEnd = BatchFrom + Len(batch)
      /\ BatchFrom \in Nat
  BY <1>1, <1>5, <1>6 DEF QueueFrom, BatchEnd, BatchFrom, IInv, Order
<1>8. ChainTypes'
  BY <1>1 DEF IInv, ChainTypes
<1>9. ArchiveTypes'
  <2>1. tasks' \in Seq(Tasks)
    <3> DEFINE task == tasks[Len(tasks)]
    <3>1. Len(tasks) \in 1..Len(tasks) /\ task \in Tasks
      BY <1>2
    <3>2. [task EXCEPT !.kept = FALSE] \in Tasks
      BY <3>1, TaskDropped
    <3>3. tasks' = [tasks EXCEPT ![Len(tasks)] = [task EXCEPT !.kept = FALSE]]
      BY DEF WriteBatch, Dropped
    <3> HIDE DEF task
    <3> QED
      BY <1>2, <3>1, <3>2, <3>3, Replaced
  <2> QED
    BY <1>1, <2>1 DEF IInv, ArchiveTypes
<1>10. Order'
  BY <1>1, <1>5, <1>7 DEF IInv, Order
<1>11. Fan'
  <2>1. ASSUME NEW d \in Dbs PROVE Resting(d)'
    BY <1>1, <1>4, <1>7 DEF Followed, Resting
  <2> QED
    BY <1>1, <2>1 DEF Fan
<1>12. Files'
  <2>1. blocks \subseteq Blocks /\ \A i \in 1..Len(batch) : batch[i].block \in blocks
    <3>1. DOMAIN batch = 1..Len(batch) /\ \A i \in 1..Len(batch) : batch[i] \in Batched
      BY DEF IInv, ChainTypes
    <3> QED
      BY <3>1 DEF Batched, Born
  <2>2. stored' = stored \union blocks
    BY DEF WriteBatch
  <2>3. \/ disk' = stored' /\ memory' = memory \ (cached \union blocks) /\ cached' = {}
        \/ cached' = cached \union blocks /\ UNCHANGED <<memory, disk>>
    BY DEF WriteBatch, Flush
  <2> HIDE DEF blocks
  <2>4. \A i \in 1..BatchFrom' : log'[i].op = "connect" => log'[i].block \in stored'
    <3>1. ASSUME NEW i \in 1..BatchFrom' PROVE i \in 1..BatchFrom \/ \E j \in 1..Len(batch) : i = BatchFrom + j
      <4>1. i \in 1..BatchFrom \/ (i - BatchFrom \in 1..Len(batch) /\ i = BatchFrom + (i - BatchFrom))
        BY <1>6, <1>7
      <4> QED
        BY <4>1
    <3>2. ASSUME NEW j \in 1..Len(batch) PROVE log[BatchFrom + j].block \in blocks
      <4>1. log[BatchFrom + j] = Move("connect", batch[j].block)
        BY DEF IInv, Order
      <4> QED
        BY <2>1, <4>1 DEF Move
    <3> QED
      BY <1>1, <2>2, <3>1, <3>2 DEF IInv, Files
  <2> QED
    BY <1>1, <2>1, <2>2, <2>3, <2>4 DEF IInv, Files
<1>13. Woken'
  BY <1>1 DEF IInv, Woken
<1> QED
  BY <1>8, <1>9, <1>10, <1>11, <1>12, <1>13 DEF IInv

-----------------------------------------------------------------------------
\* The workers

\* What a step of a worker leaves alone, and what it may change.
Aside == UNCHANGED <<from, chainVars, fileVars, queue, event, thread, batch>>
Changed(d) ==
  /\ tasks' \in Seq(Tasks) /\ Len(tasks') = Len(tasks)
  /\ queues' \in [Dbs -> Seq(Nat)] /\ applied' \in [Dbs -> Seq(Made)]
  /\ worker' \in [Dbs -> [pc : {"idle", "connect", "release", "done"}, task : Nat]]
  /\ \A e \in Dbs \ {d} : queues'[e] = queues[e] /\ worker'[e] = worker[e] /\ applied'[e] = applied[e]

\* The places in the log stay where they are.
LEMMA AsideStill ==
  ASSUME Aside
  PROVE  UNCHANGED <<log, batch>> /\ BatchFrom' = BatchFrom /\ BatchEnd' = BatchEnd
BY DEF Aside, chainVars, BatchFrom, BatchEnd, QueueFrom, Hand, InHand

\* The task in flight stays the batch.
LEMMA FlightStill ==
  ASSUME Aside, InFlight, Len(tasks') = Len(tasks),
         tasks'[Len(tasks)].kept, ~tasks'[Len(tasks)].segment,
         tasks'[Len(tasks)].batch = tasks[Len(tasks)].batch,
         tasks'[Len(tasks)].pending = Cardinality({d \in Dbs : Busy(d)})'
  PROVE  InFlight'
BY AsideStill DEF InFlight

\* The place of a database whose worker does nothing stays.
LEMMA PlacedStill ==
  ASSUME NEW e \in Dbs, Placed(e), queues'[e] = queues[e], worker'[e] = worker[e], applied'[e] = applied[e],
         UNCHANGED log, Len(tasks') = Len(tasks), BatchFrom' = BatchFrom, BatchEnd' = BatchEnd
  PROVE  Placed(e)'
BY SMTT(30) DEF Placed, Followed, Before

\* The place of a database whose worker has taken the task.
LEMMA PlacedMoved ==
  ASSUME NEW d \in Dbs, Aside, Len(tasks') = Len(tasks),
         queues'[d] = <<>>, worker'[d].pc # "idle" => worker'[d].task = Len(tasks),
         Len(applied'[d]) = IF worker'[d].pc = "connect" THEN BatchFrom ELSE BatchEnd,
         \A i \in 1..Len(applied'[d]) : applied'[d][i] = log[i]
  PROVE  Placed(d)'
<1>1. Before(d)' <=> worker'[d].pc = "connect"
  BY DEF Before
<1> QED
  BY <1>1, AsideStill DEF Placed, Followed

\* A step of the worker of one database changes its own place only: what has to be shown
\* of the task in flight and of that database.
LEMMA WorkerKeeps ==
  ASSUME IInv, NEW d \in Dbs, thread.pc = "wait", Aside, Changed(d), InFlight', Placed(d)'
  PROVE  IInv'
<1>1. UNCHANGED <<log, pushing, prepared, lanes, mutator, queue, event, thread, batch, from, fileVars>>
  BY DEF Aside, chainVars
<1>2. ChainTypes'
  BY <1>1 DEF IInv, ChainTypes
<1>3. ArchiveTypes'
  BY <1>1 DEF IInv, ArchiveTypes, Changed
<1>4. Order' /\ BatchFrom' = BatchFrom /\ BatchEnd' = BatchEnd
  BY <1>1, OrderStill DEF IInv
<1>5. ASSUME NEW e \in Dbs PROVE Placed(e)'
  <2>1. CASE e = d
    BY <2>1, Zenon
  <2>2. CASE e # d
    <3>1. Placed(e)
      BY SMTT(30) DEF IInv, Fan
    <3>2. /\ queues'[e] = queues[e] /\ worker'[e] = worker[e] /\ applied'[e] = applied[e]
          /\ Len(tasks') = Len(tasks)
      BY <2>2 DEF Changed
    <3> QED
      BY <1>1, <1>4, <3>1, <3>2, PlacedStill
  <2> QED
    BY <2>1, <2>2
<1>6. Fan'
  BY <1>1, <1>5 DEF Fan
<1>7. Files'
  BY <1>1, <1>4, FilesStill DEF IInv
<1>8. Woken'
  BY <1>1 DEF IInv, Woken
<1> QED
  BY <1>2, <1>3, <1>4, <1>6, <1>7, <1>8 DEF IInv

\* What the invariant says of a database whose worker has something to do.
LEMMA AtWork ==
  ASSUME IInv, NEW d \in Dbs, Busy(d)
  PROVE  /\ thread.pc = "wait" /\ InFlight /\ Placed(d)
         /\ tasks \in Seq(Tasks) /\ Len(tasks) \in 1..Len(tasks) /\ tasks[Len(tasks)] \in Tasks
         /\ tasks[Len(tasks)].kept /\ ~tasks[Len(tasks)].segment
         /\ tasks[Len(tasks)].pending = Cardinality({e \in Dbs : Busy(e)})
<1>1. thread.pc = "wait"
  BY DEF IInv, Fan, Busy, Resting
<1>2. InFlight /\ Placed(d)
  BY <1>1 DEF IInv, Fan
<1>3. tasks \in Seq(Tasks)
  BY DEF IInv, ArchiveTypes
<1>4. Len(tasks) > 0
  BY <1>2 DEF InFlight
<1>5. Len(tasks) \in 1..Len(tasks) /\ tasks[Len(tasks)] \in Tasks
  BY <1>3, <1>4
<1> QED
  BY <1>1, <1>2, <1>3, <1>5, Zenon DEF InFlight

\* A worker takes the task.
LEMMA TakeKeeps ==
  ASSUME IInv, NEW d \in Dbs, WorkerTake(d),
         Aside
  PROVE  IInv'
<1>1. Busy(d) /\ queues[d] # <<>> /\ Before(d) /\ UNCHANGED <<tasks, from, applied>>
  BY DEF WorkerTake, Busy, Before
<1>2. queues[d] \in Seq(Nat) /\ Len(queues[d]) = 1 /\ queues[d][1] = Len(tasks) /\ Len(tasks) \in Nat
  <2>1. queues[d] \in Seq(Nat) /\ tasks \in Seq(Tasks)
    BY DEF IInv, ArchiveTypes
  <2>2. Len(queues[d]) = 1 /\ queues[d][1] = Len(tasks)
    BY <1>1, AtWork, Zenon DEF Placed
  <2> QED
    BY <2>1, <2>2
<1>3. Head(queues[d]) = Len(tasks) /\ Tail(queues[d]) = <<>>
  <2>1. /\ Head(queues[d]) = queues[d][1] /\ Tail(queues[d]) \in Seq(Nat)
        /\ Len(Tail(queues[d])) = Len(queues[d]) - 1
    BY <1>1, <1>2, Popped
  <2>2. Len(Tail(queues[d])) = 0
    BY <1>2, <2>1
  <2>3. Tail(queues[d]) = <<>>
    BY <2>1, <2>2, Emptied, Zenon
  <2> QED
    BY <1>2, <2>1, <2>3
<1>4. /\ queues' \in [Dbs -> Seq(Nat)] /\ queues'[d] = <<>>
      /\ \A e \in Dbs \ {d} : queues'[e] = queues[e]
  BY <1>3 DEF IInv, ArchiveTypes, WorkerTake
<1>5. /\ worker' \in [Dbs -> [pc : {"idle", "connect", "release", "done"}, task : Nat]]
      /\ worker'[d].pc = "connect" /\ worker'[d].task = Len(tasks)
      /\ \A e \in Dbs \ {d} : worker'[e] = worker[e]
  BY <1>2, <1>3 DEF IInv, ArchiveTypes, WorkerTake
<1>6. {e \in Dbs : Busy(e)}' = {e \in Dbs : Busy(e)}
  <2>1. ASSUME NEW e \in Dbs PROVE Busy(e)' <=> Busy(e)
    BY <1>1, <1>4, <1>5, SMTT(30) DEF Busy
  <2> QED
    BY <2>1
<1>7. Len(applied[d]) = BatchFrom /\ \A i \in 1..Len(applied[d]) : applied[d][i] = log[i]
  BY <1>1, AtWork, Zenon DEF Placed, Followed
<1>8. Changed(d)
  <2>1. tasks \in Seq(Tasks) /\ applied \in [Dbs -> Seq(Made)]
    BY Zenon DEF IInv, ArchiveTypes
  <2> QED
    BY <1>1, <1>4, <1>5, <2>1, Zenon DEF Changed
<1>9. thread.pc = "wait" /\ InFlight /\ InFlight'
  BY <1>1, <1>6, AtWork, FlightStill, Zenon
<1>10. Placed(d)'
  BY <1>1, <1>4, <1>5, <1>7, PlacedMoved, Zenon
<1> QED
  BY <1>8, <1>9, <1>10, WorkerKeeps

\* A worker gives its database the batch: the database needs all of it.
LEMMA ConnectedKeeps ==
  ASSUME IInv, NEW d \in Dbs, WorkerConnect(d),
         Aside
  PROVE  IInv'
<1> DEFINE task == tasks[Len(tasks)]
<1>1. Busy(d) /\ worker[d].pc = "connect" /\ Before(d) /\ UNCHANGED <<tasks, queues, from>>
  BY DEF WorkerConnect, Busy, Before
<1>2. /\ thread.pc = "wait" /\ task \in Tasks /\ task.kept /\ ~task.segment
      /\ task.pending = Cardinality({e \in Dbs : Busy(e)})
      /\ worker[d].task = Len(tasks) /\ queues[d] = <<>>
      /\ applied[d] \in Seq(Made)
      /\ Len(applied[d]) = BatchFrom /\ \A i \in 1..BatchFrom : applied[d][i] = log[i]
  <2>1. applied[d] \in Seq(Made)
    BY DEF IInv, ArchiveTypes
  <2>2. worker[d].task = Len(tasks) /\ queues[d] = <<>> /\ Followed(d, BatchFrom)
    BY <1>1, AtWork, Zenon DEF Placed
  <2>3. Len(applied[d]) = BatchFrom /\ \A i \in 1..BatchFrom : applied[d][i] = log[i]
    BY <2>2, Zenon DEF Followed
  <2>4. /\ thread.pc = "wait" /\ task \in Tasks /\ task.kept /\ ~task.segment
        /\ task.pending = Cardinality({e \in Dbs : Busy(e)})
    BY <1>1, AtWork, Zenon
  <2> QED
    BY <2>1, <2>2, <2>3, <2>4, Zenon
<1>3. task.batch \in Seq(Born) /\ Len(task.batch) = Len(batch)
      /\ \A i \in 1..Len(batch) : task.batch[i] = batch[i].block
  <2>1. InFlight
    BY <1>1, AtWork, Zenon
  <2>2. task.batch \in Seq(Born)
    BY <1>2 DEF Tasks
  <2> QED
    BY <2>1, <2>2, Zenon DEF InFlight
<1>4. TailOf(d, task) = task.batch
  <2>1. from[d] = 0 /\ task.first \in Nat
    <3>1. from[d] = 0
      BY DEF IInv, ArchiveTypes
    <3> HIDE DEF task
    <3>2. task.first \in Nat
      BY <1>2 DEF Tasks
    <3> QED
      BY <3>1, <3>2
  <2>2. TailOf(d, task) = SubSeq(task.batch, 1, Len(task.batch))
    BY <2>1 DEF TailOf
  <2> HIDE DEF task
  <2> QED
    BY <1>3, <2>2, Whole, Zenon
<1>5. applied' = [applied EXCEPT ![d] = applied[d] \o Moves("connect", task.batch)]
  <2>1. applied' = [applied EXCEPT ![d] = @ \o Moves("connect", TailOf(d, tasks[worker[d].task]))]
    BY Zenon DEF WorkerConnect
  <2>2. tasks[worker[d].task] = task
    BY <1>2, Zenon
  <2> QED
    BY <1>4, <2>1, <2>2, Zenon
<1> HIDE DEF task
<1>6. /\ Moves("connect", task.batch) \in Seq(Made) /\ Len(Moves("connect", task.batch)) = Len(batch)
      /\ \A i \in 1..Len(batch) : Moves("connect", task.batch)[i] = Move("connect", batch[i].block)
  <2>1. /\ Moves("connect", task.batch) \in Seq(Made)
        /\ Len(Moves("connect", task.batch)) = Len(task.batch)
        /\ \A i \in 1..Len(task.batch) : Moves("connect", task.batch)[i] = Move("connect", task.batch[i])
    BY <1>3, MovesMade, Zenon
  <2> QED
    BY <1>3, <2>1, Zenon
<1>7. /\ applied' \in [Dbs -> Seq(Made)] /\ Len(applied'[d]) = BatchFrom + Len(batch)
      /\ \A i \in 1..BatchFrom : applied'[d][i] = log[i]
      /\ \A i \in 1..Len(batch) : applied'[d][BatchFrom + i] = log[BatchFrom + i]
      /\ \A e \in Dbs \ {d} : applied'[e] = applied[e]
  <2> DEFINE new == Moves("connect", task.batch)
  <2>1. /\ applied[d] \o new \in Seq(Made)
        /\ Len(applied[d] \o new) = Len(applied[d]) + Len(new)
        /\ \A i \in 1..Len(applied[d]) : (applied[d] \o new)[i] = applied[d][i]
        /\ \A i \in 1..Len(new) : (applied[d] \o new)[Len(applied[d]) + i] = new[i]
    <3>1. applied[d] \in Seq(Made) /\ new \in Seq(Made)
      BY <1>2, <1>6, Zenon
    <3> HIDE DEF new
    <3> QED
      BY <3>1, JoinedMade, Zenon
  <2>2. \A i \in 1..Len(batch) : log[BatchFrom + i] = Move("connect", batch[i].block)
    BY DEF IInv, Order
  <2>3. applied \in [Dbs -> Seq(Made)]
    BY DEF IInv, ArchiveTypes
  <2> HIDE DEF new
  <2>4. applied'[d] = applied[d] \o new
    BY <1>5, <2>3 DEF new
  <2>5. applied' \in [Dbs -> Seq(Made)] /\ \A e \in Dbs \ {d} : applied'[e] = applied[e]
    BY <1>5, <2>1, <2>3 DEF new
  <2>6. Len(new) = Len(batch) /\ \A i \in 1..Len(batch) : new[i] = log[BatchFrom + i]
    BY <1>6, <2>2, SMTT(30) DEF new
  <2>7. \A i \in 1..BatchFrom : applied'[d][i] = log[i]
    BY <1>2, <2>1, <2>4, SMTT(30)
  <2>8. \A i \in 1..Len(batch) : applied'[d][BatchFrom + i] = log[BatchFrom + i]
    BY <1>2, <2>1, <2>4, <2>6, SMTT(30)
  <2>9. Len(applied'[d]) = BatchFrom + Len(batch)
    <3>1. Len(applied'[d]) = Len(applied[d]) + Len(new)
      BY <2>1, <2>4, Zenon
    <3> QED
      BY <1>2, <2>6, <3>1, Zenon
  <2> QED
    BY <2>5, <2>7, <2>8, <2>9, Zenon
<1>8. Len(applied'[d]) = BatchEnd /\ \A i \in 1..Len(applied'[d]) : applied'[d][i] = log[i]
  <2>1. BatchFrom \in Nat /\ Len(batch) \in Nat /\ BatchEnd = BatchFrom + Len(batch)
    BY <1>2 DEF IInv, ChainTypes, Order, BatchFrom, BatchEnd, QueueFrom, Hand
  <2>2. ASSUME NEW i \in 1..Len(applied'[d]) PROVE applied'[d][i] = log[i]
    <3>1. i \in 1..BatchFrom \/ (i - BatchFrom \in 1..Len(batch) /\ i = BatchFrom + (i - BatchFrom))
      BY <1>7, <2>1
    <3> QED
      BY <1>7, <3>1
  <2> QED
    BY <1>7, <2>1, <2>2
<1>9. /\ worker' \in [Dbs -> [pc : {"idle", "connect", "release", "done"}, task : Nat]]
      /\ worker'[d].pc = "release" /\ worker'[d].task = Len(tasks)
      /\ \A e \in Dbs \ {d} : worker'[e] = worker[e]
  BY <1>2, Zenon DEF IInv, ArchiveTypes, WorkerConnect
<1>10. {e \in Dbs : Busy(e)}' = {e \in Dbs : Busy(e)}
  <2>1. ASSUME NEW e \in Dbs PROVE Busy(e)' <=> Busy(e)
    BY <1>1, <1>9, SMTT(30) DEF Busy
  <2> QED
    BY <2>1
<1>11. Changed(d)
  <2>1. tasks \in Seq(Tasks) /\ queues \in [Dbs -> Seq(Nat)]
    BY DEF IInv, ArchiveTypes
  <2>2. tasks' = tasks /\ queues' = queues
    BY <1>1
  <2> QED
    BY <1>7, <1>9, <2>1, <2>2, Zenon DEF Changed
<1>12. thread.pc = "wait" /\ InFlight /\ InFlight'
  BY <1>1, <1>10, AtWork, FlightStill, Zenon
<1>13. Placed(d)'
  BY <1>1, <1>2, <1>8, <1>9, PlacedMoved, SMTT(30)
<1> QED
  BY <1>11, <1>12, <1>13, WorkerKeeps

\* A worker gives up its share, which a batch of the queue has none of.
LEMMA ReleaseKeeps ==
  ASSUME IInv, NEW d \in Dbs, WorkerRelease(d),
         Aside
  PROVE  IInv'
<1> DEFINE task == tasks[Len(tasks)]
<1>1. Busy(d) /\ worker[d].pc = "release" /\ UNCHANGED <<queues, from, applied>>
  BY DEF WorkerRelease, Busy
<1>2. /\ thread.pc = "wait" /\ tasks \in Seq(Tasks) /\ Len(tasks) \in 1..Len(tasks)
      /\ task \in Tasks /\ task.kept /\ ~task.segment
      /\ task.pending = Cardinality({e \in Dbs : Busy(e)})
  BY <1>1, AtWork, Zenon
<1>3. /\ worker[d].task = Len(tasks) /\ queues[d] = <<>>
      /\ Len(applied[d]) = BatchEnd /\ \A i \in 1..Len(applied[d]) : applied[d][i] = log[i]
  BY <1>1, AtWork, Zenon DEF Placed, Followed, Before
<1>4. tasks' = [tasks EXCEPT ![Len(tasks)] = [task EXCEPT !.shares = task.shares]]
  BY <1>2, <1>3 DEF WorkerRelease
<1>5. [task EXCEPT !.shares = task.shares] = task
  BY <1>2, Zenon DEF Tasks
<1> HIDE DEF task
<1>6. tasks' \in Seq(Tasks) /\ Len(tasks') = Len(tasks) /\ tasks'[Len(tasks)] = task
  BY <1>2, <1>4, <1>5, Replaced
<1>7. /\ worker' \in [Dbs -> [pc : {"idle", "connect", "release", "done"}, task : Nat]]
      /\ worker'[d].pc = "done" /\ worker'[d].task = Len(tasks)
      /\ \A e \in Dbs \ {d} : worker'[e] = worker[e]
  BY <1>3, Zenon DEF IInv, ArchiveTypes, WorkerRelease
<1>8. {e \in Dbs : Busy(e)}' = {e \in Dbs : Busy(e)}
  <2>1. ASSUME NEW e \in Dbs PROVE Busy(e)' <=> Busy(e)
    BY <1>1, <1>7 DEF Busy
  <2> QED
    BY <2>1
<1>9. Changed(d)
  BY <1>1, <1>6, <1>7, SMTT(30) DEF IInv, ArchiveTypes, Changed
<1>10. thread.pc = "wait" /\ InFlight /\ InFlight'
  BY <1>1, <1>2, <1>6, <1>8, AtWork, FlightStill, Zenon DEF task
<1>11. Placed(d)'
  BY <1>1, <1>3, <1>6, <1>7, PlacedMoved
<1> QED
  BY <1>9, <1>10, <1>11, WorkerKeeps

\* A worker is done with the task, and the count knows.
LEMMA DoneKeeps ==
  ASSUME StorageAssumption, IInv, NEW d \in Dbs, WorkerDone(d),
         Aside
  PROVE  IInv'
<1> DEFINE task == tasks[Len(tasks)]
<1> DEFINE counted == [task EXCEPT !.pending = task.pending - 1]
<1>1. Busy(d) /\ worker[d].pc = "done" /\ UNCHANGED <<queues, from, applied>>
  BY DEF WorkerDone, Busy
<1>2. /\ thread.pc = "wait" /\ tasks \in Seq(Tasks) /\ Len(tasks) \in 1..Len(tasks)
      /\ task \in Tasks /\ task.kept /\ ~task.segment
      /\ task.pending = Cardinality({e \in Dbs : Busy(e)})
  BY <1>1, AtWork, Zenon
<1>3. /\ worker[d].task = Len(tasks) /\ queues[d] = <<>>
      /\ Len(applied[d]) = BatchEnd /\ \A i \in 1..Len(applied[d]) : applied[d][i] = log[i]
  BY <1>1, AtWork, Zenon DEF Placed, Followed, Before
<1>4. tasks' = [tasks EXCEPT ![Len(tasks)] = counted]
  BY <1>3, Zenon DEF WorkerDone
<1>5. /\ counted \in Tasks /\ counted.kept /\ ~counted.segment /\ counted.batch = task.batch
      /\ counted.pending = task.pending - 1
  <2>1. task.pending - 1 \in Int
    BY <1>2 DEF Tasks
  <2> HIDE DEF task
  <2> QED
    BY <1>2, <2>1, TaskCounted
<1> HIDE DEF task, counted
<1>6. tasks' \in Seq(Tasks) /\ Len(tasks') = Len(tasks) /\ tasks'[Len(tasks)] = counted
  BY <1>2, <1>4, <1>5, Replaced
<1>7. /\ worker' \in [Dbs -> [pc : {"idle", "connect", "release", "done"}, task : Nat]]
      /\ worker'[d].pc = "idle"
      /\ \A e \in Dbs \ {d} : worker'[e] = worker[e]
  BY DEF IInv, ArchiveTypes, WorkerDone, IdleWorker
<1>8. {e \in Dbs : Busy(e)}' = {e \in Dbs : Busy(e)} \ {d}
  <2>1. ~Busy(d)'
    BY <1>1, <1>3, <1>7 DEF Busy
  <2>2. ASSUME NEW e \in Dbs \ {d} PROVE Busy(e)' <=> Busy(e)
    BY <1>1, <1>7 DEF Busy
  <2> QED
    BY <2>1, <2>2, SMTT(30)
<1>9. counted.pending = Cardinality({e \in Dbs : Busy(e)}')
  <2>1. IsFiniteSet({e \in Dbs : Busy(e)})
    BY FS_Subset, SMTT(30) DEF StorageAssumption
  <2>2. d \in {e \in Dbs : Busy(e)}
    BY <1>1
  <2>3. Cardinality({e \in Dbs : Busy(e)} \ {d}) = Cardinality({e \in Dbs : Busy(e)}) - 1
    BY <2>1, <2>2, FS_RemoveElement
  <2> QED
    BY <1>2, <1>5, <1>8, <2>3, Zenon
<1>10. Changed(d)
  BY <1>1, <1>6, <1>7, SMTT(30) DEF IInv, ArchiveTypes, Changed
<1>11. thread.pc = "wait" /\ InFlight /\ InFlight'
  BY <1>1, <1>5, <1>6, <1>9, AtWork, FlightStill, Zenon DEF task
<1>12. Placed(d)'
  BY <1>1, <1>3, <1>6, <1>7, PlacedMoved, SMTT(30)
<1> QED
  BY <1>10, <1>11, <1>12, WorkerKeeps

-----------------------------------------------------------------------------
\* The invariant

\* Nothing happens.
LEMMA StutterKeeps == ASSUME IInv, UNCHANGED vars PROVE IInv'
<1>1. UNCHANGED <<archive, log, pushing, queue, thread, batch, prepared, lanes, mutator, event, fileVars>>
  BY DEF vars, chainVars
<1>2. BatchFrom' = BatchFrom
  BY <1>1 DEF BatchFrom, BatchEnd, QueueFrom, Hand, InHand
<1>3. Files'
  BY <1>1, <1>2, FilesStill DEF IInv
<1>4. Woken' /\ prepared' \subseteq Born /\ lanes' \subseteq Born
  BY <1>1 DEF IInv, Woken, ChainTypes
<1> QED
  BY <1>1, <1>3, <1>4, AsideKeeps

\* Every step of the serial worker, of the storage thread and of the archive workers keeps
\* the invariant.
LEMMA StepHolds == ASSUME StorageAssumption, IInv, [Next]_vars PROVE IInv'
<1>1. CASE Mutator
  BY <1>1, AsideSteps, DisconnectKeeps, ConnectKeeps, PushKeeps DEF Mutator
<1>2. CASE StorageThread
  BY <1>2, WakeKeeps, PopKeeps, RanDryKeeps, NothingKeeps, ApplyKeeps, WriteKeeps, UndoKeeps, RestKeeps, SMTT(30)
     DEF StorageThread
<1>3. CASE Timer
  BY <1>3, AsideSteps
<1>4. CASE CloseStorage
  BY <1>4, RestKeeps
<1>5. CASE Closed
  BY <1>5, StutterKeeps DEF Closed
<1>6. ASSUME NEW d \in Dbs, DbStep(d) PROVE IInv'
  <2>1. Aside
    BY <1>6, Zenon DEF DbStep, WorkerStep, WorkerTake, WorkerConnect, WorkerRelease, WorkerDone, Aside
  <2> QED
    BY <1>6, <2>1, TakeKeeps, ConnectedKeeps, ReleaseKeeps, DoneKeeps, SMTT(30) DEF DbStep, WorkerStep
<1>7. CASE UNCHANGED vars
  BY <1>7, StutterKeeps
<1> QED
  BY <1>1, <1>2, <1>3, <1>4, <1>5, <1>6, <1>7, SMTT(30) DEF Next

\* The invariant holds in every state.
LEMMA AlwaysHolds == ASSUME StorageAssumption PROVE Spec => []IInv
<1>1. Init => IInv
  BY InitHolds
<1>2. IInv /\ [Next]_vars => IInv'
  BY StepHolds
<1> QED
  BY <1>1, <1>2, PTL DEF Spec

-----------------------------------------------------------------------------
\* Theorems

\* Every archive database makes the moves of utxodb in utxodb's order, however the storage
\* thread cuts the queue into batches and its workers interleave (storage.cpp:139).
THEOREM InOrderHolds == ASSUME StorageAssumption PROVE Spec => []InOrder
<1>1. IInv => InOrder
  <2> SUFFICES ASSUME IInv, NEW d \in Dbs
               PROVE  Len(applied[d]) <= Len(log) /\ \A i \in 1..Len(applied[d]) : applied[d][i] = log[i]
    BY DEF InOrder
  <2>1. PICK n \in {BatchFrom, BatchEnd} : Followed(d, n)
    <3>1. CASE thread.pc = "wait"
      BY <3>1, SMTT(30) DEF IInv, Fan, Placed
    <3>2. CASE thread.pc # "wait"
      BY <3>2 DEF IInv, Fan, Resting
    <3> QED
      BY <3>1, <3>2, SMTT(30)
  <2>2. n <= Len(log)
    BY DEF IInv, ChainTypes, BatchFrom, BatchEnd, QueueFrom, Hand
  <2> QED
    BY <2>1, <2>2 DEF Followed
<1> QED
  BY <1>1, AlwaysHolds, PTL

\* A task on the storage thread's stack outlives the workers that read it
\* (archive.cpp:71-75, :109-113).
THEOREM TaskOutlivesWorkersHolds == ASSUME StorageAssumption PROVE Spec => []TaskOutlivesWorkers
<1>1. IInv => TaskOutlivesWorkers
  <2> SUFFICES ASSUME IInv, NEW d \in Dbs
               PROVE  /\ worker[d].pc # "idle" => tasks[worker[d].task].kept
                      /\ \A i \in DOMAIN queues[d] : tasks[queues[d][i]].kept
    BY DEF TaskOutlivesWorkers
  <2>1. worker[d].pc # "idle" => tasks[worker[d].task].kept
    BY AtWork, Zenon DEF Busy, Placed
  <2>2. ASSUME NEW i \in DOMAIN queues[d] PROVE tasks[queues[d][i]].kept
    <3>1. queues[d] \in Seq(Nat)
      BY DEF IInv, ArchiveTypes
    <3>2. queues[d] # <<>> /\ i \in 1..Len(queues[d])
      BY <3>1
    <3>3. Len(queues[d]) = 1 /\ queues[d][1] = Len(tasks) /\ tasks[Len(tasks)].kept
      BY <3>2, AtWork, Zenon DEF Busy, Placed
    <3>4. i = 1
      BY <3>2, <3>3
    <3> QED
      BY <3>3, <3>4
  <2> QED
    BY <2>1, <2>2, SMTT(30)
<1> QED
  BY <1>1, AlwaysHolds, PTL

\* The storage thread changes a database itself only while its worker has nothing of that
\* database (archive.h:141-144).
THEOREM OneMutatorHolds == ASSUME StorageAssumption PROVE Spec => []OneMutator
<1>1. IInv => OneMutator
  BY DEF IInv, Fan, Resting, OneMutator
<1> QED
  BY <1>1, AlwaysHolds, PTL

\* The blocks of queued tasks.
LEMMA QueuedBlocks == ASSUME NEW s \in Seq(Queued) PROVE \A i \in DOMAIN s : s[i].block \in Blocks
<1>1. \A i \in DOMAIN s : s[i] \in Queued
  OBVIOUS
<1> QED
  BY <1>1 DEF Queued, Born

\* A block is in memory or in the files whenever its task comes up, whatever preparation
\* and the flushes do meanwhile (storage.cpp:146 and :160).
THEOREM AlwaysReadableHolds == ASSUME StorageAssumption PROVE Spec => []AlwaysReadable
<1>1. IInv => AlwaysReadable
  <2> SUFFICES ASSUME IInv PROVE AlwaysReadable
    OBVIOUS
  <2>1. \A b \in Blocks : Readable(b)
    BY DEF IInv, Files, Readable
  <2>2. \A i \in DOMAIN queue : queue[i].block \in Blocks
    BY QueuedBlocks DEF IInv, ChainTypes
  <2>3. \A i \in DOMAIN pushing : pushing[i].block \in Blocks
    BY QueuedBlocks DEF IInv, ChainTypes
  <2>4. thread.block \in Blocks
    BY DEF IInv, ChainTypes
  <2>5. OnChain \subseteq Blocks
    BY DEF OnChain
  <2> QED
    BY <2>1, <2>2, <2>3, <2>4, <2>5 DEF AlwaysReadable
<1> QED
  BY <1>1, AlwaysHolds, PTL

\* At the end of the process the queue is empty, every database stands where utxodb stands,
\* and every block that was connected is on disk (~Storage).
THEOREM ClosedCompleteHolds == ASSUME StorageAssumption PROVE Spec => []ClosedComplete
<1>1. IInv => ClosedComplete
  <2> SUFFICES ASSUME IInv, thread.pc = "closed"
               PROVE  /\ queue = <<>> /\ batch = <<>> /\ Genesis \in disk
                      /\ \A d \in Dbs : applied[d] = log
                      /\ \A i \in DOMAIN log : log[i].op = "connect" => log[i].block \in disk
    BY DEF ClosedComplete
  <2>1. queue = <<>> /\ pushing = <<>> /\ batch = <<>>
    BY DEF IInv, Woken, Order
  <2>2. BatchFrom = Len(log) /\ log \in Seq(Made)
    <3>1. Len(queue) = 0 /\ Len(pushing) = 0 /\ Len(batch) = 0 /\ Hand = 0 /\ log \in Seq(Made)
      BY <2>1 DEF Hand, InHand, IInv, ChainTypes
    <3>2. Len(log) \in Nat
      BY <3>1
    <3> QED
      BY <3>1, <3>2 DEF BatchFrom, BatchEnd, QueueFrom
  <2>3. ASSUME NEW d \in Dbs PROVE applied[d] = log
    <3>1. applied[d] \in Seq(Made) /\ Followed(d, Len(log))
      BY <2>2 DEF IInv, ArchiveTypes, Fan, Resting
    <3> QED
      BY <2>2, <3>1, SameElements DEF Followed
  <2>4. Genesis \in disk /\ \A i \in DOMAIN log : log[i].op = "connect" => log[i].block \in disk
    <3>1. DOMAIN log = 1..Len(log)
      BY <2>2
    <3> QED
      BY <2>2, <3>1 DEF IInv, Files
  <2> QED
    BY <2>1, <2>3, <2>4
<1> QED
  BY <1>1, AlwaysHolds, PTL

\* Order, the life of the tasks, one mutator and completeness hold together: the archive
\* follows the chain, whatever the serial worker, the storage thread and the archive
\* workers do beside each other.
THEOREM DatabasesFollowHolds == ASSUME StorageAssumption PROVE Spec => []DatabasesFollow
<1>1. InOrder /\ TaskOutlivesWorkers /\ OneMutator /\ ClosedComplete => DatabasesFollow
  BY DEF DatabasesFollow
<1> QED
  BY <1>1, InOrderHolds, TaskOutlivesWorkersHolds, OneMutatorHolds, ClosedCompleteHolds, PTL
=============================================================================
