--------------------------- MODULE ArchiveWorkers ---------------------------
(***************************************************************************)
(* The fan-out of db/archive.cpp: one worker thread per archive database.  *)
(* A task is queued for every worker at once, each worker gives its own    *)
(* database the part of the batch that is new to it, and whoever submitted *)
(* the task may drop it once nobody counts on it any more.  This module    *)
(* is the state and the workers; StorageQueue and CatchUp submit tasks.    *)
(***************************************************************************)
EXTENDS Integers, Sequences, FiniteSets

CONSTANTS
  Dbs,     \* AllDb_
  Never    \* the wake-up height of a database that needs nothing (UINT32_MAX)

VARIABLES
  tasks,    \* the tasks submitted so far, the n-th is number n
  queues,   \* ConnectQueues_
  worker,   \* [Dbs -> [pc, task]]: the workers
  from,     \* ConnectFromHeight_
  applied   \* the moves each database has made, in order

archive == <<tasks, queues, worker, from, applied>>

IdleWorker == [pc |-> "idle", task |-> 0]

\* A move of the chain as a database sees it
Move(op, b) == [op |-> op, block |-> b]
Moves(op, s) == [i \in DOMAIN s |-> Move(op, s[i])]

\* The blocks of a task, the height of the first, the count of workers still to come,
\* whether it owns the decoded blocks (a catch-up segment: a share for every worker and one
\* for the submitter), and whether the submitter still keeps the task
NewTask(batch, first, segment) ==
  [batch |-> batch, first |-> first, pending |-> Cardinality(Dbs), segment |-> segment,
   shares |-> IF segment THEN Cardinality(Dbs) + 1 ELSE 0, kept |-> TRUE]

ArchiveInit(wakeUp) ==
  /\ tasks = <<>>
  /\ queues = [d \in Dbs |-> <<>>]
  /\ worker = [d \in Dbs |-> IdleWorker]
  /\ from = wakeUp
  /\ applied = [d \in Dbs |-> <<>>]

-----------------------------------------------------------------------------

Submit(task) ==
  /\ tasks' = Append(tasks, task)
  /\ queues' = [d \in Dbs |-> Append(queues[d], Len(tasks) + 1)]

\* wait() returns, and the submitter drops the task
Waited(t) == tasks[t].pending = 0
Dropped(t) == [tasks EXCEPT ![t].kept = FALSE]

WorkerTake(d) ==
  /\ worker[d].pc = "idle" /\ queues[d] # <<>>
  /\ worker' = [worker EXCEPT ![d] = [pc |-> "connect", task |-> Head(queues[d])]]
  /\ queues' = [queues EXCEPT ![d] = Tail(@)]
  /\ UNCHANGED <<tasks, from, applied>>

\* connectSlot: the tail of the batch from the database's own height on
TailOf(d, task) ==
  LET skip == IF from[d] > task.first THEN from[d] - task.first ELSE 0
  IN SubSeq(task.batch, skip + 1, Len(task.batch))

WorkerConnect(d) ==
  /\ worker[d].pc = "connect"
  /\ LET t == worker[d].task IN
       applied' = [applied EXCEPT ![d] = @ \o Moves("connect", TailOf(d, tasks[t]))]
  /\ worker' = [worker EXCEPT ![d].pc = "release"]
  /\ UNCHANGED <<tasks, queues, from>>

\* The worker gives up its share of the decoded blocks ...
WorkerRelease(d) ==
  /\ worker[d].pc = "release"
  /\ LET t == worker[d].task IN
       tasks' = [tasks EXCEPT ![t].shares = IF tasks[t].segment THEN @ - 1 ELSE @]
  /\ worker' = [worker EXCEPT ![d].pc = "done"]
  /\ UNCHANGED <<queues, from, applied>>

\* ... and then its place in the count
WorkerDone(d) ==
  /\ worker[d].pc = "done"
  /\ tasks' = [tasks EXCEPT ![worker[d].task].pending = @ - 1]
  /\ worker' = [worker EXCEPT ![d] = IdleWorker]
  /\ UNCHANGED <<queues, from, applied>>

WorkerStep(d) == WorkerTake(d) \/ WorkerConnect(d) \/ WorkerRelease(d) \/ WorkerDone(d)

-----------------------------------------------------------------------------

ArchiveTypeOK ==
  /\ \A t \in DOMAIN tasks :
       tasks[t].pending \in 0..Cardinality(Dbs) /\ tasks[t].shares \in Nat /\ tasks[t].kept \in BOOLEAN
  /\ \A d \in Dbs :
       /\ \A i \in DOMAIN queues[d] : queues[d][i] \in DOMAIN tasks
       /\ worker[d].pc \in {"idle", "connect", "release", "done"}
       /\ worker[d].task \in 0..Len(tasks)
=============================================================================
