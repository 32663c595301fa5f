---------------------------- MODULE StorageQueue ----------------------------
(***************************************************************************)
(* db/storage.cpp between the serial worker, which moves the chain, and    *)
(* the archive databases, which follow it from a queue: the storage        *)
(* thread collects connects into batches, hands each to the archive        *)
(* workers, writes the blocks to the block files, and lets go of their     *)
(* in-memory copies when the files are flushed.  Preparation lanes rewrite *)
(* the copy of a block that is about to be connected (again) meanwhile.    *)
(***************************************************************************)
EXTENDS ArchiveWorkers

CONSTANTS
  Blocks, Genesis, Parent,  \* the block tree; [Blocks \ {Genesis} -> Blocks]
  Depth,                    \* [Blocks -> Nat]: Height
  CacheLimit,               \* CAllocationInfo::Limit_, in blocks
  MaxMoves                  \* bound: connects and disconnects the serial worker makes

\* Any tree of blocks, and any number of databases
StorageAssumption ==
  /\ Genesis \in Blocks /\ Parent \in [Blocks \ {Genesis} -> Blocks] /\ Depth \in [Blocks -> Nat]
  /\ IsFiniteSet(Dbs)

VARIABLES
  log,       \* the moves of utxodb, which the serial worker makes itself
  pushing,   \* the tasks of the present move that are not in the queue yet
  queue,     \* Queue_: [op, block, end]
  mutator,   \* "rest", "moving" (inside connectSegment) or "stopped"
  event,     \* NewTaskEvent_ is activated
  thread,    \* the storage thread: [pc, then, block]
  batch,     \* Batch_: [block, shared], shared when it is the object of BlockIndex::Serialized
  memory,    \* the blocks whose BlockIndex::Serialized is set
  stored,    \* indexStored: in the buffers of the block files or on disk
  cached,    \* CachedBlocks_
  disk,      \* the blocks the files hold
  lanes,     \* the blocks whose objects preparation is rewriting
  prepared   \* the blocks of prepared segments

chainVars == <<log, pushing, mutator, prepared, lanes>>
fileVars == <<memory, stored, cached, disk>>
vars == <<archive, chainVars, fileVars, queue, event, thread, batch>>

Init ==
  /\ ArchiveInit([d \in Dbs |-> 0])
  /\ log = <<>> /\ pushing = <<>> /\ queue = <<>>
  /\ mutator = "rest" /\ event = FALSE
  /\ thread = [pc |-> "loop", then |-> "loop", block |-> Genesis]
  /\ batch = <<>>
  /\ memory = Blocks \ {Genesis}
  /\ stored = {Genesis} /\ cached = {} /\ disk = {Genesis}
  /\ lanes = {} /\ prepared = {}

-----------------------------------------------------------------------------
\* The chain as the serial worker knows it

Tip ==
  IF log = <<>> THEN Genesis
  ELSE LET m == log[Len(log)] IN IF m.op = "connect" THEN m.block ELSE Parent[m.block]

OnChain ==
  LET Up[k \in 0..Depth[Tip]] == IF k = 0 THEN Tip ELSE Parent[Up[k - 1]]
  IN  {b \in Blocks : \E k \in 0..Depth[Tip] : b = Up[k]}

Members(run) == {run[i] : i \in DOMAIN run}

Task(op, b, end) == [op |-> op, block |-> b, end |-> end]

\* objectByIndex finds the block: in memory, or in the files
Readable(b) == b \in memory \/ b \in disk

\* prepareSegmentBlocks and resolveSegmentInputs: the lane takes the object in memory or
\* reads one from disk, publishes it, and writes its linked outputs
PrepBegin(b) ==
  /\ mutator # "stopped"
  /\ b \notin OnChain \union lanes \union prepared
  /\ memory' = memory \union {b}
  /\ lanes' = lanes \union {b}
  /\ UNCHANGED <<archive, log, pushing, mutator, prepared, stored, cached, disk, queue, event, thread, batch>>

PrepEnd(b) ==
  /\ b \in lanes
  /\ lanes' = lanes \ {b}
  /\ prepared' = prepared \union {b}
  /\ UNCHANGED <<archive, log, pushing, mutator, fileVars, queue, event, thread, batch>>

\* connectSegment: down to the parent of the segment, a block at a time ...
Disconnect ==
  /\ mutator \in {"rest", "moving"} /\ pushing = <<>> /\ Tip # Genesis
  /\ \E b \in prepared : Parent[b] \in OnChain \ {Tip}
  /\ Len(log) < MaxMoves
  /\ log' = Append(log, Move("disconnect", Tip))
  /\ pushing' = <<Task("disconnect", Tip, FALSE)>>
  /\ mutator' = "moving"
  /\ UNCHANGED <<archive, lanes, prepared, fileVars, queue, event, thread, batch>>

\* ... then the whole run in one connect of utxodb
ConnectRun(run) ==
  /\ mutator \in {"rest", "moving"} /\ pushing = <<>>
  /\ run # <<>> /\ Members(run) \subseteq prepared
  /\ \A i \in DOMAIN run : Parent[run[i]] = IF i = 1 THEN Tip ELSE run[i - 1]
  /\ Len(log) + Len(run) <= MaxMoves
  /\ log' = log \o Moves("connect", run)
  /\ prepared' = prepared \ Members(run)
  /\ pushing' = [i \in DOMAIN run |-> Task("connect", run[i], i = Len(run))]
  /\ mutator' = "moving"
  /\ UNCHANGED <<archive, lanes, fileVars, queue, event, thread, batch>>

\* The tasks reach the queue one by one, and the storage thread may be reading already
Push ==
  /\ pushing # <<>>
  /\ queue' = Append(queue, Head(pushing))
  /\ pushing' = Tail(pushing)
  /\ UNCHANGED <<archive, log, mutator, lanes, prepared, fileVars, event, thread, batch>>

\* Mutant: the storage thread is not told of the move.
NoWakeUp ==
  /\ mutator = "moving" /\ pushing = <<>>
  /\ mutator' = "rest"
  /\ UNCHANGED <<archive, log, pushing, lanes, prepared, fileVars, queue, event, thread, batch>>

\* CBlockPipeline::worker after connectSegment
WakeUp ==
  /\ mutator = "moving" /\ pushing = <<>>
  /\ mutator' = "rest"
  /\ event' = TRUE
  /\ UNCHANGED <<archive, log, pushing, lanes, prepared, fileVars, queue, thread, batch>>

-----------------------------------------------------------------------------
\* The storage thread

\* Mutant: the copies are dropped although the files are not flushed.
DropOnly(mem, cache) ==
  /\ memory' = mem \ cache
  /\ cached' = {}
  /\ UNCHANGED disk

\* flush: everything buffered goes to disk, then the copies go
Flush(mem, cache) ==
  /\ disk' = stored'
  /\ memory' = mem \ cache
  /\ cached' = {}

Overflow == Cardinality(memory \ {Genesis}) >= CacheLimit

Wake ==
  /\ thread.pc = "loop" /\ event
  /\ event' = FALSE
  /\ thread' = [thread EXCEPT !.pc = "pop"]
  /\ UNCHANGED <<archive, chainVars, fileVars, queue, batch>>

\* Mutant: connects are collected until the queue runs dry, and a disconnect overtakes them.
PopEager ==
  /\ thread.pc = "pop" /\ queue # <<>>
  /\ LET task == Head(queue) IN
       IF task.op = "connect"
       THEN /\ batch' = Append(batch, [block |-> task.block, shared |-> task.block \in memory])
            /\ UNCHANGED thread
       ELSE /\ thread' = [pc |-> "undo", then |-> "undo", block |-> task.block]
            /\ UNCHANGED batch
  /\ queue' = Tail(queue)
  /\ UNCHANGED <<archive, chainVars, fileVars, event>>

\* onQueuePush: a connect is collected, anything else ends the batch being collected
Pop ==
  /\ thread.pc = "pop" /\ queue # <<>>
  /\ LET task == Head(queue) IN
       IF task.op = "connect"
       THEN /\ batch' = Append(batch, [block |-> task.block, shared |-> task.block \in memory])
            /\ thread' = IF task.end THEN [thread EXCEPT !.pc = "apply", !.then = "pop"] ELSE thread
       ELSE /\ thread' = [pc |-> "apply", then |-> "undo", block |-> task.block]
            /\ UNCHANGED batch
  /\ queue' = Tail(queue)
  /\ UNCHANGED <<archive, chainVars, fileVars, event>>

\* The mutator is still pushing: what is here is applied all the same
RanDry ==
  /\ thread.pc = "pop" /\ queue = <<>>
  /\ thread' = [thread EXCEPT !.pc = "apply", !.then = "finish"]
  /\ UNCHANGED <<archive, chainVars, fileVars, queue, event, batch>>

ApplyNothing ==
  /\ thread.pc = "apply" /\ batch = <<>>
  /\ thread' = [thread EXCEPT !.pc = thread.then]
  /\ UNCHANGED <<archive, chainVars, fileVars, queue, event, batch>>

\* applyBatch: the databases first ...
ApplyBatch ==
  /\ thread.pc = "apply" /\ batch # <<>>
  /\ Submit(NewTask([i \in DOMAIN batch |-> batch[i].block], Depth[batch[1].block], FALSE))
  /\ thread' = [thread EXCEPT !.pc = "wait"]
  /\ UNCHANGED <<worker, from, applied, chainVars, fileVars, queue, event, batch>>

BatchTaken(t) == Waited(t)

\* ... then, when they all have it, the block files.  A file that fills up asks for a flush.
WriteBatch ==
  /\ thread.pc = "wait" /\ BatchTaken(Len(tasks))
  /\ tasks' = Dropped(Len(tasks))
  /\ LET blocks == {batch[i].block : i \in DOMAIN batch} IN
       /\ stored' = stored \union blocks
       /\ \/ /\ ~(blocks \subseteq stored)   \* needFlush
             /\ Flush(memory, cached \union blocks)
          \/ /\ cached' = cached \union blocks
             /\ UNCHANGED <<memory, disk>>
  /\ batch' = <<>>
  /\ thread' = [thread EXCEPT !.pc = thread.then]
  /\ UNCHANGED <<queues, worker, from, applied, chainVars, queue, event>>

\* Archive::disconnect, on this thread
Undo ==
  /\ thread.pc = "undo"
  /\ applied' = [d \in Dbs |-> Append(applied[d], Move("disconnect", thread.block))]
  /\ thread' = [thread EXCEPT !.pc = "pop"]
  /\ UNCHANGED <<tasks, queues, worker, from, chainVars, fileVars, queue, event, batch>>

FlushOrNot(must) ==
  /\ UNCHANGED stored
  /\ IF must THEN Flush(memory, cached) ELSE UNCHANGED <<memory, cached, disk>>

Finish ==
  /\ thread.pc = "finish"
  /\ FlushOrNot(Overflow)
  /\ thread' = [thread EXCEPT !.pc = "loop"]
  /\ UNCHANGED <<archive, chainVars, queue, event, batch>>

\* onTimer: a full cache, or a minute without a flush
Timer ==
  /\ thread.pc = "loop" /\ cached # {}
  /\ \E minute \in BOOLEAN : FlushOrNot(Overflow \/ minute)
  /\ UNCHANGED <<archive, chainVars, queue, event, batch, thread>>

-----------------------------------------------------------------------------
\* The end of the process: the pipeline stops, the loop ends behind the last activation
\* (postQuitOperation queues behind it), and ~Storage flushes

StopPipeline ==
  /\ mutator = "rest" /\ lanes = {}
  /\ mutator' = "stopped"
  /\ UNCHANGED <<archive, log, pushing, prepared, lanes, fileVars, queue, event, thread, batch>>

CloseStorage ==
  /\ mutator = "stopped" /\ thread.pc = "loop" /\ ~event
  /\ thread' = [thread EXCEPT !.pc = "closed"]
  /\ FlushOrNot(TRUE)
  /\ UNCHANGED <<archive, chainVars, queue, event, batch>>

Closed == thread.pc = "closed" /\ UNCHANGED vars

StorageThread ==
  \/ Wake \/ Pop \/ RanDry \/ ApplyNothing \/ ApplyBatch \/ WriteBatch \/ Undo \/ Finish

\* The ascending runs over the tree
Runs == {r \in UNION {[1..n -> Blocks \ {Genesis}] : n \in 1..2} :
           \A i \in 2..Len(r) : Parent[r[i]] = r[i - 1]}

Mutator ==
  \/ \E b \in Blocks \ {Genesis} : PrepBegin(b) \/ PrepEnd(b)
  \/ Disconnect
  \/ \E run \in Runs : ConnectRun(run)
  \/ Push
  \/ WakeUp
  \/ StopPipeline

DbStep(d) == WorkerStep(d) /\ UNCHANGED <<chainVars, fileVars, queue, event, thread, batch>>

Next ==
  \/ Mutator
  \/ StorageThread
  \/ Timer
  \/ CloseStorage
  \/ Closed
  \/ \E d \in Dbs : DbStep(d)

Spec == Init /\ [][Next]_vars

-----------------------------------------------------------------------------
\* Properties

\* Every archive database makes the moves of utxodb in the order utxodb made them,
\* wherever the queue ran dry, the units were cut and the workers stand ("the queue is
\* the order the chain moved in", storage.cpp:139).
InOrder ==
  \A d \in Dbs : Len(applied[d]) <= Len(log) /\ \A i \in 1..Len(applied[d]) : applied[d][i] = log[i]

\* A block the storage thread still has to connect or disconnect can be loaded when its
\* task comes up: its copy is dropped only once the files hold it (the asserts at
\* storage.cpp:146 and :160).
AlwaysReadable ==
  /\ \A i \in DOMAIN queue : Readable(queue[i].block)
  /\ \A i \in DOMAIN pushing : Readable(pushing[i].block)
  /\ thread.pc \in {"apply", "wait", "undo"} /\ thread.then = "undo" => Readable(thread.block)
  /\ \A b \in OnChain : Readable(b)

\* Nobody reads a task its owner has dropped: Archive::connect keeps it on its stack until
\* the count says that every worker is past it (archive.cpp:71-75, :109-113).
TaskOutlivesWorkers ==
  \A d \in Dbs :
    /\ worker[d].pc # "idle" => tasks[worker[d].task].kept
    /\ \A i \in DOMAIN queues[d] : tasks[queues[d][i]].kept

\* The storage thread changes a database itself (disconnect, final flush) only while no
\* worker has anything of that database in its hands ("ordered after a wait()",
\* archive.h:141-144).
OneMutator ==
  thread.pc \in {"undo", "closed"} =>
    \A d \in Dbs : worker[d].pc = "idle" /\ queues[d] = <<>>

\* When the process is over the queue is empty (the assert of ~Storage), every database
\* stands where utxodb stands, and every block that was ever connected is on disk.
ClosedComplete ==
  thread.pc = "closed" =>
    /\ queue = <<>> /\ batch = <<>>
    /\ \A d \in Dbs : applied[d] = log
    /\ Genesis \in disk
    /\ \A i \in DOMAIN log : log[i].op = "connect" => log[i].block \in disk

\* The archive follows the chain safely: in order, from tasks that are still there, one
\* thread at a time, and in full by the end of the process.
DatabasesFollow == InOrder /\ TaskOutlivesWorkers /\ OneMutator /\ ClosedComplete
=============================================================================
