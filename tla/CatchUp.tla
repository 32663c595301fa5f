------------------------------ MODULE CatchUp ------------------------------
(***************************************************************************)
(* Archive::init and dbConnectBlocks: at startup utxodb and the archive    *)
(* databases stand at blocks of their own, some of them on branches that   *)
(* lost.  Each is taken down to the best chain, then one reader feeds the  *)
(* missing blocks through the serial stage of the pipeline to all of them, *)
(* every database joining at its own height.  The databases read a batch   *)
(* at their own pace; the ring and the shares decide when it may go.       *)
(***************************************************************************)
EXTENDS ArchiveWorkers, SequencesExt

CONSTANTS
  Blocks, Genesis, Parent, Depth,  \* the block tree
  Bests,          \* the blocks the loaded index may end at
  Stamps,         \* where a database may stand: blocks, or Fresh
  Fresh,          \* a database that was just created
  Unreadable,     \* the sets of blocks that may be missing from the block files
  BatchBlocks,    \* BatchBlocksLimit_
  WindowDepth,    \* the room of the pipeline's window
  RingDepth,      \* ReadyQueueDepth + PrepLanes
  PreparedLimit   \* PreparedSizeLimit, in decoded blocks

VARIABLES
  setup,    \* [best, connectGenesis, missing, stamp, utxoStamp]: what startup finds
  main,     \* the startup thread: "rebase", "genesis", "read", "drain", "ring", "done", "failed"
  cursor,   \* Cursor_: the height the reader goes on at
  failed,   \* Failed_
  window,   \* segments fed and not yet taken by the serial stage
  serial,   \* [pc, task]: the sink
  ring,     \* the tasks whose refs are kept
  utxo,     \* the moves of utxodb
  utxoFrom  \* utxoFirstHeight

own == <<setup, main, cursor, failed, window, serial, ring, utxo, utxoFrom>>
vars == <<archive, own>>

-----------------------------------------------------------------------------
\* The chain, and the way to it

RECURSIVE PathTo(_)
PathTo(b) == IF b = Genesis THEN <<b>> ELSE Append(PathTo(Parent[b]), b)

\* Next along the best chain, by height
Chain == PathTo(setup.best)
Best == setup.best
NoBlock == Fresh

\* Mutant: the block to connect from is the common ancestor itself.
RECURSIVE RebaseFromAncestor(_, _, _, _)
RebaseFromAncestor(new, old, child, undo) ==
  IF new = old THEN [connect |-> IF child = NoBlock THEN NoBlock ELSE Parent[child], disconnect |-> undo]
  ELSE IF Depth[new] > Depth[old] THEN RebaseFromAncestor(Parent[new], old, new, undo)
  ELSE IF Depth[old] > Depth[new] THEN RebaseFromAncestor(new, Parent[old], child, Append(undo, old))
  ELSE RebaseFromAncestor(Parent[new], Parent[old], new, Append(undo, old))

\* rebaseChain: down from the higher of the two, then down from both, keeping the child
\* on the new chain and what has to be taken off
RECURSIVE RebaseChain(_, _, _, _)
RebaseChain(new, old, child, undo) ==
  IF new = old THEN [connect |-> child, disconnect |-> undo]
  ELSE IF Depth[new] > Depth[old] THEN RebaseChain(Parent[new], old, new, undo)
  ELSE IF Depth[old] > Depth[new] THEN RebaseChain(new, Parent[old], child, Append(undo, old))
  ELSE RebaseChain(Parent[new], Parent[old], new, Append(undo, old))

\* CChainDb::initialize
Initialize(stamp) ==
  IF stamp = Fresh THEN [connect |-> Genesis, disconnect |-> <<>>]
  ELSE RebaseChain(Best, stamp, NoBlock, <<>>)

FromHeight(first) == IF first = NoBlock THEN Never ELSE Depth[first]
Plan(d) == Initialize(setup.stamp[d])
UtxoPlan == Initialize(setup.utxoStamp)

Init ==
  /\ setup \in [best : Bests, connectGenesis : BOOLEAN, missing : Unreadable,
                stamp : [Dbs -> Stamps], utxoStamp : Stamps]
  /\ ArchiveInit([d \in Dbs |-> 0])
  /\ main = "rebase" /\ cursor = 0 /\ failed = FALSE
  /\ window = <<>> /\ serial = IdleWorker /\ ring = <<>>
  /\ utxo = <<>> /\ utxoFrom = Never

-----------------------------------------------------------------------------
\* Archive::init: the disconnect walks, on the startup thread, then the wake-up heights

Rebase ==
  /\ main = "rebase"
  /\ LET undo == UNION {ToSet(Plan(d).disconnect) : d \in Dbs} \union ToSet(UtxoPlan.disconnect) IN
       IF undo \intersect setup.missing # {}
       THEN main' = "failed" /\ UNCHANGED <<utxo, utxoFrom, applied, from>>
       ELSE /\ utxo' = Moves("disconnect", UtxoPlan.disconnect)
            /\ applied' = [d \in Dbs |-> Moves("disconnect", Plan(d).disconnect)]
            /\ from' = [d \in Dbs |-> FromHeight(Plan(d).connect)]
            /\ utxoFrom' = FromHeight(UtxoPlan.connect)
            /\ main' = "genesis"
  /\ UNCHANGED <<tasks, queues, worker, setup, cursor, failed, window, serial, ring>>

FirstNeeded ==
  Min({utxoFrom} \union {from[d] : d \in Dbs})

\* dbConnectGenesis hands utxodb the genesis block if utxodb itself starts there
UtxoWantsGenesis == setup.connectGenesis /\ utxoFrom = 0

\* dbConnectBlocks up to the reader; a batch of the genesis block goes to the databases
\* that start with it, and is waited for
SkipGenesis ==
  /\ main = "genesis"
  /\ FirstNeeded # 0 \/ ~setup.connectGenesis
  /\ cursor' = CASE FirstNeeded = 0 -> 1
                 [] FirstNeeded = Never -> Depth[Best] + 1
                 [] OTHER -> FirstNeeded
  /\ main' = IF cursor' > Depth[Best] THEN "ring" ELSE "read"
  /\ UNCHANGED <<archive, setup, failed, window, serial, ring, utxo, utxoFrom>>

SubmitGenesis ==
  /\ main = "genesis" /\ FirstNeeded = 0 /\ setup.connectGenesis
  /\ IF Genesis \in setup.missing
     THEN main' = "ring" /\ failed' = TRUE /\ UNCHANGED <<tasks, queues, utxo>>
     ELSE /\ UNCHANGED failed
          /\ utxo' = utxo \o (IF UtxoWantsGenesis THEN <<Move("connect", Genesis)>> ELSE <<>>)
          /\ Submit(NewTask(<<Genesis>>, 0, FALSE))
          /\ main' = "genesisWait"
  /\ UNCHANGED <<worker, from, applied, setup, cursor, window, serial, ring, utxoFrom>>

WaitGenesis ==
  /\ main = "genesisWait" /\ Waited(1)
  /\ tasks' = Dropped(1)
  /\ cursor' = 1
  /\ main' = IF Depth[Best] = 0 THEN "ring" ELSE "read"
  /\ UNCHANGED <<queues, worker, from, applied, setup, failed, window, serial, ring, utxo, utxoFrom>>

-----------------------------------------------------------------------------
\* The reader: CCatchUpReader::next and feed

\* Decoded blocks nobody has let go of
Decoded ==
  LET live == {t \in DOMAIN tasks : tasks[t].shares > 0}
  IN FoldSeq(LAMBDA s, n : n + Len(s), 0, window)
       + FoldSet(LAMBDA t, n : n + Len(tasks[t].batch), 0, live)

ReadNext ==
  /\ main = "read" /\ cursor <= Depth[Best] /\ Len(window) < WindowDepth
  /\ Decoded < PreparedLimit
  /\ LET last == IF cursor + BatchBlocks - 1 > Depth[Best] THEN Depth[Best] ELSE cursor + BatchBlocks - 1
         segment == SubSeq(Chain, cursor + 1, last + 1)
     IN IF ToSet(segment) \intersect setup.missing # {}
        THEN failed' = TRUE /\ main' = "drain" /\ UNCHANGED <<window, cursor>>
        ELSE window' = Append(window, segment) /\ cursor' = last + 1 /\ UNCHANGED <<main, failed>>
  /\ UNCHANGED <<archive, setup, serial, ring, utxo, utxoFrom>>

\* The reader polls throttled()
Throttled == main = "read" /\ Decoded >= PreparedLimit /\ UNCHANGED vars

ReadEnd ==
  /\ main = "read" /\ cursor > Depth[Best]
  /\ main' = "drain"
  /\ UNCHANGED <<archive, setup, cursor, failed, window, serial, ring, utxo, utxoFrom>>

\* waitDrained
Drained ==
  /\ main = "drain" /\ window = <<>> /\ serial.pc = "idle"
  /\ main' = "ring"
  /\ UNCHANGED <<archive, setup, cursor, failed, window, serial, ring, utxo, utxoFrom>>

-----------------------------------------------------------------------------
\* The sink, on the serial thread

\* Archive first and without waiting
SinkSubmit ==
  /\ serial.pc = "idle" /\ window # <<>>
  /\ Submit(NewTask(Head(window), Depth[Head(window)[1]], TRUE))
  /\ window' = Tail(window)
  /\ serial' = [pc |-> "utxo", task |-> Len(tasks) + 1]
  /\ UNCHANGED <<worker, from, applied, setup, main, cursor, failed, ring, utxo, utxoFrom>>

\* utxodb belongs to this thread; then this thread's share goes
SinkUtxo ==
  /\ serial.pc = "utxo"
  /\ LET task == tasks[serial.task]
         skip == IF utxoFrom > task.first THEN utxoFrom - task.first ELSE 0
     IN utxo' = utxo \o Moves("connect", SubSeq(task.batch, skip + 1, Len(task.batch)))
  /\ serial' = [serial EXCEPT !.pc = "release"]
  /\ UNCHANGED <<archive, setup, main, cursor, failed, window, ring, utxoFrom>>

SinkRelease ==
  /\ serial.pc = "release"
  /\ tasks' = [tasks EXCEPT ![serial.task].shares = @ - 1]
  /\ ring' = Append(ring, serial.task)
  /\ serial' = [serial EXCEPT !.pc = "ring"]
  /\ UNCHANGED <<queues, worker, from, applied, setup, main, cursor, failed, window, utxo, utxoFrom>>

\* Mutant: the ring lets the oldest task go without asking for it.
OldestAssumed == TRUE

OldestDone == Waited(Head(ring))

\* While the ring is longer than its depth the oldest task is waited for
SinkRing ==
  /\ serial.pc = "ring"
  /\ IF Len(ring) > RingDepth
     THEN /\ OldestDone
          /\ tasks' = Dropped(Head(ring))
          /\ ring' = Tail(ring)
          /\ UNCHANGED serial
     ELSE serial' = IdleWorker /\ UNCHANGED <<tasks, ring>>
  /\ UNCHANGED <<queues, worker, from, applied, setup, main, cursor, failed, window, utxo, utxoFrom>>

\* The startup thread empties the ring, then everyone is level
Finish ==
  /\ main = "ring"
  /\ IF ring # <<>>
     THEN /\ Waited(Head(ring))
          /\ tasks' = Dropped(Head(ring)) /\ ring' = Tail(ring)
          /\ UNCHANGED <<main, from>>
     ELSE /\ main' = IF failed THEN "failed" ELSE "done"
          /\ from' = [d \in Dbs |-> 0]
          /\ UNCHANGED <<tasks, ring>>
  /\ UNCHANGED <<queues, worker, applied, setup, cursor, failed, window, serial, utxo, utxoFrom>>

Over == main \in {"done", "failed"} /\ UNCHANGED vars

MainStep ==
  Rebase \/ SkipGenesis \/ SubmitGenesis \/ WaitGenesis \/ ReadNext \/ ReadEnd \/ Drained \/ Finish
SinkStep == SinkSubmit \/ SinkUtxo \/ SinkRelease \/ SinkRing
DbStep(d) == WorkerStep(d) /\ UNCHANGED own

Next == MainStep \/ SinkStep \/ Throttled \/ Over \/ \E d \in Dbs : DbStep(d)

Spec ==
  /\ Init /\ [][Next]_vars
  /\ WF_vars(MainStep) /\ WF_vars(SinkStep) /\ \A d \in Dbs : WF_vars(DbStep(d))

-----------------------------------------------------------------------------
\* Properties

TypeOK ==
  /\ ArchiveTypeOK
  /\ main \in {"rebase", "genesis", "genesisWait", "read", "drain", "ring", "done", "failed"}
  /\ serial.pc \in {"idle", "utxo", "release", "ring"}
  /\ cursor \in 0..(Depth[Best] + 1)
  /\ Len(window) <= WindowDepth /\ Len(ring) <= RingDepth + 1

\* The position a database reaches from its stamp by a sequence of moves, Never if a move
\* does not fit the position before it
Replay(stamp, moves) ==
  FoldLeft(LAMBDA pos, m :
            IF pos = Never THEN Never
            ELSE IF m.op = "disconnect" THEN IF pos = m.block THEN Parent[pos] ELSE Never
            ELSE IF pos = Fresh
                 THEN IF m.block = (IF setup.connectGenesis THEN Genesis ELSE Chain[2]) THEN m.block ELSE Never
            ELSE IF m.block # Genesis /\ Parent[m.block] = pos THEN m.block ELSE Never,
          stamp, moves)

Level(pos) == pos = Best \/ (pos = Fresh /\ Best = Genesis /\ ~setup.connectGenesis)

\* Every move a database makes fits the block it stands at: no block twice, none skipped,
\* none of a branch that lost (blockDataBase.cpp:167-170 "replaying it double-counts every
\* delta-folded database").
MovesFit ==
  /\ Replay(setup.utxoStamp, utxo) # Never
  /\ \A d \in Dbs : Replay(setup.stamp[d], applied[d]) # Never

\* When the catch-up reports success, utxodb and every archive database stand at the best
\* block, wherever they started.
EveryoneLevel ==
  main = "done" =>
    /\ Level(Replay(setup.utxoStamp, utxo))
    /\ \A d \in Dbs : Level(Replay(setup.stamp[d], applied[d]))

\* The decoded blocks live as long as somebody reads them, and are let go exactly once
\* per reader (CSegment::shareRelease, blockPipeline.h:67).
BlocksOutliveReaders ==
  /\ \A d \in Dbs : worker[d].pc = "connect" /\ tasks[worker[d].task].segment =>
                      tasks[worker[d].task].shares > 0
  /\ serial.pc \in {"utxo", "release"} => tasks[serial.task].shares > 0

\* The refs and the task live until the last worker is past them, although submit() does
\* not wait (sync.cpp:70-71).
RefsOutliveReaders ==
  \A d \in Dbs :
    /\ worker[d].pc # "idle" => tasks[worker[d].task].kept
    /\ \A i \in DOMAIN queues[d] : tasks[queues[d][i]].kept

=============================================================================
