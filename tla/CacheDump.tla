------------------------------ MODULE CacheDump ------------------------------
(***************************************************************************)
(* The dump of the coin cache (dbengine/swmrdump.h; UTXODb::saveCache,       *)
(* initializeImpl).  A clean shutdown flushes the database and writes the    *)
(* cache chunk by chunk: builders hand chunks through a bounded queue to the *)
(* one writer.  The next start loads the dump in parallel, if it belongs to  *)
(* the position the database came back at.  The content of a chunk is the    *)
(* position it was cached at.                                                *)
(***************************************************************************)
EXTENDS Integers, Sequences, FiniteSets, SequencesExt

CONSTANTS
  Workers, NoWorker, Writer,
  ChunkCount, QueueLimit,
  Positions,   \* where the database may stand
  Geometries,  \* cache sizes the node may be configured with
  MaxMoves, MaxCrashes, MaxFaults  \* bounds

DumpAssumption == ChunkCount \in Nat \ {0} /\ QueueLimit \in Nat \ {0} /\ 0 \notin Positions

VARIABLES
  phase,            \* "down", "loading", "running", "saving"
  pos, stamp,       \* the position of the node, and the durable one
  geometry,
  cache,            \* chunk -> the position its coins belong to, 0 when empty
  dump, tmp,        \* the files
  queue, lock, failed,
  next,             \* nextChunk, nextIndex
  worker, writer,   \* what each thread is doing
  hand,             \* the chunk the writer has popped
  written, entries, \* chunks written, entries dumped or imported
  moves, crashes, faults

threads == <<queue, lock, failed, next, worker, writer, hand, written, entries>>
bounds == <<moves, crashes, faults>>
vars == <<phase, pos, stamp, geometry, cache, dump, tmp, threads, bounds>>

Chunks == 1..ChunkCount
NoFile == [head |-> <<>>, chunks |-> [c \in Chunks |-> 0]]   \* 0: not written, or damaged
NoCache == [c \in Chunks |-> 0]
Filled == Cardinality({c \in Chunks : cache[c] # 0})          \* cache.size()

Init ==
  /\ phase = "down" /\ pos = 0 /\ stamp = 0 /\ geometry \in Geometries
  /\ cache = NoCache /\ dump = NoFile /\ tmp = NoFile
  /\ queue = <<>> /\ lock = NoWorker /\ failed = FALSE /\ next = 1
  /\ worker = [w \in Workers |-> [at |-> "exit", id |-> 0]] /\ writer = "idle" /\ hand = 0
  /\ written = 0 /\ entries = 0 /\ moves = 0 /\ crashes = 0 /\ faults = 0

-----------------------------------------------------------------------------
(***************************************************************************)
(* The start                                                               *)
(***************************************************************************)
Fresh(at) ==
  /\ queue' = <<>> /\ lock' = NoWorker /\ failed' = FALSE /\ next' = 1 /\ written' = 0 /\ entries' = 0
  /\ worker' = [w \in Workers |-> [at |-> "take", id |-> 0]] /\ writer' = at /\ hand' = 0

\* warmupFromDb(): the coins of the database as it stands
Warm == [c \in Chunks |-> pos]

AcceptedAnyStamp == dump.head # <<>> /\ dump.head[1].geometry = geometry

\* readHeader() and the checks behind it
Accepted == dump.head # <<>> /\ dump.head[1].geometry = geometry /\ dump.head[1].stamp = stamp

\* initializeImpl(): no position, no cache to fill; a header that is accepted
\* starts the readers
Start(g) ==
  /\ phase = "down" /\ geometry' = g /\ pos' = stamp
  /\ UNCHANGED <<stamp, dump, tmp, bounds>>

StartFresh(g) == Start(g) /\ stamp = 0 /\ phase' = "running" /\ cache' = NoCache /\ UNCHANGED threads
StartCold(g) == Start(g) /\ stamp # 0 /\ ~Accepted' /\ phase' = "running" /\ cache' = Warm' /\ UNCHANGED threads
StartLoad(g) == Start(g) /\ stamp # 0 /\ Accepted' /\ phase' = "loading" /\ cache' = NoCache /\ Fresh("idle")

\* A reader takes the next chunk, unless one has failed
LoadTake(w) ==
  /\ phase = "loading" /\ worker[w].at = "take"
  /\ IF failed \/ next > ChunkCount THEN worker' = [worker EXCEPT ![w].at = "exit"] /\ UNCHANGED next
     ELSE worker' = [worker EXCEPT ![w] = [at |-> "read", id |-> next]] /\ next' = next + 1
  /\ UNCHANGED <<phase, pos, stamp, geometry, cache, dump, tmp, queue, lock, failed, writer, hand, written, entries, bounds>>

\* Checksum, parse, importBucket() bucket after bucket
LoadChunk(w) ==
  LET c == worker[w].id IN
  /\ phase = "loading" /\ worker[w].at = "read"
  /\ IF dump.chunks[c] = 0
     THEN failed' = TRUE /\ worker' = [worker EXCEPT ![w].at = "exit"] /\ UNCHANGED <<cache, entries>>
     ELSE /\ cache' = [cache EXCEPT ![c] = dump.chunks[c]] /\ entries' = entries + 1
          /\ worker' = [worker EXCEPT ![w].at = "take"] /\ UNCHANGED failed
  /\ UNCHANGED <<phase, pos, stamp, geometry, dump, tmp, queue, lock, next, writer, hand, written, bounds>>

Joined == \A w \in Workers : worker[w].at = "exit"

\* The whole dump or nothing: a rejected one is cleared, and an empty cache is
\* warmed up from the database
LoadDone == cache' = IF ~failed /\ entries = dump.head[1].count THEN cache ELSE Warm

Loaded ==
  /\ phase = "loading" /\ Joined /\ phase' = "running" /\ LoadDone
  /\ UNCHANGED <<pos, stamp, geometry, dump, tmp, threads, bounds>>

-----------------------------------------------------------------------------
(***************************************************************************)
(* The node at work, and how it ends                                       *)
(***************************************************************************)
\* Blocks come and go; the cache is kept exact (SwmrCache)
Move(p) ==
  /\ phase = "running" /\ p # pos /\ moves < MaxMoves
  /\ pos' = p /\ cache' = [c \in Chunks |-> p] /\ moves' = moves + 1
  /\ UNCHANGED <<phase, stamp, geometry, dump, tmp, threads, crashes, faults>>

\* A checkpoint of the database
Flush ==
  /\ phase = "running" /\ stamp # pos /\ stamp' = pos
  /\ UNCHANGED <<phase, pos, geometry, cache, dump, tmp, threads, bounds>>

\* ~Storage(): the last flush, then saveCache(), which truncates the temporary file
Stop ==
  /\ phase = "running" /\ stamp' = pos
  /\ IF pos = 0 THEN phase' = "down" /\ UNCHANGED <<tmp, threads>>
     ELSE phase' = "saving" /\ tmp' = NoFile /\ Fresh("pop")
  /\ UNCHANGED <<pos, geometry, cache, dump, bounds>>

\* The process dies: memory is lost, the files stay
Crash ==
  /\ phase # "down" /\ crashes < MaxCrashes
  /\ phase' = "down" /\ crashes' = crashes + 1
  /\ UNCHANGED <<pos, stamp, geometry, cache, dump, tmp, threads, moves, faults>>

\* A part of the file goes bad
Rot(c) ==
  /\ phase = "down" /\ faults < MaxFaults /\ dump.chunks[c] # 0
  /\ dump' = [dump EXCEPT !.chunks[c] = 0] /\ faults' = faults + 1
  /\ UNCHANGED <<phase, pos, stamp, geometry, cache, tmp, threads, moves, crashes>>

-----------------------------------------------------------------------------
(***************************************************************************)
(* swmrDumpSave(): builders and the writer                                 *)
(***************************************************************************)
saved == <<pos, stamp, geometry, cache, dump, bounds>>

\* A builder takes a chunk number and builds the chunk
Build(w) ==
  /\ phase = "saving" /\ worker[w].at = "take"
  /\ IF failed \/ next > ChunkCount THEN worker' = [worker EXCEPT ![w].at = "exit"] /\ UNCHANGED next
     ELSE worker' = [worker EXCEPT ![w] = [at |-> "push", id |-> next]] /\ next' = next + 1
  /\ UNCHANGED <<phase, saved, tmp, queue, lock, failed, writer, hand, written, entries>>

WakeOne == IF writer = "asleep" THEN "pop" ELSE writer

Room == Len(queue) < QueueLimit

\* push(): the predicate under the lock; room, a failure, or a wait that keeps
\* the lock until the thread sleeps
Push(w) ==
  /\ phase = "saving" /\ worker[w].at = "push" /\ lock = NoWorker
  /\ IF failed THEN worker' = [worker EXCEPT ![w].at = "exit"] /\ UNCHANGED <<queue, lock, writer>>
     ELSE IF Room
       THEN queue' = Append(queue, worker[w].id) /\ worker' = [worker EXCEPT ![w].at = "take"] /\ writer' = WakeOne /\ UNCHANGED lock
       ELSE worker' = [worker EXCEPT ![w].at = "wait"] /\ lock' = w /\ UNCHANGED <<queue, writer>>
  /\ UNCHANGED <<phase, saved, tmp, failed, next, hand, written, entries>>

PushSleep(w) ==
  /\ phase = "saving" /\ worker[w].at = "wait" /\ lock' = NoWorker /\ worker' = [worker EXCEPT ![w].at = "asleep"]
  /\ UNCHANGED <<phase, saved, tmp, queue, failed, next, writer, hand, written, entries>>

Sleepers == {w \in Workers : worker[w].at = "asleep"}
Woken(ws) == [w \in Workers |-> IF w \in ws THEN [worker[w] EXCEPT !.at = "push"] ELSE worker[w]]

\* pop(), and the slot of the chunk table it names
Pop ==
  /\ phase = "saving" /\ writer = "pop" /\ lock = NoWorker
  /\ IF queue # <<>> THEN writer' = "write" /\ hand' = Head(queue) /\ queue' = Tail(queue) /\ UNCHANGED lock
       /\ \/ Sleepers = {} /\ UNCHANGED worker
          \/ \E w \in Sleepers : worker' = Woken({w})
     ELSE IF failed THEN writer' = "join" /\ UNCHANGED <<lock, worker, hand, queue>>
     ELSE writer' = "wait" /\ lock' = Writer /\ UNCHANGED <<worker, hand, queue>>
  /\ UNCHANGED <<phase, saved, tmp, failed, next, written, entries>>

PopSleep ==
  /\ phase = "saving" /\ writer = "wait" /\ lock' = NoWorker /\ writer' = "asleep"
  /\ UNCHANGED <<phase, saved, tmp, queue, failed, next, worker, hand, written, entries>>

\* The chunk at the running offset
Write ==
  /\ phase = "saving" /\ writer = "write"
  /\ tmp' = [tmp EXCEPT !.chunks[hand] = cache[hand]]
  /\ written' = written + 1 /\ entries' = entries + 1
  /\ writer' = IF written + 1 = ChunkCount THEN "join" ELSE "pop"
  /\ UNCHANGED <<phase, saved, queue, lock, failed, next, worker, hand>>

\* A write that fails raises the flag first
WriteFails ==
  /\ phase = "saving" /\ writer = "write" /\ faults < MaxFaults
  /\ failed' = TRUE /\ writer' = "wake" /\ faults' = faults + 1
  /\ UNCHANGED <<phase, pos, stamp, geometry, cache, dump, moves, crashes, tmp, queue, lock, next, worker, hand, written, entries>>

\* wakeAll() passes through the lock: nobody is between the predicate and the sleep
wakeAll == lock = NoWorker

Fail ==
  /\ phase = "saving" /\ writer = "wake" /\ wakeAll
  /\ worker' = Woken(Sleepers) /\ writer' = "join"
  /\ UNCHANGED <<phase, saved, tmp, queue, lock, failed, next, hand, written, entries>>

\* Header and table land last, in one write
Finish ==
  /\ phase = "saving" /\ writer = "join" /\ Joined
  /\ \/ /\ ~failed /\ entries = Filled
        /\ tmp' = [tmp EXCEPT !.head = <<[geometry |-> geometry, stamp |-> stamp, count |-> entries]>>]
        /\ writer' = "rename" /\ UNCHANGED faults
     \/ /\ failed \/ entries # Filled \/ faults < MaxFaults
        /\ tmp' = NoFile /\ writer' = "done"
        /\ faults' = IF failed \/ entries # Filled THEN faults ELSE faults + 1
  /\ UNCHANGED <<phase, pos, stamp, geometry, cache, dump, moves, crashes, queue, lock, failed, next, worker, hand, written, entries>>

Rename ==
  /\ phase = "saving" /\ writer = "rename"
  /\ \/ dump' = tmp /\ UNCHANGED faults
     \/ faults < MaxFaults /\ faults' = faults + 1 /\ UNCHANGED dump
  /\ tmp' = NoFile /\ writer' = "done"
  /\ UNCHANGED <<phase, pos, stamp, geometry, cache, moves, crashes, queue, lock, failed, next, worker, hand, written, entries>>

Exit ==
  /\ phase = "saving" /\ writer = "done" /\ phase' = "down"
  /\ UNCHANGED <<saved, tmp, threads>>

WorkerStep(w) == LoadTake(w) \/ LoadChunk(w) \/ Build(w) \/ Push(w) \/ PushSleep(w)
WriterStep == Loaded \/ Pop \/ PopSleep \/ Write \/ WriteFails \/ Fail \/ Finish \/ Rename \/ Exit

Next ==
  \/ \E g \in Geometries : StartFresh(g) \/ StartCold(g) \/ StartLoad(g)
  \/ (\E p \in Positions : Move(p)) \/ Flush \/ Stop \/ Crash \/ (\E c \in Chunks : Rot(c))
  \/ (\E w \in Workers : WorkerStep(w)) \/ WriterStep

\* Threads that can run do
Spec == Init /\ [][Next]_vars /\ (\A w \in Workers : WF_vars(WorkerStep(w))) /\ WF_vars(WriterStep)

-----------------------------------------------------------------------------
\* The final name holds nothing, or a file whose header was written
TypeOK ==
  /\ phase \in {"down", "loading", "running", "saving"} /\ failed \in BOOLEAN
  /\ Len(queue) <= QueueLimit /\ lock \in Workers \union {NoWorker, Writer}
  /\ dump = NoFile \/ dump.head # <<>>

\* A positive must be exact: what a running node has cached belongs to its
\* position, and a load that ended left the whole dump or none of it
CacheExact == phase = "running" => cache = [c \in Chunks |-> pos]

\* A crash in the middle of a save leaves the old dump or a complete new one
DumpComplete == dump.head # <<>> /\ faults = 0 => \A c \in Chunks : dump.chunks[c] = dump.head[1].stamp

=============================================================================
