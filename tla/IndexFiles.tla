----------------------------- MODULE IndexFiles -----------------------------
(***************************************************************************)
(* The three families of files behind the block index: blocks, linked      *)
(* outputs and index records.  writeBlock appends to all three buffers, a  *)
(* buffer is written when it is full, when its file is full, or by flush,  *)
(* and the process may die between and inside the writes.  Then the files  *)
(* are opened again and loadingBlockIndex, or reindex, rebuilds the index. *)
(* Offsets and sizes are counted in records.                               *)
(***************************************************************************)
EXTENDS Integers, Sequences, FiniteSets, SequencesExt

CONSTANTS
  Blocks, Genesis, Parent,  \* the block tree
  FileLimit,    \* FileSizeLimit_
  BufferLimit,  \* the 32 MB at which append2 writes its buffer
  MaxCrashes    \* bound: deaths of the process

VARIABLES
  disk,     \* [Files -> Seq(Seq(record))]: what the files hold
  buffer,   \* [Files -> Seq(record)]: Data_
  todo,     \* the steps of the present writeBlock or flush still to be made
  index,    \* [Blocks -> [blk, lnk]]: FileNo/FileOffset of both parts, None if not stored
  memory,   \* blocks whose Serialized object is there
  loaded,   \* blocks this process has from the index files, not from its own writes
  flushed,  \* history: blocks a finished flush has covered
  phase,    \* "run", "down", "refused" (the index did not load), "over"
  crashes

vars == <<disk, buffer, todo, index, memory, loaded, flushed, phase, crashes>>

Files == {"blk", "lnk", "idx"}
None == <<>>
Torn == "torn"      \* the head of a record whose write was cut off
NotStored == [blk |-> None, lnk |-> None]
blockStored(b) == index[b].blk # None
indexStored(b) == index[b].lnk # None
Last1(s) == s[Len(s)]

Init ==
  /\ disk = [f \in Files |-> IF f = "blk" THEN <<<<Genesis>>>> ELSE <<<<>>>>]   \* BlockDatabase::init
  /\ buffer = [f \in Files |-> <<>>]
  /\ todo = <<>>
  /\ index = [b \in Blocks |-> NotStored]
  /\ memory = {} /\ loaded = {} /\ flushed = {}
  /\ phase = "run" /\ crashes = 0

-----------------------------------------------------------------------------
\* LinearDataStorage

\* append2: the file, and the offset behind what is on disk and in the buffer (from 1)
Position(f) == <<Len(disk[f]), Len(Last1(disk[f])) + Len(buffer[f]) + 1>>

\* The record at a position, in the file or in the buffer behind it
RecordOn(files, f, pos) ==
  IF pos[1] <= Len(files[f]) /\ pos[2] <= Len(files[f][pos[1]]) THEN files[f][pos[1]][pos[2]] ELSE None
RecordAt(f, pos) ==
  LET written == Len(Last1(disk[f]))
  IN IF pos[1] = Len(disk[f]) /\ pos[2] > written /\ pos[2] - written <= Len(buffer[f])
     THEN buffer[f][pos[2] - written]
     ELSE RecordOn(disk, f, pos)

AppendOp(f, b) == [op |-> "append", file |-> f, block |-> b, roll |-> FALSE]
WriteOp(f, roll) == [op |-> "write", file |-> f, block |-> Genesis, roll |-> roll]
DropOp == [op |-> "drop", file |-> "blk", block |-> Genesis, roll |-> FALSE]

\* append2: full files are written and closed, full buffers written
DoAppend ==
  /\ phase = "run" /\ todo # <<>> /\ Head(todo).op = "append"
  /\ LET f == Head(todo).file
         b == Head(todo).block
         pos == Position(f)
         now == Len(buffer[f]) + 1
         full == Len(Last1(disk[f])) + now > FileLimit
     IN /\ index' = CASE f = "blk" -> [index EXCEPT ![b].blk = pos]
                      [] f = "lnk" -> [index EXCEPT ![b].lnk = pos]
                      [] f = "idx" -> index
        /\ buffer' = [buffer EXCEPT ![f] = Append(@, IF f = "idx" THEN <<b, index[b]>> ELSE b)]
        /\ todo' = (IF full \/ now >= BufferLimit THEN <<WriteOp(f, full)>> ELSE <<>>) \o Tail(todo)
  /\ UNCHANGED <<disk, memory, loaded, flushed, phase, crashes>>

\* The buffer lands in the file; a full file is followed by the next one
Written(f, records, roll) ==
  LET files == [disk[f] EXCEPT ![Len(disk[f])] = @ \o records]
  IN [disk EXCEPT ![f] = IF roll THEN Append(files, <<>>) ELSE files]

DoWrite ==
  /\ phase = "run" /\ todo # <<>> /\ Head(todo).op = "write"
  /\ disk' = Written(Head(todo).file, buffer[Head(todo).file], Head(todo).roll)
  /\ buffer' = [buffer EXCEPT ![Head(todo).file] = <<>>]
  /\ todo' = Tail(todo)
  /\ UNCHANGED <<index, memory, loaded, flushed, phase, crashes>>

-----------------------------------------------------------------------------
\* BlockDatabase::writeBlock and flush

Receive(b) ==
  /\ phase = "run" /\ todo = <<>>
  /\ ~indexStored(b) /\ b \notin memory
  /\ Parent[b] = Genesis \/ indexStored(Parent[b])
  /\ memory' = memory \union {b}
  /\ UNCHANGED <<disk, buffer, todo, index, loaded, flushed, phase, crashes>>

writeBlock(b) ==
  /\ phase = "run" /\ todo = <<>>
  /\ b \in memory /\ ~indexStored(b)
  /\ todo' = (IF blockStored(b) THEN <<>> ELSE <<AppendOp("blk", b)>>)
               \o <<AppendOp("lnk", b), AppendOp("idx", b)>>
  /\ UNCHANGED <<disk, buffer, index, memory, loaded, flushed, phase, crashes>>

\* Mutant: the index records are not part of the flush.
FlushWithoutIndex ==
  /\ phase = "run" /\ todo = <<>>
  /\ \E b \in memory : indexStored(b)
  /\ todo' = <<WriteOp("blk", FALSE), WriteOp("lnk", FALSE), DropOp>>
  /\ UNCHANGED <<disk, buffer, index, memory, loaded, flushed, phase, crashes>>

Flush ==
  /\ phase = "run" /\ todo = <<>>
  /\ \E b \in memory : indexStored(b)
  /\ todo' = <<WriteOp("blk", FALSE), WriteOp("idx", FALSE), WriteOp("lnk", FALSE), DropOp>>
  /\ UNCHANGED <<disk, buffer, index, memory, loaded, flushed, phase, crashes>>

\* Storage::flush lets go of what is written
Drop ==
  /\ phase = "run" /\ todo # <<>> /\ Head(todo).op = "drop"
  /\ memory' = {b \in memory : ~indexStored(b)}
  /\ flushed' = {b \in Blocks : indexStored(b)}
  /\ todo' = <<>>
  /\ UNCHANGED <<disk, buffer, index, loaded, phase, crashes>>

-----------------------------------------------------------------------------
\* Death: the buffers are gone, and a write under way may have left any prefix

Crash ==
  /\ phase = "run" /\ crashes < MaxCrashes
  /\ crashes' = crashes + 1
  /\ phase' = "down"
  /\ \/ UNCHANGED disk
     \/ /\ todo # <<>> /\ Head(todo).op = "write"
        /\ LET f == Head(todo).file IN
             \E n \in 0..(Len(buffer[f]) - 1), tail \in {<<>>, <<Torn>>} :
               disk' = Written(f, SubSeq(buffer[f], 1, n) \o tail, FALSE)
  /\ buffer' = [f \in Files |-> <<>>]
  /\ todo' = <<>> /\ memory' = {} /\ loaded' = {}
  /\ index' = [b \in Blocks |-> NotStored]
  /\ UNCHANGED flushed

\* LinearDataStorage::init goes on behind the last byte, or with the next file
Opened == [f \in Files |-> IF Len(Last1(disk[f])) >= FileLimit THEN Append(disk[f], <<>>) ELSE disk[f]]

IndexRecords == FlattenSeq(disk["idx"])

\* decodeIndexRange: the block file reaches to the end of the block
BlockPresent(record) == RecordOn(disk, "blk", record[2].blk) \notin {None, Torn}

\* What loadingBlockIndex checks: whole records, no block twice, the block file, the parent
Loadable ==
  /\ \A i \in DOMAIN IndexRecords : IndexRecords[i] # Torn
  /\ \A i, j \in DOMAIN IndexRecords : IndexRecords[i][1] = IndexRecords[j][1] => i = j
  /\ \A i \in DOMAIN IndexRecords :
       /\ BlockPresent(IndexRecords[i])
       /\ Parent[IndexRecords[i][1]] \in {Genesis} \union {IndexRecords[j][1] : j \in DOMAIN IndexRecords}

Load ==
  /\ phase = "down" /\ Loadable
  /\ phase' = "run"
  /\ disk' = Opened
  /\ loaded' = {IndexRecords[i][1] : i \in DOMAIN IndexRecords}
  /\ index' = [b \in Blocks |->
                 IF b \in loaded' THEN (CHOOSE r \in ToSet(IndexRecords) : r[1] = b)[2] ELSE NotStored]
  /\ UNCHANGED <<buffer, todo, memory, flushed, crashes>>

LoadFails ==
  /\ phase = "down" /\ ~Loadable
  /\ phase' = "refused"
  /\ UNCHANGED <<disk, buffer, todo, index, memory, loaded, flushed, crashes>>

\* reindex: the index files are removed and every whole record of the block files is a block;
\* a record that was cut off stops it
BlockRecords == UNION {{<<n, i>> : i \in DOMAIN disk["blk"][n]} : n \in DOMAIN disk["blk"]}
Parseable == \A pos \in BlockRecords : RecordOn(disk, "blk", pos) # Torn

Reindex ==
  /\ phase = "refused" /\ Parseable
  /\ phase' = "run"
  /\ disk' = [f \in Files |-> IF f = "blk" THEN Opened["blk"] ELSE <<<<>>>>]
  /\ \E at \in [Blocks \ {Genesis} -> BlockRecords \union {None}] :
       /\ \A b \in Blocks \ {Genesis} :
            LET places == {pos \in BlockRecords : RecordOn(disk, "blk", pos) = b}
            IN IF places = {} THEN at[b] = None ELSE at[b] \in places
       /\ index' = [b \in Blocks |-> [blk |-> IF b = Genesis THEN None ELSE at[b], lnk |-> None]]
       /\ memory' = {b \in Blocks \ {Genesis} : at[b] # None}
  /\ flushed' = {}
  /\ UNCHANGED <<buffer, todo, loaded, crashes>>

ReindexFails ==
  /\ phase = "refused" /\ ~Parseable
  /\ phase' = "over"
  /\ UNCHANGED <<disk, buffer, todo, index, memory, loaded, flushed, crashes>>

\* The files stay as they are once everything is written, or nothing can be opened
Rest ==
  /\ phase = "over" \/ (phase = "run" /\ todo = <<>> /\ memory = {} /\ \A b \in Blocks \ {Genesis} : indexStored(b))
  /\ UNCHANGED vars

Next ==
  \/ \E b \in Blocks \ {Genesis} : Receive(b) \/ writeBlock(b)
  \/ DoAppend \/ DoWrite \/ Flush \/ Drop
  \/ Crash \/ Load \/ LoadFails \/ Reindex \/ ReindexFails \/ Rest

Spec == Init /\ [][Next]_vars

-----------------------------------------------------------------------------
\* Properties

TypeOK ==
  /\ phase \in {"run", "down", "refused", "over"} /\ crashes \in 0..MaxCrashes
  /\ \A f \in Files : Len(buffer[f]) <= BufferLimit
  /\ \A f \in Files : \A n \in DOMAIN disk[f] : Len(disk[f][n]) <= FileLimit + 1
  /\ memory \subseteq Blocks /\ loaded \subseteq Blocks /\ flushed \subseteq Blocks

\* A block the index has a position for is the block at that position, across buffers,
\* full files, crashes and restarts: the loader refuses an index that is ahead of the block
\* files (blockDataBase.cpp:1199-1212).
BlocksMatch ==
  phase = "run" => \A b \in Blocks : blockStored(b) => RecordAt("blk", index[b].blk) = b

\* What this process has written and let go of can be read back from disk, both parts
\* (objectByIndex reads the files, not the buffers).
WrittenReadable ==
  phase = "run" =>
    \A b \in Blocks \ (memory \union loaded) : indexStored(b) =>
      RecordOn(disk, "blk", index[b].blk) = b /\ RecordOn(disk, "lnk", index[b].lnk) = b

\* A crash never takes back what a finished flush has covered: if the index loads at all, or
\* can be built again from the block files, those blocks are in it (until a reindex is itself
\* interrupted: it begins by removing the index).
FlushedSurvives ==
  [][phase # "run" /\ phase' = "run" => \A b \in flushed : (indexStored(b) \/ b \in memory)']_vars

\* blockDataBase.cpp:1849 "What the index says the record is must be what the record says it
\* is": the linked outputs at the position a loaded record names are those of its block.
LinkedOutputsMatch ==
  phase = "run" => \A b \in loaded : RecordAt("lnk", index[b].lnk) = b
=============================================================================
