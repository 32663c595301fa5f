------------------------------ MODULE KvIndexes ------------------------------
(***************************************************************************)
(* The life of a shard's rank index families (dbengine/kvmerge.h): built    *)
(* after the initial catch-up or at an open that finds them missing,         *)
(* dropped at an open that does not want them, kept by every flush between.  *)
(* The rows go without a journal and are durable once the families are       *)
(* flushed together; families come and go at once; "xcfg", the list of the   *)
(* complete ones, is journalled.                                             *)
(***************************************************************************)
EXTENDS Naturals, Sequences, FiniteSets, FiniteSetsExt

CONSTANTS
  Indexes,       \* the registered ones
  Keys, Values,  \* data rows; 0 is the null value, without index rows
  MaxBatches, MaxCrashes, MaxOpens   \* bounds

VARIABLES
  rows,      \* memtables and files together: [data, stamp, index: family -> rows]
  disk,      \* what the last joint flush of the families left
  families,  \* the index families that exist
  xcfg,      \* the indexes the marker lists
  proc,      \* [at, cfg, build, scanned]; build: the indexes the scan writes
  active, deferred,
  batches, crashes, opens

vars == <<rows, disk, families, xcfg, proc, active, deferred, batches, crashes, opens>>

\* The rows an index has when it is complete
RowsFor(data) == {<<data[k], k>> : k \in {j \in Keys : data[j] # 0}}
Down == [at |-> "down", cfg |-> {}, build |-> {}, scanned |-> {}]
Empty == [data |-> [k \in Keys |-> 0], stamp |-> 0, index |-> [i \in Indexes |-> {}]]

Init ==
  /\ rows = Empty /\ disk = Empty /\ families = {} /\ xcfg = {} /\ proc = Down
  /\ active = {} /\ deferred = {} /\ batches = 0 /\ crashes = 0 /\ opens = 0

Without(state, gone) == [state EXCEPT !.index = [i \in Indexes |-> IF i \in gone THEN {} ELSE @[i]]]

-----------------------------------------------------------------------------
\* open() and the head of initializeImpl(): a shard without a stamp leaves its
\* indexes to the end of the catch-up
Open(cfg) ==
  LET fresh == rows.stamp = 0 IN
  /\ proc.at = "down" /\ opens < MaxOpens /\ opens' = opens + 1
  /\ proc' = [Down EXCEPT !.at = IF fresh /\ cfg # {} THEN "run" ELSE "drop", !.cfg = cfg]
  /\ active' = (IF fresh /\ cfg # {} THEN {} ELSE cfg)
  /\ deferred' = (IF fresh THEN cfg ELSE {})
  /\ UNCHANGED <<rows, disk, families, xcfg, batches, crashes>>


\* A family the marker does not list, or nobody wants
Unwanted == {i \in families : ~(i \in xcfg /\ i \in active)}

Drop(i) ==
  /\ proc.at = "drop" /\ i \in Unwanted
  /\ families' = families \ {i}
  /\ rows' = Without(rows, {i}) /\ disk' = Without(disk, {i})
  /\ UNCHANGED <<xcfg, proc, active, deferred, batches, crashes, opens>>

\* createColumnFamily() for the configured ones; only the new ones are built
Create ==
  LET missing == active \ families IN
  /\ proc.at = "drop" /\ Unwanted = {}
  /\ families' = families \union missing
  /\ proc' = [proc EXCEPT !.at = IF missing # {} \/ xcfg # active THEN "build" ELSE "run", !.build = missing]
  /\ UNCHANGED <<rows, disk, xcfg, active, deferred, batches, crashes, opens>>

\* buildIndexes(): a batch of the scan, not journalled
Build(k) ==
  /\ proc.at = "build" /\ proc.build # {} /\ k \in Keys \ proc.scanned
  /\ \A j \in Keys \ proc.scanned : k <= j
  /\ rows' = [rows EXCEPT !.index = [i \in Indexes |->
       IF i \in proc.build /\ rows.data[k] # 0 THEN @[i] \union {<<rows.data[k], k>>} ELSE @[i]]]
  /\ proc' = [proc EXCEPT !.scanned = @ \union {k}]
  /\ UNCHANGED <<disk, families, xcfg, active, deferred, batches, crashes, opens>>

Built == proc.at = "build" /\ (proc.build = {} \/ proc.scanned = Keys)

\* flushColumnFamilies()
FlushBuilt ==
  /\ Built /\ disk' = rows
  /\ proc' = [proc EXCEPT !.at = "mark"]
  /\ UNCHANGED <<rows, families, xcfg, active, deferred, batches, crashes, opens>>

\* The marker; after the catch-up the deferred indexes become the active ones
Mark ==
  /\ proc.at = "mark" /\ xcfg' = proc.cfg
  /\ proc' = [proc EXCEPT !.at = "run", !.build = {}, !.scanned = {}]
  /\ active' = active \union deferred /\ deferred' = {}
  /\ UNCHANGED <<rows, disk, families, batches, crashes, opens>>

-----------------------------------------------------------------------------

\* flushFolded(): the rows of a layer, the active indexes' rows and the stamp in
\* one batch
FlushLayer(k, v) ==
  LET old == rows.data[k]
      new == [rows EXCEPT !.data[k] = v, !.stamp = 1,
              !.index = [i \in Indexes |-> IF i \in active
                           THEN (@[i] \ {<<old, k>>}) \union (IF v = 0 THEN {} ELSE {<<v, k>>}) ELSE @[i]]]
  IN
  /\ proc.at = "run" /\ batches < MaxBatches
  /\ rows' = new /\ batches' = batches + 1
  /\ UNCHANGED <<disk, families, xcfg, proc, active, deferred, crashes, opens>>

\* finishInitialBuild(), after the catch-up has connected the genesis block at
\* least: a checkpoint, the families, then the scan as above
FinishInitialBuild ==
  /\ proc.at = "run" /\ deferred # {} /\ rows.stamp = 1
  /\ families' = families \union deferred
  /\ proc' = [proc EXCEPT !.at = "build", !.build = deferred]
  /\ UNCHANGED <<rows, disk, xcfg, active, deferred, batches, crashes, opens>>

\* The backend writes its memtables out, all families together
MemtableFlush ==
  /\ proc.at # "down" /\ disk # rows /\ disk' = rows
  /\ UNCHANGED <<rows, families, xcfg, proc, active, deferred, batches, crashes, opens>>

\* A stop with a checkpoint, and a crash
Close ==
  /\ proc.at = "run" /\ disk' = rows /\ proc' = Down /\ active' = {} /\ deferred' = {}
  /\ UNCHANGED <<rows, families, xcfg, batches, crashes, opens>>

Crash ==
  /\ proc.at # "down" /\ crashes < MaxCrashes /\ crashes' = crashes + 1
  /\ rows' = disk /\ proc' = Down /\ active' = {} /\ deferred' = {}
  /\ UNCHANGED <<disk, families, xcfg, batches, opens>>

Next ==
  \/ \E cfg \in SUBSET Indexes : Open(cfg)
  \/ \E i \in Indexes : Drop(i)
  \/ Create \/ FlushBuilt \/ Mark \/ FinishInitialBuild \/ MemtableFlush \/ Close \/ Crash
  \/ \E k \in Keys : Build(k) \/ \E v \in Values : FlushLayer(k, v)

Spec == Init /\ [][Next]_vars

-----------------------------------------------------------------------------
\* What the memtables hold is what a crash may lose; rows exist only in the
\* families that do
TypeOK ==
  /\ \A s \in {rows, disk} : \A i \in Indexes : s.index[i] # {} => i \in families
  /\ active \union deferred \subseteq proc.cfg

=============================================================================
