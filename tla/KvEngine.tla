------------------------------- MODULE KvEngine -------------------------------
(***************************************************************************)
(* The database engine (dbengine/kvview.h, kvlayer.h, kvbase.h, kvstore.h).*)
(* One mutator writes units into a live era per shard and publishes each   *)
(* unit as a revision; frozen eras are written to the disk by the flusher, *)
(* a batch and a stamp at a time; readers pin a revision and take no lock. *)
(* The disk (rocksdb without its journal) is the history of its batches: a *)
(* snapshot is a place in it, and a crash keeps some prefix per shard.     *)
(***************************************************************************)
EXTENDS Integers, Sequences, FiniteSets, SequencesExt, FiniteSetsExt

CONSTANTS
  Keys, ShardsNum, Readers,
  ShardOf,        \* key -> shard
  Stamped,        \* the database has been flushed once before the start
  EraBytes,       \* records that fill an era
  MaxUnits, UnitWrites, MaxRecords,   \* bounds: units, records of a unit and of an era (discarded ones too)
  MaxTickets, MaxCrashes              \* bounds: published tickets, crashes

Shards == 1..ShardsNum

EngineAssumption == ShardsNum \in Nat \ {0} /\ \A k \in Keys : ShardOf[k] \in Shards

VARIABLES
  mode,           \* "open", "stop" (shutting down), "closed", "refused"
  layers,         \* every layer since open, in the order of creation
  active,         \* ActiveEra_: index into layers, 0 for none
  current,        \* the published revision
  nextSeq, disk, durable, unflushed,   \* NextSeq_, Disk_, DurableThrough_, Unflushed_
  published, flushed,                  \* the two tickets
  mu, base, next, \* the mutator: where it is, the unit's baselines, the revision being built
  fl,             \* the flusher: where it is, the ticket and the revision it looked at
  rd,             \* the revision each reader has pinned
  hist,           \* shard -> the batches on disk, as [data, stamp] after each
  states, work,   \* history: the state after each unit; the unit's own view
  fresh,          \* history: what the last open() reported
  crashes

engine == <<layers, active, nextSeq, disk, durable, unflushed>>
vars == <<mode, engine, current, published, flushed, mu, base, next, fl, rd, hist, states, work, fresh, crashes>>

All == 1000           \* UINT32_MAX: every generation
Nothing == [k \in Keys |-> 0]
NoView == [stamp |-> -1]
Units == Len(states) - 1

-----------------------------------------------------------------------------
(***************************************************************************)
(* Layers (kvlayer.h).  A record is [gen, val, meb]; 0 is a tombstone.     *)
(***************************************************************************)
NewLayer(s) == [shard |-> s, seq |-> 0, stamp |-> 0, gen |-> 1, wm |-> 0, bytes |-> 0, rec |-> [k \in Keys |-> <<>>]]

\* chainOf(): a committed version stays behind the new one, ours is replaced
ChainOf(l, k) == IF l.rec[k] # <<>> /\ Head(l.rec[k]).gen = l.gen THEN Tail(l.rec[k]) ELSE l.rec[k]

WithRecord(l, k, v, meb) ==
  [l EXCEPT !.rec[k] = <<[gen |-> l.gen, val |-> v, meb |-> meb]>> \o ChainOf(l, k), !.bytes = @ + 1]

\* putRecord(): what a replaced version knew about the layers below is kept
Put(l, k, v, mayExistBelow) ==
  WithRecord(l, k, v, mayExistBelow \/ (l.rec[k] # <<>> /\ Head(l.rec[k]).meb))

Erase(l, k) == WithRecord(l, k, 0, l.rec[k] = <<>> \/ Head(l.rec[k]).meb)

\* discardUncommitted(): the unit's own heads are popped
Discard(l) == [l EXCEPT !.rec = [k \in Keys |-> ChainOf(l, k)]]

\* find() at a watermark: the newest record at or below it
Visible(l, k, wm) == SelectSeq(l.rec[k], LAMBDA r : r.gen <= wm)

\* writeLayer(): the newest record of a key; a pair born and dead here is not written
Folded(l, data) ==
  [k \in Keys |-> IF l.rec[k] = <<>> \/ ShardOf[k] # l.shard THEN data[k]
                  ELSE LET r == Head(l.rec[k]) IN
                       IF r.val # 0 THEN r.val ELSE IF r.meb THEN 0 ELSE data[k]]

-----------------------------------------------------------------------------
(***************************************************************************)
(* Revisions.  lookup(): layers newest first, then the disk's snapshot     *)
(***************************************************************************)
WatermarkOf(v, s, j) == IF j = Len(v.layers[s]) THEN v.wm[s] ELSE All

Lookup(v, k) ==
  LET s == ShardOf[k]
      hits == {j \in DOMAIN v.layers[s] : Visible(layers[v.layers[s][j]], k, WatermarkOf(v, s, j)) # <<>>}
  IN  IF hits # {} THEN Head(Visible(layers[v.layers[s][Max(hits)]], k, WatermarkOf(v, s, Max(hits)))).val
      ELSE hist[s][v.disk[s].at].data[k]

\* cloneView(): the newest disk states; what they contain leaves the stack
CloneView ==
  [current EXCEPT !.disk = disk,
     !.layers = [s \in Shards |-> SelectSeq(current.layers[s],
                                    LAMBDA l : layers[l].seq = 0 \/ layers[l].seq > disk[s].seq)]]

FirstView(h, stamp) == [stamp |-> stamp, layers |-> [s \in Shards |-> <<>>], wm |-> [s \in Shards |-> All],
                        disk |-> [s \in Shards |-> [at |-> Len(h[s]), seq |-> 0]]]

IdleFlusher == [at |-> "look", ticket |-> 0, view |-> NoView, todo |-> <<>>, did |-> FALSE]

\* open(): the first shard's stamp is the position, a later one may carry the
\* same or - then the database is filled from scratch - none
Agreed(h) == \A s \in Shards \ {1} : Last(h[s]).stamp \in {0, Last(h[1]).stamp}

\* open(), then initialize() over the batches that are there
OpenOn(h, past) ==
  LET stamp == Last(h[1]).stamp
      isFresh == \E s \in Shards : Last(h[s]).stamp = 0
  IN
  /\ mode' = IF Agreed(h) THEN "open" ELSE "refused"
  /\ fresh' = isFresh
  /\ hist' = h
  /\ current' = FirstView(h, stamp) /\ disk' = current'.disk
  /\ states' = SubSeq(past, 1, IF isFresh THEN 1 ELSE stamp + 1) /\ work' = Last(states')
  /\ layers' = <<>> /\ active' = [s \in Shards |-> 0] /\ nextSeq' = 1
  /\ durable' = [s \in Shards |-> 0] /\ unflushed' = [s \in Shards |-> 0]
  /\ published' = 0 /\ flushed' = 0 /\ fl' = IdleFlusher
  /\ mu' = "idle" /\ base' = [s \in Shards |-> 0] /\ next' = NoView

\* A database flushed once stands at stamp 1 with an empty state
Init ==
  LET past == IF Stamped THEN <<Nothing, Nothing>> ELSE <<Nothing>>
      h == [s \in Shards |-> <<[data |-> Nothing, stamp |-> Len(past) - 1]>>]
  IN
  /\ mode = "open" /\ fresh = ~Stamped /\ hist = h
  /\ current = FirstView(h, Len(past) - 1) /\ disk = current.disk
  /\ states = past /\ work = Nothing
  /\ layers = <<>> /\ active = [s \in Shards |-> 0] /\ nextSeq = 1
  /\ durable = [s \in Shards |-> 0] /\ unflushed = [s \in Shards |-> 0]
  /\ published = 0 /\ flushed = 0 /\ fl = IdleFlusher
  /\ mu = "idle" /\ base = [s \in Shards |-> 0] /\ next = NoView
  /\ rd = [r \in Readers |-> NoView] /\ crashes = 0

\* The system loses power: per shard some prefix of the batches is left
Crash ==
  /\ crashes < MaxCrashes /\ crashes' = crashes + 1 /\ mode \in {"open", "stop"}
  /\ \E kept \in [Shards -> 1..Max({Len(hist[s]) : s \in Shards})] :
       /\ \A s \in Shards : kept[s] <= Len(hist[s])
       /\ OpenOn([s \in Shards |-> SubSeq(hist[s], 1, kept[s])], states)
  /\ rd' = [r \in Readers |-> NoView]

-----------------------------------------------------------------------------
(***************************************************************************)
(* The mutator                                                             *)
(***************************************************************************)
\* liveWriter(): every shard gets an era, and a baseline
LiveWriter ==
  LET missing == SetToSeq({s \in Shards : active[s] = 0})
      grown == layers \o [i \in DOMAIN missing |-> NewLayer(missing[i])]
      era == [s \in Shards |-> IF active[s] # 0 THEN active[s]
                               ELSE Len(layers) + (CHOOSE i \in DOMAIN missing : missing[i] = s)]
  IN
  /\ mode = "open" /\ mu = "idle" /\ Units < MaxUnits
  /\ layers' = grown /\ active' = era /\ base' = [s \in Shards |-> grown[era[s]].bytes]
  /\ mu' = "unit" /\ work' = states[Len(states)]
  /\ UNCHANGED <<mode, current, nextSeq, disk, durable, unflushed, published, flushed, next, fl, rd, hist, states, fresh, crashes>>

Wrote(s) == layers[active[s]].bytes # base[s]
Written == FoldSet(LAMBDA s, n : n + layers[active[s]].bytes - base[s], 0, Shards)

\* The unit's writes: putNew for a key that is nowhere, putRestore, erase
Write(k, v) ==
  LET a == active[ShardOf[k]] IN
  /\ mode = "open" /\ mu = "unit" /\ Written < UnitWrites /\ layers[a].bytes < MaxRecords
  /\ \/ v = 0 /\ work[k] # 0 /\ layers' = [layers EXCEPT ![a] = Erase(@, k)]
     \/ v # 0 /\ work[k] = 0 /\ layers' = [layers EXCEPT ![a] = Put(@, k, v, FALSE)]
     \/ v # 0 /\ layers' = [layers EXCEPT ![a] = Put(@, k, v, TRUE)]
  /\ work' = [work EXCEPT ![k] = v]
  /\ UNCHANGED <<mode, current, active, nextSeq, disk, durable, unflushed, published, flushed, mu, base, next, fl, rd, hist,
                 states, fresh, crashes>>

\* ~CKvWriter without a commit
Abort ==
  /\ mode = "open" /\ mu = "unit" /\ mu' = "idle"
  /\ layers' = [i \in DOMAIN layers |-> IF \E s \in Shards : active[s] = i /\ Wrote(s) THEN Discard(layers[i]) ELSE layers[i]]
  /\ work' = states[Len(states)]
  /\ UNCHANGED <<mode, current, active, nextSeq, disk, durable, unflushed, published, flushed, base, next, fl, rd, hist, states,
                 fresh, crashes>>

\* freezeEra(): an era no commit tore off is in no view, and is dropped
FreezeAll(L, S) ==
  LET order == SetToSeq({s \in S : L[active[s]].wm > 0}) IN
  /\ layers' = [i \in DOMAIN L |->
       IF \E n \in DOMAIN order : active[order[n]] = i
       THEN [L[i] EXCEPT !.seq = nextSeq - 1 + CHOOSE n \in DOMAIN order : active[order[n]] = i] ELSE L[i]]
  /\ nextSeq' = nextSeq + Len(order)
  /\ active' = [s \in Shards |-> IF s \in S THEN 0 ELSE active[s]]
  /\ unflushed' = [s \in Shards |-> IF s \in ToSet(order) THEN unflushed[s] + 1 ELSE unflushed[s]]

\* commitLive(): the touched eras are torn off, the full ones frozen ...
Commit ==
  LET touched == {s \in Shards : Wrote(s)}
      stamp == Units + 1
      torn == [i \in DOMAIN layers |->
                IF \E s \in touched : active[s] = i
                THEN [layers[i] EXCEPT !.stamp = stamp, !.gen = @ + 1, !.wm = layers[i].gen] ELSE layers[i]]
      full == {s \in touched : layers[active[s]].bytes >= EraBytes}
      v == CloneView
      Stack(s) == IF s \in touched /\ (v.layers[s] = <<>> \/ Last(v.layers[s]) # active[s])
                  THEN Append(v.layers[s], active[s]) ELSE v.layers[s]
  IN
  /\ mode = "open" /\ mu = "unit" /\ mu' = "swap"
  /\ FreezeAll(torn, full)
  /\ next' = [v EXCEPT !.stamp = stamp, !.layers = [s \in Shards |-> Stack(s)],
                       !.wm = [s \in Shards |-> IF s \in full THEN All
                                                ELSE IF s \in touched THEN torn[active[s]].wm ELSE @[s]]]
  /\ UNCHANGED <<mode, current, disk, durable, published, flushed, base, fl, rd, hist, states, work, fresh, crashes>>

\* ... the revision is published, and then the ticket
Swap ==
  /\ mu \in {"swap", "swapAll"} /\ current' = next /\ next' = NoView
  /\ mu' = IF mu = "swap" THEN "bump" ELSE "bumpAll"
  /\ states' = IF mu = "swap" THEN Append(states, work) ELSE states
  /\ UNCHANGED <<mode, engine, published, flushed, base, fl, rd, hist, work, fresh, crashes>>

Bump ==
  /\ mu \in {"bump", "bumpAll"} /\ published' = published + 1
  /\ mu' = IF mu = "bump" THEN "idle" ELSE "drain"
  /\ UNCHANGED <<mode, engine, current, flushed, base, next, fl, rd, hist, states, work, fresh, crashes>>

\* flushAll(): the live eras freeze, the flusher is waited for, and every
\* shard gets the stamp
FlushAll ==
  /\ mode = "open" /\ mu = "idle" /\ Units > 0 /\ published < MaxTickets
  /\ IF \E s \in Shards : active[s] # 0
     THEN LET live == {s \in Shards : active[s] # 0} IN
          /\ FreezeAll(layers, live)
          /\ next' = [CloneView EXCEPT !.wm = [s \in Shards |-> IF s \in live /\ layers[active[s]].wm > 0 THEN All ELSE @[s]]]
          /\ mu' = "swapAll"
     ELSE mu' = "drain" /\ UNCHANGED <<layers, active, nextSeq, unflushed, next>>
  /\ UNCHANGED <<mode, current, disk, durable, published, flushed, base, fl, rd, hist, states, work, fresh, crashes>>

HasWork(v) == \E s \in Shards : \E i \in DOMAIN v.layers[s] :
                LET l == layers[v.layers[s][i]] IN l.seq # 0 /\ l.seq > durable[s]

\* drain(): the ticket first, then the view; base holds the ticket it waits on
Drain ==
  /\ mode = "open" /\ mu = "drain" /\ published' = published + 1 /\ mu' = "check"
  /\ base' = [s \in Shards |-> flushed]
  /\ UNCHANGED <<mode, engine, current, flushed, next, fl, rd, hist, states, work, fresh, crashes>>

DrainCheck ==
  /\ mode = "open" /\ mu = "check"
  /\ mu' = IF HasWork(current) THEN "wait" ELSE "stamp"
  /\ UNCHANGED <<mode, engine, current, published, flushed, base, next, fl, rd, hist, states, work, fresh, crashes>>

DrainWake ==
  /\ mode = "open" /\ mu = "wait" /\ \A s \in Shards : base[s] # flushed
  /\ mu' = "check" /\ base' = [s \in Shards |-> flushed]
  /\ UNCHANGED <<mode, engine, current, published, flushed, next, fl, rd, hist, states, work, fresh, crashes>>

\* One shard after the other; the shards without the stamp are those left
StampShard(s) ==
  /\ mode = "open" /\ mu = "stamp"
  /\ Last(hist[s]).stamp # Units \/ \A t \in Shards : Last(hist[t]).stamp = Units
  /\ hist' = [hist EXCEPT ![s] = Append(@, [Last(@) EXCEPT !.stamp = Units])]
  /\ mu' = IF \A t \in Shards \ {s} : Last(hist[t]).stamp = Units THEN "idle" ELSE "stamp"
  /\ UNCHANGED <<mode, engine, current, published, flushed, base, next, fl, rd, states, work, fresh, crashes>>

-----------------------------------------------------------------------------
(***************************************************************************)
(* The flusher: the ticket, then the view it announces                     *)
(***************************************************************************)
Owed(v, s) == SelectSeq(v.layers[s], LAMBDA l : layers[l].seq # 0 /\ layers[l].seq > durable[s])

FlushLook ==
  /\ mode \in {"open", "stop"} /\ fl.at = "look"
  /\ fl' = [fl EXCEPT !.at = "pin", !.ticket = published]
  /\ UNCHANGED <<mode, engine, current, published, flushed, mu, base, next, rd, hist, states, work, fresh, crashes>>

FlushPin ==
  /\ mode \in {"open", "stop"} /\ fl.at = "pin"
  /\ fl' = [fl EXCEPT !.at = "walk", !.view = current]
  /\ UNCHANGED <<mode, engine, current, published, flushed, mu, base, next, rd, hist, states, work, fresh, crashes>>

\* flushPending(): shards in order, a shard's layers oldest first; the batch
\* holds the layer's rows and its stamp
FlushWrite ==
  LET s == Min({t \in Shards : Owed(fl.view, t) # <<>>})
      l == layers[Head(Owed(fl.view, s))]
  IN
  /\ mode \in {"open", "stop"} /\ fl.at = "walk" /\ \E t \in Shards : Owed(fl.view, t) # <<>>
  /\ hist' = [hist EXCEPT ![s] = Append(@, [data |-> Folded(l, Last(@).data), stamp |-> l.stamp])]
  /\ fl' = [fl EXCEPT !.at = "state", !.todo = <<s, l.seq>>]
  /\ UNCHANGED <<mode, engine, current, published, flushed, mu, base, next, rd, states, work, fresh, crashes>>

FlushDurableFirst ==
  LET s == fl.todo[1] IN
  /\ mode \in {"open", "stop"} /\ fl.at = "state"
  /\ disk' = [disk EXCEPT ![s] = [at |-> Len(hist[s]) - 1, seq |-> fl.todo[2]]]
  /\ fl' = [fl EXCEPT !.at = "durable"]
  /\ UNCHANGED <<mode, layers, active, nextSeq, durable, unflushed, current, published, flushed, mu, base, next, rd, hist, states,
                 work, fresh, crashes>>

\* Only after the write, and as one object: the snapshot with what it contains
FlushState ==
  LET s == fl.todo[1] IN
  /\ mode \in {"open", "stop"} /\ fl.at = "state"
  /\ disk' = [disk EXCEPT ![s] = [at |-> Len(hist[s]), seq |-> fl.todo[2]]]
  /\ fl' = [fl EXCEPT !.at = "durable"]
  /\ UNCHANGED <<mode, layers, active, nextSeq, durable, unflushed, current, published, flushed, mu, base, next, rd, hist, states,
                 work, fresh, crashes>>

FlushDurable ==
  LET s == fl.todo[1] IN
  /\ mode \in {"open", "stop"} /\ fl.at = "durable"
  /\ durable' = [durable EXCEPT ![s] = fl.todo[2]] /\ unflushed' = [unflushed EXCEPT ![s] = @ - 1]
  /\ fl' = [fl EXCEPT !.at = "walk", !.todo = <<>>, !.did = TRUE]
  /\ UNCHANGED <<mode, layers, active, nextSeq, disk, current, published, flushed, mu, base, next, rd, hist, states, work, fresh,
                 crashes>>

\* The pass is over: another one at once if it wrote, a wait if it did not
FlushOver ==
  /\ mode \in {"open", "stop"} /\ fl.at = "walk" /\ \A s \in Shards : Owed(fl.view, s) = <<>>
  /\ flushed' = IF fl.did THEN flushed + 1 ELSE flushed
  /\ fl' = [IdleFlusher EXCEPT !.at = IF fl.did THEN "look" ELSE "wait", !.ticket = fl.ticket]
  /\ UNCHANGED <<mode, engine, current, published, mu, base, next, rd, hist, states, work, fresh, crashes>>

\* Published_.wait(ticket), or the stop it carried.  A negative ticket has the
\* stop bit
FlushWake ==
  /\ mode \in {"open", "stop"} /\ fl.at = "wait" /\ (fl.ticket < 0 \/ fl.ticket # published)
  /\ fl' = [IdleFlusher EXCEPT !.at = IF fl.ticket < 0 THEN "gone" ELSE "look"]
  /\ UNCHANGED <<mode, engine, current, published, flushed, mu, base, next, rd, hist, states, work, fresh, crashes>>

-----------------------------------------------------------------------------
(***************************************************************************)
(* Readers, and shutdown()                                                 *)
(***************************************************************************)
Pin(r) ==
  /\ mode = "open" /\ rd[r] = NoView /\ rd' = [rd EXCEPT ![r] = current]
  /\ UNCHANGED <<mode, engine, current, published, flushed, mu, base, next, fl, hist, states, work, fresh, crashes>>

Unpin(r) ==
  /\ rd[r] # NoView /\ rd' = [rd EXCEPT ![r] = NoView]
  /\ UNCHANGED <<mode, engine, current, published, flushed, mu, base, next, fl, hist, states, work, fresh, crashes>>

Shutdown ==
  /\ mode = "open" /\ mu = "idle" /\ mode' = "stop" /\ published' = -1 - published
  /\ UNCHANGED <<engine, current, flushed, mu, base, next, fl, rd, hist, states, work, fresh, crashes>>

\* LiveViews_ counts the revisions readers still hold
Close ==
  /\ mode = "stop" /\ fl.at = "gone" /\ \A r \in Readers : rd[r] = NoView
  /\ mode' = "closed" /\ current' = NoView /\ active' = [s \in Shards |-> 0]
  /\ UNCHANGED <<layers, nextSeq, disk, durable, unflushed, published, flushed, mu, base, next, fl, rd, hist, states, work, fresh,
                 crashes>>

-----------------------------------------------------------------------------
Mutate ==
  \/ LiveWriter \/ Commit \/ Abort
  \/ \E k \in Keys, v \in {0, Units + 1} : Write(k, v)

Checkpoint == Swap \/ Bump \/ Drain \/ DrainCheck \/ DrainWake \/ \E s \in Shards : StampShard(s)

Flusher == FlushLook \/ FlushPin \/ FlushWrite \/ FlushState \/ FlushDurable \/ FlushOver \/ FlushWake

Next ==
  \/ Mutate \/ FlushAll \/ Checkpoint \/ Flusher \/ Shutdown \/ Close \/ Crash
  \/ \E r \in Readers : Pin(r) \/ Unpin(r)

Spec == Init /\ [][Next]_vars

\* The flusher's thread and the mutator inside flushAll() keep running, and a
\* reader's call ends
FairSpec ==
  Spec /\ WF_vars(Flusher) /\ WF_vars(Checkpoint) /\ WF_vars(Close) /\ \A r \in Readers : WF_vars(Unpin(r))

-----------------------------------------------------------------------------
Views == IF mode = "refused" THEN {} ELSE ({current, fl.view} \union {rd[r] : r \in Readers}) \ {NoView}

\* The admission count of a shard is the number of layers it owes the disk
\* (freezeEra adds, the flusher takes away), and layers are numbered once
TypeOK ==
  /\ mode \in {"open", "stop", "closed", "refused"}
  /\ \A s \in Shards : unflushed[s] =
       Cardinality({i \in DOMAIN layers : layers[i].shard = s /\ layers[i].seq > durable[s]})
  /\ \A i, j \in DOMAIN layers : layers[i].seq = layers[j].seq /\ i # j => layers[i].seq = 0

\* Whoever pinned a revision reads the database exactly as the unit that
\* published it left it, for as long as it holds the pin: later units, frozen
\* and flushed layers, dropped layers and aborted units change nothing in it
ViewExact == \A v \in Views : \A k \in Keys : Lookup(v, k) = states[v.stamp + 1][k]

\* Layers and snapshot are one pair: a layer of a revision is not in its
\* snapshot - a family that sums its layers would count it twice - and a frozen
\* layer is in one of the two from its publication on
PairedOnce ==
  \A s \in Shards :
    /\ \A v \in Views : \A i \in DOMAIN v.layers[s] :
         layers[v.layers[s][i]].seq = 0 \/ layers[v.layers[s][i]].seq > v.disk[s].seq
    /\ current # NoView => \A i \in DOMAIN layers :
         layers[i].shard = s /\ layers[i].seq # 0 /\ next = NoView =>
           (\E j \in DOMAIN current.layers[s] : current.layers[s][j] = i) # (layers[i].seq <= current.disk[s].seq)

\* What open() accepts after a crash is the database as some unit left it, all
\* shards at that unit: a crash rolls data and position back together
AcceptedIsExact ==
  mode = "open" /\ layers = <<>> => \A k \in Keys : Lookup(current, k) = states[current.stamp + 1][k]

\* The shards close after the last reader let go of its snapshot
NoReaderLeft == mode = "closed" => \A r \in Readers : rd[r] = NoView

\* When a checkpoint has run, every shard is stamped with the position and
\* holds what was committed
CheckpointComplete ==
  mu = "stamp" => \A k \in Keys : Last(hist[ShardOf[k]]).data[k] = states[Units + 1][k]

\* kvstore.h, open(): "nothing stored yet: whoever opened this has to fill it
\* from scratch"
FreshIsEmpty ==
  fresh /\ mode = "open" /\ layers = <<>> => \A s \in Shards : Last(hist[s]).data = Nothing

=============================================================================
