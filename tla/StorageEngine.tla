--------------------------- MODULE StorageEngine ---------------------------
(***************************************************************************)
(* The write path of StorageEngine (engines/storage/engine.py) over        *)
(* ParquetStore.write (engines/storage/parquet.py): bounded write queue,   *)
(* writer loop, in-memory buffers per partition, periodic flush loop,      *)
(* flush() for callers that need durability, and shutdown.                 *)
(*                                                                         *)
(* Coroutines interleave at their awaits.  A partition is written on the   *)
(* executor's thread pool in two steps, the read of the existing file and  *)
(* the atomic replace, so two writers of one partition can overlap.  A     *)
(* partition is a key, a row is known by its key and its dedup id, and a   *)
(* file is the set of rows it holds: which version of a row survives an    *)
(* upsert is not told apart.  Flush intervals are not timed: a tick finds  *)
(* any of the buffered partitions due.                                     *)
(***************************************************************************)
EXTENDS Integers, Sequences, FiniteSets, SequencesExt

CONSTANTS
  BarKeys,      \* partitions of bars, whose writers wait for room in the queue
  TradeKeys,    \* partitions of best-effort events, dropped when it is full
  QuoteKeys,    \* live quotes: queued, never buffered
  Rows,         \* the rows written: records with a partition and a dedup id
  Callers,      \* tasks that call flush()
  StorageQueueSize  \* maxsize of _write_queue

ASSUME StorageConstants ==
  /\ StorageQueueSize \in Nat \ {0}
  /\ Callers \cap {"loop", "stop"} = {}
  /\ \A r \in Rows : r.key \in BarKeys \cup TradeKeys \cup QuoteKeys

Keys    == BarKeys \cup TradeKeys
Writers == Callers \cup {"loop", "stop"}

VARIABLES
  queue,     \* _write_queue
  writer,    \* _writer_task runs
  buffers,   \* _buffers: the rows awaiting a flush
  stopping,  \* _stopping is set
  pc,        \* where the flush loop, each flush() and _on_stop are
  batch,     \* the rows each of them took out of _buffers and has yet to write
  cur,       \* the partition its executor thread is writing
  snap,      \* what that thread read of the existing file
  disk,      \* the rows in the Parquet files
  accepted,  \* rows put in the queue (history)
  target,    \* rows accepted when a flush() or the stop began (history)
  flushed,   \* rows whose durability a returned flush() promised (history)
  discarded, \* rows of failed writes and of files discarded as corrupt (history)
  overlapped \* partitions two threads have written at once (history)

threadVars  == <<cur, snap>>
historyVars == <<accepted, target, flushed, discarded, overlapped>>
storageVars == <<queue, writer, buffers, stopping, pc, batch, disk, threadVars, historyVars>>

NoKey == "none"

StorageInit ==
  /\ queue = <<>> /\ writer = TRUE
  /\ buffers = {} /\ stopping = FALSE
  /\ pc = [w \in Writers |-> "idle"]
  /\ batch = [w \in Writers |-> {}]
  /\ cur = [w \in Writers |-> NoKey]
  /\ snap = [w \in Writers |-> {}]
  /\ disk = {} /\ accepted = {} /\ flushed = {} /\ discarded = {} /\ overlapped = {}
  /\ target = [w \in Writers |-> {}]

of(rows, k) == {r \in rows : r.key = k}

-----------------------------------------------------------------------------
(* Queue and writer loop *)

\* save_bar and _on_event: a bar waits for room, any other event is dropped.
on_event(r) ==
  /\ r \notin accepted
  /\ r.key \in BarKeys => Len(queue) < StorageQueueSize
  /\ IF Len(queue) < StorageQueueSize
     THEN queue' = Append(queue, r) /\ accepted' = accepted \cup {r}
     ELSE UNCHANGED <<queue, accepted>>
  /\ UNCHANGED <<writer, buffers, stopping, pc, batch, disk, threadVars,
                 target, flushed, discarded, overlapped>>

\* One event of _writer_loop; the last task_done() wakes every join().
writer_loop ==
  /\ writer /\ queue # <<>>
  /\ queue' = Tail(queue)
  /\ buffers' = IF Head(queue).key \in QuoteKeys THEN buffers ELSE buffers \cup {Head(queue)}
  /\ pc' = [w \in Writers |-> IF pc[w] = "joining" /\ Tail(queue) = <<>> THEN "joined"
                              ELSE pc[w]]
  /\ UNCHANGED <<writer, stopping, batch, disk, threadVars, historyVars>>

-----------------------------------------------------------------------------
(* Flushing *)

\* _flush_due at a tick of the flush loop, for the partitions due.
flush_due(due) ==
  /\ pc["loop"] = "idle" /\ ~stopping
  /\ due # {} /\ \A k \in due : of(buffers, k) # {}
  /\ batch' = [batch EXCEPT !["loop"] = {r \in buffers : r.key \in due}]
  /\ buffers' = {r \in buffers : r.key \notin due}
  /\ pc' = [pc EXCEPT !["loop"] = "batch"]
  /\ UNCHANGED <<queue, writer, stopping, disk, threadVars, historyVars>>

\* The flush loop leaves between two ticks once _stopping is set.
loop_exits ==
  /\ pc["loop"] = "idle" /\ stopping
  /\ pc' = [pc EXCEPT !["loop"] = "done"]
  /\ UNCHANGED <<queue, writer, buffers, stopping, batch, disk, threadVars, historyVars>>

\* The wait for the queue that flush() and _on_stop begin with.
join(w) ==
  /\ pc[w] = "idle"
  /\ pc' = [pc EXCEPT ![w] = IF queue = <<>> THEN "joined" ELSE "joining"]
  /\ target' = [target EXCEPT ![w] = accepted]
  /\ UNCHANGED <<queue, writer, buffers, stopping, batch, disk, threadVars,
                 accepted, flushed, discarded, overlapped>>

\* flush() is called during start-up and backfill, before the engine stops.
flush(c) == pc["stop"] = "idle" /\ join(c)

\* _flush_all: the whole buffer is swapped out at once.
flush_all(w) ==
  /\ \/ w \in Callers /\ pc[w] = "joined"
     \/ w = "stop" /\ pc[w] = "draining" /\ pc["loop"] = "done"
  /\ batch' = [batch EXCEPT ![w] = buffers]
  /\ buffers' = {}
  /\ pc' = [pc EXCEPT ![w] = "batch"]
  /\ UNCHANGED <<queue, writer, stopping, disk, threadVars, historyVars>>

\* A thread reads the partition's file; one it cannot read or merge is deleted.
read_existing(w, k, corrupt) ==
  /\ pc[w] = "batch" /\ of(batch[w], k) # {}
  /\ corrupt => of(disk, k) # {}
  /\ pc' = [pc EXCEPT ![w] = "thread"]
  /\ cur' = [cur EXCEPT ![w] = k]
  /\ snap' = [snap EXCEPT ![w] = IF corrupt THEN {} ELSE of(disk, k)]
  /\ disk' = IF corrupt THEN disk \ of(disk, k) ELSE disk
  /\ discarded' = IF corrupt THEN discarded \cup of(disk, k) ELSE discarded
  /\ overlapped' = IF \E v \in Writers \ {w} : cur[v] = k THEN overlapped \cup {k}
                   ELSE overlapped
  /\ UNCHANGED <<queue, writer, buffers, stopping, batch, accepted, target, flushed>>

\* Variant: the write replaces the partition instead of merging into it.
merge_Replace(existing, rows) == rows

\* The upsert of ParquetStore.write: existing rows stay unless rewritten.
merge(existing, rows) == existing \cup rows

\* The file is replaced, or the write raises and its rows are only logged.
write_done(w, ok) ==
  /\ pc[w] = "thread"
  /\ LET k    == cur[w]
         rows == of(batch[w], k)
     IN  /\ disk' = IF ok THEN (disk \ of(disk, k)) \cup merge(snap[w], rows) ELSE disk
         /\ discarded' = IF ok THEN discarded ELSE discarded \cup rows
         /\ batch' = [batch EXCEPT ![w] = @ \ rows]
  /\ pc' = [pc EXCEPT ![w] = "batch"]
  /\ cur' = [cur EXCEPT ![w] = NoKey]
  /\ snap' = [snap EXCEPT ![w] = {}]
  /\ UNCHANGED <<queue, writer, buffers, stopping, accepted, target, flushed, overlapped>>

\* _write_pending returns: the loop sleeps, a flush() or the stop is over.
write_pending_done(w) ==
  /\ pc[w] = "batch" /\ batch[w] = {}
  /\ pc' = [pc EXCEPT ![w] = IF w = "stop" THEN "done" ELSE "idle"]
  /\ flushed' = IF w \in Callers THEN flushed \cup target[w] ELSE flushed
  /\ UNCHANGED <<queue, writer, buffers, stopping, batch, disk, threadVars,
                 accepted, target, discarded, overlapped>>

-----------------------------------------------------------------------------
(* Shutdown *)

\* Variant: the writer is cancelled before the join.
stop_CancelFirst ==
  /\ pc["stop"] = "idle" /\ \A c \in Callers : pc[c] = "idle"
  /\ pc' = [pc EXCEPT !["stop"] = IF queue = <<>> THEN "joined" ELSE "joining"]
  /\ writer' = FALSE
  /\ target' = [target EXCEPT !["stop"] = accepted]
  /\ UNCHANGED <<queue, buffers, stopping, batch, disk, threadVars,
                 accepted, flushed, discarded, overlapped>>

\* The engine is stopped once its start-up, and with it every flush(), is over.
stop == (\A c \in Callers : pc[c] = "idle") /\ join("stop")

\* Variant: no final flush.
stop_drain_NoFlush ==
  /\ pc["stop"] = "joined"
  /\ writer' = FALSE
  /\ stopping' = TRUE
  /\ pc' = [pc EXCEPT !["stop"] = "done"]
  /\ UNCHANGED <<queue, buffers, batch, disk, threadVars, historyVars>>

\* _on_stop after its join: the writer is cancelled, the flush loop told to leave.
stop_drain ==
  /\ pc["stop"] = "joined"
  /\ writer' = FALSE
  /\ stopping' = TRUE
  /\ pc' = [pc EXCEPT !["stop"] = "draining"]
  /\ UNCHANGED <<queue, buffers, batch, disk, threadVars, historyVars>>

-----------------------------------------------------------------------------
StorageNext ==
  \/ \E r \in Rows : on_event(r)
  \/ writer_loop
  \/ \E due \in SUBSET Keys : flush_due(due)
  \/ loop_exits
  \/ \E c \in Callers : flush(c)
  \/ \E w \in Writers :
       \/ flush_all(w)
       \/ \E k \in Keys, corrupt \in BOOLEAN : read_existing(w, k, corrupt)
       \/ \E ok \in BOOLEAN : write_done(w, ok)
       \/ write_pending_done(w)
  \/ stop
  \/ stop_drain

\* The event loop runs every task that is ready, executor threads end, and a
\* buffered partition's interval runs out.
StorageFairness ==
  /\ WF_storageVars(writer_loop) /\ WF_storageVars(loop_exits) /\ WF_storageVars(stop_drain)
  /\ \A k \in Keys : WF_storageVars(\E due \in SUBSET Keys : k \in due /\ flush_due(due))
  /\ \A w \in Writers :
       /\ WF_storageVars(flush_all(w)) /\ WF_storageVars(write_pending_done(w))
       /\ WF_storageVars(\E k \in Keys, corrupt \in BOOLEAN : read_existing(w, k, corrupt))
       /\ WF_storageVars(\E ok \in BOOLEAN : write_done(w, ok))

StorageSpec == StorageInit /\ [][StorageNext]_storageVars /\ StorageFairness

-----------------------------------------------------------------------------
(* Properties *)

\* Types; the write queue stays within its size and no two tasks hold one row.
StorageTypeOK ==
  /\ queue \in Seq(Rows) /\ Len(queue) <= StorageQueueSize
  /\ writer \in BOOLEAN /\ stopping \in BOOLEAN
  /\ buffers \subseteq Rows
  /\ pc \in [Writers -> {"idle", "joining", "joined", "draining", "batch", "thread", "done"}]
  /\ batch \in [Writers -> SUBSET Rows] /\ snap \in [Writers -> SUBSET Rows]
  /\ cur \in [Writers -> Keys \cup {NoKey}]
  /\ \A w, v \in Writers : w # v => batch[w] \cap (batch[v] \cup buffers) = {}

held == ToSet(queue) \cup buffers \cup UNION {batch[w] : w \in Writers}

\* A row the engine has excused itself for: its write failed or its file was
\* discarded (both logged), it is a live quote, or its partition was written by
\* two threads at once.
excused(r) == r \in discarded \/ r.key \in QuoteKeys \cup overlapped

\* No row an await away from being written disappears: whatever interleaving of
\* writer, flush loop, flush() and stop, an accepted row is queued, buffered,
\* taken for a write or on disk.
RowsAccounted == \A r \in accepted : r \in held \cup disk \/ excused(r)

\* Once _on_stop is over, every row accepted before it began is on disk.
StopIsDurable ==
  pc["stop"] = "done" => \A r \in target["stop"] : r \in disk \/ excused(r)

\* Shutdown ends: the joins are woken and the flush loop leaves.
StopCompletes == (pc["stop"] = "joining") ~> (pc["stop"] = "done")

\* Without any flush() or stop, a buffered row reaches the disk.
RowsGetWritten ==
  \A r \in Rows : (r \in buffers) ~> (r \in disk \/ excused(r))

\* flush() is durable: a row it covered is on disk, or gets there.
FlushIsDurable ==
  \A r \in Rows : (r \in flushed /\ r.key \in Keys) ~> (r \in disk \cup discarded)

-----------------------------------------------------------------------------
(* The properties together, as a run checks them *)

\* No accepted row disappears and none is held twice, through every interleaving
\* of the writer, the flush loop, flush() and stop.
RowsAreKept == StorageTypeOK /\ RowsAccounted

\* Rows do not stay in memory for ever, and shutdown is not stuck behind them.
RowsMoveOn == StopCompletes /\ RowsGetWritten
=============================================================================
