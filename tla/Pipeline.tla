------------------------------ MODULE Pipeline ------------------------------
(***************************************************************************)
(* The ingest pipeline of one index name on one node,                      *)
(* crates/rsearch-ingest/src/pipeline.rs, with the bulk handler that feeds *)
(* it (rsearch-server/src/bulk_api.rs), the stream and split rows it       *)
(* writes (rsearch-metastore/src/metastore.rs) and the control jobs that   *)
(* retire them (rsearch-server/src/control.rs).                            *)
(*                                                                         *)
(* A bulk item is made durable in the write-ahead log, queued to the       *)
(* index's worker, batched, built into a split, uploaded, staged and       *)
(* published in the metastore, and only then confirmed to the log.  Index  *)
(* deletion, worker retirement, backend errors and crashes interleave with *)
(* every step.                                                             *)
(*                                                                         *)
(* Names: row k of the streams table is the k-th incarnation of the index  *)
(* (the name is re-created only after it was retired); a generation is one *)
(* worker task; a document stands for its WAL record and its queue item.   *)
(* The log is the one DurableLog promises.                                 *)
(***************************************************************************)
EXTENDS Integers, FiniteSets, FiniteSetsExt, Sequences

CONSTANTS
    Docs,           \* documents clients send, one bulk item each
    Plans,          \* settings and bounds, one chosen per behaviour:
                    \*   refreshing, poison   documents sent with ?refresh, skipped as invalid
                    \*   capacity, batch      queue_capacity, max_batch_docs
                    \*   kinds, faults        backend calls that may fail, how many do
                    \*   deletes, retires, crashes   of the index, of idle workers, of the node
    MaxSplits       \* bound: splits built

ASSUME PipelineAssumption ==
    /\ IsFiniteSet(Docs) /\ MaxSplits \in Nat
    /\ Plans \subseteq [refreshing : SUBSET Docs, poison : SUBSET Docs,
                        capacity : Nat \ {0}, batch : Nat \ {0},
                        kinds : SUBSET {"resolve", "put", "stage", "publish", "reply", "sweep", "lookup"},
                        faults : Nat, deletes : Nat, retires : Nat, crashes : Nat]

Rows   == 1 .. Max({p.deletes : p \in Plans}) + 1
Gens   == 1 .. Max({p.retires + p.crashes : p \in Plans}) + 1
Splits == 1 .. MaxSplits
NoSplit == [state |-> "none", row |-> 0, docs |-> {}]

VARIABLES
    \* streams and splits tables, object storage
    live,       \* the row the name resolves to, 0 when there is none
    purged,     \* retired rows already dropped
    split,      \* splits: lifecycle state, stream_id, documents
    objects,    \* split files in object storage
    indexed,    \* documents that were ever in a published split
    \* PipelineInner
    cache,      \* stream_info: the cached row, 0 when absent or expired
    entry,      \* workers: the generation in the map, 0 when absent
    \* one stream_worker per generation
    wpc,        \* where it is
    target,     \* WorkerStream.id
    queue,      \* its channel
    closed,     \* generations that closed theirs
    buffer,     \* documents received, not yet in a flush
    positions,  \* documents of the running flush when it began
    batch,      \* those the running flush still carries
    waiters,    \* refresh requests to answer after the flush
    built,      \* the split of the running attempt
    \* bulk requests
    req,        \* where each document's request is
    info,       \* StreamInfo.id it resolved last: the item's stream_id
    handle,     \* the worker it looked up
    done,       \* deletions of the index before the response
    \* the write-ahead log
    log, pending, acked, confirmed, up,
    outstanding,  \* its count of unconfirmed records
    \* replay
    replaying,  \* records still to be fed back
    feed,       \* the record in hand, and what comes next for it
    \* DELETE /{index} on this node: retired, cache entry not yet forgotten
    forgetting,
    sweeping,   \* the staged splits staged_orphan_job read, not yet marked
    plan,       \* the chosen plan, its faults the ones still to come
    deletes, retires, crashes

metaVars   == <<live, purged, split, objects, indexed>>
nodeVars   == <<cache, entry>>
workerVars == <<wpc, target, queue, closed, buffer, positions, batch, waiters, built>>
reqVars    == <<req, info, handle, done>>
walVars    == <<log, pending, acked, confirmed, up, outstanding>>
replayVars == <<replaying, feed>>
ctlVars    == <<forgetting, sweeping>>
boundVars  == <<plan, deletes, retires, crashes>>
vars == <<metaVars, nodeVars, workerVars, reqVars, walVars, replayVars, ctlVars, boundVars>>

Wal == INSTANCE DurableLog WITH Records <- Docs

----------------------------------------------------------------------------
Accepted == {d \in Docs : req[d] \in {"accepted", "refreshed"}}
Terminal == {"accepted", "refreshed", "rejected", "cut"}
Serving == up /\ replaying = {}

Init ==
    /\ live = 0 /\ purged = {} /\ split = [s \in Splits |-> NoSplit]
    /\ objects = {} /\ indexed = {}
    /\ cache = 0 /\ entry = 0
    /\ wpc = [g \in Gens |-> "none"]
    /\ target = [g \in Gens |-> 0]
    /\ queue = [g \in Gens |-> <<>>]
    /\ closed = {}
    /\ buffer = [g \in Gens |-> {}]
    /\ positions = [g \in Gens |-> {}]
    /\ batch = [g \in Gens |-> {}]
    /\ waiters = [g \in Gens |-> {}]
    /\ built = [g \in Gens |-> 0]
    /\ req = [d \in Docs |-> "none"]
    /\ info = [d \in Docs |-> 0]
    /\ handle = [d \in Docs |-> 0]
    /\ done = [d \in Docs |-> 0]
    /\ Wal!Init /\ outstanding = 0
    /\ replaying = {} /\ feed = [pc |-> "next"] /\ forgetting = FALSE /\ sweeping = {}
    /\ plan \in Plans /\ deletes = 0 /\ retires = 0 /\ crashes = 0

Fault(kind) ==
    /\ kind \in plan.kinds /\ plan.faults > 0
    /\ plan' = [plan EXCEPT !.faults = @ - 1]

NoFault == UNCHANGED plan

\* wal.confirm: a position is only a segment, so confirming twice counts
\* twice.
ConfirmWal(S) ==
    /\ Wal!Confirm(S \cap pending)
    /\ outstanding' = IF outstanding >= Cardinality(S) THEN outstanding - Cardinality(S) ELSE 0

\* ensure_stream: the live row, created if there is none.
EnsureStream == live' = IF live = 0 THEN deletes + 1 ELSE live

----------------------------------------------------------------------------
(* A bulk item: handle_bulk_local and IngestPipeline::enqueue *)

At(d, from) == Serving /\ req[d] = from
Goto(d, to) == req' = [req EXCEPT ![d] = to]

Begin(d) ==
    /\ At(d, "none") /\ Goto(d, "resolve")
    /\ UNCHANGED <<metaVars, nodeVars, workerVars, info, handle, done, walVars, replayVars,
                   ctlVars, boundVars>>

\* stream_info_creating, up to the metastore's reply; the bulk handler calls
\* it before the append and enqueue again after it.
StreamInfo(d) ==
    /\ \/ At(d, "resolve") \/ At(d, "enqueue")
    /\ \/ /\ cache # 0
          /\ info' = [info EXCEPT ![d] = cache]
          /\ Goto(d, IF req[d] = "resolve" THEN "append" ELSE "lookup")
          /\ UNCHANGED live
       \/ /\ cache = 0
          /\ EnsureStream
          /\ info' = [info EXCEPT ![d] = live']
          /\ Goto(d, IF req[d] = "resolve" THEN "resolved" ELSE "reresolved")
    /\ UNCHANGED <<purged, split, objects, indexed, nodeVars, workerVars, handle, done,
                   walVars, replayVars, ctlVars, boundVars>>

\* ... and its insert into the cache.
StoreInfo(d) ==
    /\ \/ At(d, "resolved") /\ Goto(d, "append")
       \/ At(d, "reresolved") /\ Goto(d, "lookup")
    /\ cache' = info[d]
    /\ UNCHANGED <<metaVars, entry, workerVars, info, handle, done, walVars, replayVars,
                   ctlVars, boundVars>>

\* STREAM_INFO_TTL passes.
ExpireInfo ==
    /\ cache # 0 /\ cache' = 0
    /\ UNCHANGED <<metaVars, entry, workerVars, reqVars, walVars, replayVars, ctlVars, boundVars>>

AppendWal(d) ==
    /\ At(d, "append") /\ Goto(d, "fsync")
    /\ Wal!Append({d}) /\ outstanding' = outstanding + 1
    /\ UNCHANGED <<metaVars, nodeVars, workerVars, info, handle, done, replayVars,
                   ctlVars, boundVars>>

AppendDone(d) ==
    /\ At(d, "fsync") /\ Goto(d, "enqueue")
    /\ Wal!Acknowledge({d}) /\ outstanding' = outstanding
    /\ UNCHANGED <<metaVars, nodeVars, workerVars, info, handle, done, replayVars,
                   ctlVars, boundVars>>

\* The item is refused (429 or 500): its record is confirmed.
Reject(d) ==
    /\ Goto(d, "rejected") /\ ConfirmWal({d})

\* worker_for: the map's worker, or a new one bound to the live row.
WorkerFor(d) ==
    \/ /\ entry # 0
       /\ handle' = [handle EXCEPT ![d] = entry]
       /\ UNCHANGED <<live, entry, wpc, target>>
    \/ /\ entry = 0
       /\ EnsureStream
       /\ \E g \in Gens :
            /\ wpc[g] = "none" /\ \A h \in Gens : h < g => wpc[h] # "none"
            /\ handle' = [handle EXCEPT ![d] = g]
            /\ entry' = g
            /\ wpc' = [wpc EXCEPT ![g] = "recv"]
            /\ target' = [target EXCEPT ![g] = live']

LookupWorker(d) ==
    /\ \/ At(d, "lookup") /\ Goto(d, "send")
       \/ At(d, "relookup") /\ Goto(d, "resend")
    /\ WorkerFor(d)
    /\ UNCHANGED <<purged, split, objects, indexed, cache, queue, closed, buffer, positions, batch,
                   waiters, built, info, done, walVars, replayVars, ctlVars, boundVars>>

\* A metastore call of enqueue fails: ensure_stream, or stream_max_seq once the row is there.
EnqueueError(d) ==
    /\ \/ At(d, "enqueue") /\ cache = 0
       \/ At(d, "reresolved")
       \/ At(d, "lookup") /\ entry = 0
       \/ At(d, "relookup") /\ entry = 0
    /\ Fault("lookup") /\ Reject(d)
    /\ UNCHANGED <<metaVars, nodeVars, workerVars, info, handle, done, replayVars, ctlVars,
                   deletes, retires, crashes>>

Full(g) == Len(queue[g]) >= plan.capacity

\* try_send, once more on a fresh worker when this one has retired.
TrySend(d) ==
    LET g == handle[d] IN
    /\ At(d, "send") \/ At(d, "resend")
    /\ \/ /\ g \in closed /\ req[d] = "send"
          /\ Goto(d, "relookup")
          /\ UNCHANGED <<walVars, queue, done>>
       \/ /\ IF g \in closed THEN req[d] = "resend" ELSE Full(g)
          /\ Reject(d)
          /\ UNCHANGED <<queue, done>>
       \/ /\ g \notin closed /\ ~Full(g)
          /\ queue' = [queue EXCEPT ![g] = Append(@, [kind |-> "doc", doc |-> d])]
          /\ Goto(d, IF d \in plan.refreshing THEN "refresh" ELSE "accepted")
          /\ done' = [done EXCEPT ![d] = deletes]
          /\ UNCHANGED walVars
    /\ UNCHANGED <<metaVars, nodeVars, wpc, target, closed, buffer, positions, batch, waiters, built,
                   info, handle, replayVars, ctlVars, boundVars>>

\* flush_stream: look the worker up; without one there is nothing to cut.
RefreshLookup(d) ==
    /\ At(d, "refresh")
    /\ handle' = [handle EXCEPT ![d] = entry]
    /\ Goto(d, IF entry = 0 THEN "refreshed" ELSE "cutting")
    /\ UNCHANGED <<metaVars, nodeVars, workerVars, info, done, walVars, replayVars,
                   ctlVars, boundVars>>

\* The flush message is sent, waiting for room; a closed channel means the
\* worker has retired.
RefreshSend(d) ==
    LET g == handle[d] IN
    /\ At(d, "cutting")
    /\ \/ /\ g \in closed
          /\ Goto(d, "refreshed") /\ UNCHANGED queue
       \/ /\ g \notin closed /\ ~Full(g)
          /\ queue' = [queue EXCEPT ![g] = Append(@, [kind |-> "flush", doc |-> d])]
          /\ Goto(d, "waiting")
    /\ UNCHANGED <<metaVars, nodeVars, wpc, target, closed, buffer, positions, batch, waiters, built,
                   info, handle, done, walVars, replayVars, ctlVars, boundVars>>

\* REFRESH_WAIT_LIMIT passes: the response goes out without the refresh.
RefreshTimeout(d) ==
    /\ \/ At(d, "cutting") \/ At(d, "waiting")
    /\ Goto(d, "accepted")
    /\ UNCHANGED <<metaVars, nodeVars, workerVars, info, handle, done, walVars, replayVars,
                   ctlVars, boundVars>>

----------------------------------------------------------------------------
(* stream_worker *)

Runs(g, at) == up /\ wpc[g] = at

Answer(D) == req' = [d \in Docs |-> IF d \in D /\ req[d] = "waiting" THEN "refreshed" ELSE req[d]]

\* The buffer is copied instead of taken.
CopyBuffer(g, D) ==
    /\ wpc' = [wpc EXCEPT ![g] = "resolve"]
    /\ positions' = [positions EXCEPT ![g] = D]
    /\ batch' = [batch EXCEPT ![g] = D]
    /\ buffer' = [buffer EXCEPT ![g] = D]

\* flush takes the buffer.
StartFlush(g, D) ==
    /\ wpc' = [wpc EXCEPT ![g] = "resolve"]
    /\ positions' = [positions EXCEPT ![g] = D]
    /\ batch' = [batch EXCEPT ![g] = D]
    /\ buffer' = [buffer EXCEPT ![g] = {}]

\* One message off the channel.  (The closed-channel branch is unreachable:
\* the map holds a sender for as long as the worker receives.)
Receive(g) ==
    LET msg == Head(queue[g])
        got == buffer[g] \cup {msg.doc}
    IN
    /\ Runs(g, "recv") /\ queue[g] # <<>>
    /\ queue' = [queue EXCEPT ![g] = Tail(@)]
    /\ \/ /\ msg.kind = "doc" /\ Cardinality(got) < plan.batch
          /\ buffer' = [buffer EXCEPT ![g] = got]
          /\ UNCHANGED <<wpc, positions, batch, waiters, req>>
       \/ /\ msg.kind = "doc" /\ Cardinality(got) >= plan.batch
          /\ StartFlush(g, got)
          /\ UNCHANGED <<waiters, req>>
       \/ /\ msg.kind = "flush" /\ buffer[g] = {}
          /\ Answer({msg.doc})
          /\ UNCHANGED <<wpc, positions, batch, buffer, waiters>>
       \/ /\ msg.kind = "flush" /\ buffer[g] # {}
          /\ waiters' = [waiters EXCEPT ![g] = @ \cup {msg.doc}]
          /\ StartFlush(g, buffer[g])
          /\ UNCHANGED req
    /\ UNCHANGED <<metaVars, nodeVars, target, closed, built, info, handle, done, walVars,
                   replayVars, ctlVars, boundVars>>

\* The batch is old enough.
BatchDeadline(g) ==
    /\ Runs(g, "recv") /\ buffer[g] # {}
    /\ StartFlush(g, buffer[g])
    /\ UNCHANGED <<metaVars, nodeVars, target, queue, closed, waiters, built, reqVars, walVars,
                   replayVars, ctlVars, boundVars>>

\* Nothing came for WORKER_IDLE_EXIT_SECS: leave the map ...
IdleUnpublish(g) ==
    /\ Runs(g, "recv") /\ buffer[g] = {}
    /\ retires < plan.retires /\ retires' = retires + 1
    /\ entry' = 0
    /\ wpc' = [wpc EXCEPT ![g] = "closing"]
    /\ UNCHANGED <<metaVars, cache, target, queue, closed, buffer, positions, batch, waiters, built,
                   reqVars, walVars, replayVars, ctlVars, plan, deletes, crashes>>

\* The queue is dropped instead of drained.
DrainNothing(g) == {}

Drained(g) == {queue[g][i] : i \in DOMAIN queue[g]}

\* ... close the channel and drain it; flush what came in meanwhile.
IdleClose(g) ==
    LET late == {m.doc : m \in {n \in Drained(g) : n.kind = "doc"}}
        asks == {m.doc : m \in {n \in Drained(g) : n.kind = "flush"}}
    IN
    /\ Runs(g, "closing")
    /\ closed' = closed \cup {g}
    /\ queue' = [queue EXCEPT ![g] = <<>>]
    /\ \/ /\ late # {}
          /\ StartFlush(g, late)
          /\ waiters' = [waiters EXCEPT ![g] = asks]
          /\ UNCHANGED req
       \/ /\ late = {}
          /\ Answer(asks)
          /\ wpc' = [wpc EXCEPT ![g] = "gone"]
          /\ UNCHANGED <<positions, batch, buffer, waiters>>
    /\ UNCHANGED <<metaVars, nodeVars, target, built, info, handle, done, walVars, replayVars,
                   ctlVars, boundVars>>

\* flush returns: the waiters are answered; a retiring worker ends.
FinishFlush(g) ==
    /\ Answer(waiters[g])
    /\ waiters' = [waiters EXCEPT ![g] = {}]
    /\ positions' = [positions EXCEPT ![g] = {}]
    /\ batch' = [batch EXCEPT ![g] = {}]
    /\ built' = [built EXCEPT ![g] = 0]
    /\ wpc' = [wpc EXCEPT ![g] = IF g \in closed THEN "gone" ELSE "recv"]

\* No item is ever stale; the fresh ones are.
StaleNever(g, row)    == {}
StaleInverted(g, row) == {d \in batch[g] : info[d] = row}

\* Items accepted against another row than the one being written.
Stale(g, row) == {d \in batch[g] : info[d] # row}

\* flush: the items whose stream_id is not the worker's row are dropped and
\* confirmed, the others go on.
DropStale(g, row) ==
    LET stale == Stale(g, row) IN
    /\ IF stale = {} THEN UNCHANGED walVars ELSE ConfirmWal(stale)
    /\ \/ /\ batch[g] = stale
          /\ FinishFlush(g)
       \/ /\ batch[g] # stale
          /\ batch' = [batch EXCEPT ![g] = @ \ stale]
          /\ wpc' = [wpc EXCEPT ![g] = "build"]
          /\ UNCHANGED <<req, waiters, positions, built>>

\* resolve_target finds the index.
ResolveLive(g) ==
    /\ Runs(g, "resolve") /\ live # 0
    /\ target' = [target EXCEPT ![g] = live]
    /\ cache' = IF live # target[g] THEN 0 ELSE cache
    /\ DropStale(g, live)
    /\ UNCHANGED <<metaVars, entry, queue, closed, buffer, info, handle, done, replayVars,
                   ctlVars, boundVars>>

\* resolve_target cannot ask: the worker keeps its binding.
ResolveUnknown(g) ==
    /\ Runs(g, "resolve") /\ Fault("resolve")
    /\ DropStale(g, target[g])
    /\ UNCHANGED <<metaVars, nodeVars, target, queue, closed, buffer, info, handle, done,
                   replayVars, ctlVars, deletes, retires, crashes>>

\* resolve_target finds no index: the documents die with it.
ResolveDeleted(g) ==
    /\ Runs(g, "resolve") /\ live = 0
    /\ ConfirmWal(positions[g])
    /\ cache' = 0
    /\ FinishFlush(g)
    /\ UNCHANGED <<metaVars, entry, target, queue, closed, buffer, info, handle, done,
                   replayVars, ctlVars, boundVars>>

\* flush_inner: nothing in the batch is indexable.
BuildNothing(g) ==
    /\ Runs(g, "build") /\ batch[g] \subseteq plan.poison
    /\ ConfirmWal(batch[g])
    /\ FinishFlush(g)
    /\ UNCHANGED <<metaVars, nodeVars, target, queue, closed, buffer, info, handle, done,
                   replayVars, ctlVars, boundVars>>

\* The batch of a failed attempt is confirmed.
GiveUp(g) ==
    /\ wpc' = [wpc EXCEPT ![g] = "confirm"]
    /\ built' = [built EXCEPT ![g] = 0]

\* An attempt fails: flush sleeps and resolves again.
Retry(g) ==
    /\ wpc' = [wpc EXCEPT ![g] = "resolve"]
    /\ built' = [built EXCEPT ![g] = 0]

\* flush_inner: build the split and put its file.
Upload(g) ==
    /\ Runs(g, "build") /\ ~ (batch[g] \subseteq plan.poison)
    /\ \/ /\ \E s \in Splits :
               /\ s = Cardinality({x \in Splits : split[x] # NoSplit \/ x \in objects}) + 1
               /\ built' = [built EXCEPT ![g] = s]
               /\ objects' = objects \cup {s}
          /\ wpc' = [wpc EXCEPT ![g] = "stage"]
          /\ NoFault
       \/ /\ Fault("put") /\ Retry(g) /\ UNCHANGED objects
    /\ UNCHANGED <<live, purged, split, indexed, nodeVars, target, queue, closed, buffer, positions,
                   batch, waiters, reqVars, walVars, replayVars, ctlVars, deletes, retires, crashes>>

\* stage_split: insert the row, which must reference an existing stream; an
\* error may come before or after the insert took effect.
StageSplit(g) ==
    LET row == [state |-> "staged", row |-> target[g], docs |-> batch[g] \ plan.poison] IN
    /\ Runs(g, "stage")
    /\ \/ /\ target[g] \notin purged
          /\ split' = [split EXCEPT ![built[g]] = row]
          /\ \/ wpc' = [wpc EXCEPT ![g] = "publish"] /\ NoFault /\ UNCHANGED built
             \/ Fault("reply") /\ Retry(g)
       \/ /\ target[g] \in purged /\ NoFault /\ Retry(g) /\ UNCHANGED split
       \/ /\ Fault("stage") /\ Retry(g) /\ UNCHANGED split
    /\ UNCHANGED <<live, purged, objects, indexed, nodeVars, target, queue, closed, buffer, positions,
                   batch, waiters, reqVars, walVars, replayVars, ctlVars, deletes, retires, crashes>>

\* publish_split: staged -> published, or a conflict.
PublishSplit(g) ==
    LET s == built[g] IN
    /\ Runs(g, "publish")
    /\ \/ /\ split[s].state = "staged"
          /\ split' = [split EXCEPT ![s].state = "published"]
          /\ indexed' = indexed \cup split[s].docs
          /\ \/ wpc' = [wpc EXCEPT ![g] = "confirm"] /\ NoFault /\ UNCHANGED built
             \/ Fault("reply") /\ Retry(g)
       \/ /\ split[s].state # "staged" /\ NoFault /\ Retry(g) /\ UNCHANGED <<split, indexed>>
       \/ /\ Fault("publish") /\ Retry(g) /\ UNCHANGED <<split, indexed>>
    /\ UNCHANGED <<live, purged, objects, nodeVars, target, queue, closed, buffer, positions, batch,
                   waiters, reqVars, walVars, replayVars, ctlVars, deletes, retires, crashes>>

\* The batch is published: confirm it.
ConfirmBatch(g) ==
    /\ Runs(g, "confirm")
    /\ ConfirmWal(batch[g])
    /\ FinishFlush(g)
    /\ UNCHANGED <<metaVars, nodeVars, target, queue, closed, buffer, info, handle, done,
                   replayVars, ctlVars, boundVars>>

----------------------------------------------------------------------------
(* DELETE /{index} and the control jobs *)

Mark(S) == split' = [s \in Splits |-> IF s \in S THEN [split[s] EXCEPT !.state = "marked"] ELSE split[s]]
Unmarked == {s \in Splits : split[s].state \in {"staged", "published"}}

\* retire_stream, on this node (which then forgets its cached info) or on
\* another one.
DeleteIndex ==
    /\ live # 0 /\ deletes < plan.deletes /\ ~forgetting
    /\ deletes' = deletes + 1
    /\ Mark({s \in Unmarked : split[s].row = live})
    /\ live' = 0
    /\ forgetting' \in {up, FALSE}
    /\ UNCHANGED <<purged, objects, indexed, nodeVars, workerVars, reqVars, walVars, replayVars,
                   sweeping, plan, retires, crashes>>

ForgetStream ==
    /\ forgetting /\ forgetting' = FALSE
    /\ cache' = 0
    /\ UNCHANGED <<metaVars, entry, workerVars, reqVars, walVars, replayVars, sweeping, boundVars>>

\* purge_deleted_streams: mark what landed under a retired row, drop the
\* retired rows no split references.
PurgeStreams ==
    LET retired == (1 .. deletes) \ purged
        late    == {s \in Unmarked : split[s].row \in retired}
        empty   == {k \in retired : \A s \in Splits : split[s].row = k => split[s].state = "deleted"}
    IN
    /\ late # {} \/ empty # {}
    /\ Mark(late)
    /\ purged' = purged \cup empty
    /\ UNCHANGED <<live, objects, indexed, nodeVars, workerVars, reqVars, walVars, replayVars,
                   ctlVars, boundVars>>

\* staged_orphan_job: read the splits staged for longer than
\* staged_orphan_secs ...
SweepList ==
    LET stale == {s \in Splits : split[s].state = "staged"} IN
    /\ sweeping = {} /\ stale # {} /\ Fault("sweep")
    /\ sweeping' = stale
    /\ UNCHANGED <<metaVars, nodeVars, workerVars, reqVars, walVars, replayVars, forgetting,
                   deletes, retires, crashes>>

\* ... and mark them, whatever their state is by now.
SweepMark ==
    /\ sweeping # {} /\ sweeping' = {}
    /\ Mark(sweeping \cap Unmarked)
    /\ UNCHANGED <<live, purged, objects, indexed, nodeVars, workerVars, reqVars, walVars, replayVars,
                   forgetting, boundVars>>

\* Whatever is not published is garbage.
GcUnpublished(s) == split[s].state \in {"staged", "marked"}

\* gc_candidates
GcCandidate(s) == split[s].state = "marked"

\* gc_job: the object, then the row.
GcObject(s) ==
    /\ GcCandidate(s) /\ s \in objects
    /\ objects' = objects \ {s}
    /\ UNCHANGED <<live, purged, split, indexed, nodeVars, workerVars, reqVars, walVars, replayVars,
                   ctlVars, boundVars>>

GcRow(s) ==
    /\ GcCandidate(s) /\ s \notin objects
    /\ split' = [split EXCEPT ![s].state = "deleted"]
    /\ UNCHANGED <<live, purged, objects, indexed, nodeVars, workerVars, reqVars, walVars, replayVars,
                   ctlVars, boundVars>>

----------------------------------------------------------------------------
(* Crash, restart and IngestPipeline::replay *)

Crash ==
    /\ crashes < plan.crashes /\ crashes' = crashes + 1
    /\ \E kept \in SUBSET log : Wal!Crash(kept)
    /\ outstanding' = 0
    /\ cache' = 0 /\ entry' = 0
    /\ wpc' = [g \in Gens |-> IF wpc[g] = "none" THEN "none" ELSE "gone"]
    /\ queue' = [g \in Gens |-> <<>>]
    /\ buffer' = [g \in Gens |-> {}] /\ positions' = [g \in Gens |-> {}]
    /\ batch' = [g \in Gens |-> {}] /\ waiters' = [g \in Gens |-> {}]
    /\ built' = [g \in Gens |-> 0]
    /\ req' = [d \in Docs |-> IF req[d] \in Terminal \cup {"none"} THEN req[d] ELSE "cut"]
    /\ replaying' = {} /\ feed' = [pc |-> "next"] /\ forgetting' = FALSE
    /\ UNCHANGED <<metaVars, target, closed, info, handle, done, sweeping, plan, deletes,
                   retires>>

Restart ==
    /\ Wal!Restart
    /\ outstanding' = Cardinality(log)
    /\ replaying' = log
    /\ UNCHANGED <<metaVars, nodeVars, workerVars, reqVars, feed, ctlVars, boundVars>>

\* One record of the replay: stream_info ...
ReplayInfo(d) ==
    /\ up /\ feed.pc = "next" /\ d \in replaying
    /\ \/ cache # 0 /\ UNCHANGED <<live, cache>> /\ info' = [info EXCEPT ![d] = cache]
       \/ cache = 0 /\ EnsureStream /\ cache' = live' /\ info' = [info EXCEPT ![d] = live']
    /\ feed' = [pc |-> "lookup", doc |-> d]
    /\ UNCHANGED <<purged, split, objects, indexed, entry, workerVars, req, handle, done,
                   walVars, replaying, ctlVars, boundVars>>

\* ... worker_for ...
ReplayLookup ==
    /\ up /\ feed.pc = "lookup"
    /\ WorkerFor(feed.doc)
    /\ feed' = [feed EXCEPT !.pc = "send"]
    /\ UNCHANGED <<purged, split, objects, indexed, cache, queue, closed, buffer, positions, batch,
                   waiters, built, req, info, done, walVars, replaying, ctlVars, boundVars>>

\* ... and a send that waits for room; the record is dropped when the worker
\* has retired since the lookup.
ReplaySend ==
    LET d == feed.doc
        g == handle[d]
    IN
    /\ up /\ feed.pc = "send"
    /\ \/ /\ g \in closed
          /\ ConfirmWal({d}) /\ UNCHANGED queue
       \/ /\ g \notin closed /\ ~Full(g)
          /\ queue' = [queue EXCEPT ![g] = Append(@, [kind |-> "doc", doc |-> d])]
          /\ UNCHANGED walVars
    /\ replaying' = replaying \ {d}
    /\ feed' = [pc |-> "next"]
    /\ UNCHANGED <<metaVars, nodeVars, wpc, target, closed, buffer, positions, batch, waiters, built,
                   reqVars, ctlVars, boundVars>>

\* Nothing left to do.
Quiescent ==
    /\ Serving /\ ~forgetting /\ sweeping = {}
    /\ \A d \in Docs : req[d] \in Terminal
    /\ \A g \in Gens : wpc[g] \in {"none", "recv", "gone"} /\ queue[g] = <<>> /\ buffer[g] = {}
    /\ UNCHANGED vars

RequestStep(d) ==
    \/ StreamInfo(d) \/ StoreInfo(d) \/ AppendWal(d) \/ AppendDone(d)
    \/ LookupWorker(d) \/ TrySend(d) \/ RefreshLookup(d) \/ RefreshSend(d)

FlushStep(g) ==
    \/ ResolveLive(g) \/ ResolveDeleted(g) \/ BuildNothing(g)
    \/ Upload(g) \/ StageSplit(g) \/ PublishSplit(g) \/ ConfirmBatch(g)

WorkerStep(g) == Receive(g) \/ BatchDeadline(g) \/ IdleClose(g) \/ FlushStep(g)

ReplayStep == (\E d \in Docs : ReplayInfo(d)) \/ ReplayLookup \/ ReplaySend

Next ==
    \/ \E d \in Docs : Begin(d) \/ RequestStep(d) \/ EnqueueError(d) \/ RefreshTimeout(d)
    \/ \E g \in Gens : WorkerStep(g) \/ IdleUnpublish(g) \/ ResolveUnknown(g)
    \/ ExpireInfo \/ DeleteIndex \/ ForgetStream \/ PurgeStreams
    \/ SweepList \/ SweepMark
    \/ \E s \in Splits : GcObject(s) \/ GcRow(s)
    \/ Crash \/ Restart \/ ReplayStep
    \/ Quiescent

Spec == Init /\ [][Next]_vars

Fairness ==
    /\ \A d \in Docs : WF_vars(RequestStep(d))
    /\ \A g \in Gens : WF_vars(WorkerStep(g))
    /\ WF_vars(Restart) /\ WF_vars(ReplayStep)

FairSpec == Spec /\ Fairness

----------------------------------------------------------------------------
(* Properties *)

\* No acknowledged document is lost: after a 2xx response it is in a
\* published split or still in the log, unconfirmed, for the worker or the
\* next replay, unless the index was deleted or the document is one the
\* indexer skips (bulk_api.rs:811 "The durability point", pipeline.rs flush
\* and replay).
AcceptedKept ==
    \A d \in Accepted \ plan.poison :
        deletes > 0 \/ d \in indexed \/ (d \in log /\ (up => d \in pending))

\* pipeline.rs:842 "Items accepted against a since-retired row ... die with
\* it": no other acknowledged document is dropped by a flush.
DropsOnlyRetired ==
    \A d \in (Accepted \ plan.poison) \cap confirmed : d \in indexed \/ info[d] # live

\* wal.rs:360 "Total unconfirmed records across all segments": until the index is deleted a
\* second time no record is confirmed twice, over refusals, drops, failed attempts, replays and
\* retired workers, so that the log's count, which decides when a segment may be deleted, is the
\* number of records not yet confirmed.  (A worker that meets a second deletion may confirm the
\* stale part of its batch again, pipeline.rs:836, and the count is then too low.)
OutstandingExact ==
    (up /\ deletes <= 1) => outstanding = Cardinality(pending \cup {d \in Docs : req[d] = "fsync"})

\* pipeline.rs:602 flush_stream "resolve once it is published (or
\* immediately when nothing is buffered on this node)": once the refresh of
\* a write is answered, the document is searchable, whatever failed meanwhile
\* (as long as no worker retired with the document still in its channel).
RefreshSeesWrite ==
    retires = 0 => \A d \in Docs \ plan.poison : req[d] = "refreshed" => d \in indexed

\* A split a query may open has its file in object storage: upload comes
\* before stage, and GC never takes the object of a split that can still be
\* published.
PublishedReadable == \A s \in Splits : split[s].state = "published" => s \in objects

\* Without crashes and lost replies a document is published once: retries,
\* sweeps of staged splits and deletions never leave two visible copies.
PublishedOnce ==
    \A s, x \in Splits :
        /\ crashes = 0 /\ "reply" \notin plan.kinds
        /\ split[s].state = "published" /\ split[x].state = "published" /\ s # x
        => split[s].docs \cap split[x].docs = {}

\* pipeline.rs:833 "A deleted index takes its buffered documents with it":
\* a document whose write was acknowledged before a deletion is never
\* visible in an incarnation of the index created after it.
NotResurrected ==
    \A s \in Splits : \A d \in split[s].docs \cap Accepted :
        split[s].state = "published" => split[s].row <= done[d] + 1

\* pipeline.rs:822 "Retries never give up": an acknowledged document is
\* eventually searchable, or dropped with its index, once the backends stop
\* failing.
EventuallyIndexed ==
    \A d \in Docs :
        (d \in Accepted \ plan.poison) ~> (d \in indexed \/ deletes > 0)
=============================================================================
