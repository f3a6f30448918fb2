# rSearch: TLA+ models, model checking and proofs

This directory is a verification development for rSearch, a log and document
search server written in Rust (`src/crates/`). The modules are translated from
the source; every definition names the lines it stands for in `PROJECT.json`
("map"). TLC checks small instances; TLAPS proves, for every value of the
constants, the safety properties of the write-ahead log with its refinement, of the
ingest pipeline, of requests across nodes and of the replicated storage, and the main
facts about the sequence clock, the tombstones and the sort order with its cursors.

## 1. The system

| Part | State | Operations | Interacts with |
|---|---|---|---|
| Write-ahead log (`rsearch-ingest/wal.rs`) | segment files, the `segments` map with a count per segment, `written`/`synced` generations | `append_batch` (group commit), `rotate`, `confirm`, `collect_confirmed`, `open` and replay | bulk handler appends, workers confirm, start-up replays |
| Ingest pipeline (`rsearch-ingest/pipeline.rs`) | `stream_info` cache, `workers` map, one bounded channel and one task per index | `enqueue`, `flush_stream`, `replay`, `stream_worker`, `flush`, `resolve_target`, idle retirement | log, metastore, object storage |
| Sequence clock (`SeqClock`, `pipeline.rs:38-109`) | `last` stamp, node salt | `next_seq`, `observe` | bulk handler, tombstones |
| Bulk handler (`rsearch-server/bulk_api.rs`) | per-request plan | resolve, look up, stamp, append, enqueue, tombstone, refresh | all of the above |
| Metastore (`rsearch-metastore`) | `streams`, `splits` (staged, published, marked, deleted), `doc_tombstones`, `nodes`, `object_locations` in Postgres | one SQL transaction per operation | everything |
| Control leader (`rsearch-server/control.rs`) | an advisory lock, per-job state | merge, compaction, retention, orphan sweep, purge, GC, repair, drain, alerts | metastore, storage |
| Storage (`rsearch-storage`, `internal_api.rs`, `reconcile.rs`) | files on the nodes' disks, `object_locations` | replicated put/get/delete, placement, hourly reconcile | nodes table |
| Mappings and queries (`rsearch-index`, `query_dsl.rs`) | a mapping per stream, the schema of each split | validate, convert and index a document, translate a query, prune by time | metastore, search |
| Search (`rsearch-search`, `search_api.rs`) | tombstone caches, scroll contexts | query, paging, counts, alerts | metastore, split files |
| Split files (`rsearch-index`: `split_file.rs`, `cache.rs`, `storage_directory.rs`) | a bundle per split, a memory and a disk tier of blocks | open, read, fetch, evict, restart | storage |
| Requests across nodes (`bulk_forward.rs`, `refresh_api.rs`, `doc_api.rs`) | handoff candidates, draining flag | handoff, `_refresh`, `_delete_by_query` | nodes table, peers |
| Inputs, parsing, LogQL, auth, shell | none, or configuration | sequential conversions and wiring | |

The behaviours that make it hard are: threads sharing an fsync while segments
rotate; a power loss between any two of append, fsync, publish, confirm,
unlink; a worker that retires while senders hold its channel; an index deleted
and re-created (maybe on another node) under a batch in flight; replies of the
metastore lost after the statement took effect; jobs that act on what they
read a moment before; a copy that lands after the caller gave up on it; readers
that share a cache smaller than what they read; pages of one result cut from
splits that come and go. The hazards are listed, each with its line and the
properties that watch it, in `PROJECT.json`.

What has to be right: an acknowledged document is durable, is searchable in the
end, and is there once; a deleted index takes exactly its own documents with it;
a refresh means visible; a query never meets a split without a file; the log
never drops a segment somebody still needs, and drops every other one; of the
versions of one `_id` a query sees the newest, whichever nodes took the writes,
and a deleted version leaves the disk in the end; a published object keeps a copy
that can be found, and a deleted one leaves none behind; a document answers the
queries made from its own values; pages neither repeat nor skip a hit; a read
returns the bytes of the file.

## 2. Modules

| Module | Models |
|---|---|
| `DurableLog` | the abstract promise of the log to its callers |
| `Wal` | `wal.rs`: appenders, rotation, group commit, confirm, unlink, I/O errors, power loss, open |
| `WalProofs` | the proofs about `Wal` |
| `Pipeline` | one index name on one node: bulk item, worker, flush, refresh, retirement, replay, with index deletion, the staged sweep, the purge and GC |
| `PipelineTypes` | proofs about `Pipeline`: types, rows, splits and their files |
| `PipelineProofs` | where a document is between its append and its confirm; what is kept, dropped, brought back |
| `PipelineCounts` | one worker per document; published once, counted once, shown by a refresh |
| `SeqClock` | the hybrid logical clock behind `_seq`, as operators |
| `Documents` | versions of an `_id` over several nodes: bulk write and delete, tombstones, replay, and the leader's compaction, merge and purge |
| `DocumentsProofs` | the proofs about `SeqClock` and `Documents` |
| `ObjectStore` | one object of the replicated storage: put, push, delete, GC, repair, drain, expiry, reconcile |
| `ObjectStoreProofs` | the proofs about `ObjectStore` |
| `Mapping` | mappings, and the conversion of a JSON document into terms, as operators |
| `Query` | translation and meaning of a query for one split, refusals, time bounds, as operators |
| `Streams` | one index name: create, map, delete, write, flush; extends `Query` |
| `FieldSort` | sort resolution, hit comparison, segment keys and cursors, as operators |
| `FieldSortProofs` | the proofs about `FieldSort` |
| `Search` | a client paging, counting or alerting over splits that change; extends `FieldSort` |
| `SplitCache` | a split's bundle, its block reads and the two cache tiers |
| `Cluster` | bulk handoff, refresh, delete_by_query and tombstone caches over several nodes |
| `ClusterProofs` | the proofs about `Cluster` |
| `MC*` | symmetry sets, node salts, corpora, plans and bounds for TLC |

### DurableLog and Wal

`Wal` keeps the fields of `WalInner` and `Wal` under their names. An appender is
a blocking thread inside `append_batch`. Its program counter stands for the
places where another thread can act:

| `pc` | code |
|---|---|
| `write` | inside the `inner` mutex (`StartAppend`, `WriteItem`, `Rotate`, `FinishWrite`) |
| `sealed` | fsync of rotated-out segments, unlink of collected ones (`SyncSealed`) |
| `check`, `gate` | the two loads of `synced` (`CheckSynced`, `TakeGate`) |
| `snapshot`, `fsync` | `covered = inner.written` under the mutex, then `sync_data` under `sync_gate` |

`buffered` is what is still in the `BufWriter`; `disk` is what replay would read
back, `durable` what was fsynced. A power loss keeps the durable records and any
subset of the others (`Crash`). A failed write may leave half a record
(`torn`): replay stops there, so later records of that segment do not enter
`disk`. A failed call leaves its records counted and confirmed by nobody
(`failed`), as the code does.

`DurableLog` is the interface: a set of records, an append that reaches the
disk before it is acknowledged, confirms, reclaim of confirmed records only,
and a restart that hands out what is on disk. `ImplementsDurableLog` is the
refinement (`log <- disk`). `Pipeline` uses the abstract log's actions
directly; a reclaim is covered there by the choice `Crash` makes of which
confirmed records are still in the log.

### Pipeline

A document stands for a bulk item, its WAL record and its queue item. Row `k` of
the streams table is the k-th incarnation of the index; a generation is one
`stream_worker` task. The request's program counter `req` follows
`handle_bulk_local` and `enqueue`: resolve the stream (cache hit, or a metastore
call whose result is stored in a second step), append, fsync, resolve again,
look the worker up, `try_send`, once more on a fresh worker when the first has
retired, then the refresh. The worker's `wpc` follows `stream_worker` and
`flush`: resolve the target, drop the items accepted against another row, build
and upload, stage, publish, confirm; any failure sleeps and starts again at the
resolution. Idle retirement leaves the map first and closes the channel in a
second step. `DeleteIndex` is `retire_stream`, on this node (a later
`ForgetStream` drops the cache entry) or another one. `SweepList`/`SweepMark`,
`PurgeStreams` and `GcObject`/`GcRow` are the leader's jobs.

A backend call can fail before or after it took effect (`Fault("reply")` is a
lost reply). `Plans` gives the situations of a run: which documents are refreshed
or skipped by the indexer, the queue's capacity, and how many failures, deletions,
retirements and crashes there may be. Each behaviour takes one plan.

### SeqClock and Documents

A stamp is a slot and a node's salt, `slot * Radix + salt`; `Radix` and `Slots`
stand for 2^10 and the slots of an i64, so the saturation at the top is kept.
`observe` and `next` are single atomic updates in the code and are operators
on `last` here.

An operation of `Documents` is one bulk item, an index write or a delete of one
`_id`, and also the version it writes. Its `pc` follows `handle_bulk_local`:

| `pc` | code |
|---|---|
| `resolve` | `stream_info`; a cache miss observes `stream_max_seq` |
| `bounds` | `tombstone_bounds`, observed by the clock |
| `plan` | `next_seq`; a delete goes on to `upsert` |
| `append`, `enqueue` | WAL append, `try_send` or a refusal |
| `upsert`, `commit` | `upsert_tombstones`: the advisory lock and an ordinal, then the commit |

A row of `doc_tombstones` is `row[id]`: versions below `bound` are hidden, and
`ord` is the row's place in the order splits use to say how far they have
applied (`tombstone_seq_applied`). `Visible` is a query: published splits minus
what `apply_tombstones` hides. The leader's rewrite is `PickCompaction` or
`PickMerge`, `ListTombstones`, then `MarkApplied` or `Rebuild` and `Swap`;
`PurgeTombstone` is `purge_tombstones`. `Handover` gives the lock to another
controller while the old one may still be in a job. The wall clock reads
anything in `0 .. MaxMicros` on every call, so skew and steps back are covered.
What `Pipeline` looks at (queues, retries of a flush, retirement, index
deletion) is reduced here to staging, publishing and confirming a batch. An append
that fails may leave its record on disk, and a tombstone that fails is retried in the
background for a replacement and refused for a delete. `Plans` gives the situations of
a run: which calls fail (`kinds`), whether log segments are deleted (`rotates`), and
how many faults, crashes, handovers and merges there may be.

### ObjectStore

Objects do not interact, so the module has one: `file` and `row` say on which
disk it is and which `object_locations` row exists, each "new" (inside the grace
of the sweeps, an hour) or "old". The writer's `put` follows `replicated.rs` (local
file, local row, fan-out, quorum or rollback); a `push` goes on at the peer after
the writer timed out (`lateSent`, `lateFiled`). `job` is the leader's job in
progress: GC or stray delete, repair, drain. A peer serves a pull in two steps
(`Download`, `RecordPull`) and discards it when the object is no longer known.
`Announce`, `SweepOrphan`, `RestoreRow`, `VerifyPlacement` and `RemovePhantom` are
the reconcile pass; `HeartbeatLapse`, `ExpireDeadNodes`, `Restart` and `DiskLoss` a
node's life. `Sources` is what a read can reach. A call on the tables that fails may
have committed. Other objects matter in one place: a repair pass looks at the 20 keys
with the fewest live holders and a drain at 50 keys, and a key that can be neither
repaired nor moved keeps its place. `stuck` is how many such keys sort before the object;
`StartRepair` needs room in `RepairBatch`, `StartDrain` in `DrainBatch`. A drain request
can be taken back (the bound `clear`).

### Mapping, Query and Streams

A string is a sequence of symbols with a capitalised form each, blanks, accented forms and
numerals among them, so folding, trimming, tokenizing, normalizing and parsing numbers and
dates are modelled by what they do. `Reserved` is the set of names with a leading
underscore. A range has any number of bounds on each side, as a body with both `gt` and
`gte` has: translation takes the last, pruning the narrower. `Convert` gives the postings of
a document, `Accepts` evaluates a query on them under the schema the split was written with,
and `Refused` is a query that does not translate. `Streams` interleaves index creation, mode
changes, mapping updates (read and write as two steps), deletion and re-creation with writes
under the node's cached row and schema and flushes under the mapping read at the flush,
which drop what was written against another row.

### FieldSort and Search

`FieldSort` resolves a request's sort to clauses, compares hits (`HitBefore` is
`cmp_hits`), turns values into places in a segment's dictionary (`key_for`) and
reads a cursor back from the JSON a hit reported. In `Search` a page lists the
splits, runs up to `Concurrency` split tasks that share the counter of matches,
and merges their hits; the client goes on with search_after, from/size or a scroll.
The tombstones a task applies are those of the request or a newer set that its reader
already holds. Documents of splits older than the `_seq` column have no sequence; a rebuild gives them
sequence 0. `Publish`, `Rebuild` (merge, compaction) and `Delete` may come at any time.

### SplitCache

A reader's `at` follows `read`: look every block up, claim the missing ones, fetch,
store to memory and disk, release, wait for the others' claims, start over. A disk
insert writes the file, records it and unlinks its victims in separate steps, since
the lock covers only the record; a lookup reads its file outside the lock. `Restart`
adopts the files it finds, and a crash can leave a torn one. `bytes` are the running
counts of the two tiers, from which victims are chosen. The error of an unlink is
ignored, and the file stays. `OpenWith` refuses an object whose length, magic or
metadata length is not a split's.

### Cluster

A request's `at` follows `execute_bulk` (choose a candidate, hand off, be refused, fall
back), `handle_bulk_local` reduced to store, upsert, invalidate and flush, a search that
reads the splits and then the tombstone list, `_refresh` and the rounds of
`_delete_by_query`. `peers` and `cache` are a node's lists with their freshness; `flag` is
the draining column and `draining` what a node's last heartbeat told it. A tombstone
transaction draws an ordinal under the stream's advisory lock and commits in a second step
(`DrawOrdinal`, `UpsertRows`); a node extends its cached list by the rows past the last
ordinal in it, or reads all of them, and stores the result in a step of its own
(`FetchRows`, `StoreRows`).

## 3. Runs

| Run | Instance | Shows |
|---|---|---|
| `WalGroupCommit` | 2 appenders, 3 records, one power loss, no live rotation | `AckedDurable`, refinement of `DurableLog`, and under fairness `Reclaimed` |
| `WalRotation` | 2 appenders, 3 records, a segment per record, 1 I/O error, 1 power loss | `SegmentKept`, `OwnSyncDurable` |
| `WalAckBeforeFsync` | 2 appenders, a segment per record | violation of `AckedDurable`, see section 6 |
| `PipelineIngest` | 2 documents; 1 of 5 kinds of failure and a crash, or 2 deletions and re-creations, or 2 retirements, a skipped document and 1 failure | `AcceptedKept`, `RefreshSeesWrite`, `PublishedReadable`, `NotResurrected`, `DropsOnlyRetired`, `OutstandingExact`, `PublishedOnce`, `EventuallyIndexed` |
| `DocumentsWrites` | 2 operations (write or delete) on 1 id, 2 nodes, skewed clocks, 1 failed or refused call, 1 crash with replay | `LastWriteVisible`, `SupersededHidden` |
| `DocumentsErasure` | 2 operations on 1 id; 2 controllers, 1 merge and compactions, the first leader replaced while its rewrite goes on; or 1 failed job step or replacement tombstone with reclaimed log segments | `AppliedHides`, `SupersededHidden`, `LastWriteVisible`, `EventuallyErased` |
| `DocumentsLostTombstone` | the smallest instance that shows it | violation of `SupersededHidden`, see section 6 |
| `StorageRecovery` | 3 nodes, 2 copies, quorum 2, and 3 copies, quorum 3 with 2 failed calls; a crash with a lost disk, a drain or a deletion, or a failed call with a drain, a drain taken back or a deletion; batches of 2 and 3 keys with up to 3 stuck ones | `Findable`, `Reclaimed`, `Restored`, `Drained` |
| `StreamsMapping` | every field type against 26 values, 2 requests and a write interleaved | `OwnValueFound`, `BucketsFound`, `PruneSound`, `CheckedKeepsAll` |
| `SearchPaging` | 8 documents, 2 of them without a sequence and tied, in up to 4 splits, 4 field sorts and both time orders, 5 kinds of request | `PagesInOrder`, `NoneSkipped`, `TotalHonest` |
| `SplitCacheReads` | a split of 4 blocks, tiers of 2 and 3 bytes, 2 readers, 3 reads; a failure and a restart or a failed unlink; a scan with read-ahead; an object cut short | `ReadExact`, `WithinBudget`, `NoLeak`, `ReadsFinish` |
| `ClusterRequests` | 2 nodes, 2 clients, 2 documents, 6 plans: a failure, a lapsed heartbeat or a drain under writes and refreshes; deletes and searches on both nodes; delete_by_query | `StoredOnce`, `RefreshSees`, `QueryDeleted`, `OwnDeleteHidden`, `ListComplete`, `Answered` |

Each property comes with a mutant: a plausible mistake in one definition of the code
("mutants" in `PROJECT.json`) under which the same run finds the property violated. Types
are proved with the theorems of section 4; the runs spend their properties on behaviour.

**Bounds.** Two appenders are enough for one to act between any two steps of
the other; three records let one batch of two straddle a rotation while the
other appender holds the third. `MaxSeq` is high enough that the bound on
segments never stops a run before its records are written. Two documents are
enough for one to be in a batch while the other is in the queue (of capacity
1 in two plans, so a third message finds it full) and for a batch to mix documents
of two incarnations. One failure at any place, with the retry after it, covers each
error path; two deletions let a document outlive two incarnations. `MaxSplits`
is above what the faults and crashes of the instance can make.

In `Documents` two operations on one id are a version and what replaces it. Two
wall-clock readings are enough for one node to be ahead of the other. `Slots` leaves
room for every stamp of the instance: what happens at the top of the range is the
proofs' business. The order of two tombstone transactions matters with rows of two
ids: an instance of 3 writes on 2 ids (1.6 million states) passes as well, and
`AppliedIsApplied` is proved for all.

In `ObjectStore` three nodes are two copies and one place to move to, and each
situation has the two disturbances that meet. With a deletion added, a crash and a lost
disk or a crash and a drain passed as well, on the earlier model without lost replies of
table calls. `stuck` is below, at and above the batch sizes. The corpus of `StreamsMapping`
has values on both sides of each branch of the conversions that section 5 does not
exclude: below and above every tier of the epoch heuristic, for integers and for floats, past
the safe range, at the length limits, with blanks, accents and capitals. In
`SearchPaging` documents share a timestamp, lack a value, hold two, or have no
sequence, and two without a sequence tie across a page boundary; there are as many
splits as make a limit of splits, concurrency and page size bind. Memory and disk hold less than one
read of `SplitCacheReads`, so every insert evicts. Two nodes in `Cluster` are a node
and its peer; `Page` 1 makes delete_by_query take several rounds. That no third node takes
a batch, and larger pages, are left to the proofs.

`CHECK_DEADLOCK FALSE` is set where the modelled clients stop when they have what
they asked for.

**Fairness.** Weak fairness on each appender's own steps, on confirm, unlink and
open (`Wal`), and on each request's steps, each worker's steps, restart and
replay (`Pipeline`): they are threads or tokio tasks that are never
abandoned while the process runs. In
`Documents` the same holds of items, nodes and of the steps of a rewrite, since
the control loop ticks for ever, and of the acquisition of leadership, which
every node keeps trying. None is assumed of timeouts, deletions, cache expiry,
merges, purges, the jobs in `Pipeline`, failures or crashes. A failure is finite in number:
"once the backends stop failing".

`SplitCache` and `Cluster` assume the same of a reader's and a handler's steps (each call
has a timeout). `ObjectStore` has weak fairness on calls in flight and on the restart of a
crashed node, and strong fairness on the start of each of the leader's jobs, on the
reconcile and on the passing of an hour: the code starts each on a timer, for ever, while in
the model another job or a pending call disables them from time to time. A timer gives every
pass a turn, and not every key: a pass takes the first keys of its scan, so `StartRepair`
and `StartDrain` are enabled only while the stuck keys leave room in the batch, and
`Restored` and `Drained` claim nothing beyond that (section 6 says what happens then). They
are about what holds for good from some point on. None is assumed of drains, marks, crashes
or lost disks. `Search` and `Streams` have no liveness property.

## 4. Proofs

What is proved, in short. A property marked * needs the condition beside it; the code
does not keep it without that condition. Section 6 says what happens then; for
`RefreshSeesWrite`, a deletion drops the document and the refresh is answered all the same.

| Theorem | Property | Condition |
|---|---|---|
| `WalProofs`: `SegmentsKept`, `CurrentIsTracked`, `OwnSyncIsDurable` | `SegmentKept`, `CurrentTracked`, `OwnSyncDurable` | none |
| `AckedIsDurable`, `Implements` | `AckedDurable`*, `ImplementsDurableLog`* | no write fails; all records fit into a segment, or one thread appends |
| `PipelineTypes`: `PublishedIsReadable` | `PublishedReadable` | none |
| `PipelineProofs`: `AcceptedIsKept` | `AcceptedKept`* | not both a retirement and a crash so far |
| `NothingResurrected` | `NotResurrected`* | not both a crash and a deletion so far |
| `OnlyRetiredDropped` | `DropsOnlyRetired`* | as `AcceptedIsKept` before a deletion; after one, no crash, and resolving the target does not fail |
| `PipelineCounts`: `PublishedAtMostOnce` | `PublishedOnce` | none beyond its own (no crash, no lost reply) |
| `CountIsExact` | `OutstandingExact` | none beyond its own (the index has not been deleted twice) |
| `RefreshShowsWrite` | `RefreshSeesWrite`* | no deletion so far, and its own (no retirement) |
| `ClusterProofs`: `BatchStoredOnce`, `RefreshShowsAcked`, `QueryIsDeleted`, `OwnDeleteIsHidden`, `ListIsComplete` | `StoredOnce`, `RefreshSees`, `QueryDeleted`, `OwnDeleteHidden`, `ListComplete` | none beyond their own |
| `ObjectStoreProofs`: `PublishedIsFindable` | `Findable`* | fewer crashes than the write quorum counts copies, and no drain request taken back |
| `DocumentsProofs`: `AppliedIsApplied` | `AppliedHides` | none |
| `NextInRange`, `NextIncreases`, `NextDistinct`; `FieldSortProofs` | operators | the top of the range; extreme longs |

The assumptions on the constants are the named `ASSUME`s of the modules: finite sets of
records, documents, nodes and clients, bounds that are natural numbers, plans that have
their type. No theorem bounds the number of actors, faults or steps.

**Write-ahead log.** `SegmentKept` is not inductive: that a segment is not collected
depends on its count being exact, and the count is exact only if a record is in one
party's hands. The inductive invariant `IInv` has five parts beside the types:
`BatchInv` (one appender at most holds the mutex; items it still has to write
are in nobody's hands and not on disk), `OwnerInv` (a written record belongs to
one call, or to the indexer, or to a failed call), `FileInv` (every tracked
segment has a file, collected ones are no longer tracked, the current segment
is tracked and unsealed while it has room), `CountInv` (`outstanding[s]` is the
number of counted records in `s`), `DownInv` (a dead process holds nothing).
Each is shown preserved action by action; `CountInv` uses `OwnerInv` for the
saturating subtraction of `confirm` and `FileInv` for rotation. The current
segment can be sealed and even collected after a failed rotation; it is then
full, so the next item rotates before it is written, which is why
`CurrentTracked` holds.

Durability adds what a call knows. `CallInv` and `SpreadInv` say where the records of a
running call are: in nobody else's hands, and in the current segment or one the call is
going to fsync or has fsynced. `DiskInv` says that what is on disk is confirmed or counted.
From them `OwnSyncIsDurable` follows for a call that runs its own fsync, with rotations,
errors and crashes. A call that returns on another call's fsync needs `GroupInv`: a
generation at or below `synced` is durable. That is inductive when the covering fsync and
the covered writes are on one file (`OneSegment`, through `CurrentInv`) or in one thread
(`Alone`), and no write fails. `RefinementStep` then takes each action to a step or a
stutter of `DurableLog`: the returning append is its `Append`, the unlink its `Reclaim`, and
everything between is invisible.

**Pipeline.** The invariants are stacked. `RowInv`: every stream row a cache, a request, a
worker or a split names exists or existed. `SplitInv`: a split a worker is about to stage,
publish or confirm is its own, has its file, and was inserted by nobody else.
`WorkerInv` and `Custody` (`FlowInv`): between append and confirm a record is
with its request, in one channel, in a worker's batch, or with the replay, and nowhere
when the process is down. `KeptInv`: a document that was sent is in a published split, or logged and unconfirmed. The two
ways in which a document is confirmed without being published, a replayed record dropped for a retired
worker and one dropped with its row, are the conditions of `AcceptedIsKept` and
`OnlyRetiredDropped`. `FateInv` follows rows: the row a document was accepted against bounds
the row of any split it gets into, unless a replay resolves the name again. `SoleInv`: no
document is with two workers or twice in a channel, and what is still to be published is
unconfirmed; this gives `PublishedAtMostOnce` and, with the cardinality of the set of
unconfirmed records, `CountIsExact`. `RefreshInv`: the flush message of a request stands in the
same channel behind its document, so the answer comes after the publish.

**Cluster.** Each step moves one request, by its own handler (`Moves`); other steps reach it
through shared state that mostly grows (`Grows`). `HoldInv`: the holders of a batch are
nobody before its store, one node after it, and a second one only once a fault was spent.
`RefreshInv`: what a refresh has to show is published, or in the buffer of a node it
still waits for. `QueryInv`: a list holds only rows that exist, each round of a delete_by_query sees all that was
published at its start, and deletes the first page of what it saw and its list lacks; it
succeeds on an empty page, when the list covers all it saw. `OwnInv`: a delete the node answered for
(a raced one is not counted) is in the node's cached list while that is fresh, and in every list a search
of the node has fetched and not yet stored. `OrderInv` is why reading on from the last ordinal
is enough: at most one transaction is between its ordinal and its commit (the advisory
lock), its ordinal is above that of every committed row, and a list that was read, in the cache or on its way to it,
lacks no row at or below its last ordinal. Without the lock a row commits below an ordinal some
node has read, and that node skips it until its next full read: that is the mutant
of `ListComplete`.

**Replicated storage.** `Findable` says that one copy remains, and is far from inductive: one
copy can always be on the node that crashes next. The invariant follows the set D of nodes
that crashed since the put began, since such a node may lose its disk, its row or both later. Of the
others, those with a file, a row and no removal pending, together with D, number at least the
quorum (`Laid`). D is not in the state, so the invariant is `\E D \in SUBSET Nodes : StoreInv(D)`; a
`Crash` step adds a node to the witness. `Sound` says that outside D a row has its file, also for rows
about to be written by late pushes and pulls. Only the end of a drain takes a copy
away, after it counted as many others that stay (`Counts`); that they stay is why no
drain request may be taken back. As crashes spent and left are together fewer than the
quorum, D is smaller than the quorum, and a node outside D has the copy. With as many
crashes as the quorum, or with a request taken back, the property fails (section 6).

**Sequence clock and documents.** `DocumentsProofs` proves, for every radix and number of slots, that `next` stays
in range (`NextInRange`), that below the top a stamp exceeds everything stamped
or observed before (`NextIncreases`), and that stamps of nodes with different
salts differ below the top (`NextDistinct`). The lemmas are about `Pack`: slots
order stamps, and slot and salt can be read back.

It proves `TypeCorrect` (`Spec => []TypeOK`) and `AppliedIsApplied` (`Spec =>
[]AppliedHides`), with any number of overlapping leaders, crashes and failures, and without
the grace period of the purge. The assumptions are those of `SeqClock` and that salts,
faults and bounds have their types. `AppliedHides` is not inductive: a rewrite records the
last ordinal of a list it read some steps before. `IInv` adds `Unstamped` (an item without a
stamp is in no queue, log or split, so stamping it disturbs none of them), `OrdsAhead` (no
row, job or split is ahead of the ordinal sequence), `OpenIsNewest` (one tombstone
transaction is open at a time, and its ordinal is above every committed one: the advisory
lock) and `ListComplete` (a row at or below a job's last ordinal is in the job's list as it
was read). `OpenIsNewest` is what makes `ListComplete` survive a commit, and `ListComplete`
what makes `AppliedHides` survive a rewrite. There is one lemma per conjunct (`TypeStep`,
`UnstampedStep`, `OrdsStep`, `ListStep`, `AppliedStep`). Dropping the lock breaks
`AppliedHides`: that is the mutant of the property.

**Sort order.** `FieldSortProofs` proves, for every sort, direction, placing of missing values and
every value below `LongMax`: `HitOrder` (`cmp_hits` is irreflexive and transitive),
`FieldCursorExact` (the cursor a hit reports admits exactly the hits after it, through
the JSON and its parsing), `TimestampCursorExact` (the same for the timestamp order in
splits with sequences) and `DictionaryOrder` (comparing places in a segment's dictionary
is comparing values, also for a value the segment does not hold). The lemmas are about
one clause (`LessOrder`, `BeforeOrder`), a list of clauses (`KeysOrder`) and reading a
cursor back (`ParseInverts`, `CursorReads`). The assumption is that `LongMax` is
positive; the extreme longs are excluded, see section 6. `PagesInOrder` and
`NoneSkipped` rest on these facts and on the merge of splits, which is model-checked.

**Only model-checked.** All liveness (`Reclaimed`, `EventuallyIndexed`, `EventuallyErased`,
`Restored`, `Drained`, `ReadsFinish`, `Answered`): the prover has no reasoning about
fairness and ENABLED. `LastWriteVisible` and `SupersededHidden` of
`Documents`, which hold on the instances above and not in general (section 6). `Streams`
and its properties: `Mapping` and `Query` recurse over documents and queries, and what
a recursive definition computes for every input is an induction the prover cannot do.
`Search` and `SplitCache`: `NoneSkipped` and `ReadExact` rest on folds over sequences of splits and blocks,
again an induction over data. The violations of section 6 are TLC counterexamples.

## 5. Assumptions

* A directory entry is durable when the file is created or unlinked; an fsync
  that returned Ok made every flushed byte of that file durable.
* Postgres statements are atomic; a lost reply is a failure after the effect.
* The process does not abort on a panic of a spawned task; record corruption
  other than a torn tail is not modelled, nor is the skip of a record whose JSON
  no longer parses.
* `purge_deleted_streams` is two statements of one job, modelled as one step;
  the cache store of a replayed record is one step with its read.
* `tombstone_purge_grace_secs` is long enough (`GracePassed`): when a tombstone
  is purged, the writes it hides are published or refused, no rewrite is under
  way, and cached stream rows were read after the versions it belongs to were
  published.
* In `Documents` a reader has the current tombstones. The delay of the readers'
  caches is the subject of `Cluster`.
* One ordinal stands for the rows a replay writes in one statement, and a replay
  of more than 1000 tombstones in several statements is not modelled.
* A compaction is due as soon as a split is behind (the thresholds only delay
  it), and compares with the newest tombstone rather than with the one its last
  scan saw. Each candidate reads a list of its own, where the code reads one
  for the candidates of a tick.
* A tombstone list is read in one step; the code reads more than 10,000 rows in pages.
* `create` and `update` are index writes after a lookup that is not modelled.
* The branch of `stream_worker` for a channel without senders is unreachable
  (the map holds a sender while the worker receives) and left out.
* `ObjectStore`: a key is written once; one leader; a node serves one replicate request
  for the object at a time, where the code would download twice and replace the file by the
  same bytes. `Findable` is checked and proved for plans with fewer crashes than the quorum counts copies, and
  proved for plans in which no drain request is taken back.
* `Mapping`, `Query`: no calendar-date strings, negative numbers, integers above
  2^53 or keys with a literal dot; a range names one field. A copy routed to another stream is validated
  against the named stream's mapping only, and routing is not modelled.
* `SplitCache`: one memory shard stands for the 16, which do not interact; lookup and
  touch are one step; how a fetch groups blocks into requests is left out, and so is the
  temporary file a failed rename leaves. An unlink that comes late can remove the file a
  racing insert has just written: the model has it, and the next read forgets the entry.
  A crash shortens a file. A file of full length whose contents never reached the disk is not
  modelled; the code tells a sound file by its length alone and would serve it.
* `Cluster`: every node ingests and searches; a document is written once (versions are
  `Documents`'); a batch is taken or refused as a whole; the limit of 10,000 rounds is out
  of reach. A peer whose answer is late has handled the batch before the sender falls back,
  never after.

## 6. Disagreements between code and comments

Two are runs whose counterexample follows the code.

* `WalAckBeforeFsync`. `append_batch` snapshots `written` over all segments but
  fsyncs its own, possibly older, file handle. With a rotation in between, a
  record in the newer segment counts as synced, and its append returns without
  an fsync.
* `DocumentsLostTombstone`. A replacement is published, confirmed and its log
  segment deleted before its tombstone is written. A crash at that point leaves
  nothing to replay, and the replaced version stays visible.

The others are shown by the same modules when an instance or a definition is changed as
described.

**Log and pipeline.** With an I/O error
in `WalGroupCommit`, a half-written record hides later ones from replay
(`OutstandingReplayable`). A plan of `MCPipeline` with one retirement and one crash
(capacity and batch 1, `MaxSplits` 3) violates `AcceptedKept`: replay looks a worker up,
the worker retires, and the record is confirmed and dropped instead of sent to a fresh
worker (`pipeline.rs:586`; line 529 says "replay must not be dropped for backpressure").
In the plan `Deletes`, a `"resolve"` failure makes a
flush drop documents of the live incarnation (`DropsOnlyRetired`); a
cached row that outlives its index loses an acknowledged write
(`AcceptedKept`); and with a crash, documents dropped with their index come back
by replay, since a confirm is not persisted. A deletion that commits between
`resolve_target` and `stage_split` lets the split be published under the retired
row (`pipeline.rs:782` says never), until the next purge marks it. With
retirements and a refreshed document only, a refresh that arrives after the
worker left the map is answered before the worker's last flush
(`RefreshSeesWrite`; `pipeline.rs:616` says the buffer was flushed). In
the plan `Retires` the sweep marks a split that was published after it was read.
A second deletion of the name can have a record confirmed twice, with no failure at all: a flush
confirms the items of the first row and drops them, its split then conflicts because the
name was deleted again, and the next attempt confirms the whole batch
(`pipeline.rs:836`). The log then counts a record too few, and a third pending document's
segment can be deleted before it is confirmed. `OutstandingExact` ends at the second deletion.

**Documents.** With a plan of `kinds` {"replace"} and two nodes, a write is acknowledged
while its tombstone is still retried in the background and its version still buffered
(`bulk_api.rs:936`). A node whose clock lags has nothing to observe, stamps the
replacement lower, and the replaced version is the one that stays
(`SupersededHidden`; the repository's README, line 462, says a replacement "taken by a
node whose clock lags still orders after the version it replaces").
A leader that lost its lock and its successor can both publish a rewrite of the same
split, since `swap_splits` marks its sources in any state; a version is then in two
published splits and a query returns it twice. `DocumentsErasure` has that
overlap: no version is lost or brought back by it, and no more is claimed. With `rotates`
FALSE, a crash and a leader, a confirmed record is replayed after the tombstone
of the delete that hid it was purged, and the version reappears; the
repository's README warns of that for logs that were not drained. A replacement's
tombstone hides the old version at once and the new one is visible only when its
batch is published, the reverse of `bulk_api.rs:932`.

**Tombstone caches.** `tombstones_for` reads the rows, a delete on the same node commits
and invalidates the cache, and the search then stores its older list as fresh
(`executor.rs:454`). For up to the list's second a search on that node shows the deleted
document; `executor.rs:369` and `bulk_api.rs:288` say an immediately following search sees
the delete. `OwnDeleteHidden` leaves these deletes out; without that exclusion (`raced` in
`Answer`) TLC shows it with one node in 14 states. A delete that was handed to a peer
invalidates the peer's cache only. Neither lasts longer than a list is used, as
`ListComplete` says that the next read brings the missing rows.

**Requests across nodes.** `_refresh` reports success when `list_nodes` failed
(`refresh_api.rs:79`) or a peer's heartbeat lapsed, though the module's head says every
ingest node is flushed: these are the exceptions in `RefreshSees`. Under `balance_bulk` a
delete_by_query of more than a page can end in 409 "made no progress" (`doc_api.rs:344`),
because its own node's list is still fresh when the next round searches.

**Replicated storage.** With 2 copies, quorum 2, 2 crashes and 1 lost disk `Findable` fails: the
expiry drops the row of a dead node whose disk is intact, then the other copy's disk is lost,
and the reads find no row although a file is left, until the first node's reconcile restores its
row. This is the limit of the quorum, and no comment promises more. A drain request that is taken
back and made again for another node is another limit (1 crash, 1 lost disk, 2 drains, 1
taken back, 1 failed call): a row whose file is gone is counted as a copy by the second drain. Repair can starve.
`under_replicated_keys` returns the 20 keys with the fewest live holders
(`locations.rs:346`); a key with no live holder is first in that order, is passed over by the repair
(`control.rs:311`), and keeps its rows when its nodes expire (`nodes.rs:80`). Twenty such
keys keep every other key from being repaired. A drain scans 50 keys in the same
way. `Restored` and `Drained` hold while fewer keys than that are stuck.

**Mappings.** `put_mapping` stores blindly (`update_stream_mapping`), although
`update_stream_mapping_if` exists "so concurrent PUT /{index}/_mapping merges never
overwrite each other's fields": `AckedFieldKept` of `Streams` does not hold with two
concurrent updates. `DocumentModeKeepsAll` does not hold either: a document checked
under one mapping is flushed under the next, where `document.rs` says a document-mode write
"never reaches here with" an unparsable value. A date given as a float of seconds is
indexed clamped to the safe range, or read as milliseconds or less above the first epoch
threshold (`document.rs:75`), while a query always reads a float as seconds, unclamped
(`query_dsl.rs:241`; line 232 says that "a bound written the way a document was indexed
parses"): a document may not be found by its own value. `OwnValueFound` leaves
such values out (`FarDate`); with them TLC finds a counterexample.
A range with both `gt` and `gte` is translated by the last of them in key order and pruned by the narrower
(`query_dsl.rs:275`, `635`), so when the last is the wider, splits with matching documents
are pruned; a range over several fields is translated for the first field only. `PruneSound` has
one field, and a second bound that is no wider than the first.

**Search.** `track_total_hits: true` is capped at the default (`executor.rs:140` says
exact). An alert counts up to the same ceiling, so a threshold above it is never crossed
(`rsearch-metastore/src/alerts.rs:6`); `TotalHonest` says how far the
count can be trusted. A compaction or merge
of a split without sequences gives its documents sequence 0, so ties on a timestamp stay
ties (`executor.rs:1056` says merging "restores exact paging"). Documents without a sequence
that tie are paged by timestamp alone, so a page boundary between them skips some, as
`executor.rs:1055` says; and an ascending cursor at such a document, with sequence -1, admits it
again once a rebuild has given it sequence 0 (`executor.rs:1077`), so it is served twice. These are the exceptions in `NoneSkipped` and
`PagesInOrder`, which make no other for such documents. A field whose value is an
extreme long reads back from a cursor as missing. A string given as `missing` on a
keyword sort shares its place in a segment's dictionary with any other string absent from
the same gap, so a cursor and the substitute can tie. Neither is in the instances.

## 7. Not modelled

* Merge selection (`select_merge_group`, `merge_take`) decides only which splits a merge
  takes; `Documents` and `Search` let a rewrite take any.
* The lookups of GET, update and create, and optimistic concurrency: they read the state
  `Documents` has and then act as an index write.
* Routing rules, retention, the field backfill, the cache of open readers, alert schedules
  and webhook delivery: one statement or one call each, with nothing to interleave that the
  modules above lack.
* Aggregation results: computed by the index library; only their columns are modelled
  (`BucketsFound`).
* LogQL and the Loki routes: a second surface syntax whose parsing is text and whose
  evaluation is the one of `Query`.
* Network inputs and the text of bulk bodies: socket I/O and parsing that end in the
  pipeline's entry points.
* S3 requests and temporary files: I/O behind the storage trait.
* Request gating, configuration, metrics and start-up wiring.

`PROJECT.json` lists each component with its status and reason.
