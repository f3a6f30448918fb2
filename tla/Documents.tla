----------------------------- MODULE Documents -----------------------------
(***************************************************************************)
(* Versions of documents on a document-mode index: the write path of       *)
(* rsearch-server/src/bulk_api.rs for items with an explicit `_id`, the    *)
(* tombstones of rsearch-metastore/src/tombstones.rs that hide replaced    *)
(* and deleted versions, and the control jobs of                           *)
(* rsearch-server/src/control.rs that make the hiding physical.            *)
(*                                                                         *)
(* An operation is one bulk item, an index write or a delete of one `_id`, *)
(* and stands for the version it writes.  (A create or an update is an     *)
(* index write that was preceded by a lookup.)  Its `_seq` comes from the  *)
(* clock of the node that took it.  A tombstone row says: versions of this *)
(* `_id` below `bound` are hidden; its ordinal tells splits which          *)
(* tombstones they have already applied.  Wall clocks are arbitrary.       *)
(*                                                                         *)
(* Queues, batching and failures of a flush are the business of Pipeline;  *)
(* here a batch is staged, published and confirmed.                        *)
(***************************************************************************)
EXTENDS SeqClock, FiniteSets, Sequences

CONSTANTS
    Ops,            \* bulk items clients send
    Ids,            \* document ids
    Nodes,          \* ingest nodes
    Salt,           \* SeqClock.salt of each node
    Controllers,    \* nodes that contend for control leadership
    Kinds,          \* kinds of operations: "index", "delete"
    Plans,          \* settings and bounds, one chosen per behaviour:
                    \*   rotates        WAL segments fill up, so that confirmed ones are deleted
                    \*   kinds, faults  calls that may fail, how many do
                    \*   crashes        node crashes
                    \*   handovers      acquisitions of leadership
                    \*   merges         merges and schema upgrades
    MaxMicros,      \* bound: wall clock readings
    MaxSplits       \* bound: splits built

ASSUME DocumentsAssumption ==
    /\ Salt \in [Nodes -> Salts]
    /\ Kinds \subseteq {"index", "delete"}
    /\ Plans \subseteq [rotates : BOOLEAN,
                        kinds : SUBSET {"bounds", "append", "saturated", "delete", "replace", "job"},
                        faults : Nat, crashes : Nat, handovers : Nat, merges : Nat]
    /\ {MaxMicros, MaxSplits} \subseteq Nat

Splits == 1 .. MaxSplits
NoRow  == [bound |-> 0, ord |-> 0]
NoSplit == [state |-> "none", docs |-> {}, applied |-> 0]
NoRows  == [i \in Ids |-> NoRow]
Idle    == [pc |-> "idle", kind |-> "merge", src |-> {}, list |-> NoRows, through |-> 0, new |-> 0]

VARIABLES
    \* bulk items
    pc, kind, id, node,
    seq,        \* `_seq` of the item
    drawn,      \* ordinal its open tombstone transaction has drawn
    \* ingest nodes
    up,
    last,       \* SeqClock.last
    cached,     \* the stream's row is in the stream_info cache
    queue,      \* the index's worker: items accepted, not yet in a split
    flush,      \* its running flush: the split, and the step to come
    wal,        \* the item's record in the log: none, pending, confirmed
    replaying,  \* records still to be fed back
    reissue,    \* replayed records whose tombstone is still to be written
    \* the metastore
    split,      \* splits: state, documents, tombstone_seq_applied
    row,        \* doc_tombstones: before_seq and seq of each id
    ords,       \* the sequence behind doc_tombstones.seq
    leader,     \* the holder of the leadership lock, if any
    job,        \* the rewrite each controller is busy with
    \* history
    before,     \* items acknowledged before this one began
    acked,      \* items answered with success
    published,  \* items ever in a published split
    plan,       \* the chosen plan
    faults, crashes, handovers, merges

itemVars  == <<pc, kind, id, node, seq, drawn, before, acked>>
nodeVars  == <<up, last, cached, queue, flush, wal, replaying, reissue>>
metaVars  == <<split, row, ords, published>>
ctlVars   == <<leader, job>>
boundVars == <<plan, faults, crashes, handovers, merges>>
vars == <<itemVars, nodeVars, metaVars, ctlVars, boundVars>>

Init ==
    /\ pc = [o \in Ops |-> "none"]
    /\ kind \in [Ops -> Kinds] /\ id \in [Ops -> Ids] /\ node \in [Ops -> Nodes]
    /\ seq = [o \in Ops |-> 0] /\ drawn = [o \in Ops |-> 0]
    /\ before = [o \in Ops |-> {}] /\ acked = {} /\ published = {}
    /\ up = [n \in Nodes |-> TRUE]
    /\ last = [n \in Nodes |-> 0]
    /\ cached = [n \in Nodes |-> FALSE]
    /\ queue = [n \in Nodes |-> <<>>]
    /\ flush = [n \in Nodes |-> [pc |-> "idle", split |-> 0]]
    /\ wal = [o \in Ops |-> "none"]
    /\ replaying = [n \in Nodes |-> {}] /\ reissue = [n \in Nodes |-> {}]
    /\ split = [s \in Splits |-> NoSplit]
    /\ row = NoRows /\ ords = 0
    /\ leader = {}
    /\ job = [c \in Controllers |-> Idle]
    /\ plan \in Plans /\ faults = 0 /\ crashes = 0 /\ handovers = 0 /\ merges = 0

----------------------------------------------------------------------------
Serving(n) == up[n] /\ replaying[n] = {} /\ reissue[n] = {}

Fault(k) == k \in plan.kinds /\ faults < plan.faults /\ faults' = faults + 1

Live(s) == split[s].state \in {"staged", "published"}
WithState(s, st) == [state |-> st, docs |-> split[s].docs, applied |-> split[s].applied]

\* A version at the bound is hidden too.
HidesEqual(t, applied, o) == t.ord > applied /\ seq[o] <= t.bound

\* apply_tombstones: tombstone t hides version o in a split that has applied
\* the tombstones up to `applied`.
Hides(t, applied, o) == t.ord > applied /\ seq[o] < t.bound

\* A query returns version o.
Visible(o) ==
    \E s \in Splits :
        /\ split[s].state = "published" /\ o \in split[s].docs
        /\ ~ Hides(row[id[o]], split[s].applied, o)

\* stream_max_seq: the highest sequence in a staged or published split.
LiveSeqs == UNION {{seq[o] : o \in split[s].docs} : s \in {x \in Splits : Live(x)}}
MaxSeqs  == {m \in LiveSeqs : \A x \in LiveSeqs : x <= m}
StreamMaxSeqs == IF LiveSeqs = {} THEN {0} ELSE MaxSeqs

NewSplit(s) == split[s] = NoSplit /\ \A x \in Splits : x < s => split[x] # NoSplit

At(o, from) == Serving(node[o]) /\ pc[o] = from
Goto(o, to) == pc' = [pc EXCEPT ![o] = to]

----------------------------------------------------------------------------
(* handle_bulk_local *)

Begin(o) ==
    /\ At(o, "none") /\ Goto(o, "resolve")
    /\ before' = [before EXCEPT ![o] = acked]
    /\ UNCHANGED <<kind, id, node, seq, drawn, acked, nodeVars, metaVars, ctlVars, boundVars>>

\* stream_info: when the cache misses, the clock observes the highest
\* sequence published.
Resolve(o) ==
    LET n == node[o] IN
    /\ At(o, "resolve") /\ Goto(o, "bounds")
    /\ \E m \in StreamMaxSeqs :
         last' = IF cached[n] THEN last ELSE [last EXCEPT ![n] = Observe(@, m)]
    /\ cached' = [cached EXCEPT ![n] = TRUE]
    /\ UNCHANGED <<kind, id, node, seq, drawn, before, acked, up, queue, flush, wal, replaying,
                   reissue, metaVars, ctlVars, boundVars>>

ExpireInfo(n) ==
    /\ cached[n] /\ cached' = [cached EXCEPT ![n] = FALSE]
    /\ UNCHANGED <<itemVars, up, last, queue, flush, wal, replaying, reissue, metaVars, ctlVars,
                   boundVars>>

\* The clock observes the id's tombstone bound.
ObserveBounds(o) == last' = [last EXCEPT ![node[o]] = Observe(@, row[id[o]].bound)]

\* tombstone_bounds, or a 503 for the whole request.
ReadBounds(o) ==
    /\ At(o, "bounds")
    /\ \/ ObserveBounds(o) /\ Goto(o, "plan") /\ faults' = faults
       \/ Fault("bounds") /\ Goto(o, "failed") /\ last' = last
    /\ UNCHANGED <<kind, id, node, seq, drawn, before, acked, up, cached, queue, flush, wal,
                   replaying, reissue, metaVars, ctlVars, plan, crashes, handovers, merges>>

\* next_seq: deletes go on to their tombstone, writes to the log.
Plan(o) ==
    LET n == node[o] IN
    /\ At(o, "plan")
    /\ \E micros \in 0 .. MaxMicros :
         /\ last' = [last EXCEPT ![n] = NextStamp(Salt[n], @, micros)]
         /\ seq' = [seq EXCEPT ![o] = NextStamp(Salt[n], last[n], micros)]
    /\ Goto(o, IF kind[o] = "delete" THEN "upsert" ELSE "append")
    /\ UNCHANGED <<kind, id, node, drawn, before, acked, up, cached, queue, flush, wal, replaying,
                   reissue, metaVars, ctlVars, boundVars>>

\* append_batch: the record is durable, or the request fails with a 500, though the record may
\* have reached the log.
AppendWal(o) ==
    /\ At(o, "append")
    /\ \/ wal' = [wal EXCEPT ![o] = "pending"] /\ Goto(o, "enqueue") /\ faults' = faults
       \/ wal' \in {wal, [wal EXCEPT ![o] = "pending"]} /\ Goto(o, "failed") /\ Fault("append")
    /\ UNCHANGED <<kind, id, node, seq, drawn, before, acked, up, last, cached, queue, flush,
                   replaying, reissue, metaVars, ctlVars, plan, crashes, handovers, merges>>

\* enqueue: accepted, or refused and confirmed.
Enqueue(o) ==
    LET n == node[o] IN
    /\ At(o, "enqueue")
    /\ \/ /\ queue' = [queue EXCEPT ![n] = Append(@, o)]
          /\ Goto(o, "upsert")
          /\ UNCHANGED <<wal, faults>>
       \/ /\ Fault("saturated")
          /\ wal' = [wal EXCEPT ![o] = "confirmed"]
          /\ Goto(o, "rejected")
          /\ UNCHANGED queue
    /\ UNCHANGED <<kind, id, node, seq, drawn, before, acked, up, last, cached, flush, replaying,
                   reissue, metaVars, ctlVars, plan, crashes, handovers, merges>>

----------------------------------------------------------------------------
(* upsert_tombstones *)

\* Transactions draw and commit in any order.
NoLock == TRUE

\* pg_advisory_xact_lock: one open tombstone transaction per stream.
LockFree == \A p \in Ops : pc[p] # "commit"

\* ON CONFLICT: a row is raised and re-sequenced, never lowered.
Raise(i, b, ord) ==
    IF b > row[i].bound THEN [row EXCEPT ![i] = [bound |-> b, ord |-> ord]] ELSE row

\* The transaction takes the stream's lock and draws an ordinal ...
DrawTombstone(o) ==
    /\ At(o, "upsert") /\ LockFree /\ Goto(o, "commit")
    /\ ords' = ords + 1
    /\ drawn' = [drawn EXCEPT ![o] = ords + 1]
    /\ UNCHANGED <<kind, id, node, seq, before, acked, nodeVars, split, row, published, ctlVars,
                   boundVars>>

\* ... and commits; the item is answered.
CommitTombstone(o) ==
    /\ At(o, "commit") /\ Goto(o, "done")
    /\ row' = Raise(id[o], seq[o], drawn[o])
    /\ acked' = acked \cup {o}
    /\ UNCHANGED <<kind, id, node, seq, drawn, before, nodeVars, split, ords, published, ctlVars,
                   boundVars>>

\* A delete whose tombstone fails is answered 503 ...
RefuseDelete(o) == kind[o] = "delete" /\ Fault("delete") /\ Goto(o, "failed") /\ acked' = acked

\* ... a replacement with success, and its tombstone is retried in the background.
RetryReplacement(o) == kind[o] = "index" /\ Fault("replace") /\ Goto(o, "upsert") /\ acked' = acked \cup {o}

\* ... or fails, before or after it took effect.
UpsertError(o) ==
    /\ At(o, "commit")
    /\ row' \in {row, Raise(id[o], seq[o], drawn[o])}
    /\ RefuseDelete(o) \/ RetryReplacement(o)
    /\ UNCHANGED <<kind, id, node, seq, drawn, before, nodeVars, split, ords, published, ctlVars,
                   plan, crashes, handovers, merges>>

----------------------------------------------------------------------------
(* The worker's flush *)

Elems(q) == {q[j] : j \in DOMAIN q}

\* Stage a split with the items at the head of the queue.
StageBatch(n) ==
    /\ up[n] /\ flush[n].pc = "idle"
    /\ \E k \in 1 .. Len(queue[n]), s \in Splits :
         /\ NewSplit(s)
         /\ split' = [split EXCEPT ![s] = [state |-> "staged", applied |-> 0,
                                           docs |-> Elems(SubSeq(queue[n], 1, k))]]
         /\ queue' = [queue EXCEPT ![n] = SubSeq(@, k + 1, Len(@))]
         /\ flush' = [flush EXCEPT ![n] = [pc |-> "publish", split |-> s]]
    /\ UNCHANGED <<itemVars, up, last, cached, wal, replaying, reissue, row, ords, published,
                   ctlVars, boundVars>>

PublishBatch(n) ==
    LET s == flush[n].split IN
    /\ up[n] /\ flush[n].pc = "publish"
    /\ split' = [split EXCEPT ![s] = WithState(s, "published")]
    /\ published' = published \cup split[s].docs
    /\ flush' = [flush EXCEPT ![n] = [pc |-> "confirm", split |-> s]]
    /\ UNCHANGED <<itemVars, up, last, cached, queue, wal, replaying, reissue, row, ords, ctlVars,
                   boundVars>>

ConfirmBatch(n) ==
    LET s == flush[n].split IN
    /\ up[n] /\ flush[n].pc = "confirm"
    /\ wal' = [o \in Ops |-> IF o \in split[s].docs THEN "confirmed" ELSE wal[o]]
    /\ flush' = [flush EXCEPT ![n] = [pc |-> "idle", split |-> 0]]
    /\ UNCHANGED <<itemVars, up, last, cached, queue, replaying, reissue, metaVars, ctlVars,
                   boundVars>>

\* The record's segment has rotated out and is deleted.
Reclaim(o) ==
    /\ plan.rotates /\ wal[o] = "confirmed" /\ up[node[o]]
    /\ wal' = [wal EXCEPT ![o] = "none"]
    /\ UNCHANGED <<itemVars, up, last, cached, queue, flush, replaying, reissue, metaVars, ctlVars,
                   boundVars>>

----------------------------------------------------------------------------
(* Crash and IngestPipeline::replay *)

Terminal == {"done", "failed", "rejected", "cut"}

Crash(n) ==
    /\ up[n] /\ crashes < plan.crashes /\ crashes' = crashes + 1
    /\ up' = [up EXCEPT ![n] = FALSE]
    /\ pc' = [o \in Ops |-> IF node[o] = n /\ pc[o] \notin Terminal \cup {"none"} THEN "cut" ELSE pc[o]]
    /\ last' = [last EXCEPT ![n] = 0]
    /\ cached' = [cached EXCEPT ![n] = FALSE]
    /\ queue' = [queue EXCEPT ![n] = <<>>]
    /\ flush' = [flush EXCEPT ![n] = [pc |-> "idle", split |-> 0]]
    /\ replaying' = [replaying EXCEPT ![n] = {}]
    /\ reissue' = [reissue EXCEPT ![n] = {}]
    /\ UNCHANGED <<kind, id, node, seq, drawn, before, acked, wal, metaVars, ctlVars, plan,
                   faults, handovers, merges>>

\* Wal::open hands out every record on disk, confirmed before or not.
Restart(n) ==
    LET records == {o \in Ops : node[o] = n /\ wal[o] # "none"} IN
    /\ ~up[n] /\ up' = [up EXCEPT ![n] = TRUE]
    /\ replaying' = [replaying EXCEPT ![n] = records]
    /\ wal' = [o \in Ops |-> IF o \in records THEN "pending" ELSE wal[o]]
    /\ UNCHANGED <<itemVars, last, cached, queue, flush, reissue, metaVars, ctlVars, boundVars>>

\* The tombstone of a replayed record is forgotten.
SkipReissue(n, o) == reissue' = reissue

CollectReissue(n, o) == reissue' = [reissue EXCEPT ![n] = @ \cup {o}]

\* One record: the clock observes its sequence, its tombstone joins
\* pending_tombstones, the document is queued.
ReplayRecord(n, o) ==
    /\ up[n] /\ o \in replaying[n]
    /\ \E m \in StreamMaxSeqs :
         last' = [last EXCEPT ![n] = Observe(IF cached[n] THEN @ ELSE Observe(@, m), seq[o])]
    /\ cached' = [cached EXCEPT ![n] = TRUE]
    /\ CollectReissue(n, o)
    /\ queue' = [queue EXCEPT ![n] = Append(@, o)]
    /\ replaying' = [replaying EXCEPT ![n] = @ \ {o}]
    /\ UNCHANGED <<itemVars, up, flush, wal, metaVars, ctlVars, boundVars>>

\* At the end of the replay pending_tombstones are written.  The rows of one
\* statement commit together, so one ordinal stands for all of theirs; the
\* versions of one id are collapsed to the highest.
ReissueTombstones(n) ==
    LET ids == {id[o] : o \in reissue[n]} IN
    /\ up[n] /\ replaying[n] = {} /\ reissue[n] # {} /\ LockFree
    /\ ords' = ords + 1
    /\ \E top \in [ids -> {seq[o] : o \in reissue[n]}] :
         /\ \A i \in ids : \E o \in reissue[n] : id[o] = i /\ seq[o] = top[i]
         /\ \A o \in reissue[n] : seq[o] <= top[id[o]]
         /\ row' = [i \in Ids |-> IF i \in ids /\ top[i] > row[i].bound
                                 THEN [bound |-> top[i], ord |-> ords + 1] ELSE row[i]]
    /\ reissue' = [reissue EXCEPT ![n] = {}]
    /\ UNCHANGED <<itemVars, up, last, cached, queue, flush, wal, replaying, split, published,
                   ctlVars, boundVars>>

----------------------------------------------------------------------------
(* The control leader *)

Sources(c) == {r.split : r \in job[c].src}
Records(S) == {[split |-> s, applied |-> split[s].applied] : s \in S}

SetJob(c, j) == job' = [job EXCEPT ![c] = j]
NewJob(k, S) ==
    [pc |-> "list", kind |-> k, src |-> Records(S), list |-> NoRows, through |-> 0, new |-> 0]

\* Off by one: a split one tombstone behind is taken for up to date.
BehindByTwo(s, ord) == split[s].state = "published" /\ split[s].applied + 1 < ord

\* splits_needing_compaction
Behind(s, ord) == split[s].state = "published" /\ split[s].applied < ord

\* compaction_job finds a split that has not applied every tombstone.
PickCompaction(c) ==
    /\ c \in leader /\ job[c] = Idle
    /\ \E s \in Splits, i \in Ids :
         /\ \A x \in Ids : row[x].ord <= row[i].ord
         /\ Behind(s, row[i].ord)
         /\ SetJob(c, NewJob("compact", {s}))
    /\ UNCHANGED <<itemVars, nodeVars, metaVars, leader, boundVars>>

\* merge_job picks a group of small splits, schema_upgrade_job one split.
PickMerge(c) ==
    /\ c \in leader /\ job[c] = Idle
    /\ merges < plan.merges /\ merges' = merges + 1
    /\ \E S \in SUBSET {s \in Splits : split[s].state = "published"} :
         /\ S # {}
         /\ SetJob(c, NewJob("merge", S))
    /\ UNCHANGED <<itemVars, nodeVars, metaVars, leader, plan, faults, crashes, handovers>>

\* stream_tombstones; applied_through is the last one's ordinal.
ListTombstones(c) ==
    /\ job[c].pc = "list"
    /\ \E through \in 0 .. ords :
         /\ \A i \in Ids : row[i].ord <= through
         /\ through = 0 \/ \E i \in Ids : row[i].ord = through
         /\ SetJob(c, [pc |-> "build", kind |-> job[c].kind, src |-> job[c].src, list |-> row,
                       through |-> through, new |-> 0])
    /\ UNCHANGED <<itemVars, nodeVars, metaVars, leader, boundVars>>

\* The versions of the sources the tombstone list does not hide.  A source
\* skips the tombstones it has applied already.
Survivors(c) ==
    UNION {{o \in split[r.split].docs : ~ Hides(job[c].list[id[o]], r.applied, o)} : r \in job[c].src}

AllDocs(c) == UNION {split[s].docs : s \in Sources(c)}

\* compact_split: nothing is hidden, the split is only marked.
MarkApplied(c) ==
    /\ job[c].pc = "build" /\ job[c].kind = "compact" /\ Survivors(c) = AllDocs(c)
    /\ \E s \in Splits :
         /\ Sources(c) = {s}
         /\ split' = [split EXCEPT ![s] =
                [state |-> split[s].state, docs |-> split[s].docs,
                 applied |-> Larger(split[s].applied, job[c].through)]]
    /\ SetJob(c, Idle)
    /\ UNCHANGED <<itemVars, nodeVars, row, ords, published, leader, boundVars>>

Marked(S) == [s \in Splits |-> IF s \in S THEN WithState(s, "marked") ELSE split[s]]

\* rebuild_splits: stage the new split; with no survivors there is none, and
\* the sources are only marked.
Rebuild(c) ==
    /\ job[c].pc = "build"
    /\ job[c].kind = "compact" => Survivors(c) # AllDocs(c)
    /\ \/ /\ Survivors(c) # {}
          /\ \E s \in Splits :
               /\ NewSplit(s)
               /\ split' = [split EXCEPT ![s] = [state |-> "staged", docs |-> Survivors(c),
                                                 applied |-> job[c].through]]
               /\ SetJob(c, [pc |-> "swap", kind |-> job[c].kind, src |-> job[c].src,
                             list |-> job[c].list, through |-> job[c].through, new |-> s])
       \/ /\ Survivors(c) = {}
          /\ split' = Marked(Sources(c))
          /\ SetJob(c, Idle)
    /\ UNCHANGED <<itemVars, nodeVars, row, ords, published, leader, boundVars>>

\* The sources are marked, the new split is left staged.
MarkOnly(c) == Marked(Sources(c))

\* The new split is published and the sources are marked, whatever state
\* they are in.
Swapped(c) ==
    [s \in Splits |-> IF s \in Sources(c) THEN WithState(s, "marked")
                     ELSE IF s = job[c].new THEN WithState(s, "published") ELSE split[s]]

\* swap_splits
Swap(c) ==
    /\ job[c].pc = "swap" /\ split' = Swapped(c)
    /\ SetJob(c, Idle)
    /\ UNCHANGED <<itemVars, nodeVars, row, ords, published, leader, boundVars>>

\* A step of the job fails; what was staged stays staged.
JobError(c) ==
    /\ job[c] # Idle /\ Fault("job")
    /\ SetJob(c, Idle)
    /\ UNCHANGED <<itemVars, nodeVars, metaVars, leader, plan, crashes, handovers, merges>>

\* A node gets the leadership lock: the first one, or another one when the
\* leader's connection breaks, while the old leader finishes the job it is in.
Handover(c) ==
    /\ c \notin leader /\ job[c] = Idle
    /\ handovers < plan.handovers /\ handovers' = handovers + 1
    /\ leader' = {c}
    /\ UNCHANGED <<itemVars, nodeVars, metaVars, job, plan, faults, crashes, merges>>

\* What tombstone_purge_grace_secs is for, of the tombstone of i: writes it
\* hides have been published or refused, jobs that do not know it are over,
\* cached stream rows are younger than the versions it was written with.
GracePassed(i) ==
    /\ \A o \in Ops : id[o] = i /\ seq[o] < row[i].bound =>
         /\ wal[o] # "pending" /\ pc[o] \in Terminal \cup {"none"}
    /\ \A o \in Ops : id[o] = i /\ seq[o] = row[i].bound => pc[o] \in Terminal /\ wal[o] # "pending"
    /\ \A c \in Controllers : job[c] = Idle
    /\ \A n \in Nodes : cached[n] => \A x \in LiveSeqs : x <= last[n]

\* The floor is the highest tombstone_seq_applied.
SomeApplied(i) == \E s \in Splits : Live(s) /\ row[i].ord <= split[s].applied

\* The tombstone is at or below the lowest tombstone_seq_applied.
AllApplied(i) == \A s \in Splits : Live(s) => row[i].ord <= split[s].applied

\* purge_tombstones
PurgeTombstone(c, i) ==
    /\ c \in leader /\ job[c] = Idle
    /\ row[i].ord > 0 /\ AllApplied(i) /\ GracePassed(i)
    /\ row' = [row EXCEPT ![i] = NoRow]
    /\ UNCHANGED <<itemVars, nodeVars, split, ords, published, ctlVars, boundVars>>

\* Nothing left to do.
Quiescent ==
    /\ \A o \in Ops : pc[o] \in Terminal
    /\ \A n \in Nodes : Serving(n) /\ queue[n] = <<>> /\ flush[n].pc = "idle"
    /\ UNCHANGED vars

ItemStep(o) ==
    \/ Begin(o) \/ Resolve(o) \/ ReadBounds(o) \/ Plan(o) \/ AppendWal(o) \/ Enqueue(o)
    \/ DrawTombstone(o) \/ CommitTombstone(o) \/ UpsertError(o)

NodeStep(n) ==
    \/ StageBatch(n) \/ PublishBatch(n) \/ ConfirmBatch(n)
    \/ Restart(n) \/ (\E o \in Ops : ReplayRecord(n, o)) \/ ReissueTombstones(n)

JobStep(c) ==
    \/ PickCompaction(c) \/ ListTombstones(c) \/ MarkApplied(c) \/ Rebuild(c) \/ Swap(c)

Next ==
    \/ \E o \in Ops : ItemStep(o) \/ Reclaim(o)
    \/ \E n \in Nodes : NodeStep(n) \/ Crash(n) \/ ExpireInfo(n)
    \/ \E c \in Controllers :
         \/ JobStep(c) \/ PickMerge(c) \/ JobError(c) \/ Handover(c)
         \/ \E i \in Ids : PurgeTombstone(c, i)
    \/ Quiescent

Spec == Init /\ [][Next]_vars

Fairness ==
    /\ \A o \in Ops : WF_vars(ItemStep(o))
    /\ \A n \in Nodes : WF_vars(NodeStep(n))
    /\ \A c \in Controllers : WF_vars(JobStep(c))
    /\ WF_vars(\E c \in Controllers : Handover(c))

FairSpec == Spec /\ Fairness

----------------------------------------------------------------------------
(* Properties *)

Steps == {"none", "resolve", "bounds", "plan", "append", "enqueue", "upsert", "commit"} \cup Terminal

ItemType ==
    /\ pc \in [Ops -> Steps]
    /\ kind \in [Ops -> Kinds] /\ id \in [Ops -> Ids] /\ node \in [Ops -> Nodes]
    /\ seq \in [Ops -> Stamps] /\ drawn \in [Ops -> Nat]
    /\ before \in [Ops -> SUBSET Ops] /\ acked \subseteq Ops

FlushType == [pc : {"idle"}, split : {0}] \cup [pc : {"publish", "confirm"}, split : Splits]

NodeType ==
    /\ up \in [Nodes -> BOOLEAN] /\ cached \in [Nodes -> BOOLEAN]
    /\ last \in [Nodes -> Stamps]
    /\ queue \in [Nodes -> Seq(Ops)]
    /\ flush \in [Nodes -> FlushType]
    /\ wal \in [Ops -> {"none", "pending", "confirmed"}]
    /\ replaying \in [Nodes -> SUBSET Ops] /\ reissue \in [Nodes -> SUBSET Ops]

RowType == [bound : Stamps, ord : Nat]

SplitType == [state : {"none", "staged", "published", "marked"}, docs : SUBSET Ops, applied : Nat]

MetaType ==
    /\ split \in [Splits -> SplitType]
    /\ row \in [Ids -> RowType] /\ ords \in Nat /\ published \subseteq Ops

JobType ==
    [pc : {"idle", "list", "build", "swap"}, kind : {"merge", "compact"},
     src : SUBSET [split : Splits, applied : Nat], list : [Ids -> RowType], through : Nat, new : Nat]

\* Every variable keeps its type; stamps stay in the i64 range.
TypeOK == ItemType /\ NodeType /\ MetaType /\ job \in [Controllers -> JobType]

\* tombstones.rs:43 "a compaction stamping `applied_through = N` has really
\* applied them all": a split holds no version hidden by a tombstone it is
\* recorded to have applied, so queries and rewrites may skip it there.
AppliedHides ==
    \A s \in Splits : \A o \in split[s].docs :
        row[id[o]].ord > 0 /\ row[id[o]].ord <= split[s].applied => seq[o] >= row[id[o]].bound

\* The client was told the write failed, and no restart can have replayed it.
Refused(p) == kind[p] = "index" /\ pc[p] \in {"rejected", "failed"} /\ (crashes = 0 \/ seq[p] = 0)

\* README.md "a replacement taken by a node whose clock lags still orders
\* after the version it replaces", and bulk_api.rs:738 "a rejected write must
\* leave the old version visible": a published write is visible when every
\* other operation on its id was answered before it began or was refused,
\* whichever node took them, whatever the clocks, and whatever has been
\* compacted or purged.
LastWriteVisible ==
    \A o \in acked \cap published :
        (\A p \in Ops \ {o} : id[p] = id[o] /\ pc[p] # "none" => p \in before[o] \/ Refused(p))
        => Visible(o)

\* README.md "`index` on an existing `_id` replaces it (reads see exactly the
\* newest version), `delete` hides every version": no version acknowledged
\* before an operation on its id began is visible once that operation is
\* done, or, for a write a crash interrupted, once it has been published and
\* its node serves again (bulk_api.rs:740 "repaired on replay").
SupersededHidden ==
    \A p \in Ops : \A o \in before[p] :
        /\ id[o] = id[p]
        /\ \/ pc[p] = "done"
           \/ pc[p] = "cut" /\ p \in published /\ Serving(node[p])
        => ~ Visible(o)

\* README.md "bounded erasure": what an answered delete hides is, in the end,
\* in no split a query or a merge could read.
EventuallyErased ==
    <>[](\A o, d \in Ops :
            kind[d] = "delete" /\ d \in acked /\ o \in before[d] /\ id[o] = id[d] =>
            \A s \in Splits : split[s].state = "published" => o \notin split[s].docs)
=============================================================================
