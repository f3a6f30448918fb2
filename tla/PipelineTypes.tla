---------------------------- MODULE PipelineTypes ----------------------------
(***************************************************************************)
(* The ingest pipeline keeps its types, names only rows that exist, and    *)
(* never shows a split whose file is gone: for any documents, plans and    *)
(* number of splits.                                                       *)
(***************************************************************************)
EXTENDS Pipeline, FiniteSetTheorems, TLAPS

----------------------------------------------------------------------------
(* Types *)

Kinds == {"resolve", "put", "stage", "publish", "reply", "sweep", "lookup"}
PlanType == [refreshing : SUBSET Docs, poison : SUBSET Docs,
             capacity : Nat \ {0}, batch : Nat \ {0}, kinds : SUBSET Kinds,
             faults : Nat, deletes : Nat, retires : Nat, crashes : Nat]
Messages  == [kind : {"doc", "flush"}, doc : Docs]
States    == {"none", "staged", "published", "marked", "deleted"}
SplitRows == [state : States, row : Nat, docs : SUBSET Docs]
Feeds     == [pc : {"next"}] \cup [pc : {"lookup", "send"}, doc : Docs]

\* Where a worker is in a flush, and where it can be at all.
Flushing == {"resolve", "build", "stage", "publish", "confirm"}
Places   == {"none", "recv", "closing", "gone"} \cup Flushing

\* A request before its record is in the log, with its record in the log and
\* the document not yet in a channel, and after the send.
Early  == {"none", "resolve", "resolved", "append"}
Unsent == {"enqueue", "reresolved", "lookup", "send", "relookup", "resend"}
Sent   == {"refresh", "cutting", "waiting", "accepted", "refreshed"}
Stages == Early \cup {"fsync"} \cup Unsent \cup Sent \cup {"rejected", "cut"}

MetaType ==
    /\ live \in Nat /\ deletes \in Nat /\ split \in [Splits -> SplitRows]
    /\ objects \in SUBSET Splits /\ indexed \in SUBSET Docs
NodeType ==
    /\ cache \in Nat /\ entry \in {0} \cup Gens
    /\ replaying \in SUBSET Docs /\ feed \in Feeds
WorkerType ==
    /\ wpc \in [Gens -> Places] /\ target \in [Gens -> Nat]
    /\ queue \in [Gens -> Seq(Messages)] /\ closed \in SUBSET Gens
    /\ buffer \in [Gens -> SUBSET Docs] /\ positions \in [Gens -> SUBSET Docs]
    /\ batch \in [Gens -> SUBSET Docs] /\ waiters \in [Gens -> SUBSET Docs]
    /\ built \in [Gens -> {0} \cup Splits]
ReqType ==
    /\ req \in [Docs -> Stages] /\ info \in [Docs -> Nat]
    /\ handle \in [Docs -> {0} \cup Gens] /\ done \in [Docs -> Nat]
WalType ==
    /\ log \in SUBSET Docs /\ pending \in SUBSET Docs
    /\ acked \in SUBSET Docs /\ confirmed \in SUBSET Docs
    /\ up \in BOOLEAN /\ outstanding \in Nat
BoundType ==
    /\ plan \in PlanType /\ retires \in Nat /\ crashes \in Nat
    /\ forgetting \in BOOLEAN /\ sweeping \in SUBSET Splits

BuiltType == \A g \in Gens : wpc[g] \in {"stage", "publish"} => built[g] \in Splits

\* Every variable of the pipeline has its type, and a worker that stages or
\* publishes has a split in hand.
TypeOK ==
    /\ MetaType /\ NodeType /\ WorkerType /\ ReqType /\ WalType /\ BoundType
    /\ BuiltType

----------------------------------------------------------------------------
(* What the helpers of the actions do *)

\* A failing call uses up one fault and changes nothing else of the plan.
LEMMA FaultPlan ==
    ASSUME plan \in PlanType, NEW kind, Fault(kind)
    PROVE  /\ plan' \in PlanType
           /\ plan'.poison = plan.poison /\ plan'.refreshing = plan.refreshing
           /\ plan'.kinds = plan.kinds /\ kind \in plan.kinds
BY DEF Fault, PlanType

\* wal.confirm takes the documents out of pending and leaves the log alone.
LEMMA Confirmed ==
    ASSUME WalType, NEW S \in SUBSET Docs, ConfirmWal(S)
    PROVE  /\ up /\ UNCHANGED <<log, acked, up>>
           /\ pending' = pending \ S /\ confirmed' = confirmed \cup (S \cap pending)
           /\ outstanding' \in Nat
<1>1. Cardinality(S) \in Nat
  BY PipelineAssumption, FS_Subset, FS_CardinalityType, ZenonT(30)
<1> QED  BY <1>1 DEF ConfirmWal, Wal!Confirm, WalType

\* Marking splits changes their state alone.
LEMMA Marked ==
    ASSUME split \in [Splits -> SplitRows], NEW S \in SUBSET Splits, Mark(S)
    PROVE  /\ split' \in [Splits -> SplitRows]
           /\ \A s \in Splits :
                /\ split'[s].docs = split[s].docs /\ split'[s].row = split[s].row
                /\ s \in S => split'[s].state = "marked"
                /\ s \notin S => split'[s] = split[s]
BY ZenonT(30) DEF Mark, SplitRows, States

\* So does moving one split to another state.
LEMMA Moved ==
    ASSUME split \in [Splits -> SplitRows], NEW s, NEW st \in States,
           split' = [split EXCEPT ![s].state = st]
    PROVE  /\ split' \in [Splits -> SplitRows]
           /\ s \in Splits => split'[s].state = st
           /\ \A x \in Splits :
                /\ split'[x].docs = split[x].docs /\ split'[x].row = split[x].row
                /\ x # s => split'[x] = split[x]
BY ZenonT(30) DEF SplitRows

\* A channel stays a channel when a message is sent ...
LEMMA QueueAppend ==
    ASSUME queue \in [Gens -> Seq(Messages)], NEW g, NEW m \in Messages,
           queue' = [queue EXCEPT ![g] = Append(@, m)]
    PROVE  queue' \in [Gens -> Seq(Messages)]
<1>1. CASE g \in Gens
  BY <1>1
<1>2. CASE g \notin Gens
  BY <1>2, Zenon
<1> QED  BY <1>1, <1>2, ZenonT(30)

\* ... or received.
LEMMA QueueTail ==
    ASSUME queue \in [Gens -> Seq(Messages)], NEW g \in Gens, queue[g] # <<>>,
           queue' = [queue EXCEPT ![g] = Tail(@)]
    PROVE  queue' \in [Gens -> Seq(Messages)] /\ Head(queue[g]) \in Messages
OBVIOUS

\* ensure_stream returns a row.
LEMMA Ensured ==
    ASSUME MetaType, EnsureStream
    PROVE  live' \in Nat \ {0} /\ (live # 0 => live' = live) /\ (live = 0 => live' = deletes + 1)
BY DEF MetaType, EnsureStream

\* A flush begins with documents.
LEMMA Started ==
    ASSUME WorkerType, NEW g \in Gens, NEW D \in SUBSET Docs, StartFlush(g, D)
    PROVE  /\ wpc' \in [Gens -> Places] /\ positions' \in [Gens -> SUBSET Docs]
           /\ batch' \in [Gens -> SUBSET Docs] /\ buffer' \in [Gens -> SUBSET Docs]
BY ZenonT(30) DEF WorkerType, StartFlush, Places, Flushing

\* The documents a channel holds messages of one kind about.
Has(q, kind, d)   == \E i \in 1 .. Len(q) : q[i].kind = kind /\ q[i].doc = d
Listed(g, kind)   == {d \in Docs : Has(queue[g], kind, d)}

\* What a retiring worker drains from its channel.
LEMMA DrainedDocs ==
    ASSUME WorkerType, NEW g \in Gens, NEW kind
    PROVE  {m.doc : m \in {n \in Drained(g) : n.kind = kind}} = Listed(g, kind)
<1>1. queue[g] \in Seq(Messages)
  BY ZenonT(30) DEF WorkerType
<1>2. DOMAIN queue[g] = 1 .. Len(queue[g]) /\ \A i \in DOMAIN queue[g] : queue[g][i] \in Messages
  BY <1>1
<1>3. \A i \in DOMAIN queue[g] : queue[g][i].doc \in Docs
  BY <1>2, ZenonT(30) DEF Messages
<1> QED  BY <1>2, <1>3, Zenon DEF Drained, Listed, Has

\* A worker that retires flushes the documents it drained, or ends.
LEMMA Retired ==
    ASSUME WorkerType, NEW g \in Gens, IdleClose(g)
    PROVE  \/ /\ Listed(g, "doc") # {} /\ StartFlush(g, Listed(g, "doc"))
              /\ waiters' = [waiters EXCEPT ![g] = Listed(g, "flush")]
              /\ UNCHANGED req
           \/ /\ Listed(g, "doc") = {} /\ Answer(Listed(g, "flush"))
              /\ wpc' = [wpc EXCEPT ![g] = "gone"]
              /\ UNCHANGED <<positions, batch, buffer, waiters>>
<1>1. {m.doc : m \in {n \in Drained(g) : n.kind = "doc"}} = Listed(g, "doc")
  BY DrainedDocs, Zenon
<1>2. {m.doc : m \in {n \in Drained(g) : n.kind = "flush"}} = Listed(g, "flush")
  BY DrainedDocs, Zenon
<1> QED  BY <1>1, <1>2, Zenon DEF IdleClose

\* 0 names no worker.
LEMMA NoWorker == 0 \notin Gens
BY DEF Gens

\* worker_for returns the worker in the map, or a new one bound to the live row.
LEMMA Looked ==
    ASSUME TypeOK, NEW d, WorkerFor(d)
    PROVE  /\ entry' \in Gens /\ handle' = [handle EXCEPT ![d] = entry']
           /\ \/ entry \in Gens /\ UNCHANGED <<live, entry, wpc, target>>
              \/ /\ entry = 0 /\ EnsureStream /\ wpc[entry'] = "none"
                 /\ wpc' = [wpc EXCEPT ![entry'] = "recv"]
                 /\ target' = [target EXCEPT ![entry'] = live']
BY ZenonT(30) DEF TypeOK, NodeType, WorkerFor

----------------------------------------------------------------------------
(* Which actions write which variables *)

\* Who writes the metastore and object storage.
LEMMA MetaWriters ==
    ASSUME [Next]_vars
    PROVE  \/ UNCHANGED <<live, split, objects, indexed, deletes>>
           \/ \E d \in Docs : StreamInfo(d) \/ LookupWorker(d) \/ ReplayInfo(d)
           \/ \E g \in Gens : Upload(g) \/ StageSplit(g) \/ PublishSplit(g)
           \/ \E s \in Splits : GcObject(s) \/ GcRow(s)
           \/ DeleteIndex \/ PurgeStreams \/ SweepMark \/ ReplayLookup
BY ZenonT(60) DEF Next, RequestStep, WorkerStep, FlushStep, ReplayStep, Quiescent, vars,
   metaVars, boundVars, Begin, StoreInfo, AppendWal, AppendDone, TrySend, RefreshLookup,
   RefreshSend, EnqueueError, RefreshTimeout, Receive, BatchDeadline, IdleClose,
   ResolveLive, ResolveDeleted, BuildNothing, ConfirmBatch, IdleUnpublish, ResolveUnknown,
   ExpireInfo, ForgetStream, SweepList, Crash, Restart, ReplaySend

\* Who writes the cached row, the map of workers and the replay.
LEMMA NodeWriters ==
    ASSUME [Next]_vars
    PROVE  \/ UNCHANGED <<cache, entry, replaying, feed>>
           \/ \E d \in Docs : StoreInfo(d) \/ LookupWorker(d) \/ ReplayInfo(d)
           \/ \E g \in Gens : ResolveLive(g) \/ ResolveDeleted(g) \/ IdleUnpublish(g)
           \/ ExpireInfo \/ ForgetStream \/ Crash \/ Restart \/ ReplayLookup \/ ReplaySend
BY ZenonT(60) DEF Next, RequestStep, WorkerStep, FlushStep, ReplayStep, Quiescent, vars,
   nodeVars, replayVars, Begin, StreamInfo, AppendWal, AppendDone, TrySend, RefreshLookup,
   RefreshSend, EnqueueError, RefreshTimeout, Receive, BatchDeadline, IdleClose,
   BuildNothing, Upload, StageSplit, PublishSplit, ConfirmBatch, ResolveUnknown,
   DeleteIndex, PurgeStreams, SweepList, SweepMark, GcObject, GcRow

\* Who writes the state of the workers.
LEMMA WorkerWriters ==
    ASSUME [Next]_vars
    PROVE  \/ UNCHANGED <<wpc, target, queue, closed, buffer, positions, batch, waiters, built>>
           \/ \E d \in Docs : LookupWorker(d) \/ TrySend(d) \/ RefreshSend(d)
           \/ \E g \in Gens : Receive(g) \/ BatchDeadline(g) \/ IdleClose(g)
                  \/ ResolveLive(g) \/ ResolveDeleted(g) \/ BuildNothing(g) \/ Upload(g)
                  \/ StageSplit(g) \/ PublishSplit(g) \/ ConfirmBatch(g) \/ IdleUnpublish(g)
                  \/ ResolveUnknown(g)
           \/ Crash \/ ReplayLookup \/ ReplaySend
BY ZenonT(60) DEF Next, RequestStep, WorkerStep, FlushStep, ReplayStep, Quiescent, vars,
   workerVars, Begin, StreamInfo, StoreInfo, AppendWal, AppendDone, RefreshLookup,
   EnqueueError, RefreshTimeout, ReplayInfo, ExpireInfo, DeleteIndex, ForgetStream,
   PurgeStreams, SweepList, SweepMark, Restart, GcObject, GcRow

\* Who writes the state of the requests.
LEMMA RequestWriters ==
    ASSUME [Next]_vars
    PROVE  \/ UNCHANGED <<req, info, handle, done>>
           \/ \E d \in Docs : Begin(d) \/ StreamInfo(d) \/ StoreInfo(d) \/ AppendWal(d)
                  \/ AppendDone(d) \/ LookupWorker(d) \/ TrySend(d) \/ RefreshLookup(d)
                  \/ RefreshSend(d) \/ EnqueueError(d) \/ RefreshTimeout(d) \/ ReplayInfo(d)
           \/ \E g \in Gens : Receive(g) \/ IdleClose(g) \/ ResolveLive(g)
                  \/ ResolveDeleted(g) \/ BuildNothing(g) \/ ConfirmBatch(g)
                  \/ ResolveUnknown(g)
           \/ Crash \/ ReplayLookup
BY ZenonT(60) DEF Next, RequestStep, WorkerStep, FlushStep, ReplayStep, Quiescent, vars,
   reqVars, BatchDeadline, Upload, StageSplit, PublishSplit, IdleUnpublish, ExpireInfo,
   DeleteIndex, ForgetStream, PurgeStreams, SweepList, SweepMark, Restart, ReplaySend,
   GcObject, GcRow

\* Who writes the log.
LEMMA WalWriters ==
    ASSUME [Next]_vars
    PROVE  \/ UNCHANGED <<log, pending, acked, confirmed, up, outstanding>>
           \/ \E d \in Docs : AppendWal(d) \/ AppendDone(d) \/ TrySend(d) \/ EnqueueError(d)
           \/ \E g \in Gens : ResolveLive(g) \/ ResolveDeleted(g) \/ BuildNothing(g)
                  \/ ConfirmBatch(g) \/ ResolveUnknown(g)
           \/ Crash \/ Restart \/ ReplaySend
BY ZenonT(60) DEF Next, RequestStep, WorkerStep, FlushStep, ReplayStep, Quiescent, vars,
   walVars, Begin, StreamInfo, StoreInfo, LookupWorker, RefreshLookup, RefreshSend,
   RefreshTimeout, ReplayInfo, Receive, BatchDeadline, IdleClose, Upload, StageSplit,
   PublishSplit, IdleUnpublish, ExpireInfo, DeleteIndex, ForgetStream, PurgeStreams,
   SweepList, SweepMark, ReplayLookup, GcObject, GcRow

\* Who uses up a bound.
LEMMA BoundWriters ==
    ASSUME [Next]_vars
    PROVE  \/ UNCHANGED <<plan, retires, crashes>>
           \/ \E d \in Docs : EnqueueError(d)
           \/ \E g \in Gens : Upload(g) \/ StageSplit(g) \/ PublishSplit(g)
                  \/ IdleUnpublish(g) \/ ResolveUnknown(g)
           \/ SweepList \/ Crash
BY ZenonT(60) DEF Next, RequestStep, WorkerStep, FlushStep, ReplayStep, Quiescent, vars,
   boundVars, Begin, StreamInfo, StoreInfo, AppendWal, AppendDone, LookupWorker, TrySend,
   RefreshLookup, RefreshSend, RefreshTimeout, ReplayInfo, Receive, BatchDeadline,
   IdleClose, ResolveLive, ResolveDeleted, BuildNothing, ConfirmBatch, ExpireInfo,
   DeleteIndex, ForgetStream, PurgeStreams, SweepMark, Restart, ReplayLookup, ReplaySend,
   GcObject, GcRow

\* Who writes the control state.
LEMMA ControlWriters ==
    ASSUME [Next]_vars
    PROVE  \/ UNCHANGED <<forgetting, sweeping>>
           \/ DeleteIndex \/ ForgetStream \/ SweepList \/ SweepMark \/ Crash
BY ZenonT(60) DEF Next, RequestStep, WorkerStep, FlushStep, ReplayStep, Quiescent, vars,
   ctlVars, Begin, StreamInfo, StoreInfo, AppendWal, AppendDone, LookupWorker, TrySend,
   RefreshLookup, RefreshSend, EnqueueError, RefreshTimeout, ReplayInfo, Receive,
   BatchDeadline, IdleClose, ResolveLive, ResolveDeleted, BuildNothing, Upload, StageSplit,
   PublishSplit, ConfirmBatch, IdleUnpublish, ResolveUnknown, ExpireInfo, PurgeStreams,
   Restart, ReplayLookup, ReplaySend, GcObject, GcRow

\* Who creates or retires a row of the index.
LEMMA RowWriters ==
    ASSUME [Next]_vars
    PROVE  \/ UNCHANGED <<live, deletes>>
           \/ \E d \in Docs : StreamInfo(d) \/ LookupWorker(d) \/ ReplayInfo(d)
           \/ DeleteIndex \/ ReplayLookup
BY MetaWriters, ZenonT(30) DEF boundVars, Upload, StageSplit, PublishSplit, PurgeStreams,
   SweepMark, GcObject, GcRow

\* Who writes the rows of splits.
LEMMA SplitWriters ==
    ASSUME [Next]_vars
    PROVE  \/ UNCHANGED split
           \/ \E g \in Gens : StageSplit(g) \/ PublishSplit(g)
           \/ \E s \in Splits : GcRow(s)
           \/ DeleteIndex \/ PurgeStreams \/ SweepMark
BY MetaWriters, ZenonT(30) DEF StreamInfo, LookupWorker, ReplayInfo, Upload, ReplayLookup,
   GcObject

\* Who writes object storage.
LEMMA ObjectWriters ==
    ASSUME [Next]_vars
    PROVE  \/ UNCHANGED objects
           \/ \E g \in Gens : Upload(g)
           \/ \E s \in Splits : GcObject(s)
BY MetaWriters, ZenonT(30) DEF StreamInfo, LookupWorker, ReplayInfo, StageSplit,
   PublishSplit, DeleteIndex, PurgeStreams, SweepMark, ReplayLookup, GcRow

\* Only a publish makes documents visible.
LEMMA IndexedWriters ==
    ASSUME [Next]_vars
    PROVE  \/ UNCHANGED indexed
           \/ \E g \in Gens : PublishSplit(g)
BY MetaWriters, ZenonT(30) DEF StreamInfo, LookupWorker, ReplayInfo, Upload, StageSplit,
   DeleteIndex, PurgeStreams, SweepMark, ReplayLookup, GcObject, GcRow

\* Who writes the cached row.
LEMMA CacheWriters ==
    ASSUME [Next]_vars
    PROVE  \/ UNCHANGED cache
           \/ \E d \in Docs : StoreInfo(d) \/ ReplayInfo(d)
           \/ \E g \in Gens : ResolveLive(g) \/ ResolveDeleted(g)
           \/ ExpireInfo \/ ForgetStream \/ Crash
BY NodeWriters, ZenonT(30) DEF nodeVars, LookupWorker, IdleUnpublish, Restart, ReplayLookup,
   ReplaySend

\* Who writes the map of workers.
LEMMA EntryWriters ==
    ASSUME [Next]_vars
    PROVE  \/ UNCHANGED entry
           \/ \E d \in Docs : LookupWorker(d)
           \/ \E g \in Gens : IdleUnpublish(g)
           \/ Crash \/ ReplayLookup
BY NodeWriters, ZenonT(30) DEF nodeVars, StoreInfo, ReplayInfo, ResolveLive, ResolveDeleted,
   ExpireInfo, ForgetStream, Restart, ReplaySend

\* Who moves the replay.
LEMMA ReplayWriters ==
    ASSUME [Next]_vars
    PROVE  \/ UNCHANGED <<replaying, feed>>
           \/ \E d \in Docs : ReplayInfo(d)
           \/ Crash \/ Restart \/ ReplayLookup \/ ReplaySend
BY NodeWriters, ZenonT(30) DEF replayVars, StoreInfo, LookupWorker, ResolveLive,
   ResolveDeleted, IdleUnpublish, ExpireInfo, ForgetStream

\* Who moves a worker.
LEMMA PlaceWriters ==
    ASSUME [Next]_vars
    PROVE  \/ UNCHANGED wpc
           \/ \E d \in Docs : LookupWorker(d)
           \/ \E g \in Gens : Receive(g) \/ BatchDeadline(g) \/ IdleClose(g)
                  \/ ResolveLive(g) \/ ResolveDeleted(g) \/ BuildNothing(g) \/ Upload(g)
                  \/ StageSplit(g) \/ PublishSplit(g) \/ ConfirmBatch(g) \/ IdleUnpublish(g)
                  \/ ResolveUnknown(g)
           \/ Crash \/ ReplayLookup
BY WorkerWriters, ZenonT(30) DEF TrySend, RefreshSend, ReplaySend

\* Who binds a worker to a row.
LEMMA TargetWriters ==
    ASSUME [Next]_vars
    PROVE  \/ UNCHANGED target
           \/ \E d \in Docs : LookupWorker(d)
           \/ \E g \in Gens : ResolveLive(g)
           \/ ReplayLookup
BY WorkerWriters, ZenonT(30) DEF TrySend, RefreshSend, Receive, BatchDeadline, IdleClose,
   ResolveDeleted, BuildNothing, Upload, StageSplit, PublishSplit, ConfirmBatch,
   IdleUnpublish, ResolveUnknown, Crash, ReplaySend

\* Who writes a channel.
LEMMA QueueWriters ==
    ASSUME [Next]_vars
    PROVE  \/ UNCHANGED queue
           \/ \E d \in Docs : TrySend(d) \/ RefreshSend(d)
           \/ \E g \in Gens : Receive(g) \/ IdleClose(g)
           \/ Crash \/ ReplaySend
BY WorkerWriters, ZenonT(30) DEF LookupWorker, BatchDeadline, ResolveLive, ResolveDeleted,
   BuildNothing, Upload, StageSplit, PublishSplit, ConfirmBatch, IdleUnpublish,
   ResolveUnknown, ReplayLookup

\* Who writes a buffer.
LEMMA BufferWriters ==
    ASSUME [Next]_vars
    PROVE  \/ UNCHANGED buffer
           \/ \E g \in Gens : Receive(g) \/ BatchDeadline(g) \/ IdleClose(g)
           \/ Crash
BY WorkerWriters, ZenonT(30) DEF LookupWorker, TrySend, RefreshSend, ResolveLive,
   ResolveDeleted, BuildNothing, Upload, StageSplit, PublishSplit, ConfirmBatch,
   IdleUnpublish, ResolveUnknown, ReplayLookup, ReplaySend

\* Who writes the running flush.
LEMMA BatchWriters ==
    ASSUME [Next]_vars
    PROVE  \/ UNCHANGED <<positions, batch, waiters>>
           \/ \E g \in Gens : Receive(g) \/ BatchDeadline(g) \/ IdleClose(g)
                  \/ ResolveLive(g) \/ ResolveDeleted(g) \/ BuildNothing(g)
                  \/ ConfirmBatch(g) \/ ResolveUnknown(g)
           \/ Crash
BY WorkerWriters, ZenonT(30) DEF LookupWorker, TrySend, RefreshSend, Upload, StageSplit,
   PublishSplit, IdleUnpublish, ReplayLookup, ReplaySend

\* Who chooses a split.
LEMMA BuiltWriters ==
    ASSUME [Next]_vars
    PROVE  \/ UNCHANGED built
           \/ \E g \in Gens : ResolveLive(g) \/ ResolveDeleted(g) \/ BuildNothing(g)
                  \/ Upload(g) \/ StageSplit(g) \/ PublishSplit(g) \/ ConfirmBatch(g)
                  \/ ResolveUnknown(g)
           \/ Crash
BY WorkerWriters, ZenonT(30) DEF LookupWorker, TrySend, RefreshSend, Receive, BatchDeadline,
   IdleClose, IdleUnpublish, ReplayLookup, ReplaySend

\* Only a retiring worker closes its channel.
LEMMA ClosedWriters ==
    ASSUME [Next]_vars
    PROVE  \/ UNCHANGED closed
           \/ \E g \in Gens : IdleClose(g)
BY WorkerWriters, ZenonT(30) DEF LookupWorker, TrySend, RefreshSend, Receive, BatchDeadline,
   ResolveLive, ResolveDeleted, BuildNothing, Upload, StageSplit, PublishSplit,
   ConfirmBatch, IdleUnpublish, ResolveUnknown, Crash, ReplayLookup, ReplaySend

\* Who moves a request.
LEMMA StageWriters ==
    ASSUME [Next]_vars
    PROVE  \/ UNCHANGED req
           \/ \E d \in Docs : Begin(d) \/ StreamInfo(d) \/ StoreInfo(d) \/ AppendWal(d)
                  \/ AppendDone(d) \/ LookupWorker(d) \/ TrySend(d) \/ RefreshLookup(d)
                  \/ RefreshSend(d) \/ EnqueueError(d) \/ RefreshTimeout(d)
           \/ \E g \in Gens : Receive(g) \/ IdleClose(g) \/ ResolveLive(g)
                  \/ ResolveDeleted(g) \/ BuildNothing(g) \/ ConfirmBatch(g)
                  \/ ResolveUnknown(g)
           \/ Crash
BY RequestWriters, ZenonT(30) DEF ReplayInfo, ReplayLookup

\* Who resolves the row of a document.
LEMMA InfoWriters ==
    ASSUME [Next]_vars
    PROVE  \/ UNCHANGED info
           \/ \E d \in Docs : StreamInfo(d) \/ ReplayInfo(d)
BY RequestWriters, ZenonT(30) DEF Begin, StoreInfo, AppendWal, AppendDone, LookupWorker,
   TrySend, RefreshLookup, RefreshSend, EnqueueError, RefreshTimeout, Receive, IdleClose,
   ResolveLive, ResolveDeleted, BuildNothing, ConfirmBatch, ResolveUnknown, Crash,
   ReplayLookup

\* Who looks a worker up.
LEMMA HandleWriters ==
    ASSUME [Next]_vars
    PROVE  \/ UNCHANGED handle
           \/ \E d \in Docs : LookupWorker(d) \/ RefreshLookup(d)
           \/ ReplayLookup
BY RequestWriters, ZenonT(30) DEF Begin, StreamInfo, StoreInfo, AppendWal, AppendDone,
   TrySend, RefreshSend, EnqueueError, RefreshTimeout, ReplayInfo, Receive, IdleClose,
   ResolveLive, ResolveDeleted, BuildNothing, ConfirmBatch, ResolveUnknown, Crash

\* Only the send notes the deletions so far.
LEMMA DoneWriters ==
    ASSUME [Next]_vars
    PROVE  \/ UNCHANGED done
           \/ \E d \in Docs : TrySend(d)
BY RequestWriters, ZenonT(30) DEF Begin, StreamInfo, StoreInfo, AppendWal, AppendDone,
   LookupWorker, RefreshLookup, RefreshSend, EnqueueError, RefreshTimeout, ReplayInfo,
   Receive, IdleClose, ResolveLive, ResolveDeleted, BuildNothing, ConfirmBatch,
   ResolveUnknown, Crash, ReplayLookup

\* Who meets a failing call.
LEMMA PlanWriters ==
    ASSUME [Next]_vars
    PROVE  \/ UNCHANGED plan
           \/ \E d \in Docs : EnqueueError(d)
           \/ \E g \in Gens : Upload(g) \/ StageSplit(g) \/ PublishSplit(g)
                  \/ ResolveUnknown(g)
           \/ SweepList
BY BoundWriters, ZenonT(30) DEF IdleUnpublish, Crash

----------------------------------------------------------------------------
(* Type correctness *)

\* The metastore's tables keep their types.
LEMMA MetaTypeStep ==
    ASSUME TypeOK, [Next]_vars
    PROVE  MetaType'
<1> USE DEF TypeOK
<1>1. ASSUME NEW d \in Docs, StreamInfo(d) PROVE MetaType'
  BY <1>1, Ensured, ZenonT(30) DEF MetaType, StreamInfo, boundVars
<1>2. ASSUME NEW d \in Docs, LookupWorker(d) PROVE MetaType'
  BY <1>2, Ensured, ZenonT(30) DEF MetaType, LookupWorker, WorkerFor, boundVars
<1>3. ASSUME NEW d \in Docs, ReplayInfo(d) PROVE MetaType'
  BY <1>3, Ensured, ZenonT(30) DEF MetaType, ReplayInfo, boundVars
<1>4. ASSUME NEW g \in Gens, Upload(g) PROVE MetaType'
  BY <1>4, ZenonT(30) DEF MetaType, Upload
<1>5. ASSUME NEW g \in Gens, StageSplit(g) PROVE MetaType'
  <2>1. [state |-> "staged", row |-> target[g], docs |-> batch[g] \ plan.poison] \in SplitRows
    BY ZenonT(30) DEF WorkerType, SplitRows, States
  <2>2. split' \in [Splits -> SplitRows]
    BY <1>5, <2>1, Zenon DEF MetaType, StageSplit
  <2> QED  BY <1>5, <2>2, ZenonT(30) DEF MetaType, StageSplit
<1>6. ASSUME NEW g \in Gens, PublishSplit(g) PROVE MetaType'
  <2>1. split' \in [Splits -> SplitRows]
    BY <1>6, Moved, Zenon DEF MetaType, PublishSplit, States
  <2>2. indexed' \in SUBSET Docs
    BY <1>6, ZenonT(30) DEF MetaType, PublishSplit, SplitRows, BuiltType, Runs
  <2> QED  BY <1>6, <2>1, <2>2, ZenonT(30) DEF MetaType, PublishSplit
<1>7. ASSUME DeleteIndex PROVE MetaType'
  BY <1>7, Marked DEF MetaType, DeleteIndex, Unmarked
<1>8. ASSUME PurgeStreams PROVE MetaType'
  BY <1>8, Marked, ZenonT(30) DEF MetaType, PurgeStreams, Unmarked, boundVars
<1>9. ASSUME SweepMark PROVE MetaType'
  BY <1>9, Marked, ZenonT(30) DEF MetaType, SweepMark, Unmarked, boundVars
<1>10. ASSUME ReplayLookup PROVE MetaType'
  BY <1>10, Ensured, ZenonT(30) DEF MetaType, ReplayLookup, WorkerFor, boundVars
<1>11. ASSUME NEW s \in Splits, GcObject(s) PROVE MetaType'
  BY <1>11, ZenonT(30) DEF MetaType, GcObject, boundVars
<1>12. ASSUME NEW s \in Splits, GcRow(s) PROVE MetaType'
  BY <1>12, Moved, ZenonT(30) DEF MetaType, GcRow, States, boundVars
<1> QED  BY MetaWriters, <1>1, <1>2, <1>3, <1>4, <1>5, <1>6, <1>7, <1>8, <1>9, <1>10, <1>11,
         <1>12, ZenonT(30) DEF MetaType

\* So do the node's maps and its replay,
LEMMA NodeTypeStep ==
    ASSUME TypeOK, [Next]_vars
    PROVE  NodeType'
<1> USE DEF TypeOK
<1>1. ASSUME NEW d \in Docs, StoreInfo(d) PROVE NodeType'
  BY <1>1, ZenonT(30) DEF NodeType, StoreInfo, ReqType, replayVars
<1>2. ASSUME NEW d \in Docs, LookupWorker(d) PROVE NodeType'
  BY <1>2, Ensured, ZenonT(30) DEF NodeType, LookupWorker, WorkerFor, replayVars
<1>3. ASSUME NEW d \in Docs, ReplayInfo(d) PROVE NodeType'
  BY <1>3, Ensured, ZenonT(30) DEF NodeType, ReplayInfo, MetaType, Feeds
<1>4. ASSUME NEW g \in Gens, ResolveLive(g) PROVE NodeType'
  BY <1>4, ZenonT(30) DEF NodeType, ResolveLive, replayVars
<1>5. ASSUME NEW g \in Gens, ResolveDeleted(g) PROVE NodeType'
  BY <1>5, ZenonT(30) DEF NodeType, ResolveDeleted, replayVars
<1>6. ASSUME NEW g \in Gens, IdleUnpublish(g) PROVE NodeType'
  BY <1>6, ZenonT(30) DEF NodeType, IdleUnpublish, replayVars
<1>7. ASSUME ExpireInfo PROVE NodeType'
  BY <1>7, ZenonT(30) DEF NodeType, ExpireInfo, replayVars
<1>8. ASSUME ForgetStream PROVE NodeType'
  BY <1>8, ZenonT(30) DEF NodeType, ForgetStream, replayVars
<1>9. ASSUME Crash PROVE NodeType'
  BY <1>9, ZenonT(30) DEF NodeType, Crash, Feeds
<1>10. ASSUME Restart PROVE NodeType'
  BY <1>10, ZenonT(30) DEF NodeType, Restart, WalType, Wal!Restart, nodeVars
<1>11. ASSUME ReplayLookup PROVE NodeType'
  BY <1>11, Ensured, ZenonT(30) DEF NodeType, ReplayLookup, WorkerFor, Feeds
<1>12. ASSUME ReplaySend PROVE NodeType'
  BY <1>12, ZenonT(30) DEF NodeType, ReplaySend, Feeds, nodeVars
<1> QED  BY NodeWriters, <1>1, <1>2, <1>3, <1>4, <1>5, <1>6, <1>7, <1>8, <1>9, <1>10, <1>11,
         <1>12, ZenonT(30) DEF NodeType

\* the workers,
LEMMA WorkerTypeStep ==
    ASSUME TypeOK, [Next]_vars
    PROVE  WorkerType'
<1> USE DEF TypeOK, Places, Flushing
<1>1. ASSUME NEW d \in Docs, LookupWorker(d) PROVE WorkerType'
  BY <1>1, Looked, Ensured, ZenonT(30) DEF WorkerType, LookupWorker, MetaType
<1>2. ASSUME NEW d \in Docs, TrySend(d) PROVE WorkerType'
  <2>1. [kind |-> "doc", doc |-> d] \in Messages
    BY ZenonT(30) DEF Messages
  <2>2. queue' \in [Gens -> Seq(Messages)]
    BY <1>2, <2>1, QueueAppend, Zenon DEF WorkerType, TrySend
  <2> QED  BY <1>2, <2>2, ZenonT(30) DEF WorkerType, TrySend
<1>3. ASSUME NEW d \in Docs, RefreshSend(d) PROVE WorkerType'
  <2>1. [kind |-> "flush", doc |-> d] \in Messages
    BY ZenonT(30) DEF Messages
  <2>2. queue' \in [Gens -> Seq(Messages)]
    BY <1>3, <2>1, QueueAppend, Zenon DEF WorkerType, RefreshSend
  <2> QED  BY <1>3, <2>2, ZenonT(30) DEF WorkerType, RefreshSend
<1>4. ASSUME NEW g \in Gens, Receive(g) PROVE WorkerType'
  <2>1. queue' \in [Gens -> Seq(Messages)] /\ Head(queue[g]) \in Messages
    BY <1>4, QueueTail, Zenon DEF WorkerType, Receive
  <2>2. Head(queue[g]).doc \in Docs
    BY <2>1, ZenonT(30) DEF Messages
  <2>3. buffer[g] \in SUBSET Docs /\ buffer[g] \cup {Head(queue[g]).doc} \in SUBSET Docs
    BY <2>2, ZenonT(30) DEF WorkerType
  <2>4. UNCHANGED <<target, closed, built>>
    BY <1>4, Zenon DEF Receive
  <2>5. waiters' \in [Gens -> SUBSET Docs]
    <3>1. [waiters EXCEPT ![g] = @ \cup {Head(queue[g]).doc}] \in [Gens -> SUBSET Docs]
      BY <2>2, ZenonT(30) DEF WorkerType
    <3> QED  BY <1>4, <3>1, Zenon DEF WorkerType, Receive
  <2>6. /\ wpc' \in [Gens -> Places] /\ positions' \in [Gens -> SUBSET Docs]
        /\ batch' \in [Gens -> SUBSET Docs] /\ buffer' \in [Gens -> SUBSET Docs]
    <3>1. ASSUME NEW D \in SUBSET Docs, buffer' = [buffer EXCEPT ![g] = D],
                 UNCHANGED <<wpc, positions, batch>>
          PROVE  buffer' \in [Gens -> SUBSET Docs]
      BY <3>1, ZenonT(30) DEF WorkerType
    <3> QED  BY <1>4, <2>3, <3>1, Started, Zenon DEF WorkerType, Receive
  <2> QED  BY <2>1, <2>4, <2>5, <2>6, ZenonT(30) DEF WorkerType
<1>5. ASSUME NEW g \in Gens, BatchDeadline(g) PROVE WorkerType'
  BY <1>5, ZenonT(30) DEF WorkerType, BatchDeadline, StartFlush
<1>6. ASSUME NEW g \in Gens, IdleClose(g) PROVE WorkerType'
  <2>1. queue' \in [Gens -> Seq(Messages)] /\ closed' \in SUBSET Gens /\ UNCHANGED <<target, built>>
    BY <1>6 DEF WorkerType, IdleClose
  <2>2. waiters' \in [Gens -> SUBSET Docs]
    BY <1>6, Retired, ZenonT(30) DEF WorkerType, Listed
  <2>3. [wpc EXCEPT ![g] = "gone"] \in [Gens -> Places]
    BY ZenonT(30) DEF WorkerType
  <2>4. /\ wpc' \in [Gens -> Places] /\ positions' \in [Gens -> SUBSET Docs]
        /\ batch' \in [Gens -> SUBSET Docs] /\ buffer' \in [Gens -> SUBSET Docs]
    BY <1>6, <2>3, Retired, Started, Zenon DEF WorkerType, Listed
  <2> QED  BY <2>1, <2>2, <2>4, ZenonT(30) DEF WorkerType
<1>7. ASSUME NEW g \in Gens, ResolveLive(g) PROVE WorkerType'
  BY <1>7, ZenonT(60) DEF WorkerType, ResolveLive, DropStale, Stale, FinishFlush, MetaType
<1>8. ASSUME NEW g \in Gens, ResolveDeleted(g) PROVE WorkerType'
  BY <1>8, ZenonT(30) DEF WorkerType, ResolveDeleted, FinishFlush
<1>9. ASSUME NEW g \in Gens, BuildNothing(g) PROVE WorkerType'
  BY <1>9, ZenonT(30) DEF WorkerType, BuildNothing, FinishFlush
<1>10. ASSUME NEW g \in Gens, Upload(g) PROVE WorkerType'
  BY <1>10, ZenonT(30) DEF WorkerType, Upload, Retry
<1>11. ASSUME NEW g \in Gens, StageSplit(g) PROVE WorkerType'
  BY <1>11, ZenonT(30) DEF WorkerType, StageSplit, Retry
<1>12. ASSUME NEW g \in Gens, PublishSplit(g) PROVE WorkerType'
  BY <1>12, ZenonT(30) DEF WorkerType, PublishSplit, Retry
<1>13. ASSUME NEW g \in Gens, ConfirmBatch(g) PROVE WorkerType'
  BY <1>13, ZenonT(30) DEF WorkerType, ConfirmBatch, FinishFlush
<1>14. ASSUME NEW g \in Gens, IdleUnpublish(g) PROVE WorkerType'
  BY <1>14, ZenonT(30) DEF WorkerType, IdleUnpublish
<1>15. ASSUME NEW g \in Gens, ResolveUnknown(g) PROVE WorkerType'
  BY <1>15, ZenonT(30) DEF WorkerType, ResolveUnknown, DropStale, Stale, FinishFlush
<1>16. ASSUME Crash PROVE WorkerType'
  BY <1>16 DEF WorkerType, Crash
<1>17. ASSUME ReplayLookup PROVE WorkerType'
  BY <1>17, Looked, Ensured, ZenonT(60) DEF WorkerType, ReplayLookup, MetaType
<1>18. ASSUME ReplaySend PROVE WorkerType'
  <2>1. [kind |-> "doc", doc |-> feed.doc] \in Messages
    BY <1>18, ZenonT(30) DEF Messages, NodeType, Feeds, ReplaySend
  <2>2. queue' \in [Gens -> Seq(Messages)]
    BY <1>18, <2>1, QueueAppend, Zenon DEF WorkerType, ReplaySend
  <2> QED  BY <1>18, <2>2, ZenonT(30) DEF WorkerType, ReplaySend
<1> QED  BY WorkerWriters, <1>1, <1>2, <1>3, <1>4, <1>5, <1>6, <1>7, <1>8, <1>9, <1>10,
         <1>11, <1>12, <1>13, <1>14, <1>15, <1>16, <1>17, <1>18, ZenonT(30) DEF WorkerType

\* the requests,
LEMMA ReqTypeStep ==
    ASSUME TypeOK, [Next]_vars
    PROVE  ReqType'
<1> USE DEF TypeOK, Stages, Early, Unsent, Sent
<1>1. ASSUME NEW d \in Docs, Begin(d) PROVE ReqType'
  BY <1>1, ZenonT(30) DEF ReqType, Begin, Goto
<1>2. ASSUME NEW d \in Docs, StreamInfo(d) PROVE ReqType'
  BY <1>2, Ensured, ZenonT(30) DEF ReqType, StreamInfo, Goto, NodeType, MetaType
<1>3. ASSUME NEW d \in Docs, StoreInfo(d) PROVE ReqType'
  BY <1>3, ZenonT(30) DEF ReqType, StoreInfo, Goto
<1>4. ASSUME NEW d \in Docs, AppendWal(d) PROVE ReqType'
  BY <1>4, ZenonT(30) DEF ReqType, AppendWal, Goto
<1>5. ASSUME NEW d \in Docs, AppendDone(d) PROVE ReqType'
  BY <1>5, ZenonT(30) DEF ReqType, AppendDone, Goto
<1>6. ASSUME NEW d \in Docs, LookupWorker(d) PROVE ReqType'
  BY <1>6, Ensured DEF ReqType, LookupWorker, Goto, WorkerFor, NodeType
<1>7. ASSUME NEW d \in Docs, TrySend(d) PROVE ReqType'
  BY <1>7, ZenonT(30) DEF ReqType, TrySend, Goto, Reject, MetaType
<1>8. ASSUME NEW d \in Docs, RefreshLookup(d) PROVE ReqType'
  BY <1>8, ZenonT(30) DEF ReqType, RefreshLookup, Goto, NodeType
<1>9. ASSUME NEW d \in Docs, RefreshSend(d) PROVE ReqType'
  BY <1>9, ZenonT(30) DEF ReqType, RefreshSend, Goto
<1>10. ASSUME NEW d \in Docs, EnqueueError(d) PROVE ReqType'
  BY <1>10, ZenonT(30) DEF ReqType, EnqueueError, Goto, Reject
<1>11. ASSUME NEW d \in Docs, RefreshTimeout(d) PROVE ReqType'
  BY <1>11, ZenonT(30) DEF ReqType, RefreshTimeout, Goto
<1>12. ASSUME NEW d \in Docs, ReplayInfo(d) PROVE ReqType'
  BY <1>12, Ensured, ZenonT(30) DEF ReqType, ReplayInfo, NodeType, MetaType
<1>13. ASSUME NEW g \in Gens, Receive(g) PROVE ReqType'
  BY <1>13, ZenonT(30) DEF ReqType, Receive, Answer
<1>14. ASSUME NEW g \in Gens, IdleClose(g) PROVE ReqType'
  BY <1>14, Retired, ZenonT(30) DEF ReqType, IdleClose, Answer
<1>15. ASSUME NEW g \in Gens, ResolveLive(g) PROVE ReqType'
  BY <1>15, ZenonT(30) DEF ReqType, ResolveLive, DropStale, FinishFlush, Answer
<1>16. ASSUME NEW g \in Gens, ResolveDeleted(g) PROVE ReqType'
  BY <1>16, ZenonT(30) DEF ReqType, ResolveDeleted, FinishFlush, Answer
<1>17. ASSUME NEW g \in Gens, BuildNothing(g) PROVE ReqType'
  BY <1>17, ZenonT(30) DEF ReqType, BuildNothing, FinishFlush, Answer
<1>18. ASSUME NEW g \in Gens, ConfirmBatch(g) PROVE ReqType'
  BY <1>18, ZenonT(30) DEF ReqType, ConfirmBatch, FinishFlush, Answer
<1>19. ASSUME NEW g \in Gens, ResolveUnknown(g) PROVE ReqType'
  BY <1>19, ZenonT(30) DEF ReqType, ResolveUnknown, DropStale, FinishFlush, Answer
<1>20. ASSUME Crash PROVE ReqType'
  BY <1>20, ZenonT(30) DEF ReqType, Crash, Terminal
<1>21. ASSUME ReplayLookup PROVE ReqType'
  BY <1>21, Ensured, ZenonT(30) DEF ReqType, ReplayLookup, WorkerFor, NodeType
<1> QED  BY RequestWriters, <1>1, <1>2, <1>3, <1>4, <1>5, <1>6, <1>7, <1>8, <1>9, <1>10,
         <1>11, <1>12, <1>13, <1>14, <1>15, <1>16, <1>17, <1>18, <1>19, <1>20, <1>21, ZenonT(30) DEF ReqType

\* the log,
LEMMA WalTypeStep ==
    ASSUME TypeOK, [Next]_vars
    PROVE  WalType'
<1> USE DEF TypeOK
<1>1. ASSUME NEW d \in Docs, AppendWal(d) PROVE WalType'
  BY <1>1 DEF WalType, AppendWal, Wal!Append
<1>2. ASSUME NEW d \in Docs, AppendDone(d) PROVE WalType'
  BY <1>2, ZenonT(30) DEF WalType, AppendDone, Wal!Acknowledge
<1>3. ASSUME NEW d \in Docs, TrySend(d) PROVE WalType'
  BY <1>3, Confirmed, ZenonT(30) DEF WalType, TrySend, Reject, walVars
<1>4. ASSUME NEW d \in Docs, EnqueueError(d) PROVE WalType'
  BY <1>4, Confirmed, ZenonT(30) DEF WalType, EnqueueError, Reject
<1>5. ASSUME NEW g \in Gens, ResolveLive(g) PROVE WalType'
  BY <1>5, Confirmed, ZenonT(30) DEF WalType, ResolveLive, DropStale, Stale, WorkerType, walVars
<1>6. ASSUME NEW g \in Gens, ResolveDeleted(g) PROVE WalType'
  BY <1>6, Confirmed, ZenonT(30) DEF WalType, ResolveDeleted, WorkerType
<1>7. ASSUME NEW g \in Gens, BuildNothing(g) PROVE WalType'
  BY <1>7, Confirmed, ZenonT(30) DEF WalType, BuildNothing, WorkerType
<1>8. ASSUME NEW g \in Gens, ConfirmBatch(g) PROVE WalType'
  BY <1>8, Confirmed, ZenonT(30) DEF WalType, ConfirmBatch, WorkerType
<1>9. ASSUME NEW g \in Gens, ResolveUnknown(g) PROVE WalType'
  BY <1>9, Confirmed, ZenonT(30) DEF WalType, ResolveUnknown, DropStale, Stale, WorkerType, walVars
<1>10. ASSUME Crash PROVE WalType'
  BY <1>10, ZenonT(30) DEF WalType, Crash, Wal!Crash
<1>11. ASSUME Restart PROVE WalType'
  BY <1>11, PipelineAssumption, FS_Subset, FS_CardinalityType, ZenonT(30) DEF WalType, Restart, Wal!Restart
<1>12. ASSUME ReplaySend PROVE WalType'
  BY <1>12, Confirmed, ZenonT(30) DEF WalType, ReplaySend, NodeType, Feeds, walVars
<1> QED  BY WalWriters, <1>1, <1>2, <1>3, <1>4, <1>5, <1>6, <1>7, <1>8, <1>9, <1>10, <1>11,
         <1>12, ZenonT(30) DEF WalType

\* and the control state.
LEMMA BoundTypeStep ==
    ASSUME TypeOK, [Next]_vars
    PROVE  BoundType'
<1> USE DEF TypeOK
<1>1. ASSUME NEW d \in Docs, EnqueueError(d) PROVE BoundType'
  BY <1>1, FaultPlan, ZenonT(30) DEF BoundType, EnqueueError, ctlVars
<1>2. ASSUME NEW g \in Gens, Upload(g) PROVE BoundType'
  BY <1>2, FaultPlan, ZenonT(30) DEF BoundType, Upload, NoFault, ctlVars
<1>3. ASSUME NEW g \in Gens, StageSplit(g) PROVE BoundType'
  BY <1>3, FaultPlan, ZenonT(30) DEF BoundType, StageSplit, NoFault, ctlVars
<1>4. ASSUME NEW g \in Gens, PublishSplit(g) PROVE BoundType'
  BY <1>4, FaultPlan, ZenonT(30) DEF BoundType, PublishSplit, NoFault, ctlVars
<1>5. ASSUME NEW g \in Gens, IdleUnpublish(g) PROVE BoundType'
  <2>1. retires' = retires + 1 /\ UNCHANGED <<plan, crashes, forgetting, sweeping>>
    BY <1>5, Zenon DEF IdleUnpublish, ctlVars
  <2> QED  BY <2>1 DEF BoundType
<1>6. ASSUME NEW g \in Gens, ResolveUnknown(g) PROVE BoundType'
  BY <1>6, FaultPlan, ZenonT(30) DEF BoundType, ResolveUnknown, ctlVars
<1>7. ASSUME DeleteIndex PROVE BoundType'
  BY <1>7, ZenonT(30) DEF BoundType, DeleteIndex, WalType
<1>8. ASSUME ForgetStream PROVE BoundType'
  BY <1>8, ZenonT(30) DEF BoundType, ForgetStream, boundVars
<1>9. ASSUME SweepList PROVE BoundType'
  BY <1>9, FaultPlan, ZenonT(30) DEF BoundType, SweepList
<1>10. ASSUME SweepMark PROVE BoundType'
  BY <1>10, ZenonT(30) DEF BoundType, SweepMark, boundVars
<1>11. ASSUME Crash PROVE BoundType'
  <2>1. crashes' = crashes + 1 /\ forgetting' = FALSE /\ UNCHANGED <<plan, retires, sweeping>>
    BY <1>11, Zenon DEF Crash
  <2>2. crashes' \in Nat
    BY <2>1 DEF BoundType
  <2> QED  BY <2>1, <2>2, Zenon DEF BoundType
<1> QED  BY BoundWriters, ControlWriters, <1>1, <1>2, <1>3, <1>4, <1>5, <1>6, <1>7, <1>8,
         <1>9, <1>10, <1>11, ZenonT(30) DEF BoundType

\* and the split in hand.
LEMMA BuiltTypeStep ==
    ASSUME TypeOK, [Next]_vars
    PROVE  BuiltType'
<1> USE DEF TypeOK
<1>1. ASSUME NEW d \in Docs, LookupWorker(d) PROVE BuiltType'
  BY <1>1, Looked, ZenonT(30) DEF BuiltType, LookupWorker, WorkerType
<1>2. ASSUME NEW g \in Gens, Receive(g) PROVE BuiltType'
  BY <1>2, ZenonT(30) DEF BuiltType, Receive, StartFlush, WorkerType
<1>3. ASSUME NEW g \in Gens, BatchDeadline(g) PROVE BuiltType'
  BY <1>3, ZenonT(30) DEF BuiltType, BatchDeadline, StartFlush, WorkerType
<1>4. ASSUME NEW g \in Gens, IdleClose(g) PROVE BuiltType'
  BY <1>4, Retired, ZenonT(30) DEF BuiltType, IdleClose, StartFlush, WorkerType
<1>5. ASSUME NEW g \in Gens, ResolveLive(g) PROVE BuiltType'
  BY <1>5, ZenonT(30) DEF BuiltType, ResolveLive, DropStale, FinishFlush, WorkerType
<1>6. ASSUME NEW g \in Gens, ResolveDeleted(g) PROVE BuiltType'
  BY <1>6, ZenonT(30) DEF BuiltType, ResolveDeleted, FinishFlush, WorkerType
<1>7. ASSUME NEW g \in Gens, BuildNothing(g) PROVE BuiltType'
  BY <1>7, ZenonT(30) DEF BuiltType, BuildNothing, FinishFlush, WorkerType
<1>8. ASSUME NEW g \in Gens, Upload(g) PROVE BuiltType'
  BY <1>8, ZenonT(30) DEF BuiltType, Upload, Retry, WorkerType
<1>9. ASSUME NEW g \in Gens, StageSplit(g) PROVE BuiltType'
  BY <1>9, ZenonT(30) DEF BuiltType, StageSplit, Retry, Runs, WorkerType
<1>10. ASSUME NEW g \in Gens, PublishSplit(g) PROVE BuiltType'
  BY <1>10, ZenonT(30) DEF BuiltType, PublishSplit, Retry, WorkerType
<1>11. ASSUME NEW g \in Gens, ConfirmBatch(g) PROVE BuiltType'
  BY <1>11, ZenonT(30) DEF BuiltType, ConfirmBatch, FinishFlush, WorkerType
<1>12. ASSUME NEW g \in Gens, IdleUnpublish(g) PROVE BuiltType'
  BY <1>12, ZenonT(30) DEF BuiltType, IdleUnpublish, WorkerType
<1>13. ASSUME NEW g \in Gens, ResolveUnknown(g) PROVE BuiltType'
  BY <1>13, ZenonT(30) DEF BuiltType, ResolveUnknown, DropStale, FinishFlush, WorkerType
<1>14. ASSUME Crash PROVE BuiltType'
  BY <1>14, ZenonT(30) DEF BuiltType, Crash, WorkerType
<1>15. ASSUME ReplayLookup PROVE BuiltType'
  BY <1>15, Looked, ZenonT(30) DEF BuiltType, ReplayLookup, WorkerType
<1> QED  BY PlaceWriters, BuiltWriters, <1>1, <1>2, <1>3, <1>4, <1>5, <1>6, <1>7, <1>8,
         <1>9, <1>10, <1>11, <1>12, <1>13, <1>14, <1>15, ZenonT(30) DEF BuiltType
\* The pipeline starts with its types.
LEMMA InitTypes == Init => TypeOK
<1> SUFFICES ASSUME Init PROVE TypeOK
  OBVIOUS
<1>1. MetaType
  BY ZenonT(30) DEF Init, MetaType, SplitRows, States, NoSplit
<1>2. NodeType
  BY ZenonT(30) DEF Init, NodeType, Feeds
<1>3. WorkerType
  BY DEF Init, WorkerType, Places
<1>4. ReqType
  BY ZenonT(30) DEF Init, ReqType, Stages, Early
<1>5. WalType
  BY ZenonT(30) DEF Init, WalType, Wal!Init
<1>6. BoundType
  BY PipelineAssumption, Zenon DEF Init, BoundType, PlanType, Kinds
<1>7. BuiltType
  BY ZenonT(30) DEF Init, BuiltType
<1> QED  BY <1>1, <1>2, <1>3, <1>4, <1>5, <1>6, <1>7, ZenonT(30) DEF TypeOK

\* The types are inductive.
LEMMA TypeStep == TypeOK /\ [Next]_vars => TypeOK'
BY MetaTypeStep, NodeTypeStep, WorkerTypeStep, ReqTypeStep, WalTypeStep, BoundTypeStep, BuiltTypeStep, ZenonT(30)
   DEF TypeOK

----------------------------------------------------------------------------
(* Rows of the streams table *)

\* A row that exists or existed: retired rows, and the live one.
Known(k) == k # 0 /\ (k <= deletes \/ k = live)

\* The live row is the one after the last retired row.
LiveRow == live \in {0, deletes + 1}

\* Every row the node remembers is known.  A request that went past its
\* resolution, and the record the replay has in hand, have one.
NodeRows ==
    /\ cache # 0 => Known(cache)
    /\ \A d \in Docs : info[d] # 0 => Known(info[d])
    /\ \A d \in Docs : req[d] \notin {"none", "resolve", "rejected", "cut"} => info[d] # 0
    /\ feed.pc # "next" => info[feed.doc] # 0

\* So is every row a worker or a split is bound to.
BoundRows ==
    /\ \A g \in Gens : wpc[g] # "none" => Known(target[g])
    /\ \A s \in Splits : split[s].state # "none" => Known(split[s].row)

RowInv == LiveRow /\ NodeRows /\ BoundRows

\* A row once known stays known: rows are numbered in the order of their
\* creation, and only the live one is retired.
LEMMA RowsKept ==
    ASSUME TypeOK, LiveRow, [Next]_vars
    PROVE  LiveRow' /\ \A k \in Nat : Known(k) => Known(k)'
<1> USE DEF TypeOK, MetaType, LiveRow, Known
<1>1. ASSUME EnsureStream \/ UNCHANGED live, UNCHANGED deletes
      PROVE  LiveRow' /\ \A k \in Nat : Known(k) => Known(k)'
  BY <1>1, Ensured, ZenonT(30)
<1>2. ASSUME live # 0, live' = 0, deletes' = deletes + 1
      PROVE  LiveRow' /\ \A k \in Nat : Known(k) => Known(k)'
  BY <1>2
<1>3. ASSUME NEW d \in Docs, StreamInfo(d) PROVE (EnsureStream \/ UNCHANGED live) /\ UNCHANGED deletes
  BY <1>3, Zenon DEF StreamInfo, boundVars
<1>4. ASSUME NEW d \in Docs, LookupWorker(d) PROVE (EnsureStream \/ UNCHANGED live) /\ UNCHANGED deletes
  BY <1>4, Zenon DEF LookupWorker, WorkerFor, boundVars
<1>5. ASSUME NEW d \in Docs, ReplayInfo(d) PROVE (EnsureStream \/ UNCHANGED live) /\ UNCHANGED deletes
  BY <1>5, Zenon DEF ReplayInfo, boundVars
<1>6. ASSUME ReplayLookup PROVE (EnsureStream \/ UNCHANGED live) /\ UNCHANGED deletes
  BY <1>6, Zenon DEF ReplayLookup, WorkerFor, boundVars
<1>7. ASSUME DeleteIndex PROVE live # 0 /\ live' = 0 /\ deletes' = deletes + 1
  BY <1>7, Zenon DEF DeleteIndex
<1> QED
  BY RowWriters, <1>1, <1>2, <1>3, <1>4, <1>5, <1>6, <1>7, Zenon

\* ensure_stream returns a known row.
LEMMA EnsuredKnown ==
    ASSUME TypeOK, LiveRow, EnsureStream
    PROVE  live' # 0 /\ (Known(live))'
BY Ensured, ZenonT(30) DEF TypeOK, MetaType, Known

----------------------------------------------------------------------------
(* Requests *)

\* What happens to a request: its own handler moves it one stage on, a worker
\* answers its refresh, or a crash cuts it.
Move(x) ==
    \/ req'[x] = req[x]
    \/ Begin(x) /\ req[x] = "none" /\ req'[x] = "resolve"
    \/ StreamInfo(x) /\ req[x] = "resolve" /\ req'[x] \in {"append", "resolved"}
    \/ StreamInfo(x) /\ req[x] = "enqueue" /\ req'[x] \in {"lookup", "reresolved"}
    \/ StoreInfo(x) /\ req[x] = "resolved" /\ req'[x] = "append"
    \/ StoreInfo(x) /\ req[x] = "reresolved" /\ req'[x] = "lookup"
    \/ AppendWal(x) /\ req[x] = "append" /\ req'[x] = "fsync"
    \/ AppendDone(x) /\ req[x] = "fsync" /\ req'[x] = "enqueue"
    \/ LookupWorker(x) /\ req[x] \in {"lookup", "relookup"} /\ req'[x] \in {"send", "resend"}
    \/ EnqueueError(x) /\ req[x] \in {"enqueue", "reresolved", "lookup", "relookup"} /\ req'[x] = "rejected"
    \/ /\ TrySend(x) /\ req[x] \in {"send", "resend"}
       /\ req'[x] \in {"relookup", "rejected", "refresh", "accepted"}
    \/ RefreshLookup(x) /\ req[x] = "refresh" /\ req'[x] \in {"refreshed", "cutting"}
    \/ RefreshSend(x) /\ req[x] = "cutting" /\ req'[x] \in {"refreshed", "waiting"}
    \/ RefreshTimeout(x) /\ req[x] \in {"cutting", "waiting"} /\ req'[x] = "accepted"
    \/ /\ req[x] = "waiting" /\ req'[x] = "refreshed"
       /\ \E g \in Gens : \/ Receive(g) \/ IdleClose(g) \/ ResolveLive(g) \/ ResolveDeleted(g)
                          \/ BuildNothing(g) \/ ConfirmBatch(g) \/ ResolveUnknown(g)
    \/ Crash /\ req[x] \notin Terminal \cup {"none"} /\ req'[x] = "cut"

\* No request moves in any other way.
LEMMA Moves ==
    ASSUME TypeOK, [Next]_vars, NEW x \in Docs
    PROVE  Move(x)
<1> USE DEF TypeOK, ReqType
<1>1. ASSUME NEW d \in Docs, Begin(d) PROVE Move(x)
  <2>1. CASE d = x
    BY <1>1, <2>1, ZenonT(30) DEF Begin, At, Goto, Move
  <2>2. CASE d # x
    BY <1>1, <2>2, ZenonT(30) DEF Begin, At, Goto, Move
  <2> QED  BY <2>1, <2>2, ZenonT(30)
<1>2. ASSUME NEW d \in Docs, StreamInfo(d) PROVE Move(x)
  <2>1. CASE d = x
    BY <1>2, <2>1, ZenonT(30) DEF StreamInfo, At, Goto, Move
  <2>2. CASE d # x
    BY <1>2, <2>2, ZenonT(30) DEF StreamInfo, At, Goto, Move
  <2> QED  BY <2>1, <2>2, ZenonT(30)
<1>3. ASSUME NEW d \in Docs, StoreInfo(d) PROVE Move(x)
  <2>1. CASE d = x
    BY <1>3, <2>1, ZenonT(30) DEF StoreInfo, At, Goto, Move
  <2>2. CASE d # x
    BY <1>3, <2>2, ZenonT(30) DEF StoreInfo, At, Goto, Move
  <2> QED  BY <2>1, <2>2, ZenonT(30)
<1>4. ASSUME NEW d \in Docs, AppendWal(d) PROVE Move(x)
  <2>1. CASE d = x
    BY <1>4, <2>1, ZenonT(30) DEF AppendWal, At, Goto, Move
  <2>2. CASE d # x
    BY <1>4, <2>2, ZenonT(30) DEF AppendWal, At, Goto, Move
  <2> QED  BY <2>1, <2>2, ZenonT(30)
<1>5. ASSUME NEW d \in Docs, AppendDone(d) PROVE Move(x)
  <2>1. CASE d = x
    BY <1>5, <2>1, ZenonT(30) DEF AppendDone, At, Goto, Move
  <2>2. CASE d # x
    BY <1>5, <2>2, ZenonT(30) DEF AppendDone, At, Goto, Move
  <2> QED  BY <2>1, <2>2, ZenonT(30)
<1>6. ASSUME NEW d \in Docs, LookupWorker(d) PROVE Move(x)
  <2>1. CASE d = x
    BY <1>6, <2>1, ZenonT(30) DEF LookupWorker, At, Goto, Move
  <2>2. CASE d # x
    BY <1>6, <2>2, ZenonT(30) DEF LookupWorker, At, Goto, Move
  <2> QED  BY <2>1, <2>2, ZenonT(30)
<1>7. ASSUME NEW d \in Docs, TrySend(d) PROVE Move(x)
  <2>1. CASE d = x
    BY <1>7, <2>1, ZenonT(30) DEF TrySend, At, Goto, Reject, Move
  <2>2. CASE d # x
    BY <1>7, <2>2, ZenonT(30) DEF TrySend, At, Goto, Reject, Move
  <2> QED  BY <2>1, <2>2, ZenonT(30)
<1>8. ASSUME NEW d \in Docs, RefreshLookup(d) PROVE Move(x)
  <2>1. CASE d = x
    BY <1>8, <2>1, ZenonT(30) DEF RefreshLookup, At, Goto, Move
  <2>2. CASE d # x
    BY <1>8, <2>2, ZenonT(30) DEF RefreshLookup, At, Goto, Move
  <2> QED  BY <2>1, <2>2, ZenonT(30)
<1>9. ASSUME NEW d \in Docs, RefreshSend(d) PROVE Move(x)
  <2>1. CASE d = x
    BY <1>9, <2>1, ZenonT(30) DEF RefreshSend, At, Goto, Move
  <2>2. CASE d # x
    BY <1>9, <2>2, ZenonT(30) DEF RefreshSend, At, Goto, Move
  <2> QED  BY <2>1, <2>2, ZenonT(30)
<1>10. ASSUME NEW d \in Docs, EnqueueError(d) PROVE Move(x)
  <2>1. CASE d = x
    BY <1>10, <2>1, ZenonT(30) DEF EnqueueError, At, Goto, Reject, Move
  <2>2. CASE d # x
    BY <1>10, <2>2, ZenonT(30) DEF EnqueueError, At, Goto, Reject, Move
  <2> QED  BY <2>1, <2>2, ZenonT(30)
<1>11. ASSUME NEW d \in Docs, RefreshTimeout(d) PROVE Move(x)
  <2>1. CASE d = x
    BY <1>11, <2>1, ZenonT(30) DEF RefreshTimeout, At, Goto, Move
  <2>2. CASE d # x
    BY <1>11, <2>2, ZenonT(30) DEF RefreshTimeout, At, Goto, Move
  <2> QED  BY <2>1, <2>2, ZenonT(30)
<1>12. ASSUME NEW g \in Gens, Receive(g) PROVE Move(x)
  <2>1. req'[x] = req[x] \/ (req[x] = "waiting" /\ req'[x] = "refreshed")
    BY <1>12, ZenonT(30) DEF Receive, Answer
  <2> QED  BY <1>12, <2>1, Zenon DEF Move
<1>13. ASSUME NEW g \in Gens, IdleClose(g) PROVE Move(x)
  <2>1. req'[x] = req[x] \/ (req[x] = "waiting" /\ req'[x] = "refreshed")
    BY <1>13, Retired, ZenonT(30) DEF Answer
  <2> QED  BY <1>13, <2>1, Zenon DEF Move
<1>14. ASSUME NEW g \in Gens, ResolveLive(g) PROVE Move(x)
  <2>1. req'[x] = req[x] \/ (req[x] = "waiting" /\ req'[x] = "refreshed")
    BY <1>14, ZenonT(30) DEF ResolveLive, DropStale, FinishFlush, Answer
  <2> QED  BY <1>14, <2>1, Zenon DEF Move
<1>15. ASSUME NEW g \in Gens, ResolveDeleted(g) PROVE Move(x)
  <2>1. req'[x] = req[x] \/ (req[x] = "waiting" /\ req'[x] = "refreshed")
    BY <1>15, ZenonT(30) DEF ResolveDeleted, FinishFlush, Answer
  <2> QED  BY <1>15, <2>1, Zenon DEF Move
<1>16. ASSUME NEW g \in Gens, BuildNothing(g) PROVE Move(x)
  <2>1. req'[x] = req[x] \/ (req[x] = "waiting" /\ req'[x] = "refreshed")
    BY <1>16, ZenonT(30) DEF BuildNothing, FinishFlush, Answer
  <2> QED  BY <1>16, <2>1, Zenon DEF Move
<1>17. ASSUME NEW g \in Gens, ConfirmBatch(g) PROVE Move(x)
  <2>1. req'[x] = req[x] \/ (req[x] = "waiting" /\ req'[x] = "refreshed")
    BY <1>17, ZenonT(30) DEF ConfirmBatch, FinishFlush, Answer
  <2> QED  BY <1>17, <2>1, Zenon DEF Move
<1>18. ASSUME NEW g \in Gens, ResolveUnknown(g) PROVE Move(x)
  <2>1. req'[x] = req[x] \/ (req[x] = "waiting" /\ req'[x] = "refreshed")
    BY <1>18, ZenonT(30) DEF ResolveUnknown, DropStale, FinishFlush, Answer
  <2> QED  BY <1>18, <2>1, Zenon DEF Move
<1>19. ASSUME Crash PROVE Move(x)
  BY <1>19, ZenonT(30) DEF Crash, Move
<1>20. ASSUME UNCHANGED req PROVE Move(x)
  BY <1>20, ZenonT(30) DEF Move
<1> QED  BY StageWriters, <1>1, <1>2, <1>3, <1>4, <1>5, <1>6, <1>7, <1>8, <1>9, <1>10, <1>11, <1>12, <1>13, <1>14, <1>15, <1>16, <1>17, <1>18, <1>19, <1>20, ZenonT(30)

----------------------------------------------------------------------------
(* Workers *)

\* A worker takes a step of its own.
Acts(g) == WorkerStep(g) \/ IdleUnpublish(g) \/ ResolveUnknown(g)

\* Only a worker that runs does.
LEMMA Running ==
    ASSUME NEW g \in Gens, Acts(g)
    PROVE  up /\ wpc[g] \in {"recv", "closing"} \cup Flushing
BY Zenon DEF Acts, WorkerStep, FlushStep, Receive, BatchDeadline, IdleClose, ResolveLive,
   ResolveDeleted, BuildNothing, Upload, StageSplit, PublishSplit, ConfirmBatch, IdleUnpublish,
   ResolveUnknown, Runs, Flushing

\* Nothing of a worker but its channel changes.
Still(g) ==
    /\ wpc'[g] = wpc[g] /\ target'[g] = target[g] /\ built'[g] = built[g]
    /\ buffer'[g] = buffer[g] /\ positions'[g] = positions[g]
    /\ batch'[g] = batch[g] /\ waiters'[g] = waiters[g]

\* A worker is started: it becomes the one in the map, bound to the live row.
Born(g) ==
    /\ (\E d \in Docs : LookupWorker(d)) \/ ReplayLookup
    /\ entry = 0 /\ entry' = g /\ EnsureStream
    /\ wpc[g] = "none" /\ wpc'[g] = "recv" /\ target'[g] = live' /\ built'[g] = built[g]
    /\ buffer'[g] = buffer[g] /\ positions'[g] = positions[g]
    /\ batch'[g] = batch[g] /\ waiters'[g] = waiters[g]

\* A worker changes only in its own steps, when it is started and in a crash.
LEMMA Workers ==
    ASSUME TypeOK, [Next]_vars, NEW h \in Gens
    PROVE  Still(h) \/ Acts(h) \/ Born(h) \/ Crash
<1> USE DEF TypeOK, WorkerType
<1>1. ASSUME UNCHANGED <<wpc, target, buffer, positions, batch, waiters, built>> PROVE Still(h)
  BY <1>1, Zenon DEF Still
<1>2. ASSUME NEW g \in Gens, Receive(g) PROVE Still(h) \/ Acts(h)
  <2>1. CASE g = h
    BY <1>2, <2>1, Zenon DEF Acts, WorkerStep
  <2>2. CASE g # h
    BY <1>2, <2>2, ZenonT(30) DEF Receive, StartFlush, Still
  <2> QED  BY <2>1, <2>2, ZenonT(30)
<1>3. ASSUME NEW g \in Gens, BatchDeadline(g) PROVE Still(h) \/ Acts(h)
  <2>1. CASE g = h
    BY <1>3, <2>1, Zenon DEF Acts, WorkerStep
  <2>2. CASE g # h
    BY <1>3, <2>2, ZenonT(30) DEF BatchDeadline, StartFlush, Still
  <2> QED  BY <2>1, <2>2, ZenonT(30)
<1>4. ASSUME NEW g \in Gens, IdleClose(g) PROVE Still(h) \/ Acts(h)
  <2>1. CASE g = h
    BY <1>4, <2>1, Zenon DEF Acts, WorkerStep
  <2>2. CASE g # h
    <3>1. UNCHANGED <<target, built>>
      BY <1>4, Zenon DEF IdleClose
    <3> QED  BY <1>4, <2>2, <3>1, Retired, ZenonT(30) DEF StartFlush, Still
  <2> QED  BY <2>1, <2>2, ZenonT(30)
<1>5. ASSUME NEW g \in Gens, ResolveLive(g) PROVE Still(h) \/ Acts(h)
  <2>1. CASE g = h
    BY <1>5, <2>1, Zenon DEF Acts, WorkerStep, FlushStep
  <2>2. CASE g # h
    BY <1>5, <2>2, ZenonT(30) DEF ResolveLive, DropStale, FinishFlush, Still
  <2> QED  BY <2>1, <2>2, ZenonT(30)
<1>6. ASSUME NEW g \in Gens, ResolveDeleted(g) PROVE Still(h) \/ Acts(h)
  <2>1. CASE g = h
    BY <1>6, <2>1, Zenon DEF Acts, WorkerStep, FlushStep
  <2>2. CASE g # h
    BY <1>6, <2>2, ZenonT(30) DEF ResolveDeleted, FinishFlush, Still
  <2> QED  BY <2>1, <2>2, ZenonT(30)
<1>7. ASSUME NEW g \in Gens, BuildNothing(g) PROVE Still(h) \/ Acts(h)
  <2>1. CASE g = h
    BY <1>7, <2>1, Zenon DEF Acts, WorkerStep, FlushStep
  <2>2. CASE g # h
    BY <1>7, <2>2, ZenonT(30) DEF BuildNothing, FinishFlush, Still
  <2> QED  BY <2>1, <2>2, ZenonT(30)
<1>8. ASSUME NEW g \in Gens, Upload(g) PROVE Still(h) \/ Acts(h)
  <2>1. CASE g = h
    BY <1>8, <2>1, Zenon DEF Acts, WorkerStep, FlushStep
  <2>2. CASE g # h
    BY <1>8, <2>2, ZenonT(30) DEF Upload, Retry, Still
  <2> QED  BY <2>1, <2>2, ZenonT(30)
<1>9. ASSUME NEW g \in Gens, StageSplit(g) PROVE Still(h) \/ Acts(h)
  <2>1. CASE g = h
    BY <1>9, <2>1, Zenon DEF Acts, WorkerStep, FlushStep
  <2>2. CASE g # h
    BY <1>9, <2>2, ZenonT(30) DEF StageSplit, Retry, Still
  <2> QED  BY <2>1, <2>2, ZenonT(30)
<1>10. ASSUME NEW g \in Gens, PublishSplit(g) PROVE Still(h) \/ Acts(h)
  <2>1. CASE g = h
    BY <1>10, <2>1, Zenon DEF Acts, WorkerStep, FlushStep
  <2>2. CASE g # h
    BY <1>10, <2>2, ZenonT(30) DEF PublishSplit, Retry, Still
  <2> QED  BY <2>1, <2>2, ZenonT(30)
<1>11. ASSUME NEW g \in Gens, ConfirmBatch(g) PROVE Still(h) \/ Acts(h)
  <2>1. CASE g = h
    BY <1>11, <2>1, Zenon DEF Acts, WorkerStep, FlushStep
  <2>2. CASE g # h
    BY <1>11, <2>2, ZenonT(30) DEF ConfirmBatch, FinishFlush, Still
  <2> QED  BY <2>1, <2>2, ZenonT(30)
<1>12. ASSUME NEW g \in Gens, IdleUnpublish(g) PROVE Still(h) \/ Acts(h)
  <2>1. CASE g = h
    BY <1>12, <2>1, Zenon DEF Acts
  <2>2. CASE g # h
    BY <1>12, <2>2, ZenonT(30) DEF IdleUnpublish, Still
  <2> QED  BY <2>1, <2>2, ZenonT(30)
<1>13. ASSUME NEW g \in Gens, ResolveUnknown(g) PROVE Still(h) \/ Acts(h)
  <2>1. CASE g = h
    BY <1>13, <2>1, Zenon DEF Acts
  <2>2. CASE g # h
    BY <1>13, <2>2, ZenonT(30) DEF ResolveUnknown, DropStale, FinishFlush, Still
  <2> QED  BY <2>1, <2>2, ZenonT(30)
<1>14. ASSUME NEW d, WorkerFor(d), UNCHANGED <<buffer, positions, batch, waiters, built>>,
             (\E x \in Docs : LookupWorker(x)) \/ ReplayLookup
      PROVE  Still(h) \/ Born(h)
  <2>1. CASE UNCHANGED <<wpc, target>>
    BY <1>14, <2>1, Zenon DEF Still
  <2>2. CASE /\ entry = 0 /\ EnsureStream /\ wpc[entry'] = "none" /\ entry' \in Gens
             /\ wpc' = [wpc EXCEPT ![entry'] = "recv"]
             /\ target' = [target EXCEPT ![entry'] = live']
    <3>1. CASE h = entry'
      BY <1>14, <2>2, <3>1, ZenonT(30) DEF Born
    <3>2. CASE h # entry'
      BY <1>14, <2>2, <3>2, ZenonT(30) DEF Still
    <3> QED  BY <3>1, <3>2, ZenonT(30)
  <2> QED  BY <1>14, <2>1, <2>2, Looked, ZenonT(30)
<1>15. ASSUME NEW d \in Docs, LookupWorker(d) PROVE Still(h) \/ Born(h)
  <2>1. WorkerFor(d) /\ UNCHANGED <<buffer, positions, batch, waiters, built>>
    BY <1>15, Zenon DEF LookupWorker
  <2> QED  BY <1>14, <1>15, <2>1, Zenon
<1>16. ASSUME ReplayLookup PROVE Still(h) \/ Born(h)
  <2>1. WorkerFor(feed.doc) /\ UNCHANGED <<buffer, positions, batch, waiters, built>>
    BY <1>16, Zenon DEF ReplayLookup
  <2> QED  BY <1>14, <1>16, <2>1, Zenon
<1>17. ASSUME NEW d \in Docs, TrySend(d) \/ RefreshSend(d)
      PROVE  UNCHANGED <<wpc, target, buffer, positions, batch, waiters, built>>
  BY <1>17, Zenon DEF TrySend, RefreshSend
<1>18. ASSUME ReplaySend PROVE UNCHANGED <<wpc, target, buffer, positions, batch, waiters, built>>
  BY <1>18, Zenon DEF ReplaySend
<1> QED
  BY WorkerWriters, <1>1, <1>2, <1>3, <1>4, <1>5, <1>6, <1>7, <1>8, <1>9, <1>10, <1>11, <1>12, <1>13, <1>15, <1>16, <1>17, <1>18, Zenon

\* What happens to a channel: a request sends to it, or the replay, its worker
\* receives, closes it and drains it, or the node crashes.
Channel(g) ==
    \/ queue'[g] = queue[g]
    \/ \E d \in Docs :
         /\ TrySend(d) /\ handle[d] = g /\ g \notin closed /\ req'[d] \in {"refresh", "accepted"}
         /\ queue'[g] = Append(queue[g], [kind |-> "doc", doc |-> d]) /\ UNCHANGED walVars
    \/ \E d \in Docs :
         /\ RefreshSend(d) /\ handle[d] = g /\ g \notin closed /\ req'[d] = "waiting"
         /\ queue'[g] = Append(queue[g], [kind |-> "flush", doc |-> d])
    \/ /\ ReplaySend /\ feed.doc \in Docs /\ handle[feed.doc] = g /\ g \notin closed
       /\ queue'[g] = Append(queue[g], [kind |-> "doc", doc |-> feed.doc]) /\ UNCHANGED walVars
    \/ Receive(g) /\ queue[g] # <<>> /\ queue'[g] = Tail(queue[g])
    \/ (IdleClose(g) \/ Crash) /\ queue'[g] = <<>>

\* Nothing else happens to a channel.
LEMMA Channels ==
    ASSUME TypeOK, [Next]_vars, NEW h \in Gens
    PROVE  Channel(h)
<1> USE DEF TypeOK, WorkerType
<1>1. ASSUME NEW d \in Docs, TrySend(d) PROVE Channel(h)
  <2>1. CASE UNCHANGED queue
    BY <2>1, Zenon DEF Channel
  <2>2. CASE /\ queue' = [queue EXCEPT ![handle[d]] = Append(@, [kind |-> "doc", doc |-> d])]
             /\ handle[d] \notin closed /\ UNCHANGED walVars
             /\ Goto(d, IF d \in plan.refreshing THEN "refresh" ELSE "accepted")
    <3>1. req'[d] \in {"refresh", "accepted"}
      BY <2>2, ZenonT(30) DEF Goto, ReqType
    <3>2. CASE h = handle[d]
      <4>1. queue'[h] = Append(queue[h], [kind |-> "doc", doc |-> d])
        BY <2>2, <3>2, ZenonT(30)
      <4> QED  BY <1>1, <2>2, <3>1, <3>2, <4>1, Zenon DEF Channel
    <3>3. CASE h # handle[d]
      <4>1. queue'[h] = queue[h]
        BY <2>2, <3>3, Zenon
      <4> QED  BY <4>1, Zenon DEF Channel
    <3> QED  BY <3>2, <3>3, ZenonT(30)
  <2> QED  BY <1>1, <2>1, <2>2, Zenon DEF TrySend
<1>2. ASSUME NEW d \in Docs, RefreshSend(d) PROVE Channel(h)
  <2>1. CASE UNCHANGED queue
    BY <2>1, Zenon DEF Channel
  <2>2. CASE /\ queue' = [queue EXCEPT ![handle[d]] = Append(@, [kind |-> "flush", doc |-> d])]
             /\ handle[d] \notin closed /\ Goto(d, "waiting")
    <3>1. req'[d] = "waiting"
      BY <2>2, ZenonT(30) DEF Goto, ReqType
    <3>2. CASE h = handle[d]
      <4>1. queue'[h] = Append(queue[h], [kind |-> "flush", doc |-> d])
        BY <2>2, <3>2, ZenonT(30)
      <4> QED  BY <1>2, <2>2, <3>1, <3>2, <4>1, Zenon DEF Channel
    <3>3. CASE h # handle[d]
      <4>1. queue'[h] = queue[h]
        BY <2>2, <3>3, Zenon
      <4> QED  BY <4>1, Zenon DEF Channel
    <3> QED  BY <3>2, <3>3, ZenonT(30)
  <2> QED  BY <1>2, <2>1, <2>2, Zenon DEF RefreshSend
<1>3. ASSUME ReplaySend PROVE Channel(h)
  <2>1. CASE UNCHANGED queue
    BY <2>1, Zenon DEF Channel
  <2>2. CASE /\ queue' = [queue EXCEPT ![handle[feed.doc]] = Append(@, [kind |-> "doc", doc |-> feed.doc])]
             /\ handle[feed.doc] \notin closed /\ UNCHANGED walVars
    <3>1. feed.doc \in Docs
      BY <1>3, ZenonT(30) DEF ReplaySend, NodeType, Feeds
    <3>2. CASE h = handle[feed.doc]
      <4>1. queue'[h] = Append(queue[h], [kind |-> "doc", doc |-> feed.doc])
        BY <2>2, <3>2, ZenonT(30)
      <4> QED  BY <1>3, <2>2, <3>1, <3>2, <4>1, Zenon DEF Channel
    <3>3. CASE h # handle[feed.doc]
      <4>1. queue'[h] = queue[h]
        BY <2>2, <3>3, Zenon
      <4> QED  BY <4>1, Zenon DEF Channel
    <3> QED  BY <3>2, <3>3, ZenonT(30)
  <2> QED  BY <1>3, <2>1, <2>2, Zenon DEF ReplaySend
<1>4. ASSUME NEW g \in Gens, Receive(g) PROVE Channel(h)
  <2>1. queue[g] # <<>> /\ queue' = [queue EXCEPT ![g] = Tail(@)]
    BY <1>4, Zenon DEF Receive
  <2> QED  BY <1>4, <2>1, Zenon DEF Channel
<1>5. ASSUME NEW g \in Gens, IdleClose(g) PROVE Channel(h)
  <2>1. queue' = [queue EXCEPT ![g] = <<>>]
    BY <1>5, Zenon DEF IdleClose
  <2> QED  BY <1>5, <2>1, Zenon DEF Channel
<1>6. ASSUME Crash PROVE Channel(h)
  <2>1. queue'[h] = <<>>
    BY <1>6, Zenon DEF Crash
  <2> QED  BY <1>6, <2>1, Zenon DEF Channel
<1>7. ASSUME UNCHANGED queue PROVE Channel(h)
  BY <1>7, Zenon DEF Channel
<1> QED  BY QueueWriters, <1>1, <1>2, <1>3, <1>4, <1>5, <1>6, <1>7, Zenon

\* The rows the node remembers stay known.
LEMMA NodeRowsStep ==
    ASSUME TypeOK, RowInv, [Next]_vars
    PROVE  NodeRows'
<1> USE DEF TypeOK, RowInv
<1>K. \A k \in Nat : Known(k) => Known(k)'
  BY RowsKept, ZenonT(30)
<1>S. ASSUME NEW d \in Docs, StreamInfo(d)
      PROVE  /\ info'[d] # 0 /\ Known(info[d])'
             /\ \A x \in Docs : x # d => info'[x] = info[x]
  <2>1. CASE cache # 0 /\ info' = [info EXCEPT ![d] = cache]
    BY <1>K, <2>1, ZenonT(30) DEF NodeRows, NodeType, ReqType
  <2>2. CASE EnsureStream /\ info' = [info EXCEPT ![d] = live']
    BY <2>2, EnsuredKnown, ZenonT(30) DEF ReqType
  <2> QED  BY <1>S, <2>1, <2>2, Zenon DEF StreamInfo
<1>R. ASSUME NEW d \in Docs, ReplayInfo(d)
      PROVE  /\ info'[d] # 0 /\ Known(info[d])'
             /\ \A x \in Docs : x # d => info'[x] = info[x]
             /\ cache' # 0 /\ Known(cache)' /\ feed'.doc = d
  <2>1. CASE cache # 0 /\ UNCHANGED <<live, cache>> /\ info' = [info EXCEPT ![d] = cache]
    <3>1. info'[d] # 0 /\ Known(info[d])' /\ \A x \in Docs : x # d => info'[x] = info[x]
      BY <1>K, <2>1, ZenonT(30) DEF NodeRows, NodeType, ReqType
    <3>2. cache' # 0 /\ Known(cache)'
      BY <1>K, <2>1, ZenonT(30) DEF NodeRows, NodeType
    <3> QED  BY <1>R, <3>1, <3>2, ZenonT(30) DEF ReplayInfo
  <2>2. CASE EnsureStream /\ cache' = live' /\ info' = [info EXCEPT ![d] = live']
    <3>1. info'[d] # 0 /\ Known(info[d])' /\ \A x \in Docs : x # d => info'[x] = info[x]
      BY <2>2, EnsuredKnown, ZenonT(30) DEF ReqType
    <3>2. cache' # 0 /\ Known(cache)'
      BY <2>2, EnsuredKnown, ZenonT(30)
    <3> QED  BY <1>R, <3>1, <3>2, ZenonT(30) DEF ReplayInfo
  <2> QED  BY <1>R, <2>1, <2>2, Zenon DEF ReplayInfo
<1>1. \A d \in Docs : info'[d] # 0 => Known(info[d])'
  <2>1. CASE UNCHANGED info
    BY <1>K, <2>1, ZenonT(30) DEF NodeRows, ReqType
  <2>2. ASSUME NEW d \in Docs, StreamInfo(d) \/ ReplayInfo(d), NEW x \in Docs, info'[x] # 0
        PROVE  Known(info[x])'
    <3>1. CASE x = d
      BY <1>S, <1>R, <2>2, <3>1, Zenon
    <3>2. CASE x # d
      <4>1. info'[x] = info[x]
        BY <1>S, <1>R, <2>2, <3>2, Zenon
      <4> QED  BY <1>K, <2>2, <4>1, ZenonT(30) DEF NodeRows, ReqType
    <3> QED  BY <3>1, <3>2, ZenonT(30)
  <2> QED  BY <2>1, <2>2, InfoWriters, Zenon
<1>2. \A d \in Docs : info[d] # 0 => info'[d] # 0
  BY <1>S, <1>R, InfoWriters, Zenon
<1>3. cache' # 0 => Known(cache)'
  <2>1. ASSUME NEW d \in Docs, StoreInfo(d) PROVE cache' # 0 => Known(cache)'
    <3>1. cache' = info[d]
      BY <2>1, Zenon DEF StoreInfo
    <3> QED  BY <1>K, <3>1, ZenonT(30) DEF NodeRows, ReqType
  <2>2. CASE UNCHANGED cache
    BY <1>K, <2>2, ZenonT(30) DEF NodeRows, NodeType
  <2>3. ASSUME NEW g \in Gens, ResolveLive(g) PROVE cache' = 0 \/ UNCHANGED cache
    BY <2>3, ZenonT(30) DEF ResolveLive
  <2>4. ASSUME NEW g \in Gens, ResolveDeleted(g) PROVE cache' = 0
    BY <2>4, Zenon DEF ResolveDeleted
  <2>5. ASSUME ExpireInfo \/ ForgetStream \/ Crash PROVE cache' = 0
    BY <2>5, Zenon DEF ExpireInfo, ForgetStream, Crash
  <2> QED  BY <1>R, <2>1, <2>2, <2>3, <2>4, <2>5, CacheWriters, Zenon
<1>4. ASSUME NEW x \in Docs, req'[x] \notin {"none", "resolve", "rejected", "cut"}
      PROVE  info'[x] # 0
  <2>1. CASE req[x] \notin {"none", "resolve", "rejected", "cut"}
    BY <1>2, <2>1, ZenonT(30) DEF NodeRows
  <2>2. CASE StreamInfo(x)
    BY <1>S, <2>2, ZenonT(30)
  <2>3. req[x] \notin {"none", "resolve", "rejected", "cut"} \/ StreamInfo(x)
    BY <1>4, Moves, ZenonT(30) DEF Move, Terminal
  <2> QED  BY <2>1, <2>2, <2>3, ZenonT(30)
<1>5. feed'.pc # "next" => info'[feed'.doc] # 0
  <2>1. ASSUME NEW d \in Docs, ReplayInfo(d) PROVE info'[feed'.doc] # 0
    BY <1>R, <2>1, ZenonT(30)
  <2>2. ASSUME UNCHANGED feed, feed.pc # "next" PROVE info'[feed'.doc] # 0
    BY <1>2, <2>2, ZenonT(30) DEF NodeRows, NodeType, Feeds
  <2>3. ASSUME ReplayLookup PROVE info'[feed'.doc] # 0
    <3>1. feed.pc # "next" /\ feed'.doc = feed.doc
      BY <2>3, ZenonT(30) DEF ReplayLookup, NodeType, Feeds
    <3> QED  BY <1>2, <3>1, ZenonT(30) DEF NodeRows, NodeType, Feeds
  <2>4. ASSUME Crash \/ ReplaySend PROVE feed'.pc = "next"
    BY <2>4 DEF Crash, ReplaySend
  <2>5. ASSUME Restart PROVE UNCHANGED feed
    BY <2>5, Zenon DEF Restart
  <2> QED  BY <2>1, <2>2, <2>3, <2>4, <2>5, ReplayWriters, Zenon
<1> QED  BY <1>1, <1>3, <1>4, <1>5, Zenon DEF NodeRows

----------------------------------------------------------------------------
(* Splits *)

\* What happens to the row of a split: staged and published by the worker that
\* built it, marked by a deletion, a purge or the orphan sweep, and deleted by
\* GC once its object is gone.
Lifecycle(s) ==
    \/ split'[s] = split[s]
    \/ \E g \in Gens :
         /\ StageSplit(g) /\ s = built[g] /\ split'[s].state = "staged"
         /\ split'[s].row = target[g] /\ split'[s].docs = batch[g] \ plan.poison
    \/ /\ split'[s].row = split[s].row /\ split'[s].docs = split[s].docs
       /\ \/ /\ \E g \in Gens : PublishSplit(g) /\ s = built[g]
             /\ split[s].state = "staged" /\ split'[s].state = "published"
          \/ split[s].state \in {"staged", "published"} /\ split'[s].state = "marked"
          \/ split[s].state = "marked" /\ split'[s].state = "deleted"

\* Nothing else happens to the row of a split.
LEMMA Lifecycles ==
    ASSUME TypeOK, [Next]_vars, NEW s \in Splits
    PROVE  Lifecycle(s)
<1> USE DEF TypeOK, MetaType
<1>1. ASSUME NEW S \in SUBSET Splits, Mark(S), S \subseteq Unmarked PROVE Lifecycle(s)
  BY <1>1, Marked, ZenonT(30) DEF Lifecycle, Unmarked
<1>2. ASSUME NEW g \in Gens, StageSplit(g) PROVE Lifecycle(s)
  <2>1. CASE split' = [split EXCEPT ![built[g]] =
                         [state |-> "staged", row |-> target[g], docs |-> batch[g] \ plan.poison]]
    <3>1. CASE s = built[g]
      <4>1. split'[s] = [state |-> "staged", row |-> target[g], docs |-> batch[g] \ plan.poison]
        BY <2>1, <3>1, ZenonT(30)
      <4>2. /\ split'[s].state = "staged" /\ split'[s].row = target[g]
            /\ split'[s].docs = batch[g] \ plan.poison
        BY <4>1
      <4> QED  BY <1>2, <3>1, <4>2, ZenonT(30) DEF Lifecycle
    <3>2. CASE s # built[g]
      BY <2>1, <3>2, ZenonT(30) DEF Lifecycle
    <3> QED  BY <3>1, <3>2, ZenonT(30)
  <2> QED  BY <1>2, <2>1, ZenonT(30) DEF StageSplit, Lifecycle
<1>3. ASSUME NEW g \in Gens, PublishSplit(g) PROVE Lifecycle(s)
  <2>1. CASE /\ split' = [split EXCEPT ![built[g]].state = "published"]
             /\ split[built[g]].state = "staged"
    <3>1. CASE s = built[g]
      <4>1. /\ split'[s].row = split[s].row /\ split'[s].docs = split[s].docs
            /\ split'[s].state = "published"
        BY <2>1, <3>1, Moved, ZenonT(30) DEF States
      <4> QED  BY <1>3, <2>1, <3>1, <4>1, ZenonT(30) DEF Lifecycle
    <3>2. CASE s # built[g]
      BY <2>1, <3>2, ZenonT(30) DEF Lifecycle
    <3> QED  BY <3>1, <3>2, ZenonT(30)
  <2> QED  BY <1>3, <2>1, ZenonT(30) DEF PublishSplit, Lifecycle
<1>4. ASSUME NEW x \in Splits, GcRow(x) PROVE Lifecycle(s)
  <2>1. split' = [split EXCEPT ![x].state = "deleted"] /\ split[x].state = "marked"
    BY <1>4, ZenonT(30) DEF GcRow, GcCandidate
  <2>2. CASE s = x
    BY <2>1, <2>2, Moved, ZenonT(30) DEF Lifecycle, States
  <2>3. CASE s # x
    BY <2>1, <2>3, ZenonT(30) DEF Lifecycle
  <2> QED  BY <2>2, <2>3, ZenonT(30)
<1>5. ASSUME DeleteIndex \/ PurgeStreams \/ SweepMark
      PROVE  \E S \in SUBSET Splits : Mark(S) /\ S \subseteq Unmarked
  BY <1>5, ZenonT(30) DEF DeleteIndex, PurgeStreams, SweepMark, Unmarked
<1> QED  BY SplitWriters, <1>1, <1>2, <1>3, <1>4, <1>5, ZenonT(30) DEF Lifecycle

\* So do the rows of workers and splits.
LEMMA BoundRowsStep ==
    ASSUME TypeOK, RowInv, [Next]_vars
    PROVE  BoundRows'
<1> USE DEF TypeOK, RowInv
<1>K. \A k \in Nat : Known(k) => Known(k)'
  BY RowsKept, ZenonT(30)
<1>1. ASSUME NEW g \in Gens, wpc'[g] # "none" PROVE Known(target[g])'
  <2>1. ASSUME target'[g] = target[g], wpc[g] # "none" PROVE Known(target[g])'
    BY <1>K, <2>1, ZenonT(30) DEF BoundRows, WorkerType
  <2>2. CASE Still(g)
    BY <1>1, <2>1, <2>2, ZenonT(30) DEF Still
  <2>3. CASE Born(g)
    BY <2>3, EnsuredKnown, ZenonT(30) DEF Born
  <2>4. CASE Crash
    <3>1. target' = target /\ wpc[g] # "none"
      BY <1>1, <2>4, ZenonT(30) DEF Crash
    <3> QED  BY <2>1, <3>1, ZenonT(30)
  <2>5. CASE Acts(g)
    <3>1. CASE ResolveLive(g)
      <4>1. live # 0 /\ target' = [target EXCEPT ![g] = live]
        BY <3>1, Zenon DEF ResolveLive
      <4>2. Known(live)
        BY <4>1, ZenonT(30) DEF Known
      <4> QED  BY <1>K, <4>1, <4>2, ZenonT(30) DEF WorkerType, MetaType
    <3>2. CASE ~ResolveLive(g)
      <4>1. target' = target
        BY <2>5, <3>2, Zenon DEF Acts, WorkerStep, FlushStep, Receive, BatchDeadline, IdleClose,
           ResolveDeleted, BuildNothing, Upload, StageSplit, PublishSplit, ConfirmBatch,
           IdleUnpublish, ResolveUnknown
      <4>2. wpc[g] # "none"
        BY <2>5, Running, ZenonT(30) DEF Flushing
      <4> QED  BY <2>1, <4>1, <4>2, ZenonT(30)
    <3> QED  BY <3>1, <3>2, ZenonT(30)
  <2> QED  BY <2>2, <2>3, <2>4, <2>5, Workers, ZenonT(30)
<1>2. ASSUME NEW s \in Splits, split'[s].state # "none" PROVE Known(split[s].row)'
  <2>1. CASE split'[s].row = split[s].row /\ split[s].state # "none"
    BY <1>K, <2>1, ZenonT(30) DEF BoundRows, MetaType, SplitRows
  <2>2. ASSUME NEW g \in Gens, StageSplit(g), split'[s].row = target[g] PROVE Known(split[s].row)'
    <3>1. Known(target[g])
      BY <2>2, ZenonT(30) DEF StageSplit, Runs, BoundRows
    <3> QED  BY <1>K, <2>2, <3>1, ZenonT(30) DEF WorkerType
  <2> QED  BY <1>2, <2>1, <2>2, Lifecycles, ZenonT(30) DEF Lifecycle
<1> QED  BY <1>1, <1>2, ZenonT(30) DEF BoundRows

\* The rows start known.
LEMMA InitRows == Init => RowInv
BY DEF Init, RowInv, LiveRow, NodeRows, BoundRows, NoSplit

----------------------------------------------------------------------------
(* Split files *)

\* Splits are numbered in the order they are built.
Used == {s \in Splits : split[s] # NoSplit \/ s \in objects}
Numbered == \E n \in 0 .. MaxSplits : Used = 1 .. n

\* A split that may still be published or is published has its file.
Filed ==
    \A s \in Splits :
        /\ split[s].state = "none" => split[s] = NoSplit
        /\ split[s].state \in {"staged", "published"} => s \in objects

\* What a worker knows of the split it carries: before the insert there is
\* its file and no row, and after it the row is the worker's own.
Staging(g) ==
    wpc[g] = "stage" => split[built[g]] = NoSplit /\ built[g] \in objects
Publishing(g) ==
    wpc[g] = "publish" =>
        /\ split[built[g]].state # "none"
        /\ split[built[g]].docs = batch[g] \ plan.poison /\ split[built[g]].row = target[g]
Confirming(g) ==
    wpc[g] = "confirm" => batch[g] \ plan.poison \subseteq indexed

\* No two workers carry the same split.
OwnSplit ==
    \A g, h \in Gens :
        wpc[g] \in {"stage", "publish"} /\ wpc[h] \in {"stage", "publish"} /\ g # h
        => built[g] # built[h]

SplitInv ==
    /\ Numbered /\ Filed /\ OwnSplit
    /\ \A g \in Gens : Staging(g) /\ Publishing(g) /\ Confirming(g)

\* The documents the indexer skips, those sent with ?refresh and the kinds of
\* error are fixed.
LEMMA PlanKept ==
    ASSUME TypeOK, [Next]_vars
    PROVE  /\ plan'.poison = plan.poison /\ plan'.refreshing = plan.refreshing
           /\ plan'.kinds = plan.kinds
<1>1. ASSUME NEW kind, Fault(kind)
      PROVE  /\ plan'.poison = plan.poison /\ plan'.refreshing = plan.refreshing
             /\ plan'.kinds = plan.kinds
  BY <1>1, FaultPlan, ZenonT(30) DEF TypeOK, BoundType
<1> QED  BY <1>1, PlanWriters, ZenonT(30)
   DEF EnqueueError, Upload, StageSplit, PublishSplit, ResolveUnknown, SweepList, NoFault

\* Which step takes a worker where.
LEMMA Arrivals ==
    ASSUME WorkerType, NEW g \in Gens, Acts(g)
    PROVE  /\ wpc'[g] \in {"recv", "closing", "gone"} \cup Flushing
           /\ wpc'[g] = "stage" => Upload(g)
           /\ wpc'[g] = "publish" => StageSplit(g)
           /\ wpc'[g] = "confirm" => PublishSplit(g)
           /\ wpc'[g] = "build" => ResolveLive(g) \/ ResolveUnknown(g)
           /\ wpc'[g] = "closing" => IdleUnpublish(g)
<1> USE DEF WorkerType, Flushing
<1>1. CASE Receive(g)
  BY <1>1, ZenonT(30) DEF Receive, StartFlush, Runs
<1>2. CASE BatchDeadline(g)
  BY <1>2, ZenonT(30) DEF BatchDeadline, StartFlush
<1>3. CASE IdleClose(g)
  BY <1>3, Retired, ZenonT(30) DEF StartFlush
<1>4. CASE ResolveLive(g) \/ ResolveUnknown(g)
  BY <1>4, ZenonT(30) DEF ResolveLive, ResolveUnknown, DropStale, FinishFlush
<1>5. CASE ResolveDeleted(g) \/ BuildNothing(g) \/ ConfirmBatch(g)
  BY <1>5, ZenonT(30) DEF ResolveDeleted, BuildNothing, ConfirmBatch, FinishFlush
<1>6. CASE Upload(g)
  BY <1>6, ZenonT(30) DEF Upload, Retry
<1>7. CASE StageSplit(g)
  BY <1>7, ZenonT(30) DEF StageSplit, Retry
<1>8. CASE PublishSplit(g)
  BY <1>8, ZenonT(30) DEF PublishSplit, Retry
<1>9. CASE IdleUnpublish(g)
  BY <1>9, ZenonT(30) DEF IdleUnpublish
<1> QED  BY <1>1, <1>2, <1>3, <1>4, <1>5, <1>6, <1>7, <1>8, <1>9, Zenon DEF Acts, WorkerStep, FlushStep

\* A file is only ever taken from a marked split.
LEMMA ObjectsKept ==
    ASSUME TypeOK, [Next]_vars, NEW s \in objects, split[s].state # "marked"
    PROVE  s \in objects'
BY ObjectWriters, Zenon DEF Upload, GcObject, GcCandidate

\* A split in use stays in use.
LEMMA UsedKept ==
    ASSUME TypeOK, [Next]_vars
    PROVE  Used \subseteq Used'
<1> SUFFICES ASSUME NEW s \in Used PROVE s \in Used'
  OBVIOUS
<1>1. s \in Splits
  BY ZenonT(30) DEF Used
<1>2. CASE split'[s].state # "none"
  BY <1>1, <1>2 DEF Used, NoSplit
<1>3. CASE split'[s].state = "none"
  <2>1. split'[s] = split[s]
    BY <1>1, <1>3, Lifecycles, ZenonT(30) DEF Lifecycle
  <2>2. s \in objects => s \in objects'
    BY <1>3, <2>1, ObjectsKept, ZenonT(30)
  <2> QED  BY <2>1, <2>2, <1>1, ZenonT(30) DEF Used
<1> QED  BY <1>2, <1>3, ZenonT(30)

\* The file of a new split is a new one.
LEMMA Uploaded ==
    ASSUME TypeOK, Numbered, NEW g \in Gens, Upload(g), wpc'[g] = "stage"
    PROVE  /\ built'[g] \in Splits \ Used /\ objects' = objects \cup {built'[g]}
           /\ UNCHANGED split /\ Used' = Used \cup {built'[g]} /\ Numbered'
<1>1. PICK s \in Splits : /\ s = Cardinality(Used) + 1 /\ built' = [built EXCEPT ![g] = s]
                          /\ objects' = objects \cup {s}
  <2>1. ~ Retry(g)
    BY ZenonT(30) DEF Retry, TypeOK, WorkerType
  <2> QED  BY <2>1, Zenon DEF Upload, Used
<1>2. built'[g] = s /\ UNCHANGED split
  BY <1>1, Zenon DEF TypeOK, WorkerType, Upload
<1>3. PICK n \in 0 .. MaxSplits : Used = 1 .. n
  BY ZenonT(30) DEF Numbered
<1>4. s = n + 1
  <2>1. Cardinality(1 .. n) = IF 1 > n THEN 0 ELSE n - 1 + 1
    BY FS_Interval
  <2> QED  BY <1>1, <1>3, <2>1
<1>5. Used' = Used \cup {s}
  BY <1>1, <1>2, Zenon DEF Used
<1>6. Used' = 1 .. (n + 1) /\ s \notin Used /\ n + 1 \in 0 .. MaxSplits
  BY <1>3, <1>4, <1>5, PipelineAssumption DEF Splits
<1>7. Numbered'
  BY <1>6, ZenonT(30) DEF Numbered
<1> QED  BY <1>1, <1>2, <1>5, <1>6, <1>7, ZenonT(30)

\* Splits stay numbered.
LEMMA NumberedStep ==
    ASSUME TypeOK, SplitInv, [Next]_vars
    PROVE  Numbered'
<1>1. CASE Used' = Used
  BY <1>1, Zenon DEF SplitInv, Numbered
<1>2. ASSUME NEW s \in Used', s \notin Used
      PROVE  \E g \in Gens : Upload(g) /\ wpc'[g] = "stage"
  <2>1. s \in Splits /\ s \notin objects
    BY <1>2, ZenonT(30) DEF Used
  <2>2. split[s] = NoSplit
    BY <1>2, <2>1, ZenonT(30) DEF Used
  <2>3. split'[s] = split[s]
    <3>1. split[s].state = "none"
      BY <2>2 DEF NoSplit
    <3>2. ASSUME NEW g \in Gens, StageSplit(g), s = built[g] PROVE FALSE
      BY <2>1, <3>2, Zenon DEF SplitInv, Staging, StageSplit, Runs
    <3> QED  BY <2>1, <3>1, <3>2, Lifecycles, ZenonT(30) DEF Lifecycle
  <2>4. s \in objects'
    BY <1>2, <2>2, <2>3, ZenonT(30) DEF Used
  <2>5. PICK g \in Gens : Upload(g)
    BY <2>1, <2>4, ObjectWriters, Zenon DEF GcObject
  <2>6. wpc'[g] = "stage"
    BY <2>1, <2>4, <2>5, ZenonT(30) DEF Upload, TypeOK, WorkerType
  <2> QED  BY <2>5, <2>6, ZenonT(30)
<1> QED  BY <1>1, <1>2, UsedKept, Uploaded, ZenonT(30) DEF SplitInv

\* A split keeps its file until it is marked.
LEMMA FiledStep ==
    ASSUME TypeOK, SplitInv, [Next]_vars
    PROVE  Filed'
<1> SUFFICES ASSUME NEW s \in Splits
             PROVE  /\ split'[s].state = "none" => split'[s] = NoSplit
                    /\ split'[s].state \in {"staged", "published"} => s \in objects'
  BY Zenon DEF Filed
<1>1. split'[s].state = "none" => split'[s] = NoSplit
  BY Lifecycles, ZenonT(30) DEF Lifecycle, SplitInv, Filed
<1>2. ASSUME split'[s].state \in {"staged", "published"} PROVE s \in objects /\ split[s].state # "marked"
  <2>1. CASE split[s].state \in {"staged", "published"}
    BY <2>1, Zenon DEF SplitInv, Filed
  <2>2. ASSUME NEW g \in Gens, StageSplit(g), s = built[g]
        PROVE  s \in objects /\ split[s].state = "none"
    BY <2>2 DEF SplitInv, Staging, StageSplit, Runs, NoSplit
  <2> QED  BY <1>2, <2>1, <2>2, Lifecycles, ZenonT(30) DEF Lifecycle
<1> QED  BY <1>1, <1>2, ObjectsKept, ZenonT(30)

\* The split a worker is about to stage stays its own ...
LEMMA StagingStep ==
    ASSUME TypeOK, SplitInv, [Next]_vars, NEW g \in Gens
    PROVE  Staging(g)'
<1> SUFFICES ASSUME wpc'[g] = "stage" PROVE split'[built'[g]] = NoSplit /\ built'[g] \in objects'
  BY Zenon DEF Staging
<1>1. CASE Still(g)
  <2>1. wpc[g] = "stage" /\ built'[g] = built[g]
    BY <1>1, ZenonT(30) DEF Still
  <2>2. built[g] \in Splits /\ split[built[g]] = NoSplit /\ built[g] \in objects
    BY <2>1, Zenon DEF TypeOK, BuiltType, SplitInv, Staging
  <2>3. split[built[g]].state = "none"
    BY <2>2 DEF NoSplit
  <2>4. ASSUME NEW h \in Gens, StageSplit(h), built[g] = built[h] PROVE FALSE
    <3>1. wpc[h] = "stage"
      BY <2>4, Zenon DEF StageSplit, Runs
    <3>2. h = g
      BY <2>1, <2>4, <3>1, ZenonT(30) DEF SplitInv, OwnSplit
    <3> QED  BY <2>4, <3>2, ZenonT(30) DEF StageSplit, Retry, TypeOK, WorkerType
  <2>5. split'[built[g]] = split[built[g]]
    BY <2>2, <2>3, <2>4, Lifecycles, ZenonT(30) DEF Lifecycle
  <2> QED  BY <2>1, <2>2, <2>3, <2>5, ObjectsKept, ZenonT(30)
<1>2. CASE Acts(g)
  <2>1. Upload(g)
    BY <1>2, Arrivals, Zenon DEF TypeOK
  <2>2. /\ built'[g] \in Splits \ Used /\ objects' = objects \cup {built'[g]}
        /\ UNCHANGED split
    BY <2>1, Uploaded, ZenonT(30) DEF SplitInv
  <2> QED  BY <2>2, ZenonT(30) DEF Used
<1>3. CASE Born(g)
  BY <1>3, ZenonT(30) DEF Born
<1>4. CASE Crash
  BY <1>4, ZenonT(30) DEF Crash
<1> QED  BY <1>1, <1>2, <1>3, <1>4, Workers, ZenonT(30)

\* ... and so does the one it is about to publish.
LEMMA PublishingStep ==
    ASSUME TypeOK, SplitInv, [Next]_vars, NEW g \in Gens
    PROVE  Publishing(g)'
<1> SUFFICES ASSUME wpc'[g] = "publish"
             PROVE  /\ split'[built'[g]].state # "none"
                    /\ split'[built'[g]].docs = batch'[g] \ plan'.poison
                    /\ split'[built'[g]].row = target'[g]
  BY Zenon DEF Publishing
<1>P. plan'.poison = plan.poison
  BY PlanKept, ZenonT(30)
<1>1. CASE Still(g)
  <2>1. wpc[g] = "publish" /\ built'[g] = built[g] /\ batch'[g] = batch[g] /\ target'[g] = target[g]
    BY <1>1, Zenon DEF Still
  <2>2. /\ built[g] \in Splits /\ split[built[g]].state # "none"
        /\ split[built[g]].docs = batch[g] \ plan.poison /\ split[built[g]].row = target[g]
    BY <2>1, Zenon DEF TypeOK, BuiltType, SplitInv, Publishing
  <2>3. ASSUME NEW h \in Gens, StageSplit(h), built[g] = built[h] PROVE FALSE
    <3>1. wpc[h] = "stage"
      BY <2>3, Zenon DEF StageSplit, Runs
    <3> QED  BY <2>1, <2>3, <3>1, ZenonT(30) DEF SplitInv, OwnSplit
  <2>4. /\ split'[built[g]].state # "none" /\ split'[built[g]].row = split[built[g]].row
        /\ split'[built[g]].docs = split[built[g]].docs
    BY <2>2, <2>3, Lifecycles, ZenonT(30) DEF Lifecycle
  <2> QED  BY <1>P, <2>1, <2>2, <2>4, ZenonT(30)
<1>2. CASE Acts(g)
  <2>1. StageSplit(g)
    BY <1>2, Arrivals, Zenon DEF TypeOK
  <2>2. built[g] \in Splits
    BY <2>1, Zenon DEF StageSplit, Runs, TypeOK, BuiltType
  <2>3. ~ Retry(g)
    BY ZenonT(30) DEF Retry, TypeOK, WorkerType
  <2>4. /\ UNCHANGED <<built, batch, target>>
        /\ split' = [split EXCEPT ![built[g]] =
                       [state |-> "staged", row |-> target[g], docs |-> batch[g] \ plan.poison]]
    BY <2>1, <2>3, Zenon DEF StageSplit
  <2>5. split'[built[g]] = [state |-> "staged", row |-> target[g], docs |-> batch[g] \ plan.poison]
    BY <2>2, <2>4, Zenon DEF TypeOK, MetaType
  <2> QED  BY <1>P, <2>4, <2>5
<1>3. CASE Born(g)
  BY <1>3, ZenonT(30) DEF Born
<1>4. CASE Crash
  BY <1>4, ZenonT(30) DEF Crash
<1> QED  BY <1>1, <1>2, <1>3, <1>4, Workers, ZenonT(30)

\* A batch is confirmed after its documents are in a published split.
LEMMA ConfirmingStep ==
    ASSUME TypeOK, SplitInv, [Next]_vars, NEW g \in Gens
    PROVE  Confirming(g)'
<1> SUFFICES ASSUME wpc'[g] = "confirm" PROVE batch'[g] \ plan'.poison \subseteq indexed'
  BY Zenon DEF Confirming
<1>P. plan'.poison = plan.poison
  BY PlanKept, ZenonT(30)
<1>I. indexed \subseteq indexed'
  BY IndexedWriters, Zenon DEF PublishSplit
<1>1. CASE Still(g)
  BY <1>1, <1>P, <1>I, ZenonT(30) DEF Still, SplitInv, Confirming
<1>2. CASE Acts(g)
  <2>1. PublishSplit(g)
    BY <1>2, Arrivals, Zenon DEF TypeOK
  <2>2. ~ Retry(g)
    BY ZenonT(30) DEF Retry, TypeOK, WorkerType
  <2>3. indexed' = indexed \cup split[built[g]].docs /\ wpc[g] = "publish" /\ UNCHANGED batch
    BY <2>1, <2>2, Zenon DEF PublishSplit, Runs
  <2>4. split[built[g]].docs = batch[g] \ plan.poison
    BY <2>3, Zenon DEF SplitInv, Publishing
  <2> QED  BY <1>P, <2>3, <2>4, ZenonT(30)
<1>3. CASE Born(g)
  BY <1>3, ZenonT(30) DEF Born
<1>4. CASE Crash
  BY <1>4, ZenonT(30) DEF Crash
<1> QED  BY <1>1, <1>2, <1>3, <1>4, Workers, ZenonT(30)

\* A worker that carries a split carries one in use.
LEMMA CarriedUsed ==
    ASSUME TypeOK, SplitInv, NEW g \in Gens, wpc[g] \in {"stage", "publish"}
    PROVE  built[g] \in Used
<1>1. built[g] \in Splits
  BY ZenonT(30) DEF TypeOK, BuiltType
<1>2. CASE wpc[g] = "stage"
  BY <1>1, <1>2, Zenon DEF SplitInv, Staging, Used
<1>3. CASE wpc[g] = "publish"
  BY <1>1, <1>3 DEF SplitInv, Publishing, Used, NoSplit
<1> QED  BY <1>2, <1>3, ZenonT(30)

\* A worker carries the split it carried, or one it just built.
LEMMA Carried ==
    ASSUME TypeOK, SplitInv, [Next]_vars, NEW g \in Gens, wpc'[g] \in {"stage", "publish"}
    PROVE  \/ wpc[g] \in {"stage", "publish"} /\ built'[g] = built[g]
           \/ Upload(g) /\ wpc'[g] = "stage"
<1>1. CASE Still(g)
  BY <1>1, ZenonT(30) DEF Still
<1>2. CASE Acts(g)
  <2>1. CASE wpc'[g] = "publish"
    <3>1. StageSplit(g)
      BY <1>2, <2>1, Arrivals, Zenon DEF TypeOK
    <3>2. ~ Retry(g)
      BY ZenonT(30) DEF Retry, TypeOK, WorkerType
    <3> QED  BY <3>1, <3>2, Zenon DEF StageSplit, Runs
  <2> QED  BY <1>2, <2>1, Arrivals, Zenon DEF TypeOK
<1>3. CASE Born(g)
  BY <1>3, ZenonT(30) DEF Born
<1>4. CASE Crash
  BY <1>4, ZenonT(30) DEF Crash
<1> QED  BY <1>1, <1>2, <1>3, <1>4, Workers, ZenonT(30)

\* Two workers never come to carry the same split.
LEMMA OwnSplitStep ==
    ASSUME TypeOK, SplitInv, [Next]_vars
    PROVE  OwnSplit'
<1> SUFFICES ASSUME NEW g \in Gens, NEW h \in Gens, g # h,
                    wpc'[g] \in {"stage", "publish"}, wpc'[h] \in {"stage", "publish"}
             PROVE  built'[g] # built'[h]
  BY Zenon DEF OwnSplit
<1>1. ASSUME NEW a \in Gens, NEW b \in Gens, a # b, Upload(a), wpc'[a] = "stage",
             wpc'[b] \in {"stage", "publish"}
      PROVE  built'[a] # built'[b]
  <2>1. wpc'[b] = wpc[b] /\ built'[b] = built[b]
    BY <1>1, ZenonT(30) DEF Upload, Retry, TypeOK, WorkerType
  <2>2. built[b] \in Used
    BY <1>1, <2>1, CarriedUsed, ZenonT(30)
  <2>3. built'[a] \notin Used
    BY <1>1, Uploaded, ZenonT(30) DEF SplitInv
  <2> QED  BY <2>1, <2>2, <2>3, ZenonT(30)
<1>2. CASE Upload(g) /\ wpc'[g] = "stage"
  BY <1>1, <1>2, ZenonT(30)
<1>3. CASE Upload(h) /\ wpc'[h] = "stage"
  BY <1>1, <1>3, ZenonT(30)
<1>4. CASE /\ wpc[g] \in {"stage", "publish"} /\ built'[g] = built[g]
           /\ wpc[h] \in {"stage", "publish"} /\ built'[h] = built[h]
  BY <1>4, Zenon DEF SplitInv, OwnSplit
<1> QED  BY <1>2, <1>3, <1>4, Carried, Zenon

\* No split is in use when the pipeline starts.
LEMMA InitSplits == Init => SplitInv
<1> SUFFICES ASSUME Init PROVE SplitInv
  OBVIOUS
<1>1. Used = 1 .. 0
  BY DEF Init, Used
<1>2. Numbered
  BY <1>1, PipelineAssumption DEF Numbered
<1> QED  BY <1>2, ZenonT(30) DEF Init, SplitInv, Filed, OwnSplit, Staging, Publishing, Confirming, NoSplit

\* Rows, splits and their files, together.
PipelineInv == TypeOK /\ RowInv /\ SplitInv

\* Every step keeps them.
LEMMA PipelineStep == PipelineInv /\ [Next]_vars => PipelineInv'
<1> SUFFICES ASSUME PipelineInv, [Next]_vars PROVE PipelineInv'
  OBVIOUS
<1>1. TypeOK' /\ RowInv'
  BY TypeStep, RowsKept, NodeRowsStep, BoundRowsStep, Zenon DEF RowInv, PipelineInv
<1>2. \A g \in Gens : Staging(g)' /\ Publishing(g)' /\ Confirming(g)'
  BY StagingStep, PublishingStep, ConfirmingStep, Zenon DEF PipelineInv
<1>3. Numbered' /\ Filed' /\ OwnSplit'
  BY NumberedStep, FiledStep, OwnSplitStep, Zenon DEF PipelineInv
<1> QED  BY <1>1, <1>2, <1>3, Zenon DEF PipelineInv, SplitInv

\* The pipeline keeps its types; stream ids never dangle in the node's cache,
\* the queued items, the workers or the splits; and a worker publishes only the
\* split it built, whose row nobody else inserted (pipeline.rs flush_inner,
\* metastore.rs stage_split, publish_split).
THEOREM PipelineInvariant == Spec => []PipelineInv
<1>1. Init => PipelineInv
  BY InitTypes, InitRows, InitSplits, Zenon DEF PipelineInv
<1> QED  BY <1>1, PipelineStep, PTL DEF Spec

\* A split a query may open always has its file: upload comes before stage, and
\* neither the orphan sweep nor GC takes the object of a split that a slow
\* worker can still publish.
THEOREM PublishedIsReadable == Spec => []PublishedReadable
<1>1. PipelineInv => PublishedReadable
  BY Zenon DEF PipelineInv, SplitInv, Filed, PublishedReadable
<1> QED  BY <1>1, PipelineInvariant, PTL

=============================================================================
