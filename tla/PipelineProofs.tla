--------------------------- MODULE PipelineProofs ---------------------------
(***************************************************************************)
(* No acknowledged document is lost, dropped or resurrected by the ingest  *)
(* pipeline, for any documents, plans and number of splits, as far as the  *)
(* code promises it.                                                       *)
(***************************************************************************)
EXTENDS PipelineTypes

----------------------------------------------------------------------------
(* What a worker holds where *)

\* A worker that is not started or has ended holds nothing; the buffer is only
\* filled while it receives, and there is a batch only during a flush.  A
\* closed channel is empty.
Tidy(g) ==
    /\ wpc[g] \in {"none", "gone"} => queue[g] = <<>>
    /\ wpc[g] # "recv" => buffer[g] = {}
    /\ wpc[g] \notin Flushing => positions[g] = {} /\ batch[g] = {} /\ waiters[g] = {}
    /\ batch[g] \subseteq positions[g]
    /\ g \in closed => wpc[g] \notin {"none", "recv", "closing"} /\ queue[g] = <<>>

\* The worker in the map receives or flushes, and its channel is open.
Mapped == entry # 0 => wpc[entry] \in {"recv"} \cup Flushing /\ entry \notin closed

\* A worker that was looked up runs for as long as its channel is open.
Usable(g) == g \in Gens /\ (g \notin closed => wpc[g] \notin {"none", "gone"})
Handles ==
    /\ \A d \in Docs : req[d] \in {"send", "resend", "cutting"} => Usable(handle[d])
    /\ feed.pc = "send" => Usable(handle[feed.doc])

\* Nothing runs while the process is down, and no request while it replays.
Outage ==
    /\ ~up => /\ \A g \in Gens : wpc[g] \in {"none", "gone"}
              /\ entry = 0 /\ feed.pc = "next" /\ replaying = {} /\ pending = {}
    /\ ~Serving => \A d \in Docs : req[d] \in Terminal \cup {"none"}
    /\ feed.pc # "next" => feed.doc \in replaying
    /\ ~up \/ replaying # {} => crashes > 0

\* Channels are only closed by workers that retire.
Retirement == closed # {} \/ (\E g \in Gens : wpc[g] = "closing") => retires > 0

WorkerInv == (\A g \in Gens : Tidy(g)) /\ Mapped /\ Handles /\ Outage /\ Retirement

\* A request sends to a worker that runs, and so does the replay.
LEMMA SendsToRunning ==
    ASSUME TypeOK, WorkerInv, NEW g \in Gens, g \notin closed,
           \/ \E d \in Docs : (TrySend(d) \/ RefreshSend(d)) /\ handle[d] = g
           \/ ReplaySend /\ handle[feed.doc] = g
    PROVE  /\ wpc[g] \notin {"none", "gone"} /\ up
           /\ UNCHANGED <<wpc, closed, buffer, positions, batch, waiters>>
<1>1. ASSUME NEW d \in Docs, TrySend(d) \/ RefreshSend(d), handle[d] = g
      PROVE  /\ req[d] \in {"send", "resend", "cutting"} /\ up
             /\ UNCHANGED <<wpc, closed, buffer, positions, batch, waiters>>
  BY <1>1, ZenonT(30) DEF TrySend, RefreshSend, At, Serving
<1>2. ASSUME ReplaySend
      PROVE  /\ feed.pc = "send" /\ up
             /\ UNCHANGED <<wpc, closed, buffer, positions, batch, waiters>>
  BY <1>2, ZenonT(30) DEF ReplaySend
<1> QED  BY <1>1, <1>2, ZenonT(30) DEF WorkerInv, Handles, Usable

\* Whatever a worker does, it stays tidy.
LEMMA TidyStep ==
    ASSUME TypeOK, WorkerInv, [Next]_vars, NEW g \in Gens
    PROVE  Tidy(g)'
<1> USE DEF TypeOK, WorkerType, Flushing
<1>T. Tidy(g)
  BY ZenonT(30) DEF WorkerInv
<1>C. closed' = closed \/ \E h \in Gens : IdleClose(h) /\ closed' = closed \cup {h}
  BY ClosedWriters, ZenonT(30) DEF IdleClose
<1>1. CASE Still(g)
  <2>1. ASSUME queue'[g] # queue[g] PROVE wpc[g] \notin {"none", "gone"} /\ g \notin closed
    <3>1. CASE Receive(g) \/ IdleClose(g)
      BY <1>T, <3>1, ZenonT(30) DEF Receive, IdleClose, Runs, Tidy
    <3>2. CASE Crash
      BY <1>1, <1>T, <2>1, <3>2, ZenonT(30) DEF Crash, Still, Tidy
    <3> QED  BY <2>1, <3>1, <3>2, Channels, SendsToRunning, ZenonT(30) DEF Channel
  <2>2. ASSUME g \in closed', g \notin closed PROVE FALSE
    <3>1. IdleClose(g)
      BY <1>C, <2>2, ZenonT(30)
    <3>2. wpc[g] = "closing" /\ wpc'[g] # "closing"
      BY <3>1, Retired, ZenonT(30) DEF IdleClose, Runs, StartFlush
    <3> QED  BY <1>1, <3>2, ZenonT(30) DEF Still
  <2> QED  BY <1>1, <1>T, <1>C, <2>1, <2>2, ZenonT(30) DEF Still, Tidy
<1>2. CASE Born(g)
  <2>1. UNCHANGED <<queue, closed>> /\ wpc[g] = "none" /\ wpc'[g] = "recv"
    BY <1>2, ZenonT(30) DEF Born, LookupWorker, ReplayLookup
  <2>2. positions'[g] = positions[g] /\ batch'[g] = batch[g] /\ waiters'[g] = waiters[g]
    BY <1>2, ZenonT(30) DEF Born
  <2> QED  BY <1>T, <2>1, <2>2, ZenonT(30) DEF Tidy
<1>3. CASE Crash
  BY <1>3, <1>T, ZenonT(30) DEF Crash, Tidy
<1>4. CASE Receive(g)
  <2>1. wpc[g] = "recv" /\ UNCHANGED closed /\ wpc'[g] \in {"recv", "resolve"}
    BY <1>4, ZenonT(30) DEF Receive, Runs, StartFlush
  <2>2. \/ wpc'[g] = "recv" /\ UNCHANGED <<positions, batch, waiters>>
        \/ wpc'[g] = "resolve" /\ batch'[g] = positions'[g] /\ buffer'[g] = {}
    BY <1>4, <2>1, ZenonT(30) DEF Receive, StartFlush
  <2> QED  BY <1>T, <2>1, <2>2, ZenonT(30) DEF Tidy
<1>5. CASE BatchDeadline(g)
  <2>1. /\ wpc[g] = "recv" /\ UNCHANGED <<closed, queue>> /\ wpc'[g] = "resolve"
        /\ batch'[g] = positions'[g] /\ buffer'[g] = {}
    BY <1>5, ZenonT(30) DEF BatchDeadline, Runs, StartFlush
  <2> QED  BY <1>T, <2>1, ZenonT(30) DEF Tidy
<1>6. CASE IdleClose(g)
  <2>1. wpc[g] = "closing" /\ queue'[g] = <<>>
    BY <1>6, ZenonT(30) DEF IdleClose, Runs
  <2>2. CASE StartFlush(g, Listed(g, "doc"))
    <3>1. wpc'[g] = "resolve" /\ batch'[g] = positions'[g] /\ buffer'[g] = {}
      BY <2>2, ZenonT(30) DEF StartFlush
    <3> QED  BY <2>1, <3>1, ZenonT(30) DEF Tidy
  <2>3. CASE /\ wpc' = [wpc EXCEPT ![g] = "gone"]
             /\ UNCHANGED <<positions, batch, buffer, waiters>>
    BY <1>T, <2>1, <2>3, ZenonT(30) DEF Tidy
  <2> QED  BY <1>6, <2>2, <2>3, Retired, ZenonT(30)
<1>7. ASSUME wpc[g] \in Flushing, FinishFlush(g), UNCHANGED <<closed, queue, buffer>> PROVE Tidy(g)'
  <2>1. /\ wpc'[g] = (IF g \in closed THEN "gone" ELSE "recv")
        /\ positions'[g] = {} /\ batch'[g] = {} /\ waiters'[g] = {}
    BY <1>7, ZenonT(30) DEF FinishFlush
  <2> QED  BY <1>T, <1>7, <2>1, ZenonT(30) DEF Tidy
<1>8. ASSUME wpc[g] \in Flushing, wpc'[g] \in Flushing, batch'[g] \subseteq batch[g],
             UNCHANGED <<closed, queue, buffer, positions>>
      PROVE  Tidy(g)'
  BY <1>T, <1>8, ZenonT(30) DEF Tidy
<1>9. ASSUME NEW row, DropStale(g, row), wpc[g] = "resolve", UNCHANGED <<closed, queue, buffer>>
      PROVE  Tidy(g)'
  <2>1. CASE FinishFlush(g)
    BY <1>7, <1>9, <2>1, ZenonT(30)
  <2>2. CASE /\ batch' = [batch EXCEPT ![g] = @ \ Stale(g, row)]
             /\ wpc' = [wpc EXCEPT ![g] = "build"] /\ UNCHANGED positions
    BY <1>8, <1>9, <2>2, ZenonT(30)
  <2> QED  BY <1>9, <2>1, <2>2, ZenonT(30) DEF DropStale
<1>10. CASE ResolveLive(g)
  BY <1>9, <1>10, ZenonT(30) DEF ResolveLive, Runs
<1>11. CASE ResolveUnknown(g)
  BY <1>9, <1>11, ZenonT(30) DEF ResolveUnknown, Runs
<1>12. CASE ResolveDeleted(g) \/ BuildNothing(g) \/ ConfirmBatch(g)
  BY <1>7, <1>12, ZenonT(30) DEF ResolveDeleted, BuildNothing, ConfirmBatch, Runs
<1>13. CASE Upload(g) \/ StageSplit(g) \/ PublishSplit(g)
  <2>1. wpc[g] \in Flushing /\ UNCHANGED <<closed, queue, buffer, positions, batch>>
    BY <1>13, ZenonT(30) DEF Upload, StageSplit, PublishSplit, Runs
  <2>2. wpc'[g] \in Flushing
    BY <1>13, ZenonT(30) DEF Upload, StageSplit, PublishSplit, Retry
  <2> QED  BY <1>8, <2>1, <2>2, ZenonT(30)
<1>14. CASE IdleUnpublish(g)
  <2>1. /\ wpc[g] = "recv" /\ wpc'[g] = "closing" /\ buffer[g] = {}
        /\ UNCHANGED <<closed, queue, buffer, positions, batch, waiters>>
    BY <1>14, ZenonT(30) DEF IdleUnpublish, Runs
  <2> QED  BY <1>T, <2>1, ZenonT(30) DEF Tidy
<1> QED
  BY Workers, <1>1, <1>2, <1>3, <1>4, <1>5, <1>6, <1>10, <1>11, <1>12, <1>13, <1>14, ZenonT(30)
     DEF Acts, WorkerStep, FlushStep

\* Closed channels stay closed, and only a retiring worker closes one.
LEMMA Closes ==
    ASSUME [Next]_vars
    PROVE  \/ closed' = closed
           \/ \E h \in Gens : IdleClose(h) /\ wpc[h] = "closing" /\ closed' = closed \cup {h}
BY ClosedWriters, ZenonT(30) DEF IdleClose, Runs

\* Short of a crash a worker ends only with its channel closed.
LEMMA EndsClosed ==
    ASSUME TypeOK, [Next]_vars, NEW g \in Gens, wpc[g] \notin {"none", "gone"}, ~Crash,
           wpc'[g] \in {"none", "gone"}
    PROVE  g \in closed'
<1> USE DEF TypeOK, WorkerType
<1>1. Acts(g)
  BY Workers, ZenonT(30) DEF Still, Born
<1>2. CASE IdleClose(g)
  BY <1>2, ZenonT(30) DEF IdleClose
<1>3. CASE ~IdleClose(g)
  <2>1. FinishFlush(g) => g \in closed
    BY ZenonT(30) DEF FinishFlush
  <2>2. g \in closed
    <3>1. CASE ResolveLive(g) \/ ResolveUnknown(g)
      BY <2>1, <3>1, ZenonT(30) DEF ResolveLive, ResolveUnknown, DropStale
    <3>2. CASE ResolveDeleted(g) \/ BuildNothing(g) \/ ConfirmBatch(g)
      BY <2>1, <3>2, ZenonT(30) DEF ResolveDeleted, BuildNothing, ConfirmBatch
    <3>3. CASE Receive(g) \/ BatchDeadline(g)
      BY <3>3, ZenonT(30) DEF Receive, BatchDeadline, StartFlush
    <3>4. CASE Upload(g) \/ StageSplit(g) \/ PublishSplit(g) \/ IdleUnpublish(g)
      BY <3>4, ZenonT(30) DEF Upload, StageSplit, PublishSplit, IdleUnpublish, Retry
    <3> QED  BY <1>1, <1>3, <3>1, <3>2, <3>3, <3>4, ZenonT(30) DEF Acts, WorkerStep, FlushStep
  <2> QED  BY <2>2, Closes, ZenonT(30)
<1> QED  BY <1>2, <1>3, ZenonT(30)

\* So the worker a request looked up stays usable.
LEMMA StaysUsable ==
    ASSUME TypeOK, [Next]_vars, ~Crash, NEW g, Usable(g)
    PROVE  Usable(g)'
BY Closes, EndsClosed, ZenonT(30) DEF Usable, Gens

\* The map names a worker that receives or flushes.
LEMMA MappedStep ==
    ASSUME TypeOK, WorkerInv, [Next]_vars
    PROVE  Mapped'
<1> USE DEF TypeOK
<1> SUFFICES ASSUME entry' # 0
             PROVE  wpc'[entry'] \in {"recv"} \cup Flushing /\ entry' \notin closed'
  BY Zenon DEF Mapped
<1>1. CASE entry' = entry
  <2>1. /\ entry \in Gens /\ wpc[entry] \in {"recv"} \cup Flushing /\ entry \notin closed
    BY <1>1, ZenonT(30) DEF WorkerInv, Mapped, NodeType
  <2>2. entry \notin closed'
    BY <2>1, Closes, ZenonT(30) DEF Flushing
  <2>3. ~Crash
    BY <1>1, ZenonT(30) DEF Crash
  <2>4. wpc'[entry] \notin {"none", "gone"}
    BY <2>1, <2>2, <2>3, EndsClosed, ZenonT(30) DEF Flushing
  <2>5. CASE Acts(entry)
    <3>1. ~ IdleUnpublish(entry)
      BY ZenonT(30) DEF IdleUnpublish
    <3> QED  BY <1>1, <2>1, <2>2, <2>4, <2>5, <3>1, Arrivals, ZenonT(30)
  <2> QED  BY <1>1, <2>1, <2>2, <2>3, <2>5, Workers, ZenonT(30) DEF Still, Born
<1>2. ASSUME NEW d, WorkerFor(d), UNCHANGED closed, entry = 0
      PROVE  wpc'[entry'] \in {"recv"} \cup Flushing /\ entry' \notin closed'
  <2>1. entry' \in Gens /\ wpc[entry'] = "none" /\ wpc' = [wpc EXCEPT ![entry'] = "recv"]
    BY <1>2, Looked, NoWorker, ZenonT(30)
  <2> QED  BY <1>2, <2>1, ZenonT(30) DEF WorkerInv, Tidy, WorkerType
<1>3. ASSUME NEW d, WorkerFor(d) PROVE entry = 0 \/ entry' = entry
  BY <1>3, ZenonT(30) DEF WorkerFor
<1>4. ASSUME NEW g \in Gens, IdleUnpublish(g) PROVE FALSE
  BY <1>4, ZenonT(30) DEF IdleUnpublish
<1>5. ASSUME Crash PROVE FALSE
  BY <1>5, ZenonT(30) DEF Crash
<1>6. ASSUME NEW d \in Docs, LookupWorker(d) PROVE WorkerFor(d) /\ UNCHANGED closed
  BY <1>6, ZenonT(30) DEF LookupWorker
<1>7. ASSUME ReplayLookup PROVE WorkerFor(feed.doc) /\ UNCHANGED closed
  BY <1>7, ZenonT(30) DEF ReplayLookup
<1> QED  BY EntryWriters, <1>1, <1>2, <1>3, <1>4, <1>5, <1>6, <1>7, ZenonT(30)

\* worker_for returns a worker that runs.
LEMMA LookedUsable ==
    ASSUME TypeOK, WorkerInv, NEW d \in Docs, WorkerFor(d), UNCHANGED closed
    PROVE  (Usable(handle[d]))'
<1>1. entry' \in Gens /\ handle'[d] = entry'
  BY Looked, ZenonT(30) DEF TypeOK, ReqType
<1>2. CASE entry \in Gens /\ UNCHANGED <<entry, wpc>>
  BY <1>1, <1>2, NoWorker, ZenonT(30) DEF WorkerInv, Mapped, Usable, Flushing
<1>3. CASE wpc' = [wpc EXCEPT ![entry'] = "recv"]
  BY <1>1, <1>3, ZenonT(30) DEF TypeOK, WorkerType, Usable
<1> QED  BY <1>2, <1>3, Looked, ZenonT(30)

\* The handle of a request or of the replay is changed only by its own lookup.
LEMMA HandlesStep ==
    ASSUME TypeOK, WorkerInv, [Next]_vars
    PROVE  Handles'
<1> USE DEF TypeOK, ReqType
<1>1. ASSUME NEW x \in Docs, req'[x] \in {"send", "resend", "cutting"} PROVE (Usable(handle[x]))'
  <2>1. ~Crash
    BY <1>1, ZenonT(30) DEF Crash, Terminal
  <2>2. CASE req'[x] = req[x]
    <3>1. Serving
      BY <1>1, <2>2, ZenonT(30) DEF WorkerInv, Outage, Terminal
    <3>2. handle'[x] = handle[x]
      <4>1. ASSUME NEW d \in Docs, LookupWorker(d) PROVE handle'[x] = handle[x]
        <5>1. d # x
          BY <2>2, <4>1, ZenonT(30) DEF LookupWorker, At, Goto
        <5> QED  BY <4>1, <5>1, Looked, ZenonT(30) DEF LookupWorker
      <4>2. ASSUME NEW d \in Docs, RefreshLookup(d) PROVE handle'[x] = handle[x]
        <5>1. d # x
          BY <2>2, <4>2, ZenonT(30) DEF RefreshLookup, At, Goto
        <5> QED  BY <4>2, <5>1, ZenonT(30) DEF RefreshLookup
      <4>3. ~ReplayLookup
        BY <3>1, ZenonT(30) DEF ReplayLookup, WorkerInv, Outage, Serving
      <4> QED  BY <4>1, <4>2, <4>3, HandleWriters, ZenonT(30)
    <3>3. Usable(handle[x])
      BY <1>1, <2>2, ZenonT(30) DEF WorkerInv, Handles
    <3>4. Usable(handle[x])'
      BY <2>1, <3>2, <3>3, StaysUsable, ZenonT(30) DEF Usable
    <3> QED  BY <3>4, ZenonT(30)
  <2>3. CASE LookupWorker(x)
    BY <2>3, LookedUsable, ZenonT(30) DEF LookupWorker
  <2>4. CASE RefreshLookup(x)
    <3>1. entry # 0 /\ handle'[x] = entry /\ UNCHANGED <<wpc, closed>>
      BY <1>1, <2>4, ZenonT(30) DEF RefreshLookup, Goto, workerVars
    <3> QED  BY <3>1, ZenonT(30) DEF WorkerInv, Mapped, Usable, Flushing, NodeType
  <2> QED  BY <1>1, <2>1, <2>2, <2>3, <2>4, Moves, ZenonT(30) DEF Move
<1>2. ASSUME feed'.pc = "send" PROVE (Usable(handle[feed.doc]))'
  <2>1. CASE ReplayLookup
    <3>1. feed'.doc = feed.doc /\ feed.doc \in Docs
      BY <2>1, ZenonT(30) DEF ReplayLookup, NodeType, Feeds
    <3>2. WorkerFor(feed.doc) /\ UNCHANGED closed
      BY <2>1, ZenonT(30) DEF ReplayLookup
    <3> QED  BY <3>1, <3>2, LookedUsable, ZenonT(30)
  <2>2. CASE UNCHANGED feed
    <3>1. ~Crash
      BY <1>2 DEF Crash
    <3>2. Usable(handle[feed.doc]) /\ ~Serving
      BY <1>2, <2>2, ZenonT(30) DEF WorkerInv, Handles, Outage, Serving
    <3>3. handle' = handle
      <4>1. ASSUME NEW d \in Docs, LookupWorker(d) \/ RefreshLookup(d) PROVE FALSE
        BY <3>2, <4>1, ZenonT(30) DEF LookupWorker, RefreshLookup, At
      <4>2. ASSUME ReplayLookup PROVE FALSE
        BY <1>2, <2>2, <4>2, ZenonT(30) DEF ReplayLookup
      <4> QED  BY <4>1, <4>2, HandleWriters, ZenonT(30)
    <3> QED  BY <2>2, <3>1, <3>2, <3>3, StaysUsable, ZenonT(30) DEF Usable
  <2>3. ASSUME NEW d \in Docs, ReplayInfo(d) PROVE FALSE
    BY <1>2, <2>3, ZenonT(30) DEF ReplayInfo
  <2>4. ASSUME ReplaySend \/ Crash PROVE FALSE
    BY <1>2, <2>4 DEF ReplaySend, Crash
  <2>5. ASSUME Restart PROVE UNCHANGED feed
    BY <2>5, ZenonT(30) DEF Restart
  <2> QED  BY <2>1, <2>2, <2>3, <2>4, <2>5, ReplayWriters, ZenonT(30)
<1> QED  BY <1>1, <1>2, ZenonT(30) DEF Handles

\* While the process is down the metastore and the control jobs go on, and the
\* node only restarts.
LEMMA Down ==
    ASSUME [Next]_vars, ~up
    PROVE  Restart \/ UNCHANGED <<entry, workerVars, reqVars, walVars, replayVars, crashes>>
BY ZenonT(60) DEF Next, RequestStep, WorkerStep, FlushStep, ReplayStep, Quiescent, vars,
   nodeVars, boundVars, At, Serving, Runs, Begin, StreamInfo, StoreInfo, AppendWal, AppendDone,
   LookupWorker, TrySend, RefreshLookup, RefreshSend, EnqueueError, RefreshTimeout, Receive,
   BatchDeadline, IdleClose, ResolveLive, ResolveDeleted, BuildNothing, Upload, StageSplit,
   PublishSplit, ConfirmBatch, IdleUnpublish, ResolveUnknown, ExpireInfo, DeleteIndex,
   ForgetStream, PurgeStreams, SweepList, SweepMark, GcObject, GcRow, Crash, Wal!Crash,
   ReplayInfo, ReplayLookup, ReplaySend

\* The process goes down in a crash.
LEMMA GoesDown ==
    ASSUME [Next]_vars, up, ~up'
    PROVE  Crash
BY WalWriters, ZenonT(30) DEF AppendWal, Wal!Append, AppendDone, Wal!Acknowledge, TrySend, Reject,
   EnqueueError, ResolveLive, ResolveDeleted, BuildNothing, ConfirmBatch, ResolveUnknown, DropStale,
   ConfirmWal, Wal!Confirm, Restart, Wal!Restart, ReplaySend, walVars

\* A crash clears the node's memory.
LEMMA CrashClears ==
    ASSUME TypeOK, Crash
    PROVE  /\ up /\ ~up' /\ entry' = 0 /\ feed'.pc = "next" /\ replaying' = {} /\ pending' = {}
           /\ crashes' > 0 /\ log' \subseteq log /\ (acked \ confirmed) \cap log \subseteq log'
           /\ UNCHANGED <<acked, confirmed, indexed, info, live, deletes, retires, plan, done, closed>>
           /\ \A g \in Gens : /\ wpc'[g] \in {"none", "gone"} /\ queue'[g] = <<>> /\ buffer'[g] = {}
                              /\ positions'[g] = {} /\ batch'[g] = {} /\ waiters'[g] = {}
           /\ \A d \in Docs : req'[d] \in Terminal \cup {"none"}
<1>1. /\ up /\ ~up' /\ entry' = 0 /\ feed' = [pc |-> "next"] /\ replaying' = {} /\ pending' = {}
      /\ log' \subseteq log /\ (acked \ confirmed) \cap log \subseteq log'
      /\ UNCHANGED <<acked, confirmed, indexed, info, live, deletes, retires, plan, done, closed>>
  BY ZenonT(30) DEF Crash, Wal!Crash, metaVars
<1>2. crashes' > 0
  BY DEF Crash, TypeOK, BoundType
<1>3. \A g \in Gens : /\ wpc'[g] \in {"none", "gone"} /\ queue'[g] = <<>> /\ buffer'[g] = {}
                      /\ positions'[g] = {} /\ batch'[g] = {} /\ waiters'[g] = {}
  BY ZenonT(30) DEF Crash
<1>4. \A d \in Docs : req'[d] \in Terminal \cup {"none"}
  BY ZenonT(30) DEF Crash, Terminal
<1>5. feed'.pc = "next"
  BY <1>1, ZenonT(30)
<1> QED  BY <1>1, <1>2, <1>3, <1>4, <1>5, ZenonT(30)

\* A restart finds the log and replays it.
LEMMA RestartReads ==
    ASSUME Restart
    PROVE  /\ ~up /\ up' /\ replaying' = log /\ pending' = log /\ outstanding' = Cardinality(log)
           /\ UNCHANGED <<log, acked, confirmed, feed, workerVars, reqVars, metaVars, nodeVars, boundVars>>
BY ZenonT(30) DEF Restart, Wal!Restart

\* The replay only shrinks once it has begun, and the record in hand is one of it.
LEMMA ReplayShrinks ==
    ASSUME TypeOK, WorkerInv, [Next]_vars, ~Restart
    PROVE  /\ replaying' \subseteq replaying
           /\ feed'.pc # "next" => feed'.doc \in replaying'
<1>1. CASE UNCHANGED <<replaying, feed>>
  BY <1>1, ZenonT(30) DEF WorkerInv, Outage
<1>2. ASSUME NEW d \in Docs, ReplayInfo(d) PROVE UNCHANGED replaying /\ feed'.doc = d /\ d \in replaying
  BY <1>2, ZenonT(30) DEF ReplayInfo
<1>3. CASE Crash
  BY <1>3, CrashClears, ZenonT(30)
<1>4. CASE ReplayLookup
  <2>1. UNCHANGED replaying /\ feed'.doc = feed.doc /\ feed.pc = "lookup"
    BY <1>4, ZenonT(30) DEF ReplayLookup, TypeOK, NodeType, Feeds
  <2> QED  BY <2>1, ZenonT(30) DEF WorkerInv, Outage
<1>5. CASE ReplaySend
  BY <1>5, ZenonT(30) DEF ReplaySend
<1> QED  BY <1>1, <1>2, <1>3, <1>4, <1>5, ReplayWriters, ZenonT(30)

\* Outages and replays keep everyone out.
LEMMA OutageStep ==
    ASSUME TypeOK, WorkerInv, [Next]_vars
    PROVE  Outage'
<1>1. CASE Restart
  <2>1. /\ feed.pc = "next" /\ crashes > 0
        /\ \A d \in Docs : req[d] \in Terminal \cup {"none"}
    BY <1>1, RestartReads, ZenonT(30) DEF WorkerInv, Outage, Serving
  <2> QED  BY <1>1, <2>1, RestartReads, ZenonT(30) DEF Outage, Serving, reqVars, boundVars
<1>2. CASE Crash
  BY <1>2, CrashClears, ZenonT(30) DEF Outage
<1>3. CASE ~Restart /\ ~Crash
  <2>1. ASSUME ~up' PROVE ~up /\ UNCHANGED <<entry, workerVars, reqVars, walVars, replayVars, crashes>>
    BY <1>3, <2>1, Down, GoesDown, ZenonT(30)
  <2>2. ~up' => /\ \A g \in Gens : wpc'[g] \in {"none", "gone"}
                /\ entry' = 0 /\ feed'.pc = "next" /\ replaying' = {} /\ pending' = {}
    BY <2>1, ZenonT(30) DEF WorkerInv, Outage, workerVars, walVars, replayVars
  <2>3. ~Serving' => ~Serving
    BY <1>3, <2>1, ReplayShrinks, ZenonT(30) DEF Serving
  <2>4. ASSUME ~Serving, NEW d \in Docs PROVE req'[d] \in Terminal \cup {"none"}
    <3>1. req[d] \in Terminal \cup {"none"}
      BY <2>4, ZenonT(30) DEF WorkerInv, Outage
    <3>2. ~ Begin(d)
      BY <2>4, ZenonT(30) DEF Begin, At
    <3> QED  BY <3>1, <3>2, Moves, ZenonT(30) DEF Move, Terminal
  <2>5. crashes' = crashes
    BY <1>3, BoundWriters, ZenonT(30) DEF EnqueueError, Upload, StageSplit, PublishSplit,
       IdleUnpublish, ResolveUnknown, SweepList
  <2>6. ~up' \/ replaying' # {} => crashes' > 0
    BY <1>3, <2>1, <2>5, ReplayShrinks, ZenonT(30) DEF WorkerInv, Outage
  <2> QED  BY <1>3, <2>2, <2>3, <2>4, <2>6, ReplayShrinks, ZenonT(30) DEF Outage
<1> QED  BY <1>1, <1>2, <1>3, ZenonT(30)

\* Only a retirement closes channels.
LEMMA RetirementStep ==
    ASSUME TypeOK, WorkerInv, [Next]_vars
    PROVE  Retirement'
<1> USE DEF TypeOK, BoundType
<1>1. retires' = retires \/ (\E g \in Gens : IdleUnpublish(g) /\ retires' = retires + 1)
  BY BoundWriters, ZenonT(30) DEF EnqueueError, Upload, StageSplit, PublishSplit, IdleUnpublish,
     ResolveUnknown, SweepList, Crash
<1>2. CASE retires > 0
  BY <1>1, <1>2 DEF Retirement
<1>3. CASE retires' = retires /\ ~(retires > 0)
  <2>1. closed = {} /\ \A g \in Gens : wpc[g] # "closing"
    BY <1>3, ZenonT(30) DEF WorkerInv, Retirement
  <2>2. closed' = {}
    BY <2>1, Closes, ZenonT(30)
  <2>3. ASSUME NEW g \in Gens, wpc'[g] = "closing" PROVE FALSE
    <3>1. CASE Acts(g)
      <4>1. IdleUnpublish(g)
        BY <2>3, <3>1, Arrivals, ZenonT(30)
      <4> QED  BY <1>3, <4>1 DEF IdleUnpublish
    <3> QED  BY <2>1, <2>3, <3>1, Workers, CrashClears, ZenonT(30) DEF Still, Born
  <2> QED  BY <2>2, <2>3, ZenonT(30) DEF Retirement
<1>4. CASE retires' = retires + 1
  BY <1>4 DEF Retirement
<1> QED  BY <1>1, <1>2, <1>3, <1>4, ZenonT(30)

\* The workers start with nothing.
LEMMA InitWorkers == Init => WorkerInv
BY DEF Init, Wal!Init, WorkerInv, Tidy, Mapped, Handles, Outage, Retirement, Serving, Flushing, Terminal

\* Every step keeps the workers in order.
LEMMA WorkerStepInv == TypeOK /\ WorkerInv /\ [Next]_vars => WorkerInv'
BY TidyStep, MappedStep, HandlesStep, OutageStep, RetirementStep, ZenonT(30) DEF WorkerInv

----------------------------------------------------------------------------
(* Channels *)

\* No document is in a channel twice.
Once(q) ==
    \A i, j \in 1 .. Len(q) :
        q[i].kind = "doc" /\ q[j].kind = "doc" /\ q[i].doc = q[j].doc => i = j

\* What a send adds.
LEMMA HasAppend ==
    ASSUME NEW q \in Seq(Messages), NEW m \in Messages, NEW kind, NEW d
    PROVE  Has(Append(q, m), kind, d) <=> Has(q, kind, d) \/ (m.kind = kind /\ m.doc = d)
<1>1. /\ Len(q) \in Nat /\ Len(Append(q, m)) = Len(q) + 1
      /\ Append(q, m)[Len(q) + 1] = m /\ \A i \in 1 .. Len(q) : Append(q, m)[i] = q[i]
  OBVIOUS
<1>2. ASSUME Has(Append(q, m), kind, d) PROVE Has(q, kind, d) \/ (m.kind = kind /\ m.doc = d)
  <2>1. PICK i \in 1 .. Len(q) + 1 : Append(q, m)[i].kind = kind /\ Append(q, m)[i].doc = d
    BY <1>1, <1>2, ZenonT(30) DEF Has
  <2>2. i = Len(q) + 1 \/ i \in 1 .. Len(q)
    BY <1>1, <2>1
  <2> QED  BY <1>1, <2>1, <2>2, ZenonT(30) DEF Has
<1>3. ASSUME Has(q, kind, d) PROVE Has(Append(q, m), kind, d)
  <2>1. PICK i \in 1 .. Len(q) : q[i].kind = kind /\ q[i].doc = d
    BY <1>3, ZenonT(30) DEF Has
  <2>2. i \in 1 .. Len(q) + 1
    BY <1>1, <2>1
  <2> QED  BY <1>1, <2>1, <2>2, ZenonT(30) DEF Has
<1>4. ASSUME m.kind = kind, m.doc = d PROVE Has(Append(q, m), kind, d)
  <2>1. Len(q) + 1 \in 1 .. Len(q) + 1
    BY <1>1
  <2> QED  BY <1>1, <1>4, <2>1, ZenonT(30) DEF Has
<1> QED  BY <1>2, <1>3, <1>4, ZenonT(30)

\* What a receive takes.
LEMMA HasTail ==
    ASSUME NEW q \in Seq(Messages), q # <<>>, NEW kind, NEW d
    PROVE  Has(q, kind, d) <=> Has(Tail(q), kind, d) \/ (Head(q).kind = kind /\ Head(q).doc = d)
<1>1. /\ Len(q) \in Nat \ {0} /\ Len(Tail(q)) = Len(q) - 1 /\ Head(q) = q[1]
      /\ \A i \in 1 .. Len(q) - 1 : Tail(q)[i] = q[i + 1]
  OBVIOUS
<1>2. ASSUME Has(q, kind, d) PROVE Has(Tail(q), kind, d) \/ (Head(q).kind = kind /\ Head(q).doc = d)
  <2>1. PICK i \in 1 .. Len(q) : q[i].kind = kind /\ q[i].doc = d
    BY <1>2, ZenonT(30) DEF Has
  <2>2. CASE i = 1
    BY <1>1, <2>1, <2>2, ZenonT(30)
  <2>3. CASE i # 1
    <3>1. i - 1 \in 1 .. Len(Tail(q)) /\ Tail(q)[i - 1] = q[i]
      BY <1>1, <2>1, <2>3
    <3> QED  BY <2>1, <3>1, ZenonT(30) DEF Has
  <2> QED  BY <2>2, <2>3, ZenonT(30)
<1>3. ASSUME Has(Tail(q), kind, d) PROVE Has(q, kind, d)
  <2>1. PICK i \in 1 .. Len(q) - 1 : Tail(q)[i].kind = kind /\ Tail(q)[i].doc = d
    BY <1>1, <1>3, ZenonT(30) DEF Has
  <2>2. i + 1 \in 1 .. Len(q) /\ q[i + 1] = Tail(q)[i]
    BY <1>1, <2>1
  <2> QED  BY <2>1, <2>2, ZenonT(30) DEF Has
<1>4. ASSUME Head(q).kind = kind, Head(q).doc = d PROVE Has(q, kind, d)
  <2>1. 1 \in 1 .. Len(q)
    BY <1>1
  <2> QED  BY <1>1, <1>4, <2>1, ZenonT(30) DEF Has
<1> QED  BY <1>2, <1>3, <1>4, ZenonT(30)

\* A document that is not in a channel may be sent.
LEMMA OnceAppend ==
    ASSUME NEW q \in Seq(Messages), NEW m \in Messages, Once(q),
           m.kind = "doc" => ~Has(q, "doc", m.doc)
    PROVE  Once(Append(q, m))
<1>1. /\ Len(q) \in Nat /\ Len(Append(q, m)) = Len(q) + 1
      /\ Append(q, m)[Len(q) + 1] = m /\ \A i \in 1 .. Len(q) : Append(q, m)[i] = q[i]
  OBVIOUS
<1> DEFINE a == Append(q, m)
<1> HIDE DEF a
<1>2. ASSUME NEW i \in 1 .. Len(q) + 1, NEW j \in 1 .. Len(q) + 1,
             a[i].kind = "doc", a[j].kind = "doc", a[i].doc = a[j].doc
      PROVE  i = j
  <2>1. CASE i \in 1 .. Len(q) /\ j \in 1 .. Len(q)
    BY <1>1, <1>2, <2>1, ZenonT(30) DEF Once, a
  <2>2. CASE i \in 1 .. Len(q) /\ j = Len(q) + 1
    BY <1>1, <1>2, <2>2, ZenonT(30) DEF Has, a
  <2>3. CASE j \in 1 .. Len(q) /\ i = Len(q) + 1
    BY <1>1, <1>2, <2>3, ZenonT(30) DEF Has, a
  <2> QED  BY <1>1, <1>2, <2>1, <2>2, <2>3
<1> QED  BY <1>1, <1>2, ZenonT(30) DEF Once, a

\* The document received is not in the rest of the channel.
LEMMA OnceTail ==
    ASSUME NEW q \in Seq(Messages), q # <<>>, Once(q)
    PROVE  Once(Tail(q)) /\ (Head(q).kind = "doc" => ~Has(Tail(q), "doc", Head(q).doc))
<1>1. /\ Len(q) \in Nat \ {0} /\ Len(Tail(q)) = Len(q) - 1 /\ Head(q) = q[1]
      /\ \A i \in 1 .. Len(q) - 1 : Tail(q)[i] = q[i + 1]
  OBVIOUS
<1> DEFINE t == Tail(q)
<1> HIDE DEF t
<1>2. \A i \in 1 .. Len(t) : i + 1 \in 1 .. Len(q) /\ t[i] = q[i + 1] /\ i \in Int
  BY <1>1 DEF t
<1>3. ASSUME NEW i \in 1 .. Len(t), NEW j \in 1 .. Len(t),
             t[i].kind = "doc", t[j].kind = "doc", t[i].doc = t[j].doc
      PROVE  i = j
  <2>1. i + 1 = j + 1
    BY <1>2, <1>3, ZenonT(30) DEF Once
  <2> QED  BY <1>2, <1>3, <2>1
<1>4. ASSUME Head(q).kind = "doc", NEW i \in 1 .. Len(t), t[i].kind = "doc", t[i].doc = Head(q).doc
      PROVE  FALSE
  <2>1. 1 \in 1 .. Len(q) /\ i + 1 # 1
    BY <1>1, <1>2, <1>4 DEF t
  <2> QED  BY <1>1, <1>2, <1>4, <2>1, ZenonT(30) DEF Once
<1> QED  BY <1>3, <1>4, ZenonT(30) DEF Once, Has, t

\* An empty channel holds nothing.
LEMMA EmptyHas == \A kind, d : ~Has(<<>>, kind, d)
BY DEF Has

----------------------------------------------------------------------------
(* Documents a worker is in charge of *)

\* The documents still to be flushed, and with them those of the running flush.
Ahead(g) == Listed(g, "doc") \cup buffer[g]
Load(g)  == Ahead(g) \cup positions[g]

\* A message is sent to a channel.
Sends(g, d) ==
    /\ handle[d] = g /\ g \notin closed /\ UNCHANGED <<buffer, positions, batch, waiters, wpc>> /\ UNCHANGED walVars
    /\ \/ TrySend(d) /\ req[d] \in {"send", "resend"} /\ req'[d] \in {"refresh", "accepted"}
       \/ ReplaySend /\ d = feed.doc

\* What a worker receives was in its channel.
LEMMA Received ==
    ASSUME TypeOK, NEW g \in Gens, Receive(g)
    PROVE  /\ Head(queue[g]) \in Messages /\ queue[g] # <<>> /\ queue'[g] = Tail(queue[g])
           /\ Listed(g, "doc")' \subseteq Listed(g, "doc")
           /\ Head(queue[g]).kind = "doc" => Head(queue[g]).doc \in Listed(g, "doc")
<1>1. queue[g] # <<>> /\ queue'[g] = Tail(queue[g]) /\ queue[g] \in Seq(Messages)
  BY ZenonT(30) DEF Receive, TypeOK, WorkerType
<1>2. Head(queue[g]) \in Messages
  BY <1>1
<1>3. Head(queue[g]).doc \in Docs
  BY <1>2, ZenonT(30) DEF Messages
<1> QED  BY <1>1, <1>2, <1>3, HasTail, ZenonT(30) DEF Listed

\* The messages of a channel: one more document, one less, none or the same.
LEMMA Listings ==
    ASSUME TypeOK, [Next]_vars, NEW g \in Gens
    PROVE  \/ \E d \in Docs : Sends(g, d) /\ Listed(g, "doc")' = Listed(g, "doc") \cup {d}
           \/ Receive(g) /\ Listed(g, "doc")' \subseteq Listed(g, "doc")
           \/ (IdleClose(g) \/ Crash) /\ Listed(g, "doc")' = {}
           \/ ~Receive(g) /\ ~IdleClose(g) /\ Listed(g, "doc")' = Listed(g, "doc")
<1> USE DEF TypeOK
<1>Q. queue[g] \in Seq(Messages)
  BY ZenonT(30) DEF WorkerType
<1>1. ASSUME NEW d \in Docs, queue'[g] = Append(queue[g], [kind |-> "doc", doc |-> d])
      PROVE  Listed(g, "doc")' = Listed(g, "doc") \cup {d}
  <2>1. [kind |-> "doc", doc |-> d] \in Messages
    BY ZenonT(30) DEF Messages
  <2>2. \A x : Has(queue'[g], "doc", x) <=> Has(queue[g], "doc", x) \/ d = x
    <3>1. \A x : Has(Append(queue[g], [kind |-> "doc", doc |-> d]), "doc", x) <=>
                   Has(queue[g], "doc", x)
                   \/ ([kind |-> "doc", doc |-> d].kind = "doc" /\ [kind |-> "doc", doc |-> d].doc = x)
      BY <1>Q, <2>1, HasAppend, ZenonT(30)
    <3> QED  BY <1>1, <3>1, ZenonT(30)
  <2> QED  BY <2>2, ZenonT(30) DEF Listed
<1>2. ASSUME NEW d \in Docs, queue'[g] = Append(queue[g], [kind |-> "flush", doc |-> d])
      PROVE  Listed(g, "doc")' = Listed(g, "doc")
  <2>1. [kind |-> "flush", doc |-> d] \in Messages
    BY ZenonT(30) DEF Messages
  <2>2. \A x : Has(queue'[g], "doc", x) <=> Has(queue[g], "doc", x)
    <3>1. \A x : Has(Append(queue[g], [kind |-> "flush", doc |-> d]), "doc", x) <=>
                   Has(queue[g], "doc", x)
                   \/ ([kind |-> "flush", doc |-> d].kind = "doc" /\ [kind |-> "flush", doc |-> d].doc = x)
      BY <1>Q, <2>1, HasAppend, ZenonT(30)
    <3> QED  BY <1>2, <3>1, ZenonT(30)
  <2> QED  BY <2>2, ZenonT(30) DEF Listed
<1>3. ASSUME queue'[g] = queue[g] PROVE Listed(g, "doc")' = Listed(g, "doc")
  BY <1>3, ZenonT(30) DEF Listed
<1>4. ASSUME queue'[g] = <<>> PROVE Listed(g, "doc")' = {}
  BY <1>4, EmptyHas, ZenonT(30) DEF Listed
<1>7. ASSUME IdleClose(g) PROVE queue'[g] = <<>>
  BY <1>7, ZenonT(30) DEF IdleClose, WorkerType
<1>8. ASSUME NEW d \in Docs, TrySend(d), req'[d] \in {"refresh", "accepted"}
      PROVE  /\ req[d] \in {"send", "resend"} /\ UNCHANGED <<buffer, positions, batch, waiters, wpc>>
  BY <1>8, ZenonT(30) DEF TrySend, At
<1>9. ASSUME ReplaySend PROVE UNCHANGED <<buffer, positions, batch, waiters, wpc>>
  BY <1>9, ZenonT(30) DEF ReplaySend
<1>10. CASE \E d \in Docs :
         /\ TrySend(d) /\ handle[d] = g /\ g \notin closed /\ req'[d] \in {"refresh", "accepted"}
         /\ queue'[g] = Append(queue[g], [kind |-> "doc", doc |-> d]) /\ UNCHANGED walVars
  BY <1>1, <1>8, <1>10, ZenonT(30) DEF Sends
<1>11. CASE
       /\ ReplaySend /\ feed.doc \in Docs /\ handle[feed.doc] = g /\ g \notin closed
       /\ queue'[g] = Append(queue[g], [kind |-> "doc", doc |-> feed.doc]) /\ UNCHANGED walVars
  BY <1>1, <1>9, <1>11, ZenonT(30) DEF Sends
<1>12. CASE Receive(g)
  BY <1>12, Received, ZenonT(30)
<1>13. CASE IdleClose(g)
  BY <1>4, <1>7, <1>13, ZenonT(30)
<1>14. CASE Crash /\ queue'[g] = <<>>
  BY <1>4, <1>14, ZenonT(30)
<1>15. CASE ~Receive(g) /\ ~IdleClose(g) /\ Listed(g, "doc")' = Listed(g, "doc")
  BY <1>15, ZenonT(30)
<1> QED
  BY Channels, <1>2, <1>3, <1>10, <1>11, <1>12, <1>13, <1>14, <1>15, ZenonT(30) DEF Channel

\* The row a queued document was accepted against is fixed until it is
\* resolved again, which a sent document never is in the same run.
LEMMA InfoFixed ==
    ASSUME TypeOK, [Next]_vars, NEW d \in Docs, req[d] \notin {"resolve", "enqueue"}, d \notin replaying
    PROVE  info'[d] = info[d]
<1>1. ASSUME NEW x \in Docs, StreamInfo(x) PROVE info'[d] = info[d]
  <2>1. x # d
    BY <1>1, ZenonT(30) DEF StreamInfo, At
  <2> QED  BY <1>1, <2>1, ZenonT(30) DEF StreamInfo, TypeOK, ReqType
<1>2. ASSUME NEW x \in Docs, ReplayInfo(x) PROVE info'[d] = info[d]
  <2>1. x # d
    BY <1>2, ZenonT(30) DEF ReplayInfo
  <2> QED  BY <1>2, <2>1, ZenonT(30) DEF ReplayInfo, TypeOK, ReqType
<1> QED  BY <1>1, <1>2, InfoWriters, ZenonT(30)

\* A worker's documents only shrink between sends, and its batch is taken from
\* those it had to flush.
Shrinks(g) ==
    /\ Listed(g, "doc")' \subseteq Listed(g, "doc") /\ Ahead(g)' \subseteq Ahead(g)
    /\ Load(g)' \subseteq Load(g) /\ batch'[g] \subseteq batch[g] \cup Ahead(g)

\* A worker gains documents by sends alone.
LEMMA Loads ==
    ASSUME TypeOK, [Next]_vars, NEW g \in Gens
    PROVE  \/ \E d \in Docs : Sends(g, d) /\ Listed(g, "doc")' = Listed(g, "doc") \cup {d}
           \/ Shrinks(g)
<1> USE DEF TypeOK, WorkerType
<1> DEFINE L == Listed(g, "doc")
<1>1. ASSUME L' \subseteq L, buffer'[g] \subseteq buffer[g],
             positions'[g] \subseteq positions[g], batch'[g] \subseteq batch[g]
      PROVE  Shrinks(g)
  BY <1>1, ZenonT(30) DEF Shrinks, Ahead, Load
<1>2. ASSUME L' \subseteq L, NEW D \in SUBSET Ahead(g), StartFlush(g, D) PROVE Shrinks(g)
  <2>1. buffer'[g] = {} /\ positions'[g] = D /\ batch'[g] = D
    BY <1>2, ZenonT(30) DEF StartFlush
  <2> QED  BY <1>2, <2>1, ZenonT(30) DEF Shrinks, Ahead, Load
<1>3. CASE Receive(g)
  <2>1. /\ Head(queue[g]) \in Messages /\ queue[g] # <<>> /\ L' \subseteq L
        /\ Head(queue[g]).kind = "doc" => Head(queue[g]).doc \in L
    BY <1>3, Received, ZenonT(30)
  <2> DEFINE d == Head(queue[g]).doc
  <2>2. CASE Head(queue[g]).kind = "doc" /\ buffer' = [buffer EXCEPT ![g] = @ \cup {d}]
             /\ UNCHANGED <<positions, batch>>
    BY <2>1, <2>2, ZenonT(30) DEF Shrinks, Ahead, Load
  <2>3. CASE Head(queue[g]).kind = "doc" /\ StartFlush(g, buffer[g] \cup {d})
    <3>1. buffer[g] \cup {d} \in SUBSET Ahead(g)
      BY <2>1, <2>3, ZenonT(30) DEF Ahead
    <3> QED  BY <1>2, <2>1, <2>3, <3>1, ZenonT(30)
  <2>4. CASE UNCHANGED <<positions, batch, buffer>>
    BY <1>1, <2>1, <2>4, ZenonT(30)
  <2>5. CASE StartFlush(g, buffer[g])
    BY <1>2, <2>1, <2>5, ZenonT(30) DEF Ahead
  <2> QED  BY <1>3, <2>2, <2>3, <2>4, <2>5, ZenonT(30) DEF Receive
<1>4. CASE IdleClose(g)
  <2>1. L' = {}
    <3>1. queue'[g] = <<>>
      BY <1>4, ZenonT(30) DEF IdleClose
    <3> QED  BY <3>1, EmptyHas, ZenonT(30) DEF Listed
  <2>2. CASE StartFlush(g, L)
    BY <1>2, <2>1, <2>2, ZenonT(30) DEF Ahead
  <2>3. CASE UNCHANGED <<positions, batch, buffer>>
    BY <1>1, <2>1, <2>3, ZenonT(30)
  <2> QED  BY <1>4, <2>2, <2>3, Retired, ZenonT(30)
<1>5. CASE Crash
  <2>1. queue'[g] = <<>> /\ buffer'[g] = {} /\ positions'[g] = {} /\ batch'[g] = {}
    BY <1>5, ZenonT(30) DEF Crash
  <2>2. L' = {}
    <3>1. queue'[g] = <<>>
      BY <2>1, ZenonT(30)
    <3> QED  BY <3>1, EmptyHas, ZenonT(30) DEF Listed
  <2> QED  BY <1>1, <2>1, <2>2, ZenonT(30)
<1>6. ASSUME ~Receive(g), ~IdleClose(g), ~Crash, L' = L PROVE Shrinks(g)
  <2>1. CASE Still(g)
    BY <1>1, <1>6, <2>1, ZenonT(30) DEF Still
  <2>2. CASE Born(g)
    BY <1>1, <1>6, <2>2, ZenonT(30) DEF Born
  <2>3. CASE BatchDeadline(g)
    BY <1>2, <1>6, <2>3, ZenonT(30) DEF BatchDeadline, Ahead
  <2>4. ASSUME FinishFlush(g), UNCHANGED buffer PROVE Shrinks(g)
    <3>1. positions'[g] = {} /\ batch'[g] = {}
      BY <2>4, ZenonT(30) DEF FinishFlush
    <3> QED  BY <1>1, <1>6, <2>4, <3>1, ZenonT(30)
  <2>5. ASSUME NEW row, DropStale(g, row), UNCHANGED buffer PROVE Shrinks(g)
    <3>1. CASE batch' = [batch EXCEPT ![g] = @ \ Stale(g, row)] /\ UNCHANGED positions
      BY <1>1, <1>6, <2>5, <3>1, ZenonT(30)
    <3> QED  BY <2>4, <2>5, <3>1, ZenonT(30) DEF DropStale
  <2>6. CASE ResolveLive(g) \/ ResolveUnknown(g)
    BY <2>5, <2>6, ZenonT(30) DEF ResolveLive, ResolveUnknown
  <2>7. CASE ResolveDeleted(g) \/ BuildNothing(g) \/ ConfirmBatch(g)
    BY <2>4, <2>7, ZenonT(30) DEF ResolveDeleted, BuildNothing, ConfirmBatch
  <2>8. CASE Upload(g) \/ StageSplit(g) \/ PublishSplit(g) \/ IdleUnpublish(g)
    <3>1. UNCHANGED <<buffer, positions, batch>>
      BY <2>8, ZenonT(30) DEF Upload, StageSplit, PublishSplit, IdleUnpublish
    <3> QED  BY <1>1, <1>6, <3>1, ZenonT(30)
  <2> QED  BY <1>6, Workers, <2>1, <2>2, <2>3, <2>6, <2>7, <2>8, ZenonT(30)
     DEF Acts, WorkerStep, FlushStep
<1> QED  BY <1>3, <1>4, <1>5, <1>6, Listings, ZenonT(30)

----------------------------------------------------------------------------
(* Records of the log *)

\* A record is confirmed, and why.
Refused(d)  == (EnqueueError(d) \/ TrySend(d)) /\ req'[d] = "rejected"
Dropped(d)  == ReplaySend /\ d = feed.doc /\ handle[d] \in closed
Outdated(d) == \E g \in Gens : \/ ResolveLive(g) /\ d \in Stale(g, live)
                               \/ ResolveUnknown(g) /\ d \in Stale(g, target[g])
Deleted(d)  == \E g \in Gens : ResolveDeleted(g) /\ d \in positions[g]
Settled(d)  == \E g \in Gens : (BuildNothing(g) \/ ConfirmBatch(g)) /\ d \in batch[g]

\* What happens to the record of a document.
Record(d) ==
    \/ /\ (d \in log' <=> d \in log) /\ (d \in pending' <=> d \in pending)
       /\ (d \in acked' <=> d \in acked) /\ (d \in confirmed' <=> d \in confirmed)
    \/ /\ AppendWal(d) /\ d \in log' /\ (d \in pending' <=> d \in pending)
       /\ (d \in acked' <=> d \in acked) /\ (d \in confirmed' <=> d \in confirmed)
    \/ /\ AppendDone(d) /\ d \in log /\ d \in log' /\ d \in pending' /\ d \in acked'
       /\ (d \in confirmed' <=> d \in confirmed)
    \/ /\ Refused(d) \/ Dropped(d) \/ Outdated(d) \/ Deleted(d) \/ Settled(d)
       /\ (d \in log' <=> d \in log) /\ (d \in acked' <=> d \in acked) /\ d \notin pending'
       /\ (d \in confirmed' <=> d \in confirmed \/ d \in pending)
    \/ Crash \/ Restart

\* Nothing else happens to a record.
LEMMA Records ==
    ASSUME TypeOK, [Next]_vars, NEW d \in Docs
    PROVE  Record(d)
<1> USE DEF TypeOK
<1>1. ASSUME UNCHANGED <<log, pending, acked, confirmed>> PROVE Record(d)
  BY <1>1, ZenonT(30) DEF Record
<1>2. ASSUME NEW S \in SUBSET Docs, ConfirmWal(S),
             d \in S => Refused(d) \/ Dropped(d) \/ Outdated(d) \/ Deleted(d) \/ Settled(d)
      PROVE  Record(d)
  BY <1>2, Confirmed, ZenonT(30) DEF Record
<1>3. ASSUME NEW x \in Docs, AppendWal(x) PROVE Record(d)
  BY <1>3, ZenonT(30) DEF AppendWal, Wal!Append, Record
<1>4. ASSUME NEW x \in Docs, AppendDone(x) PROVE Record(d)
  BY <1>4, ZenonT(30) DEF AppendDone, Wal!Acknowledge, Record
<1>5. ASSUME NEW x \in Docs, Reject(x), EnqueueError(x) \/ TrySend(x) PROVE Record(d)
  <2>1. req'[x] = "rejected" /\ ConfirmWal({x})
    BY <1>5, ZenonT(30) DEF Reject, Goto, ReqType
  <2>2. {x} \in SUBSET Docs
    OBVIOUS
  <2> QED  BY <1>2, <1>5, <2>1, <2>2, ZenonT(30) DEF Refused
<1>6. ASSUME NEW x \in Docs, TrySend(x) PROVE Record(d)
  BY <1>1, <1>5, <1>6, ZenonT(30) DEF TrySend, walVars
<1>7. ASSUME NEW x \in Docs, EnqueueError(x) PROVE Record(d)
  BY <1>5, <1>7, ZenonT(30) DEF EnqueueError
<1>8. ASSUME ReplaySend PROVE Record(d)
  <2>1. feed.doc \in Docs
    BY <1>8, ZenonT(30) DEF ReplaySend, NodeType, Feeds
  <2>2. CASE handle[feed.doc] \in closed /\ ConfirmWal({feed.doc})
    <3>1. {feed.doc} \in SUBSET Docs
      BY <2>1, ZenonT(30)
    <3> QED  BY <1>2, <1>8, <2>2, <3>1, ZenonT(30) DEF Dropped
  <2> QED  BY <1>1, <1>8, <2>2, ZenonT(30) DEF ReplaySend, walVars
<1>9. ASSUME NEW g \in Gens, NEW row, DropStale(g, row), d \in Stale(g, row) => Outdated(d)
      PROVE  Record(d)
  <2>1. Stale(g, row) \in SUBSET Docs
    BY ZenonT(30) DEF Stale, WorkerType
  <2> QED  BY <1>1, <1>2, <1>9, <2>1, ZenonT(30) DEF DropStale, walVars
<1>10. ASSUME NEW g \in Gens, ResolveLive(g) PROVE Record(d)
  BY <1>9, <1>10, ZenonT(30) DEF ResolveLive, Outdated
<1>11. ASSUME NEW g \in Gens, ResolveUnknown(g) PROVE Record(d)
  BY <1>9, <1>11, ZenonT(30) DEF ResolveUnknown, Outdated
<1>12. ASSUME NEW g \in Gens, ResolveDeleted(g) PROVE Record(d)
  <2>1. positions[g] \in SUBSET Docs
    BY ZenonT(30) DEF WorkerType
  <2> QED  BY <1>2, <1>12, <2>1, ZenonT(30) DEF ResolveDeleted, Deleted
<1>13. ASSUME NEW g \in Gens, BuildNothing(g) \/ ConfirmBatch(g) PROVE Record(d)
  <2>1. batch[g] \in SUBSET Docs
    BY ZenonT(30) DEF WorkerType
  <2> QED  BY <1>2, <1>13, <2>1, ZenonT(30) DEF BuildNothing, ConfirmBatch, Settled
<1>14. ASSUME Crash \/ Restart PROVE Record(d)
  BY <1>14, ZenonT(30) DEF Record
<1> QED
  BY WalWriters, <1>1, <1>3, <1>4, <1>6, <1>7, <1>8, <1>10, <1>11, <1>12, <1>13, <1>14, ZenonT(30)

----------------------------------------------------------------------------
(* Custody: a document is with its request, with one worker, or with the replay *)

\* A worker's documents were sent, are not to be replayed and name a row.
Lodged(g) ==
    \A d \in Load(g) : req[d] \in Sent \cup {"rejected", "cut"} /\ d \notin replaying /\ info[d] # 0

\* A request is where its record is: appended before it is acknowledged,
\* acknowledged before the document is sent, confirmed after that.
Logged(d) ==
    /\ req[d] \in Early => d \notin log \cup pending \cup acked \cup confirmed
    /\ req[d] = "fsync" => d \in log /\ d \notin pending \cup acked \cup confirmed
    /\ req[d] \in Unsent => d \in log /\ d \in pending /\ d \in acked /\ d \notin confirmed

Custody ==
    /\ \A g \in Gens : Lodged(g)
    /\ \A d \in Docs : Logged(d)
    /\ replaying \subseteq pending

\* The pipeline up to here.
FlowInv == PipelineInv /\ WorkerInv /\ Custody

\* A worker that is not running has no documents.
LEMMA NoLoad ==
    ASSUME TypeOK, WorkerInv, NEW g \in Gens, wpc[g] \in {"none", "gone"}
    PROVE  Load(g) = {}
<1>1. queue[g] = <<>> /\ buffer[g] = {} /\ positions[g] = {}
  BY ZenonT(30) DEF WorkerInv, Tidy, Flushing
<1>2. Listed(g, "doc") = {}
  BY <1>1, EmptyHas, ZenonT(30) DEF Listed
<1> QED  BY <1>1, <1>2, ZenonT(30) DEF Load, Ahead

\* What a flush confirms was with the worker.
LEMMA FlushConfirms ==
    ASSUME TypeOK, WorkerInv, NEW d, Outdated(d) \/ Deleted(d) \/ Settled(d)
    PROVE  \E g \in Gens : d \in positions[g] /\ d \in Load(g) /\ wpc[g] \in Flushing /\ up
<1>1. ASSUME NEW g \in Gens, d \in positions[g] PROVE d \in Load(g)
  BY <1>1, ZenonT(30) DEF Load
<1>2. \A g \in Gens : d \in batch[g] => d \in positions[g]
  BY ZenonT(30) DEF WorkerInv, Tidy
<1> QED  BY <1>1, <1>2, ZenonT(30) DEF Outdated, Deleted, Settled, Stale, Flushing, Runs,
   ResolveLive, ResolveUnknown, ResolveDeleted, BuildNothing, ConfirmBatch

\* The replay holds requests off.
LEMMA ReplayExcludes ==
    ASSUME TypeOK, FlowInv, NEW d \in replaying
    PROVE  req[d] \in Terminal /\ d \in Docs /\ ~Serving
<1>1. d \in Docs /\ ~Serving /\ d \in pending
  BY ZenonT(30) DEF FlowInv, Custody, Serving, TypeOK, NodeType
<1>2. req[d] \in Terminal \cup {"none"}
  BY <1>1, ZenonT(30) DEF FlowInv, WorkerInv, Outage
<1>3. req[d] # "none"
  BY <1>1, ZenonT(30) DEF FlowInv, Custody, Logged, Early
<1> QED  BY <1>1, <1>2, <1>3, ZenonT(30)

\* The record in hand is one to replay.
LEMMA InHand ==
    ASSUME TypeOK, FlowInv, ReplaySend
    PROVE  /\ feed.doc \in replaying /\ feed.doc \in Docs /\ info[feed.doc] # 0 /\ UNCHANGED reqVars
           /\ replaying' = replaying \ {feed.doc} /\ crashes > 0 /\ UNCHANGED boundVars
<1>1. feed.pc = "send" /\ UNCHANGED reqVars /\ replaying' = replaying \ {feed.doc} /\ UNCHANGED boundVars
  BY ZenonT(30) DEF ReplaySend
<1>2. feed.doc \in replaying /\ crashes > 0
  BY <1>1, ZenonT(30) DEF FlowInv, WorkerInv, Outage
<1>3. info[feed.doc] # 0
  BY <1>1, ZenonT(30) DEF FlowInv, PipelineInv, RowInv, NodeRows
<1> QED  BY <1>1, <1>2, <1>3, ZenonT(30) DEF TypeOK, NodeType

\* The documents of a worker stay accounted for.
LEMMA LodgedStep ==
    ASSUME FlowInv, [Next]_vars, NEW g \in Gens
    PROVE  Lodged(g)'
<1> USE DEF FlowInv
<1>T. TypeOK /\ WorkerInv
  BY ZenonT(30) DEF PipelineInv
<1> SUFFICES ASSUME NEW d \in Load(g)'
             PROVE  req'[d] \in Sent \cup {"rejected", "cut"} /\ d \notin replaying' /\ info'[d] # 0
  BY ZenonT(30) DEF Lodged
<1>1. CASE d \in Load(g)
  <2>1. /\ d \in Docs /\ req[d] \in Sent \cup {"rejected", "cut"} /\ d \notin replaying /\ info[d] # 0
    BY <1>1, <1>T, ZenonT(30) DEF Custody, Lodged, Load, Ahead, Listed, TypeOK, WorkerType
  <2>2. ~Restart
    BY <1>1, <1>T, RestartReads, NoLoad, ZenonT(30) DEF WorkerInv, Outage
  <2>3. d \notin replaying'
    BY <1>T, <2>1, <2>2, ReplayShrinks, ZenonT(30)
  <2>4. info'[d] # 0
    <3>1. req[d] \notin {"resolve", "enqueue"}
      BY <2>1, ZenonT(30) DEF Sent
    <3> QED  BY <1>T, <2>1, <3>1, InfoFixed, ZenonT(30)
  <2>5. req'[d] \in Sent \cup {"rejected", "cut"}
    BY <1>T, <2>1, Moves, ZenonT(30) DEF Move, Sent, Terminal
  <2> QED  BY <2>3, <2>4, <2>5, ZenonT(30)
<1>2. CASE d \notin Load(g)
  <2>1. PICK x \in Docs : Sends(g, x) /\ Listed(g, "doc")' = Listed(g, "doc") \cup {x}
    BY <1>2, <1>T, Loads, ZenonT(30) DEF Shrinks
  <2>2. d = x
    BY <1>2, <2>1, ZenonT(30) DEF Load, Ahead, Sends
  <2>3. CASE TrySend(x) /\ req[x] \in {"send", "resend"} /\ req'[x] \in {"refresh", "accepted"}
    <3>1. Serving /\ UNCHANGED <<info, replaying>>
      BY <2>3, ZenonT(30) DEF TrySend, At, replayVars
    <3>2. info[x] # 0
      BY <2>3, ZenonT(30) DEF PipelineInv, RowInv, NodeRows
    <3> QED  BY <2>2, <2>3, <3>1, <3>2, ZenonT(30) DEF Serving, Sent
  <2>4. CASE ReplaySend /\ x = feed.doc
    <3>1. req[x] \in Terminal /\ UNCHANGED <<req, info>> /\ x \notin replaying' /\ info[x] # 0
      BY <1>T, <2>4, InHand, ReplayExcludes, ZenonT(30) DEF reqVars
    <3> QED  BY <2>2, <3>1, ZenonT(30) DEF Terminal, Sent
  <2> QED  BY <2>1, <2>3, <2>4, ZenonT(30) DEF Sends
<1> QED  BY <1>1, <1>2, ZenonT(30)

\* A request and its record stay in step.
LEMMA LoggedStep ==
    ASSUME FlowInv, [Next]_vars, NEW d \in Docs
    PROVE  Logged(d)'
<1> USE DEF FlowInv
<1>T. TypeOK /\ WorkerInv /\ Logged(d) /\ Move(d) /\ Record(d)
  BY Moves, Records, ZenonT(30) DEF PipelineInv, Custody
<1>R. Restart => req[d] \in Terminal \cup {"none"}
  BY <1>T, RestartReads, ZenonT(30) DEF WorkerInv, Outage, Serving
<1>1. ASSUME req'[d] \in Early PROVE d \notin log' \cup pending' \cup acked' \cup confirmed'
  <2>1. req[d] \in Early /\ ~AppendWal(d) /\ ~AppendDone(d)
    BY <1>1, <1>T, ZenonT(30) DEF Move, Early, AppendWal, AppendDone, At, Goto, PipelineInv, TypeOK, ReqType
  <2>2. d \notin log \cup pending \cup acked \cup confirmed
    BY <1>T, <2>1, ZenonT(30) DEF Logged
  <2>3. CASE Crash \/ Restart
    BY <1>T, <2>2, <2>3, CrashClears, RestartReads, ZenonT(30)
  <2> QED  BY <1>T, <2>1, <2>2, <2>3, ZenonT(30) DEF Record
<1>2. ASSUME req'[d] = "fsync" PROVE d \in log' /\ d \notin pending' \cup acked' \cup confirmed'
  <2>1. CASE AppendWal(d)
    <3>1. req[d] = "append"
      BY <2>1, ZenonT(30) DEF AppendWal, At
    <3> QED  BY <1>T, <2>1, <3>1, ZenonT(30) DEF AppendWal, Wal!Append, Logged, Early
  <2>2. CASE ~AppendWal(d)
    <3>1. req[d] = "fsync" /\ ~AppendDone(d) /\ ~Crash /\ ~Restart
      BY <1>2, <1>T, <1>R, <2>2, ZenonT(30) DEF Move, AppendDone, At, Goto, PipelineInv, TypeOK, ReqType, Crash, Terminal
    <3> QED  BY <1>T, <2>2, <3>1, ZenonT(30) DEF Record, Logged
  <2> QED  BY <2>1, <2>2, ZenonT(30)
<1>3. ASSUME req'[d] \in Unsent PROVE d \in log' /\ d \in pending' /\ d \in acked' /\ d \notin confirmed'
  <2>1. CASE AppendDone(d)
    <3>1. req[d] = "fsync"
      BY <2>1, ZenonT(30) DEF AppendDone, At
    <3> QED  BY <1>T, <2>1, <3>1, ZenonT(30) DEF AppendDone, Wal!Acknowledge, Logged
  <2>2. CASE ~AppendDone(d)
    <3>1. req[d] \in Unsent /\ ~Crash /\ ~Restart
      BY <1>3, <1>T, <1>R, <2>2, ZenonT(30) DEF Move, Unsent, Crash, Terminal
    <3>2. ~AppendWal(d) /\ ~Refused(d)
      BY <1>3, <3>1, ZenonT(30) DEF Unsent, AppendWal, At, Refused
    <3>3. ~Dropped(d)
      <4>1. req[d] \notin Terminal
        BY <3>1, ZenonT(30) DEF Unsent, Terminal
      <4> QED  BY <1>T, <4>1, InHand, ReplayExcludes, ZenonT(30) DEF Dropped
    <3>4. ~(Outdated(d) \/ Deleted(d) \/ Settled(d))
      <4>1. \A g \in Gens : d \notin Load(g)
        BY <3>1, ZenonT(30) DEF Custody, Lodged, Unsent, Sent
      <4> QED  BY <1>T, <4>1, FlushConfirms, ZenonT(30)
    <3> QED  BY <1>T, <2>2, <3>1, <3>2, <3>3, <3>4, ZenonT(30) DEF Record, Logged
  <2> QED  BY <2>1, <2>2, ZenonT(30)
<1> QED  BY <1>1, <1>2, <1>3, ZenonT(30) DEF Logged

\* What is to be replayed is in the log, unconfirmed.
LEMMA ReplayingStep ==
    ASSUME FlowInv, [Next]_vars
    PROVE  replaying' \subseteq pending'
<1> USE DEF FlowInv
<1>T. TypeOK /\ WorkerInv
  BY ZenonT(30) DEF PipelineInv
<1>1. CASE Restart
  BY <1>1, RestartReads, ZenonT(30)
<1>2. CASE Crash
  BY <1>T, <1>2, CrashClears, ZenonT(30)
<1>3. ASSUME ~Restart, ~Crash, NEW d \in replaying' PROVE d \in pending'
  <2>1. d \in replaying /\ d \in pending /\ d \in Docs
    BY <1>3, <1>T, ReplayShrinks, ZenonT(30) DEF Custody, TypeOK, NodeType
  <2>2. ~Refused(d)
    BY <1>T, <2>1, ReplayExcludes, ZenonT(30) DEF Refused, EnqueueError, TrySend, At
  <2>3. ~Dropped(d)
    BY <1>T, <1>3, InHand, ZenonT(30) DEF Dropped
  <2>4. ~(Outdated(d) \/ Deleted(d) \/ Settled(d))
    <3>1. \A g \in Gens : d \notin Load(g)
      BY <2>1, ZenonT(30) DEF Custody, Lodged
    <3> QED  BY <1>T, <3>1, FlushConfirms, ZenonT(30)
  <2> QED  BY <1>T, <1>3, <2>1, <2>2, <2>3, <2>4, Records, ZenonT(30) DEF Record
<1> QED  BY <1>1, <1>2, <1>3, ZenonT(30)

\* The pipeline starts with nothing in flight.
LEMMA InitFlow == Init => FlowInv
<1> SUFFICES ASSUME Init PROVE FlowInv
  OBVIOUS
<1>1. TypeOK /\ WorkerInv /\ PipelineInv
  BY InitTypes, InitRows, InitSplits, InitWorkers, ZenonT(30) DEF PipelineInv
<1>2. \A g \in Gens : Load(g) = {}
  <2>1. \A g \in Gens : wpc[g] = "none"
    BY ZenonT(30) DEF Init
  <2> QED  BY <1>1, <2>1, NoLoad, ZenonT(30)
<1>3. Custody
  BY <1>2, ZenonT(30) DEF Init, Wal!Init, Custody, Lodged, Logged, Early, Unsent
<1> QED  BY <1>1, <1>3, ZenonT(30) DEF FlowInv

\* Every step keeps documents in custody.
LEMMA FlowStep == FlowInv /\ [Next]_vars => FlowInv'
<1> SUFFICES ASSUME FlowInv, [Next]_vars PROVE FlowInv'
  OBVIOUS
<1>1. PipelineInv' /\ WorkerInv'
  BY PipelineStep, WorkerStepInv, ZenonT(30) DEF FlowInv, PipelineInv
<1>2. Custody'
  BY LodgedStep, LoggedStep, ReplayingStep, ZenonT(30) DEF Custody
<1> QED  BY <1>1, <1>2, ZenonT(30) DEF FlowInv

\* So documents are always in custody (bulk_api.rs handle_bulk_local, pipeline.rs
\* enqueue, replay and stream_worker).
THEOREM FlowInvariant == Spec => []FlowInv
BY InitFlow, FlowStep, PTL DEF Spec

----------------------------------------------------------------------------
(* No acknowledged document is lost *)

\* The counts of deletions, retirements and crashes only grow.
LEMMA CountsGrow ==
    ASSUME TypeOK, [Next]_vars
    PROVE  deletes <= deletes' /\ retires <= retires' /\ crashes <= crashes'
<1> USE DEF TypeOK, MetaType, BoundType
<1>1. deletes' = deletes \/ deletes' = deletes + 1
  BY RowWriters, ZenonT(30) DEF StreamInfo, LookupWorker, ReplayInfo, ReplayLookup, DeleteIndex, boundVars
<1>2. retires' = retires \/ retires' = retires + 1
  BY BoundWriters, ZenonT(30) DEF EnqueueError, Upload, StageSplit, PublishSplit, IdleUnpublish,
     ResolveUnknown, SweepList, Crash
<1>3. crashes' = crashes \/ crashes' = crashes + 1
  BY BoundWriters, ZenonT(30) DEF EnqueueError, Upload, StageSplit, PublishSplit, IdleUnpublish,
     ResolveUnknown, SweepList, Crash
<1> QED  BY <1>1, <1>2, <1>3

\* Before the first deletion the live row is the only one.
LEMMA OnlyRow ==
    ASSUME TypeOK, deletes = 0, NEW k \in Nat, Known(k)
    PROVE  k = live /\ live # 0
BY DEF Known, TypeOK, MetaType

\* How a document comes to have been sent.
LEMMA BecomesSent ==
    ASSUME TypeOK, [Next]_vars, NEW d \in Docs, req'[d] \in Sent
    PROVE  \/ req[d] \in Sent
           \/ TrySend(d) /\ req[d] \in {"send", "resend"} /\ req'[d] \in {"refresh", "accepted"}
BY Moves, ZenonT(30) DEF Move, Sent

\* While the index was not deleted, and workers retire or the node crashes but
\* not both, a document that was sent is searchable or in the log, unconfirmed.
Safe(d) == d \in indexed \/ (d \in log /\ d \in acked /\ d \notin confirmed /\ (up => d \in pending))
KeptInv ==
    deletes = 0 /\ (retires = 0 \/ crashes = 0) =>
        \A d \in Docs \ plan.poison : req[d] \in Sent => Safe(d)

\* What flushes and replays confirm is searchable, skipped, or dropped for a
\* reason: both a retirement and a crash, or a deletion.
LEMMA KeptStep ==
    ASSUME FlowInv, KeptInv, [Next]_vars
    PROVE  KeptInv'
<1> USE DEF FlowInv
<1>T. TypeOK /\ WorkerInv /\ RowInv
  BY ZenonT(30) DEF PipelineInv
<1> SUFFICES ASSUME deletes' = 0, retires' = 0 \/ crashes' = 0,
                    NEW d \in Docs, d \notin plan'.poison, req'[d] \in Sent
             PROVE  Safe(d)'
  BY ZenonT(30) DEF KeptInv
<1>1. deletes = 0 /\ (retires = 0 \/ crashes = 0)
  BY <1>T, CountsGrow DEF TypeOK, MetaType, BoundType
<1>2. d \notin plan.poison
  BY <1>T, PlanKept, ZenonT(30)
<1>3. Safe(d)
  <2>1. CASE req[d] \in Sent
    BY <1>1, <1>2, <2>1, ZenonT(30) DEF KeptInv
  <2>2. CASE req[d] \in {"send", "resend"}
    BY <2>2, ZenonT(30) DEF Custody, Logged, Unsent, Safe
  <2> QED  BY <1>T, <2>1, <2>2, BecomesSent, ZenonT(30)
<1>4. indexed \subseteq indexed'
  BY IndexedWriters, ZenonT(30) DEF PublishSplit
<1>5. CASE d \in indexed
  BY <1>4, <1>5, ZenonT(30) DEF Safe
<1>6. CASE d \notin indexed
  <2>1. d \in log /\ d \in acked /\ d \notin confirmed /\ (up => d \in pending)
    BY <1>3, <1>6, ZenonT(30) DEF Safe
  <2>2. CASE Crash
    BY <1>T, <2>1, <2>2, CrashClears, ZenonT(30) DEF Safe
  <2>3. CASE Restart
    BY <2>1, <2>3, RestartReads, ZenonT(30) DEF Safe
  <2>4. CASE ~Crash /\ ~Restart
    <3>1. ~Refused(d)
      BY ZenonT(30) DEF Refused, Sent
    <3>2. ~Dropped(d)
      <4>1. ASSUME Dropped(d) PROVE closed # {} /\ crashes > 0
        BY <1>T, <4>1, InHand, ZenonT(30) DEF Dropped
      <4> QED  BY <1>1, <4>1 DEF WorkerInv, Retirement
    <3>3. \A g \in Gens : d \in Load(g) => info[d] = live
      <4>1. \A g \in Gens : d \in Load(g) => info[d] # 0
        BY ZenonT(30) DEF Custody, Lodged
      <4>2. info[d] # 0 => Known(info[d]) /\ info[d] \in Nat
        BY <1>T, ZenonT(30) DEF RowInv, NodeRows, TypeOK, ReqType
      <4> QED  BY <1>T, <1>1, <4>1, <4>2, OnlyRow, ZenonT(30)
    <3>4. \A g \in Gens : wpc[g] = "resolve" => target[g] = live /\ live # 0
      <4>1. \A g \in Gens : wpc[g] = "resolve" => Known(target[g]) /\ target[g] \in Nat
        BY <1>T, ZenonT(30) DEF RowInv, BoundRows, TypeOK, WorkerType
      <4> QED  BY <1>T, <1>1, <4>1, OnlyRow, ZenonT(30)
    <3>5. \A g \in Gens : d \in batch[g] => d \in Load(g)
      BY ZenonT(30) DEF WorkerInv, Tidy, Load
    <3>6. ~Outdated(d)
      BY <3>3, <3>4, <3>5, ZenonT(30) DEF Outdated, Stale, ResolveLive, ResolveUnknown, Runs
    <3>7. ~Deleted(d)
      BY <3>4, ZenonT(30) DEF Deleted, ResolveDeleted, Runs
    <3>8. ~Settled(d)
      <4>1. ASSUME NEW g \in Gens, BuildNothing(g), d \in batch[g] PROVE FALSE
        BY <1>2, <4>1, ZenonT(30) DEF BuildNothing
      <4>2. ASSUME NEW g \in Gens, ConfirmBatch(g), d \in batch[g] PROVE FALSE
        <5>1. wpc[g] = "confirm"
          BY <4>2, ZenonT(30) DEF ConfirmBatch, Runs
        <5>2. batch[g] \ plan.poison \subseteq indexed
          BY <5>1, ZenonT(30) DEF PipelineInv, SplitInv, Confirming
        <5> QED  BY <1>2, <1>6, <4>2, <5>2, ZenonT(30)
      <4> QED  BY <4>1, <4>2, ZenonT(30) DEF Settled
    <3>9. up' => up
      <4>1. ASSUME ~up PROVE up' = up
        BY <2>4, <4>1, Down, ZenonT(30) DEF walVars
      <4> QED  BY <4>1, ZenonT(30)
    <3>10. d \in log' /\ d \in acked' /\ d \notin confirmed' /\ (d \in pending => d \in pending')
      BY <1>T, <2>1, <2>4, <3>1, <3>2, <3>6, <3>7, <3>8, Records, ZenonT(30) DEF Record
    <3> QED  BY <2>1, <3>9, <3>10, ZenonT(30) DEF Safe
  <2> QED  BY <2>2, <2>3, <2>4, ZenonT(30)
<1> QED  BY <1>5, <1>6, ZenonT(30)

\* No acknowledged document is lost, whatever fails and whenever the node
\* crashes, until the index is deleted: without retirements of idle workers or
\* without crashes (a replay drops the record it holds for a worker that
\* retired since the lookup, pipeline.rs replay).
THEOREM AcceptedIsKept == Spec => [](retires = 0 \/ crashes = 0 => AcceptedKept)
<1>1. Init => KeptInv
  BY ZenonT(30) DEF Init, KeptInv, Sent
<1>2. FlowInv /\ KeptInv => (retires = 0 \/ crashes = 0 => AcceptedKept)
  <2> SUFFICES ASSUME FlowInv, KeptInv, retires = 0 \/ crashes = 0, deletes = 0,
                      NEW d \in Accepted, d \notin plan.poison
               PROVE  d \in indexed \/ (d \in log /\ (up => d \in pending))
    BY DEF AcceptedKept, FlowInv, PipelineInv, TypeOK, MetaType
  <2>1. d \in Docs /\ req[d] \in Sent
    BY ZenonT(30) DEF Accepted, Sent
  <2> QED  BY <2>1, ZenonT(30) DEF KeptInv, Safe
<1> QED  BY <1>1, <1>2, FlowInvariant, KeptStep, PTL DEF Spec

----------------------------------------------------------------------------
(* Deleted documents stay deleted, others are not dropped *)

\* A batch being written belongs to the row it is written to.
Bound(g) == wpc[g] \in {"build", "stage", "publish"} => \A d \in batch[g] : info[d] = target[g]

\* Without crashes every queued document was sent, ...
SentLoad == crashes = 0 => \A g \in Gens : \A d \in Load(g) : req[d] \in Sent

\* ... against a row that existed when it was acknowledged, and it is only
\* ever in splits of that row.
Origin ==
    crashes = 0 =>
      /\ \A d \in Docs : req[d] \in Sent => info[d] <= done[d] + 1
      /\ \A s \in Splits : \A d \in split[s].docs : req[d] \in Sent /\ split[s].row = info[d]

\* And what a flush confirms is searchable or belongs to a retired row, as
\* long as the worker can ask which row is live.
Drops ==
    crashes = 0 /\ "resolve" \notin plan.kinds =>
      \A d \in confirmed \ plan.poison : req[d] \in Sent => d \in indexed \/ info[d] <= deletes

FateInv == FlowInv /\ (\A g \in Gens : Bound(g)) /\ SentLoad /\ Origin /\ Drops

\* The row of a worker's documents is fixed.
LEMMA LoadRow ==
    ASSUME FlowInv, [Next]_vars, NEW g \in Gens, NEW d \in Load(g)
    PROVE  info'[d] = info[d] /\ d \in Docs
<1>1. d \in Docs /\ req[d] \in Sent \cup {"rejected", "cut"} /\ d \notin replaying
  BY ZenonT(30) DEF FlowInv, PipelineInv, Custody, Lodged, Load, Ahead, Listed, TypeOK, WorkerType
<1>2. req[d] \notin {"resolve", "enqueue"}
  BY <1>1, ZenonT(30) DEF Sent
<1> QED  BY <1>1, <1>2, InfoFixed, ZenonT(30) DEF FlowInv, PipelineInv

\* A flush drops the stale documents before it builds, and its row does not
\* change until it resolves again.
LEMMA BoundStep ==
    ASSUME FateInv, [Next]_vars, NEW g \in Gens
    PROVE  Bound(g)'
<1> USE DEF FateInv
<1>T. TypeOK /\ WorkerInv
  BY ZenonT(30) DEF FlowInv, PipelineInv
<1> SUFFICES ASSUME wpc'[g] \in {"build", "stage", "publish"}, NEW d \in batch'[g]
             PROVE  info'[d] = target'[g]
  BY ZenonT(30) DEF Bound
<1>B. ASSUME d \in batch[g] PROVE info'[d] = info[d]
  BY <1>B, LoadRow, ZenonT(30) DEF FlowInv, WorkerInv, Tidy, Load
<1>1. CASE wpc[g] \in {"build", "stage", "publish"} /\ batch'[g] = batch[g] /\ target'[g] = target[g]
  BY <1>1, <1>B, ZenonT(30) DEF Bound
<1>2. CASE Still(g)
  BY <1>1, <1>2, ZenonT(30) DEF Still
<1>3. CASE Acts(g)
  <2>1. CASE wpc'[g] \in {"stage", "publish"}
    <3>1. Upload(g) \/ StageSplit(g)
      BY <1>T, <1>3, <2>1, Arrivals, ZenonT(30) DEF TypeOK
    <3> QED  BY <1>1, <3>1, ZenonT(30) DEF Upload, StageSplit, Runs
  <2>2. CASE wpc'[g] = "build"
    <3>1. ASSUME NEW row, DropStale(g, row)
          PROVE  batch'[g] = batch[g] \ Stale(g, row)
      <4>1. ~ FinishFlush(g)
        BY <1>T, <2>2, ZenonT(30) DEF FinishFlush, TypeOK, WorkerType
      <4> QED  BY <1>T, <3>1, <4>1, ZenonT(30) DEF DropStale, TypeOK, WorkerType
    <3>2. CASE ResolveLive(g)
      <4>1. target'[g] = live /\ batch'[g] = batch[g] \ Stale(g, live)
        BY <1>T, <3>1, <3>2, ZenonT(30) DEF ResolveLive, TypeOK, WorkerType
      <4> QED  BY <1>B, <4>1, ZenonT(30) DEF Stale
    <3>3. CASE ResolveUnknown(g)
      <4>1. target'[g] = target[g] /\ batch'[g] = batch[g] \ Stale(g, target[g])
        BY <3>1, <3>3, ZenonT(30) DEF ResolveUnknown
      <4> QED  BY <1>B, <4>1, ZenonT(30) DEF Stale
    <3> QED  BY <1>T, <1>3, <2>2, <3>2, <3>3, Arrivals, ZenonT(30) DEF TypeOK
  <2> QED  BY <2>1, <2>2, ZenonT(30)
<1>4. CASE Born(g)
  BY <1>4, ZenonT(30) DEF Born
<1>5. CASE Crash
  BY <1>5, <1>T, CrashClears, ZenonT(30)
<1> QED  BY <1>T, <1>2, <1>3, <1>4, <1>5, Workers, ZenonT(30)

\* A request that was sent stays sent, short of a crash.
LEMMA StaysSent ==
    ASSUME TypeOK, [Next]_vars, crashes' = 0, NEW d \in Docs, req[d] \in Sent
    PROVE  req'[d] \in Sent
<1>1. ~Crash
  BY CrashClears DEF TypeOK, BoundType
<1> QED  BY <1>1, Moves, ZenonT(30) DEF Move, Sent

\* Queued documents were sent.
LEMMA SentLoadStep ==
    ASSUME FateInv, [Next]_vars
    PROVE  SentLoad'
<1> USE DEF FateInv
<1>T. TypeOK /\ FlowInv
  BY ZenonT(30) DEF FlowInv, PipelineInv
<1> SUFFICES ASSUME crashes' = 0, NEW g \in Gens, NEW d \in Load(g)'
             PROVE  req'[d] \in Sent
  BY ZenonT(30) DEF SentLoad
<1>0. crashes = 0
  BY <1>T, CountsGrow DEF TypeOK, BoundType
<1>1. CASE d \in Load(g)
  BY <1>T, <1>0, <1>1, LoadRow, StaysSent, ZenonT(30) DEF SentLoad
<1>2. CASE d \notin Load(g)
  <2>1. PICK x \in Docs : Sends(g, x) /\ Listed(g, "doc")' = Listed(g, "doc") \cup {x}
    BY <1>2, <1>T, Loads, ZenonT(30) DEF Shrinks
  <2>2. d = x
    BY <1>2, <2>1, ZenonT(30) DEF Load, Ahead, Sends
  <2>3. ~ReplaySend
    BY <1>T, <1>0, InHand
  <2> QED  BY <2>1, <2>2, <2>3, ZenonT(30) DEF Sends, Sent
<1> QED  BY <1>1, <1>2, ZenonT(30)

\* A document is only written to splits of the row it was accepted against.
LEMMA OriginStep ==
    ASSUME FateInv, [Next]_vars
    PROVE  Origin'
<1> USE DEF FateInv
<1>T. TypeOK /\ FlowInv /\ RowInv /\ SplitInv /\ WorkerInv
  BY ZenonT(30) DEF FlowInv, PipelineInv
<1> SUFFICES ASSUME crashes' = 0
             PROVE  /\ \A d \in Docs : req'[d] \in Sent => info'[d] <= done'[d] + 1
                    /\ \A s \in Splits : \A d \in split'[s].docs :
                         req'[d] \in Sent /\ split'[s].row = info'[d]
  BY ZenonT(30) DEF Origin
<1>0. crashes = 0
  BY <1>T, CountsGrow DEF TypeOK, BoundType
<1>I. ASSUME NEW d \in Docs, req[d] \in Sent PROVE info'[d] = info[d]
  <2>1. d \notin replaying
    BY <1>T, <1>0 DEF WorkerInv, Outage
  <2>2. req[d] \notin {"resolve", "enqueue"}
    BY <1>I, ZenonT(30) DEF Sent
  <2> QED  BY <1>T, <2>1, <2>2, InfoFixed, ZenonT(30)
<1>1. ASSUME NEW d \in Docs, req'[d] \in Sent PROVE info'[d] <= done'[d] + 1
  <2>1. CASE req[d] \in Sent
    <3>1. info[d] <= done[d] + 1
      BY <1>0, <2>1, ZenonT(30) DEF Origin
    <3>2. done'[d] = done[d]
      <4>1. ASSUME NEW x \in Docs, TrySend(x) PROVE done'[d] = done[d]
        <5>1. x # d
          <6>1. req[x] \in {"send", "resend"}
            BY <4>1, ZenonT(30) DEF TrySend, At
          <6> QED  BY <2>1, <6>1, ZenonT(30) DEF Sent
        <5> QED  BY <1>T, <4>1, <5>1, ZenonT(30) DEF TrySend, TypeOK, ReqType
      <4> QED  BY <4>1, DoneWriters, ZenonT(30)
    <3> QED  BY <1>I, <2>1, <3>1, <3>2, ZenonT(30)
  <2>2. CASE TrySend(d) /\ req[d] \in {"send", "resend"} /\ req'[d] \in {"refresh", "accepted"}
    <3>1. info' = info
      BY <2>2, ZenonT(30) DEF TrySend
    <3>2. done' = [done EXCEPT ![d] = deletes]
      <4>1. ~Goto(d, "relookup") /\ ~Reject(d)
        BY <1>T, <2>2, ZenonT(30) DEF Reject, Goto, TypeOK, ReqType
      <4> QED  BY <2>2, <4>1, ZenonT(30) DEF TrySend
    <3>3. info[d] <= deletes + 1
      BY <1>T, <2>2 DEF RowInv, NodeRows, LiveRow, Known, TypeOK, MetaType, ReqType
    <3> QED  BY <1>T, <3>1, <3>2, <3>3, ZenonT(30) DEF TypeOK, ReqType
  <2> QED  BY <1>T, <1>1, <2>1, <2>2, BecomesSent, ZenonT(30)
<1>2. ASSUME NEW s \in Splits, NEW d \in split'[s].docs PROVE req'[d] \in Sent /\ split'[s].row = info'[d]
  <2>0. TypeOK'
    BY <1>T, TypeStep, ZenonT(30)
  <2>1. d \in Docs
    BY <2>0, ZenonT(30) DEF TypeOK, MetaType, SplitRows
  <2>2. CASE split'[s].row = split[s].row /\ split'[s].docs = split[s].docs
    <3>1. req[d] \in Sent /\ split[s].row = info[d]
      BY <1>0, <1>2, <2>2, ZenonT(30) DEF Origin
    <3> QED  BY <1>T, <1>I, <2>1, <2>2, <3>1, StaysSent, ZenonT(30)
  <2>3. ASSUME NEW g \in Gens, StageSplit(g), split'[s].row = target[g],
               split'[s].docs = batch[g] \ plan.poison
        PROVE  req'[d] \in Sent /\ split'[s].row = info'[d]
    <3>1. wpc[g] = "stage" /\ d \in batch[g] /\ d \in Load(g)
      BY <1>T, <1>2, <2>3, ZenonT(30) DEF StageSplit, Runs, WorkerInv, Tidy, Load
    <3>2. info[d] = target[g]
      BY <3>1, ZenonT(30) DEF Bound
    <3>3. req[d] \in Sent
      BY <1>0, <3>1, ZenonT(30) DEF SentLoad
    <3> QED  BY <1>T, <1>I, <2>1, <2>3, <3>2, <3>3, StaysSent, ZenonT(30)
  <2> QED  BY <1>T, <2>2, <2>3, Lifecycles, ZenonT(30) DEF Lifecycle
<1> QED  BY <1>1, <1>2, ZenonT(30)

\* A flush drops documents of retired rows alone.
LEMMA DropsStep ==
    ASSUME FateInv, [Next]_vars
    PROVE  Drops'
<1> USE DEF FateInv
<1>T. TypeOK /\ FlowInv /\ RowInv /\ SplitInv /\ WorkerInv
  BY ZenonT(30) DEF FlowInv, PipelineInv
<1> SUFFICES ASSUME crashes' = 0, "resolve" \notin plan'.kinds,
                    NEW d \in confirmed', d \notin plan'.poison, req'[d] \in Sent, d \notin indexed'
             PROVE  info'[d] <= deletes'
  BY ZenonT(30) DEF Drops
<1>0. crashes = 0 /\ deletes <= deletes'
  BY <1>T, CountsGrow DEF TypeOK, BoundType
<1>1. "resolve" \notin plan.kinds /\ d \notin plan.poison
  BY <1>T, PlanKept, ZenonT(30)
<1>2. d \in Docs /\ d \notin indexed
  <2>1. TypeOK' /\ indexed \subseteq indexed'
    BY <1>T, TypeStep, IndexedWriters, ZenonT(30) DEF PublishSplit
  <2> QED  BY <2>1, ZenonT(30) DEF TypeOK, WalType
<1>3. d \notin replaying /\ deletes \in Nat /\ deletes' \in Nat /\ info[d] \in Nat
  <2>1. TypeOK'
    BY <1>T, TypeStep, ZenonT(30)
  <2> QED  BY <1>T, <1>0, <1>2, <2>1 DEF WorkerInv, Outage, TypeOK, MetaType, ReqType
<1>4. CASE d \in confirmed
  <2>1. req[d] \in Sent
    <3>1. req[d] \notin {"send", "resend"}
      BY <1>2, <1>4, ZenonT(30) DEF FlowInv, Custody, Logged, Unsent
    <3> QED  BY <1>T, <1>2, <3>1, BecomesSent, ZenonT(30)
  <2>2. info[d] <= deletes
    BY <1>0, <1>1, <1>2, <1>4, <2>1, ZenonT(30) DEF Drops
  <2>3. info'[d] = info[d]
    <3>1. req[d] \notin {"resolve", "enqueue"}
      BY <2>1, ZenonT(30) DEF Sent
    <3> QED  BY <1>T, <1>2, <1>3, <3>1, InfoFixed, ZenonT(30)
  <2> QED  BY <1>0, <1>3, <2>2, <2>3
<1>5. CASE d \notin confirmed
  <2>1. ~Crash /\ ~Restart
    BY <1>T, <1>5, CrashClears, RestartReads, ZenonT(30)
  <2>2. Dropped(d) \/ Outdated(d) \/ Deleted(d) \/ Settled(d)
    <3>1. ~Refused(d)
      BY ZenonT(30) DEF Refused, Sent
    <3> QED  BY <1>T, <1>2, <1>5, <2>1, <3>1, Records, ZenonT(30) DEF Record
  <2>3. ~Dropped(d)
    <3>1. ~ReplaySend
      BY <1>T, <1>0, InHand
    <3> QED  BY <3>1, ZenonT(30) DEF Dropped
  <2>4. ~Settled(d)
    <3>1. ASSUME NEW g \in Gens, BuildNothing(g), d \in batch[g] PROVE FALSE
      BY <1>1, <3>1, ZenonT(30) DEF BuildNothing
    <3>2. ASSUME NEW g \in Gens, ConfirmBatch(g), d \in batch[g] PROVE FALSE
      BY <1>1, <1>2, <1>T, <3>2, ZenonT(30) DEF ConfirmBatch, Runs, SplitInv, Confirming
    <3> QED  BY <3>1, <3>2, ZenonT(30) DEF Settled
  <2>5. PICK g \in Gens : d \in Load(g)
    BY <1>T, <2>2, <2>3, <2>4, FlushConfirms, ZenonT(30)
  <2>6. info[d] # 0 /\ Known(info[d]) /\ info'[d] = info[d]
    BY <1>T, <1>2, <2>5, LoadRow, ZenonT(30) DEF RowInv, NodeRows, FlowInv, Custody, Lodged
  <2>7. info[d] # live
    <3>1. \A h \in Gens : ~ResolveUnknown(h)
      BY <1>1, ZenonT(30) DEF ResolveUnknown, Fault
    <3>2. CASE Outdated(d)
      BY <3>1, <3>2, ZenonT(30) DEF Outdated, Stale
    <3>3. CASE Deleted(d)
      BY <2>6, <3>3, ZenonT(30) DEF Deleted, ResolveDeleted
    <3> QED  BY <2>2, <2>3, <2>4, <3>2, <3>3, ZenonT(30)
  <2> QED  BY <1>0, <1>3, <2>6, <2>7 DEF Known
<1> QED  BY <1>4, <1>5, ZenonT(30)

\* Every run starts so.
LEMMA InitFate == Init => FateInv
<1> SUFFICES ASSUME Init PROVE FateInv
  OBVIOUS
<1>1. FlowInv /\ TypeOK /\ WorkerInv
  BY InitFlow, ZenonT(30) DEF FlowInv, PipelineInv
<1>2. \A g \in Gens : wpc[g] = "none" /\ Load(g) = {}
  <2>1. \A g \in Gens : wpc[g] = "none"
    BY ZenonT(30) DEF Init
  <2> QED  BY <1>1, <2>1, NoLoad, ZenonT(30)
<1>3. Origin /\ Drops
  <2>1. \A d \in Docs : req[d] \notin Sent
    BY ZenonT(30) DEF Init, Sent
  <2>2. \A s \in Splits : split[s].docs = {}
    BY ZenonT(30) DEF Init, NoSplit
  <2> QED  BY <2>1, <2>2, ZenonT(30) DEF Origin, Drops, Init, Wal!Init
<1> QED  BY <1>1, <1>2, <1>3, ZenonT(30) DEF FateInv, Bound, SentLoad

\* Origins and drops are inductive.
LEMMA FateStep == FateInv /\ [Next]_vars => FateInv'
<1> SUFFICES ASSUME FateInv, [Next]_vars PROVE FateInv'
  OBVIOUS
<1>1. FlowInv'
  BY FlowStep, ZenonT(30) DEF FateInv
<1> QED  BY <1>1, BoundStep, SentLoadStep, OriginStep, DropsStep, ZenonT(30) DEF FateInv

\* Origins and drops hold of every run.
LEMMA FateInvariant == Spec => []FateInv
<1> QED  BY InitFate, FateStep, PTL DEF Spec

\* A document whose write was acknowledged before a deletion is never visible
\* in a later incarnation of the index, as long as the node does not crash
\* between them (the records of the log carry the index's name and no row, and
\* a replay resolves it again).
THEOREM NothingResurrected == Spec => [](crashes = 0 \/ deletes = 0 => NotResurrected)
<1>1. FateInv => (crashes = 0 \/ deletes = 0 => NotResurrected)
  <2> SUFFICES ASSUME FateInv, crashes = 0 \/ deletes = 0, NEW s \in Splits,
                      NEW d \in split[s].docs, d \in Accepted, split[s].state = "published"
               PROVE  split[s].row <= done[d] + 1
    BY ZenonT(30) DEF NotResurrected
  <2>1. d \in Docs /\ req[d] \in Sent
    BY ZenonT(30) DEF Accepted, Sent
  <2>2. CASE crashes = 0
    BY <2>1, <2>2, ZenonT(30) DEF FateInv, Origin
  <2>3. CASE deletes = 0
    <3>1. TypeOK /\ LiveRow /\ Known(split[s].row)
      BY ZenonT(30) DEF FateInv, FlowInv, PipelineInv, RowInv, BoundRows
    <3>2. split[s].row <= 1
      BY <2>3, <3>1 DEF LiveRow, Known, TypeOK, MetaType, SplitRows
    <3> QED  BY <2>1, <3>1, <3>2 DEF TypeOK, MetaType, SplitRows, ReqType
  <2> QED  BY <2>2, <2>3, ZenonT(30)
<1> QED  BY <1>1, FateInvariant, PTL

\* No acknowledged document is dropped but those of a retired row: before the
\* first deletion under the conditions of AcceptedIsKept, and after it as long
\* as the node does not crash and the metastore answers which row is live (a
\* worker that cannot ask drops by the row it was bound to last).
THEOREM OnlyRetiredDropped ==
    Spec => [](\/ deletes = 0 /\ (retires = 0 \/ crashes = 0)
               \/ crashes = 0 /\ "resolve" \notin plan.kinds
               => DropsOnlyRetired)
<1>1. Init => KeptInv
  BY ZenonT(30) DEF Init, KeptInv, Sent
<1>2. FateInv => FlowInv
  BY ZenonT(30) DEF FateInv
<1>3. FateInv /\ KeptInv =>
        (\/ deletes = 0 /\ (retires = 0 \/ crashes = 0)
         \/ crashes = 0 /\ "resolve" \notin plan.kinds
         => DropsOnlyRetired)
  <2> SUFFICES ASSUME FateInv, KeptInv,
                      \/ deletes = 0 /\ (retires = 0 \/ crashes = 0)
                      \/ crashes = 0 /\ "resolve" \notin plan.kinds,
                      NEW d \in Accepted, d \notin plan.poison, d \in confirmed, d \notin indexed
               PROVE  info[d] # live
    BY ZenonT(30) DEF DropsOnlyRetired
  <2>1. d \in Docs /\ req[d] \in Sent
    BY ZenonT(30) DEF Accepted, Sent
  <2>2. CASE deletes = 0 /\ (retires = 0 \/ crashes = 0)
    BY <2>1, <2>2, ZenonT(30) DEF KeptInv, Safe
  <2>3. CASE crashes = 0 /\ "resolve" \notin plan.kinds
    <3>1. info[d] <= deletes
      BY <2>1, <2>3, ZenonT(30) DEF FateInv, Drops
    <3>2. info[d] # 0
      <4>1. req[d] \notin {"none", "resolve", "rejected", "cut"}
        BY <2>1, ZenonT(30) DEF Sent
      <4> QED  BY <2>1, <4>1, ZenonT(30) DEF FateInv, FlowInv, PipelineInv, RowInv, NodeRows
    <3> QED  BY <2>1, <3>1, <3>2 DEF FateInv, FlowInv, PipelineInv, RowInv, LiveRow, TypeOK, MetaType, ReqType
  <2> QED  BY <2>2, <2>3, ZenonT(30)
<1> QED  BY <1>1, <1>2, <1>3, FateInvariant, KeptStep, PTL DEF Spec

=============================================================================
