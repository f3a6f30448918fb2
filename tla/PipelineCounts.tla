--------------------------- MODULE PipelineCounts ---------------------------
(***************************************************************************)
(* The ingest pipeline publishes a document once, counts its unconfirmed   *)
(* records exactly and shows a refresh what it waited for, for any         *)
(* documents, plans and number of splits, as far as the code promises it.  *)
(***************************************************************************)
EXTENDS PipelineProofs

----------------------------------------------------------------------------
(* Every document is with one worker, once *)

\* A document is once in a channel, and not also received.
Orderly(g) ==
    /\ Once(queue[g])
    /\ Listed(g, "doc") \cap buffer[g] = {} /\ Listed(g, "doc") \cap positions[g] = {}

\* No document is with two workers.
Apart == \A g, h \in Gens : g # h => Load(g) \cap Load(h) = {}

\* What is still to be published is unconfirmed.
Unconfirmed(g) == Ahead(g) \cup batch[g] \subseteq pending

SoleInv == FateInv /\ (\A g \in Gens : Orderly(g) /\ Unconfirmed(g)) /\ Apart

\* A document that is sent is with no worker yet, and its record is unconfirmed.
LEMMA SentFresh ==
    ASSUME FlowInv, NEW g \in Gens, NEW d \in Docs, Sends(g, d)
    PROVE  d \in pending /\ \A h \in Gens : d \notin Load(h)
<1> USE DEF FlowInv
<1>1. CASE req[d] \in {"send", "resend"}
  <2>1. d \in pending
    BY <1>1, ZenonT(30) DEF Custody, Logged, Unsent
  <2>2. \A h \in Gens : d \notin Load(h)
    BY <1>1, ZenonT(30) DEF Custody, Lodged, Sent
  <2> QED  BY <2>1, <2>2, ZenonT(30)
<1>2. CASE ReplaySend /\ d = feed.doc
  <2>1. d \in replaying
    BY <1>2, InHand, ZenonT(30) DEF PipelineInv
  <2> QED  BY <2>1, ZenonT(30) DEF Custody, Lodged
<1> QED  BY <1>1, <1>2, ZenonT(30) DEF Sends

\* Only a receive or a drain moves documents out of the channel.
LEMMA Pools ==
    ASSUME TypeOK, [Next]_vars, NEW g \in Gens, ~Receive(g), ~IdleClose(g)
    PROVE  buffer'[g] \cup positions'[g] \subseteq buffer[g] \cup positions[g]
<1> USE DEF TypeOK, WorkerType
<1>1. ASSUME buffer'[g] = buffer[g], positions'[g] = positions[g] \/ positions'[g] = {}
      PROVE  buffer'[g] \cup positions'[g] \subseteq buffer[g] \cup positions[g]
  BY <1>1, ZenonT(30)
<1>2. CASE Still(g) \/ Born(g)
  BY <1>1, <1>2, ZenonT(30) DEF Still, Born
<1>3. CASE Crash
  BY <1>3, ZenonT(30) DEF Crash
<1>4. CASE BatchDeadline(g)
  <2>1. buffer'[g] = {} /\ positions'[g] = buffer[g]
    BY <1>4, ZenonT(30) DEF BatchDeadline, StartFlush
  <2> QED  BY <2>1, ZenonT(30)
<1>5. ASSUME FinishFlush(g) PROVE positions'[g] = {}
  BY <1>5, ZenonT(30) DEF FinishFlush
<1>6. CASE ResolveLive(g) \/ ResolveUnknown(g) \/ ResolveDeleted(g) \/ BuildNothing(g) \/ ConfirmBatch(g)
  BY <1>1, <1>5, <1>6, ZenonT(30) DEF ResolveLive, ResolveUnknown, DropStale, ResolveDeleted,
     BuildNothing, ConfirmBatch
<1>7. CASE Upload(g) \/ StageSplit(g) \/ PublishSplit(g) \/ IdleUnpublish(g)
  BY <1>1, <1>7, ZenonT(30) DEF Upload, StageSplit, PublishSplit, IdleUnpublish
<1> QED  BY Workers, <1>2, <1>3, <1>4, <1>6, <1>7, ZenonT(30) DEF Acts, WorkerStep, FlushStep

\* Documents leave the channel when they are received, one by one.
LEMMA OrderlyStep ==
    ASSUME SoleInv, [Next]_vars, NEW g \in Gens
    PROVE  Orderly(g)'
<1> USE DEF SoleInv
<1>T. TypeOK /\ WorkerInv /\ FlowInv /\ Orderly(g) /\ queue[g] \in Seq(Messages)
  BY ZenonT(30) DEF FateInv, FlowInv, PipelineInv, TypeOK, WorkerType
<1> DEFINE L == Listed(g, "doc")
<1>1. Once(queue'[g])
  <2>1. CASE queue'[g] = queue[g]
    BY <1>T, <2>1, ZenonT(30) DEF Orderly
  <2>2. ASSUME NEW m \in Messages, queue'[g] = Append(queue[g], m),
               m.kind = "doc" => m.doc \in Docs /\ m.doc \notin Load(g)
        PROVE  Once(queue'[g])
    <3>1. m.kind = "doc" => ~Has(queue[g], "doc", m.doc)
      BY <2>2, ZenonT(30) DEF Load, Ahead, Listed
    <3> QED  BY <1>T, <2>2, <3>1, OnceAppend, ZenonT(30) DEF Orderly
  <2>3. ASSUME NEW d \in Docs, Sends(g, d), queue'[g] = Append(queue[g], [kind |-> "doc", doc |-> d])
        PROVE  Once(queue'[g])
    <3>1. [kind |-> "doc", doc |-> d] \in Messages /\ [kind |-> "doc", doc |-> d].doc = d
      BY ZenonT(30) DEF Messages
    <3>2. d \notin Load(g)
      BY <1>T, <2>3, SentFresh, ZenonT(30)
    <3> QED  BY <2>2, <2>3, <3>1, <3>2, ZenonT(30)
  <2>4. ASSUME NEW d \in Docs, queue'[g] = Append(queue[g], [kind |-> "flush", doc |-> d])
        PROVE  Once(queue'[g])
    <3>1. [kind |-> "flush", doc |-> d] \in Messages /\ [kind |-> "flush", doc |-> d].kind # "doc"
      BY ZenonT(30) DEF Messages
    <3> QED  BY <2>2, <2>4, <3>1, ZenonT(30)
  <2>5. ASSUME queue[g] # <<>>, queue'[g] = Tail(queue[g]) PROVE Once(queue'[g])
    BY <1>T, <2>5, OnceTail, ZenonT(30) DEF Orderly
  <2>6. ASSUME queue'[g] = <<>> PROVE Once(queue'[g])
    BY <2>6 DEF Once
  <2>7. ASSUME NEW d \in Docs, TrySend(d), handle[d] = g, g \notin closed,
               req'[d] \in {"refresh", "accepted"}, UNCHANGED walVars
        PROVE  Sends(g, d)
    BY <2>7, ZenonT(30) DEF Sends, TrySend, At
  <2>8. ASSUME ReplaySend, handle[feed.doc] = g, g \notin closed, UNCHANGED walVars
        PROVE  Sends(g, feed.doc)
    BY <2>8, ZenonT(30) DEF Sends, ReplaySend
  <2> QED  BY <1>T, Channels, <2>1, <2>3, <2>4, <2>5, <2>6, <2>7, <2>8, ZenonT(30) DEF Channel
<1>2. L' \cap (buffer'[g] \cup positions'[g]) = {}
  <2>0. L \cap (buffer[g] \cup positions[g]) = {}
    BY <1>T, ZenonT(30) DEF Orderly
  <2>1. CASE Receive(g)
    <3>1. /\ queue[g] # <<>> /\ queue'[g] = Tail(queue[g]) /\ L' \subseteq L
          /\ Head(queue[g]).kind = "doc" => Head(queue[g]).doc \notin L'
      BY <1>T, <2>1, Received, OnceTail, ZenonT(30) DEF Orderly, Listed
    <3>2. positions[g] = {}
      BY <1>T, <2>1, ZenonT(30) DEF Receive, Runs, WorkerInv, Tidy, Flushing
    <3>3. CASE Head(queue[g]).kind = "doc"
      <4>1. buffer'[g] \cup positions'[g] \subseteq buffer[g] \cup {Head(queue[g]).doc}
        <5>1. CASE buffer' = [buffer EXCEPT ![g] = @ \cup {Head(queue[g]).doc}] /\ UNCHANGED positions
          BY <1>T, <3>2, <5>1, ZenonT(30) DEF TypeOK, WorkerType
        <5>2. CASE StartFlush(g, buffer[g] \cup {Head(queue[g]).doc})
          BY <1>T, <5>2, ZenonT(30) DEF StartFlush, TypeOK, WorkerType
        <5>3. Head(queue[g]).kind # "flush"
          BY <3>3, ZenonT(30)
        <5> QED  BY <2>1, <5>1, <5>2, <5>3, ZenonT(30) DEF Receive
      <4> QED  BY <2>0, <3>1, <3>3, <4>1, ZenonT(30)
    <3>4. CASE Head(queue[g]).kind # "doc"
      <4>1. buffer'[g] \cup positions'[g] \subseteq buffer[g] \cup positions[g]
        <5>1. CASE UNCHANGED <<positions, buffer>>
          BY <5>1, ZenonT(30)
        <5>2. CASE StartFlush(g, buffer[g])
          BY <1>T, <5>2, ZenonT(30) DEF StartFlush, TypeOK, WorkerType
        <5> QED  BY <2>1, <3>4, <5>1, <5>2, ZenonT(30) DEF Receive
      <4> QED  BY <2>0, <3>1, <4>1, ZenonT(30)
    <3> QED  BY <3>3, <3>4, ZenonT(30)
  <2>2. CASE L' = {}
    BY <2>2, ZenonT(30)
  <2>3. ASSUME ~Receive(g), L' \subseteq L PROVE L' \cap (buffer'[g] \cup positions'[g]) = {}
    <3>1. CASE IdleClose(g)
      <4>1. queue'[g] = <<>>
        BY <1>T, <3>1, ZenonT(30) DEF IdleClose, TypeOK, WorkerType
      <4> QED  BY <2>2, <4>1, EmptyHas, ZenonT(30) DEF Listed
    <3> QED  BY <1>T, <2>0, <2>3, <3>1, Pools, ZenonT(30)
  <2>4. ASSUME NEW d \in Docs, Sends(g, d), L' = L \cup {d}
        PROVE  L' \cap (buffer'[g] \cup positions'[g]) = {}
    <3>1. d \notin Load(g)
      BY <1>T, <2>4, SentFresh, ZenonT(30)
    <3> QED  BY <2>0, <2>4, <3>1, ZenonT(30) DEF Sends, Load, Ahead
  <2> QED  BY <1>T, <2>1, <2>3, <2>4, Loads, ZenonT(30) DEF Shrinks
<1> QED  BY <1>1, <1>2, ZenonT(30) DEF Orderly

\* A send goes to one worker.
LEMMA ApartStep ==
    ASSUME SoleInv, [Next]_vars
    PROVE  Apart'
<1> USE DEF SoleInv
<1>T. TypeOK /\ FlowInv
  BY ZenonT(30) DEF FateInv, FlowInv, PipelineInv
<1> SUFFICES ASSUME NEW g \in Gens, NEW h \in Gens, g # h, NEW d, d \in Load(g)', d \in Load(h)'
             PROVE  FALSE
  BY ZenonT(30) DEF Apart
<1>1. ASSUME NEW a \in Gens, d \in Load(a)', d \notin Load(a)
      PROVE  d \in Docs /\ handle[d] = a /\ \A b \in Gens : d \notin Load(b)
  <2>1. PICK x \in Docs : Sends(a, x) /\ Listed(a, "doc")' = Listed(a, "doc") \cup {x}
    BY <1>1, <1>T, Loads, ZenonT(30) DEF Shrinks
  <2>2. d = x
    BY <1>1, <2>1, ZenonT(30) DEF Load, Ahead, Sends
  <2> QED  BY <1>T, <2>1, <2>2, SentFresh, ZenonT(30) DEF Sends
<1>2. d \in Load(g) /\ d \in Load(h)
  BY <1>1, ZenonT(30)
<1> QED  BY <1>2, ZenonT(30) DEF Apart

\* What a flush confirms leaves the batch of the worker that flushes.
LEMMA ConfirmedLeaves ==
    ASSUME TypeOK, WorkerInv, NEW d, Outdated(d) \/ Deleted(d) \/ Settled(d)
    PROVE  \E h \in Gens : d \in positions[h] /\ wpc[h] \in Flushing /\ d \notin batch'[h]
<1> USE DEF TypeOK, WorkerType
<1>1. ASSUME NEW h \in Gens, FinishFlush(h) PROVE d \notin batch'[h]
  BY <1>1, ZenonT(30) DEF FinishFlush
<1>2. ASSUME NEW h \in Gens, NEW row, DropStale(h, row), d \in Stale(h, row) PROVE d \notin batch'[h]
  BY <1>1, <1>2, ZenonT(30) DEF DropStale
<1>3. \A g \in Gens : d \in batch[g] => d \in positions[g]
  BY ZenonT(30) DEF WorkerInv, Tidy
<1>4. CASE Outdated(d)
  <2>1. PICK h \in Gens : \/ ResolveLive(h) /\ d \in Stale(h, live)
                          \/ ResolveUnknown(h) /\ d \in Stale(h, target[h])
    BY <1>4, ZenonT(30) DEF Outdated
  <2>2. d \in batch[h] /\ wpc[h] \in Flushing
    BY <2>1, ZenonT(30) DEF Stale, ResolveLive, ResolveUnknown, Runs, Flushing
  <2>3. d \notin batch'[h]
    BY <1>2, <2>1, ZenonT(30) DEF ResolveLive, ResolveUnknown
  <2> QED  BY <1>3, <2>2, <2>3, ZenonT(30)
<1>5. CASE Deleted(d)
  BY <1>1, <1>5, ZenonT(30) DEF Deleted, ResolveDeleted, Runs, Flushing
<1>6. CASE Settled(d)
  BY <1>1, <1>3, <1>6, ZenonT(30) DEF Settled, BuildNothing, ConfirmBatch, Runs, Flushing
<1> QED  BY <1>4, <1>5, <1>6, ZenonT(30)

\* Only a flush confirms the record of a document that is with a worker.
LEMMA HeldRecord ==
    ASSUME SoleInv, [Next]_vars, NEW g \in Gens, NEW d \in Load(g), d \in pending, ~Crash
    PROVE  d \in pending' \/ Outdated(d) \/ Deleted(d) \/ Settled(d)
<1>T. TypeOK /\ WorkerInv /\ FlowInv
  BY ZenonT(30) DEF SoleInv, FateInv, FlowInv, PipelineInv
<1>1. d \in Docs
  BY <1>T, ZenonT(30) DEF Load, Ahead, Listed, TypeOK, WorkerType
<1>2. ~Restart
  <2> SUFFICES ASSUME Restart PROVE FALSE
    OBVIOUS
  <2>1. wpc[g] \in {"none", "gone"}
    BY <1>T, ZenonT(30) DEF Restart, Wal!Restart, WorkerInv, Outage
  <2> QED  BY <1>T, <2>1, NoLoad, ZenonT(30)
<1>3. ~Refused(d)
  BY <1>T, <1>1, ZenonT(30) DEF Refused, EnqueueError, TrySend, At, FlowInv, Custody, Lodged, Sent
<1>4. ~Dropped(d)
  BY <1>T, InHand, ZenonT(30) DEF Dropped, FlowInv, PipelineInv, Custody, Lodged
<1> QED  BY <1>T, <1>1, <1>2, <1>3, <1>4, Records, ZenonT(30) DEF Record

\* A record is confirmed by whoever answers for it, when it lets go of it.
LEMMA UnconfirmedStep ==
    ASSUME SoleInv, [Next]_vars, NEW g \in Gens
    PROVE  Unconfirmed(g)'
<1> USE DEF SoleInv
<1>T. TypeOK /\ WorkerInv /\ FlowInv /\ Unconfirmed(g) /\ Orderly(g) /\ Tidy(g)
  BY ZenonT(30) DEF FateInv, FlowInv, PipelineInv, WorkerInv
<1> SUFFICES ASSUME NEW d, d \in Ahead(g)' \cup batch'[g] PROVE d \in pending'
  BY ZenonT(30) DEF Unconfirmed
<1>1. CASE \E x \in Docs : Sends(g, x) /\ Listed(g, "doc")' = Listed(g, "doc") \cup {x}
  <2>1. PICK x \in Docs : Sends(g, x) /\ Listed(g, "doc")' = Listed(g, "doc") \cup {x}
    BY <1>1, ZenonT(30)
  <2>2. d = x \/ d \in Ahead(g) \cup batch[g]
    BY <2>1, ZenonT(30) DEF Sends, Ahead
  <2>3. d \in pending
    BY <1>T, <2>1, <2>2, SentFresh, ZenonT(30) DEF Unconfirmed
  <2> QED  BY <2>1, <2>3, ZenonT(30) DEF Sends, walVars
<1>2. CASE Shrinks(g)
  <2>1. d \in Ahead(g) \cup batch[g] /\ d \in pending /\ d \in Load(g) /\ d \in Docs
    <3>1. d \in Ahead(g) \cup batch[g]
      BY <1>2, ZenonT(30) DEF Shrinks
    <3>2. d \in Load(g)
      BY <1>T, <3>1, ZenonT(30) DEF Load, Tidy
    <3>3. d \in Docs
      BY <1>T, <3>2, ZenonT(30) DEF Load, Ahead, Listed, TypeOK, WorkerType
    <3> QED  BY <1>T, <3>1, <3>2, <3>3, ZenonT(30) DEF Unconfirmed
  <2>2. ~Crash
    <3> SUFFICES ASSUME Crash PROVE FALSE
      OBVIOUS
    <3>1. queue'[g] = <<>> /\ buffer'[g] = {} /\ batch'[g] = {}
      BY <1>T, CrashClears, ZenonT(30)
    <3>2. Listed(g, "doc")' = {}
      BY <3>1, EmptyHas, ZenonT(30) DEF Listed
    <3> QED  BY <3>1, <3>2, ZenonT(30) DEF Ahead
  <2>3. ~(Outdated(d) \/ Deleted(d) \/ Settled(d))
    <3> SUFFICES ASSUME Outdated(d) \/ Deleted(d) \/ Settled(d) PROVE FALSE
      OBVIOUS
    <3>1. PICK h \in Gens : d \in positions[h] /\ wpc[h] \in Flushing /\ d \notin batch'[h]
      BY <1>T, ConfirmedLeaves, ZenonT(30)
    <3>2. h = g
      BY <2>1, <3>1, ZenonT(30) DEF Apart, Load
    <3>3. wpc[g] # "recv"
      BY <3>1, <3>2, ZenonT(30) DEF Flushing
    <3>4. d \notin Ahead(g)
      BY <1>T, <3>1, <3>2, <3>3, ZenonT(30) DEF Ahead, Orderly, Tidy
    <3> QED  BY <1>2, <3>1, <3>2, <3>4, ZenonT(30) DEF Shrinks
  <2> QED  BY <2>1, <2>2, <2>3, HeldRecord, ZenonT(30)
<1> QED  BY <1>T, <1>1, <1>2, Loads, ZenonT(30)

\* Every document is with one worker, once, and unconfirmed until published.
LEMMA SoleInvariant == Spec => []SoleInv
<1>1. Init => SoleInv
  <2> SUFFICES ASSUME Init PROVE SoleInv
    OBVIOUS
  <2>1. FateInv /\ TypeOK /\ WorkerInv
    BY InitFate, InitFlow, ZenonT(30) DEF FlowInv, PipelineInv
  <2>2. \A g \in Gens : wpc[g] \in {"none", "gone"} /\ queue[g] = <<>>
    BY ZenonT(30) DEF Init
  <2>3. \A g \in Gens : Load(g) = {}
    BY <2>1, <2>2, NoLoad, ZenonT(30)
  <2>4. \A g \in Gens : Once(queue[g])
    BY <2>2 DEF Once
  <2>5. \A g \in Gens : batch[g] \subseteq Load(g)
    BY <2>1, ZenonT(30) DEF WorkerInv, Tidy, Load
  <2> QED  BY <2>1, <2>3, <2>4, <2>5, ZenonT(30) DEF SoleInv, Orderly, Unconfirmed, Apart, Load, Ahead
<1>2. SoleInv /\ [Next]_vars => SoleInv'
  <2> SUFFICES ASSUME SoleInv, [Next]_vars PROVE SoleInv'
    OBVIOUS
  <2>1. FateInv'
    BY FateStep, ZenonT(30) DEF SoleInv
  <2>2. \A g \in Gens : Orderly(g)'
    BY OrderlyStep, ZenonT(30)
  <2>3. \A g \in Gens : Unconfirmed(g)'
    BY UnconfirmedStep, ZenonT(30)
  <2> QED  BY <2>1, <2>2, <2>3, ApartStep, ZenonT(30) DEF SoleInv
<1> QED  BY <1>1, <1>2, PTL DEF Spec


----------------------------------------------------------------------------
(* A document is published once *)

\* What is published is not on its way to be published again, unless the
\* worker is about to confirm it.
Fresh(s, g) ==
    split[s].state = "published" =>
        /\ split[s].docs \cap Ahead(g) = {}
        /\ wpc[g] # "confirm" => split[s].docs \cap batch[g] = {}

OnceInv ==
    crashes = 0 /\ "reply" \notin plan.kinds =>
        /\ \A s \in Splits : \A g \in Gens : Fresh(s, g)
        /\ PublishedOnce

\* What becomes published is the batch of the worker that publishes it, which
\* goes on to confirm it when the reply is not lost.
LEMMA Publishes ==
    ASSUME SoleInv, [Next]_vars, NEW s \in Splits, "reply" \notin plan.kinds,
           split'[s].state = "published", split[s].state # "published"
    PROVE  \E h \in Gens : /\ split'[s].docs \subseteq batch[h] /\ batch[h] \subseteq Load(h)
                           /\ wpc[h] = "publish" /\ wpc'[h] = "confirm" /\ batch[h] \cap Ahead(h) = {}
                           /\ \A x \in Splits \ {s} : split'[x] = split[x]
                           /\ UNCHANGED <<queue, buffer, batch, crashes>>
<1> USE DEF SoleInv
<1>T. TypeOK /\ WorkerInv /\ SplitInv
  BY ZenonT(30) DEF FateInv, FlowInv, PipelineInv
<1>1. PICK h \in Gens : PublishSplit(h) /\ s = built[h] /\ split'[s].docs = split[s].docs
  BY <1>T, Lifecycles, ZenonT(30) DEF Lifecycle
<1>2. wpc[h] = "publish" /\ split[s].docs = batch[h] \ plan.poison
  BY <1>T, <1>1, ZenonT(30) DEF PublishSplit, Runs, SplitInv, Publishing
<1>3. Tidy(h) /\ Orderly(h) /\ wpc[h] # "recv"
  BY <1>T, <1>2, ZenonT(30) DEF WorkerInv
<1>4. batch[h] \subseteq Load(h) /\ batch[h] \cap Ahead(h) = {}
  BY <1>3, ZenonT(30) DEF Tidy, Load, Ahead, Orderly
<1>5. split' # split
  BY <1>1, ZenonT(30)
<1>6. wpc'[h] = "confirm" /\ split' = [split EXCEPT ![s].state = "published"]
  BY <1>T, <1>1, <1>5, ZenonT(30) DEF PublishSplit, Fault, TypeOK, WorkerType
<1>7. \A x \in Splits \ {s} : split'[x] = split[x]
  BY <1>T, <1>6, ZenonT(30) DEF TypeOK, MetaType
<1>8. UNCHANGED <<queue, buffer, batch, crashes>>
  BY <1>1, ZenonT(30) DEF PublishSplit
<1> QED  BY <1>1, <1>2, <1>4, <1>6, <1>7, <1>8, ZenonT(30)

\* A worker that confirms its batch is done with it.
LEMMA LeavesConfirm ==
    ASSUME TypeOK, [Next]_vars, NEW g \in Gens, wpc[g] = "confirm", wpc'[g] # "confirm"
    PROVE  batch'[g] = {}
<1>1. CASE Still(g) \/ Born(g)
  BY <1>1, ZenonT(30) DEF Still, Born
<1>2. CASE Crash
  BY <1>2, CrashClears, ZenonT(30)
<1>3. CASE Acts(g)
  <2>1. ConfirmBatch(g)
    BY <1>3, ZenonT(30) DEF Acts, WorkerStep, FlushStep, Receive, BatchDeadline, IdleClose, ResolveLive,
       ResolveDeleted, BuildNothing, Upload, StageSplit, PublishSplit, IdleUnpublish, ResolveUnknown, Runs
  <2> QED  BY <2>1, ZenonT(30) DEF ConfirmBatch, FinishFlush, TypeOK, WorkerType
<1> QED  BY Workers, <1>1, <1>2, <1>3, ZenonT(30)

\* A retry publishes again only what is not visible yet.
LEMMA OnceStep ==
    ASSUME SoleInv, OnceInv, [Next]_vars
    PROVE  OnceInv'
<1> USE DEF SoleInv
<1>T. TypeOK /\ FlowInv /\ Origin /\ WorkerInv
  BY ZenonT(30) DEF FateInv, FlowInv, PipelineInv
<1> SUFFICES ASSUME crashes' = 0, "reply" \notin plan'.kinds
             PROVE  (\A s \in Splits : \A g \in Gens : Fresh(s, g)') /\ PublishedOnce'
  BY ZenonT(30) DEF OnceInv
<1>1. crashes = 0
  BY <1>T, CountsGrow DEF TypeOK, BoundType
<1>2. "reply" \notin plan.kinds
  BY <1>T, PlanKept, ZenonT(30)
<1>3. (\A s \in Splits : \A g \in Gens : Fresh(s, g)) /\ PublishedOnce
  BY <1>1, <1>2, ZenonT(30) DEF OnceInv
<1>4. ASSUME NEW s \in Splits, split'[s].state = "published", split[s].state = "published"
      PROVE  split'[s].docs = split[s].docs
  BY <1>T, <1>4, Lifecycles, ZenonT(30) DEF Lifecycle
<1>5. ASSUME NEW s \in Splits, NEW g \in Gens PROVE Fresh(s, g)'
  <2> SUFFICES ASSUME split'[s].state = "published"
               PROVE  /\ split'[s].docs \cap Ahead(g)' = {}
                      /\ wpc'[g] # "confirm" => split'[s].docs \cap batch'[g] = {}
    BY ZenonT(30) DEF Fresh
  <2>1. CASE split[s].state = "published"
    <3>1. split'[s].docs = split[s].docs /\ Fresh(s, g)
      BY <1>3, <1>4, <2>1, ZenonT(30)
    <3>2. CASE \E x \in Docs : Sends(g, x) /\ Listed(g, "doc")' = Listed(g, "doc") \cup {x}
      <4>1. PICK x \in Docs : Sends(g, x) /\ Listed(g, "doc")' = Listed(g, "doc") \cup {x}
        BY <3>2, ZenonT(30)
      <4>2. req[x] \notin Sent
        <5>1. ~ReplaySend
          <6> SUFFICES ASSUME ReplaySend PROVE FALSE
            OBVIOUS
          <6>1. replaying # {}
            BY <1>T, InHand, ZenonT(30) DEF FlowInv, PipelineInv
          <6> QED  BY <1>T, <1>1, <6>1 DEF WorkerInv, Outage
        <5> QED  BY <4>1, <5>1, ZenonT(30) DEF Sends, Sent
      <4>3. x \notin split[s].docs
        BY <1>1, <1>T, <4>2, ZenonT(30) DEF Origin
      <4>4. buffer'[g] = buffer[g] /\ batch'[g] = batch[g] /\ wpc'[g] = wpc[g]
        BY <4>1, ZenonT(30) DEF Sends
      <4> QED  BY <2>1, <3>1, <4>1, <4>3, <4>4, ZenonT(30) DEF Fresh, Ahead
    <3>3. CASE Shrinks(g)
      <4>1. split'[s].docs \cap Ahead(g)' = {}
        BY <2>1, <3>1, <3>3, ZenonT(30) DEF Fresh, Shrinks
      <4>2. ASSUME wpc'[g] # "confirm" PROVE split'[s].docs \cap batch'[g] = {}
        <5>1. CASE wpc[g] = "confirm"
          BY <1>T, <4>2, <5>1, LeavesConfirm, ZenonT(30)
        <5>2. CASE wpc[g] # "confirm"
          BY <2>1, <3>1, <3>3, <5>2, ZenonT(30) DEF Fresh, Shrinks
        <5> QED  BY <5>1, <5>2, ZenonT(30)
      <4> QED  BY <4>1, <4>2, ZenonT(30)
    <3> QED  BY <1>T, <3>2, <3>3, Loads, ZenonT(30)
  <2>2. CASE split[s].state # "published"
    <3>1. PICK h \in Gens : /\ split'[s].docs \subseteq batch[h] /\ batch[h] \subseteq Load(h)
                            /\ wpc'[h] = "confirm" /\ batch[h] \cap Ahead(h) = {}
                            /\ UNCHANGED <<queue, buffer, batch>>
      BY <1>2, <2>2, Publishes, ZenonT(30)
    <3>2. Ahead(g)' = Ahead(g) /\ batch'[g] = batch[g]
      BY <3>1, ZenonT(30) DEF Ahead, Listed
    <3>3. CASE g = h
      BY <3>1, <3>2, <3>3, ZenonT(30)
    <3>4. CASE g # h
      <4>1. Load(g) \cap Load(h) = {} /\ batch[g] \subseteq Load(g)
        BY <1>T, <3>4, ZenonT(30) DEF Apart, WorkerInv, Tidy, Load
      <4> QED  BY <3>1, <3>2, <4>1, ZenonT(30) DEF Load
    <3> QED  BY <3>3, <3>4, ZenonT(30)
  <2> QED  BY <2>1, <2>2, ZenonT(30)
<1>6. ASSUME NEW s \in Splits, NEW x \in Splits, split'[s].state = "published",
             split'[x].state = "published", s # x, split[s].state # "published"
      PROVE  split'[s].docs \cap split'[x].docs = {}
  <2>1. PICK h \in Gens : /\ split'[s].docs \subseteq batch[h] /\ wpc[h] = "publish"
                          /\ \A y \in Splits \ {s} : split'[y] = split[y]
    BY <1>2, <1>6, Publishes, ZenonT(30)
  <2>2. split'[x] = split[x] /\ split[x].state = "published" /\ wpc[h] # "confirm"
    BY <1>6, <2>1, ZenonT(30)
  <2> QED  BY <1>3, <2>1, <2>2, ZenonT(30) DEF Fresh
<1>7. PublishedOnce'
  <2> SUFFICES ASSUME NEW s \in Splits, NEW x \in Splits, split'[s].state = "published",
                      split'[x].state = "published", s # x
               PROVE  split'[s].docs \cap split'[x].docs = {}
    BY ZenonT(30) DEF PublishedOnce
  <2>1. CASE split[s].state # "published"
    BY <1>6, <2>1, ZenonT(30)
  <2>2. CASE split[x].state # "published"
    BY <1>6, <2>2, ZenonT(30)
  <2>3. CASE split[s].state = "published" /\ split[x].state = "published"
    BY <1>1, <1>2, <1>3, <1>4, <2>3, ZenonT(30) DEF PublishedOnce
  <2> QED  BY <2>1, <2>2, <2>3, ZenonT(30)
<1> QED  BY <1>5, <1>7, ZenonT(30)

\* Without crashes and lost replies no two published splits share a document:
\* a flush that is retried publishes a new split only when the one it staged
\* before was not published.
THEOREM PublishedAtMostOnce == Spec => []PublishedOnce
<1>1. Init => OnceInv
  <2> SUFFICES ASSUME Init PROVE OnceInv
    OBVIOUS
  <2>1. \A s \in Splits : split[s].state # "published"
    BY ZenonT(30) DEF Init, NoSplit
  <2> QED  BY <2>1, ZenonT(30) DEF OnceInv, Fresh, PublishedOnce
<1>2. SoleInv /\ OnceInv /\ [Next]_vars => OnceInv'
  BY OnceStep, ZenonT(30)
<1>3. OnceInv => PublishedOnce
  BY ZenonT(30) DEF OnceInv, PublishedOnce
<1> QED  BY <1>1, <1>2, <1>3, SoleInvariant, PTL DEF Spec


----------------------------------------------------------------------------
(* The count of unconfirmed records *)

\* What a worker may confirm is unconfirmed, unless the index was already
\* created twice: a worker confirms the stale part of its batch, and, when an
\* attempt fails and the index is gone at the next one, all it drained.
Whole(g) == positions[g] \subseteq pending \/ Known(2)

\* Records that await their confirmation.
Open == pending \cup {d \in Docs : req[d] = "fsync"}

\* The log's count is the number of unconfirmed records.
CountExact == up => outstanding = Cardinality(Open)

CountInv == (\A g \in Gens : Whole(g)) /\ (deletes <= 1 => CountExact)

\* A stale document and the row it is not of make two rows.
LEMMA TwoRows ==
    ASSUME TypeOK, LiveRow, NEW k \in Nat, NEW l \in Nat, Known(k), Known(l), k # l
    PROVE  Known(2)
BY DEF TypeOK, MetaType, LiveRow, Known

\* A batch has stale documents only once the index has had two rows.
LEMMA OutdatedRows ==
    ASSUME FlowInv, NEW d \in Docs, Outdated(d)
    PROVE  Known(2)
<1> USE DEF FlowInv, PipelineInv
<1>1. PICK h \in Gens : \/ ResolveLive(h) /\ d \in Stale(h, live)
                        \/ ResolveUnknown(h) /\ d \in Stale(h, target[h])
  BY ZenonT(30) DEF Outdated
<1>2. d \in batch[h] /\ wpc[h] = "resolve"
  BY <1>1, ZenonT(30) DEF Stale, ResolveLive, ResolveUnknown, Runs
<1>3. d \in Load(h)
  BY <1>2, ZenonT(30) DEF WorkerInv, Tidy, Load
<1>4. info[d] \in Nat /\ Known(info[d])
  BY <1>3, ZenonT(30) DEF Custody, Lodged, RowInv, NodeRows, TypeOK, ReqType
<1>5. target[h] \in Nat /\ Known(target[h])
  BY <1>2, ZenonT(30) DEF RowInv, BoundRows, TypeOK, WorkerType
<1>6. CASE ResolveLive(h) /\ d \in Stale(h, live)
  <2>1. live \in Nat /\ Known(live) /\ info[d] # live
    BY <1>6, ZenonT(30) DEF ResolveLive, Stale, Known, TypeOK, MetaType
  <2> QED  BY <1>4, <2>1, TwoRows, ZenonT(30) DEF RowInv
<1>7. CASE d \in Stale(h, target[h])
  <2>1. info[d] # target[h]
    BY <1>7, ZenonT(30) DEF Stale
  <2> QED  BY <1>4, <1>5, <2>1, TwoRows, ZenonT(30) DEF RowInv
<1> QED  BY <1>1, <1>6, <1>7, ZenonT(30)

\* A worker is done with its positions when a flush ends.
LEMMA WholeStep ==
    ASSUME SoleInv, [Next]_vars, NEW g \in Gens, Whole(g)
    PROVE  Whole(g)'
<1> USE DEF SoleInv
<1>T. TypeOK /\ WorkerInv /\ FlowInv /\ LiveRow /\ Unconfirmed(g) /\ Tidy(g)
  BY ZenonT(30) DEF FateInv, FlowInv, PipelineInv, WorkerInv, RowInv
<1> SUFFICES ASSUME ~Known(2)', NEW d \in positions'[g] PROVE d \in pending'
  BY ZenonT(30) DEF Whole
<1>1. ~Known(2)
  BY <1>T, RowsKept, ZenonT(30)
<1>2. d \in Load(g) /\ d \in pending
  <2>1. CASE \E x \in Docs : Sends(g, x)
    BY <1>1, <2>1, ZenonT(30) DEF Sends, Whole, Load
  <2>2. CASE Shrinks(g)
    <3>1. d \in Load(g)
      BY <2>2, ZenonT(30) DEF Shrinks, Load
    <3> QED  BY <1>T, <1>1, <3>1, ZenonT(30) DEF Load, Unconfirmed, Whole
  <2> QED  BY <1>T, <2>1, <2>2, Loads, ZenonT(30)
<1>3. d \in Docs
  BY <1>T, <1>2, ZenonT(30) DEF TypeOK, WalType
<1>4. ~Crash
  BY <1>T, ZenonT(30) DEF Crash
<1>5. ~Outdated(d)
  BY <1>T, <1>1, <1>3, OutdatedRows, ZenonT(30)
<1>6. ~(Deleted(d) \/ Settled(d))
  <2> SUFFICES ASSUME NEW h \in Gens, ResolveDeleted(h) \/ BuildNothing(h) \/ ConfirmBatch(h),
                      d \in positions[h] \/ d \in batch[h]
               PROVE  FALSE
    BY ZenonT(30) DEF Deleted, Settled
  <2>1. d \in Load(h)
    BY <1>T, ZenonT(30) DEF WorkerInv, Tidy, Load
  <2>2. h = g
    BY <1>2, <2>1, ZenonT(30) DEF Apart
  <2>3. positions'[h] = {}
    BY <1>T, ZenonT(30) DEF ResolveDeleted, BuildNothing, ConfirmBatch, FinishFlush, TypeOK, WorkerType
  <2> QED  BY <2>2, <2>3, ZenonT(30)
<1> QED  BY <1>2, <1>4, <1>5, <1>6, HeldRecord, ZenonT(30)

\* Appends alone change what waits for its fsync.
LEMMA FsyncKept ==
    ASSUME FlowInv, [Next]_vars, UNCHANGED <<log, acked, up>>
    PROVE  \A d \in Docs : req'[d] = "fsync" <=> req[d] = "fsync"
<1> USE DEF FlowInv, PipelineInv
<1> SUFFICES ASSUME NEW d \in Docs PROVE req'[d] = "fsync" <=> req[d] = "fsync"
  OBVIOUS
<1>1. ~AppendWal(d)
  <2> SUFFICES ASSUME AppendWal(d) PROVE FALSE
    OBVIOUS
  <2>1. req[d] \in Early /\ d \in log'
    BY ZenonT(30) DEF AppendWal, At, Early, Wal!Append
  <2> QED  BY <2>1, ZenonT(30) DEF Custody, Logged
<1>2. ~AppendDone(d)
  <2> SUFFICES ASSUME AppendDone(d) PROVE FALSE
    OBVIOUS
  <2>1. req[d] = "fsync" /\ d \in acked'
    BY ZenonT(30) DEF AppendDone, At, Wal!Acknowledge
  <2> QED  BY <2>1, ZenonT(30) DEF Custody, Logged
<1>3. ~Crash
  BY ZenonT(30) DEF Crash, Wal!Crash
<1> QED  BY <1>1, <1>2, <1>3, Moves, ZenonT(30) DEF Move

\* They are finitely many.
LEMMA OpenFinite == TypeOK => IsFiniteSet(Open) /\ Cardinality(Open) \in Nat
<1> SUFFICES ASSUME TypeOK PROVE IsFiniteSet(Open)
  BY FS_CardinalityType, ZenonT(30)
<1>1. Open \subseteq Docs
  BY ZenonT(30) DEF Open, TypeOK, WalType
<1> QED  BY <1>1, PipelineAssumption, FS_Subset, ZenonT(30)

\* The log's count goes down by the records confirmed, when none was before.
LEMMA ConfirmExact ==
    ASSUME FlowInv, [Next]_vars, CountExact,
           NEW S \in SUBSET Docs, S \subseteq pending, ConfirmWal(S)
    PROVE  CountExact'
<1>T. TypeOK /\ WalType
  BY ZenonT(30) DEF FlowInv, PipelineInv, TypeOK
<1>1. /\ up /\ UNCHANGED <<log, acked, up>> /\ pending' = pending \ S
      /\ outstanding' = IF outstanding >= Cardinality(S) THEN outstanding - Cardinality(S) ELSE 0
  BY <1>T, Confirmed, ZenonT(30) DEF ConfirmWal
<1>2. \A d \in Docs : req'[d] = "fsync" <=> req[d] = "fsync"
  BY <1>1, FsyncKept, ZenonT(30)
<1>3. \A d \in Docs : req[d] = "fsync" => d \notin S
  BY ZenonT(30) DEF FlowInv, Custody, Logged
<1>4. Open' = Open \ S /\ S \subseteq Open
  BY <1>T, <1>1, <1>2, <1>3, ZenonT(30) DEF Open
<1>5. IsFiniteSet(Open) /\ Cardinality(Open) \in Nat /\ IsFiniteSet(S)
  BY <1>T, <1>4, OpenFinite, FS_Subset, ZenonT(30)
<1>6. Cardinality(S) \in Nat /\ Cardinality(S) <= Cardinality(Open)
  BY <1>4, <1>5, FS_Subset, FS_CardinalityType, ZenonT(30)
<1>7. Open \cap S = S
  BY <1>4, ZenonT(30)
<1>8. Cardinality(Open') = Cardinality(Open) - Cardinality(S)
  <2>1. Cardinality(Open \ S) = Cardinality(Open) - Cardinality(Open \cap S)
    BY <1>5, FS_Difference, ZenonT(30)
  <2> QED  BY <1>4, <1>7, <2>1, ZenonT(30)
<1>9. outstanding = Cardinality(Open)
  BY <1>1, ZenonT(30) DEF CountExact, Open
<1>10. outstanding' = Cardinality(Open')
  BY <1>1, <1>5, <1>6, <1>8, <1>9, ZenonT(30)
<1> QED  BY <1>10, ZenonT(30) DEF CountExact, Open


\* Every record is confirmed by one flush, refusal or drop.
LEMMA CountStep ==
    ASSUME SoleInv, CountInv, [Next]_vars
    PROVE  CountInv'
<1> USE DEF SoleInv
<1>T. TypeOK /\ WorkerInv /\ FlowInv /\ WalType /\ LiveRow
  BY ZenonT(30) DEF FateInv, FlowInv, PipelineInv, TypeOK, RowInv
<1>1. \A g \in Gens : Whole(g)'
  BY WholeStep, ZenonT(30) DEF CountInv
<1> SUFFICES ASSUME deletes' <= 1 PROVE CountExact'
  BY <1>1, ZenonT(30) DEF CountInv
<1>2. deletes <= 1 /\ CountExact
  <2>1. deletes \in Nat /\ deletes' \in Nat
    BY <1>T, TypeStep, ZenonT(30) DEF TypeOK, MetaType, BoundType
  <2>2. deletes <= 1
    BY <1>T, <2>1, CountsGrow
  <2> QED  BY <2>2, ZenonT(30) DEF CountInv
<1>3. CASE UNCHANGED <<log, pending, acked, confirmed, up, outstanding>>
  <2>1. \A d \in Docs : req'[d] = "fsync" <=> req[d] = "fsync"
    BY <1>T, <1>3, FsyncKept, ZenonT(30)
  <2>2. Open' = Open
    BY <1>3, <2>1, ZenonT(30) DEF Open
  <2> QED  BY <1>2, <1>3, <2>2, ZenonT(30) DEF CountExact, Open
<1>4. ASSUME NEW d \in Docs, AppendWal(d) PROVE CountExact'
  <2>1. req[d] = "append" /\ req' = [req EXCEPT ![d] = "fsync"] /\ pending' = pending
        /\ outstanding' = outstanding + 1 /\ up
    BY <1>4, ZenonT(30) DEF AppendWal, At, Goto, Wal!Append
  <2>2. d \notin Open
    <3>1. req[d] \in Early /\ req[d] # "fsync"
      BY <2>1, ZenonT(30) DEF Early
    <3> QED  BY <1>T, <3>1, ZenonT(30) DEF FlowInv, Custody, Logged, Open
  <2>3. Open' = Open \cup {d}
    BY <1>T, <2>1, ZenonT(30) DEF Open, TypeOK, ReqType
  <2>4. Cardinality(Open \cup {d}) = Cardinality(Open) + 1
    BY <1>T, <2>2, OpenFinite, FS_AddElement, ZenonT(30)
  <2>5. outstanding = Cardinality(Open)
    BY <1>2, <2>1, ZenonT(30) DEF CountExact, Open
  <2>6. outstanding' = Cardinality(Open')
    BY <2>1, <2>3, <2>4, <2>5, ZenonT(30)
  <2> QED  BY <2>6, ZenonT(30) DEF CountExact, Open
<1>5. ASSUME NEW d \in Docs, AppendDone(d) PROVE CountExact'
  <2>1. req[d] = "fsync" /\ req' = [req EXCEPT ![d] = "enqueue"] /\ pending' = pending \cup {d}
        /\ outstanding' = outstanding /\ up' = up
    BY <1>5, ZenonT(30) DEF AppendDone, At, Goto, Wal!Acknowledge
  <2>2. Open' = Open
    <3>1. \A x \in Docs : req'[x] = "fsync" <=> x # d /\ req[x] = "fsync"
      BY <1>T, <2>1, ZenonT(30) DEF TypeOK, ReqType
    <3> QED  BY <2>1, <3>1, ZenonT(30) DEF Open
  <2> QED  BY <1>2, <2>1, <2>2, ZenonT(30) DEF CountExact, Open
<1>6. ASSUME NEW d \in Docs, TrySend(d) \/ EnqueueError(d) PROVE CountExact'
  <2>1. CASE Reject(d)
    <3>1. req[d] \in Unsent /\ ConfirmWal({d})
      BY <1>6, <2>1, ZenonT(30) DEF TrySend, EnqueueError, At, Unsent, Reject
    <3>2. {d} \in SUBSET Docs /\ {d} \subseteq pending
      BY <1>T, <3>1, ZenonT(30) DEF FlowInv, Custody, Logged
    <3> QED  BY <1>T, <1>2, <3>1, <3>2, ConfirmExact, ZenonT(30)
  <2> QED  BY <1>3, <1>6, <2>1, ZenonT(30) DEF TrySend, EnqueueError, walVars
<1>7. ASSUME ReplaySend PROVE CountExact'
  <2>1. feed.doc \in replaying /\ feed.doc \in Docs
    BY <1>T, <1>7, InHand, ZenonT(30) DEF FlowInv, PipelineInv, ReplaySend, NodeType, Feeds, TypeOK
  <2>2. {feed.doc} \in SUBSET Docs /\ {feed.doc} \subseteq pending
    BY <1>T, <2>1, ZenonT(30) DEF FlowInv, Custody
  <2>3. CASE ConfirmWal({feed.doc})
    BY <1>T, <1>2, <2>2, <2>3, ConfirmExact, ZenonT(30)
  <2> QED  BY <1>3, <1>7, <2>3, ZenonT(30) DEF ReplaySend, walVars
<1>8. \A g \in Gens : batch[g] \in SUBSET Docs /\ batch[g] \subseteq pending
  BY <1>T, ZenonT(30) DEF Unconfirmed, TypeOK, WorkerType
<1>9. ASSUME NEW g \in Gens, NEW row, DropStale(g, row) PROVE CountExact'
  <2>1. Stale(g, row) \in SUBSET Docs /\ Stale(g, row) \subseteq pending
    BY <1>8, ZenonT(30) DEF Stale
  <2>2. CASE ConfirmWal(Stale(g, row))
    BY <1>T, <1>2, <2>1, <2>2, ConfirmExact, ZenonT(30)
  <2> QED  BY <1>3, <1>9, <2>2, ZenonT(30) DEF DropStale, walVars
<1>10. ASSUME NEW g \in Gens, ResolveLive(g) \/ ResolveUnknown(g) PROVE CountExact'
  BY <1>9, <1>10, ZenonT(30) DEF ResolveLive, ResolveUnknown
<1>11. ASSUME NEW g \in Gens, BuildNothing(g) \/ ConfirmBatch(g) PROVE CountExact'
  <2>1. ConfirmWal(batch[g])
    BY <1>11, ZenonT(30) DEF BuildNothing, ConfirmBatch
  <2> QED  BY <1>T, <1>2, <1>8, <2>1, ConfirmExact, ZenonT(30)
<1>12. ASSUME NEW g \in Gens, ResolveDeleted(g) PROVE CountExact'
  <2>1. live = 0 /\ ConfirmWal(positions[g])
    BY <1>12, ZenonT(30) DEF ResolveDeleted
  <2>2. ~Known(2)
    BY <1>T, <1>2, <2>1 DEF Known, TypeOK, MetaType, BoundType
  <2>3. positions[g] \in SUBSET Docs /\ positions[g] \subseteq pending
    BY <1>T, <2>2, ZenonT(30) DEF CountInv, Whole, TypeOK, WorkerType
  <2> QED  BY <1>T, <1>2, <2>1, <2>3, ConfirmExact, ZenonT(30)
<1>13. ASSUME Crash PROVE CountExact'
  BY <1>T, <1>13, CrashClears, ZenonT(30) DEF CountExact
<1>14. ASSUME Restart PROVE CountExact'
  <2>1. ~up /\ req' = req /\ pending' = log /\ outstanding' = Cardinality(log)
    BY <1>14, ZenonT(30) DEF Restart, Wal!Restart, reqVars
  <2>2. \A d \in Docs : req[d] # "fsync"
    BY <1>T, <2>1, ZenonT(30) DEF WorkerInv, Outage, Terminal, Serving
  <2>3. Open' = log
    BY <2>1, <2>2, ZenonT(30) DEF Open
  <2> QED  BY <2>1, <2>3, ZenonT(30) DEF CountExact, Open
<1> QED  BY WalWriters, <1>3, <1>4, <1>5, <1>6, <1>7, <1>10, <1>11, <1>12, <1>13, <1>14, ZenonT(30)

\* While the index has been deleted at most once, every record is confirmed at
\* most once: the log's count of unconfirmed records, which decides when a
\* segment goes, is their number.
THEOREM CountIsExact == Spec => []OutstandingExact
<1>1. Init => CountInv
  <2> SUFFICES ASSUME Init PROVE CountInv
    OBVIOUS
  <2>1. \A g \in Gens : positions[g] = {}
    BY ZenonT(30) DEF Init
  <2>2. pending = {} /\ outstanding = 0 /\ \A d \in Docs : req[d] # "fsync"
    BY ZenonT(30) DEF Init, Wal!Init
  <2>3. Open = {}
    BY <2>2, ZenonT(30) DEF Open
  <2>4. outstanding = Cardinality(Open)
    BY <2>2, <2>3, FS_EmptySet, ZenonT(30)
  <2> QED  BY <2>1, <2>4, ZenonT(30) DEF CountInv, Whole, CountExact, Open
<1>2. SoleInv /\ CountInv /\ [Next]_vars => CountInv'
  BY CountStep, ZenonT(30)
<1>3. CountInv => OutstandingExact
  BY ZenonT(30) DEF CountInv, CountExact, OutstandingExact, Open
<1> QED  BY <1>1, <1>2, <1>3, SoleInvariant, PTL DEF Spec


----------------------------------------------------------------------------
(* A refresh *)

\* In the channel, a document comes before the flush that waits for it.
After(q, d) ==
    \A j \in 1 .. Len(q) : q[j].kind = "flush" /\ q[j].doc = d =>
        \E i \in 1 .. j - 1 : q[i].kind = "doc" /\ q[i].doc = d

\* Sending puts a message behind the others.
LEMMA AfterAppend ==
    ASSUME NEW q \in Seq(Messages), NEW m \in Messages, NEW d, After(q, d),
           m.kind = "flush" /\ m.doc = d => Has(q, "doc", d)
    PROVE  After(Append(q, m), d)
<1> DEFINE p == Append(q, m)
<1>1. /\ Len(q) \in Nat /\ Len(p) = Len(q) + 1 /\ p[Len(q) + 1] = m
      /\ \A i \in 1 .. Len(q) : p[i] = q[i]
  OBVIOUS
<1> SUFFICES ASSUME NEW j \in 1 .. Len(p), p[j].kind = "flush", p[j].doc = d
             PROVE  \E i \in 1 .. j - 1 : p[i].kind = "doc" /\ p[i].doc = d
  BY ZenonT(30) DEF After
<1>2. CASE j \in 1 .. Len(q)
  <2>1. PICK i \in 1 .. j - 1 : q[i].kind = "doc" /\ q[i].doc = d
    BY <1>1, <1>2, ZenonT(30) DEF After
  <2>2. i \in 1 .. Len(q)
    BY <1>1, <1>2, <2>1
  <2>3. p[i].kind = "doc" /\ p[i].doc = d
    BY <1>1, <2>1, <2>2, ZenonT(30)
  <2> QED  BY <2>3, ZenonT(30)
<1>3. CASE j = Len(q) + 1
  <2>1. Has(q, "doc", d)
    BY <1>1, <1>3, ZenonT(30)
  <2>2. PICK i \in 1 .. Len(q) : q[i].kind = "doc" /\ q[i].doc = d
    BY <2>1, ZenonT(30) DEF Has
  <2>3. i \in 1 .. j - 1 /\ p[i].kind = "doc" /\ p[i].doc = d
    BY <1>1, <1>3, <2>2
  <2> QED  BY <2>3, ZenonT(30)
<1> QED  BY <1>1, <1>2, <1>3

\* Receiving takes the first one.
LEMMA AfterTail ==
    ASSUME NEW q \in Seq(Messages), q # <<>>, NEW d, After(q, d)
    PROVE  /\ ~(Head(q).kind = "flush" /\ Head(q).doc = d)
           /\ (Head(q).kind = "doc" /\ Head(q).doc = d) \/ After(Tail(q), d)
<1>1. /\ Len(q) \in Nat /\ Len(q) >= 1 /\ Len(Tail(q)) = Len(q) - 1 /\ Head(q) = q[1]
      /\ \A i \in 1 .. Len(q) - 1 : Tail(q)[i] = q[i + 1]
  OBVIOUS
<1>2. ~(Head(q).kind = "flush" /\ Head(q).doc = d)
  BY <1>1 DEF After
<1>3. ASSUME ~(Head(q).kind = "doc" /\ Head(q).doc = d) PROVE After(Tail(q), d)
  <2> SUFFICES ASSUME NEW j \in 1 .. Len(Tail(q)), Tail(q)[j].kind = "flush", Tail(q)[j].doc = d
               PROVE  \E i \in 1 .. j - 1 : Tail(q)[i].kind = "doc" /\ Tail(q)[i].doc = d
    BY ZenonT(30) DEF After
  <2>1. j + 1 \in 1 .. Len(q) /\ q[j + 1].kind = "flush" /\ q[j + 1].doc = d
    BY <1>1
  <2>2. PICK i \in 1 .. (j + 1) - 1 : q[i].kind = "doc" /\ q[i].doc = d
    BY <2>1, ZenonT(30) DEF After
  <2>3. i # 1
    BY <1>1, <1>3, <2>2, ZenonT(30)
  <2>4. i - 1 \in 1 .. j - 1 /\ i - 1 \in 1 .. Len(q) - 1 /\ (i - 1) + 1 = i
    BY <1>1, <2>1, <2>2, <2>3
  <2>5. Tail(q)[i - 1].kind = "doc" /\ Tail(q)[i - 1].doc = d
    BY <1>1, <2>2, <2>4, ZenonT(30)
  <2> QED  BY <2>4, <2>5, ZenonT(30)
<1> QED  BY <1>2, <1>3, ZenonT(30)

\* Without a flush of d there is nothing to come after.
LEMMA NoneAfter ==
    ASSUME NEW q, NEW d, ~Has(q, "flush", d)
    PROVE  After(q, d)
BY ZenonT(30) DEF Has, After

\* Only requests that asked have a flush in a channel or a worker.
Asked(g) ==
    \A d \in Docs : d \in Listed(g, "flush") \cup waiters[g] => req[d] \in {"waiting"} \cup Terminal

\* As long as no worker retires, the one in the map is the only one.
OnlyMapped == retires = 0 => \A g \in Gens : wpc[g] \notin {"none", "gone"} => g = entry

\* Searchable, or on the way to be.
Near(d) == d \in indexed \/ \E g \in Gens : d \in Ahead(g) \cup batch[g]

\* The flush that a request waits for reaches the worker after its document.
Waits(d) ==
    \A g \in Gens : /\ After(queue[g], d) \/ d \in indexed \cup buffer[g] \cup batch[g]
                    /\ d \in waiters[g] => d \in indexed \cup batch[g]

Refreshing(d) ==
    /\ req[d] \in {"refresh", "cutting"} => Near(d)
    /\ req[d] = "waiting" => Waits(d)
    /\ req[d] = "refreshed" => d \in indexed

RefreshInv ==
    /\ \A g \in Gens : Asked(g)
    /\ OnlyMapped
    /\ retires = 0 /\ deletes = 0 => \A d \in Docs \ plan.poison : Refreshing(d)


\* A flush gets into a channel with its request, and from there to the worker.
LEMMA AskedStep ==
    ASSUME FlowInv, [Next]_vars, NEW g \in Gens, Asked(g)
    PROVE  Asked(g)'
<1>T. TypeOK /\ queue[g] \in Seq(Messages)
  BY ZenonT(30) DEF FlowInv, PipelineInv, TypeOK, WorkerType
<1> DEFINE F == Listed(g, "flush")
<1>1. ASSUME NEW d \in Docs, req[d] \in {"waiting"} \cup Terminal
      PROVE  req'[d] \in {"waiting"} \cup Terminal
  BY <1>T, <1>1, Moves, ZenonT(30) DEF Move, Terminal
<1>2. ASSUME NEW d \in F' PROVE d \in Docs /\ (d \in F \/ req'[d] = "waiting")
  <2>0. d \in Docs /\ Has(queue'[g], "flush", d)
    BY <1>2, ZenonT(30) DEF Listed
  <2> SUFFICES Has(queue[g], "flush", d) \/ req'[d] = "waiting"
    BY <2>0, ZenonT(30) DEF Listed
  <2>1. ASSUME NEW x \in Docs, queue'[g] = Append(queue[g], [kind |-> "doc", doc |-> x])
        PROVE  Has(queue[g], "flush", d)
    <3>1. [kind |-> "doc", doc |-> x] \in Messages /\ [kind |-> "doc", doc |-> x].kind # "flush"
      BY ZenonT(30) DEF Messages
    <3> QED  BY <1>T, <2>0, <2>1, <3>1, HasAppend
  <2>2. ASSUME NEW x \in Docs, queue'[g] = Append(queue[g], [kind |-> "flush", doc |-> x]), req'[x] = "waiting"
        PROVE  Has(queue[g], "flush", d) \/ req'[d] = "waiting"
    <3>1. [kind |-> "flush", doc |-> x] \in Messages /\ [kind |-> "flush", doc |-> x].doc = x
      BY ZenonT(30) DEF Messages
    <3> QED  BY <1>T, <2>0, <2>2, <3>1, HasAppend
  <2>3. ASSUME queue[g] # <<>>, queue'[g] = Tail(queue[g]) PROVE Has(queue[g], "flush", d)
    BY <1>T, <2>0, <2>3, HasTail
  <2>4. ASSUME queue'[g] = <<>> PROVE FALSE
    BY <2>0, <2>4, EmptyHas, ZenonT(30)
  <2> QED  BY <1>T, <2>0, <2>1, <2>2, <2>3, <2>4, Channels, ZenonT(30) DEF Channel
<1>3. waiters'[g] \subseteq waiters[g] \cup F
  <2> USE <1>T DEF TypeOK, WorkerType
  <2>1. CASE Still(g) \/ Born(g)
    BY <2>1, ZenonT(30) DEF Still, Born
  <2>2. CASE Crash
    BY <2>2, ZenonT(30) DEF Crash
  <2>3. CASE Receive(g)
    <3>1. Head(queue[g]) \in Messages /\ queue[g] # <<>>
      BY <2>3, Received, ZenonT(30)
    <3>2. Head(queue[g]).kind = "flush" => Head(queue[g]).doc \in F
      <4> SUFFICES ASSUME Head(queue[g]).kind = "flush" PROVE Head(queue[g]).doc \in F
        OBVIOUS
      <4>1. Head(queue[g]).doc \in Docs
        BY <3>1, ZenonT(30) DEF Messages
      <4>2. Has(queue[g], "flush", Head(queue[g]).doc)
        BY <3>1, HasTail, ZenonT(30)
      <4> QED  BY <4>1, <4>2, ZenonT(30) DEF Listed
    <3> QED  BY <2>3, <3>2, ZenonT(30) DEF Receive
  <2>4. CASE IdleClose(g)
    BY <2>4, Retired, ZenonT(30)
  <2>5. ASSUME FinishFlush(g) PROVE waiters'[g] = {}
    BY <2>5, ZenonT(30) DEF FinishFlush
  <2>6. CASE ResolveLive(g) \/ ResolveUnknown(g) \/ ResolveDeleted(g) \/ BuildNothing(g) \/ ConfirmBatch(g)
    BY <2>5, <2>6, ZenonT(30) DEF ResolveLive, ResolveUnknown, DropStale, ResolveDeleted,
       BuildNothing, ConfirmBatch
  <2>7. CASE BatchDeadline(g) \/ Upload(g) \/ StageSplit(g) \/ PublishSplit(g) \/ IdleUnpublish(g)
    BY <2>7, ZenonT(30) DEF BatchDeadline, Upload, StageSplit, PublishSplit, IdleUnpublish
  <2> QED  BY Workers, <2>1, <2>2, <2>3, <2>4, <2>6, <2>7, ZenonT(30) DEF Acts, WorkerStep, FlushStep
<1> SUFFICES ASSUME NEW d \in Docs, d \in F' \cup waiters'[g] PROVE req'[d] \in {"waiting"} \cup Terminal
  BY ZenonT(30) DEF Asked
<1>4. d \in F \cup waiters[g] \/ req'[d] = "waiting"
  BY <1>2, <1>3, ZenonT(30)
<1> QED  BY <1>1, <1>4, ZenonT(30) DEF Asked

\* A worker is started when there is none in the map.
LEMMA OnlyMappedStep ==
    ASSUME FlowInv, OnlyMapped, [Next]_vars
    PROVE  OnlyMapped'
<1>T. TypeOK /\ WorkerInv
  BY ZenonT(30) DEF FlowInv, PipelineInv
<1> SUFFICES ASSUME retires' = 0, NEW g \in Gens, wpc'[g] \notin {"none", "gone"} PROVE g = entry'
  BY ZenonT(30) DEF OnlyMapped
<1>1. retires = 0
  BY <1>T, CountsGrow DEF TypeOK, BoundType
<1>2. ~Crash
  BY <1>T, CrashClears, ZenonT(30)
<1>3. \A h \in Gens : ~IdleUnpublish(h)
  BY <1>1 DEF IdleUnpublish
<1>4. CASE Born(g)
  BY <1>4, ZenonT(30) DEF Born
<1>5. CASE ~Born(g)
  <2>1. wpc[g] \notin {"none", "gone"}
    BY <1>T, <1>2, <1>5, Workers, Running, ZenonT(30) DEF Still, Flushing
  <2>2. g = entry /\ entry # 0
    BY <1>1, <2>1, NoWorker, ZenonT(30) DEF OnlyMapped
  <2>3. entry' = entry
    BY <1>2, <1>3, <2>2, EntryWriters, ZenonT(30) DEF LookupWorker, ReplayLookup, WorkerFor
  <2> QED  BY <2>2, <2>3, ZenonT(30)
<1> QED  BY <1>4, <1>5, ZenonT(30)

\* What is visible stays visible.
LEMMA IndexedGrows ==
    ASSUME [Next]_vars
    PROVE  indexed \subseteq indexed'
BY IndexedWriters, ZenonT(30) DEF PublishSplit

\* Without deletions and retirements a document goes from the channel to the
\* buffer, from there to the batch, and leaves it when it is visible.
LEMMA Advances ==
    ASSUME FlowInv, [Next]_vars, retires = 0, deletes = 0, ~Crash,
           NEW g \in Gens, NEW d \in Docs \ plan.poison
    PROVE  /\ d \in batch[g] => d \in indexed' \cup batch'[g]
           /\ d \in buffer[g] => d \in buffer'[g] \cup batch'[g]
           /\ d \in Listed(g, "doc") => d \in Listed(g, "doc")' \cup buffer'[g] \cup batch'[g]
<1>T. TypeOK /\ WorkerInv /\ RowInv /\ SplitInv /\ Tidy(g) /\ queue[g] \in Seq(Messages) /\ WorkerType
  BY ZenonT(30) DEF FlowInv, PipelineInv, WorkerInv, TypeOK, WorkerType
<1> DEFINE L == Listed(g, "doc")
<1>1. ~IdleClose(g)
  BY <1>T DEF IdleClose, Runs, WorkerInv, Retirement
<1>2. CASE Receive(g)
  <2>1. batch[g] = {}
    BY <1>T, <1>2, ZenonT(30) DEF Receive, Runs, Tidy, Flushing
  <2>2. /\ Head(queue[g]) \in Messages /\ queue[g] # <<>> /\ queue'[g] = Tail(queue[g])
    BY <1>T, <1>2, Received, ZenonT(30)
  <2>3. d \in L => d \in L' \/ (Head(queue[g]).kind = "doc" /\ Head(queue[g]).doc = d)
    <3>1. Has(queue[g], "doc", d) => Has(Tail(queue[g]), "doc", d)
                                       \/ (Head(queue[g]).kind = "doc" /\ Head(queue[g]).doc = d)
      BY <1>T, <2>2, HasTail, ZenonT(30)
    <3> QED  BY <2>2, <3>1, ZenonT(30) DEF Listed
  <2>4. buffer[g] \subseteq buffer'[g] \cup batch'[g]
    BY <1>T, <1>2, ZenonT(30) DEF Receive, StartFlush, WorkerType
  <2>5. Head(queue[g]).kind = "doc" => Head(queue[g]).doc \in buffer'[g] \cup batch'[g]
    <3> SUFFICES ASSUME Head(queue[g]).kind = "doc", Head(queue[g]).kind # "flush"
                 PROVE  Head(queue[g]).doc \in buffer'[g] \cup batch'[g]
      OBVIOUS
    <3> QED  BY <1>T, <1>2, ZenonT(30) DEF Receive, StartFlush, WorkerType
  <2> QED  BY <2>1, <2>3, <2>4, <2>5, ZenonT(30)
<1>3. CASE ~Receive(g)
  <2>1. L \subseteq L'
    BY <1>T, <1>1, <1>3, Listings, ZenonT(30)
  <2>2. CASE Still(g) \/ Born(g)
    BY <2>1, <2>2, ZenonT(30) DEF Still, Born
  <2>3. CASE BatchDeadline(g)
    <3>1. batch[g] = {} /\ batch'[g] = buffer[g]
      BY <1>T, <2>3, ZenonT(30) DEF BatchDeadline, StartFlush, Runs, Tidy, Flushing, WorkerType
    <3> QED  BY <2>1, <3>1, ZenonT(30)
  <2>4. ASSUME wpc[g] \in Flushing, d \in batch[g] => d \in indexed' \cup batch'[g]
        PROVE  /\ d \in batch[g] => d \in indexed' \cup batch'[g]
               /\ d \in buffer[g] => d \in buffer'[g] \cup batch'[g]
               /\ d \in L => d \in L' \cup buffer'[g] \cup batch'[g]
    <3>1. buffer[g] = {}
      BY <1>T, <2>4, ZenonT(30) DEF Tidy, Flushing
    <3> QED  BY <2>1, <2>4, <3>1, ZenonT(30)
  <2>5. CASE ResolveLive(g) \/ ResolveUnknown(g)
    <3>1. ~Outdated(d)
      <4>1. ~Known(2)
        BY <1>T DEF RowInv, LiveRow, Known, TypeOK, MetaType
      <4> QED  BY <4>1, OutdatedRows, ZenonT(30)
    <3>2. PICK row : DropStale(g, row) /\ d \notin Stale(g, row)
      BY <2>5, <3>1, ZenonT(30) DEF ResolveLive, ResolveUnknown, Outdated
    <3>3. d \in batch[g] => d \in batch'[g]
      BY <1>T, <3>2, ZenonT(30) DEF DropStale, WorkerType
    <3>4. wpc[g] \in Flushing
      BY <2>5, ZenonT(30) DEF ResolveLive, ResolveUnknown, Runs, Flushing
    <3> QED  BY <2>4, <3>3, <3>4, ZenonT(30)
  <2>6. CASE ResolveDeleted(g)
    <3>1. live = 0 /\ wpc[g] = "resolve"
      BY <2>6, ZenonT(30) DEF ResolveDeleted, Runs
    <3>2. Known(target[g]) /\ target[g] \in Nat
      BY <1>T, <3>1, ZenonT(30) DEF RowInv, BoundRows, WorkerType
    <3> QED  BY <3>1, <3>2 DEF Known
  <2>7. CASE BuildNothing(g)
    <3>1. wpc[g] \in Flushing /\ d \notin batch[g]
      BY <2>7, ZenonT(30) DEF BuildNothing, Runs, Flushing
    <3> QED  BY <2>4, <3>1, ZenonT(30)
  <2>8. CASE ConfirmBatch(g)
    <3>1. wpc[g] = "confirm" /\ wpc[g] \in Flushing
      BY <2>8, ZenonT(30) DEF ConfirmBatch, Runs, Flushing
    <3>2. d \in batch[g] => d \in indexed'
      BY <1>T, <3>1, IndexedGrows, ZenonT(30) DEF SplitInv, Confirming
    <3> QED  BY <2>4, <3>1, <3>2, ZenonT(30)
  <2>9. CASE Upload(g) \/ StageSplit(g) \/ PublishSplit(g) \/ IdleUnpublish(g)
    BY <2>1, <2>9, ZenonT(30) DEF Upload, StageSplit, PublishSplit, IdleUnpublish
  <2> QED  BY <1>T, <1>1, <1>3, Workers, <2>2, <2>3, <2>5, <2>6, <2>7, <2>8, <2>9, ZenonT(30)
           DEF Acts, WorkerStep, FlushStep
<1> QED  BY <1>2, <1>3, ZenonT(30)


\* The flush of a request stays behind its document.
LEMMA WaitsStep ==
    ASSUME FlowInv, [Next]_vars, retires = 0, deletes = 0, ~Crash,
           NEW d \in Docs \ plan.poison, req[d] = "waiting", Waits(d)
    PROVE  Waits(d)'
<1>T. TypeOK /\ WorkerInv /\ WorkerType
  BY ZenonT(30) DEF FlowInv, PipelineInv, TypeOK
<1> SUFFICES ASSUME NEW g \in Gens
             PROVE  /\ After(queue'[g], d) \/ d \in indexed' \cup buffer'[g] \cup batch'[g]
                    /\ d \in waiters'[g] => d \in indexed' \cup batch'[g]
  BY ZenonT(30) DEF Waits
<1>1. /\ d \in batch[g] => d \in indexed' \cup batch'[g]
      /\ d \in buffer[g] => d \in buffer'[g] \cup batch'[g]
      /\ indexed \subseteq indexed'
  BY Advances, IndexedGrows, ZenonT(30)
<1>2. /\ After(queue[g], d) \/ d \in indexed \cup buffer[g] \cup batch[g]
      /\ d \in waiters[g] => d \in indexed \cup batch[g]
      /\ queue[g] \in Seq(Messages) /\ Tidy(g)
  BY <1>T, ZenonT(30) DEF Waits, WorkerInv, WorkerType
<1>3. ~IdleClose(g)
  BY <1>T DEF IdleClose, Runs, WorkerInv, Retirement
<1>4. ASSUME After(queue[g], d)
      PROVE  After(queue'[g], d) \/ d \in buffer'[g] \cup batch'[g]
  <2>1. ASSUME NEW x \in Docs, queue'[g] = Append(queue[g], [kind |-> "doc", doc |-> x])
        PROVE  After(queue'[g], d)
    <3>1. [kind |-> "doc", doc |-> x] \in Messages /\ [kind |-> "doc", doc |-> x].kind # "flush"
      BY ZenonT(30) DEF Messages
    <3> QED  BY <1>2, <1>4, <2>1, <3>1, AfterAppend, ZenonT(30)
  <2>2. ASSUME NEW x \in Docs, RefreshSend(x), queue'[g] = Append(queue[g], [kind |-> "flush", doc |-> x])
        PROVE  After(queue'[g], d)
    <3>1. [kind |-> "flush", doc |-> x] \in Messages /\ [kind |-> "flush", doc |-> x].doc = x
      BY ZenonT(30) DEF Messages
    <3>2. x # d
      BY <2>2, ZenonT(30) DEF RefreshSend, At
    <3> QED  BY <1>2, <1>4, <2>2, <3>1, <3>2, AfterAppend, ZenonT(30)
  <2>3. ASSUME Receive(g) PROVE After(queue'[g], d) \/ d \in buffer'[g] \cup batch'[g]
    <3>1. queue[g] # <<>> /\ queue'[g] = Tail(queue[g])
      BY <1>T, <2>3, Received, ZenonT(30)
    <3>2. (Head(queue[g]).kind = "doc" /\ Head(queue[g]).doc = d) \/ After(queue'[g], d)
      BY <1>2, <1>4, <3>1, AfterTail, ZenonT(30)
    <3>3. ASSUME Head(queue[g]).kind = "doc", Head(queue[g]).kind # "flush"
          PROVE  Head(queue[g]).doc \in buffer'[g] \cup batch'[g]
      BY <1>T, <2>3, <3>3, ZenonT(30) DEF Receive, StartFlush, WorkerType
    <3> QED  BY <3>2, <3>3, ZenonT(30)
  <2> QED  BY <1>T, <1>3, <1>4, <2>1, <2>2, <2>3, Channels, ZenonT(30) DEF Channel
<1>5. After(queue'[g], d) \/ d \in indexed' \cup buffer'[g] \cup batch'[g]
  BY <1>1, <1>2, <1>4, ZenonT(30)
<1>6. ASSUME d \in waiters'[g], d \notin waiters[g] PROVE d \in indexed' \cup batch'[g]
  <2>1. Receive(g) /\ Head(queue[g]).kind = "flush" /\ Head(queue[g]).doc = d /\ batch'[g] = buffer[g]
    <3>1. ~Still(g) /\ ~Born(g)
      BY <1>6, ZenonT(30) DEF Still, Born
    <3>2. ~FinishFlush(g)
      BY <1>T, <1>6, ZenonT(30) DEF FinishFlush, WorkerType
    <3>3. waiters' # waiters
      BY <1>6, ZenonT(30)
    <3>4. Receive(g)
      BY <1>T, <1>3, <3>1, <3>2, <3>3, Workers, ZenonT(30) DEF Acts, WorkerStep, FlushStep, ResolveLive,
         ResolveUnknown, DropStale, ResolveDeleted, BuildNothing, ConfirmBatch, BatchDeadline, Upload,
         StageSplit, PublishSplit, IdleUnpublish
    <3>5. /\ Head(queue[g]).kind = "flush" /\ StartFlush(g, buffer[g])
          /\ waiters' = [waiters EXCEPT ![g] = @ \cup {Head(queue[g]).doc}]
      BY <3>3, <3>4, ZenonT(30) DEF Receive
    <3>6. batch'[g] = buffer[g]
      BY <1>T, <3>5, ZenonT(30) DEF StartFlush, WorkerType
    <3>7. waiters'[g] = waiters[g] \cup {Head(queue[g]).doc}
      BY <1>T, <3>5, ZenonT(30) DEF WorkerType
    <3> QED  BY <1>6, <3>4, <3>5, <3>6, <3>7, ZenonT(30)
  <2>2. ~After(queue[g], d)
    <3>1. queue[g] # <<>>
      BY <1>T, <2>1, Received, ZenonT(30)
    <3> QED  BY <1>2, <2>1, <3>1, AfterTail, ZenonT(30)
  <2>3. batch[g] = {}
    BY <1>2, <2>1, ZenonT(30) DEF Receive, Runs, Tidy, Flushing
  <2> QED  BY <1>1, <1>2, <2>1, <2>2, <2>3, ZenonT(30)
<1>7. d \in waiters'[g] => d \in indexed' \cup batch'[g]
  BY <1>1, <1>2, <1>6, ZenonT(30)
<1> QED  BY <1>5, <1>7, ZenonT(30)

\* A worker answers a refresh when the document is visible.
LEMMA AnswersVisible ==
    ASSUME FlowInv, [Next]_vars, retires = 0, deletes = 0, ~Crash, NEW g \in Gens,
           \/ Receive(g) \/ IdleClose(g) \/ ResolveLive(g) \/ ResolveDeleted(g)
           \/ BuildNothing(g) \/ ConfirmBatch(g) \/ ResolveUnknown(g),
           NEW d \in Docs \ plan.poison, req[d] = "waiting", req'[d] = "refreshed", Waits(d)
    PROVE  d \in indexed'
<1>T. TypeOK /\ WorkerInv /\ WorkerType
  BY ZenonT(30) DEF FlowInv, PipelineInv, TypeOK
<1>1. /\ After(queue[g], d) \/ d \in indexed \cup buffer[g] \cup batch[g]
      /\ d \in waiters[g] => d \in indexed \cup batch[g]
      /\ queue[g] \in Seq(Messages) /\ Tidy(g)
  BY <1>T, ZenonT(30) DEF Waits, WorkerInv, WorkerType
<1>2. ~IdleClose(g)
  BY <1>T DEF IdleClose, Runs, WorkerInv, Retirement
<1>3. req' # req
  OBVIOUS
<1>4. CASE FinishFlush(g)
  <2>1. d \in waiters[g] /\ batch'[g] = {}
    BY <1>T, <1>4, ZenonT(30) DEF FinishFlush, Answer, WorkerType
  <2>2. d \in batch[g] => d \in indexed'
    BY <2>1, Advances, ZenonT(30)
  <2> QED  BY <1>1, <2>1, <2>2, IndexedGrows, ZenonT(30)
<1>5. CASE Receive(g)
  <2>1. Head(queue[g]).kind = "flush" /\ buffer[g] = {} /\ Answer({Head(queue[g]).doc})
    BY <1>3, <1>5, ZenonT(30) DEF Receive
  <2>2. Head(queue[g]).doc = d
    BY <2>1, ZenonT(30) DEF Answer
  <2>3. ~After(queue[g], d)
    <3>1. queue[g] # <<>>
      BY <1>T, <1>5, Received, ZenonT(30)
    <3> QED  BY <1>1, <2>1, <2>2, <3>1, AfterTail, ZenonT(30)
  <2>4. batch[g] = {}
    BY <1>1, <1>5, ZenonT(30) DEF Receive, Runs, Tidy, Flushing
  <2> QED  BY <1>1, <2>1, <2>3, <2>4, IndexedGrows, ZenonT(30)
<1> QED  BY <1>2, <1>3, <1>4, <1>5, ZenonT(30) DEF ResolveLive, ResolveUnknown, DropStale,
         ResolveDeleted, BuildNothing, ConfirmBatch


\* A document on its way stays on its way until it is visible.
LEMMA NearStep ==
    ASSUME FlowInv, [Next]_vars, retires = 0, deletes = 0, ~Crash,
           NEW d \in Docs \ plan.poison, Near(d)
    PROVE  Near(d)'
<1>1. CASE d \in indexed
  BY <1>1, IndexedGrows, ZenonT(30) DEF Near
<1>2. ASSUME NEW g \in Gens, d \in Ahead(g) \cup batch[g] PROVE Near(d)'
  BY <1>2, Advances, ZenonT(30) DEF Near, Ahead
<1> QED  BY <1>1, <1>2, ZenonT(30) DEF Near

\* While no worker retires, what is on its way is with the worker in the map.
LEMMA NearMapped ==
    ASSUME FlowInv, OnlyMapped, retires = 0, NEW g \in Gens, NEW d, d \in Ahead(g) \cup batch[g]
    PROVE  g = entry
<1>T. TypeOK /\ WorkerInv /\ Tidy(g)
  BY ZenonT(30) DEF FlowInv, PipelineInv, WorkerInv
<1>1. d \in Load(g)
  BY <1>T, ZenonT(30) DEF Load, Tidy
<1>2. wpc[g] \notin {"none", "gone"}
  BY <1>T, <1>1, NoLoad, ZenonT(30)
<1> QED  BY <1>2, ZenonT(30) DEF OnlyMapped

\* A refresh goes to the worker that has the document.
LEMMA RefreshSendStep ==
    ASSUME FlowInv, RefreshInv, [Next]_vars, retires = 0, deletes = 0, ~Crash,
           NEW d \in Docs \ plan.poison, RefreshSend(d), Near(d)
    PROVE  handle[d] \notin closed /\ Waits(d)'
<1>T. TypeOK /\ WorkerInv /\ WorkerType
  BY ZenonT(30) DEF FlowInv, PipelineInv, TypeOK
<1>1. req[d] = "cutting" /\ UNCHANGED <<indexed, buffer, batch, waiters>>
  BY ZenonT(30) DEF RefreshSend, At, metaVars
<1>2. handle[d] \in Gens /\ handle[d] \notin closed /\ handle[d] = entry
  <2>1. closed = {}
    BY <1>T DEF WorkerInv, Retirement
  <2>2. handle[d] \in Gens /\ wpc[handle[d]] \notin {"none", "gone"}
    BY <1>T, <1>1, <2>1, ZenonT(30) DEF WorkerInv, Handles, Usable
  <2> QED  BY <2>1, <2>2, ZenonT(30) DEF RefreshInv, OnlyMapped
<1>3. queue' = [queue EXCEPT ![handle[d]] = Append(@, [kind |-> "flush", doc |-> d])]
  BY <1>2, ZenonT(30) DEF RefreshSend
<1>4. \A g \in Gens : d \notin Listed(g, "flush") /\ d \notin waiters[g]
  BY <1>1, ZenonT(30) DEF RefreshInv, Asked, Terminal
<1>5. ASSUME NEW g \in Gens
      PROVE  After(queue'[g], d) \/ d \in indexed' \cup buffer'[g] \cup batch'[g]
  <2>1. After(queue[g], d)
    BY <1>4, NoneAfter, ZenonT(30) DEF Listed
  <2>2. CASE g # handle[d]
    BY <1>T, <1>3, <2>1, <2>2, ZenonT(30) DEF WorkerType
  <2>3. CASE g = handle[d] /\ d \notin indexed \cup buffer[g] \cup batch[g]
    <3>1. PICK h \in Gens : d \in Ahead(h) \cup batch[h]
      BY <2>3, ZenonT(30) DEF Near
    <3>2. h = g
      BY <1>2, <2>3, <3>1, NearMapped, ZenonT(30) DEF RefreshInv
    <3>3. Has(queue[g], "doc", d)
      BY <2>3, <3>1, <3>2, ZenonT(30) DEF Ahead, Listed
    <3>4. queue[g] \in Seq(Messages) /\ queue'[g] = Append(queue[g], [kind |-> "flush", doc |-> d])
      BY <1>T, <1>3, <2>3, ZenonT(30) DEF WorkerType
    <3>5. [kind |-> "flush", doc |-> d] \in Messages
      BY ZenonT(30) DEF Messages
    <3> QED  BY <2>1, <3>3, <3>4, <3>5, AfterAppend, ZenonT(30)
  <2> QED  BY <1>1, <2>2, <2>3, ZenonT(30)
<1> QED  BY <1>1, <1>2, <1>4, <1>5, ZenonT(30) DEF Waits

\* A refresh is answered after the write it follows is visible.
LEMMA RefreshStep ==
    ASSUME FlowInv, RefreshInv, [Next]_vars
    PROVE  RefreshInv'
<1>T. TypeOK /\ WorkerInv
  BY ZenonT(30) DEF FlowInv, PipelineInv
<1>1. (\A g \in Gens : Asked(g)') /\ OnlyMapped'
  BY AskedStep, OnlyMappedStep, ZenonT(30) DEF RefreshInv
<1> SUFFICES ASSUME retires' = 0, deletes' = 0, NEW d \in Docs \ plan'.poison
             PROVE  Refreshing(d)'
  BY <1>1, ZenonT(30) DEF RefreshInv
<1>2. retires = 0 /\ deletes = 0 /\ d \in Docs \ plan.poison
  BY <1>T, CountsGrow, PlanKept DEF TypeOK, BoundType, MetaType
<1>3. Refreshing(d)
  BY <1>2, ZenonT(30) DEF RefreshInv
<1>4. CASE Crash
  <2>1. req'[d] \notin {"refresh", "cutting", "waiting"} /\ (req'[d] = "refreshed" => req[d] = "refreshed")
    BY <1>2, <1>4, ZenonT(30) DEF Crash, Terminal
  <2>2. indexed' = indexed
    BY <1>T, <1>4, CrashClears, ZenonT(30)
  <2> QED  BY <1>3, <2>1, <2>2, ZenonT(30) DEF Refreshing
<1>5. CASE ~Crash
  <2>1. req'[d] \in {"refresh", "cutting"} => Near(d)'
    <3>1. CASE req[d] \in {"refresh", "cutting"}
      BY <1>2, <1>3, <1>5, <3>1, NearStep, ZenonT(30) DEF Refreshing
    <3>2. ASSUME req[d] \notin {"refresh", "cutting"}, req'[d] \in {"refresh", "cutting"}
          PROVE  Near(d)'
      <4>1. TrySend(d) /\ req'[d] = "refresh"
        BY <1>T, <1>2, <3>2, Moves, ZenonT(30) DEF Move
      <4>2. req'[d] # "rejected" /\ req'[d] # "relookup"
        BY <4>1, ZenonT(30)
      <4>3. /\ handle[d] \notin closed /\ handle[d] \in Gens
            /\ queue' = [queue EXCEPT ![handle[d]] = Append(@, [kind |-> "doc", doc |-> d])]
        <5>1. req[d] \in {"send", "resend"}
          BY <4>1, ZenonT(30) DEF TrySend, At
        <5>2. handle[d] \in Gens
          BY <1>T, <1>2, <5>1, ZenonT(30) DEF WorkerInv, Handles, Usable
        <5> QED  BY <1>T, <1>2, <4>1, <4>2, <5>2, ZenonT(30) DEF TrySend, Goto, Reject, TypeOK, ReqType
      <4>4. queue[handle[d]] \in Seq(Messages)
            /\ queue'[handle[d]] = Append(queue[handle[d]], [kind |-> "doc", doc |-> d])
        BY <1>T, <4>3, ZenonT(30) DEF TypeOK, WorkerType
      <4>5. [kind |-> "doc", doc |-> d] \in Messages /\ [kind |-> "doc", doc |-> d].kind = "doc"
            /\ [kind |-> "doc", doc |-> d].doc = d
        BY <1>2, ZenonT(30) DEF Messages
      <4>6. Has(queue'[handle[d]], "doc", d)
        BY <4>4, <4>5, HasAppend
      <4> QED  BY <1>2, <4>3, <4>6, ZenonT(30) DEF Near, Ahead, Listed
    <3> QED  BY <3>1, <3>2, ZenonT(30)
  <2>2. ASSUME req'[d] = "waiting" PROVE Waits(d)'
    <3>1. CASE req[d] = "waiting"
      BY <1>2, <1>3, <1>5, <3>1, WaitsStep, ZenonT(30) DEF Refreshing
    <3>2. CASE req[d] # "waiting"
      <4>1. RefreshSend(d) /\ req[d] = "cutting"
        BY <1>T, <1>2, <2>2, <3>2, Moves, ZenonT(30) DEF Move
      <4>2. Near(d)
        BY <1>3, <4>1, ZenonT(30) DEF Refreshing
      <4> QED  BY <1>2, <1>5, <4>1, <4>2, RefreshSendStep, ZenonT(30)
    <3> QED  BY <3>1, <3>2, ZenonT(30)
  <2>3. ASSUME req'[d] = "refreshed" PROVE d \in indexed'
    <3>1. CASE req[d] = "refreshed"
      BY <1>3, <3>1, IndexedGrows, ZenonT(30) DEF Refreshing
    <3>2. CASE RefreshLookup(d) /\ req[d] = "refresh"
      <4>1. entry = 0
        BY <1>T, <1>2, <2>3, <3>2, ZenonT(30) DEF RefreshLookup, Goto, TypeOK, ReqType
      <4>2. Near(d)
        BY <1>3, <3>2, ZenonT(30) DEF Refreshing
      <4>3. d \in indexed
        BY <1>2, <4>1, <4>2, NearMapped, NoWorker, ZenonT(30) DEF Near, RefreshInv
      <4> QED  BY <4>3, IndexedGrows, ZenonT(30)
    <3>3. CASE RefreshSend(d) /\ req[d] = "cutting"
      <4>1. handle[d] \notin closed
        BY <1>2, <1>3, <1>5, <3>3, RefreshSendStep, ZenonT(30) DEF Refreshing
      <4>2. req'[d] = "waiting"
        BY <1>T, <1>2, <3>3, <4>1, ZenonT(30) DEF RefreshSend, Goto, TypeOK, ReqType
      <4> QED  BY <2>3, <4>2, ZenonT(30)
    <3>4. CASE req[d] = "waiting" /\ \E g \in Gens :
                 \/ Receive(g) \/ IdleClose(g) \/ ResolveLive(g) \/ ResolveDeleted(g)
                 \/ BuildNothing(g) \/ ConfirmBatch(g) \/ ResolveUnknown(g)
      BY <1>2, <1>3, <1>5, <2>3, <3>4, AnswersVisible, ZenonT(30) DEF Refreshing
    <3> QED  BY <1>T, <1>2, <1>5, <2>3, <3>1, <3>2, <3>3, <3>4, Moves, ZenonT(30) DEF Move
  <2> QED  BY <2>1, <2>2, <2>3, ZenonT(30) DEF Refreshing
<1> QED  BY <1>4, <1>5, ZenonT(30)

\* A refresh that is answered, and not cut short by its time limit, shows the
\* write it belongs to, as long as the index is not deleted and no worker
\* retires: the flush message follows the document through the same channel,
\* and is answered after the batch with the document is published.
THEOREM RefreshShowsWrite == Spec => [](deletes = 0 => RefreshSeesWrite)
<1>1. Init => RefreshInv
  <2> SUFFICES ASSUME Init PROVE RefreshInv
    OBVIOUS
  <2>1. \A g \in Gens : queue[g] = <<>> /\ waiters[g] = {} /\ wpc[g] = "none"
    BY ZenonT(30) DEF Init
  <2>2. \A d \in Docs : req[d] = "none"
    BY ZenonT(30) DEF Init
  <2>3. \A g \in Gens : Listed(g, "flush") = {}
    BY <2>1, EmptyHas, ZenonT(30) DEF Listed
  <2>4. \A d \in Docs : Refreshing(d)
    BY <2>2, ZenonT(30) DEF Refreshing
  <2> QED  BY <2>1, <2>3, <2>4, ZenonT(30) DEF RefreshInv, Asked, OnlyMapped
<1>2. FlowInv /\ RefreshInv /\ [Next]_vars => RefreshInv'
  BY RefreshStep, ZenonT(30)
<1>3. RefreshInv => (deletes = 0 => RefreshSeesWrite)
  BY ZenonT(30) DEF RefreshInv, Refreshing, RefreshSeesWrite
<1> QED  BY <1>1, <1>2, <1>3, FlowInvariant, PTL DEF Spec
=============================================================================
