-------------------------- MODULE DocumentsProofs --------------------------
(***************************************************************************)
(* Proofs about document versions and tombstones, for any number of        *)
(* items, ids, nodes, controllers, clock readings, crashes, failed calls   *)
(* and changes of leadership: the stamps of SeqClock rise, for any radix   *)
(* and range; every step keeps the types, stamps staying in the i64 range; *)
(* and a split holds nothing that a tombstone it is recorded to have       *)
(* applied hides.                                                          *)
(*                                                                         *)
(* The last rests on two facts: the ordinals of tombstones commit in       *)
(* order, and the list of a rewrite is complete up to the ordinal the      *)
(* rewrite will record.                                                    *)
(***************************************************************************)
EXTENDS Documents, TLAPS

----------------------------------------------------------------------------
(* SeqClock *)

\* A larger slot makes a larger product.
LEMMA SlotOrder ==
    ASSUME NEW a \in Int, NEW b \in Int, a <= b
    PROVE  a * Radix <= b * Radix
BY ClockAssumption, SMTT(20)

\* Division by the radix.
LEMMA SlotOf ==
    ASSUME NEW x \in Nat
    PROVE  /\ x \div Radix \in Nat
           /\ (x \div Radix) * Radix <= x
           /\ x < (x \div Radix + 1) * Radix
BY ClockAssumption, SMTT(20)

\* A packed stamp lies in the i64 range.
LEMMA PackInRange ==
    ASSUME NEW slot \in 0 .. Slots - 1, NEW salt \in Salts
    PROVE  Pack(slot, salt) \in Stamps
BY ClockAssumption, SMTT(20) DEF Pack, Salts, Stamps, MaxStamp

\* The stamp of a slot belongs to that slot, whatever the salt.
LEMMA PackBounds ==
    ASSUME NEW slot \in Int, NEW salt \in Salts
    PROVE  /\ Pack(slot, salt) \in Int
           /\ slot * Radix <= Pack(slot, salt)
           /\ Pack(slot, salt) < (slot + 1) * Radix
BY ClockAssumption, SMTT(20) DEF Pack, Salts

\* Two stamps with different salts differ.
LEMMA PackDistinct ==
    ASSUME NEW a \in Int, NEW b \in Int, NEW s \in Salts, NEW t \in Salts,
           Pack(a, s) = Pack(b, t)
    PROVE  s = t
<1>1. a * Radix < (b + 1) * Radix /\ b * Radix < (a + 1) * Radix
  BY PackBounds, ClockAssumption DEF Pack, Salts
<1>2. a < b + 1 /\ b < a + 1
  BY <1>1, SlotOrder, ClockAssumption
<1> QED  BY <1>2, ClockAssumption DEF Pack, Salts

\* The stamp is a salted slot, or the clock is at the top of its range.
LEMMA NextIsPacked ==
    ASSUME NEW salt \in Salts, NEW prev \in Stamps, NEW micros \in Int
    PROVE  \/ NextStamp(salt, prev, micros) = MaxStamp
           \/ \E slot \in 0 .. Slots - 1 : NextStamp(salt, prev, micros) = Pack(slot, salt)
<1>1. \E slot \in 0 .. Slots - 1 : Now(salt, micros) = Pack(slot, salt)
  BY ClockAssumption DEF Now
<1>2. prev \div Radix \in Nat
  BY SlotOf, ClockAssumption DEF Stamps
<1>3. \/ StampAfter(salt, prev) = MaxStamp
      \/ \E slot \in 0 .. Slots - 1 : StampAfter(salt, prev) = Pack(slot, salt)
  BY <1>2, ClockAssumption DEF StampAfter
<1> QED  BY <1>1, <1>3, ZenonT(30) DEF NextStamp, Larger

\* next() stays in the i64 range, even when the wall clock is before the
\* epoch or past the end of the range (pipeline.rs:95).
THEOREM NextInRange ==
    ASSUME NEW salt \in Salts, NEW prev \in Stamps, NEW micros \in Int
    PROVE  NextStamp(salt, prev, micros) \in Stamps
<1>1. MaxStamp \in Stamps
  BY ClockAssumption, SMTT(20) DEF MaxStamp, Stamps
<1> QED  BY <1>1, NextIsPacked, PackInRange, ZenonT(30)

\* "forced strictly increasing across calls on one node, and pushed past
\* every sequence this node has observed" (pipeline.rs:46): a stamp exceeds
\* whatever `prev` holds, be it an earlier stamp of this node or a sequence
\* observed from another, until the range is exhausted.
THEOREM NextIncreases ==
    ASSUME NEW salt \in Salts, NEW prev \in Stamps, NEW micros \in Int,
           prev < Pack(Slots - 1, 0)
    PROVE  NextStamp(salt, prev, micros) > prev
<1> DEFINE slot == prev \div Radix
<1>1. slot \in Nat /\ slot * Radix <= prev /\ prev < (slot + 1) * Radix
  BY SlotOf, ClockAssumption DEF Stamps
<1>2. slot * Radix < (Slots - 1) * Radix
  BY <1>1, ClockAssumption DEF Pack, Stamps
<1>3. slot < Slots - 1
  BY <1>1, <1>2, SlotOrder, ClockAssumption
<1>4. StampAfter(salt, prev) = Pack(slot + 1, salt)
  BY <1>1, <1>3, ClockAssumption DEF StampAfter
<1>5. Pack(slot + 1, salt) \in Int /\ Pack(slot + 1, salt) > prev
  BY <1>1, PackBounds, ClockAssumption DEF Stamps
<1>6. Now(salt, micros) \in Int
  BY PackBounds, ClockAssumption DEF Now
<1> QED  BY <1>4, <1>5, <1>6 DEF NextStamp, Larger, Stamps

\* "keeps stamps distinct across nodes even at the same microsecond"
\* (pipeline.rs:53): two clocks with different salts never return the same
\* stamp below the top of the range, whatever their wall clocks and their
\* histories.
THEOREM NextDistinct ==
    ASSUME NEW s \in Salts, NEW t \in Salts, s # t,
           NEW last1 \in Stamps, NEW last2 \in Stamps, NEW m1 \in Int, NEW m2 \in Int,
           NextStamp(s, last1, m1) # MaxStamp
    PROVE  NextStamp(s, last1, m1) # NextStamp(t, last2, m2)
<1> SUFFICES ASSUME NextStamp(s, last1, m1) = NextStamp(t, last2, m2)
             PROVE  FALSE
  OBVIOUS
<1>1. PICK a \in 0 .. Slots - 1 : NextStamp(s, last1, m1) = Pack(a, s)
  BY NextIsPacked, ZenonT(30)
<1>2. PICK b \in 0 .. Slots - 1 : NextStamp(t, last2, m2) = Pack(b, t)
  BY NextIsPacked, ZenonT(30)
<1>3. a \in Int /\ b \in Int
  BY ClockAssumption
<1>4. Pack(a, s) = Pack(b, t)
  BY <1>1, <1>2, Zenon
<1>5. s = t
  BY <1>3, <1>4, PackDistinct, ZenonT(30)
<1> QED  BY <1>5, ZenonT(30)

----------------------------------------------------------------------------
(* The operators of Documents, and the steps of a bulk item *)

USE DocumentsAssumption

\* Stamps are naturals.
LEMMA StampsNat == Stamps \subseteq Nat /\ 0 \in Stamps
BY ClockAssumption, SMTT(20) DEF Stamps, MaxStamp

\* observe leaves a stamp.
LEMMA ObserveInRange ==
    ASSUME NEW a \in Stamps, NEW b \in Stamps
    PROVE  Observe(a, b) \in Stamps
BY ZenonT(30) DEF Observe, Larger

\* stream_max_seq is a stamp.
LEMMA MaxSeqInRange ==
    ASSUME TypeOK, NEW m \in StreamMaxSeqs
    PROVE  m \in Stamps
<1>1. LiveSeqs \subseteq Stamps
  BY DEF TypeOK, ItemType, MetaType, SplitType, LiveSeqs
<1> QED  BY <1>1, StampsNat, ZenonT(30) DEF StreamMaxSeqs, MaxSeqs

\* Records of splits, jobs and flushes.
LEMMA RecordTypes ==
    ASSUME TypeOK
    PROVE  /\ NoRow \in RowType /\ NoSplit \in SplitType /\ Idle \in JobType
           /\ \A S \in SUBSET Splits, k \in {"merge", "compact"} : NewJob(k, S) \in JobType
           /\ \A s \in Splits, st \in {"published", "marked"} : WithState(s, st) \in SplitType
<1>1. NoRow \in RowType
  BY StampsNat, ZenonT(30) DEF NoRow, RowType
<1>2. NoRows \in [Ids -> RowType]
  BY <1>1, ZenonT(30) DEF NoRows
<1>3. NoSplit \in SplitType /\ Idle \in JobType
  BY <1>2, ZenonT(30) DEF NoSplit, SplitType, Idle, JobType
<1>4. \A S \in SUBSET Splits, k \in {"merge", "compact"} : NewJob(k, S) \in JobType
  <2> SUFFICES ASSUME NEW S \in SUBSET Splits, NEW k \in {"merge", "compact"}
               PROVE  NewJob(k, S) \in JobType
    OBVIOUS
  <2>1. Records(S) \subseteq [split : Splits, applied : Nat]
    BY DEF Records, TypeOK, MetaType, SplitType
  <2> QED  BY <1>2, <2>1, ZenonT(30) DEF NewJob, JobType
<1>5. \A s \in Splits, st \in {"published", "marked"} : WithState(s, st) \in SplitType
  BY ZenonT(30) DEF WithState, SplitType, TypeOK, MetaType
<1> QED  BY <1>1, <1>3, <1>4, <1>5, ZenonT(30)

\* The documents that survive a rewrite are operations.
LEMMA SurvivorsType ==
    ASSUME TypeOK, NEW c \in Controllers
    PROVE  Survivors(c) \subseteq Ops /\ Sources(c) \subseteq Splits
<1>1. \A r \in job[c].src : r.split \in Splits
  BY DEF TypeOK, JobType
<1>2. \A s \in Splits : split[s].docs \subseteq Ops
  BY ZenonT(30) DEF TypeOK, MetaType, SplitType
<1> QED  BY <1>1, <1>2, ZenonT(30) DEF Survivors, Sources

\* Raising a row leaves rows.
LEMMA RaiseType ==
    ASSUME TypeOK, NEW i \in Ids, NEW b \in Stamps, NEW ord \in Nat
    PROVE  Raise(i, b, ord) \in [Ids -> RowType]
BY ZenonT(30) DEF TypeOK, MetaType, Raise, RowType

\* What a queue holds: its elements are operations; appending adds one, and
\* cutting a batch only distributes them.
LEMMA QueueElems ==
    ASSUME NEW q \in Seq(Ops)
    PROVE  /\ Elems(q) \subseteq Ops
           /\ \A o \in Ops : Append(q, o) \in Seq(Ops) /\ Elems(Append(q, o)) = Elems(q) \cup {o}
           /\ \A k \in 1 .. Len(q) :
                /\ Elems(SubSeq(q, 1, k)) \subseteq Elems(q)
                /\ SubSeq(q, k + 1, Len(q)) \in Seq(Ops)
                /\ Elems(SubSeq(q, k + 1, Len(q))) \subseteq Elems(q)
<1>1. Elems(q) \subseteq Ops
  BY DEF Elems
<1>2. ASSUME NEW o \in Ops
      PROVE  Append(q, o) \in Seq(Ops) /\ Elems(Append(q, o)) = Elems(q) \cup {o}
  <2>1. /\ Append(q, o) \in Seq(Ops) /\ Len(Append(q, o)) = Len(q) + 1
        /\ \A i \in 1 .. Len(q) : Append(q, o)[i] = q[i]
        /\ Append(q, o)[Len(q) + 1] = o
    OBVIOUS
  <2>2. DOMAIN Append(q, o) = 1 .. Len(q) + 1 /\ DOMAIN q = 1 .. Len(q) /\ Len(q) \in Nat
    BY <2>1
  <2>3. 1 .. Len(q) + 1 = (1 .. Len(q)) \cup {Len(q) + 1}
    BY <2>2
  <2> QED  BY <2>1, <2>2, <2>3 DEF Elems
<1>3. ASSUME NEW k \in 1 .. Len(q)
      PROVE  /\ Elems(SubSeq(q, 1, k)) \subseteq Elems(q)
             /\ SubSeq(q, k + 1, Len(q)) \in Seq(Ops)
             /\ Elems(SubSeq(q, k + 1, Len(q))) \subseteq Elems(q)
  BY DEF Elems
<1> QED  BY <1>1, <1>2, <1>3, ZenonT(30)

\* The initial state is well-typed.
LEMMA InitType == Init => TypeOK
<1> SUFFICES ASSUME Init PROVE TypeOK
  OBVIOUS
<1>1. NoRow \in RowType
  BY StampsNat, ZenonT(30) DEF NoRow, RowType
<1>2. NoRows \in [Ids -> RowType]
  BY <1>1, ZenonT(30) DEF NoRows
<1>3. NoSplit \in SplitType /\ Idle \in JobType
  BY <1>2, ZenonT(30) DEF NoSplit, SplitType, Idle, JobType
<1>4. ItemType
  BY StampsNat, ZenonT(30) DEF Init, ItemType, Steps, Terminal
<1>5. NodeType
  BY StampsNat DEF Init, NodeType, FlushType
<1> QED  BY <1>2, <1>3, <1>4, <1>5, ZenonT(30) DEF Init, TypeOK, MetaType

\* A step that leaves items, nodes or metastore alone keeps their types.
LEMMA TypesKept ==
    /\ ItemType /\ UNCHANGED itemVars => ItemType'
    /\ NodeType /\ UNCHANGED nodeVars => NodeType'
    /\ MetaType /\ UNCHANGED metaVars => MetaType'
<1>1. ItemType /\ UNCHANGED itemVars => ItemType'
  BY ZenonT(30) DEF ItemType, itemVars
<1>2. NodeType /\ UNCHANGED nodeVars => NodeType'
  BY ZenonT(30) DEF NodeType, nodeVars
<1>3. MetaType /\ UNCHANGED metaVars => MetaType'
  BY ZenonT(30) DEF MetaType, metaVars
<1> QED  BY <1>1, <1>2, <1>3, ZenonT(30)

\* The steps of a bulk item, and of the worker that confirms it, keep the types.
LEMMA ItemTypes ==
    ASSUME NEW o \in Ops, TypeOK,
           ItemStep(o) \/ Reclaim(o)
    PROVE  TypeOK'
<1> USE DEF TypeOK, ctlVars, boundVars
<1>1. CASE Begin(o)
  BY <1>1, TypesKept, ZenonT(30) DEF Begin, At, Goto, Steps, Terminal, ItemType
<1>2. CASE AppendWal(o)
  BY <1>2, TypesKept, ZenonT(30) DEF AppendWal, At, Goto, Steps, Terminal, ItemType, NodeType
<1>3. CASE Resolve(o)
  <2>1. node[o] \in Nodes
    BY ZenonT(30) DEF ItemType
  <2>2. last' \in [Nodes -> Stamps]
    BY <1>3, <2>1, MaxSeqInRange, ObserveInRange DEF Resolve, NodeType
  <2> QED  BY <1>3, <2>2, TypesKept, ZenonT(30) DEF Resolve, At, Goto, Steps, Terminal, ItemType, NodeType
<1>4. CASE ReadBounds(o)
  <2>1. node[o] \in Nodes /\ row[id[o]].bound \in Stamps
    BY ZenonT(30) DEF ItemType, MetaType, RowType
  <2>2. Observe(last[node[o]], row[id[o]].bound) \in Stamps
    BY <2>1, ObserveInRange, ZenonT(30) DEF NodeType
  <2>3. last' \in [Nodes -> Stamps]
    BY <1>4, <2>2, ZenonT(30) DEF ReadBounds, ObserveBounds, NodeType
  <2>4. pc' \in [Ops -> Steps]
    BY <1>4, ZenonT(30) DEF ReadBounds, Goto, Steps, Terminal, ItemType
  <2> QED  BY <1>4, <2>3, <2>4, TypesKept, ZenonT(30) DEF ReadBounds, ItemType, NodeType
<1>5. CASE Plan(o)
  <2>1. PICK micros \in 0 .. MaxMicros :
            /\ last' = [last EXCEPT ![node[o]] = NextStamp(Salt[node[o]], @, micros)]
            /\ seq' = [seq EXCEPT ![o] = NextStamp(Salt[node[o]], last[node[o]], micros)]
    BY <1>5, ZenonT(30) DEF Plan
  <2>2. node[o] \in Nodes /\ last[node[o]] \in Stamps /\ Salt[node[o]] \in Salts /\ micros \in Int
    BY DEF ItemType, NodeType
  <2>3. NextStamp(Salt[node[o]], last[node[o]], micros) \in Stamps
    BY <2>2, NextInRange, ZenonT(30)
  <2>4. last' \in [Nodes -> Stamps] /\ seq' \in [Ops -> Stamps]
    BY <2>1, <2>2, <2>3, ZenonT(30) DEF ItemType, NodeType
  <2> QED  BY <1>5, <2>4, TypesKept, ZenonT(30) DEF Plan, At, Goto, Steps, Terminal, ItemType, NodeType
<1>6. CASE Enqueue(o)
  <2>1. node[o] \in Nodes /\ queue[node[o]] \in Seq(Ops)
    BY ZenonT(30) DEF ItemType, NodeType
  <2>2. Append(queue[node[o]], o) \in Seq(Ops)
    BY <2>1, QueueElems, ZenonT(30)
  <2>3. queue' \in [Nodes -> Seq(Ops)]
    BY <1>6, <2>2, ZenonT(30) DEF Enqueue, NodeType
  <2>4. wal' \in [Ops -> {"none", "pending", "confirmed"}]
    BY <1>6, ZenonT(30) DEF Enqueue, NodeType
  <2>5. pc' = [pc EXCEPT ![o] = "upsert"] \/ pc' = [pc EXCEPT ![o] = "rejected"]
    BY <1>6, ZenonT(30) DEF Enqueue, Goto
  <2>6. pc' \in [Ops -> Steps]
    BY <2>5, ZenonT(30) DEF ItemType, Steps, Terminal
  <2> QED  BY <1>6, <2>3, <2>4, <2>6, TypesKept, ZenonT(30) DEF Enqueue, ItemType, NodeType
<1>7. CASE DrawTombstone(o)
  BY <1>7, TypesKept, SMTT(60) DEF DrawTombstone, At, Goto, Steps, Terminal, ItemType, MetaType
<1>8. CASE CommitTombstone(o)
  <2>1. id[o] \in Ids /\ seq[o] \in Stamps /\ drawn[o] \in Nat
    BY ZenonT(30) DEF ItemType
  <2>2. row' \in [Ids -> RowType]
    BY <1>8, <2>1, RaiseType, ZenonT(30) DEF CommitTombstone
  <2> QED  BY <1>8, <2>2, TypesKept, ZenonT(30) DEF CommitTombstone, At, Goto, Steps, Terminal, ItemType, MetaType
<1>9. CASE UpsertError(o)
  <2>1. id[o] \in Ids /\ seq[o] \in Stamps /\ drawn[o] \in Nat
    BY ZenonT(30) DEF ItemType
  <2>2. row' \in [Ids -> RowType]
    BY <1>9, <2>1, RaiseType DEF UpsertError, RefuseDelete, RetryReplacement, MetaType
  <2>3. pc' \in [Ops -> Steps]
        /\ acked' \subseteq Ops
    BY <1>9, TypesKept, ZenonT(30) DEF UpsertError, RefuseDelete, RetryReplacement, At, Goto, Steps, Terminal, ItemType, MetaType
  <2> QED  BY <1>9, <2>2, <2>3, TypesKept, ZenonT(30) DEF UpsertError, RefuseDelete, RetryReplacement, ItemType, MetaType
<1>10. CASE Reclaim(o)
  BY <1>10, TypesKept, ZenonT(30) DEF Reclaim, NodeType
<1> QED  BY <1>1, <1>2, <1>3, <1>4, <1>5, <1>6, <1>7, <1>8, <1>9, <1>10, ZenonT(30) DEF ItemStep

----------------------------------------------------------------------------
(* The other steps *)

\* The steps of a node's worker and replay, and its crash, keep the types.
LEMMA NodeTypes ==
    ASSUME NEW n \in Nodes, TypeOK,
           NodeStep(n) \/ Crash(n) \/ ExpireInfo(n)
    PROVE  TypeOK'
<1> USE DEF TypeOK, ctlVars, boundVars
<1>1. CASE StageBatch(n)
  <2>1. queue[n] \in Seq(Ops)
    BY ZenonT(30) DEF NodeType
  <2>2. PICK k \in 1 .. Len(queue[n]), s \in Splits :
            /\ split' = [split EXCEPT ![s] = [state |-> "staged", applied |-> 0,
                                              docs |-> Elems(SubSeq(queue[n], 1, k))]]
            /\ queue' = [queue EXCEPT ![n] = SubSeq(@, k + 1, Len(@))]
            /\ flush' = [flush EXCEPT ![n] = [pc |-> "publish", split |-> s]]
    BY <1>1, ZenonT(30) DEF StageBatch
  <2>3. /\ Elems(SubSeq(queue[n], 1, k)) \subseteq Ops
        /\ SubSeq(queue[n], k + 1, Len(queue[n])) \in Seq(Ops)
    BY <2>1, QueueElems, ZenonT(30)
  <2>4. queue' \in [Nodes -> Seq(Ops)] /\ flush' \in [Nodes -> FlushType]
    BY <2>2, <2>3, ZenonT(30) DEF NodeType, FlushType
  <2>5. split' \in [Splits -> SplitType]
    BY <2>2, <2>3, ZenonT(30) DEF MetaType, SplitType
  <2> QED  BY <1>1, <2>4, <2>5, TypesKept, ZenonT(30) DEF StageBatch, NodeType, MetaType
<1>2. CASE PublishBatch(n)
  <2>1. flush[n].split \in Splits
    BY <1>2, ZenonT(30) DEF PublishBatch, NodeType, FlushType
  <2>2. split' \in [Splits -> SplitType]
    BY <1>2, <2>1, RecordTypes, ZenonT(30) DEF PublishBatch, MetaType
  <2>3. flush' \in [Nodes -> FlushType]
    BY <1>2, <2>1, ZenonT(30) DEF PublishBatch, NodeType, FlushType
  <2>4. published' \subseteq Ops
    BY <1>2, <2>1, ZenonT(30) DEF PublishBatch, MetaType, SplitType
  <2> QED  BY <1>2, <2>2, <2>3, <2>4, TypesKept, ZenonT(30) DEF PublishBatch, NodeType, MetaType
<1>3. CASE ConfirmBatch(n)
  BY <1>3, TypesKept, ZenonT(30) DEF ConfirmBatch, FlushType, NodeType
<1>4. CASE Restart(n)
  BY <1>4, TypesKept, ZenonT(30) DEF Restart, NodeType
<1>5. ASSUME NEW o \in Ops, ReplayRecord(n, o) PROVE TypeOK'
  <2>1. queue[n] \in Seq(Ops) /\ seq[o] \in Stamps /\ last[n] \in Stamps
    BY ZenonT(30) DEF NodeType, ItemType
  <2>2. queue' \in [Nodes -> Seq(Ops)]
    BY <1>5, <2>1, QueueElems, ZenonT(30) DEF ReplayRecord, NodeType
  <2>3. last' \in [Nodes -> Stamps]
    BY <1>5, <2>1, MaxSeqInRange, ObserveInRange DEF ReplayRecord, NodeType
  <2> QED  BY <1>5, <2>2, <2>3, TypesKept DEF ReplayRecord, CollectReissue, NodeType
<1>6. CASE ReissueTombstones(n)
  <2>1. {seq[o] : o \in reissue[n]} \subseteq Stamps
    BY DEF ItemType, NodeType
  <2>2. row' \in [Ids -> RowType]
    BY <1>6, <2>1 DEF ReissueTombstones, MetaType, RowType
  <2>3. ords' \in Nat /\ reissue' \in [Nodes -> SUBSET Ops]
    BY <1>6, TypesKept DEF ReissueTombstones, NodeType, MetaType
  <2> QED  BY <1>6, <2>2, <2>3, TypesKept, ZenonT(30) DEF ReissueTombstones, NodeType, MetaType
<1>7. CASE Crash(n)
  <2>1. ItemType'
    BY <1>7, ZenonT(30) DEF Crash, Steps, Terminal, ItemType
  <2>2. NodeType'
    BY <1>7, StampsNat DEF Crash, FlushType, NodeType
  <2> QED  BY <1>7, <2>1, <2>2, TypesKept, ZenonT(30) DEF Crash
<1>8. CASE ExpireInfo(n)
  BY <1>8, TypesKept, ZenonT(30) DEF ExpireInfo, NodeType
<1> QED  BY <1>1, <1>2, <1>3, <1>4, <1>5, <1>6, <1>7, <1>8, ZenonT(30) DEF NodeStep

\* The jobs of the control leader, and a handover, keep the types.
LEMMA ControlTypes ==
    ASSUME NEW c \in Controllers, TypeOK,
           \/ JobStep(c) \/ PickMerge(c) \/ JobError(c) \/ Handover(c)
           \/ \E i \in Ids : PurgeTombstone(c, i)
    PROVE  TypeOK'
<1> USE DEF TypeOK, ctlVars, boundVars
<1>1. CASE PickCompaction(c)
  <2>1. job' \in [Controllers -> JobType]
    BY <1>1, RecordTypes, ZenonT(30) DEF PickCompaction, SetJob
  <2> QED  BY <1>1, <2>1, TypesKept, ZenonT(30) DEF PickCompaction
<1>2. CASE PickMerge(c)
  <2>1. job' \in [Controllers -> JobType]
    BY <1>2, RecordTypes DEF PickMerge, SetJob
  <2> QED  BY <1>2, <2>1, TypesKept, ZenonT(30) DEF PickMerge
<1>3. CASE ListTombstones(c)
  <2>1. job' \in [Controllers -> JobType]
    <3>1. PICK through \in 0 .. ords :
              job' = [job EXCEPT ![c] = [pc |-> "build", kind |-> job[c].kind, src |-> job[c].src,
                                         list |-> row, through |-> through, new |-> 0]]
      BY <1>3, ZenonT(30) DEF ListTombstones, SetJob
    <3>2. through \in Nat /\ row \in [Ids -> RowType]
      BY DEF MetaType
    <3> QED  BY <3>1, <3>2, ZenonT(30) DEF JobType
  <2> QED  BY <1>3, <2>1, TypesKept, ZenonT(30) DEF ListTombstones
<1>4. CASE MarkApplied(c)
  <2>1. job' \in [Controllers -> JobType]
    BY <1>4, RecordTypes, ZenonT(30) DEF MarkApplied, SetJob
  <2>2. split' \in [Splits -> SplitType]
    <3>1. \A s \in Splits : [state |-> split[s].state, docs |-> split[s].docs,
                             applied |-> Larger(split[s].applied, job[c].through)] \in SplitType
      BY ZenonT(30) DEF MetaType, SplitType, JobType, Larger
    <3> QED  BY <1>4, <3>1, ZenonT(30) DEF MarkApplied, MetaType
  <2> QED  BY <1>4, <2>1, <2>2, TypesKept, ZenonT(30) DEF MarkApplied, MetaType
<1>5. CASE Rebuild(c)
  <2>1. job' \in [Controllers -> JobType]
    <3>1. \A s \in Splits : [pc |-> "swap", kind |-> job[c].kind, src |-> job[c].src,
                             list |-> job[c].list, through |-> job[c].through, new |-> s] \in JobType
      BY DEF JobType, Splits
    <3> QED  BY <1>5, <3>1, RecordTypes DEF Rebuild, SetJob
  <2>2. split' \in [Splits -> SplitType]
    <3>1. [state |-> "staged", docs |-> Survivors(c), applied |-> job[c].through] \in SplitType
      BY SurvivorsType, ZenonT(30) DEF SplitType, JobType
    <3>2. Marked(Sources(c)) \in [Splits -> SplitType]
      BY RecordTypes, ZenonT(30) DEF Marked, MetaType
    <3> QED  BY <1>5, <3>1, <3>2, ZenonT(30) DEF Rebuild, MetaType
  <2> QED  BY <1>5, <2>1, <2>2, TypesKept, ZenonT(30) DEF Rebuild, MetaType
<1>6. CASE Swap(c)
  <2>1. job' \in [Controllers -> JobType]
    BY <1>6, RecordTypes, ZenonT(30) DEF Swap, SetJob
  <2>2. split' \in [Splits -> SplitType]
    BY <1>6, RecordTypes, ZenonT(30) DEF Swap, Swapped, MetaType
  <2> QED  BY <1>6, <2>1, <2>2, TypesKept, ZenonT(30) DEF Swap, MetaType
<1>7. CASE JobError(c)
  <2>1. job' \in [Controllers -> JobType]
    BY <1>7, RecordTypes, ZenonT(30) DEF JobError, SetJob
  <2> QED  BY <1>7, <2>1, TypesKept, ZenonT(30) DEF JobError
<1>8. CASE Handover(c)
  BY <1>8, TypesKept, ZenonT(30) DEF Handover
<1>9. ASSUME NEW i \in Ids, PurgeTombstone(c, i) PROVE TypeOK'
  <2>1. row' \in [Ids -> RowType]
    BY <1>9, RecordTypes, ZenonT(30) DEF PurgeTombstone, MetaType
  <2> QED  BY <1>9, <2>1, TypesKept, ZenonT(30) DEF PurgeTombstone, MetaType
<1> QED  BY <1>1, <1>2, <1>3, <1>4, <1>5, <1>6, <1>7, <1>8, <1>9, ZenonT(30) DEF JobStep

\* No item, worker, replay or control step leaves the types.
LEMMA TypeStep == TypeOK /\ [Next]_vars => TypeOK'
<1> SUFFICES ASSUME TypeOK, [Next]_vars PROVE TypeOK'
  OBVIOUS
<1>1. CASE UNCHANGED vars
  BY <1>1, TypesKept, ZenonT(30) DEF vars, TypeOK, ctlVars
<1> QED  BY <1>1, ItemTypes, NodeTypes, ControlTypes, Zenon DEF Next, Quiescent

----------------------------------------------------------------------------
(* Ordinals commit in order *)

\* The ordinal sequence is ahead of every ordinal recorded anywhere.
OrdsAhead ==
    /\ \A i \in Ids : row[i].ord <= ords
    /\ \A s \in Splits : split[s].applied <= ords
    /\ \A c \in Controllers : job[c].through <= ords
    /\ \A o \in Ops : drawn[o] <= ords

\* One tombstone transaction is open at most, and the ordinal it has drawn is
\* above those of all rows, splits and jobs.
OpenIsNewest ==
    \A o \in Ops : pc[o] = "commit" =>
        /\ drawn[o] > 0
        /\ \A p \in Ops : pc[p] = "commit" => p = o
        /\ \A i \in Ids : row[i].ord < drawn[o]
        /\ \A s \in Splits : split[s].applied < drawn[o]
        /\ \A c \in Controllers : job[c].through < drawn[o]

\* A job's list still has every row up to the ordinal it will record, and its
\* source splits have applied at least what it believes they have.
Covers(c) ==
    /\ job[c].pc = "build" =>
         \A i \in Ids : row[i].ord > 0 /\ row[i].ord <= job[c].through => job[c].list[i] = row[i]
    /\ \A r \in job[c].src : r.applied <= split[r.split].applied

ListComplete == \A c \in Controllers : Covers(c)

USE DocumentsAssumption

----------------------------------------------------------------------------
(* Ordinals *)

\* Steps that leave the metastore, the jobs and the ordinals drawn alone.
Quiet ==
    \/ \E o \in Ops : \/ Begin(o) \/ Resolve(o) \/ ReadBounds(o) \/ Plan(o) \/ AppendWal(o)
                      \/ Enqueue(o) \/ Reclaim(o)
    \/ \E n \in Nodes : \/ ConfirmBatch(n) \/ Restart(n) \/ (\E o \in Ops : ReplayRecord(n, o))
                        \/ Crash(n) \/ ExpireInfo(n)
    \/ \E c \in Controllers : Handover(c)
    \/ UNCHANGED vars

\* Such a step opens no transaction either.
LEMMA QuietFrame ==
    ASSUME TypeOK, Quiet
    PROVE  /\ UNCHANGED <<id, drawn, split, row, ords, job>>
           /\ \A o \in Ops : pc'[o] = "commit" => pc[o] = "commit"
<1> USE DEF itemVars, nodeVars, metaVars, ctlVars, boundVars, vars
<1>1. UNCHANGED <<id, drawn, split, row, ords, job>>
  BY DEF Quiet, Begin, Resolve, ReadBounds, Plan, AppendWal, Enqueue, Reclaim, ConfirmBatch, Restart,
         ReplayRecord, Crash, ExpireInfo, Handover
<1>2. DOMAIN pc = Ops
  BY ZenonT(30) DEF TypeOK, ItemType
<1>3. CASE \E n \in Nodes : Crash(n)
  BY <1>1, <1>3 DEF Crash
<1>4. CASE \E o \in Ops, x \in {"resolve", "bounds", "plan", "failed", "upsert", "append", "enqueue", "rejected"} :
             pc' = [pc EXCEPT ![o] = x]
  BY <1>1, <1>2, <1>4, ZenonT(30)
<1>5. CASE pc' = pc
  BY <1>1, <1>5, ZenonT(30)
<1>6. ASSUME NEW o \in Ops, Begin(o) \/ Resolve(o) \/ ReadBounds(o) \/ AppendWal(o) \/ Enqueue(o)
      PROVE  \E x \in {"resolve", "bounds", "plan", "failed", "upsert", "append", "enqueue", "rejected"} :
               pc' = [pc EXCEPT ![o] = x]
  BY <1>6, ZenonT(30) DEF Begin, Resolve, ReadBounds, AppendWal, Enqueue, Goto
<1>7. ASSUME NEW o \in Ops, Plan(o)
      PROVE  \E x \in {"upsert", "append"} : pc' = [pc EXCEPT ![o] = x]
  BY <1>7, ZenonT(30) DEF Plan, Goto
<1>8. ASSUME NEW o \in Ops, Reclaim(o) PROVE pc' = pc
  BY <1>8, ZenonT(30) DEF Reclaim
<1>9. ASSUME NEW n \in Nodes,
             ConfirmBatch(n) \/ Restart(n) \/ (\E o \in Ops : ReplayRecord(n, o)) \/ ExpireInfo(n)
      PROVE  pc' = pc
  BY <1>9, ZenonT(30) DEF ConfirmBatch, Restart, ReplayRecord, ExpireInfo
<1>10. ASSUME NEW c \in Controllers, Handover(c) PROVE pc' = pc
  BY <1>10, ZenonT(30) DEF Handover
<1> QED
  BY <1>3, <1>4, <1>5, <1>6, <1>7, <1>8, <1>9, <1>10, ZenonT(30) DEF Quiet

\* Enough for a step that draws nothing: every ordinal after it was some
\* row's, split's or job's before it.
LEMMA OrdsKept ==
    ASSUME TypeOK, TypeOK', OrdsAhead, OpenIsNewest, ords' = ords, drawn' = drawn,
           \A o \in Ops : pc'[o] = "commit" => pc[o] = "commit",
           \A i \in Ids : row'[i].ord = 0 \/ \E x \in Ids : row'[i].ord = row[x].ord,
           \A s \in Splits : \/ split'[s].applied = 0
                             \/ \E x \in Splits : split'[s].applied = split[x].applied
                             \/ \E c \in Controllers : split'[s].applied = job[c].through,
           \A c \in Controllers : \/ job'[c].through = 0 \/ job'[c].through = job[c].through
                                  \/ \E x \in Ids : job'[c].through = row[x].ord
    PROVE  OrdsAhead' /\ OpenIsNewest'
<1>1. ords \in Nat /\ \A o \in Ops : drawn[o] \in Nat
  BY ZenonT(30) DEF TypeOK, ItemType, MetaType
<1>2. OrdsAhead'
  BY <1>1 DEF OrdsAhead
<1>3. OpenIsNewest'
  BY <1>1 DEF OpenIsNewest
<1> QED  BY <1>2, <1>3, ZenonT(30)

\* The advisory lock of upsert_tombstones keeps the newest ordinal with the
\* open transaction, whatever readers and jobs do meanwhile.
LEMMA OrdsStep ==
    ASSUME TypeOK, TypeOK', OrdsAhead, OpenIsNewest, [Next]_vars
    PROVE  OrdsAhead' /\ OpenIsNewest'
<1> USE DEF itemVars, nodeVars, metaVars, ctlVars, boundVars
<1>T. /\ ords \in Nat /\ DOMAIN pc = Ops /\ DOMAIN drawn = Ops /\ DOMAIN split = Splits
      /\ DOMAIN row = Ids /\ DOMAIN job = Controllers
      /\ \A o \in Ops : id[o] \in Ids /\ drawn[o] \in Nat
      /\ \A i \in Ids : row[i].ord \in Nat
      /\ \A s \in Splits : split[s].applied \in Nat
      /\ \A c \in Controllers : job[c].through \in Nat
  BY ZenonT(30) DEF TypeOK, ItemType, MetaType, SplitType, RowType, JobType
<1>1. CASE Quiet
  BY <1>1, QuietFrame, OrdsKept, ZenonT(30)
<1>2. ASSUME NEW o \in Ops, DrawTombstone(o) PROVE OrdsAhead' /\ OpenIsNewest'
  <2>1. /\ pc' = [pc EXCEPT ![o] = "commit"] /\ drawn' = [drawn EXCEPT ![o] = ords + 1]
        /\ ords' = ords + 1 /\ split' = split /\ row' = row /\ job' = job
        /\ \A p \in Ops : pc[p] # "commit"
    BY <1>2, ZenonT(30) DEF DrawTombstone, Goto, LockFree
  <2>2. OrdsAhead'
    BY <2>1, <1>T DEF OrdsAhead
  <2>3. OpenIsNewest'
    BY <2>1, <1>T DEF OrdsAhead, OpenIsNewest
  <2> QED  BY <2>2, <2>3, ZenonT(30)
<1>3. ASSUME NEW o \in Ops, CommitTombstone(o) \/ UpsertError(o) PROVE OrdsAhead' /\ OpenIsNewest'
  <2>1. /\ pc[o] = "commit" /\ \E x \in {"done", "failed", "upsert"} : pc' = [pc EXCEPT ![o] = x]
        /\ ords' = ords /\ split' = split /\ job' = job /\ drawn' = drawn
        /\ row' = row \/ row' = Raise(id[o], seq[o], drawn[o])
    BY <1>3, ZenonT(30) DEF CommitTombstone, UpsertError, RefuseDelete, RetryReplacement, Goto, At
  <2>2. \A p \in Ops : pc'[p] # "commit"
    BY <2>1, <1>T, ZenonT(30) DEF OpenIsNewest
  <2>3. \A i \in Ids : row'[i].ord = row[i].ord \/ row'[i].ord = drawn[o]
    BY <2>1, <1>T DEF Raise
  <2>4. OrdsAhead'
    BY <2>1, <2>3, <1>T, ZenonT(30) DEF OrdsAhead
  <2> QED  BY <2>2, <2>4, ZenonT(30) DEF OpenIsNewest
<1>4. ASSUME NEW n \in Nodes, StageBatch(n) PROVE OrdsAhead' /\ OpenIsNewest'
  <2>1. \A s \in Splits : split'[s].applied = 0 \/ split'[s].applied = split[s].applied
    BY <1>4, <1>T, SMTT(30) DEF StageBatch
  <2> QED  BY <1>4, <2>1, OrdsKept, ZenonT(30) DEF StageBatch
<1>5. ASSUME NEW n \in Nodes, PublishBatch(n) PROVE OrdsAhead' /\ OpenIsNewest'
  <2>1. \A s \in Splits : split'[s].applied = split[s].applied
    BY <1>5, <1>T, ZenonT(30) DEF PublishBatch, WithState
  <2> QED  BY <1>5, <2>1, OrdsKept, ZenonT(30) DEF PublishBatch
<1>6. ASSUME NEW n \in Nodes, ReissueTombstones(n) PROVE OrdsAhead' /\ OpenIsNewest'
  <2>1. /\ ords' = ords + 1 /\ split' = split /\ job' = job /\ drawn' = drawn /\ pc' = pc
        /\ \A p \in Ops : pc[p] # "commit"
    BY <1>6, ZenonT(30) DEF ReissueTombstones, LockFree
  <2>2. \A i \in Ids : row'[i].ord = row[i].ord \/ row'[i].ord = ords + 1
    BY <1>6, SMTT(30) DEF ReissueTombstones
  <2>3. OrdsAhead'
    BY <2>1, <2>2, <1>T DEF OrdsAhead
  <2> QED  BY <2>1, <2>3, ZenonT(30) DEF OpenIsNewest
<1>7. ASSUME NEW c \in Controllers, PickCompaction(c) \/ PickMerge(c) \/ JobError(c)
      PROVE  OrdsAhead' /\ OpenIsNewest'
  <2>1. \A x \in Controllers : job'[x].through = 0 \/ job'[x].through = job[x].through
    <3>1. \E j : j.through = 0 /\ job' = [job EXCEPT ![c] = j]
      <4>1. Idle.through = 0 /\ \A k, S : NewJob(k, S).through = 0
        BY ZenonT(30) DEF Idle, NewJob
      <4> QED  BY <1>7, <4>1, ZenonT(30) DEF PickCompaction, PickMerge, JobError, SetJob
    <3> QED  BY <3>1, <1>T, ZenonT(30)
  <2>2. UNCHANGED <<ords, drawn, pc, row, split>>
    BY <1>7, ZenonT(30) DEF PickCompaction, PickMerge, JobError
  <2> QED  BY <2>1, <2>2, OrdsKept, ZenonT(30)
<1>8. ASSUME NEW c \in Controllers, ListTombstones(c) PROVE OrdsAhead' /\ OpenIsNewest'
  <2>1. \A x \in Controllers : \/ job'[x].through = 0 \/ job'[x].through = job[x].through
                               \/ \E i \in Ids : job'[x].through = row[i].ord
    BY <1>8, <1>T, SMTT(30) DEF ListTombstones, SetJob
  <2>2. UNCHANGED <<ords, drawn, pc, row, split>>
    BY <1>8, ZenonT(30) DEF ListTombstones
  <2> QED  BY <2>1, <2>2, OrdsKept, ZenonT(30)
<1>9. ASSUME NEW c \in Controllers, MarkApplied(c) \/ Rebuild(c) \/ Swap(c) PROVE OrdsAhead' /\ OpenIsNewest'
  <2>1. \A x \in Controllers : job'[x].through = 0 \/ job'[x].through = job[x].through
    BY <1>9, <1>T DEF MarkApplied, Rebuild, Swap, SetJob, Idle
  <2>2. \A s \in Splits : split'[s].applied = split[s].applied \/ split'[s].applied = job[c].through
    <3>1. CASE MarkApplied(c)
      BY <3>1, <1>T, SMTT(30) DEF MarkApplied, Larger
    <3>2. CASE Rebuild(c)
      <4>1. CASE split' = Marked(Sources(c))
        BY <4>1, ZenonT(30) DEF Marked, WithState
      <4>2. CASE \E s \in Splits : split' = [split EXCEPT ![s] = [state |-> "staged", docs |-> Survivors(c),
                                                                  applied |-> job[c].through]]
        BY <4>2, <1>T, SMTT(30)
      <4> QED  BY <3>2, <4>1, <4>2, ZenonT(30) DEF Rebuild
    <3>3. CASE Swap(c)
      BY <3>3, ZenonT(30) DEF Swap, Swapped, WithState
    <3> QED  BY <1>9, <3>1, <3>2, <3>3, ZenonT(30)
  <2>3. UNCHANGED <<ords, drawn, pc, row>>
    BY <1>9, ZenonT(30) DEF MarkApplied, Rebuild, Swap
  <2> QED  BY <2>1, <2>2, <2>3, OrdsKept, ZenonT(30)
<1>10. ASSUME NEW c \in Controllers, NEW i \in Ids, PurgeTombstone(c, i) PROVE OrdsAhead' /\ OpenIsNewest'
  <2>1. \A x \in Ids : row'[x].ord = 0 \/ row'[x].ord = row[x].ord
    BY <1>10, <1>T, ZenonT(30) DEF PurgeTombstone, NoRow
  <2> QED  BY <1>10, <2>1, OrdsKept, ZenonT(30) DEF PurgeTombstone
<1> QED
  BY <1>1, <1>2, <1>3, <1>4, <1>5, <1>6, <1>7, <1>8, <1>9, <1>10, ZenonT(30)
     DEF Next, ItemStep, NodeStep, JobStep, Quiescent, Quiet

----------------------------------------------------------------------------
(* Jobs *)

\* Enough for a step to keep one controller's part of ListComplete: its job
\* is the same, rows change only to later ordinals or go, and splits do not
\* forget what they have applied.
LEMMA CoversKept ==
    ASSUME TypeOK, TypeOK', NEW c \in Controllers, Covers(c), job'[c] = job[c],
           \A i \in Ids : row'[i] = row[i] \/ row'[i].ord = 0 \/ row'[i].ord > job[c].through,
           \A s \in Splits : split[s].applied <= split'[s].applied
    PROVE  Covers(c)'
<1>1. /\ job[c].through \in Nat /\ \A i \in Ids : row'[i].ord \in Nat
      /\ \A s \in Splits : split[s].applied \in Nat /\ split'[s].applied \in Nat
      /\ \A r \in job[c].src : r.split \in Splits /\ r.applied \in Nat
  BY SMTT(90) DEF TypeOK, MetaType, SplitType, RowType, JobType
<1>2. ASSUME job[c].pc = "build", NEW i \in Ids, row'[i].ord > 0, row'[i].ord <= job[c].through
      PROVE  job[c].list[i] = row'[i]
  <2>1. row'[i] = row[i]
    BY <1>1, <1>2
  <2> QED  BY <1>2, <2>1, ZenonT(30) DEF Covers
<1>3. ASSUME NEW r \in job[c].src PROVE r.applied <= split'[r.split].applied
  BY <1>1, <1>3 DEF Covers
<1> QED  BY <1>2, <1>3, ZenonT(30) DEF Covers

\* A job that just began, or ended.
LEMMA CoversFresh ==
    ASSUME TypeOK, NEW c \in Controllers, split' = split,
           \/ job'[c] = Idle
           \/ \E k \in {"merge", "compact"}, S \in SUBSET Splits : job'[c] = NewJob(k, S)
    PROVE  Covers(c)'
<1>1. CASE job'[c] = Idle
  BY <1>1 DEF Covers, Idle
<1>2. ASSUME NEW k, NEW S \in SUBSET Splits, job'[c] = NewJob(k, S) PROVE Covers(c)'
  <2>1. \A r \in Records(S) : r.applied <= split[r.split].applied
    BY SMTT(30) DEF Records, TypeOK, MetaType, SplitType
  <2> QED  BY <1>2, <2>1 DEF Covers, NewJob
<1> QED  BY <1>1, <1>2, ZenonT(30)

\* Rows written while stream_tombstones' list is in use have later ordinals
\* than its last one, and GREATEST keeps tombstone_seq_applied growing.
LEMMA ListStep ==
    ASSUME TypeOK, TypeOK', OrdsAhead, OpenIsNewest, ListComplete, [Next]_vars
    PROVE  ListComplete'
<1> SUFFICES ASSUME NEW d \in Controllers PROVE Covers(d)'
  BY ZenonT(30) DEF ListComplete
<1> USE DEF itemVars, nodeVars, metaVars, ctlVars, boundVars
<1>C. Covers(d)
  BY ZenonT(30) DEF ListComplete
<1>T. /\ ords \in Nat /\ DOMAIN split = Splits /\ DOMAIN row = Ids /\ DOMAIN job = Controllers
      /\ \A o \in Ops : id[o] \in Ids
      /\ \A i \in Ids : row[i].ord \in Nat
      /\ \A s \in Splits : split[s].applied \in Nat
      /\ \A c \in Controllers : job[c].through \in Nat
  BY ZenonT(30) DEF TypeOK, ItemType, MetaType, SplitType, RowType, JobType
<1>S. \A s \in Splits : split[s].applied <= split[s].applied
  BY <1>T
<1>1. CASE Quiet \/ \E o \in Ops : DrawTombstone(o)
  <2>1. UNCHANGED <<row, split, job>>
    BY <1>1, QuietFrame, ZenonT(30) DEF DrawTombstone
  <2> QED  BY <2>1, <1>C, <1>S, CoversKept, ZenonT(30)
<1>2. ASSUME NEW o \in Ops, CommitTombstone(o) \/ UpsertError(o) PROVE Covers(d)'
  <2>1. /\ pc[o] = "commit" /\ split' = split /\ job' = job
        /\ row' = row \/ row' = Raise(id[o], seq[o], drawn[o])
    BY <1>2, ZenonT(30) DEF CommitTombstone, UpsertError, RefuseDelete, RetryReplacement, At
  <2>2. job[d].through < drawn[o]
    BY <2>1, ZenonT(30) DEF OpenIsNewest
  <2>3. drawn[o] \in Nat
    BY ZenonT(30) DEF TypeOK, ItemType
  <2>4. \A i \in Ids : row'[i] = row[i] \/ row'[i].ord = drawn[o]
    BY <2>1, <1>T DEF Raise
  <2>5. \A i \in Ids : row'[i] = row[i] \/ row'[i].ord > job[d].through
    BY <2>2, <2>3, <2>4, <1>T, ZenonT(30)
  <2> QED  BY <2>1, <2>5, <1>C, <1>S, CoversKept, ZenonT(30)
<1>3. ASSUME NEW n \in Nodes, StageBatch(n) \/ PublishBatch(n) PROVE Covers(d)'
  <2>1. \A s \in Splits : split'[s].applied = split[s].applied
    <3>1. CASE StageBatch(n)
      BY <3>1, <1>T, SMTT(30) DEF StageBatch, NewSplit, NoSplit
    <3>2. CASE PublishBatch(n)
      BY <3>2, <1>T, ZenonT(30) DEF PublishBatch, WithState
    <3> QED  BY <1>3, <3>1, <3>2, ZenonT(30)
  <2>2. row' = row /\ job' = job
    BY <1>3, ZenonT(30) DEF StageBatch, PublishBatch
  <2> QED  BY <2>1, <2>2, <1>C, <1>S, CoversKept, ZenonT(30)
<1>4. ASSUME NEW n \in Nodes, ReissueTombstones(n) PROVE Covers(d)'
  <2>1. split' = split /\ job' = job
    BY <1>4, ZenonT(30) DEF ReissueTombstones
  <2>2. \A i \in Ids : row'[i] = row[i] \/ row'[i].ord = ords + 1
    BY <1>4, SMTT(30) DEF ReissueTombstones
  <2>3. \A i \in Ids : row'[i] = row[i] \/ row'[i].ord > job[d].through
    BY <2>2, <1>T DEF OrdsAhead
  <2> QED  BY <2>1, <2>3, <1>C, <1>S, CoversKept, ZenonT(30)
<1>5. ASSUME NEW c \in Controllers, PickCompaction(c) \/ PickMerge(c) \/ JobError(c) PROVE Covers(d)'
  <2>1. row' = row /\ split' = split
    BY <1>5, ZenonT(30) DEF PickCompaction, PickMerge, JobError
  <2>2. /\ d # c => job'[d] = job[d]
        /\ job'[c] = Idle \/ \E k \in {"merge", "compact"}, S \in SUBSET Splits : job'[c] = NewJob(k, S)
    BY <1>5, <1>T, ZenonT(30) DEF PickCompaction, PickMerge, JobError, SetJob
  <2>3. CASE d = c
    BY <2>1, <2>2, <2>3, CoversFresh, ZenonT(30)
  <2>4. CASE d # c
    BY <2>1, <2>2, <2>4, <1>C, <1>S, CoversKept, ZenonT(30)
  <2> QED  BY <2>3, <2>4, ZenonT(30)
<1>6. ASSUME NEW c \in Controllers, ListTombstones(c) PROVE Covers(d)'
  <2>1. row' = row /\ split' = split
    BY <1>6, ZenonT(30) DEF ListTombstones
  <2>2. /\ d # c => job'[d] = job[d]
        /\ job'[c].list = row /\ job'[c].src = job[c].src
    BY <1>6, <1>T, SMTT(30) DEF ListTombstones, SetJob
  <2>3. CASE d = c
    BY <2>1, <2>2, <2>3, <1>C, ZenonT(30) DEF Covers
  <2>4. CASE d # c
    BY <2>1, <2>2, <2>4, <1>C, <1>S, CoversKept, ZenonT(30)
  <2> QED  BY <2>3, <2>4, ZenonT(30)
<1>7. ASSUME NEW c \in Controllers, MarkApplied(c) \/ Rebuild(c) \/ Swap(c) PROVE Covers(d)'
  <2>1. \A s \in Splits : split[s].applied <= split'[s].applied
    <3>1. CASE MarkApplied(c)
      BY <3>1, <1>T, SMTT(30) DEF MarkApplied, Larger
    <3>2. CASE Rebuild(c)
      <4>1. CASE split' = Marked(Sources(c))
        BY <4>1, <1>T, SMTT(60) DEF Marked, WithState
      <4>2. CASE \E s \in Splits : /\ NewSplit(s)
                                   /\ split' = [split EXCEPT ![s] = [state |-> "staged", docs |-> Survivors(c),
                                                                     applied |-> job[c].through]]
        <5>1. PICK s \in Splits :
                 /\ NewSplit(s)
                 /\ split' = [split EXCEPT ![s] = [state |-> "staged", docs |-> Survivors(c),
                                                   applied |-> job[c].through]]
          BY <4>2, ZenonT(30)
        <5>2. split[s].applied = 0
          BY <5>1 DEF NewSplit, NoSplit
        <5>3. \A x \in Splits : x # s => split'[x] = split[x]
          BY <5>1, <1>T, ZenonT(30)
        <5>4. split'[s].applied = job[c].through /\ job[c].through \in Nat
          BY <5>1, <1>T, ZenonT(30)
        <5>5. split[s].applied <= split'[s].applied
          BY <5>2, <5>4
        <5>6. \A x \in Splits : split[x].applied <= split[x].applied
          BY <1>T
        <5> QED  BY <5>3, <5>5, <5>6, ZenonT(30)
      <4> QED  BY <3>2, <4>1, <4>2, ZenonT(30) DEF Rebuild
    <3>3. CASE Swap(c)
      BY <3>3, <1>T, SMTT(90) DEF Swap, Swapped, WithState
    <3> QED  BY <1>7, <3>1, <3>2, <3>3, ZenonT(30)
  <2>2. row' = row
    BY <1>7, ZenonT(30) DEF MarkApplied, Rebuild, Swap
  <2>3. /\ d # c => job'[d] = job[d]
        /\ job'[c].pc # "build" /\ (job'[c].src = {} \/ job'[c].src = job[c].src)
    BY <1>7, <1>T, SMTT(90) DEF MarkApplied, Rebuild, Swap, SetJob, Idle
  <2>4. CASE d = c
    <3>1. \A r \in job[c].src : r.split \in Splits /\ r.applied \in Nat
      BY DEF TypeOK, JobType
    <3>2. \A s \in Splits : split'[s].applied \in Nat
      BY ZenonT(30) DEF TypeOK, MetaType, SplitType
    <3>3. \A r \in job[c].src : r.applied <= split'[r.split].applied
      BY <2>1, <2>4, <3>1, <3>2, <1>C, <1>T, SMTT(30) DEF Covers
    <3> QED  BY <2>3, <2>4, <3>3, ZenonT(30) DEF Covers
  <2>5. CASE d # c
    BY <2>1, <2>2, <2>3, <2>5, <1>C, CoversKept, ZenonT(30)
  <2> QED  BY <2>4, <2>5, ZenonT(30)
<1>8. ASSUME NEW c \in Controllers, NEW i \in Ids, PurgeTombstone(c, i) PROVE Covers(d)'
  <2>1. split' = split /\ job' = job
    BY <1>8, ZenonT(30) DEF PurgeTombstone
  <2>2. \A x \in Ids : row'[x] = row[x] \/ row'[x].ord = 0
    BY <1>8, <1>T, ZenonT(30) DEF PurgeTombstone, NoRow
  <2> QED  BY <2>1, <2>2, <1>C, <1>S, CoversKept, ZenonT(30)
<1> QED
  BY <1>1, <1>2, <1>3, <1>4, <1>5, <1>6, <1>7, <1>8, ZenonT(30)
     DEF Next, ItemStep, NodeStep, JobStep, Quiescent, Quiet

----------------------------------------------------------------------------
(* The inductive invariant *)

\* The item is in a log, a queue or a split.
Placed(o) ==
    \/ wal[o] # "none"
    \/ \E n \in Nodes : o \in Elems(queue[n]) \cup replaying[n] \cup reissue[n]
    \/ \E s \in Splits : o \in split[s].docs

Early == {"none", "resolve", "bounds", "plan"}

\* Items that have no sequence yet are nowhere.
Unstamped == \A o \in Ops : pc[o] \in Early => ~ Placed(o)

IInv == TypeOK /\ Unstamped /\ OrdsAhead /\ OpenIsNewest /\ ListComplete /\ AppliedHides

USE DocumentsAssumption

----------------------------------------------------------------------------
(* Items without a sequence *)

\* Enough for a step to keep Unstamped: it takes no item back, and places
\* only items that are past the planning.
LEMMA UnstampedKept ==
    ASSUME Unstamped,
           \A o \in Ops : pc'[o] \in Early => pc[o] \in Early,
           \A o \in Ops : Placed(o)' => Placed(o) \/ pc'[o] \notin Early
    PROVE  Unstamped'
BY ZenonT(30) DEF Unstamped

\* Items enter the log after next_seq has stamped them; queues, replays and
\* splits get theirs from the log and from each other.
LEMMA UnstampedStep == TypeOK /\ Unstamped /\ [Next]_vars => Unstamped'
<1> SUFFICES ASSUME TypeOK, Unstamped, [Next]_vars PROVE Unstamped'
  OBVIOUS
<1> USE DEF itemVars, nodeVars, metaVars, ctlVars, boundVars
<1>T. /\ \A o \in Ops : node[o] \in Nodes
      /\ \A n \in Nodes : queue[n] \in Seq(Ops) /\ replaying[n] \subseteq Ops /\ reissue[n] \subseteq Ops
      /\ DOMAIN pc = Ops /\ DOMAIN wal = Ops /\ DOMAIN queue = Nodes /\ DOMAIN replaying = Nodes
      /\ DOMAIN reissue = Nodes /\ DOMAIN split = Splits
  BY ZenonT(30) DEF TypeOK, ItemType, NodeType, MetaType
<1>1. ASSUME NEW o \in Ops, Begin(o) PROVE Unstamped'
  <2>1. \A p \in Ops : pc'[p] \in Early => pc[p] \in Early
    BY <1>1, <1>T, ZenonT(30) DEF Begin, At, Goto, Early
  <2>2. \A p \in Ops : Placed(p)' => Placed(p)
    BY <1>1, ZenonT(30) DEF Begin, Placed
  <2> QED  BY <2>1, <2>2, UnstampedKept, ZenonT(30)
<1>2. ASSUME NEW o \in Ops, Resolve(o) PROVE Unstamped'
  <2>1. \A p \in Ops : pc'[p] \in Early => pc[p] \in Early
    BY <1>2, <1>T, ZenonT(30) DEF Resolve, At, Goto, Early
  <2>2. \A p \in Ops : Placed(p)' => Placed(p)
    BY <1>2, ZenonT(30) DEF Resolve, Placed
  <2> QED  BY <2>1, <2>2, UnstampedKept, ZenonT(30)
<1>3. ASSUME NEW o \in Ops, ReadBounds(o) PROVE Unstamped'
  <2>1. \A p \in Ops : pc'[p] \in Early => pc[p] \in Early
    BY <1>3, <1>T, ZenonT(30) DEF ReadBounds, At, Goto, Early
  <2>2. \A p \in Ops : Placed(p)' => Placed(p)
    BY <1>3, ZenonT(30) DEF ReadBounds, Placed
  <2> QED  BY <2>1, <2>2, UnstampedKept, ZenonT(30)
<1>4. ASSUME NEW o \in Ops, Plan(o) PROVE Unstamped'
  <2>1. \A p \in Ops : pc'[p] \in Early => pc[p] \in Early
    BY <1>4, <1>T, ZenonT(30) DEF Plan, At, Goto, Early
  <2>2. \A p \in Ops : Placed(p)' => Placed(p)
    BY <1>4, ZenonT(30) DEF Plan, Placed
  <2> QED  BY <2>1, <2>2, UnstampedKept, ZenonT(30)
<1>5. ASSUME NEW o \in Ops, DrawTombstone(o) PROVE Unstamped'
  <2>1. \A p \in Ops : pc'[p] \in Early => pc[p] \in Early
    BY <1>5, <1>T, ZenonT(30) DEF DrawTombstone, At, Goto, Early
  <2>2. \A p \in Ops : Placed(p)' => Placed(p)
    BY <1>5, ZenonT(30) DEF DrawTombstone, Placed
  <2> QED  BY <2>1, <2>2, UnstampedKept, ZenonT(30)
<1>6. ASSUME NEW o \in Ops, CommitTombstone(o) PROVE Unstamped'
  <2>1. \A p \in Ops : pc'[p] \in Early => pc[p] \in Early
    BY <1>6, <1>T, ZenonT(30) DEF CommitTombstone, At, Goto, Early
  <2>2. \A p \in Ops : Placed(p)' => Placed(p)
    BY <1>6, ZenonT(30) DEF CommitTombstone, Placed
  <2> QED  BY <2>1, <2>2, UnstampedKept, ZenonT(30)
<1>7. ASSUME NEW o \in Ops, UpsertError(o) PROVE Unstamped'
  <2>1. \A p \in Ops : pc'[p] \in Early => pc[p] \in Early
    BY <1>7, <1>T, ZenonT(30) DEF UpsertError, RefuseDelete, RetryReplacement, At, Goto, Early
  <2>2. \A p \in Ops : Placed(p)' => Placed(p)
    BY <1>7, ZenonT(30) DEF UpsertError, RefuseDelete, RetryReplacement, Placed
  <2> QED  BY <2>1, <2>2, UnstampedKept, ZenonT(30)
<1>8. ASSUME NEW o \in Ops, AppendWal(o) PROVE Unstamped'
  <2>1. /\ pc' \in {[pc EXCEPT ![o] = "enqueue"], [pc EXCEPT ![o] = "failed"]}
        /\ wal' \in {wal, [wal EXCEPT ![o] = "pending"]}
    BY <1>8, ZenonT(30) DEF AppendWal, Goto
  <2>2. \A p \in Ops : pc'[p] \in Early => pc[p] \in Early
    BY <2>1, <1>T, ZenonT(30) DEF Early
  <2>3. \A p \in Ops : Placed(p)' => Placed(p) \/ pc'[p] \notin Early
    BY <1>8, <2>1, <1>T, ZenonT(30) DEF AppendWal, Placed, Early
  <2> QED  BY <2>2, <2>3, UnstampedKept, ZenonT(30)
<1>9. ASSUME NEW o \in Ops, Enqueue(o) PROVE Unstamped'
  <2>1. pc' = [pc EXCEPT ![o] = "upsert"] \/ pc' = [pc EXCEPT ![o] = "rejected"]
    BY <1>9, ZenonT(30) DEF Enqueue, Goto
  <2>2. \A p \in Ops : (pc'[p] \in Early => pc[p] \in Early) /\ pc'[o] \notin Early
    BY <2>1, <1>T, ZenonT(30) DEF Early
  <2>3. \A p \in Ops, n \in Nodes : p \in Elems(queue'[n]) => p \in Elems(queue[n]) \/ p = o
    <3>1. Elems(Append(queue[node[o]], o)) = Elems(queue[node[o]]) \cup {o}
      BY <1>T, QueueElems, ZenonT(30)
    <3>2. queue' = queue \/ queue' = [queue EXCEPT ![node[o]] = Append(queue[node[o]], o)]
      BY <1>9, ZenonT(30) DEF Enqueue
    <3>3. \A x \in Nodes : queue'[x] = queue[x] \/ (x = node[o] /\ queue'[x] = Append(queue[node[o]], o))
      BY <3>2, <1>T, ZenonT(30)
    <3> QED  BY <3>1, <3>3, ZenonT(30)
  <2>4. \A p \in Ops : wal'[p] # "none" => wal[p] # "none" \/ p = o
    BY <1>9, <1>T, ZenonT(30) DEF Enqueue
  <2>5. \A p \in Ops : Placed(p)' => Placed(p) \/ pc'[p] \notin Early
    BY <1>9, <2>2, <2>3, <2>4, ZenonT(30) DEF Enqueue, Placed
  <2> QED  BY <2>2, <2>5, UnstampedKept, ZenonT(30)
<1>10. ASSUME NEW o \in Ops, Reclaim(o) PROVE Unstamped'
  <2>1. \A p \in Ops : Placed(p)' => Placed(p)
    BY <1>10, <1>T, ZenonT(30) DEF Reclaim, Placed
  <2> QED  BY <1>10, <2>1, UnstampedKept, ZenonT(30) DEF Reclaim
<1>11. ASSUME NEW n \in Nodes, StageBatch(n) PROVE Unstamped'
  <2>1. PICK k \in 1 .. Len(queue[n]), s \in Splits :
            /\ split' = [split EXCEPT ![s] = [state |-> "staged", applied |-> 0,
                                              docs |-> Elems(SubSeq(queue[n], 1, k))]]
            /\ queue' = [queue EXCEPT ![n] = SubSeq(@, k + 1, Len(@))]
    BY <1>11, ZenonT(30) DEF StageBatch
  <2>2. /\ Elems(SubSeq(queue[n], 1, k)) \subseteq Elems(queue[n])
        /\ Elems(SubSeq(queue[n], k + 1, Len(queue[n]))) \subseteq Elems(queue[n])
    BY <1>T, QueueElems, ZenonT(30)
  <2>3. \A x \in Nodes : Elems(queue'[x]) \subseteq Elems(queue[x])
    BY <2>1, <2>2, <1>T, ZenonT(30)
  <2>4. \A x \in Splits : split'[x].docs \subseteq split[x].docs \cup Elems(queue[n])
    BY <2>1, <2>2, <1>T, ZenonT(30)
  <2>5. \A p \in Ops : Placed(p)' => Placed(p)
    BY <1>11, <2>3, <2>4, ZenonT(30) DEF StageBatch, Placed
  <2> QED  BY <1>11, <2>5, UnstampedKept, ZenonT(30) DEF StageBatch
<1>12. ASSUME NEW n \in Nodes, PublishBatch(n) PROVE Unstamped'
  <2>1. \A x \in Splits : split'[x].docs = split[x].docs
    BY <1>12, <1>T, ZenonT(30) DEF PublishBatch, WithState
  <2>2. \A p \in Ops : Placed(p)' => Placed(p)
    BY <1>12, <2>1, ZenonT(30) DEF PublishBatch, Placed
  <2> QED  BY <1>12, <2>2, UnstampedKept, ZenonT(30) DEF PublishBatch
<1>13. ASSUME NEW n \in Nodes, ConfirmBatch(n) PROVE Unstamped'
  <2>1. flush[n].split \in Splits
    BY <1>13, ZenonT(30) DEF ConfirmBatch, TypeOK, NodeType, FlushType
  <2>2. \A p \in Ops : wal'[p] # "none" => Placed(p)
    BY <1>13, <2>1, ZenonT(30) DEF ConfirmBatch, Placed
  <2>3. \A p \in Ops : Placed(p)' => Placed(p)
    BY <1>13, <2>2, ZenonT(30) DEF ConfirmBatch, Placed
  <2> QED  BY <1>13, <2>3, UnstampedKept, ZenonT(30) DEF ConfirmBatch
<1>14. ASSUME NEW n \in Nodes, Restart(n) PROVE Unstamped'
  <2>1. \A p \in Ops : wal'[p] # "none" => wal[p] # "none"
    BY <1>14, ZenonT(30) DEF Restart
  <2>2. \A x \in Nodes : \A p \in replaying'[x] : p \in replaying[x] \/ wal[p] # "none"
    BY <1>14, <1>T, ZenonT(30) DEF Restart
  <2>3. \A p \in Ops : Placed(p)' => Placed(p)
    BY <1>14, <2>1, <2>2, ZenonT(30) DEF Restart, Placed
  <2> QED  BY <1>14, <2>3, UnstampedKept, ZenonT(30) DEF Restart
<1>15. ASSUME NEW n \in Nodes, NEW o \in Ops, ReplayRecord(n, o) PROVE Unstamped'
  <2>1. Placed(o)
    BY <1>15, ZenonT(30) DEF ReplayRecord, Placed
  <2>2. \A p \in Ops, x \in Nodes : p \in Elems(queue'[x]) => p \in Elems(queue[x]) \/ p = o
    BY <1>15, <1>T, QueueElems, SMTT(30) DEF ReplayRecord
  <2>3. \A x \in Nodes : replaying'[x] \subseteq replaying[x] /\ reissue'[x] \subseteq reissue[x] \cup {o}
    BY <1>15, <1>T, ZenonT(30) DEF ReplayRecord, CollectReissue
  <2>4. wal' = wal /\ split' = split /\ pc' = pc
    BY <1>15, ZenonT(30) DEF ReplayRecord
  <2>5. \A p \in Ops : Placed(p)' => Placed(p)
    BY <2>1, <2>2, <2>3, <2>4 DEF Placed
  <2> QED  BY <2>4, <2>5, UnstampedKept, ZenonT(30)
<1>16. ASSUME NEW n \in Nodes, ReissueTombstones(n) PROVE Unstamped'
  <2>1. \A x \in Nodes : reissue'[x] \subseteq reissue[x]
    BY <1>16, <1>T, ZenonT(30) DEF ReissueTombstones
  <2>2. wal' = wal /\ split' = split /\ pc' = pc /\ queue' = queue /\ replaying' = replaying
    BY <1>16, ZenonT(30) DEF ReissueTombstones
  <2>3. \A p \in Ops : Placed(p)' => Placed(p)
    BY <2>1, <2>2, ZenonT(30) DEF Placed
  <2> QED  BY <2>2, <2>3, UnstampedKept, ZenonT(30)
<1>17. ASSUME NEW n \in Nodes, Crash(n) PROVE Unstamped'
  <2>1. \A p \in Ops : pc'[p] \in Early => pc[p] \in Early
    BY <1>17, ZenonT(30) DEF Crash, Early
  <2>2. \A x \in Nodes : /\ Elems(queue'[x]) \subseteq Elems(queue[x])
                         /\ replaying'[x] \subseteq replaying[x] /\ reissue'[x] \subseteq reissue[x]
    <3>1. Elems(<<>>) = {}
      BY DEF Elems
    <3> QED  BY <1>17, <1>T, <3>1, ZenonT(30) DEF Crash
  <2>3. \A p \in Ops : Placed(p)' => Placed(p)
    BY <1>17, <2>2, ZenonT(30) DEF Crash, Placed
  <2> QED  BY <2>1, <2>3, UnstampedKept, ZenonT(30)
<1>18. ASSUME NEW n \in Nodes, ExpireInfo(n) PROVE Unstamped'
  <2>1. \A p \in Ops : Placed(p)' => Placed(p)
    BY <1>18, ZenonT(30) DEF ExpireInfo, Placed
  <2> QED  BY <1>18, <2>1, UnstampedKept, ZenonT(30) DEF ExpireInfo
<1>19. ASSUME NEW c \in Controllers,
             \/ PickCompaction(c) \/ PickMerge(c) \/ ListTombstones(c) \/ JobError(c) \/ Handover(c)
             \/ \E i \in Ids : PurgeTombstone(c, i)
      PROVE  Unstamped'
  <2>1. UNCHANGED <<pc, wal, queue, replaying, reissue, split>>
    BY <1>19, ZenonT(30) DEF PickCompaction, PickMerge, ListTombstones, JobError, Handover, PurgeTombstone
  <2>2. \A p \in Ops : Placed(p)' => Placed(p)
    BY <2>1, ZenonT(30) DEF Placed
  <2> QED  BY <2>1, <2>2, UnstampedKept, ZenonT(30)
<1>20. ASSUME NEW c \in Controllers, MarkApplied(c) PROVE Unstamped'
  <2>1. \A x \in Splits : split'[x].docs = split[x].docs
    BY <1>20, <1>T DEF MarkApplied
  <2>2. UNCHANGED <<pc, wal, queue, replaying, reissue>>
    BY <1>20, ZenonT(30) DEF MarkApplied
  <2>3. \A p \in Ops : Placed(p)' => Placed(p)
    BY <2>1, <2>2, ZenonT(30) DEF Placed
  <2> QED  BY <2>2, <2>3, UnstampedKept, ZenonT(30)
<1>21. ASSUME NEW c \in Controllers, Swap(c) PROVE Unstamped'
  <2>1. \A x \in Splits : split'[x].docs = split[x].docs
    BY <1>21, <1>T, ZenonT(30) DEF Swap, Swapped, WithState
  <2>2. UNCHANGED <<pc, wal, queue, replaying, reissue>>
    BY <1>21, ZenonT(30) DEF Swap
  <2>3. \A p \in Ops : Placed(p)' => Placed(p)
    BY <2>1, <2>2, ZenonT(30) DEF Placed
  <2> QED  BY <2>2, <2>3, UnstampedKept, ZenonT(30)
<1>22. ASSUME NEW c \in Controllers, Rebuild(c) PROVE Unstamped'
  <2>1. \A p \in Survivors(c) : \E s \in Splits : p \in split[s].docs
    BY SMTT(30) DEF Survivors, TypeOK, JobType
  <2>2. \A x \in Splits : split'[x].docs \subseteq split[x].docs \cup Survivors(c)
    <3>1. CASE split' = Marked(Sources(c))
      BY <3>1, ZenonT(30) DEF Marked, WithState
    <3>2. CASE \E s \in Splits : split' = [split EXCEPT ![s] = [state |-> "staged", docs |-> Survivors(c),
                                                                applied |-> job[c].through]]
      BY <3>2, <1>T
    <3> QED  BY <1>22, <3>1, <3>2, ZenonT(30) DEF Rebuild
  <2>3. UNCHANGED <<pc, wal, queue, replaying, reissue>>
    BY <1>22, ZenonT(30) DEF Rebuild
  <2>4. \A p \in Ops : Placed(p)' => Placed(p)
    BY <2>1, <2>2, <2>3, ZenonT(30) DEF Placed
  <2> QED  BY <2>3, <2>4, UnstampedKept, ZenonT(30)
<1>23. CASE UNCHANGED vars
  BY <1>23, ZenonT(30) DEF vars, Unstamped, Placed
<1> QED  BY <1>1, <1>2, <1>3, <1>4, <1>5, <1>6, <1>7, <1>8, <1>9, <1>10, <1>11, <1>12, <1>13, <1>14,
         <1>15, <1>16, <1>17, <1>18, <1>19, <1>20, <1>21, <1>22, <1>23, ZenonT(30) DEF Next, ItemStep, NodeStep,
         JobStep, Quiescent

----------------------------------------------------------------------------
(* Applied tombstones *)

\* One split: nothing in it is hidden by a tombstone it has applied.
Clean(s) ==
    \A o \in split[s].docs :
        row[id[o]].ord > 0 /\ row[id[o]].ord <= split[s].applied => seq[o] >= row[id[o]].bound

\* Enough for a step to keep a split clean: its documents and their sequences
\* stay, and a row that changes gets an ordinal the split has not applied.
LEMMA CleanKept ==
    ASSUME TypeOK, TypeOK', NEW s \in Splits, Clean(s), id' = id,
           split'[s].docs = split[s].docs, split'[s].applied = split[s].applied,
           \A o \in split[s].docs : seq'[o] = seq[o],
           \A i \in Ids : row'[i] = row[i] \/ row'[i].ord = 0 \/ row'[i].ord > split[s].applied
    PROVE  Clean(s)'
<1>1. /\ split[s].applied \in Nat /\ split[s].docs \subseteq Ops
      /\ \A o \in Ops : id[o] \in Ids
      /\ \A i \in Ids : row'[i].ord \in Nat
  BY ZenonT(30) DEF TypeOK, ItemType, MetaType, SplitType, RowType
<1> SUFFICES ASSUME NEW o \in split[s].docs, row'[id[o]].ord > 0, row'[id[o]].ord <= split[s].applied
             PROVE  seq[o] >= row'[id[o]].bound
  BY ZenonT(30) DEF Clean
<1>2. row'[id[o]] = row[id[o]]
  BY <1>1
<1> QED  BY <1>2, ZenonT(30) DEF Clean

\* What survives a rewrite is not hidden by any row up to the last ordinal of
\* its tombstone list: the source had applied the row, or the list has it.
LEMMA SurvivorsClean ==
    ASSUME TypeOK, ListComplete, AppliedHides, NEW c \in Controllers, job[c].pc = "build",
           NEW o \in Survivors(c), row[id[o]].ord > 0, row[id[o]].ord <= job[c].through
    PROVE  seq[o] >= row[id[o]].bound
<1>1. PICK r \in job[c].src : o \in split[r.split].docs /\ ~ Hides(job[c].list[id[o]], r.applied, o)
  BY ZenonT(30) DEF Survivors
<1>2. r.split \in Splits /\ r.applied \in Nat
  BY ZenonT(30) DEF TypeOK, JobType
<1>3. o \in Ops
  BY <1>1, <1>2, ZenonT(30) DEF TypeOK, MetaType, SplitType
<1>4. /\ id[o] \in Ids /\ seq[o] \in Nat /\ row[id[o]].ord \in Nat /\ row[id[o]].bound \in Nat
      /\ split[r.split].applied \in Nat
  BY <1>2, <1>3, StampsNat, ZenonT(30) DEF TypeOK, ItemType, MetaType, SplitType, RowType
<1>5. job[c].list[id[o]] = row[id[o]] /\ r.applied <= split[r.split].applied
  BY <1>4, ZenonT(30) DEF ListComplete, Covers
<1>6. CASE row[id[o]].ord <= r.applied
  <2>1. row[id[o]].ord <= split[r.split].applied
    BY <1>2, <1>4, <1>5, <1>6
  <2> QED  BY <1>1, <1>2, <2>1, ZenonT(30) DEF AppliedHides
<1>7. CASE row[id[o]].ord > r.applied
  BY <1>1, <1>4, <1>5, <1>7 DEF Hides
<1> QED  BY <1>2, <1>4, <1>6, <1>7

\* Queries skip a tombstone in a split that has applied it; no step of a
\* write, a flush, a replay, a job or a purge makes that skip a hidden version.
LEMMA AppliedStep ==
    ASSUME IInv, TypeOK', [Next]_vars
    PROVE  AppliedHides'
<1> SUFFICES ASSUME NEW s \in Splits PROVE Clean(s)'
  BY ZenonT(30) DEF AppliedHides, Clean
<1> USE DEF itemVars, nodeVars, metaVars, ctlVars, boundVars
<1>I. TypeOK /\ Unstamped /\ OrdsAhead /\ OpenIsNewest /\ ListComplete /\ AppliedHides
  BY ZenonT(30) DEF IInv
<1>C. Clean(s)
  BY <1>I, ZenonT(30) DEF AppliedHides, Clean
<1>T. /\ ords \in Nat /\ DOMAIN split = Splits /\ DOMAIN row = Ids /\ DOMAIN seq = Ops
      /\ split[s].applied \in Nat /\ split[s].docs \subseteq Ops
      /\ \A o \in Ops : id[o] \in Ids /\ drawn[o] \in Nat
      /\ \A i \in Ids : row[i].ord \in Nat
      /\ \A c \in Controllers : job[c].through \in Nat
  BY <1>I, ZenonT(30) DEF TypeOK, ItemType, MetaType, SplitType, RowType, JobType
<1>1. ASSUME NEW o \in Ops, Plan(o) PROVE Clean(s)'
  <2>1. o \notin split[s].docs
    BY <1>1, <1>I, ZenonT(30) DEF Plan, At, Unstamped, Early, Placed
  <2>2. \A p \in split[s].docs : seq'[p] = seq[p]
    BY <1>1, <2>1, <1>T, ZenonT(30) DEF Plan
  <2>3. id' = id /\ split' = split /\ row' = row
    BY <1>1, ZenonT(30) DEF Plan
  <2> QED  BY <2>2, <2>3, <1>C, <1>I, CleanKept, ZenonT(30)
<1>2. CASE UNCHANGED <<id, seq, split, row>>
  BY <1>2, <1>C, <1>I, CleanKept, ZenonT(30)
<1>3. ASSUME NEW o \in Ops, CommitTombstone(o) \/ UpsertError(o) PROVE Clean(s)'
  <2>1. /\ pc[o] = "commit" /\ split' = split /\ seq' = seq /\ id' = id
        /\ row' = row \/ row' = Raise(id[o], seq[o], drawn[o])
    BY <1>3, ZenonT(30) DEF CommitTombstone, UpsertError, RefuseDelete, RetryReplacement, At
  <2>2. split[s].applied < drawn[o]
    BY <2>1, <1>I, ZenonT(30) DEF OpenIsNewest
  <2>3. \A i \in Ids : row'[i] = row[i] \/ row'[i].ord = drawn[o]
    BY <2>1, <1>T DEF Raise
  <2>4. \A i \in Ids : row'[i] = row[i] \/ row'[i].ord > split[s].applied
    BY <2>2, <2>3, <1>T, ZenonT(30)
  <2> QED  BY <2>1, <2>4, <1>C, <1>I, CleanKept, ZenonT(30)
<1>4. ASSUME NEW n \in Nodes, StageBatch(n) PROVE Clean(s)'
  <2>1. id' = id /\ seq' = seq /\ row' = row
    BY <1>4, ZenonT(30) DEF StageBatch
  <2>2. split'[s] = split[s] \/ split'[s].applied = 0
    BY <1>4, <1>T DEF StageBatch
  <2>3. CASE split'[s] = split[s]
    BY <2>1, <2>3, <1>C, <1>I, CleanKept, ZenonT(30)
  <2>4. CASE split'[s].applied = 0
    <3>1. \A o \in split'[s].docs : o \in Ops
      BY ZenonT(30) DEF TypeOK, MetaType, SplitType
    <3> QED  BY <2>1, <2>4, <3>1, <1>T DEF Clean
  <2> QED  BY <2>2, <2>3, <2>4, ZenonT(30)
<1>5. ASSUME NEW n \in Nodes, PublishBatch(n) PROVE Clean(s)'
  <2>1. split'[s].docs = split[s].docs /\ split'[s].applied = split[s].applied
    BY <1>5, <1>T, ZenonT(30) DEF PublishBatch, WithState
  <2> QED  BY <1>5, <2>1, <1>C, <1>I, CleanKept, ZenonT(30) DEF PublishBatch
<1>6. ASSUME NEW n \in Nodes, ReissueTombstones(n) PROVE Clean(s)'
  <2>1. split' = split /\ seq' = seq /\ id' = id
    BY <1>6, ZenonT(30) DEF ReissueTombstones
  <2>2. \A i \in Ids : row'[i] = row[i] \/ row'[i].ord = ords + 1
    BY <1>6 DEF ReissueTombstones
  <2>3. \A i \in Ids : row'[i] = row[i] \/ row'[i].ord > split[s].applied
    BY <2>2, <1>T, <1>I DEF OrdsAhead
  <2> QED  BY <2>1, <2>3, <1>C, <1>I, CleanKept, ZenonT(30)
<1>7. ASSUME NEW c \in Controllers, MarkApplied(c) PROVE Clean(s)'
  <2>1. /\ id' = id /\ seq' = seq /\ row' = row /\ split'[s].docs = split[s].docs
        /\ job[c].pc = "build" /\ Survivors(c) = AllDocs(c)
    BY <1>7, <1>T DEF MarkApplied
  <2>2. \/ split'[s].applied = split[s].applied
        \/ s \in Sources(c) /\ split'[s].applied = job[c].through
    <3>1. PICK x \in Splits :
              /\ Sources(c) = {x}
              /\ split' = [split EXCEPT ![x] = [state |-> split[x].state, docs |-> split[x].docs,
                                                applied |-> Larger(split[x].applied, job[c].through)]]
      BY <1>7, ZenonT(30) DEF MarkApplied
    <3>2. Larger(split[x].applied, job[c].through) \in {split[x].applied, job[c].through}
      BY ZenonT(30) DEF Larger
    <3>3. split'[s] = IF s = x THEN [state |-> split[x].state, docs |-> split[x].docs,
                                     applied |-> Larger(split[x].applied, job[c].through)] ELSE split[s]
      BY <3>1, <1>T, ZenonT(30)
    <3> QED  BY <3>1, <3>2, <3>3
  <2>3. CASE split'[s].applied = split[s].applied
    BY <2>1, <2>3, <1>C, <1>I, CleanKept, ZenonT(30)
  <2>4. CASE s \in Sources(c) /\ split'[s].applied = job[c].through
    <3>1. split[s].docs \subseteq Survivors(c)
      BY <2>1, <2>4, ZenonT(30) DEF AllDocs
    <3> QED  BY <2>1, <2>4, <3>1, <1>I, SurvivorsClean, ZenonT(30) DEF Clean
  <2> QED  BY <2>2, <2>3, <2>4, ZenonT(30)
<1>8. ASSUME NEW c \in Controllers, Rebuild(c) PROVE Clean(s)'
  <2>1. id' = id /\ seq' = seq /\ row' = row /\ job[c].pc = "build"
    BY <1>8, ZenonT(30) DEF Rebuild
  <2>2. CASE split'[s].docs = split[s].docs /\ split'[s].applied = split[s].applied
    BY <2>1, <2>2, <1>C, <1>I, CleanKept, ZenonT(30)
  <2>3. CASE split'[s].docs = Survivors(c) /\ split'[s].applied = job[c].through
    BY <2>1, <2>3, <1>I, SurvivorsClean, ZenonT(30) DEF Clean
  <2>4. \/ split'[s].docs = split[s].docs /\ split'[s].applied = split[s].applied
        \/ split'[s].docs = Survivors(c) /\ split'[s].applied = job[c].through
    <3>1. CASE split' = Marked(Sources(c))
      BY <3>1, ZenonT(30) DEF Marked, WithState
    <3>2. CASE \E x \in Splits : split' = [split EXCEPT ![x] = [state |-> "staged", docs |-> Survivors(c),
                                                                applied |-> job[c].through]]
      BY <3>2, <1>T
    <3> QED  BY <1>8, <3>1, <3>2, ZenonT(30) DEF Rebuild
  <2> QED  BY <2>2, <2>3, <2>4, ZenonT(30)
<1>9. ASSUME NEW c \in Controllers, Swap(c) PROVE Clean(s)'
  <2>1. split'[s].docs = split[s].docs /\ split'[s].applied = split[s].applied
    BY <1>9, ZenonT(30) DEF Swap, Swapped, WithState
  <2> QED  BY <1>9, <2>1, <1>C, <1>I, CleanKept, ZenonT(30) DEF Swap
<1>10. ASSUME NEW c \in Controllers, NEW i \in Ids, PurgeTombstone(c, i) PROVE Clean(s)'
  <2>1. split' = split /\ seq' = seq /\ id' = id
    BY <1>10, ZenonT(30) DEF PurgeTombstone
  <2>2. \A x \in Ids : row'[x] = row[x] \/ row'[x].ord = 0
    BY <1>10, <1>T, ZenonT(30) DEF PurgeTombstone, NoRow
  <2> QED  BY <2>1, <2>2, <1>C, <1>I, CleanKept, ZenonT(30)
<1>11. ASSUME \/ \E o \in Ops : \/ Begin(o) \/ Resolve(o) \/ ReadBounds(o) \/ AppendWal(o) \/ Enqueue(o)
                                \/ DrawTombstone(o) \/ Reclaim(o)
              \/ \E n \in Nodes : \/ ConfirmBatch(n) \/ Restart(n) \/ (\E o \in Ops : ReplayRecord(n, o))
                                  \/ Crash(n) \/ ExpireInfo(n)
              \/ \E c \in Controllers : \/ PickCompaction(c) \/ PickMerge(c) \/ ListTombstones(c)
                                        \/ JobError(c) \/ Handover(c)
              \/ UNCHANGED vars
       PROVE  Clean(s)'
  <2>1. UNCHANGED <<id, seq, split, row>>
    BY <1>11, ZenonT(30) DEF Begin, Resolve, ReadBounds, AppendWal, Enqueue, DrawTombstone, Reclaim, ConfirmBatch, Restart,
                 ReplayRecord, Crash, ExpireInfo, PickCompaction, PickMerge, ListTombstones, JobError, Handover, vars
  <2> QED  BY <2>1, <1>2, ZenonT(30)
<1> QED
  BY <1>1, <1>3, <1>4, <1>5, <1>6, <1>7, <1>8, <1>9, <1>10, <1>11, ZenonT(30)
     DEF Next, ItemStep, NodeStep, JobStep, Quiescent

----------------------------------------------------------------------------
(* The theorems *)

\* An empty index, with nothing to hide.
LEMMA InitInv == Init => IInv
<1> SUFFICES ASSUME Init PROVE IInv
  OBVIOUS
<1>1. TypeOK
  BY InitType, ZenonT(30)
<1>2. \A s \in Splits : split[s].docs = {} /\ split[s].applied = 0
  BY ZenonT(30) DEF Init, NoSplit
<1>3. \A i \in Ids : row[i].ord = 0
  BY ZenonT(30) DEF Init, NoRows, NoRow
<1>4. \A c \in Controllers : job[c] = Idle
  BY ZenonT(30) DEF Init
<1>5. Unstamped
  <2>1. Elems(<<>>) = {}
    BY SMTT(30) DEF Elems
  <2> QED  BY <1>2, <2>1, ZenonT(30) DEF Init, Unstamped, Placed
<1>6. OrdsAhead
  BY <1>2, <1>3, <1>4, SMTT(30) DEF Init, OrdsAhead, Idle
<1>7. OpenIsNewest
  BY ZenonT(30) DEF Init, OpenIsNewest
<1>8. ListComplete
  BY <1>4 DEF ListComplete, Covers, Idle
<1>9. AppliedHides
  BY <1>2, ZenonT(30) DEF AppliedHides
<1> QED  BY <1>1, <1>5, <1>6, <1>7, <1>8, <1>9, ZenonT(30) DEF IInv

\* The strengthened invariant holds in every behaviour.
THEOREM Invariant == Spec => []IInv
<1>1. IInv /\ [Next]_vars => IInv'
  <2> SUFFICES ASSUME IInv, [Next]_vars PROVE IInv'
    OBVIOUS
  <2>1. TypeOK /\ Unstamped /\ OrdsAhead /\ OpenIsNewest /\ ListComplete
    BY ZenonT(30) DEF IInv
  <2>2. TypeOK'
    BY <2>1, TypeStep, ZenonT(30)
  <2>3. Unstamped'
    BY <2>1, UnstampedStep, ZenonT(30)
  <2>4. OrdsAhead' /\ OpenIsNewest'
    BY <2>1, <2>2, OrdsStep, ZenonT(30)
  <2>5. ListComplete'
    BY <2>1, <2>2, ListStep, ZenonT(30)
  <2>6. AppliedHides'
    BY <2>2, AppliedStep, ZenonT(30)
  <2> QED  BY <2>2, <2>3, <2>4, <2>5, <2>6, ZenonT(30) DEF IInv
<1> QED  BY <1>1, InitInv, PTL DEF Spec

\* Types hold, sequences stay in the i64 range.
THEOREM TypeCorrect == Spec => []TypeOK
<1>1. IInv => TypeOK
  BY ZenonT(30) DEF IInv
<1> QED  BY <1>1, Invariant, PTL

\* tombstones.rs "a compaction stamping `applied_through = N` has really
\* applied them all", for any number of writers, controllers and crashes,
\* overlapping leaders included.
THEOREM AppliedIsApplied == Spec => []AppliedHides
<1>1. IInv => AppliedHides
  BY ZenonT(30) DEF IInv
<1> QED  BY <1>1, Invariant, PTL
=============================================================================
