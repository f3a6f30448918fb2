------------------------------ MODULE WalProofs ------------------------------
(***************************************************************************)
(* Proofs about the write-ahead log for any number of appenders, records,  *)
(* segments, crashes and I/O errors: it keeps its types, no segment that   *)
(* still holds an unconfirmed record is collected or unlinked, the segment *)
(* being written is always tracked, and an append that ran its own fsync   *)
(* returns with every readable record of its batch on stable storage.      *)
(*                                                                         *)
(* While no write fails and no segment fills up: group commit loses        *)
(* nothing it acknowledged, and the log implements DurableLog.  (With      *)
(* rotation it does not: an fsync of one segment raises `synced` past      *)
(* records that are in another.)                                           *)
(***************************************************************************)
EXTENDS Wal, FiniteSetTheorems, TLAPS

USE RecordsFinite, BoundsAssumption DEF Segments

----------------------------------------------------------------------------
(* Counting *)

\* Any set of records is finite, and has a size.
LEMMA FiniteRecords ==
    ASSUME NEW S \in SUBSET Records
    PROVE  IsFiniteSet(S) /\ Cardinality(S) \in Nat
BY FS_Subset, FS_CardinalityType, ZenonT(30)

\* Taking a part away subtracts its size.
LEMMA CardMinus ==
    ASSUME NEW S \in SUBSET Records, NEW T \in SUBSET S
    PROVE  Cardinality(S \ T) = Cardinality(S) - Cardinality(T)
<1>1. S \cap T = T
  OBVIOUS
<1>2. IsFiniteSet(S)
  BY FiniteRecords, ZenonT(30)
<1> QED  BY <1>1, <1>2, FS_Difference, ZenonT(30)

\* A new record adds one.
LEMMA CardPlusOne ==
    ASSUME NEW S \in SUBSET Records, NEW r, r \notin S
    PROVE  Cardinality(S \cup {r}) = Cardinality(S) + 1
BY FiniteRecords, FS_AddElement, ZenonT(30)

\* Only the empty set counts zero: a drained segment holds nobody's record.
LEMMA CardZero ==
    ASSUME NEW S \in SUBSET Records, Cardinality(S) = 0
    PROVE  S = {}
BY FiniteRecords, FS_EmptySet, ZenonT(30)

----------------------------------------------------------------------------
(* Type correctness *)

\* The log starts well typed.
LEMMA InitType == Init => TypeOK
BY DEF Init, TypeOK, InnerType, DiskType, CallType, ClientType

\* No step of append_batch, confirm, crash or open leaves the types.
LEMMA TypeStep == TypeOK /\ [Next]_vars => TypeOK'
<1> SUFFICES ASSUME TypeOK, [Next]_vars PROVE TypeOK'
  OBVIOUS
<1> USE DEF TypeOK, innerVars, diskVars, callVars, clientVars, boundVars
<1>1. ASSUME NEW t \in Appenders, StartAppend(t) PROVE TypeOK'
  <2>1. InnerType'
    BY <1>1, ZenonT(30) DEF StartAppend, InnerType
  <2>2. DiskType'
    BY <1>1, ZenonT(30) DEF StartAppend, DiskType
  <2>3. CallType'
    BY <1>1, ZenonT(30) DEF StartAppend, CallType
  <2>4. ClientType'
    BY <1>1, ZenonT(30) DEF StartAppend, ClientType
  <2> QED  BY <2>1, <2>2, <2>3, <2>4, ZenonT(30)
<1>2. ASSUME NEW t \in Appenders, WriteItem(t) PROVE TypeOK'
  <2>1. InnerType'
    BY <1>2 DEF WriteItem, Write, InnerType, CallType
  <2>2. DiskType'
    BY <1>2 DEF WriteItem, Write, DiskType, InnerType, CallType
  <2>3. CallType'
    BY <1>2 DEF WriteItem, Write, CallType
  <2>4. ClientType'
    BY <1>2, ZenonT(30) DEF WriteItem, Write, ClientType
  <2> QED  BY <2>1, <2>2, <2>3, <2>4, ZenonT(30)
<1>3. ASSUME NEW t \in Appenders, Rotate(t) PROVE TypeOK'
  <2>1. InnerType'
    <3>1. currentSeq + 1 \in Segments
      BY <1>3 DEF FlushBuffer, Rotate, InnerType
    <3>2. outstanding' \in [Segments -> Nat] /\ sealed' \subseteq Segments /\ tracked' \subseteq Segments
      BY <1>3, <3>1, ZenonT(30) DEF FlushBuffer, Rotate, CollectConfirmed, InnerType
    <3> QED  BY <1>3, <3>1, <3>2, ZenonT(30) DEF FlushBuffer, Rotate, InnerType
  <2>2. DiskType'
    BY <1>3 DEF FlushBuffer, Rotate, CollectConfirmed, DiskType, InnerType
  <2>3. CallType'
    BY <1>3, ZenonT(30) DEF FlushBuffer, Rotate, CollectConfirmed, CallType, InnerType
  <2>4. ClientType'
    BY <1>3, ZenonT(30) DEF FlushBuffer, Rotate, CollectConfirmed, ClientType
  <2> QED  BY <2>1, <2>2, <2>3, <2>4, ZenonT(30)
<1>4. ASSUME NEW t \in Appenders, RotateError(t) PROVE TypeOK'
  <2>1. InnerType'
    BY <1>4, ZenonT(30) DEF FlushBuffer, RotateError, Abandon, InnerType
  <2>2. DiskType'
    BY <1>4, ZenonT(30) DEF FlushBuffer, RotateError, Abandon, DiskType
  <2>3. CallType'
    BY <1>4, ZenonT(30) DEF FlushBuffer, RotateError, Abandon, CallType
  <2>4. ClientType'
    BY <1>4 DEF FlushBuffer, RotateError, Abandon, ClientType, CallType
  <2> QED  BY <2>1, <2>2, <2>3, <2>4, ZenonT(30)
<1>5. ASSUME NEW t \in Appenders, WriteError(t) PROVE TypeOK'
  <2>1. InnerType'
    BY <1>5, ZenonT(30) DEF WriteError, Abandon, InnerType
  <2>2. DiskType'
    BY <1>5, ZenonT(30) DEF WriteError, Abandon, DiskType, InnerType
  <2>3. CallType'
    BY <1>5, ZenonT(30) DEF WriteError, Abandon, CallType
  <2>4. ClientType'
    BY <1>5 DEF WriteError, Abandon, ClientType, CallType
  <2> QED  BY <2>1, <2>2, <2>3, <2>4, ZenonT(30)
<1>6. ASSUME NEW t \in Appenders, FinishWrite(t) PROVE TypeOK'
  <2>0. Cardinality(wrote[t]) \in Nat
    BY FiniteRecords, ZenonT(30) DEF CallType
  <2>1. InnerType'
    BY <1>6, <2>0 DEF FlushBuffer, FinishWrite, InnerType
  <2>2. DiskType'
    BY <1>6, <2>0, ZenonT(30) DEF FlushBuffer, FinishWrite, DiskType
  <2>3. CallType'
    <3>1. written' \in Nat
      BY <1>6, <2>0 DEF FlushBuffer, FinishWrite, InnerType
    <3> QED  BY <1>6, <3>1, ZenonT(30) DEF FlushBuffer, FinishWrite, CallType, InnerType
  <2>4. ClientType'
    BY <1>6, <2>0, ZenonT(30) DEF FlushBuffer, FinishWrite, ClientType
  <2> QED  BY <2>1, <2>2, <2>3, <2>4, ZenonT(30)
<1>7. ASSUME NEW t \in Appenders, SyncSealed(t) PROVE TypeOK'
  <2>1. InnerType'
    BY <1>7, ZenonT(30) DEF SyncSealed, Flushed, At, InnerType
  <2>2. DiskType'
    <3>1. \A s : Flushed(s) \subseteq Records
      BY ZenonT(30) DEF Flushed, At, DiskType
    <3> QED  BY <1>7, <3>1, ZenonT(30) DEF SyncSealed, DiskType
  <2>3. CallType'
    BY <1>7, ZenonT(30) DEF SyncSealed, Flushed, At, CallType
  <2>4. ClientType'
    BY <1>7, ZenonT(30) DEF SyncSealed, Flushed, At, ClientType
  <2> QED  BY <2>1, <2>2, <2>3, <2>4, ZenonT(30)
<1>8. ASSUME NEW t \in Appenders, CheckSynced(t) PROVE TypeOK'
  <2>1. InnerType'
    BY <1>8, ZenonT(30) DEF CheckSynced, Acknowledge, InnerType
  <2>2. DiskType'
    BY <1>8, ZenonT(30) DEF CheckSynced, Acknowledge, DiskType
  <2>3. CallType'
    BY <1>8, ZenonT(30) DEF CheckSynced, Acknowledge, CallType
  <2>4. ClientType'
    BY <1>8, ZenonT(30) DEF CheckSynced, Acknowledge, ClientType, CallType
  <2> QED  BY <2>1, <2>2, <2>3, <2>4, ZenonT(30)
<1>9. ASSUME NEW t \in Appenders, TakeGate(t) PROVE TypeOK'
  <2>1. InnerType'
    BY <1>9, ZenonT(30) DEF TakeGate, Acknowledge, InnerType
  <2>2. DiskType'
    BY <1>9, ZenonT(30) DEF TakeGate, Acknowledge, DiskType
  <2>3. CallType'
    BY <1>9, ZenonT(30) DEF TakeGate, Acknowledge, CallType
  <2>4. ClientType'
    BY <1>9, ZenonT(30) DEF TakeGate, Acknowledge, ClientType, CallType
  <2> QED  BY <2>1, <2>2, <2>3, <2>4, ZenonT(30)
<1>10. ASSUME NEW t \in Appenders, Snapshot(t) PROVE TypeOK'
  <2>1. InnerType'
    BY <1>10, ZenonT(30) DEF Snapshot, InnerType
  <2>2. DiskType'
    BY <1>10, ZenonT(30) DEF Snapshot, DiskType
  <2>3. CallType'
    BY <1>10, ZenonT(30) DEF Snapshot, CallType, InnerType
  <2>4. ClientType'
    BY <1>10, ZenonT(30) DEF Snapshot, ClientType
  <2> QED  BY <2>1, <2>2, <2>3, <2>4, ZenonT(30)
<1>11. ASSUME NEW t \in Appenders, Fsync(t) PROVE TypeOK'
  <2>1. InnerType'
    BY <1>11, ZenonT(30) DEF Fsync, Acknowledge, Flushed, At, InnerType, CallType
  <2>2. DiskType'
    BY <1>11, ZenonT(30) DEF Fsync, Acknowledge, Flushed, At, DiskType, CallType
  <2>3. CallType'
    BY <1>11, ZenonT(30) DEF Fsync, Acknowledge, Flushed, At, CallType
  <2>4. ClientType'
    BY <1>11, ZenonT(30) DEF Fsync, Acknowledge, Flushed, At, ClientType, CallType
  <2> QED  BY <2>1, <2>2, <2>3, <2>4, ZenonT(30)
<1>12. ASSUME NEW t \in Appenders, SyncError(t) PROVE TypeOK'
  <2>1. InnerType'
    BY <1>12, ZenonT(30) DEF SyncError, Abandon, InnerType
  <2>2. DiskType'
    BY <1>12, ZenonT(30) DEF SyncError, Abandon, DiskType
  <2>3. CallType'
    BY <1>12, ZenonT(30) DEF SyncError, Abandon, CallType
  <2>4. ClientType'
    BY <1>12 DEF SyncError, Abandon, ClientType, CallType
  <2> QED  BY <2>1, <2>2, <2>3, <2>4, ZenonT(30)
<1>13. ASSUME NEW S \in SUBSET pending, Confirm(S) PROVE TypeOK'
  <2>0. \A s \in Segments : Cardinality(At(S, s)) \in Nat
    BY FiniteRecords, ZenonT(30) DEF At, ClientType
  <2>1. InnerType'
    <3>1. outstanding' \in [Segments -> Nat]
      BY <1>13, <2>0 DEF Decrement, Confirm, InnerType
    <3> QED  BY <1>13, <3>1, ZenonT(30) DEF Decrement, Confirm, InnerType
  <2>2. DiskType'
    BY <1>13, <2>0, ZenonT(30) DEF Decrement, Confirm, CollectConfirmed, DiskType
  <2>3. CallType'
    BY <1>13, <2>0, ZenonT(30) DEF Decrement, Confirm, CollectConfirmed, CallType, InnerType
  <2>4. ClientType'
    BY <1>13, <2>0, ZenonT(30) DEF Decrement, Confirm, CollectConfirmed, ClientType
  <2> QED  BY <2>1, <2>2, <2>3, <2>4, ZenonT(30)
<1>14. CASE UnlinkConfirmed
  <2>1. InnerType'
    BY <1>14, ZenonT(30) DEF UnlinkConfirmed, InnerType
  <2>2. DiskType'
    BY <1>14, ZenonT(30) DEF UnlinkConfirmed, DiskType
  <2>3. CallType'
    BY <1>14, ZenonT(30) DEF UnlinkConfirmed, CallType
  <2>4. ClientType'
    BY <1>14, ZenonT(30) DEF UnlinkConfirmed, ClientType
  <2> QED  BY <2>1, <2>2, <2>3, <2>4, ZenonT(30)
<1>15. CASE Crash
  <2>1. InnerType'
    BY <1>15, ZenonT(30) DEF Crash, InnerType
  <2>2. DiskType'
    BY <1>15, ZenonT(30) DEF Crash, DiskType
  <2>3. CallType'
    BY <1>15, ZenonT(30) DEF Crash, CallType
  <2>4. ClientType'
    <3>1. crashes' \in 0 .. MaxCrashes
      BY <1>15 DEF Crash, ClientType
    <3> QED  BY <1>15, <3>1, ZenonT(30) DEF Crash, ClientType
  <2> QED  BY <2>1, <2>2, <2>3, <2>4, ZenonT(30)
<1>16. CASE Open
  <2>0. \A s \in Segments : Cardinality(At(disk, s)) \in Nat
    BY FiniteRecords, ZenonT(30) DEF At, DiskType
  <2>1. InnerType'
    <3>1. outstanding' \in [Segments -> Nat]
      BY <1>16, <2>0 DEF Open
    <3>2. currentSeq' \in Segments /\ tracked' \subseteq Segments /\ sealed' \subseteq Segments
      BY <1>16, ZenonT(30) DEF Open, DiskType
    <3>3. currentLen' = 0 /\ buffered' = buffered /\ written' = 0 /\ synced' = 0
      BY <1>16, ZenonT(30) DEF Open
    <3> QED  BY <3>1, <3>2, <3>3, ZenonT(30) DEF InnerType
  <2>2. DiskType'
    BY <1>16, <2>0, ZenonT(30) DEF Open, DiskType
  <2>3. CallType'
    BY <1>16, <2>0, ZenonT(30) DEF Open, CallType
  <2>4. ClientType'
    BY <1>16, <2>0, ZenonT(30) DEF Open, ClientType, DiskType
  <2> QED  BY <2>1, <2>2, <2>3, <2>4, ZenonT(30)
<1>17. CASE UNCHANGED vars
  BY <1>17, ZenonT(30) DEF vars, InnerType, DiskType, CallType, ClientType
<1> QED
  BY <1>1, <1>2, <1>3, <1>4, <1>5, <1>6, <1>7, <1>8, <1>9, <1>10, <1>11, <1>12, <1>13,
     <1>14, <1>15, <1>16, <1>17, ZenonT(30)
  DEF Next, AppendStep, AppendError, Quiescent

----------------------------------------------------------------------------
(* Segments *)

\* Whose turn: one appender at most holds the writer lock, and only it has
\* items left to write.  They are in nobody else's hands.
BatchInv ==
    /\ \A t, u \in Appenders : pc[t] = "write" /\ pc[u] = "write" => t = u
    /\ \A t \in Appenders : batch[t] # {} => pc[t] = "write"
    /\ \A t \in Appenders : \A r \in batch[t] : r \notin Counted /\ r \notin disk

\* A written record is in the hands of one party at most.
OwnerInv ==
    /\ pending \cap failed = {}
    /\ \A t \in Appenders : wrote[t] \cap (pending \cup failed) = {}
    /\ \A t, u \in Appenders : t # u => wrote[t] \cap wrote[u] = {}

\* Files and the `segments` map.
FileInv ==
    /\ \A r \in disk : pos[r] \in files
    /\ up => /\ tracked \subseteq files
             /\ \A s \in files : s <= currentSeq
             /\ currentLen < MaxSegment => currentSeq \in tracked \ sealed
             /\ \A t \in Appenders : \A s \in victims[t] : s \notin tracked /\ s <= currentSeq
             /\ \A s \in confirmVictims : s \notin tracked /\ s <= currentSeq

\* outstanding counts, for each tracked segment, the records in it that
\* nobody has confirmed.
CountInv ==
    up => /\ \A s \in tracked : outstanding[s] = Cardinality(At(Counted, s))
          /\ \A r \in Counted : pos[r] \in tracked
          /\ \A r \in Counted : pos[r] \notin torn => r \in disk

\* A dead process holds nothing.
DownInv ==
    ~up => /\ pending = {} /\ failed = {} /\ confirmVictims = {}
           /\ \A t \in Appenders : pc[t] = "idle" /\ batch[t] = {} /\ wrote[t] = {} /\ victims[t] = {}

IInv == TypeOK /\ BatchInv /\ OwnerInv /\ FileInv /\ CountInv /\ DownInv

----------------------------------------------------------------------------
(* The inductive invariant *)

\* What each action does to the set of counted records.
LEMMA CountedSame ==
    ASSUME NEW t \in Appenders, TypeOK,
           \/ StartAppend(t) \/ Rotate(t) \/ FinishWrite(t) \/ SyncSealed(t)
           \/ CheckSynced(t) \/ TakeGate(t) \/ Snapshot(t) \/ Fsync(t) \/ AppendError(t)
    PROVE  Counted' = Counted
<1> USE DEF TypeOK, CallType, Counted, clientVars, callVars
<1>1. CASE StartAppend(t) \/ Rotate(t) \/ FinishWrite(t) \/ SyncSealed(t) \/ Snapshot(t)
  BY <1>1, ZenonT(30) DEF StartAppend, Rotate, FinishWrite, SyncSealed, Snapshot
<1>2. CASE CheckSynced(t) \/ TakeGate(t) \/ Fsync(t)
  BY <1>2, ZenonT(30) DEF CheckSynced, TakeGate, Fsync, Acknowledge
<1>3. CASE AppendError(t)
  BY <1>3, ZenonT(30) DEF AppendError, RotateError, WriteError, SyncError, Abandon
<1> QED  BY <1>1, <1>2, <1>3, ZenonT(30)

\* A written record becomes counted.
LEMMA CountedWrite ==
    ASSUME NEW t \in Appenders, NEW r \in batch[t], NEW s, TypeOK, Write(t, r, s),
           UNCHANGED clientVars
    PROVE  Counted' = Counted \cup {r}
BY ZenonT(30) DEF TypeOK, CallType, Counted, clientVars, Write

\* A confirmed record stops being counted.
LEMMA CountedConfirm ==
    ASSUME NEW S \in SUBSET pending, TypeOK, OwnerInv, Confirm(S)
    PROVE  Counted' = Counted \ S
BY ZenonT(30) DEF TypeOK, ClientType, Counted, OwnerInv, Confirm, callVars

\* After a restart exactly the readable records are counted.
LEMMA CountedOpen ==
    ASSUME TypeOK, DownInv, Open
    PROVE  Counted' = disk
BY ZenonT(30) DEF TypeOK, DiskType, Counted, DownInv, Open, callVars

\* Every step keeps the turns: the writer lock excludes.
LEMMA BatchStep == IInv /\ [Next]_vars => BatchInv'
<1> SUFFICES ASSUME IInv, [Next]_vars PROVE BatchInv'
  OBVIOUS
<1> USE DEF IInv, TypeOK, CallType, BatchInv, innerVars, diskVars, callVars, clientVars
<1>1. ASSUME NEW t \in Appenders, StartAppend(t) PROVE BatchInv'
  <2>1. Counted' = Counted /\ disk' = disk
    BY <1>1, CountedSame, ZenonT(30) DEF StartAppend
  <2>2. PICK B \in SUBSET (Records \ Submitted) : batch' = [batch EXCEPT ![t] = B]
    BY <1>1, ZenonT(30) DEF StartAppend
  <2>3. \A r \in B : r \notin Counted /\ r \notin disk
    BY ZenonT(30) DEF Submitted
  <2>4. pc' = [pc EXCEPT ![t] = "write"] /\ \A u \in Appenders : pc[u] # "write"
    BY <1>1, ZenonT(30) DEF StartAppend, InnerFree
  <2> QED  BY <2>1, <2>2, <2>3, <2>4, ZenonT(30)
<1>2. ASSUME NEW t \in Appenders, WriteItem(t) PROVE BatchInv'
  <2>1. PICK r \in batch[t] : Write(t, r, currentSeq)
    BY <1>2, ZenonT(30) DEF WriteItem
  <2>2. Counted' = Counted \cup {r}
    BY <1>2, <2>1, CountedWrite, ZenonT(30) DEF WriteItem
  <2> QED  BY <1>2, <2>1, <2>2 DEF WriteItem, Write
<1>3. ASSUME NEW t \in Appenders, Rotate(t) PROVE BatchInv'
  BY <1>3, CountedSame, ZenonT(30) DEF FlushBuffer, Rotate, CollectConfirmed
<1>4. ASSUME NEW t \in Appenders, RotateError(t) PROVE BatchInv'
  BY <1>4, CountedSame, ZenonT(30) DEF FlushBuffer, RotateError, Abandon, AppendError
<1>5. ASSUME NEW t \in Appenders, WriteError(t) PROVE BatchInv'
  BY <1>5, CountedSame, ZenonT(30) DEF WriteError, Abandon, AppendError
<1>6. ASSUME NEW t \in Appenders, FinishWrite(t) PROVE BatchInv'
  BY <1>6, CountedSame, ZenonT(30) DEF FlushBuffer, FinishWrite
<1>7. ASSUME NEW t \in Appenders, SyncSealed(t) PROVE BatchInv'
  BY <1>7, CountedSame, ZenonT(30) DEF SyncSealed
<1>8. ASSUME NEW t \in Appenders, CheckSynced(t) PROVE BatchInv'
  BY <1>8, CountedSame DEF CheckSynced, Acknowledge
<1>9. ASSUME NEW t \in Appenders, TakeGate(t) PROVE BatchInv'
  BY <1>9, CountedSame DEF TakeGate, Acknowledge
<1>10. ASSUME NEW t \in Appenders, Snapshot(t) PROVE BatchInv'
  BY <1>10, CountedSame, ZenonT(30) DEF Snapshot
<1>11. ASSUME NEW t \in Appenders, Fsync(t) PROVE BatchInv'
  BY <1>11, CountedSame, ZenonT(30) DEF Fsync, Acknowledge
<1>12. ASSUME NEW t \in Appenders, SyncError(t) PROVE BatchInv'
  BY <1>12, CountedSame, ZenonT(30) DEF SyncError, Abandon, AppendError
<1>13. ASSUME NEW S \in SUBSET pending, Confirm(S) PROVE BatchInv'
  <2>1. Counted' \subseteq Counted
    BY <1>13, CountedConfirm, ZenonT(30)
  <2>2. pc' = pc /\ batch' = batch /\ disk' = disk
    BY <1>13, ZenonT(30) DEF Decrement, Confirm
  <2> QED  BY <2>1, <2>2, ZenonT(30)
<1>14. CASE UnlinkConfirmed
  BY <1>14, ZenonT(30) DEF UnlinkConfirmed, Counted
<1>15. CASE Crash
  BY <1>15, ZenonT(30) DEF Crash
<1>16. CASE Open
  BY <1>16, ZenonT(30) DEF Open, DownInv
<1>17. CASE UNCHANGED vars
  BY <1>17, ZenonT(30) DEF vars, Counted
<1> QED
  BY <1>1, <1>2, <1>3, <1>4, <1>5, <1>6, <1>7, <1>8, <1>9, <1>10, <1>11, <1>12, <1>13,
     <1>14, <1>15, <1>16, <1>17, ZenonT(30)
  DEF Next, AppendStep, AppendError, Quiescent

\* Every step keeps a written record in one party's hands.
LEMMA OwnerStep == IInv /\ [Next]_vars => OwnerInv'
<1> SUFFICES ASSUME IInv, [Next]_vars PROVE OwnerInv'
  OBVIOUS
<1> USE DEF IInv, TypeOK, CallType, OwnerInv, innerVars, diskVars, callVars, clientVars
<1>1. ASSUME NEW t \in Appenders, StartAppend(t) PROVE OwnerInv'
  BY <1>1, ZenonT(30) DEF StartAppend
<1>2. ASSUME NEW t \in Appenders, WriteItem(t) PROVE OwnerInv'
  <2>1. PICK r \in batch[t] : Write(t, r, currentSeq)
    BY <1>2, ZenonT(30) DEF WriteItem
  <2>2. r \in Records /\ r \notin Counted
    BY <1>2, <2>1, ZenonT(30) DEF WriteItem, BatchInv
  <2> QED  BY <1>2, <2>1, <2>2 DEF WriteItem, Write, Counted
<1>3. ASSUME NEW t \in Appenders, Rotate(t) PROVE OwnerInv'
  BY <1>3, ZenonT(30) DEF FlushBuffer, Rotate, CollectConfirmed
<1>4. ASSUME NEW t \in Appenders, RotateError(t) PROVE OwnerInv'
  BY <1>4, ZenonT(30) DEF FlushBuffer, RotateError, Abandon
<1>5. ASSUME NEW t \in Appenders, WriteError(t) PROVE OwnerInv'
  BY <1>5, ZenonT(30) DEF WriteError, Abandon
<1>6. ASSUME NEW t \in Appenders, FinishWrite(t) PROVE OwnerInv'
  BY <1>6, ZenonT(30) DEF FlushBuffer, FinishWrite
<1>7. ASSUME NEW t \in Appenders, SyncSealed(t) PROVE OwnerInv'
  BY <1>7, ZenonT(30) DEF SyncSealed
<1>8. ASSUME NEW t \in Appenders, CheckSynced(t) PROVE OwnerInv'
  BY <1>8 DEF CheckSynced, Acknowledge
<1>9. ASSUME NEW t \in Appenders, TakeGate(t) PROVE OwnerInv'
  BY <1>9 DEF TakeGate, Acknowledge
<1>10. ASSUME NEW t \in Appenders, Snapshot(t) PROVE OwnerInv'
  BY <1>10, ZenonT(30) DEF Snapshot
<1>11. ASSUME NEW t \in Appenders, Fsync(t) PROVE OwnerInv'
  BY <1>11, ZenonT(30) DEF Fsync, Acknowledge
<1>12. ASSUME NEW t \in Appenders, SyncError(t) PROVE OwnerInv'
  BY <1>12, ZenonT(30) DEF SyncError, Abandon
<1>13. ASSUME NEW S \in SUBSET pending, Confirm(S) PROVE OwnerInv'
  BY <1>13, ZenonT(30) DEF Decrement, Confirm, CollectConfirmed
<1>14. CASE UnlinkConfirmed
  BY <1>14, ZenonT(30) DEF UnlinkConfirmed
<1>15. CASE Crash
  BY <1>15, ZenonT(30) DEF Crash
<1>16. CASE Open
  BY <1>16, ZenonT(30) DEF Open, DownInv
<1>17. CASE UNCHANGED vars
  BY <1>17, ZenonT(30) DEF vars
<1> QED
  BY <1>1, <1>2, <1>3, <1>4, <1>5, <1>6, <1>7, <1>8, <1>9, <1>10, <1>11, <1>12, <1>13, ZenonT(30),
     <1>14, <1>15, <1>16, <1>17
  DEF Next, AppendStep, AppendError, Quiescent

\* A crash empties the process, and nothing but open fills it.
LEMMA DownStep == IInv /\ [Next]_vars => DownInv'
<1> SUFFICES ASSUME IInv, [Next]_vars PROVE DownInv'
  OBVIOUS
<1> USE DEF IInv, TypeOK, CallType, ClientType, DownInv, innerVars, diskVars, callVars, clientVars
<1>1. ASSUME NEW t \in Appenders, StartAppend(t) PROVE DownInv'
  BY <1>1, ZenonT(30) DEF StartAppend
<1>2. ASSUME NEW t \in Appenders, WriteItem(t) PROVE DownInv'
  BY <1>2, ZenonT(30) DEF WriteItem, Write
<1>3. ASSUME NEW t \in Appenders, Rotate(t) PROVE DownInv'
  BY <1>3, ZenonT(30) DEF FlushBuffer, Rotate, CollectConfirmed
<1>4. ASSUME NEW t \in Appenders, RotateError(t) PROVE DownInv'
  BY <1>4, ZenonT(30) DEF FlushBuffer, RotateError, Abandon
<1>5. ASSUME NEW t \in Appenders, WriteError(t) PROVE DownInv'
  BY <1>5, ZenonT(30) DEF WriteError, Abandon
<1>6. ASSUME NEW t \in Appenders, FinishWrite(t) PROVE DownInv'
  BY <1>6, ZenonT(30) DEF FlushBuffer, FinishWrite
<1>7. ASSUME NEW t \in Appenders, SyncSealed(t) PROVE DownInv'
  BY <1>7, ZenonT(30) DEF SyncSealed
<1>8. ASSUME NEW t \in Appenders, CheckSynced(t) PROVE DownInv'
  BY <1>8, ZenonT(30) DEF CheckSynced, Acknowledge
<1>9. ASSUME NEW t \in Appenders, TakeGate(t) PROVE DownInv'
  BY <1>9, ZenonT(30) DEF TakeGate, Acknowledge
<1>10. ASSUME NEW t \in Appenders, Snapshot(t) PROVE DownInv'
  BY <1>10, ZenonT(30) DEF Snapshot
<1>11. ASSUME NEW t \in Appenders, Fsync(t) PROVE DownInv'
  BY <1>11, ZenonT(30) DEF Fsync, Acknowledge
<1>12. ASSUME NEW t \in Appenders, SyncError(t) PROVE DownInv'
  BY <1>12, ZenonT(30) DEF SyncError, Abandon
<1>13. ASSUME NEW S \in SUBSET pending, Confirm(S) PROVE DownInv'
  BY <1>13, ZenonT(30) DEF Decrement, Confirm, CollectConfirmed
<1>14. CASE UnlinkConfirmed
  BY <1>14, ZenonT(30) DEF UnlinkConfirmed
<1>15. CASE Crash
  BY <1>15, ZenonT(30) DEF Crash
<1>16. CASE Open
  BY <1>16, ZenonT(30) DEF Open
<1>17. CASE UNCHANGED vars
  BY <1>17, ZenonT(30) DEF vars
<1> QED
  BY <1>1, <1>2, <1>3, <1>4, <1>5, <1>6, <1>7, <1>8, <1>9, <1>10, <1>11, <1>12, <1>13, ZenonT(30),
     <1>14, <1>15, <1>16, <1>17
  DEF Next, AppendStep, AppendError, Quiescent

\* Every step keeps files and the `segments` map in agreement.
LEMMA FileStep == IInv /\ [Next]_vars => FileInv'
<1> SUFFICES ASSUME IInv, [Next]_vars PROVE FileInv'
  OBVIOUS
<1> USE DEF IInv, TypeOK, InnerType, DiskType, CallType, FileInv, innerVars, diskVars, callVars, clientVars
<1>1. ASSUME NEW t \in Appenders, StartAppend(t) PROVE FileInv'
  BY <1>1, ZenonT(30) DEF StartAppend
<1>2. ASSUME NEW t \in Appenders, WriteItem(t) PROVE FileInv'
  <2>1. PICK r \in batch[t] : Write(t, r, currentSeq)
    BY <1>2, ZenonT(30) DEF WriteItem
  <2>2. up /\ currentSeq \in files
    BY <1>2, ZenonT(30) DEF WriteItem, DownInv
  <2>3. \A q \in disk' : pos'[q] \in files
    BY <2>1, <2>2, ZenonT(30) DEF Write
  <2> QED  BY <1>2, <2>2, <2>3, ZenonT(30) DEF WriteItem
<1>3. ASSUME NEW t \in Appenders, Rotate(t) PROVE FileInv'
  <2> DEFINE new == currentSeq + 1
              gone == CollectConfirmed(tracked, sealed \cup {currentSeq}, outstanding)
  <2>1. up /\ up' = up
    BY <1>3, ZenonT(30) DEF FlushBuffer, Rotate, DownInv
  <2>2. gone \subseteq tracked
    BY ZenonT(30) DEF CollectConfirmed
  <2>3. /\ tracked' = (tracked \ gone) \cup {new}
        /\ sealed' = (sealed \cup {currentSeq}) \ {new}
        /\ files' = files \cup {new}
        /\ victims' = [victims EXCEPT ![t] = @ \cup gone]
        /\ currentSeq' = new
        /\ disk' = disk /\ pos' = pos /\ confirmVictims' = confirmVictims
    BY <1>3, ZenonT(30) DEF FlushBuffer, Rotate
  <2> HIDE DEF gone
  <2>4. \A u \in Appenders : \A s \in victims'[u] : s \notin tracked' /\ s <= currentSeq'
    BY <2>1, <2>2, <2>3
  <2> QED  BY <2>1, <2>2, <2>3, <2>4
<1>4. ASSUME NEW t \in Appenders, RotateError(t) PROVE FileInv'
  BY <1>4 DEF FlushBuffer, RotateError, Abandon
<1>5. ASSUME NEW t \in Appenders, WriteError(t) PROVE FileInv'
  BY <1>5, ZenonT(30) DEF WriteError, Abandon
<1>6. ASSUME NEW t \in Appenders, FinishWrite(t) PROVE FileInv'
  BY <1>6, ZenonT(30) DEF FlushBuffer, FinishWrite
<1>7. ASSUME NEW t \in Appenders, SyncSealed(t) PROVE FileInv'
  BY <1>7, ZenonT(30) DEF SyncSealed, DownInv
<1>8. ASSUME NEW t \in Appenders, CheckSynced(t) PROVE FileInv'
  BY <1>8, ZenonT(30) DEF CheckSynced, Acknowledge
<1>9. ASSUME NEW t \in Appenders, TakeGate(t) PROVE FileInv'
  BY <1>9, ZenonT(30) DEF TakeGate, Acknowledge
<1>10. ASSUME NEW t \in Appenders, Snapshot(t) PROVE FileInv'
  BY <1>10, ZenonT(30) DEF Snapshot
<1>11. ASSUME NEW t \in Appenders, Fsync(t) PROVE FileInv'
  BY <1>11, ZenonT(30) DEF Fsync, Acknowledge
<1>12. ASSUME NEW t \in Appenders, SyncError(t) PROVE FileInv'
  BY <1>12, ZenonT(30) DEF SyncError, Abandon
<1>13. ASSUME NEW S \in SUBSET pending, Confirm(S) PROVE FileInv'
  <2>1. PICK gone \in SUBSET (tracked \cap sealed) :
           tracked' = tracked \ gone /\ confirmVictims' = confirmVictims \cup gone
    BY <1>13, ZenonT(30) DEF Decrement, Confirm, CollectConfirmed
  <2>2. up /\ UNCHANGED <<up, currentSeq, currentLen, sealed, files, disk, pos, victims>>
    BY <1>13, ZenonT(30) DEF Decrement, Confirm
  <2> QED  BY <2>1, <2>2, ZenonT(30)
<1>14. CASE UnlinkConfirmed
  BY <1>14, ZenonT(30) DEF UnlinkConfirmed, DownInv
<1>15. CASE Crash
  BY <1>15, ZenonT(30) DEF Crash
<1>16. CASE Open
  <2>1. /\ tracked' = files' /\ sealed' = files /\ currentSeq' \in files' \ files
        /\ files \subseteq files'
        /\ \A s \in files' : s <= currentSeq'
    BY <1>16 DEF Open
  <2>2. UNCHANGED <<disk, pos, victims, confirmVictims>>
    BY <1>16, ZenonT(30) DEF Open
  <2> QED  BY <1>16, <2>1, <2>2, ZenonT(30) DEF Open, DownInv
<1>17. CASE UNCHANGED vars
  BY <1>17, ZenonT(30) DEF vars
<1> QED
  BY <1>1, <1>2, <1>3, <1>4, <1>5, <1>6, <1>7, <1>8, <1>9, <1>10, <1>11, <1>12, <1>13, ZenonT(30),
     <1>14, <1>15, <1>16, <1>17
  DEF Next, AppendStep, AppendError, Quiescent

\* Nothing moves: the records, their segments, the map and its counts.
LEMMA CountKept ==
    ASSUME CountInv, Counted' = Counted, UNCHANGED <<pos, tracked, outstanding, up>>,
           torn \subseteq torn', up => \A r \in Counted : r \in disk => r \in disk'
    PROVE  CountInv'
<1>1. \A s : At(Counted, s)' = At(Counted, s)
  BY ZenonT(30) DEF At
<1> QED  BY <1>1, ZenonT(30) DEF CountInv

\* Every step keeps `outstanding` exact: write adds one, confirm takes
\* away as many as it was given, open counts again.
LEMMA CountStep == IInv /\ [Next]_vars => CountInv'
<1> SUFFICES ASSUME IInv, [Next]_vars PROVE CountInv'
  OBVIOUS
<1> USE DEF IInv, TypeOK, CallType, DiskType, innerVars, diskVars, callVars, clientVars
<1>1. ASSUME NEW t \in Appenders, StartAppend(t) PROVE CountInv'
  BY <1>1, CountedSame, CountKept, ZenonT(30) DEF StartAppend
<1>2. ASSUME NEW t \in Appenders, WriteItem(t) PROVE CountInv'
  <2>1. PICK r \in batch[t] : Write(t, r, currentSeq)
    BY <1>2, ZenonT(30) DEF WriteItem
  <2>2. Counted' = Counted \cup {r} /\ r \in Records /\ r \notin Counted
    BY <1>2, <2>1, CountedWrite, ZenonT(30) DEF WriteItem, BatchInv
  <2>10. Counted \subseteq Records
    BY ZenonT(30) DEF Counted
  <2>3. /\ up /\ up' = up /\ currentSeq \in tracked /\ tracked' = tracked /\ torn' = torn
        /\ currentSeq \in Segments /\ currentSeq' = currentSeq
        /\ outstanding' = [outstanding EXCEPT ![currentSeq] = @ + 1]
        /\ outstanding \in [Segments -> Nat] /\ tracked \subseteq Segments
    BY <1>2, ZenonT(30) DEF WriteItem, DownInv, FileInv, InnerType
  <2>4. pos' = [pos EXCEPT ![r] = currentSeq] /\ (disk' = disk \/ disk' = disk \cup {r})
        /\ (currentSeq \notin torn => r \in disk')
    BY <2>1, ZenonT(30) DEF Write
  <2>5. \A s \in tracked \ {currentSeq} : At(Counted, s)' = At(Counted, s)
    BY <2>2, <2>10, <2>4 DEF At
  <2>6. At(Counted, currentSeq)' = At(Counted, currentSeq) \cup {r}
    BY <2>2, <2>3, <2>10, <2>4 DEF At
  <2>7. Cardinality(At(Counted, currentSeq)') = Cardinality(At(Counted, currentSeq)) + 1
    BY <2>2, <2>6, CardPlusOne, ZenonT(30) DEF At, Counted
  <2>8. \A s \in tracked' : outstanding'[s] = Cardinality(At(Counted, s)')
    <3>1. outstanding'[currentSeq] = Cardinality(At(Counted, currentSeq)')
      BY <2>3, <2>7, ZenonT(30) DEF CountInv
    <3>2. \A s \in tracked \ {currentSeq} : outstanding'[s] = Cardinality(At(Counted, s)')
      BY <2>3, <2>5, ZenonT(30) DEF CountInv
    <3>3. SUFFICES ASSUME NEW s \in tracked PROVE outstanding'[s] = Cardinality(At(Counted, s)')
      BY <2>3, ZenonT(30)
    <3>4. CASE s = currentSeq
      <4>1. At(Counted, s)' = At(Counted, currentSeq)'
        BY <3>4, <2>3, ZenonT(30)
      <4> QED  BY <3>1, <3>4, <4>1, ZenonT(30)
    <3> QED  BY <3>2, <3>4, ZenonT(30)
  <2>9. \A q \in Counted' : pos'[q] \in tracked' /\ (pos'[q] \notin torn' => q \in disk')
    BY <2>2, <2>3, <2>4, ZenonT(30) DEF CountInv, Counted
  <2> QED  BY <2>8, <2>9, ZenonT(30) DEF CountInv
<1>3. ASSUME NEW t \in Appenders, Rotate(t) PROVE CountInv'
  <2> DEFINE new == currentSeq + 1
              gone == CollectConfirmed(tracked, sealed \cup {currentSeq}, outstanding)
  <2>1. /\ up /\ up' = up /\ pos' = pos /\ torn' = torn /\ disk' = disk
        /\ Counted' = Counted
    BY <1>3, CountedSame, ZenonT(30) DEF FlushBuffer, Rotate, DownInv
  <2>2. /\ tracked' = (tracked \ gone) \cup {new}
        /\ outstanding' = [outstanding EXCEPT ![new] = 0]
        /\ new \in Segments /\ outstanding \in [Segments -> Nat] /\ tracked \subseteq Segments
    BY <1>3, SMTT(60) DEF FlushBuffer, Rotate, InnerType
  <2>3. new \notin tracked
    BY <2>1 DEF FileInv, InnerType
  <2>4. \A s \in gone : At(Counted, s) = {}
    <3>1. \A s \in gone : Cardinality(At(Counted, s)) = 0
      BY <2>1, ZenonT(30) DEF CollectConfirmed, CountInv
    <3>2. \A s : At(Counted, s) \in SUBSET Records
      BY ZenonT(30) DEF At, Counted
    <3> QED  BY <3>1, <3>2, CardZero, ZenonT(30)
  <2>5. At(Counted, new) = {}
    BY <2>1, <2>3, ZenonT(30) DEF At, CountInv
  <2>6. Cardinality(At(Counted, new)) = 0
    BY <2>5, FS_EmptySet, ZenonT(30)
  <2>7. \A s : At(Counted, s)' = At(Counted, s)
    BY <2>1, ZenonT(30) DEF At
  <2> HIDE DEF new, gone
  <2>8. \A s \in tracked' : outstanding'[s] = Cardinality(At(Counted, s)')
    BY <2>1, <2>2, <2>3, <2>6, <2>7, ZenonT(30) DEF CountInv
  <2>9. \A r \in Counted' : pos'[r] \in tracked'
    BY <2>1, <2>2, <2>4, ZenonT(30) DEF CountInv, At
  <2> QED  BY <2>1, <2>8, <2>9, ZenonT(30) DEF CountInv
<1>4. ASSUME NEW t \in Appenders, RotateError(t) PROVE CountInv'
  BY <1>4, CountedSame, CountKept, ZenonT(30) DEF FlushBuffer, RotateError, Abandon, AppendError
<1>5. ASSUME NEW t \in Appenders, WriteError(t) PROVE CountInv'
  BY <1>5, CountedSame, CountKept, ZenonT(30) DEF WriteError, Abandon, AppendError
<1>6. ASSUME NEW t \in Appenders, FinishWrite(t) PROVE CountInv'
  BY <1>6, CountedSame, CountKept, ZenonT(30) DEF FlushBuffer, FinishWrite
<1>7. ASSUME NEW t \in Appenders, SyncSealed(t) PROVE CountInv'
  <2>1. up => \A r \in Counted : r \in disk => r \in disk'
    BY <1>7, ZenonT(30) DEF SyncSealed, FileInv, CountInv
  <2> QED  BY <1>7, <2>1, CountedSame, CountKept, ZenonT(30) DEF SyncSealed
<1>8. ASSUME NEW t \in Appenders, CheckSynced(t) PROVE CountInv'
  BY <1>8, CountedSame, CountKept, ZenonT(30) DEF CheckSynced
<1>9. ASSUME NEW t \in Appenders, TakeGate(t) PROVE CountInv'
  BY <1>9, CountedSame, CountKept, ZenonT(30) DEF TakeGate
<1>10. ASSUME NEW t \in Appenders, Snapshot(t) PROVE CountInv'
  BY <1>10, CountedSame, CountKept, ZenonT(30) DEF Snapshot
<1>11. ASSUME NEW t \in Appenders, Fsync(t) PROVE CountInv'
  BY <1>11, CountedSame, CountKept, ZenonT(30) DEF Fsync
<1>12. ASSUME NEW t \in Appenders, SyncError(t) PROVE CountInv'
  BY <1>12, CountedSame, CountKept, ZenonT(30) DEF SyncError, Abandon, AppendError
<1>13. ASSUME NEW S \in SUBSET pending, Confirm(S) PROVE CountInv'
  <2> DEFINE gone == CollectConfirmed(tracked, sealed, outstanding')
  <2>1. Counted' = Counted \ S /\ S \subseteq Counted /\ Counted \subseteq Records
    BY <1>13, CountedConfirm, ZenonT(30) DEF Counted, ClientType
  <2>2. up /\ UNCHANGED <<up, pos, torn, disk>>
    BY <1>13, ZenonT(30) DEF Decrement, Confirm
  <2>3. tracked' = tracked \ gone
    BY <1>13, ZenonT(30) DEF Decrement, Confirm
  <2>4. \A s \in tracked : Cardinality(At(Counted, s)') = outstanding[s] - Cardinality(At(S, s))
    <3>1. \A s : At(Counted, s)' = At(Counted, s) \ At(S, s)
      BY <2>1, <2>2, ZenonT(30) DEF At
    <3>2. \A s : At(S, s) \subseteq At(Counted, s) /\ At(Counted, s) \subseteq Records
      BY <2>1, ZenonT(30) DEF At
    <3> QED  BY <2>2, <3>1, <3>2, CardMinus DEF CountInv
  <2>5. \A s \in tracked : outstanding'[s] = Cardinality(At(Counted, s)')
    <3>1. \A s : Cardinality(At(Counted, s)') \in Nat /\ Cardinality(At(S, s)) \in Nat
      BY <2>1, FiniteRecords, ZenonT(30) DEF At
    <3>2. \A s \in tracked : outstanding[s] \in Nat /\ s \in Segments
      BY ZenonT(30) DEF InnerType
    <3>3. \A s \in tracked : outstanding'[s] = Decrement(outstanding[s], Cardinality(At(S, s)))
      BY <1>13, <3>2, ZenonT(30) DEF Confirm
    <3>4. ASSUME NEW s \in tracked PROVE outstanding'[s] = Cardinality(At(Counted, s)')
      <4> DEFINE n == Cardinality(At(S, s))
                 k == Cardinality(At(Counted, s)')
      <4>1. n \in Nat /\ k \in Nat /\ outstanding[s] \in Nat /\ k = outstanding[s] - n
        BY <2>4, <3>1, <3>2, ZenonT(30)
      <4>2. outstanding'[s] = Decrement(outstanding[s], n)
        BY <3>3, ZenonT(30)
      <4> HIDE DEF n, k
      <4>3. outstanding'[s] = k
        BY <4>1, <4>2, SMTT(60) DEF Decrement
      <4> QED  BY <4>3, ZenonT(30) DEF k
    <3> QED  BY <3>4, ZenonT(30)
  <2>6. \A s \in gone : At(Counted, s)' = {}
    <3>1. \A s \in gone : Cardinality(At(Counted, s)') = 0
      BY <2>5, ZenonT(30) DEF CollectConfirmed
    <3>2. \A s : At(Counted, s)' \in SUBSET Records
      BY <2>1, ZenonT(30) DEF At
    <3> QED  BY <3>1, <3>2, CardZero, ZenonT(30)
  <2> HIDE DEF gone
  <2>7. \A r \in Counted' : pos'[r] \in tracked'
    BY <2>1, <2>2, <2>3, <2>6, ZenonT(30) DEF At, CountInv
  <2>8. \A s \in tracked' : outstanding'[s] = Cardinality(At(Counted, s)')
    BY <2>3, <2>5, ZenonT(30)
  <2> QED  BY <2>1, <2>2, <2>7, <2>8, ZenonT(30) DEF CountInv
<1>14. CASE UnlinkConfirmed
  <2>1. up => \A r \in Counted : r \in disk => r \in disk'
    BY <1>14, ZenonT(30) DEF UnlinkConfirmed, FileInv, CountInv
  <2>2. Counted' = Counted
    BY <1>14, ZenonT(30) DEF UnlinkConfirmed, Counted
  <2> QED  BY <1>14, <2>1, <2>2, CountKept, ZenonT(30) DEF UnlinkConfirmed
<1>15. CASE Crash
  BY <1>15, ZenonT(30) DEF Crash, CountInv
<1>16. CASE Open
  <2>1. Counted' = disk /\ pos' = pos /\ torn' = torn /\ disk' = disk
    BY <1>16, CountedOpen, ZenonT(30) DEF Open
  <2>2. PICK new \in Segments :
           /\ \A s \in files : s < new
           /\ tracked' = files \cup {new}
           /\ outstanding' = [s \in Segments |-> IF s \in files THEN Cardinality(At(disk, s)) ELSE 0]
    BY <1>16, ZenonT(30) DEF Open
  <2>7. new \notin files
    BY <2>2
  <2>3. \A s : At(Counted, s)' = At(disk, s)
    BY <2>1, ZenonT(30) DEF At
  <2>4. At(disk, new) = {} /\ Cardinality({}) = 0
    BY <2>7, FS_EmptySet DEF At, FileInv
  <2>5. \A s \in tracked' : outstanding'[s] = Cardinality(At(Counted, s)')
    BY <2>2, <2>3, <2>4, ZenonT(30)
  <2> QED  BY <2>1, <2>2, <2>5, ZenonT(30) DEF CountInv, FileInv
<1>17. CASE UNCHANGED vars
  BY <1>17, CountKept, ZenonT(30) DEF vars, Counted
<1> QED
  BY <1>1, <1>2, <1>3, <1>4, <1>5, <1>6, <1>7, <1>8, <1>9, <1>10, <1>11, <1>12, <1>13,
     <1>14, <1>15, <1>16, <1>17, ZenonT(30)
  DEF Next, AppendStep, AppendError, Quiescent

\* The log starts in the inductive invariant.
LEMMA InitInv == Init => IInv
<1> SUFFICES ASSUME Init PROVE IInv
  OBVIOUS
<1>1. Counted = {}
  BY ZenonT(30) DEF Init, Counted
<1>2. \A s : Cardinality(At(Counted, s)) = 0
  BY <1>1, FS_EmptySet, ZenonT(30) DEF At
<1>3. CountInv
  BY <1>1, <1>2 DEF Init, CountInv
<1> QED  BY <1>1, <1>3, InitType, SMTT(60) DEF Init, IInv, BatchInv, OwnerInv, FileInv, DownInv

\* The inductive invariant holds in every reachable state of the log.
THEOREM Invariant == Spec => []IInv
<1>1. IInv /\ [Next]_vars => IInv'
  BY TypeStep, BatchStep, OwnerStep, FileStep, CountStep, DownStep, ZenonT(30) DEF IInv
<1> QED  BY <1>1, InitInv, PTL DEF Spec

\* Every variable keeps its type, and the counts of confirm never leave Nat.
THEOREM TypeCorrect == Spec => []TypeOK
<1>1. IInv => TypeOK
  BY ZenonT(30) DEF IInv
<1> QED  BY <1>1, Invariant, PTL

\* collect_confirmed takes no segment with an unconfirmed record in it, and
\* no unlink removes one, whatever rotations, failed calls, confirms and
\* crashes come in between.
THEOREM SegmentsKept == Spec => []SegmentKept
<1>1. IInv => SegmentKept
  BY ZenonT(30) DEF IInv, SegmentKept, CountInv, FileInv, DownInv, Counted, TypeOK, ClientType
<1> QED  BY <1>1, Invariant, PTL

\* The "invariant breach" branch of append_batch is unreachable.
THEOREM CurrentIsTracked == Spec => []CurrentTracked
<1>1. IInv => CurrentTracked
  BY ZenonT(30) DEF IInv, CurrentTracked, FileInv, DownInv
<1> QED  BY <1>1, Invariant, PTL

----------------------------------------------------------------------------
(* What an append that returns has made durable *)

\* Between the writer lock and the return of append_batch.
Post == {"sealed", "check", "gate", "snapshot", "fsync"}

\* A batch is never empty; a record is fresh until its append returns.
CallInv ==
    /\ \A t \in Appenders : pc[t] = "idle" <=> batch[t] \cup wrote[t] = {}
    /\ \A t \in Appenders : (batch[t] \cup wrote[t]) \cap (acked \cup confirmed) = {}

\* Where the records of a running call are: in the current segment or one the
\* call has rotated out while it writes; flushed, and in a segment the call is
\* going to fsync or has fsynced, after that.
Spread(t, r) ==
    /\ pc[t] = "write" => pos[r] = currentSeq \/ pos[r] \in sealedFds[t]
    /\ pc[t] \in Post => r \notin buffered
    /\ pc[t] = "sealed" => pos[r] = fd[t] \/ pos[r] \in sealedFds[t]
    /\ pc[t] \in Post \ {"sealed"} /\ r \in disk => pos[r] = fd[t] \/ r \in durable

SpreadInv == \A t \in Appenders : \A r \in wrote[t] : Spread(t, r)

\* What is on disk is confirmed or still counted.
DiskInv == up => \A r \in disk : r \in Counted \/ r \in confirmed

\* Conditions under which one fsync is as good as another: the records fit into
\* one segment, or one thread appends.
OneSegment == Cardinality(Records) <= MaxSegment
Alone      == \A t, u \in Appenders : t = u

\* Without rotation the current segment is the one that was opened, everybody
\* writes to it and fsyncs it, and nothing waits to be sealed.
CurrentInv ==
    /\ currentSeq \in files
    /\ \A r \in confirmed : pos[r] <= currentSeq
    /\ up => /\ currentSeq \in tracked \ sealed
             /\ currentLen = Cardinality(At(Counted \cup confirmed, currentSeq))
    /\ \A t \in Appenders :
         /\ victims[t] = {} /\ sealedFds[t] = {}
         /\ pc[t] \in Post => fd[t] = currentSeq
         /\ \A r \in wrote[t] : pos[r] = currentSeq

\* Group commit: a call that finds `synced` at or past its own count has been
\* made durable by somebody's fsync.
GroupInv ==
    /\ torn = {} /\ synced <= written
    /\ \A t \in Appenders : pc[t] = "fsync" => covered[t] <= written
    /\ \A t \in Appenders : pc[t] \in Post =>
         myGen[t] <= written /\ (synced >= myGen[t] => wrote[t] \subseteq durable)

\* Acknowledged records are durable, and with the indexer until confirmed.
AckInv ==
    \A r \in acked \ confirmed : r \in disk /\ r \in durable /\ (up => r \in pending)

----------------------------------------------------------------------------
(* The calls *)

\* No step hands a record to two calls, or to a call that has returned.
LEMMA CallStep == IInv /\ CallInv /\ [Next]_vars => CallInv'
<1> SUFFICES ASSUME IInv, CallInv, [Next]_vars PROVE CallInv'
  OBVIOUS
<1> USE DEF IInv, TypeOK, CallType, CallInv, innerVars, diskVars, callVars, clientVars
<1>1. ASSUME NEW t \in Appenders, StartAppend(t) PROVE CallInv'
  <2>1. PICK B \in SUBSET (Records \ Submitted) : B # {} /\ batch' = [batch EXCEPT ![t] = B]
    BY <1>1, ZenonT(30) DEF StartAppend
  <2>2. B \cap (acked \cup confirmed) = {}
    BY ZenonT(30) DEF Submitted
  <2> QED  BY <1>1, <2>1, <2>2, ZenonT(30) DEF StartAppend
<1>2. ASSUME NEW t \in Appenders, WriteItem(t) PROVE CallInv'
  <2>1. PICK r \in batch[t] : Write(t, r, currentSeq)
    BY <1>2, ZenonT(30) DEF WriteItem
  <2> QED  BY <1>2, <2>1 DEF WriteItem, Write
<1>3. ASSUME NEW t \in Appenders, Rotate(t) \/ FinishWrite(t) \/ SyncSealed(t) \/ Snapshot(t) PROVE CallInv'
  BY <1>3, ZenonT(30) DEF Rotate, FinishWrite, SyncSealed, Snapshot
<1>4. ASSUME NEW t \in Appenders, CheckSynced(t) \/ TakeGate(t) \/ Fsync(t) PROVE CallInv'
  <2>1. batch' = batch /\ confirmed' = confirmed /\ batch[t] = {} /\ pc[t] # "idle"
    BY <1>4, ZenonT(30) DEF CheckSynced, TakeGate, Fsync, BatchInv
  <2>2. CASE Acknowledge(t)
    <3>1. \A u \in Appenders : u # t => (batch[u] \cup wrote[u]) \cap wrote[t] = {}
      BY ZenonT(30) DEF BatchInv, OwnerInv, Counted
    <3> QED  BY <2>1, <2>2, <3>1, ZenonT(30) DEF Acknowledge
  <2>3. CASE wrote' = wrote /\ acked' = acked /\ pc' = [pc EXCEPT ![t] = "gate"]
    BY <2>1, <2>3, ZenonT(30)
  <2>4. CASE wrote' = wrote /\ acked' = acked /\ pc' = [pc EXCEPT ![t] = "snapshot"]
    BY <2>1, <2>4, ZenonT(30)
  <2> QED  BY <1>4, <2>2, <2>3, <2>4, ZenonT(30) DEF CheckSynced, TakeGate, Fsync
<1>5. ASSUME NEW t \in Appenders, AppendError(t) PROVE CallInv'
  BY <1>5 DEF AppendError, RotateError, WriteError, SyncError, Abandon
<1>6. ASSUME NEW S \in SUBSET pending, Confirm(S) PROVE CallInv'
  <2>1. \A u \in Appenders : (batch[u] \cup wrote[u]) \cap S = {}
    BY <1>6, ZenonT(30) DEF BatchInv, OwnerInv, Counted, ClientType
  <2> QED  BY <1>6, <2>1, ZenonT(30) DEF Confirm
<1>7. CASE Crash
  BY <1>7, ZenonT(30) DEF Crash
<1>8. CASE Open \/ UnlinkConfirmed \/ UNCHANGED vars
  BY <1>8, ZenonT(30) DEF Open, UnlinkConfirmed, vars
<1> QED
  BY <1>1, <1>2, <1>3, <1>4, <1>5, <1>6, <1>7, <1>8, ZenonT(30) DEF Next, AppendStep, Quiescent

----------------------------------------------------------------------------
(* Where the records of a call are *)

\* A step that leaves a call alone, its segments included, leaves its records
\* where they are: others write, flush, fsync and unlink only.
LEMMA SpreadKept ==
    ASSUME NEW t \in Appenders, NEW r \in Records, Spread(t, r),
           pc'[t] = pc[t], pos'[r] = pos[r], fd'[t] = fd[t], sealedFds'[t] = sealedFds[t],
           pc[t] = "write" => currentSeq' = currentSeq,
           r \in buffered' => r \in buffered, r \in disk' => r \in disk, durable \subseteq durable'
    PROVE  Spread(t, r)'
BY ZenonT(30) DEF Spread

\* A batch stays in the current segment and the ones its call has rotated out,
\* until the call has fsynced those.
LEMMA SpreadStep == IInv /\ CallInv /\ SpreadInv /\ [Next]_vars => SpreadInv'
<1> SUFFICES ASSUME IInv, CallInv, SpreadInv, [Next]_vars, NEW u \in Appenders, NEW q \in wrote'[u]
             PROVE  Spread(u, q)'
  BY ZenonT(30) DEF SpreadInv
<1> USE DEF innerVars, diskVars, callVars, clientVars
<1>T. /\ DOMAIN pc = Appenders /\ DOMAIN fd = Appenders /\ DOMAIN sealedFds = Appenders
      /\ DOMAIN wrote = Appenders /\ DOMAIN pos = Records /\ DOMAIN batch = Appenders
      /\ \A t \in Appenders : wrote[t] \subseteq Records /\ batch[t] \subseteq Records
  BY ZenonT(30) DEF IInv, TypeOK, CallType, DiskType
<1>I. q \in wrote[u] => Spread(u, q)
  BY ZenonT(30) DEF SpreadInv
<1>W. \A t \in Appenders : pc[t] = "write" => (t = u \/ pc[u] # "write")
  BY ZenonT(30) DEF IInv, BatchInv
<1>1. ASSUME NEW t \in Appenders, StartAppend(t) PROVE Spread(u, q)'
  <2>1. q \in wrote[u] /\ u # t
    BY <1>1, <1>T, ZenonT(30) DEF StartAppend, CallInv
  <2> QED  BY <1>1, <2>1, <1>T, <1>I, SpreadKept, ZenonT(30) DEF StartAppend
<1>2. ASSUME NEW t \in Appenders, WriteItem(t) PROVE Spread(u, q)'
  <2>1. PICK r \in batch[t] : Write(t, r, currentSeq) /\ buffered' = buffered \cup {r}
    BY <1>2, ZenonT(30) DEF WriteItem
  <2>2. r \in Records /\ \A v \in Appenders : r \notin wrote[v]
    BY <2>1, <1>T, ZenonT(30) DEF IInv, BatchInv, Counted
  <2>3. UNCHANGED <<pc, fd, sealedFds, currentSeq, durable>> /\ pc[t] = "write"
    BY <1>2, ZenonT(30) DEF WriteItem
  <2>4. pos' = [pos EXCEPT ![r] = currentSeq] /\ disk' \subseteq disk \cup {r}
    BY <2>1, ZenonT(30) DEF Write
  <2>5. CASE q = r
    <3>1. u = t
      BY <2>1, <2>2, <2>5, <1>T, ZenonT(30) DEF Write
    <3> QED  BY <2>2, <2>3, <2>4, <2>5, <3>1, <1>T, ZenonT(30) DEF Spread, Post
  <2>6. CASE q # r
    <3>1. q \in wrote[u]
      BY <2>1, <2>6, <1>T, ZenonT(30) DEF Write
    <3>2. pos'[q] = pos[q] /\ (q \in buffered' => q \in buffered) /\ (q \in disk' => q \in disk)
      BY <2>1, <2>4, <2>6, <3>1, <1>T, ZenonT(30)
    <3> QED  BY <2>3, <3>1, <3>2, <1>T, <1>I, SpreadKept, ZenonT(30)
  <2> QED  BY <2>5, <2>6, ZenonT(30)
<1>3. ASSUME NEW t \in Appenders, Rotate(t) PROVE Spread(u, q)'
  <2>1. /\ UNCHANGED <<pc, pos, fd, disk, durable, wrote>> /\ pc[t] = "write" /\ buffered' = {}
        /\ sealedFds' = [sealedFds EXCEPT ![t] = @ \cup {currentSeq}]
    BY <1>3, ZenonT(30) DEF Rotate, FlushBuffer
  <2>2. CASE u = t
    BY <2>1, <2>2, <1>T, <1>I, ZenonT(30) DEF Spread, Post
  <2>3. CASE u # t
    <3>1. sealedFds'[u] = sealedFds[u] /\ pc[u] # "write"
      BY <2>1, <2>3, <1>T, <1>W, ZenonT(30)
    <3> QED  BY <2>1, <3>1, <1>T, <1>I, SpreadKept, ZenonT(30)
  <2> QED  BY <2>2, <2>3, ZenonT(30)
<1>4. ASSUME NEW t \in Appenders, FinishWrite(t) PROVE Spread(u, q)'
  <2>1. /\ UNCHANGED <<pos, sealedFds, currentSeq, disk, durable, wrote>> /\ buffered' = {}
        /\ pc' = [pc EXCEPT ![t] = "sealed"] /\ fd' = [fd EXCEPT ![t] = currentSeq] /\ pc[t] = "write"
    BY <1>4, ZenonT(30) DEF FinishWrite, FlushBuffer
  <2>2. CASE u = t
    <3>1. pc'[u] = "sealed" /\ fd'[u] = currentSeq
      BY <2>1, <2>2, <1>T, ZenonT(30)
    <3> QED  BY <2>1, <2>2, <3>1, <1>I, ZenonT(30) DEF Spread, Post
  <2>3. CASE u # t
    <3>1. pc'[u] = pc[u] /\ fd'[u] = fd[u]
      BY <2>1, <2>3, <1>T, ZenonT(30)
    <3> QED  BY <2>1, <3>1, <1>T, <1>I, SpreadKept, ZenonT(30)
  <2> QED  BY <2>2, <2>3, ZenonT(30)
<1>5. ASSUME NEW t \in Appenders, SyncSealed(t) PROVE Spread(u, q)'
  <2>1. /\ UNCHANGED <<pos, fd, currentSeq, wrote, buffered>> /\ pc[t] = "sealed"
        /\ pc' = [pc EXCEPT ![t] = "check"] /\ sealedFds' = [sealedFds EXCEPT ![t] = {}]
        /\ disk' \subseteq disk
        /\ durable' = durable \cup UNION {Flushed(s) : s \in sealedFds[t]}
    BY <1>5, ZenonT(30) DEF SyncSealed, AllSealed
  <2>2. CASE u = t
    <3>1. pc'[u] = "check" /\ q \notin buffered /\ (pos[q] = fd[u] \/ pos[q] \in sealedFds[u])
      BY <2>1, <2>2, <1>T, <1>I, ZenonT(30) DEF Spread, Post
    <3>2. q \in disk /\ pos[q] \in sealedFds[t] => q \in durable'
      BY <2>1, <2>2, <3>1 DEF Flushed, At
    <3> QED  BY <2>1, <2>2, <3>1, <3>2, ZenonT(30) DEF Spread, Post
  <2>3. CASE u # t
    <3>1. pc'[u] = pc[u] /\ sealedFds'[u] = sealedFds[u]
      BY <2>1, <2>3, <1>T, ZenonT(30)
    <3> QED  BY <2>1, <3>1, <1>T, <1>I, SpreadKept, ZenonT(30)
  <2> QED  BY <2>2, <2>3, ZenonT(30)
<1>6. ASSUME NEW t \in Appenders, CheckSynced(t) \/ TakeGate(t) \/ Snapshot(t) \/ Fsync(t)
      PROVE  Spread(u, q)'
  <2>1. /\ UNCHANGED <<pos, fd, sealedFds, currentSeq, buffered, disk>> /\ durable \subseteq durable'
        /\ pc[t] \in Post \ {"sealed"}
    BY <1>6, ZenonT(30) DEF CheckSynced, TakeGate, Snapshot, Fsync, Post
  <2>2. \/ pc' = [pc EXCEPT ![t] = "idle"] /\ wrote' = [wrote EXCEPT ![t] = {}]
        \/ /\ \E p \in Post \ {"sealed"} : pc' = [pc EXCEPT ![t] = p]
           /\ wrote' = wrote
    BY <1>6, ZenonT(30) DEF CheckSynced, TakeGate, Snapshot, Fsync, Acknowledge, Post
  <2>3. CASE u = t
    <3>1. q \in wrote[u] /\ pc'[u] \in Post \ {"sealed"}
      BY <2>2, <2>3, <1>T, ZenonT(30)
    <3> QED  BY <2>1, <2>3, <3>1, <1>I, ZenonT(30) DEF Spread, Post
  <2>4. CASE u # t
    <3>1. q \in wrote[u] /\ pc'[u] = pc[u]
      BY <2>2, <2>4, <1>T, ZenonT(30)
    <3> QED  BY <2>1, <3>1, <1>T, <1>I, SpreadKept, ZenonT(30)
  <2> QED  BY <2>3, <2>4, ZenonT(30)
<1>7. ASSUME NEW t \in Appenders, AppendError(t) PROVE Spread(u, q)'
  <2>1. /\ UNCHANGED <<pos, fd, currentSeq, disk, durable>> /\ buffered' \subseteq buffered
        /\ pc' = [pc EXCEPT ![t] = "idle"] /\ wrote' = [wrote EXCEPT ![t] = {}]
        /\ sealedFds' = [sealedFds EXCEPT ![t] = {}]
    BY <1>7, ZenonT(30) DEF AppendError, RotateError, WriteError, SyncError, Abandon, FlushBuffer
  <2>2. u # t /\ q \in wrote[u] /\ pc'[u] = pc[u] /\ sealedFds'[u] = sealedFds[u]
    BY <2>1, <1>T, ZenonT(30)
  <2> QED  BY <2>1, <2>2, <1>T, <1>I, SpreadKept, ZenonT(30)
<1>8. CASE \E S \in SUBSET pending : Confirm(S)
  <2>1. UNCHANGED <<pc, pos, fd, sealedFds, currentSeq, buffered, disk, durable, wrote>>
    BY <1>8, ZenonT(30) DEF Confirm
  <2> QED  BY <2>1, <1>T, <1>I, SpreadKept, ZenonT(30)
<1>9. CASE UnlinkConfirmed
  <2>1. UNCHANGED <<pc, pos, fd, sealedFds, currentSeq, buffered, durable, wrote>> /\ disk' \subseteq disk
    BY <1>9, ZenonT(30) DEF UnlinkConfirmed
  <2> QED  BY <2>1, <1>T, <1>I, SpreadKept, ZenonT(30)
<1>10. CASE Crash
  BY <1>10, ZenonT(30) DEF Crash
<1>11. CASE Open
  BY <1>11, ZenonT(30) DEF Open, IInv, DownInv
<1>12. CASE UNCHANGED vars
  BY <1>12, <1>T, <1>I, SpreadKept, ZenonT(30) DEF vars
<1> QED
  BY <1>1, <1>2, <1>3, <1>4, <1>5, <1>6, <1>7, <1>8, <1>9, <1>10, <1>11, <1>12, ZenonT(30)
  DEF Next, AppendStep, Quiescent

\* Only the call that wrote a record acknowledges it, and by then it has
\* fsynced every segment the record may be in.
LEMMA OwnSyncStep ==
    ASSUME IInv, CallInv, SpreadInv, Next,
           NEW t \in Appenders, pc[t] = "fsync", wrote[t] \subseteq acked'
    PROVE  wrote[t] \cap disk' \subseteq durable'
<1> SUFFICES ASSUME NEW q \in wrote[t] \cap disk' PROVE q \in durable'
  OBVIOUS
<1> USE DEF innerVars, diskVars, callVars, clientVars
<1>1. q \notin acked /\ q \in acked'
  BY ZenonT(30) DEF CallInv
<1>2. PICK u \in Appenders : Acknowledge(u) /\ (CheckSynced(u) \/ TakeGate(u) \/ Fsync(u))
  <2>1. ASSUME NEW u \in Appenders, StartAppend(u) \/ AppendStep(u) \/ AppendError(u)
        PROVE  acked' = acked \/ (Acknowledge(u) /\ (CheckSynced(u) \/ TakeGate(u) \/ Fsync(u)))
    BY <2>1, ZenonT(30)
    DEF StartAppend, AppendStep, AppendError, WriteItem, Rotate, FinishWrite, SyncSealed, CheckSynced,
        TakeGate, Snapshot, Fsync, RotateError, WriteError, SyncError
  <2>2. CASE (\E S \in SUBSET pending : Confirm(S)) \/ UnlinkConfirmed \/ Crash \/ Open \/ Quiescent
    BY <2>2, <1>1, ZenonT(30) DEF Confirm, UnlinkConfirmed, Crash, Open, Quiescent, vars
  <2> QED  BY <1>1, <2>1, <2>2, ZenonT(30) DEF Next
<1>3. u = t
  <2>1. q \in wrote[u]
    BY <1>1, <1>2, ZenonT(30) DEF Acknowledge
  <2> QED  BY <2>1, ZenonT(30) DEF IInv, OwnerInv
<1>4. Fsync(t)
  BY <1>2, <1>3, ZenonT(30) DEF CheckSynced, TakeGate
<1>5. q \in disk /\ q \notin buffered /\ (pos[q] = fd[t] \/ q \in durable)
  BY <1>4, ZenonT(30) DEF SpreadInv, Spread, Post, Fsync
<1> QED  BY <1>4, <1>5, ZenonT(30) DEF Fsync, Flushed, At

\* Nothing reaches the disk but what some call has written.
LEMMA DiskStep == IInv /\ DiskInv /\ [Next]_vars => DiskInv'
<1> SUFFICES ASSUME IInv, DiskInv, [Next]_vars PROVE DiskInv'
  OBVIOUS
<1> USE DEF IInv, DiskInv, innerVars, diskVars, callVars, clientVars
<1>1. ASSUME NEW t \in Appenders,
             \/ StartAppend(t) \/ Rotate(t) \/ FinishWrite(t) \/ SyncSealed(t)
             \/ CheckSynced(t) \/ TakeGate(t) \/ Snapshot(t) \/ Fsync(t) \/ AppendError(t)
      PROVE DiskInv'
  <2>1. Counted' = Counted
    BY <1>1, CountedSame, ZenonT(30)
  <2>2. up' = up /\ confirmed' = confirmed /\ disk' \subseteq disk
    BY <1>1, ZenonT(30)
    DEF StartAppend, Rotate, FinishWrite, SyncSealed, CheckSynced, TakeGate, Snapshot, Fsync,
        AppendError, RotateError, WriteError, SyncError
  <2> QED  BY <2>1, <2>2, ZenonT(30)
<1>2. ASSUME NEW t \in Appenders, WriteItem(t) PROVE DiskInv'
  <2>1. PICK r \in batch[t] : Write(t, r, currentSeq)
    BY <1>2, ZenonT(30) DEF WriteItem
  <2>2. Counted' = Counted \cup {r} /\ disk' \subseteq disk \cup {r} /\ up' = up /\ confirmed' = confirmed
    BY <1>2, <2>1, CountedWrite, ZenonT(30) DEF WriteItem, Write
  <2> QED  BY <2>2, ZenonT(30)
<1>3. ASSUME NEW S \in SUBSET pending, Confirm(S) PROVE DiskInv'
  <2>1. Counted' = Counted \ S
    BY <1>3, CountedConfirm, ZenonT(30)
  <2> QED  BY <1>3, <2>1, ZenonT(30) DEF Confirm
<1>4. CASE UnlinkConfirmed
  BY <1>4, ZenonT(30) DEF UnlinkConfirmed, Counted
<1>5. CASE Crash
  BY <1>5, ZenonT(30) DEF Crash
<1>6. CASE Open
  BY <1>6, CountedOpen, ZenonT(30) DEF Open
<1>7. CASE UNCHANGED vars
  BY <1>7, ZenonT(30) DEF vars, Counted
<1> QED
  BY <1>1, <1>2, <1>3, <1>4, <1>5, <1>6, <1>7, ZenonT(30) DEF Next, AppendStep, Quiescent

----------------------------------------------------------------------------
(* One segment *)

\* No early return with Err.
LEMMA NoErrors ==
    ASSUME TypeOK, MaxErrors = 0, NEW t \in Appenders
    PROVE  ~ AppendError(t)
<1>1. ~ (errors < MaxErrors)
  BY DEF TypeOK, ClientType
<1> QED  BY <1>1, ZenonT(30) DEF AppendError, RotateError, WriteError, SyncError, Abandon

\* A segment that can hold every record has room for the next one.
LEMMA NoRotation ==
    ASSUME OneSegment, IInv, CallInv, CurrentInv, NEW t \in Appenders, NEW r \in batch[t]
    PROVE  currentLen < MaxSegment
<1> DEFINE W == At(Counted \cup confirmed, currentSeq)
<1>1. up /\ r \in Records /\ r \notin Counted /\ r \notin confirmed
  BY ZenonT(30) DEF IInv, TypeOK, CallType, BatchInv, DownInv, CallInv
<1>2. W \in SUBSET Records /\ r \notin W
  BY <1>1, ZenonT(30) DEF At, Counted, IInv, TypeOK, ClientType
<1>3. currentLen = Cardinality(W)
  BY <1>1, ZenonT(30) DEF CurrentInv
<1> HIDE DEF W
<1>4. Cardinality(W \cup {r}) = Cardinality(W) + 1
  BY <1>2, CardPlusOne, ZenonT(30)
<1>5. W \cup {r} \in SUBSET Records
  BY <1>1, <1>2, ZenonT(30)
<1>6. Cardinality(W \cup {r}) <= Cardinality(Records)
  BY <1>5, RecordsFinite, FS_Subset, ZenonT(30)
<1>7. Cardinality(W) \in Nat /\ Cardinality(Records) \in Nat
  BY <1>2, FiniteRecords, ZenonT(30)
<1> QED  BY <1>3, <1>4, <1>6, <1>7 DEF OneSegment

\* The current segment stays the one that was opened.
LEMMA CurrentStep ==
    ASSUME MaxErrors = 0, OneSegment, IInv, CallInv, CurrentInv, [Next]_vars
    PROVE  CurrentInv'
<1> USE DEF innerVars, diskVars, callVars, clientVars
<1> DEFINE Mine(t) == /\ victims[t] = {} /\ sealedFds[t] = {}
                      /\ pc[t] \in Post => fd[t] = currentSeq
                      /\ \A r \in wrote[t] : pos[r] = currentSeq
<1>T. /\ DOMAIN pc = Appenders /\ DOMAIN fd = Appenders /\ DOMAIN sealedFds = Appenders
      /\ DOMAIN wrote = Appenders /\ DOMAIN pos = Records /\ DOMAIN victims = Appenders
      /\ \A t \in Appenders : wrote[t] \subseteq Records /\ batch[t] \subseteq Records
      /\ confirmed \subseteq Records /\ Counted \subseteq Records
  BY ZenonT(30) DEF IInv, TypeOK, CallType, DiskType, ClientType, Counted
<1>M. \A t \in Appenders : Mine(t)
  BY ZenonT(30) DEF CurrentInv
\* Enough for the steps that neither write nor open.
<1>K. ASSUME Counted' \cup confirmed' = Counted \cup confirmed, pos' = pos, currentSeq' = currentSeq,
             currentLen' = currentLen, currentSeq \in files', up' => up /\ currentSeq \in tracked' \ sealed',
             \A r \in confirmed' : pos[r] <= currentSeq, \A t \in Appenders : Mine(t)'
      PROVE  CurrentInv'
  <2>1. At(Counted \cup confirmed, currentSeq)' = At(Counted \cup confirmed, currentSeq)
    BY <1>K, ZenonT(30) DEF At
  <2> QED  BY <1>K, <2>1, ZenonT(30) DEF CurrentInv
<1>1. ASSUME NEW t \in Appenders, StartAppend(t) PROVE CurrentInv'
  <2>1. Counted' = Counted
    BY <1>1, CountedSame, ZenonT(30) DEF IInv
  <2>2. /\ UNCHANGED <<confirmed, pos, currentSeq, currentLen, files, up, tracked, sealed, victims,
                       sealedFds, fd, wrote>>
        /\ pc' = [pc EXCEPT ![t] = "write"]
    BY <1>1, ZenonT(30) DEF StartAppend
  <2>3. \A u \in Appenders : Mine(u)'
    BY <2>2, <1>M, <1>T, ZenonT(30) DEF Post
  <2> QED  BY <2>1, <2>2, <2>3, <1>K, ZenonT(30) DEF CurrentInv
<1>2. ASSUME NEW t \in Appenders, WriteItem(t) PROVE CurrentInv'
  <2>1. PICK r \in batch[t] : Write(t, r, currentSeq)
    BY <1>2, ZenonT(30) DEF WriteItem
  <2>2. up /\ r \in Records /\ r \notin Counted /\ r \notin confirmed
    BY ZenonT(30) DEF IInv, TypeOK, CallType, BatchInv, DownInv, CallInv
  <2>3. /\ UNCHANGED <<confirmed, currentSeq, files, up, tracked, sealed, victims, sealedFds, fd, pc>>
        /\ currentLen' = currentLen + 1
    BY <1>2, ZenonT(30) DEF WriteItem
  <2>4. Counted' = Counted \cup {r}
    BY <1>2, <2>1, CountedWrite, ZenonT(30) DEF WriteItem, IInv
  <2>5. pos' = [pos EXCEPT ![r] = currentSeq] /\ wrote' = [wrote EXCEPT ![t] = @ \cup {r}]
    BY <2>1, ZenonT(30) DEF Write
  <2>6. pos'[r] = currentSeq /\ \A q \in Records : q # r => pos'[q] = pos[q]
    BY <2>2, <2>5, <1>T, ZenonT(30)
  <2>7. At(Counted \cup confirmed, currentSeq)' = At(Counted \cup confirmed, currentSeq) \cup {r}
    BY <2>2, <2>3, <2>4, <2>6, <1>T, ZenonT(30) DEF At
  <2>8. currentLen' = Cardinality(At(Counted \cup confirmed, currentSeq)')
    <3>1. /\ At(Counted \cup confirmed, currentSeq) \in SUBSET Records
          /\ r \notin At(Counted \cup confirmed, currentSeq)
      BY <2>2, <1>T, ZenonT(30) DEF At
    <3>2. currentLen = Cardinality(At(Counted \cup confirmed, currentSeq))
      BY <2>2, ZenonT(30) DEF CurrentInv
    <3> QED  BY <2>3, <2>7, <3>1, <3>2, CardPlusOne, ZenonT(30)
  <2>9. \A q \in confirmed : pos'[q] = pos[q]
    BY <2>2, <2>6, <1>T, ZenonT(30)
  <2>10. \A u \in Appenders : \A q \in wrote'[u] : pos'[q] = currentSeq
    BY <2>5, <2>6, <1>T, <1>M, ZenonT(30)
  <2> QED  BY <2>2, <2>3, <2>8, <2>9, <2>10, ZenonT(30) DEF CurrentInv
<1>3. ASSUME NEW t \in Appenders, Rotate(t) PROVE FALSE
  <2>1. PICK r \in batch[t] : TRUE
    BY <1>3, ZenonT(30) DEF Rotate
  <2>2. currentLen < MaxSegment
    BY <2>1, NoRotation, ZenonT(30)
  <2> QED  BY <1>3, <2>2 DEF Rotate, IInv, TypeOK, InnerType
<1>4. ASSUME NEW t \in Appenders, FinishWrite(t) PROVE CurrentInv'
  <2>1. Counted' = Counted
    BY <1>4, CountedSame, ZenonT(30) DEF IInv
  <2>2. /\ UNCHANGED <<confirmed, pos, currentSeq, currentLen, files, up, tracked, sealed, victims,
                       sealedFds, wrote>>
        /\ pc' = [pc EXCEPT ![t] = "sealed"] /\ fd' = [fd EXCEPT ![t] = currentSeq]
    BY <1>4, ZenonT(30) DEF FinishWrite
  <2>3. \A u \in Appenders : Mine(u)'
    BY <2>2, <1>M, <1>T, ZenonT(30)
  <2> QED  BY <2>1, <2>2, <2>3, <1>K, ZenonT(30) DEF CurrentInv
<1>5. ASSUME NEW t \in Appenders, SyncSealed(t) \/ CheckSynced(t) \/ TakeGate(t) \/ Snapshot(t) \/ Fsync(t)
      PROVE  CurrentInv'
  <2>1. Counted' = Counted
    BY <1>5, CountedSame, ZenonT(30) DEF IInv
  <2>2. UNCHANGED <<confirmed, pos, currentSeq, currentLen, up, tracked, sealed, fd>>
    BY <1>5, ZenonT(30) DEF SyncSealed, CheckSynced, TakeGate, Snapshot, Fsync
  <2>3. /\ files' = files \/ files' = files \ victims[t]
        /\ sealedFds' = sealedFds \/ sealedFds' = [sealedFds EXCEPT ![t] = {}]
        /\ victims' = victims \/ victims' = [victims EXCEPT ![t] = {}]
        /\ wrote' = wrote \/ wrote' = [wrote EXCEPT ![t] = {}]
    BY <1>5, ZenonT(30) DEF SyncSealed, CheckSynced, TakeGate, Snapshot, Fsync, Acknowledge
  <2>4. /\ pc[t] \in Post
        /\ \E p \in Post \cup {"idle"} : pc' = [pc EXCEPT ![t] = p]
    BY <1>5, ZenonT(30) DEF SyncSealed, CheckSynced, TakeGate, Snapshot, Fsync, Acknowledge, Post
  <2>5. \A u \in Appenders : Mine(u)'
    BY <2>2, <2>3, <2>4, <1>M, <1>T, ZenonT(30)
  <2>6. currentSeq \in files'
    BY <2>3, <1>M, ZenonT(30) DEF CurrentInv
  <2> QED  BY <2>1, <2>2, <2>5, <2>6, <1>K, ZenonT(30) DEF CurrentInv
<1>6. ASSUME NEW S \in SUBSET pending, Confirm(S) PROVE CurrentInv'
  <2>1. Counted' = Counted \ S
    BY <1>6, CountedConfirm, ZenonT(30) DEF IInv
  <2>2. up /\ S \subseteq Counted
    BY <1>6, ZenonT(30) DEF Confirm, Counted, IInv, TypeOK, ClientType
  <2>3. /\ UNCHANGED <<pos, currentSeq, currentLen, up, files, sealed, victims, sealedFds, fd, wrote, pc>>
        /\ confirmed' = confirmed \cup S
        /\ \A s \in tracked : s \notin sealed => s \in tracked'
    BY <1>6, ZenonT(30) DEF Confirm, CollectConfirmed
  <2>4. Counted' \cup confirmed' = Counted \cup confirmed
    BY <2>1, <2>2, <2>3, ZenonT(30)
  <2>5. \A r \in S : pos[r] <= currentSeq
    BY <2>2, ZenonT(30) DEF IInv, CountInv, FileInv
  <2>6. \A u \in Appenders : Mine(u)'
    BY <2>3, <1>M, ZenonT(30)
  <2> QED  BY <2>2, <2>3, <2>4, <2>5, <2>6, <1>K, ZenonT(30) DEF CurrentInv
<1>7. CASE UnlinkConfirmed
  <2>1. /\ UNCHANGED <<confirmed, pos, currentSeq, currentLen, up, tracked, sealed, victims, sealedFds, fd,
                       wrote, pc, pending, failed>>
        /\ files' = files \ confirmVictims /\ confirmVictims # {}
    BY <1>7, ZenonT(30) DEF UnlinkConfirmed
  <2>2. currentSeq \in files'
    BY <2>1, ZenonT(30) DEF CurrentInv, IInv, DownInv, FileInv
  <2>3. \A u \in Appenders : Mine(u)'
    BY <2>1, <1>M, ZenonT(30)
  <2>4. Counted' = Counted
    BY <2>1, ZenonT(30) DEF Counted
  <2> QED  BY <2>1, <2>2, <2>3, <2>4, <1>K, ZenonT(30) DEF CurrentInv
<1>8. CASE Crash
  BY <1>8, ZenonT(30) DEF Crash, CurrentInv, Post
<1>9. CASE Open
  <2>1. PICK new \in Segments :
           /\ \A s \in files : s < new
           /\ currentSeq' = new /\ currentLen' = 0 /\ tracked' = files \cup {new} /\ sealed' = files
           /\ files' = files \cup {new}
    BY <1>9, ZenonT(30) DEF Open
  <2>2. UNCHANGED <<confirmed, pos, victims, sealedFds, fd, wrote, pc, disk>> /\ Counted' = disk
    BY <1>9, CountedOpen, ZenonT(30) DEF Open, IInv
  <2>3. \A t \in Appenders : pc[t] = "idle" /\ wrote[t] = {}
    BY <1>9, ZenonT(30) DEF Open, IInv, DownInv
  <2>A. files \subseteq Segments /\ currentSeq \in files /\ new \in Segments /\ \A s \in files : s < new
    BY <2>1, ZenonT(30) DEF CurrentInv, IInv, TypeOK, DiskType
  <2>B. \A r \in confirmed : pos[r] \in Segments /\ pos[r] <= currentSeq
    BY ZenonT(30) DEF CurrentInv, IInv, TypeOK, DiskType, ClientType
  <2>4. /\ \A s \in files : s \in Int /\ s # new
        /\ currentSeq \in files /\ currentSeq < new
    BY <2>A, SMTT(30)
  <2>5. \A r \in confirmed : pos[r] <= new /\ pos[r] # new
    BY <2>A, <2>B, SMTT(30)
  <2>6. \A r \in disk : pos[r] # new
    BY <2>4, ZenonT(30) DEF IInv, FileInv
  <2>7. At(Counted \cup confirmed, currentSeq)' = {}
    BY <2>1, <2>2, <2>5, <2>6, ZenonT(30) DEF At
  <2>8. currentLen' = Cardinality(At(Counted \cup confirmed, currentSeq)')
    BY <2>1, <2>7, FS_EmptySet, ZenonT(30)
  <2>9. \A t \in Appenders : Mine(t)'
    BY <2>2, <2>3, <1>M, ZenonT(30) DEF Post
  <2> QED  BY <2>1, <2>2, <2>4, <2>5, <2>8, <2>9, ZenonT(30) DEF CurrentInv
<1>10. CASE UNCHANGED vars
  <2>1. Counted' = Counted
    BY <1>10, ZenonT(30) DEF vars, Counted
  <2> QED  BY <1>10, <2>1, <1>K, <1>M, ZenonT(30) DEF vars, CurrentInv
<1>11. \A t \in Appenders : ~ AppendError(t)
  BY NoErrors, ZenonT(30) DEF IInv
<1> QED
  BY <1>1, <1>2, <1>3, <1>4, <1>5, <1>6, <1>7, <1>8, <1>9, <1>10, <1>11, ZenonT(30)
  DEF Next, AppendStep, Quiescent

----------------------------------------------------------------------------
(* Group commit *)

\* A running call's records are readable while nothing is damaged.
LEMMA CallReadable ==
    ASSUME IInv, torn = {}, NEW t \in Appenders
    PROVE  wrote[t] \subseteq disk
BY ZenonT(30) DEF IInv, TypeOK, CallType, CountInv, DownInv, Counted

\* An fsync covers the records of every call between lock and return.
LEMMA FsyncCovers ==
    ASSUME OneSegment => CurrentInv, OneSegment \/ Alone, IInv, SpreadInv, torn = {},
           NEW t \in Appenders, Fsync(t), NEW u \in Appenders, pc[u] \in Post
    PROVE  wrote[u] \subseteq durable'
<1> SUFFICES ASSUME NEW q \in wrote[u] PROVE q \in durable'
  OBVIOUS
<1>1. q \in disk /\ q \notin buffered
  BY CallReadable, ZenonT(30) DEF SpreadInv, Spread
<1>2. durable' = durable \cup Flushed(fd[t]) /\ pc[t] = "fsync"
  BY ZenonT(30) DEF Fsync
<1>3. pos[q] = fd[t] \/ q \in durable
  <2>1. CASE OneSegment
    BY <2>1, <1>2, ZenonT(30) DEF CurrentInv, Post
  <2>2. CASE Alone
    <3>1. u = t
      BY <2>2, ZenonT(30) DEF Alone
    <3> QED  BY <1>1, <1>2, <3>1, ZenonT(30) DEF SpreadInv, Spread, Post
  <2> QED  BY <2>1, <2>2, ZenonT(30)
<1> QED  BY <1>1, <1>2, <1>3, ZenonT(30) DEF Flushed, At

\* The condition for finding one's records synced is met only when they are.
LEMMA GroupStep ==
    ASSUME MaxErrors = 0, OneSegment => CurrentInv, OneSegment \/ Alone,
           IInv, CallInv, SpreadInv, GroupInv, [Next]_vars
    PROVE  GroupInv'
<1> USE DEF innerVars, diskVars, callVars, clientVars
<1> DEFINE Mine(t) == /\ pc[t] = "fsync" => covered[t] <= written
                      /\ pc[t] \in Post => /\ myGen[t] <= written
                                           /\ synced >= myGen[t] => wrote[t] \subseteq durable
<1>T. /\ DOMAIN pc = Appenders /\ DOMAIN myGen = Appenders /\ DOMAIN covered = Appenders
      /\ DOMAIN wrote = Appenders /\ written \in Nat /\ synced \in Nat
      /\ \A t \in Appenders : myGen[t] \in Nat /\ covered[t] \in Nat /\ wrote[t] \in SUBSET Records
  BY ZenonT(30) DEF IInv, TypeOK, CallType, InnerType
<1>M. torn = {} /\ synced <= written /\ \A t \in Appenders : Mine(t)
  BY ZenonT(30) DEF GroupInv
<1>G. ASSUME torn' = {}, synced' <= written', \A t \in Appenders : Mine(t)' PROVE GroupInv'
  BY <1>G, ZenonT(30) DEF GroupInv
\* A call the step leaves alone, when `synced` stays.
<1>K. ASSUME NEW u \in Appenders, pc'[u] = pc[u], wrote'[u] = wrote[u], myGen'[u] = myGen[u],
             covered'[u] = covered[u], durable \subseteq durable', synced' = synced, written' = written
      PROVE  Mine(u)'
  BY <1>K, <1>M, ZenonT(30)
<1>1. ASSUME NEW t \in Appenders, StartAppend(t) PROVE GroupInv'
  <2>1. /\ UNCHANGED <<torn, synced, written, wrote, myGen, covered, durable>>
        /\ pc' = [pc EXCEPT ![t] = "write"]
    BY <1>1, ZenonT(30) DEF StartAppend
  <2>2. ASSUME NEW u \in Appenders PROVE Mine(u)'
    BY <2>1, <1>K, <1>T, ZenonT(30) DEF Post
  <2> QED  BY <2>1, <2>2, <1>G, <1>M, ZenonT(30)
<1>2. ASSUME NEW t \in Appenders, WriteItem(t) PROVE GroupInv'
  <2>1. /\ UNCHANGED <<torn, synced, written, myGen, covered, durable, pc>> /\ pc[t] = "write"
        /\ \E r \in batch[t] : wrote' = [wrote EXCEPT ![t] = @ \cup {r}]
    BY <1>2, ZenonT(30) DEF WriteItem, Write
  <2>2. ASSUME NEW u \in Appenders PROVE Mine(u)'
    <3>1. CASE u = t
      BY <2>1, <3>1, ZenonT(30) DEF Post
    <3>2. CASE u # t
      <4>1. wrote'[u] = wrote[u]
        BY <2>1, <3>2, <1>T, ZenonT(30)
      <4> QED  BY <2>1, <4>1, <1>K, ZenonT(30)
    <3> QED  BY <3>1, <3>2, ZenonT(30)
  <2> QED  BY <2>1, <2>2, <1>G, <1>M, ZenonT(30)
<1>3. ASSUME NEW t \in Appenders, Rotate(t) PROVE GroupInv'
  <2>1. UNCHANGED <<torn, synced, written, wrote, myGen, covered, durable, pc>>
    BY <1>3, ZenonT(30) DEF Rotate
  <2> QED  BY <2>1, <1>G, <1>M, ZenonT(30)
<1>4. ASSUME NEW t \in Appenders, FinishWrite(t) PROVE GroupInv'
  <2>1. /\ UNCHANGED <<torn, synced, wrote, covered, durable>> /\ pc' = [pc EXCEPT ![t] = "sealed"]
        /\ written' = written + Cardinality(wrote[t])
        /\ myGen' = [myGen EXCEPT ![t] = written']
    BY <1>4, ZenonT(30) DEF FinishWrite
  <2>2. wrote[t] # {}
    BY <1>4, ZenonT(30) DEF FinishWrite, CallInv
  <2>3. Cardinality(wrote[t]) \in Nat /\ Cardinality(wrote[t]) # 0
    BY <2>2, <1>T, FiniteRecords, CardZero, ZenonT(30)
  <2>4. written' > written /\ written' \in Nat
    BY <2>1, <2>3, <1>T
  <2>5. ASSUME NEW u \in Appenders PROVE Mine(u)'
    <3>1. CASE u = t
      <4>1. pc'[u] = "sealed" /\ myGen'[u] = written'
        BY <2>1, <3>1, <1>T, ZenonT(30)
      <4> QED  BY <2>1, <2>4, <4>1, <1>M, <1>T
    <3>2. CASE u # t
      <4>1. pc'[u] = pc[u] /\ myGen'[u] = myGen[u]
        BY <2>1, <3>2, <1>T, ZenonT(30)
      <4> QED  BY <2>1, <2>4, <4>1, <1>M, <1>T
    <3> QED  BY <3>1, <3>2, ZenonT(30)
  <2> QED  BY <2>1, <2>4, <2>5, <1>G, <1>M, <1>T
<1>5. ASSUME NEW t \in Appenders, SyncSealed(t) \/ CheckSynced(t) \/ TakeGate(t) PROVE GroupInv'
  <2>1. /\ UNCHANGED <<torn, synced, written, myGen, covered>> /\ durable \subseteq durable'
        /\ pc[t] \in Post
    BY <1>5, ZenonT(30) DEF SyncSealed, CheckSynced, TakeGate, Post
  <2>2. \/ \E p \in {"check", "gate", "snapshot"} : pc' = [pc EXCEPT ![t] = p] /\ wrote' = wrote
        \/ pc' = [pc EXCEPT ![t] = "idle"] /\ wrote' = [wrote EXCEPT ![t] = {}]
    BY <1>5, ZenonT(30) DEF SyncSealed, CheckSynced, TakeGate, Acknowledge
  <2>3. ASSUME NEW u \in Appenders PROVE Mine(u)'
    <3>1. CASE u = t
      <4>1. pc'[u] \in {"check", "gate", "snapshot", "idle"}
        BY <2>2, <3>1, <1>T, ZenonT(30)
      <4>2. pc'[u] \in Post => wrote'[u] = wrote[u]
        BY <2>2, <3>1, <1>T, ZenonT(30) DEF Post
      <4> QED  BY <2>1, <3>1, <4>1, <4>2, <1>M, ZenonT(30)
    <3>2. CASE u # t
      <4>1. pc'[u] = pc[u] /\ wrote'[u] = wrote[u]
        BY <2>2, <3>2, <1>T, ZenonT(30)
      <4> QED  BY <2>1, <4>1, <1>K, ZenonT(30)
    <3> QED  BY <3>1, <3>2, ZenonT(30)
  <2> QED  BY <2>1, <2>3, <1>G, <1>M, ZenonT(30)
<1>6. ASSUME NEW t \in Appenders, Snapshot(t) PROVE GroupInv'
  <2>1. /\ UNCHANGED <<torn, synced, written, myGen, wrote, durable>> /\ pc[t] = "snapshot"
        /\ covered' = [covered EXCEPT ![t] = written] /\ pc' = [pc EXCEPT ![t] = "fsync"]
    BY <1>6, ZenonT(30) DEF Snapshot
  <2>2. ASSUME NEW u \in Appenders PROVE Mine(u)'
    BY <2>1, <1>M, <1>T DEF Post
  <2> QED  BY <2>1, <2>2, <1>G, <1>M, ZenonT(30)
<1>7. ASSUME NEW t \in Appenders, Fsync(t) PROVE GroupInv'
  <2>1. /\ UNCHANGED <<torn, written, myGen, covered>> /\ pc[t] = "fsync"
        /\ synced' = (IF covered[t] > synced THEN covered[t] ELSE synced)
        /\ pc' = [pc EXCEPT ![t] = "idle"] /\ wrote' = [wrote EXCEPT ![t] = {}]
    BY <1>7, ZenonT(30) DEF Fsync, Acknowledge
  <2>2. synced' <= written'
    BY <2>1, <1>M, <1>T, ZenonT(30)
  <2>3. ASSUME NEW u \in Appenders PROVE Mine(u)'
    <3>1. CASE u = t
      BY <2>1, <3>1, <1>T, ZenonT(30) DEF Post
    <3>2. CASE u # t
      <4>1. pc'[u] = pc[u] /\ wrote'[u] = wrote[u]
        BY <2>1, <3>2, <1>T, ZenonT(30)
      <4>2. pc[u] \in Post => wrote[u] \subseteq durable'
        BY <1>7, <1>M, FsyncCovers, ZenonT(30)
      <4> QED  BY <2>1, <4>1, <4>2, <1>M, ZenonT(30)
    <3> QED  BY <3>1, <3>2, ZenonT(30)
  <2> QED  BY <2>1, <2>2, <2>3, <1>G, <1>M, ZenonT(30)
<1>8. CASE (\E S \in SUBSET pending : Confirm(S)) \/ UnlinkConfirmed \/ UNCHANGED vars
  <2>1. UNCHANGED <<torn, synced, written, wrote, myGen, covered, durable, pc>>
    BY <1>8, ZenonT(30) DEF Confirm, UnlinkConfirmed, vars
  <2> QED  BY <2>1, <1>G, <1>M, ZenonT(30)
<1>9. CASE Crash
  <2>1. UNCHANGED <<synced, written>> /\ torn' = {} /\ \A t \in Appenders : pc'[t] = "idle"
    BY <1>9, ZenonT(30) DEF Crash
  <2> QED  BY <2>1, <1>M, ZenonT(30) DEF GroupInv, Post
<1>10. CASE Open
  <2>1. synced' = 0 /\ written' = 0 /\ torn' = torn /\ \A t \in Appenders : pc'[t] = "idle"
    BY <1>10, ZenonT(30) DEF Open, IInv, DownInv
  <2> QED  BY <2>1, <1>M DEF GroupInv, Post
<1>11. \A t \in Appenders : ~ AppendError(t)
  BY NoErrors, ZenonT(30) DEF IInv
<1> QED
  BY <1>1, <1>2, <1>3, <1>4, <1>5, <1>6, <1>7, <1>8, <1>9, <1>10, <1>11, ZenonT(30)
  DEF Next, AppendStep, Quiescent

----------------------------------------------------------------------------
(* Acknowledged records *)

\* An append returns Ok: it has found its records synced, or fsynced them.
LEMMA Returned ==
    ASSUME IInv, SpreadInv, GroupInv, NEW t \in Appenders,
           CheckSynced(t) \/ TakeGate(t) \/ Fsync(t), Acknowledge(t)
    PROVE  wrote[t] \subseteq disk /\ wrote[t] \subseteq durable'
<1> USE DEF innerVars, diskVars, callVars, clientVars
<1>1. wrote[t] \subseteq disk
  BY CallReadable, ZenonT(30) DEF GroupInv
<1>2. CASE CheckSynced(t) \/ TakeGate(t)
  <2>1. synced >= myGen[t] /\ durable' = durable /\ pc[t] \in {"check", "gate"}
    <3>1. pc' = [pc EXCEPT ![t] = "idle"] /\ pc'[t] = "idle"
      BY ZenonT(30) DEF Acknowledge, IInv, TypeOK, CallType
    <3> QED  BY <1>2, <3>1, ZenonT(30) DEF CheckSynced, TakeGate, IInv, TypeOK, CallType
  <2> QED  BY <1>1, <2>1, ZenonT(30) DEF GroupInv, Post
<1>3. CASE Fsync(t)
  <2>1. durable' = durable \cup Flushed(fd[t]) /\ pc[t] = "fsync"
    BY <1>3, ZenonT(30) DEF Fsync
  <2>2. \A r \in wrote[t] : r \notin buffered /\ (pos[r] = fd[t] \/ r \in durable)
    BY <1>1, <2>1, ZenonT(30) DEF SpreadInv, Spread, Post
  <2> QED  BY <1>1, <2>1, <2>2, ZenonT(30) DEF Flushed, At
<1> QED  BY <1>2, <1>3, ZenonT(30)

\* Unlinks take no record that is counted.
LEMMA UnlinkSpares ==
    ASSUME IInv, up, NEW r \in Counted
    PROVE  pos[r] \notin confirmVictims /\ \A t \in Appenders : pos[r] \notin victims[t]
BY ZenonT(30) DEF IInv, CountInv, FileInv

\* No step loses an acknowledged record.
LEMMA AckStep ==
    ASSUME MaxErrors = 0, IInv, SpreadInv, GroupInv, AckInv, [Next]_vars
    PROVE  AckInv'
<1> USE DEF innerVars, diskVars, callVars, clientVars
\* Enough for the steps that neither acknowledge nor confirm.
<1>K. ASSUME UNCHANGED <<acked, confirmed, pending, up>>, durable \subseteq durable',
             \A r \in pending : r \in disk => r \in disk', up \/ disk' = disk
      PROVE  AckInv'
  BY <1>K, ZenonT(30) DEF AckInv
<1>P. pending \subseteq Counted
  BY ZenonT(30) DEF Counted, IInv, TypeOK, ClientType
<1>1. ASSUME NEW t \in Appenders, StartAppend(t) \/ Rotate(t) \/ FinishWrite(t) \/ Snapshot(t)
      PROVE  AckInv'
  <2>1. UNCHANGED <<acked, confirmed, pending, up, durable, disk>>
    BY <1>1, ZenonT(30) DEF StartAppend, Rotate, FinishWrite, Snapshot
  <2> QED  BY <2>1, <1>K, ZenonT(30)
<1>2. ASSUME NEW t \in Appenders, WriteItem(t) PROVE AckInv'
  <2>1. UNCHANGED <<acked, confirmed, pending, up, durable>> /\ disk \subseteq disk'
    BY <1>2, ZenonT(30) DEF WriteItem, Write
  <2>2. up
    BY <1>2, ZenonT(30) DEF WriteItem, IInv, DownInv
  <2> QED  BY <2>1, <2>2, <1>K, ZenonT(30)
<1>3. ASSUME NEW t \in Appenders, SyncSealed(t) PROVE AckInv'
  <2>1. /\ UNCHANGED <<acked, confirmed, pending, up>> /\ durable \subseteq durable'
        /\ disk' = {r \in disk : pos[r] \notin victims[t]}
    BY <1>3, ZenonT(30) DEF SyncSealed
  <2>2. up
    BY <1>3, ZenonT(30) DEF SyncSealed, IInv, DownInv
  <2>3. \A r \in pending : pos[r] \notin victims[t]
    BY <2>2, <1>P, UnlinkSpares, ZenonT(30)
  <2> QED  BY <2>1, <2>2, <2>3, <1>K, ZenonT(30)
<1>4. ASSUME NEW t \in Appenders, CheckSynced(t) \/ TakeGate(t) \/ Fsync(t) PROVE AckInv'
  <2>1. UNCHANGED <<confirmed, up, disk>> /\ durable \subseteq durable'
    BY <1>4, ZenonT(30) DEF CheckSynced, TakeGate, Fsync
  <2>2. up
    BY <1>4, ZenonT(30) DEF CheckSynced, TakeGate, Fsync, IInv, DownInv
  <2>3. CASE Acknowledge(t)
    <3>1. wrote[t] \subseteq disk /\ wrote[t] \subseteq durable'
      BY <1>4, <2>3, Returned, ZenonT(30)
    <3> QED  BY <2>1, <2>3, <3>1, ZenonT(30) DEF Acknowledge, AckInv
  <2>4. CASE acked' = acked /\ pending' = pending
    BY <2>1, <2>2, <2>4, <1>K, ZenonT(30)
  <2> QED  BY <1>4, <2>3, <2>4, ZenonT(30) DEF CheckSynced, TakeGate, Fsync
<1>5. ASSUME NEW S \in SUBSET pending, Confirm(S) PROVE AckInv'
  BY <1>5, ZenonT(30) DEF Confirm, AckInv
<1>6. CASE UnlinkConfirmed
  <2>1. /\ UNCHANGED <<acked, confirmed, pending, up, durable>> /\ confirmVictims # {}
        /\ disk' = {r \in disk : pos[r] \notin confirmVictims}
    BY <1>6, ZenonT(30) DEF UnlinkConfirmed
  <2>2. up
    BY <2>1, ZenonT(30) DEF IInv, DownInv
  <2>3. \A r \in pending : pos[r] \notin confirmVictims
    BY <2>2, <1>P, UnlinkSpares, ZenonT(30)
  <2> QED  BY <2>1, <2>2, <2>3, <1>K, ZenonT(30)
<1>7. CASE Crash
  BY <1>7, ZenonT(30) DEF Crash, AckInv
<1>8. CASE Open
  BY <1>8, ZenonT(30) DEF Open, AckInv
<1>9. CASE UNCHANGED vars
  BY <1>9, ZenonT(30) DEF vars, AckInv
<1>10. \A t \in Appenders : ~ AppendError(t)
  BY NoErrors, ZenonT(30) DEF IInv
<1> QED
  BY <1>1, <1>2, <1>3, <1>4, <1>5, <1>6, <1>7, <1>8, <1>9, <1>10, ZenonT(30)
  DEF Next, AppendStep, Quiescent

----------------------------------------------------------------------------
(* The theorems *)

\* What holds of every call, whatever fails and rotates.
CallsInv == IInv /\ CallInv /\ SpreadInv /\ DiskInv

\* No call runs at first.
LEMMA InitCalls == Init => CallsInv
<1> SUFFICES ASSUME Init PROVE CallsInv
  OBVIOUS
<1>1. CallInv /\ SpreadInv /\ DiskInv
  BY ZenonT(30) DEF Init, CallInv, SpreadInv, DiskInv
<1> QED  BY <1>1, InitInv, ZenonT(30) DEF CallsInv

\* The invariant of the calls holds in every reachable state.
THEOREM CallsInvariant == Spec => []CallsInv
<1>1. CallsInv /\ [Next]_vars => CallsInv'
  BY TypeStep, BatchStep, OwnerStep, FileStep, CountStep, DownStep, CallStep, SpreadStep, DiskStep,
     ZenonT(30) DEF CallsInv, IInv
<1> QED  BY <1>1, InitCalls, PTL DEF Spec

\* For all constants: an append that ran its own fsync returns with all its
\* readable records durable, over however many segments it was spread, and
\* whatever other calls rotate, fail, confirm and unlink meanwhile.
THEOREM OwnSyncIsDurable == Spec => OwnSyncDurable
<1> DEFINE Kept == \A t \in Appenders :
             pc[t] = "fsync" /\ wrote[t] \subseteq acked' => wrote[t] \cap disk' \subseteq durable'
<1>1. CallsInv /\ [Next]_vars => [Kept]_vars
  BY OwnSyncStep, ZenonT(30) DEF CallsInv
<1> QED  BY <1>1, CallsInvariant, PTL DEF Spec, OwnSyncDurable

\* What holds besides while no write fails and one fsync is as good as another.
GroupCommit == (OneSegment => CurrentInv) /\ GroupInv /\ AckInv

\* The log starts empty.
LEMMA InitGroup == Init => GroupCommit
<1> SUFFICES ASSUME Init PROVE GroupCommit
  OBVIOUS
<1>1. At(Counted \cup confirmed, currentSeq) = {}
  BY ZenonT(30) DEF Init, Counted, At
<1>2. CurrentInv
  BY <1>1, FS_EmptySet, ZenonT(30) DEF Init, CurrentInv, Post
<1>3. GroupInv /\ AckInv
  BY DEF Init, GroupInv, AckInv, Post
<1> QED  BY <1>2, <1>3, ZenonT(30) DEF GroupCommit

\* Both invariants together hold in every reachable state.
THEOREM GroupCommitInvariant ==
    ASSUME MaxErrors = 0, OneSegment \/ Alone
    PROVE  Spec => [](CallsInv /\ GroupCommit)
<1>1. CallsInv /\ GroupCommit /\ [Next]_vars => GroupCommit'
  <2>1. CallsInv /\ GroupCommit /\ [Next]_vars => (OneSegment => CurrentInv')
    BY CurrentStep, ZenonT(30) DEF CallsInv, GroupCommit
  <2>2. CallsInv /\ GroupCommit /\ [Next]_vars => GroupInv'
    BY GroupStep, ZenonT(30) DEF CallsInv, GroupCommit
  <2>3. CallsInv /\ GroupCommit /\ [Next]_vars => AckInv'
    BY AckStep, ZenonT(30) DEF CallsInv, GroupCommit
  <2> QED  BY <2>1, <2>2, <2>3, ZenonT(30) DEF GroupCommit, OneSegment
<1> QED  BY <1>1, InitGroup, CallsInvariant, PTL DEF Spec

\* Documents are fsynced before the bulk request is acknowledged: while no
\* write fails, and all records fit into one segment or one thread appends,
\* an acknowledged record is durable and readable until it is confirmed.
THEOREM AckedIsDurable ==
    ASSUME MaxErrors = 0, OneSegment \/ Alone
    PROVE  Spec => []AckedDurable
<1>1. CallsInv /\ GroupCommit => AckedDurable
  BY ZenonT(30) DEF GroupCommit, AckInv, AckedDurable
<1> QED  BY <1>1, GroupCommitInvariant, PTL

\* Every step of the log is a step of DurableLog or leaves it alone.
LEMMA RefinementStep ==
    ASSUME MaxErrors = 0, CallsInv, GroupCommit, [Next]_vars
    PROVE  [Log!Next]_(Log!vars)
<1> USE DEF innerVars, diskVars, callVars, clientVars, Log!vars
<1>T. /\ IInv /\ SpreadInv /\ GroupInv /\ AckInv /\ DiskInv
      /\ disk \subseteq Records /\ pending \subseteq Records /\ \A t \in Appenders : wrote[t] \subseteq Records
  BY ZenonT(30) DEF CallsInv, GroupCommit, IInv, TypeOK, DiskType, ClientType, CallType
\* Unlinked segments hold confirmed records only.
<1>R. ASSUME NEW V, up, UNCHANGED <<pending, acked, confirmed, up>>, disk' = {r \in disk : pos[r] \notin V},
             \A r \in Counted : pos[r] \notin V
      PROVE  Log!Next
  <2> DEFINE R == {r \in disk : pos[r] \in V}
  <2>1. R \in SUBSET Records /\ disk' = disk \ R
    BY <1>R, <1>T, ZenonT(30)
  <2>2. R \subseteq confirmed \ pending
    BY <1>R, <1>T, ZenonT(30) DEF DiskInv, Counted
  <2> QED  BY <1>R, <2>1, <2>2, ZenonT(30) DEF Log!Next, Log!Reclaim
<1>1. ASSUME NEW t \in Appenders, StartAppend(t) \/ Rotate(t) \/ FinishWrite(t) \/ Snapshot(t)
      PROVE  UNCHANGED Log!vars
  BY <1>1, ZenonT(30) DEF StartAppend, Rotate, FinishWrite, Snapshot
<1>2. ASSUME NEW t \in Appenders, WriteItem(t) PROVE Log!Next
  <2>1. PICK r \in batch[t] : Write(t, r, currentSeq)
    BY <1>2, ZenonT(30) DEF WriteItem
  <2>2. UNCHANGED <<acked, confirmed, pending, up>> /\ up /\ disk' = disk \cup {r} /\ r \in Records
    BY <1>2, <2>1, <1>T, ZenonT(30) DEF WriteItem, Write, GroupInv, IInv, DownInv, TypeOK, CallType
  <2>3. Log!Append({r}) /\ {r} \in SUBSET Records
    BY <2>2, ZenonT(30) DEF Log!Append
  <2> QED  BY <2>3, ZenonT(30) DEF Log!Next
<1>3. ASSUME NEW t \in Appenders, SyncSealed(t) PROVE Log!Next
  <2>1. up
    BY <1>3, <1>T, ZenonT(30) DEF SyncSealed, IInv, DownInv
  <2>2. \A r \in Counted : pos[r] \notin victims[t]
    BY <2>1, <1>T, UnlinkSpares, ZenonT(30)
  <2>3. UNCHANGED <<acked, confirmed, pending, up>> /\ disk' = {r \in disk : pos[r] \notin victims[t]}
    BY <1>3, ZenonT(30) DEF SyncSealed
  <2> QED  BY <2>1, <2>2, <2>3, <1>R, ZenonT(30)
<1>4. ASSUME NEW t \in Appenders, CheckSynced(t) \/ TakeGate(t) \/ Fsync(t)
      PROVE  Log!Next \/ UNCHANGED Log!vars
  <2>1. UNCHANGED <<confirmed, up, disk>>
    BY <1>4, ZenonT(30) DEF CheckSynced, TakeGate, Fsync
  <2>2. up
    BY <1>4, <1>T, ZenonT(30) DEF CheckSynced, TakeGate, Fsync, IInv, DownInv
  <2>3. CASE Acknowledge(t)
    <3>1. wrote[t] \subseteq disk
      BY <1>4, <2>3, <1>T, Returned, ZenonT(30)
    <3>2. Log!Acknowledge(wrote[t])
      BY <2>1, <2>2, <2>3, <3>1, ZenonT(30) DEF Acknowledge, Log!Acknowledge
    <3> QED  BY <3>2, <1>T, ZenonT(30) DEF Log!Next
  <2>4. CASE acked' = acked /\ pending' = pending
    BY <2>1, <2>4, ZenonT(30)
  <2> QED  BY <1>4, <2>3, <2>4, ZenonT(30) DEF CheckSynced, TakeGate, Fsync
<1>5. ASSUME NEW S \in SUBSET pending, Confirm(S) PROVE Log!Next
  <2>1. Log!Confirm(S) /\ S \in SUBSET Records
    BY <1>5, <1>T, ZenonT(30) DEF Confirm, Log!Confirm
  <2> QED  BY <2>1, ZenonT(30) DEF Log!Next
<1>6. CASE UnlinkConfirmed
  <2>1. /\ UNCHANGED <<acked, confirmed, pending, up>> /\ confirmVictims # {}
        /\ disk' = {r \in disk : pos[r] \notin confirmVictims}
    BY <1>6, ZenonT(30) DEF UnlinkConfirmed
  <2>2. up
    BY <2>1, <1>T, ZenonT(30) DEF IInv, DownInv
  <2>3. \A r \in Counted : pos[r] \notin confirmVictims
    BY <2>2, <1>T, UnlinkSpares, ZenonT(30)
  <2> QED  BY <2>1, <2>2, <2>3, <1>R, ZenonT(30)
<1>7. CASE Crash
  <2>1. disk' \subseteq disk /\ (acked \ confirmed) \cap disk \subseteq disk'
    BY <1>7, <1>T, ZenonT(30) DEF Crash, AckInv
  <2>2. Log!Crash(disk')
    BY <1>7, <2>1, ZenonT(30) DEF Crash, Log!Crash
  <2> QED  BY <2>1, <2>2, <1>T, ZenonT(30) DEF Log!Next
<1>8. CASE Open
  BY <1>8, ZenonT(30) DEF Open, Log!Next, Log!Restart
<1>9. CASE UNCHANGED vars
  BY <1>9, ZenonT(30) DEF vars
<1>10. \A t \in Appenders : ~ AppendError(t)
  BY <1>T, NoErrors, ZenonT(30) DEF IInv
<1> QED
  BY <1>1, <1>2, <1>3, <1>4, <1>5, <1>6, <1>7, <1>8, <1>9, <1>10, ZenonT(30)
  DEF Next, AppendStep, Quiescent

\* Under the same conditions the segmented, group-committed log implements the
\* durable log its callers rely on.
THEOREM Implements ==
    ASSUME MaxErrors = 0, OneSegment \/ Alone
    PROVE  Spec => ImplementsDurableLog
<1>1. Init => Log!Init
  BY ZenonT(30) DEF Init, Log!Init
<1>2. CallsInv /\ GroupCommit /\ [Next]_vars => [Log!Next]_(Log!vars)
  BY RefinementStep, ZenonT(30)
<1> QED  BY <1>1, <1>2, GroupCommitInvariant, PTL DEF Spec, ImplementsDurableLog, Log!Spec
=============================================================================
