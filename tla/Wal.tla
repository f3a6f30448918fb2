-------------------------------- MODULE Wal --------------------------------
(***************************************************************************)
(* The ingest write-ahead log, crates/rsearch-ingest/src/wal.rs.           *)
(*                                                                         *)
(* Appenders are the blocking threads that run Wal::append_batch: they     *)
(* write a batch under the `inner` mutex, rotating segments as they fill,  *)
(* then make it durable under `sync_gate` (group commit), then return      *)
(* (the records are acknowledged).  The indexer confirms acknowledged or   *)
(* replayed records; a sealed segment whose records are all confirmed is   *)
(* dropped from the map under the mutex and unlinked after it.  A crash    *)
(* (power loss) keeps every fsynced byte and any part of the rest;         *)
(* Wal::open counts what is left and hands it out again.                   *)
(*                                                                         *)
(* A record is abstracted to its identity and has size 1.  The `inner`     *)
(* mutex is held exactly while some appender is at "write", the sync gate  *)
(* exactly while one is at "snapshot" or "fsync".                          *)
(***************************************************************************)
EXTENDS Integers, FiniteSets

CONSTANTS
    Appenders,      \* threads that call append_batch
    Records,        \* records a client may submit, each at most once
    MaxSegment,     \* max_segment_bytes, in records
    MaxBatch,       \* bound: records in one append_batch call
    MaxSeq,         \* bound: highest segment number
    MaxErrors,      \* bound: I/O errors met by append_batch
    MaxCrashes      \* bound: power losses

ASSUME RecordsFinite == IsFiniteSet(Records)
ASSUME BoundsAssumption ==
    /\ MaxSegment \in Nat \ {0}
    /\ MaxBatch \in Nat
    /\ MaxSeq \in Nat
    /\ MaxErrors \in Nat
    /\ MaxCrashes \in Nat

Segments == 0 .. MaxSeq

VARIABLES
    \* WalInner
    currentSeq,     \* segment being written
    currentLen,     \* its length
    buffered,       \* records still in the BufWriter
    tracked,        \* keys of the `segments` map
    sealed,         \* segments whose SegmentState is sealed
    outstanding,    \* SegmentState.outstanding
    written,        \* records flushed to the OS
    \* Wal
    synced,         \* records believed fsynced
    \* the disk
    files,          \* segment files that exist
    disk,           \* records a replay would read back
    durable,        \* records fsynced
    torn,           \* segments holding a half-written record
    pos,            \* segment each record was written to (WalPos)
    \* one append_batch call per appender
    pc,             \* where it is
    batch,          \* items not written yet
    wrote,          \* items written
    fd,             \* cloned file handle: its segment
    myGen,          \* my_gen
    covered,        \* snapshot of `written`
    sealedFds,      \* segments this batch rotated out
    victims,        \* segments this call must unlink
    confirmVictims, \* segments a confirm call must still unlink
    \* the callers
    up,             \* the process runs
    pending,        \* handed to the indexer, not confirmed
    failed,         \* append_batch returned Err for them in this run
    acked,          \* ever acknowledged to a client
    confirmed,      \* ever confirmed by the indexer
    errors,         \* I/O errors so far
    crashes         \* power losses so far

innerVars  == <<currentSeq, currentLen, buffered, tracked, sealed, outstanding, written>>
diskVars   == <<files, disk, durable, torn, pos>>
callVars   == <<pc, batch, wrote, fd, myGen, covered, sealedFds, victims>>
clientVars == <<up, pending, failed, acked, confirmed>>
boundVars  == <<errors, crashes>>
vars == <<innerVars, synced, diskVars, callVars, confirmVictims, clientVars, boundVars>>

----------------------------------------------------------------------------
At(S, s) == {r \in S : pos[r] = s}

\* Records counted by some SegmentState.outstanding.
Counted ==
    {r \in Records : r \in pending \/ r \in failed \/ \E t \in Appenders : r \in wrote[t]}

\* Records submitted in this or an earlier run of the process.
Submitted ==
    Counted \cup acked \cup confirmed \cup disk \cup UNION {batch[t] : t \in Appenders}

InnerFree == \A t \in Appenders : pc[t] # "write"
GateFree  == \A t \in Appenders : pc[t] \notin {"snapshot", "fsync"}

\* Forgetting the count; collecting nothing.
CollectSealed(trk, sld, out)  == {s \in trk : s \in sld}
CollectNothing(trk, sld, out) == {}

\* collect_confirmed: the sealed segments with nothing outstanding.
CollectConfirmed(trk, sld, out) == {s \in trk : s \in sld /\ out[s] = 0}

\* saturating_sub
Decrement(out, n) == IF out >= n THEN out - n ELSE 0

\* The flush left out.
FlushNothing == buffered' = buffered

\* writer.flush(): buffered bytes go to the OS.
FlushBuffer == buffered' = {}

Init ==
    /\ currentSeq = 0 /\ currentLen = 0 /\ buffered = {}
    /\ tracked = {0} /\ sealed = {}
    /\ outstanding = [s \in Segments |-> 0]
    /\ written = 0 /\ synced = 0
    /\ files = {0} /\ disk = {} /\ durable = {} /\ torn = {}
    /\ pos = [r \in Records |-> 0]
    /\ pc = [t \in Appenders |-> "idle"]
    /\ batch = [t \in Appenders |-> {}]
    /\ wrote = [t \in Appenders |-> {}]
    /\ fd = [t \in Appenders |-> 0]
    /\ myGen = [t \in Appenders |-> 0]
    /\ covered = [t \in Appenders |-> 0]
    /\ sealedFds = [t \in Appenders |-> {}]
    /\ victims = [t \in Appenders |-> {}]
    /\ confirmVictims = {}
    /\ up = TRUE /\ pending = {} /\ failed = {} /\ acked = {} /\ confirmed = {}
    /\ errors = 0 /\ crashes = 0

----------------------------------------------------------------------------
(* append_batch, first phase: under the writer lock *)

\* The call takes the writer lock with a batch of new records.
StartAppend(t) ==
    /\ up /\ pc[t] = "idle" /\ InnerFree
    /\ \E B \in SUBSET (Records \ Submitted) :
         /\ B # {} /\ Cardinality(B) <= MaxBatch
         /\ batch' = [batch EXCEPT ![t] = B]
    /\ pc' = [pc EXCEPT ![t] = "write"]
    /\ UNCHANGED <<innerVars, synced, diskVars, wrote, fd, myGen, covered, sealedFds,
                   victims, confirmVictims, clientVars, boundVars>>

\* Put record r at the end of segment s: replay reaches it unless a
\* half-written record lies before it.
Write(t, r, s) ==
    /\ pos' = [pos EXCEPT ![r] = s]
    /\ disk' = IF s \in torn THEN disk ELSE disk \cup {r}
    /\ batch' = [batch EXCEPT ![t] = @ \ {r}]
    /\ wrote' = [wrote EXCEPT ![t] = @ \cup {r}]

\* One item of the loop, in the current segment.  The code's branch for an
\* untracked current segment is unreachable: see CurrentTracked.
WriteItem(t) ==
    /\ pc[t] = "write"
    /\ currentLen < MaxSegment
    /\ \E r \in batch[t] : Write(t, r, currentSeq) /\ buffered' = buffered \cup {r}
    /\ outstanding' = [outstanding EXCEPT ![currentSeq] = @ + 1]
    /\ currentLen' = currentLen + 1
    /\ UNCHANGED <<currentSeq, tracked, sealed, written, synced, files, durable, torn,
                   pc, fd, myGen, covered, sealedFds, victims, confirmVictims,
                   clientVars, boundVars>>

\* rotate, before an item that finds the current segment full: flush and
\* seal it, open the next one, collect the confirmed segments.
Rotate(t) ==
    /\ pc[t] = "write" /\ batch[t] # {}
    /\ currentLen >= MaxSegment
    /\ currentSeq < MaxSeq
    /\ LET new  == currentSeq + 1
           gone == CollectConfirmed(tracked, sealed \cup {currentSeq}, outstanding)
       IN /\ sealed' = (sealed \cup {currentSeq}) \ {new}
          /\ tracked' = (tracked \ gone) \cup {new}
          /\ outstanding' = [outstanding EXCEPT ![new] = 0]
          /\ victims' = [victims EXCEPT ![t] = @ \cup gone]
          /\ sealedFds' = [sealedFds EXCEPT ![t] = @ \cup {currentSeq}]
          /\ files' = files \cup {new}
          /\ currentSeq' = new
    /\ currentLen' = 0
    /\ FlushBuffer
    /\ UNCHANGED <<written, synced, disk, durable, torn, pos, pc, batch, wrote, fd, myGen,
                   covered, confirmVictims, clientVars, boundVars>>

\* An early return with Err: the items already written stay counted and
\* nobody confirms them; collected segments are not unlinked.
Abandon(t) ==
    /\ errors < MaxErrors /\ errors' = errors + 1
    /\ pc' = [pc EXCEPT ![t] = "idle"]
    /\ batch' = [batch EXCEPT ![t] = {}]
    /\ wrote' = [wrote EXCEPT ![t] = {}]
    /\ sealedFds' = [sealedFds EXCEPT ![t] = {}]
    /\ victims' = [victims EXCEPT ![t] = {}]
    /\ failed' = failed \cup wrote[t]

\* Opening the next segment fails: the current one is already sealed.
RotateError(t) ==
    /\ pc[t] = "write" /\ batch[t] # {}
    /\ currentLen >= MaxSegment
    /\ Abandon(t)
    /\ sealed' = sealed \cup {currentSeq}
    /\ FlushBuffer
    /\ UNCHANGED <<currentSeq, currentLen, tracked, outstanding, written, synced, diskVars,
                   fd, myGen, covered, confirmVictims, up, pending, acked, confirmed, crashes>>

\* Writing an item or a flush fails (a full disk); an item may be left half
\* written in the current segment.
WriteError(t) ==
    /\ pc[t] = "write"
    /\ Abandon(t)
    /\ \/ torn' = torn
       \/ batch[t] # {} /\ currentLen < MaxSegment /\ torn' = torn \cup {currentSeq}
    /\ UNCHANGED <<innerVars, synced, files, disk, durable, pos,
                   fd, myGen, covered, confirmVictims, up, pending, acked, confirmed, crashes>>

\* Flush the buffer, clone the file handle, bump `written`, unlock.
FinishWrite(t) ==
    /\ pc[t] = "write" /\ batch[t] = {}
    /\ FlushBuffer
    /\ fd' = [fd EXCEPT ![t] = currentSeq]
    /\ written' = written + Cardinality(wrote[t])
    /\ myGen' = [myGen EXCEPT ![t] = written']
    /\ pc' = [pc EXCEPT ![t] = "sealed"]
    /\ UNCHANGED <<currentSeq, currentLen, tracked, sealed, outstanding, synced, diskVars,
                   batch, wrote, covered, sealedFds, victims, confirmVictims, clientVars, boundVars>>

----------------------------------------------------------------------------
(* append_batch, second phase: outside the writer lock *)

Flushed(s) == At(disk, s) \ buffered

Acknowledge(t) ==
    /\ acked' = acked \cup wrote[t]
    /\ pending' = pending \cup wrote[t]
    /\ wrote' = [wrote EXCEPT ![t] = {}]
    /\ pc' = [pc EXCEPT ![t] = "idle"]

\* Only the first one is fsynced.
FirstSealed(t) == {s \in sealedFds[t] : \A x \in sealedFds[t] : s <= x}

AllSealed(t) == sealedFds[t]

\* fsync the segments this batch rotated out, unlink the collected ones.
SyncSealed(t) ==
    /\ pc[t] = "sealed"
    /\ durable' = durable \cup UNION {Flushed(s) : s \in AllSealed(t)}
    /\ files' = files \ victims[t]
    /\ disk' = {r \in disk : pos[r] \notin victims[t]}
    /\ sealedFds' = [sealedFds EXCEPT ![t] = {}]
    /\ victims' = [victims EXCEPT ![t] = {}]
    /\ pc' = [pc EXCEPT ![t] = "check"]
    /\ UNCHANGED <<innerVars, synced, torn, pos, batch, wrote, fd, myGen, covered,
                   confirmVictims, clientVars, boundVars>>

\* synced.load(): somebody already fsynced past these records, or not.
CheckSynced(t) ==
    /\ pc[t] = "check"
    /\ \/ /\ synced >= myGen[t]
          /\ Acknowledge(t)
       \/ /\ synced < myGen[t]
          /\ pc' = [pc EXCEPT ![t] = "gate"]
          /\ UNCHANGED <<acked, pending, wrote>>
    /\ UNCHANGED <<innerVars, synced, diskVars, batch, fd, myGen, covered, sealedFds, victims,
                   confirmVictims, up, failed, confirmed, boundVars>>

\* Take sync_gate and load `synced` again.
TakeGate(t) ==
    /\ pc[t] = "gate" /\ GateFree
    /\ \/ /\ synced >= myGen[t]
          /\ Acknowledge(t)
       \/ /\ synced < myGen[t]
          /\ pc' = [pc EXCEPT ![t] = "snapshot"]
          /\ UNCHANGED <<acked, pending, wrote>>
    /\ UNCHANGED <<innerVars, synced, diskVars, batch, fd, myGen, covered, sealedFds, victims,
                   confirmVictims, up, failed, confirmed, boundVars>>

\* covered = inner.written
Snapshot(t) ==
    /\ pc[t] = "snapshot" /\ InnerFree
    /\ covered' = [covered EXCEPT ![t] = written]
    /\ pc' = [pc EXCEPT ![t] = "fsync"]
    /\ UNCHANGED <<innerVars, synced, diskVars, batch, wrote, fd, myGen, sealedFds, victims,
                   confirmVictims, clientVars, boundVars>>

\* fd.sync_data(), then synced.fetch_max(covered), release the gate, return.
Fsync(t) ==
    /\ pc[t] = "fsync"
    /\ durable' = durable \cup Flushed(fd[t])
    /\ synced' = IF covered[t] > synced THEN covered[t] ELSE synced
    /\ Acknowledge(t)
    /\ UNCHANGED <<innerVars, files, disk, torn, pos, batch, fd, myGen, covered, sealedFds,
                   victims, confirmVictims, up, failed, confirmed, boundVars>>

\* A sync_data fails: Err, with the records flushed and counted.
SyncError(t) ==
    /\ pc[t] \in {"sealed", "fsync"}
    /\ pc[t] = "sealed" => sealedFds[t] # {}
    /\ Abandon(t)
    /\ UNCHANGED <<innerVars, synced, diskVars, fd, myGen, covered, confirmVictims,
                   up, pending, acked, confirmed, crashes>>

----------------------------------------------------------------------------
(* confirm, crash, open *)

\* confirm: decrement the count of each position's segment (saturating),
\* collect the exhausted segments.
Confirm(S) ==
    /\ up /\ InnerFree
    /\ S # {} /\ S \subseteq pending
    /\ LET out == [s \in Segments |->
                     IF s \in tracked THEN Decrement(outstanding[s], Cardinality(At(S, s)))
                     ELSE outstanding[s]]
           gone == CollectConfirmed(tracked, sealed, out)
       IN /\ outstanding' = out
          /\ tracked' = tracked \ gone
          /\ confirmVictims' = confirmVictims \cup gone
    /\ pending' = pending \ S
    /\ confirmed' = confirmed \cup S
    /\ UNCHANGED <<currentSeq, currentLen, buffered, sealed, written, synced, diskVars,
                   callVars, up, failed, acked, boundVars>>

\* The unlinks of confirm, after the lock is released.
UnlinkConfirmed ==
    /\ confirmVictims # {}
    /\ files' = files \ confirmVictims
    /\ disk' = {r \in disk : pos[r] \notin confirmVictims}
    /\ confirmVictims' = {}
    /\ UNCHANGED <<innerVars, synced, durable, torn, pos, callVars, clientVars, boundVars>>

\* Power loss: what was fsynced stays, any part of the rest stays; the
\* readable part of a segment ends at its first damaged record.
Crash ==
    /\ up /\ crashes < MaxCrashes
    /\ crashes' = crashes + 1
    /\ up' = FALSE
    /\ \E K \in SUBSET (disk \ durable) : disk' = (disk \cap durable) \cup K
    /\ torn' = {}
    /\ pending' = {} /\ failed' = {} /\ buffered' = {}
    /\ pc' = [t \in Appenders |-> "idle"]
    /\ batch' = [t \in Appenders |-> {}]
    /\ wrote' = [t \in Appenders |-> {}]
    /\ sealedFds' = [t \in Appenders |-> {}]
    /\ victims' = [t \in Appenders |-> {}]
    /\ confirmVictims' = {}
    /\ UNCHANGED <<currentSeq, currentLen, tracked, sealed, outstanding, written, synced,
                   files, durable, pos, fd, myGen, covered, acked, confirmed, errors>>

\* Wal::open: every segment on disk is tracked, sealed, with as many
\* outstanding records as can be read; replay hands all of them out; writes
\* go to a fresh segment.
Open ==
    /\ ~up /\ up' = TRUE
    /\ \E new \in Segments :
         /\ \A s \in files : s < new
         /\ new = 0 \/ new - 1 \in files
         /\ currentSeq' = new
         /\ currentLen' = 0
         /\ tracked' = files \cup {new}
         /\ sealed' = files
         /\ outstanding' = [s \in Segments |-> IF s \in files THEN Cardinality(At(disk, s)) ELSE 0]
         /\ files' = files \cup {new}
    /\ pending' = disk
    /\ written' = 0 /\ synced' = 0
    /\ UNCHANGED <<buffered, disk, durable, torn, pos, callVars, confirmVictims, failed,
                   acked, confirmed, boundVars>>

\* Nothing left to do.
Quiescent ==
    /\ up /\ crashes = MaxCrashes
    /\ Records \subseteq Submitted /\ pending = {} /\ confirmVictims = {}
    /\ \A t \in Appenders : pc[t] = "idle"
    /\ UNCHANGED vars

AppendStep(t) ==
    \/ WriteItem(t) \/ Rotate(t) \/ FinishWrite(t)
    \/ SyncSealed(t) \/ CheckSynced(t) \/ TakeGate(t) \/ Snapshot(t) \/ Fsync(t)

AppendError(t) == RotateError(t) \/ WriteError(t) \/ SyncError(t)

Next ==
    \/ \E t \in Appenders : StartAppend(t) \/ AppendStep(t) \/ AppendError(t)
    \/ \E S \in SUBSET pending : Confirm(S)
    \/ UnlinkConfirmed
    \/ Crash
    \/ Open
    \/ Quiescent

Spec == Init /\ [][Next]_vars

----------------------------------------------------------------------------
(* Properties *)

InnerType ==
    /\ currentSeq \in Segments /\ currentLen \in Nat
    /\ buffered \subseteq Records
    /\ tracked \subseteq Segments /\ sealed \subseteq Segments
    /\ outstanding \in [Segments -> Nat]
    /\ written \in Nat /\ synced \in Nat

DiskType ==
    /\ files \subseteq Segments /\ torn \subseteq Segments
    /\ disk \subseteq Records /\ durable \subseteq Records
    /\ pos \in [Records -> Segments]

CallType ==
    /\ pc \in [Appenders -> {"idle", "write", "sealed", "check", "gate", "snapshot", "fsync"}]
    /\ batch \in [Appenders -> SUBSET Records]
    /\ wrote \in [Appenders -> SUBSET Records]
    /\ fd \in [Appenders -> Segments]
    /\ myGen \in [Appenders -> Nat] /\ covered \in [Appenders -> Nat]
    /\ sealedFds \in [Appenders -> SUBSET Segments]
    /\ victims \in [Appenders -> SUBSET Segments]
    /\ confirmVictims \subseteq Segments

ClientType ==
    /\ up \in BOOLEAN
    /\ pending \subseteq Records /\ failed \subseteq Records
    /\ acked \subseteq Records /\ confirmed \subseteq Records
    /\ errors \in 0 .. MaxErrors /\ crashes \in 0 .. MaxCrashes

\* Every variable keeps its type; a count that confirm drives below zero
\* would leave Nat (wal.rs:325 saturates).
TypeOK == InnerType /\ DiskType /\ CallType /\ ClientType

\* "Documents are fsynced to a local segment file before the bulk request is
\* acknowledged": an acknowledged record is on stable storage, where replay
\* reads it, until it is confirmed (wal.rs:1-3, append_batch).
AckedDurable == \A r \in acked \ confirmed : r \in disk /\ r \in durable

\* A record the indexer has not confirmed is in a segment that is still
\* tracked and whose file still exists, and replay reads it unless a failed
\* write damaged that segment before it: collect_confirmed never takes a
\* segment that rotation, failed calls or other confirms still count on.
SegmentKept ==
    \A r \in pending :
        /\ pos[r] \in tracked /\ pos[r] \in files
        /\ pos[r] \notin torn => r \in disk

\* The replay iterator yields the outstanding records, all of them
\* (wal.rs:99-101): no unconfirmed record is out of replay's reach.
OutstandingReplayable == \A r \in pending : r \in disk

\* "Invariant breach (current segment always tracked)": the segment an item
\* is about to be written to is tracked and not sealed, although a failed
\* rotation seals it and a confirm may then collect it (wal.rs:242-251).
CurrentTracked ==
    \A t \in Appenders :
        pc[t] = "write" /\ currentLen < MaxSegment => currentSeq \in tracked \ sealed

\* "segments are deleted once every document they contain has been
\* published": when appends, confirms and unlinks get their turn and none
\* fails, in the end only the current segment's file holds records.
Reclaimed == <>[](\A r \in disk : pos[r] = currentSeq)

\* wal.rs:263 "Rotated-out segments may hold records from this batch, so they
\* must be durable before the positions are acked": an append that runs its
\* own fsync returns with all its readable records durable, over however
\* many segments the batch was spread.
OwnSyncDurable ==
    [][\A t \in Appenders :
         pc[t] = "fsync" /\ wrote[t] \subseteq acked' => wrote[t] \cap disk' \subseteq durable']_vars

Fairness ==
    /\ \A t \in Appenders : WF_vars(AppendStep(t))
    /\ WF_vars(\E S \in SUBSET pending : Confirm(S))
    /\ WF_vars(UnlinkConfirmed)
    /\ WF_vars(Open)

FairSpec == Spec /\ Fairness

\* The log its callers rely on: the readable records on disk.
Log == INSTANCE DurableLog WITH log <- disk

\* The segmented, group-committed log implements the durable log.
ImplementsDurableLog == Log!Spec

=============================================================================
