----------------------------- MODULE SplitCache -----------------------------
(***************************************************************************)
(* Reading a split: the bundle format, the block reads of its files, and   *)
(* the two-tier block cache they share.                                    *)
(*                                                                         *)
(*   rsearch-index/src/split_file.rs          the bundle and its footer    *)
(*   rsearch-index/src/reader.rs              opening a split              *)
(*   rsearch-index/src/storage_directory.rs   read, fetch                  *)
(*   rsearch-index/src/cache.rs               SplitCache, Claim, DiskTier  *)
(*                                                                         *)
(* A byte is a value; the footer's metadata takes one cell per bundled     *)
(* file, its length and its magic one cell each.  The memory tier's shards *)
(* do not interact: one stands for all.  The LRU order of each tier is the *)
(* order of a sequence, oldest first.                                      *)
(***************************************************************************)
EXTENDS Integers, FiniteSets, FiniteSetsExt, SequencesExt

CONSTANTS
    Contents,       \* the bundled files in name order, each a sequence of bytes
    BlockSize,      \* bytes per block
    MemoryBytes,    \* memory_shard_bytes
    DiskBytes,      \* the disk tier's max_bytes
    Readers,        \* threads reading
    Ranges,         \* the reads they ask for: [file, from, to]
    Modes           \* ways to read and bounds, one chosen per behaviour: the
                    \* threads, disk tier or not, read-ahead blocks, cells the
                    \* stored object lacks at its end; how many reads, failing
                    \* calls, failing unlinks and restarts

ASSUME CacheAssumption ==
    /\ BlockSize \in Nat \ {0} /\ MemoryBytes \in Nat /\ DiskBytes \in Nat
    /\ \A m \in Modes :
          /\ m.readers \subseteq Readers /\ m.disk \in BOOLEAN
          /\ {m.ahead, m.cut, m.reads, m.faults, m.unlinks, m.restarts} \subseteq Nat

VARIABLES
    mode,       \* the chosen member of Modes
    memory,     \* memory tier: sequence of [block, data]
    entries,    \* disk tier's index: sequence of [block, size]
    bytes,      \* what each tier counts itself as holding: [memory, disk]
    files,      \* block files under the cache root: block -> bytes
    inflight,   \* blocks some reader is fetching
    reader,     \* each thread's read in progress
    last,       \* last_block of each file's handle
    left        \* what remains of the bounds

tiers == <<memory, entries, files, bytes>>
vars == <<mode, tiers, inflight, reader, last, left>>

----------------------------------------------------------------------------
\* The bundle: the files one after the other, their spans, the number of
\* metadata cells, the magic.
TailLen == 2
Magic   == -1
SpanOf(f) == [offset |-> Len(FlattenSeq(SubSeq(Contents, 1, f - 1))), len |-> Len(Contents[f])]
WriteBundle ==
    LET meta == [f \in DOMAIN Contents |-> SpanOf(f)]
    IN  FlattenSeq(Contents) \o meta \o <<Len(meta), Magic>>

\* open_with: the tail, then the metadata it announces; <<>> when the object is no split.
GetRange(object, from, to) == SubSeq(object, from + 1, to)
BadFooter == -1
ParseFooterTail(tail) == IF tail[2] = Magic THEN tail[1] ELSE BadFooter
OpenWith(object) ==
    LET size    == Len(object)
        metaLen == IF size < TailLen THEN BadFooter
                   ELSE ParseFooterTail(GetRange(object, size - TailLen, size))
    IN  IF metaLen = BadFooter \/ metaLen > size - TailLen THEN <<>>
        ELSE GetRange(object, size - TailLen - metaLen, size - TailLen)
Files  == OpenWith(WriteBundle)
Object == SubSeq(WriteBundle, 1, Len(WriteBundle) - mode.cut)

\* Blocks.
BlockLen(len, i) == Min({len - i * BlockSize, BlockSize})
TotalBlocks(len) == (len + BlockSize - 1) \div BlockSize
FirstBlock(rd)  == rd.from \div BlockSize
LastBlock(rd)   == (rd.to - 1) \div BlockSize
Wanted(rd) == FirstBlock(rd)..LastBlock(rd)
Blocks     == UNION {{<<f, i>> : i \in 0..(TotalBlocks(Len(Contents[f])) - 1)} : f \in DOMAIN Contents}

\* What storage returns for block i of file f.
Piece(f, i) ==
    LET span == Files[f]
        from == i * BlockSize
        to   == Min({from + BlockSize, span.len})
    IN  GetRange(WriteBundle, span.offset + from, span.offset + to)

----------------------------------------------------------------------------
\* The tiers.
Find(tier, b) == SelectInSeq(tier, LAMBDA e : e.block = b)
Without(tier, b) == SelectSeq(tier, LAMBDA e : e.block # b)
MemorySizes(m) == [i \in DOMAIN m |-> Len(m[i].data)]
DiskSizes(s)   == [i \in DOMAIN s |-> s[i].size]
Total(sizes)   == FoldLeft(+, 0, sizes)
MemorySize(m)  == Total(MemorySizes(m))
DiskSize(s)    == Total(DiskSizes(s))

SizeOf(sizes, k) == IF k = 0 THEN 0 ELSE sizes[k]

\* How many of the oldest blocks go for a tier that counts `total` bytes to count at most max.
Excess(sizes, total, max) ==
    LET enough == {n \in 0..Len(sizes) : total - Total(SubSeq(sizes, 1, n)) <= max}
    IN  Min(enough \cup {Len(sizes)})

InsertMemory(b, data) ==
    LET put   == Append(Without(memory, b), [block |-> b, data |-> data])
        total == bytes.memory - SizeOf(MemorySizes(memory), Find(memory, b)) + Len(data)
        n     == Excess(MemorySizes(put), total, MemoryBytes)
    IN  IF Len(data) > MemoryBytes THEN UNCHANGED <<memory, bytes>>
        ELSE /\ memory' = SubSeq(put, n + 1, Len(put))
             /\ bytes' = [bytes EXCEPT !.memory = total - Total(SubSeq(MemorySizes(put), 1, n))]

Recorded(b, size) == Append(Without(entries, b), [block |-> b, size |-> size])
\* DiskTier::insert: the block just written is never a victim.
VictimCount(s, total) == Min({Excess(DiskSizes(s), total, DiskBytes), Len(s) - 1})

----------------------------------------------------------------------------
\* A read in progress: its slots filled so far, the blocks found missing, the
\* ones it claimed and the ones another reader fetches, what is left to
\* store and to unlink.
Quiet == [at |-> "idle", rd |-> [file |-> 1, from |-> 0, to |-> 0], slots |-> <<>>,
          missing |-> {}, mine |-> {}, theirs |-> {}, store |-> <<>>, victims |-> <<>>,
          cur |-> 0, status |-> "none", out |-> <<>>]
At(r, pc)    == reader[r].at = pc
Cur(r)       == <<reader[r].rd.file, reader[r].cur>>
Set(r, rec)  == reader' = [reader EXCEPT ![r] = rec]
Spend(what)  == left[what] > 0 /\ left' = [left EXCEPT ![what] = @ - 1]
Fault        == Spend("faults")

\* What does not open fails, and a range past the end; an empty one needs no block.
StartRead(r, rd) ==
    /\ At(r, "idle") /\ r \in mode.readers /\ Spend("reads")
    /\ Set(r, IF OpenWith(Object) = <<>> \/ rd.to > Files[rd.file].len THEN [Quiet EXCEPT !.rd = rd, !.status = "error"]
              ELSE IF rd.from = rd.to THEN [Quiet EXCEPT !.rd = rd, !.status = "ok"]
              ELSE [Quiet EXCEPT !.rd = rd, !.at = "lookup"])
    /\ UNCHANGED <<mode, tiers, inflight, last>>

Unseen(r) == Wanted(reader[r].rd) \ (DOMAIN reader[r].slots \cup reader[r].missing)
Fill(rec, i, data) == [rec EXCEPT !.slots = (i :> data) @@ @]

\* get_block: the memory tier, then the disk tier's index.
Lookup(r) ==
    /\ At(r, "lookup") /\ Unseen(r) # {}
    /\ LET i == Min(Unseen(r))
           b == <<reader[r].rd.file, i>>
           m == Find(memory, b)
           d == Find(entries, b)
       IN  IF m # 0
           THEN /\ memory' = Append(Without(memory, b), memory[m])
                /\ Set(r, Fill(reader[r], i, memory[m].data)) /\ UNCHANGED entries
           ELSE IF mode.disk /\ d # 0
           THEN /\ entries' = Append(Without(entries, b), entries[d])
                /\ Set(r, [reader[r] EXCEPT !.at = "touched", !.cur = i]) /\ UNCHANGED memory
           ELSE /\ Set(r, [reader[r] EXCEPT !.missing = @ \cup {i}])
                /\ UNCHANGED <<memory, entries>>
    /\ UNCHANGED <<mode, files, bytes, inflight, last, left>>

\* Mutant: the length is not compared.
Present(b) == b \in DOMAIN files

\* The file is read outside the lock; gone, or of another length, it is stale.
Sound(b) == b \in DOMAIN files /\ Len(files[b]) = BlockLen(Files[b[1]].len, b[2])

ReadFile(r) ==
    /\ At(r, "touched")
    /\ LET b == Cur(r)
       IN  \/ /\ Sound(b)
              /\ InsertMemory(b, files[b])
              /\ Set(r, [Fill(reader[r], b[2], files[b]) EXCEPT !.at = "lookup"])
              /\ UNCHANGED left
           \/ /\ IF Sound(b) THEN Fault ELSE UNCHANGED left
              /\ Set(r, [reader[r] EXCEPT !.at = "stale"])
              /\ UNCHANGED <<memory, bytes>>
    /\ UNCHANGED <<mode, entries, files, inflight, last>>

\* Mutant: the entry goes and its bytes stay counted.
ForgetUncounted(r) ==
    /\ At(r, "stale")
    /\ entries' = Without(entries, Cur(r))
    /\ Set(r, [reader[r] EXCEPT !.at = "forget"])
    /\ UNCHANGED <<mode, memory, files, bytes, inflight, last, left>>

ForgetEntry(r) ==
    /\ At(r, "stale")
    /\ entries' = Without(entries, Cur(r))
    /\ bytes' = [bytes EXCEPT !.disk = @ - SizeOf(DiskSizes(entries), Find(entries, Cur(r)))]
    /\ Set(r, [reader[r] EXCEPT !.at = "forget"])
    /\ UNCHANGED <<mode, memory, files, inflight, last, left>>

\* remove_file, whose error is ignored.
Unlink(b) ==
    \/ files' = [x \in DOMAIN files \ {b} |-> files[x]] /\ UNCHANGED left
    \/ b \in DOMAIN files /\ Spend("unlinks") /\ UNCHANGED files

ForgetFile(r) ==
    /\ At(r, "forget")
    /\ Unlink(Cur(r))
    /\ Set(r, [reader[r] EXCEPT !.at = "lookup", !.missing = @ \cup {reader[r].cur}])
    /\ UNCHANGED <<mode, memory, entries, bytes, inflight, last>>

ClaimBlocks(r) ==
    /\ At(r, "lookup") /\ Unseen(r) = {} /\ reader[r].missing # {}
    /\ LET f      == reader[r].rd.file
           theirs == {i \in reader[r].missing : <<f, i>> \in inflight}
           mine   == reader[r].missing \ theirs
       IN  /\ inflight' = inflight \cup {<<f, i>> : i \in mine}
           /\ Set(r, [reader[r] EXCEPT !.mine = mine, !.theirs = theirs,
                                       !.at = IF mine = {} THEN "wait" ELSE "fetch"])
    /\ UNCHANGED <<mode, tiers, last, left>>

Released(r) == inflight \ {<<reader[r].rd.file, i>> : i \in reader[r].mine}

\* fetch: the claimed blocks, and read-ahead past the last of them when the
\* read goes on where the previous one ended.
Ahead(r) == IF last[reader[r].rd.file] \in {FirstBlock(reader[r].rd), FirstBlock(reader[r].rd) - 1}
            THEN mode.ahead ELSE 0
FetchSet(r) ==
    LET top   == Max(reader[r].mine)
        total == TotalBlocks(Files[reader[r].rd.file].len)
    IN  reader[r].mine \cup ((top + 1)..(Min({top + 1 + Ahead(r), total}) - 1))

FetchBlocks(r) ==
    /\ At(r, "fetch")
    /\ LET rec == reader[r]
           got == SetToSortSeq(FetchSet(r), <)
           data(i) == Piece(rec.rd.file, i)
       IN  Set(r, [rec EXCEPT !.at = "store",
                     !.store = [k \in DOMAIN got |-> [i |-> got[k], data |-> data(got[k])]],
                     !.slots = [i \in FetchSet(r) \cap Wanted(rec.rd) |-> data(i)] @@ @])
    /\ UNCHANGED <<mode, tiers, inflight, last, left>>

\* Mutant: the failed fetch keeps its claim.
FetchLeaks(r) ==
    /\ At(r, "fetch") /\ Fault
    /\ Set(r, [Quiet EXCEPT !.rd = reader[r].rd, !.status = "error"])
    /\ UNCHANGED <<mode, tiers, inflight, last>>

\* A request fails or is short: the read fails, and its claim is dropped.
FetchFails(r) ==
    /\ At(r, "fetch") /\ Fault
    /\ Set(r, [Quiet EXCEPT !.rd = reader[r].rd, !.status = "error"])
    /\ inflight' = Released(r)
    /\ UNCHANGED <<mode, tiers, last>>

\* put_block, for each fetched block: temp file and rename, then the index
\* and its victims, then their files, then memory.  A failed disk write is
\* only logged.
Head1(r) == reader[r].store[1]
StoreBlock(r) == <<reader[r].rd.file, Head1(r).i>>
ToMemory(r) ==
    /\ InsertMemory(StoreBlock(r), Head1(r).data)
    /\ Set(r, [reader[r] EXCEPT !.at = "store", !.store = Tail(@)])

WriteFile(r) ==
    /\ At(r, "store") /\ reader[r].store # <<>>
    /\ \/ /\ mode.disk
          /\ files' = (StoreBlock(r) :> Head1(r).data) @@ files
          /\ Set(r, [reader[r] EXCEPT !.at = "record"]) /\ UNCHANGED <<memory, bytes, left>>
       \/ /\ IF mode.disk THEN Fault ELSE UNCHANGED left
          /\ ToMemory(r) /\ UNCHANGED files
    /\ UNCHANGED <<mode, entries, inflight, last>>

RecordBlock(r) ==
    /\ At(r, "record")
    /\ LET b == StoreBlock(r)
           s == Recorded(b, Len(Head1(r).data))
           total == bytes.disk - SizeOf(DiskSizes(entries), Find(entries, b)) + Len(Head1(r).data)
           n == VictimCount(s, total)
       IN  /\ entries' = SubSeq(s, n + 1, Len(s))
           /\ bytes' = [bytes EXCEPT !.disk = total - Total(SubSeq(DiskSizes(s), 1, n))]
           /\ Set(r, [reader[r] EXCEPT !.at = "evict", !.victims = [k \in 1..n |-> s[k].block]])
    /\ UNCHANGED <<mode, memory, files, inflight, last, left>>

\* Mutant: the victims' files stay.
KeepVictims(r) ==
    /\ At(r, "evict")
    /\ IF reader[r].victims # <<>>
       THEN Set(r, [reader[r] EXCEPT !.victims = Tail(@)]) /\ UNCHANGED <<files, memory, bytes, left>>
       ELSE ToMemory(r) /\ UNCHANGED <<files, left>>
    /\ UNCHANGED <<mode, entries, inflight, last>>

UnlinkVictim(r) ==
    /\ At(r, "evict")
    /\ IF reader[r].victims # <<>>
       THEN /\ Unlink(Head(reader[r].victims))
            /\ Set(r, [reader[r] EXCEPT !.victims = Tail(@)]) /\ UNCHANGED <<memory, bytes>>
       ELSE ToMemory(r) /\ UNCHANGED <<files, left>>
    /\ UNCHANGED <<mode, entries, inflight, last>>

\* The claim is dropped before the read waits for the other readers' blocks.
Release(r) ==
    /\ At(r, "store") /\ reader[r].store = <<>>
    /\ inflight' = Released(r)
    /\ Set(r, [reader[r] EXCEPT !.mine = {}, !.missing = {},
                                !.at = IF reader[r].theirs = {} THEN "lookup" ELSE "wait"])
    /\ UNCHANGED <<mode, tiers, last, left>>

WaitFor(r) ==
    /\ At(r, "wait") /\ \A i \in reader[r].theirs : <<reader[r].rd.file, i>> \notin inflight
    /\ Set(r, [reader[r] EXCEPT !.at = "lookup", !.missing = {}, !.theirs = {}])
    /\ UNCHANGED <<mode, tiers, inflight, last, left>>

\* The range, cut out of its blocks.
Cut(rd, slots) ==
    FlattenSeq([k \in 1..(LastBlock(rd) - FirstBlock(rd) + 1) |->
        LET i == FirstBlock(rd) + k - 1
        IN  SubSeq(slots[i], Max({rd.from - i * BlockSize, 0}) + 1,
                             Min({rd.to - i * BlockSize, Len(slots[i])}))])

Finish(r) ==
    /\ At(r, "lookup") /\ Unseen(r) = {} /\ reader[r].missing = {}
    /\ LET rd == reader[r].rd
       IN  /\ Set(r, [Quiet EXCEPT !.rd = rd, !.status = "ok", !.out = Cut(rd, reader[r].slots)])
           /\ last' = IF mode.ahead > 0 THEN [last EXCEPT ![rd.file] = LastBlock(rd)] ELSE last
    /\ UNCHANGED <<mode, tiers, inflight, left>>

\* rebuild_from_disk: the process stops, files written without an fsync may
\* have lost their end, and the blocks found are adopted in directory order.
Restart ==
    /\ mode.disk /\ Spend("restarts")
    /\ \E torn \in {{}} \cup {{b} : b \in DOMAIN files} :
       \E order \in SetToSeqs(DOMAIN files) :
          /\ files' = [b \in DOMAIN files |->
                         IF b \in torn THEN SubSeq(files[b], 1, Len(files[b]) - 1) ELSE files[b]]
          /\ entries' = [k \in DOMAIN order |->
                           [block |-> order[k], size |-> Len(files'[order[k]])]]
          /\ bytes' = [memory |-> 0, disk |-> DiskSize(entries')]
    /\ memory' = <<>> /\ inflight' = {} /\ reader' = [r \in Readers |-> Quiet]
    /\ UNCHANGED <<mode, last>>

----------------------------------------------------------------------------
NoRead == -2
Init ==
    /\ mode \in Modes /\ left = [reads |-> mode.reads, faults |-> mode.faults,
                               unlinks |-> mode.unlinks, restarts |-> mode.restarts]
    /\ memory = <<>> /\ entries = <<>> /\ files = <<>> /\ inflight = {}
    /\ bytes = [memory |-> 0, disk |-> 0]
    /\ reader = [r \in Readers |-> Quiet] /\ last = [f \in DOMAIN Contents |-> NoRead]

Step(r) ==
    \/ Lookup(r) \/ ReadFile(r) \/ ForgetEntry(r) \/ ForgetFile(r) \/ ClaimBlocks(r)
    \/ FetchBlocks(r) \/ FetchFails(r) \/ WriteFile(r) \/ RecordBlock(r) \/ UnlinkVictim(r)
    \/ Release(r) \/ WaitFor(r) \/ Finish(r)

Next ==
    \/ Restart
    \/ \E r \in Readers : Step(r) \/ \E rd \in Ranges : StartRead(r, rd)

\* Threads run, and a storage request returns or fails.
Spec == Init /\ [][Next]_vars /\ \A r \in Readers : WF_vars(Step(r))

----------------------------------------------------------------------------
\* Each tier's running count is the size of the blocks it holds, each held once, whatever readers
\* insert, evict and forget at the same time; so evicting by the count keeps the blocks themselves
\* within the budget (the disk tier may hold one larger block, and a restart adopts what it finds).
WithinBudget ==
    /\ IsInjective([k \in DOMAIN entries |-> entries[k].block])
    /\ IsInjective([k \in DOMAIN memory |-> memory[k].block])
    /\ bytes = [memory |-> MemorySize(memory), disk |-> DiskSize(entries)]
    /\ bytes.memory <= MemoryBytes
    /\ left.restarts = mode.restarts => bytes.disk <= Max({DiskBytes, BlockSize})

\* A read returns exactly the bytes of its range of the bundled file, whichever
\* mix of tiers and fetches served it and whatever was evicted, torn by a crash
\* or rewritten meanwhile; a range past the end of the file is never served.
ReadExact ==
    \A r \in Readers :
        reader[r].status = "ok" =>
            /\ reader[r].rd.to <= Len(Contents[reader[r].rd.file])
            /\ reader[r].out = SubSeq(Contents[reader[r].rd.file], reader[r].rd.from + 1, reader[r].rd.to)

\* No block file escapes the disk tier's accounting: its index has an entry for
\* the file, or a thread is still about to record or to unlink it, but for one
\* file per unlink that failed (remove_file's error is ignored).  Otherwise
\* racing inserts, evictions and forgets would fill the disk unseen.
Pending(b) ==
    \E r \in Readers : \/ At(r, "record") /\ StoreBlock(r) = b
                       \/ b \in Range(reader[r].victims)
                       \/ At(r, "forget") /\ Cur(r) = b
NoLeak ==
    Cardinality({b \in DOMAIN files : Find(entries, b) = 0 /\ ~Pending(b)}) <= mode.unlinks - left.unlinks

\* Every read ends, with bytes or an error: no reader waits for ever on blocks
\* another reader claimed, also when that reader's fetch fails.
ReadsFinish == \A r \in Readers : reader[r].at # "idle" ~> reader[r].at = "idle"
=============================================================================
