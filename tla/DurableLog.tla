----------------------------- MODULE DurableLog -----------------------------
(***************************************************************************)
(* What the write-ahead log promises its callers                           *)
(* (crates/rsearch-ingest/src/wal.rs, module comment): a set of records    *)
(* on disk.  An acknowledged record survives every crash until it is       *)
(* confirmed; a confirmed record may disappear at any time, and until it   *)
(* does a restart hands it out again.                                      *)
(***************************************************************************)
CONSTANT Records

VARIABLES
    log,        \* records a restart would replay
    pending,    \* handed to the indexer in this run, not confirmed
    acked,      \* ever acknowledged
    confirmed,  \* ever confirmed
    up          \* the process runs

vars == <<log, pending, acked, confirmed, up>>

Init == log = {} /\ pending = {} /\ acked = {} /\ confirmed = {} /\ up = TRUE

\* Records reach the disk, in part or whole, before the append returns.
Append(R) ==
    /\ up /\ log' = log \cup R
    /\ UNCHANGED <<pending, acked, confirmed, up>>

\* The append returns: the records are acknowledged.
Acknowledge(R) ==
    /\ up /\ R \subseteq log
    /\ acked' = acked \cup R
    /\ pending' = pending \cup R
    /\ UNCHANGED <<log, confirmed, up>>

Confirm(R) ==
    /\ up /\ R \subseteq pending
    /\ pending' = pending \ R
    /\ confirmed' = confirmed \cup R
    /\ UNCHANGED <<log, acked, up>>

\* A segment is unlinked: only confirmed records go.
Reclaim(R) ==
    /\ up /\ R \subseteq confirmed \ pending
    /\ log' = log \ R
    /\ UNCHANGED <<pending, acked, confirmed, up>>

Crash(K) ==
    /\ up /\ up' = FALSE
    /\ K \subseteq log /\ (acked \ confirmed) \cap log \subseteq K
    /\ log' = K
    /\ pending' = {}
    /\ UNCHANGED <<acked, confirmed>>

Restart ==
    /\ ~up /\ up' = TRUE
    /\ pending' = log
    /\ UNCHANGED <<log, acked, confirmed>>

Next ==
    \/ \E R \in SUBSET Records :
         Append(R) \/ Acknowledge(R) \/ Confirm(R) \/ Reclaim(R) \/ Crash(R)
    \/ Restart

Spec == Init /\ [][Next]_vars
=============================================================================
