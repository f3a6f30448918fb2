------------------------------ MODULE Cluster -------------------------------
(***************************************************************************)
(* Requests that span the nodes of a cluster, on one document-mode stream. *)
(*                                                                         *)
(*   bulk_api.rs, bulk_forward.rs  a bulk request, handed round-robin to   *)
(*                                 a peer or handled by the node itself    *)
(*   refresh_api.rs                _refresh on every node with a buffer    *)
(*   doc_api.rs                    the document routes, _delete_by_query   *)
(*   executor.rs                   each node's cached tombstone list       *)
(*   main.rs, admin_api.rs         heartbeats and the draining flag        *)
(*                                                                         *)
(* A document is its id, written once; a bulk request writes a set of them *)
(* or deletes a set of them.  What a node has acknowledged but not yet     *)
(* published is its buffer (Pipeline and Wal detail it), a tombstone hides *)
(* its document (Documents details versions).  Every node ingests and      *)
(* searches.                                                               *)
(***************************************************************************)
EXTENDS Integers, Sequences, FiniteSets, FiniteSetsExt

CONSTANTS
    Nodes,      \* node ids
    Docs,       \* document ids, numbers in hit order
    Clients,    \* each sends its requests one after the other
    Page,       \* DELETE_BY_QUERY_PAGE
    Plans       \* situations, one chosen per behaviour: ingest.balance_bulk,
                \* the documents published, each client's requests [kind, docs,
                \* refresh]; left: how many failing calls, lapsed heartbeats,
                \* drains; spent: which of these happened, {} at first

Bounds   == {"faults", "lapses", "drains"}
Requests == [kind : {"write", "delete", "refresh", "search", "byQuery"}, docs : SUBSET Docs, refresh : BOOLEAN]

ASSUME ClusterAssumption ==
    /\ IsFiniteSet(Nodes) /\ Nodes # {}
    /\ IsFiniteSet(Docs) /\ Docs \subseteq Nat
    /\ Page \in Nat \ {0}

ASSUME PlansAssumption ==
    /\ Plans \subseteq [balance : BOOLEAN, published : SUBSET Docs, todo : [Clients -> Seq(Requests)],
                        left : [Bounds -> Nat], spent : {{}}]
    /\ \A p \in Plans : \A c, o \in Clients :
          \A i \in DOMAIN p.todo[c], j \in DOMAIN p.todo[o] :
              /\ p.todo[c][i].kind = "write" /\ p.todo[o][j].kind = "write"
              /\ p.todo[c][i].docs \cap p.todo[o][j].docs # {}
              => c = o /\ i = j

VARIABLES
    plan,       \* the chosen plan; its bounds count down
    todo,       \* requests each client still sends
    req,        \* each client's request
    buffer,     \* documents acknowledged by each node, not yet published
    published,  \* documents in published splits
    rows,       \* documents with a tombstone row
    ordinal,    \* the ordinal of each document's row
    drawn,      \* the last ordinal drawn from the sequence
    cache,      \* each node's tombstone list: [rows, seqs: the ordinals in it, fresh]
    peers,      \* each node's list of handoff candidates: [list, fresh]
    beating,    \* nodes whose heartbeat row is fresh
    flag,       \* nodes whose row says draining
    draining,   \* nodes that know it
    holders,    \* nodes that took each document
    acked       \* answered 200: [writes, deletes: documents, own: <<node, document>>,
                \* deletes the node handled while it was not reading the rows]

data     == <<buffer, published, holders>>
tombs    == <<rows, ordinal, drawn>>
registry == <<beating, flag, draining>>
vars == <<plan, todo, req, data, tombs, cache, peers, registry, acked>>

Idle == [kind |-> "none", at |-> "idle", node |-> CHOOSE n \in Nodes : TRUE, docs |-> {},
         refresh |-> FALSE, by |-> CHOOSE n \in Nodes : TRUE, prev |-> {}, list |-> {}, seqs |-> {}, seq |-> 0,
         before |-> {}, asked |-> {}, waiting |-> {}, failed |-> FALSE, raced |-> FALSE, seen |-> {}, out |-> {}]

At(c, pc)   == req[c].at = pc
Set(c, r)   == req' = [req EXCEPT ![c] = r]
Go(c, pc)   == Set(c, [req[c] EXCEPT !.at = pc])
Spend(what) ==
    /\ plan.left[what] > 0
    /\ plan' = [plan EXCEPT !.left = [plan.left EXCEPT ![what] = @ - 1], !.spent = @ \cup {what}]
Fault       == Spend("faults")

----------------------------------------------------------------------------
\* A client sends its next request to any node.  before: what the answer has
\* to account for.
Send(c, n) ==
    /\ req[c].at \in {"idle", "ok", "error"} /\ todo[c] # <<>>
    /\ LET t == Head(todo[c])
           before == CASE t.kind = "refresh" -> acked.writes
                       [] t.kind = "search"  -> {d \in Docs : <<n, d>> \in acked.own}
                       [] OTHER              -> published
       IN  Set(c, [Idle EXCEPT !.kind = t.kind, !.node = n, !.by = n, !.docs = t.docs,
                     !.refresh = t.refresh, !.before = before,
                     !.at = CASE t.kind \in {"write", "delete"}   -> "receive"
                              [] t.kind = "refresh"               -> "refresh"
                              [] t.kind \in {"search", "byQuery"} -> "splits"])
    /\ todo' = [todo EXCEPT ![c] = Tail(@)]
    /\ UNCHANGED <<plan, data, tombs, cache, peers, registry, acked>>

----------------------------------------------------------------------------
\* execute_bulk.

\* candidates: the cached list while it is fresh, else the registry; a failed
\* read leaves an empty list.
Candidates == beating \ flag

Refuse(c) ==
    /\ At(c, "receive") /\ req[c].node \in draining /\ Go(c, "error")
    /\ UNCHANGED <<plan, todo, data, tombs, cache, peers, registry, acked>>

\* Where the rotation stands depends on every earlier batch: any slot.
PickTarget(c) ==
    LET n == req[c].node
        Chosen(list) == IF ~plan.balance \/ Cardinality(list) < 2 THEN {n} ELSE list
        Pick(list) == \E p \in Chosen(list) :
            Set(c, [req[c] EXCEPT !.by = p, !.at = IF p = n THEN "handle" ELSE "sent"])
    IN  /\ At(c, "receive") /\ n \notin draining
        /\ \/ /\ peers[n].fresh \/ ~plan.balance
              /\ Pick(peers[n].list) /\ UNCHANGED <<peers, plan>>
           \/ /\ ~peers[n].fresh /\ plan.balance
              /\ \E list \in {Candidates, {}} :
                    /\ IF list = Candidates THEN UNCHANGED plan ELSE Fault
                    /\ peers' = [peers EXCEPT ![n] = [list |-> list, fresh |-> TRUE]]
                    /\ Pick(list)
        /\ UNCHANGED <<todo, data, tombs, cache, registry, acked>>

\* bulk_internal: a draining peer refuses, the others handle the batch.
Receive(c) ==
    /\ At(c, "sent") /\ req[c].by \notin draining
    /\ Go(c, "handle")
    /\ UNCHANGED <<plan, todo, data, tombs, cache, peers, registry, acked>>

FallBack(c) == Set(c, [req[c] EXCEPT !.by = req[c].node, !.at = "handle"])

\* Mutant: a peer that drains is waited for.
HandoffWaits(c) ==
    /\ At(c, "sent") /\ Fault
    /\ FallBack(c)
    /\ UNCHANGED <<todo, data, tombs, cache, peers, registry, acked>>

\* The handoff is refused, or fails before the peer did anything.
HandoffFails(c) ==
    /\ At(c, "sent")
    /\ IF req[c].by \in draining THEN UNCHANGED plan ELSE Fault
    /\ FallBack(c)
    /\ UNCHANGED <<todo, data, tombs, cache, peers, registry, acked>>

\* handle_bulk_local for writes: the log and the buffer.
Store(c) ==
    LET n == req[c].by
    IN  /\ At(c, "handle") /\ req[c].kind = "write"
        /\ buffer' = [buffer EXCEPT ![n] = @ \cup req[c].docs]
        /\ holders' = [d \in Docs |-> IF d \in req[c].docs THEN holders[d] \cup {n} ELSE holders[d]]
        /\ Go(c, IF req[c].refresh THEN "cut" ELSE "reply")
        /\ UNCHANGED <<plan, todo, published, tombs, cache, peers, registry, acked>>

\* For deletes, upsert_tombstones: a transaction draws an ordinal under the stream's advisory lock,
\* which it holds until it commits; the rows of one batch share it.
Upserting(c) == At(c, "handle") /\ req[c].kind \in {"delete", "byQuery"}

\* Mutant: the lock is not taken.
DrawUnlocked(c) ==
    /\ Upserting(c)
    /\ drawn' = drawn + 1
    /\ Set(c, [req[c] EXCEPT !.seq = drawn', !.at = "commit"])
    /\ UNCHANGED <<plan, todo, data, rows, ordinal, cache, peers, registry, acked>>

DrawOrdinal(c) ==
    /\ Upserting(c) /\ \A o \in Clients : ~At(o, "commit")
    /\ drawn' = drawn + 1
    /\ Set(c, [req[c] EXCEPT !.seq = drawn', !.at = "commit"])
    /\ UNCHANGED <<plan, todo, data, rows, ordinal, cache, peers, registry, acked>>

\* A row that exists is raised and takes the new ordinal, or has a bound as high and stays.  Then
\* the caches of the handling node.
UpsertRows(c) ==
    /\ At(c, "commit")
    /\ \E stay \in SUBSET (req[c].docs \cap rows) :
          ordinal' = [d \in Docs |-> IF d \in req[c].docs \ stay THEN req[c].seq ELSE ordinal[d]]
    /\ rows' = rows \cup req[c].docs
    /\ Go(c, "invalidate")
    /\ UNCHANGED <<plan, todo, data, drawn, cache, peers, registry, acked>>

UpsertFails(c) ==
    /\ Upserting(c) \/ At(c, "commit")
    /\ Fault
    /\ IF req[c].by = req[c].node THEN Go(c, "error") ELSE FallBack(c)
    /\ UNCHANGED <<todo, data, tombs, cache, peers, registry, acked>>

Reading(n) == \E o \in Clients : At(o, "fetched") /\ req[o].node = n

\* Mutant: the caches are left to expire.
InvalidateNothing(c) ==
    /\ At(c, "invalidate") /\ Go(c, "reply")
    /\ UNCHANGED <<plan, todo, data, tombs, cache, peers, registry, acked>>

Invalidate(c) ==
    /\ At(c, "invalidate")
    /\ cache' = [cache EXCEPT ![req[c].by].fresh = FALSE]
    /\ Set(c, [req[c] EXCEPT !.at = "reply", !.raced = Reading(req[c].by)])
    /\ UNCHANGED <<plan, todo, data, tombs, peers, registry, acked>>

\* A worker's flush: everything buffered on n is published.
Flushed(n) ==
    /\ published' = published \cup buffer[n]
    /\ buffer' = [buffer EXCEPT ![n] = {}]
    /\ UNCHANGED holders

\* ?refresh: the handling node flushes; past REFRESH_WAIT_LIMIT it answers anyway.
Cut(c) ==
    /\ At(c, "cut")
    /\ \/ Flushed(req[c].by) /\ Go(c, "reply") /\ UNCHANGED plan
       \/ Fault /\ Set(c, [req[c] EXCEPT !.at = "reply", !.failed = TRUE]) /\ UNCHANGED data
    /\ UNCHANGED <<todo, tombs, cache, peers, registry, acked>>

\* Mutant: a last page that is just full ends the rounds.
LastRoundEarly(c) == Cardinality(req[c].docs) <= Page

LastRound(c) == Cardinality(req[c].docs) < Page

Answer(c) ==
    LET r == req[c]
        deleted == IF r.kind = "write" THEN {} ELSE r.docs
    IN  /\ acked' = [writes  |-> acked.writes \cup (IF r.kind = "write" THEN r.docs ELSE {}),
                     deletes |-> acked.deletes \cup deleted,
                     own     |-> acked.own \cup (IF r.raced THEN {} ELSE {r.by} \X deleted)]
        /\ Go(c, IF r.kind = "byQuery" /\ ~LastRound(c) THEN "splits" ELSE "ok")

\* Mutant: the peer's answer is dropped.
RelayNothing(c) ==
    /\ At(c, "reply")
    /\ IF req[c].by = req[c].node THEN Answer(c) ELSE FallBack(c) /\ UNCHANGED acked
    /\ UNCHANGED <<plan, todo, data, tombs, cache, peers, registry>>

Reply(c) ==
    /\ At(c, "reply") /\ Answer(c)
    /\ UNCHANGED <<plan, todo, data, tombs, cache, peers, registry>>

\* A peer's answer is lost, late or malformed: the node handles the batch too.
ReplyLost(c) ==
    /\ At(c, "reply") /\ req[c].by # req[c].node /\ Fault
    /\ FallBack(c)
    /\ UNCHANGED <<todo, data, tombs, cache, peers, registry, acked>>

----------------------------------------------------------------------------
\* A search: the published splits, tombstones_for, then the hits.
ReadSplits(c) ==
    /\ At(c, "splits")
    /\ Set(c, [req[c] EXCEPT !.seen = published, !.at = "tombs"])
    /\ UNCHANGED <<plan, todo, data, tombs, cache, peers, registry, acked>>

Usable(n) == cache[n].fresh

UseCache(c) ==
    /\ At(c, "tombs") /\ Usable(req[c].node)
    /\ Set(c, [req[c] EXCEPT !.list = cache[req[c].node].rows, !.at = "hits"])
    /\ UNCHANGED <<plan, todo, data, tombs, cache, peers, registry, acked>>

\* One refresh at a time and node: the rows past the last ordinal of the cached list, or all of
\* them when the list is due to be rebuilt.  It is stored after they were read.  A failed read
\* fails the search.
NoList == [rows |-> {}, seqs |-> {}, fresh |-> FALSE]
Since(seqs) == {d \in rows : \A s \in seqs : s < ordinal[d]}
Extended(old) == [rows |-> old.rows \cup Since(old.seqs),
                  seqs |-> old.seqs \cup {ordinal[d] : d \in Since(old.seqs)}]

FetchRows(c) ==
    /\ At(c, "tombs") /\ ~Usable(req[c].node)
    /\ ~Reading(req[c].node)
    /\ \/ /\ \E old \in {cache[req[c].node], NoList} :
               Set(c, [req[c] EXCEPT !.list = Extended(old).rows, !.seqs = Extended(old).seqs, !.at = "fetched"])
          /\ UNCHANGED plan
       \/ Go(c, "error") /\ Fault
    /\ UNCHANGED <<todo, data, tombs, cache, peers, registry, acked>>

StoreRows(c) ==
    /\ At(c, "fetched")
    /\ cache' = [cache EXCEPT ![req[c].node] = [rows |-> req[c].list, seqs |-> req[c].seqs, fresh |-> TRUE]]
    /\ Go(c, "hits")
    /\ UNCHANGED <<plan, todo, data, tombs, peers, registry, acked>>

Search(c) ==
    /\ At(c, "hits") /\ req[c].kind = "search"
    /\ Set(c, [req[c] EXCEPT !.out = req[c].seen \ req[c].list, !.at = "ok"])
    /\ UNCHANGED <<plan, todo, data, tombs, cache, peers, registry, acked>>

\* A round of delete_by_query: a page of hits, none left, or the same as before
\* (the bound of 10,000 rounds is out of reach).
FirstPage(hits) == {d \in hits : Cardinality({e \in hits : e < d}) < Page}

Round(c) ==
    LET ids == FirstPage(req[c].seen \ req[c].list)
        next == [req[c] EXCEPT !.docs = ids, !.prev = ids, !.by = req[c].node]
    IN  /\ At(c, "hits") /\ req[c].kind = "byQuery"
        /\ Set(c, CASE ids = {} -> [next EXCEPT !.at = "ok"]
                    [] ids # {} /\ ids \subseteq req[c].prev -> [next EXCEPT !.at = "error"]
                    [] OTHER -> [next EXCEPT !.at = "receive"])
        /\ UNCHANGED <<plan, todo, data, tombs, cache, peers, registry, acked>>

----------------------------------------------------------------------------
\* _refresh: this node and every ingest node the registry shows alive; a failed
\* read of the registry leaves this node alone.

\* Mutant: draining nodes are passed over.
IngestPeersServing == Candidates

IngestPeers == beating

AskAll(c) ==
    /\ At(c, "refresh")
    /\ \E ask \in {IngestPeers, {}} :
          /\ IF ask = IngestPeers THEN UNCHANGED plan ELSE Fault
          /\ Set(c, [req[c] EXCEPT !.asked = ask, !.waiting = ask \cup {req[c].node}, !.at = "asking"])
    /\ UNCHANGED <<todo, data, tombs, cache, peers, registry, acked>>

FlushOn(c, n) ==
    /\ At(c, "asking") /\ n \in req[c].waiting
    /\ \/ Flushed(n) /\ Set(c, [req[c] EXCEPT !.waiting = @ \ {n}]) /\ UNCHANGED plan
       \/ /\ Fault
          /\ Set(c, [req[c] EXCEPT !.waiting = @ \ {n}, !.failed = TRUE]) /\ UNCHANGED data
    /\ UNCHANGED <<todo, tombs, cache, peers, registry, acked>>

\* Every call has returned, or REFRESH_WAIT_LIMIT has passed.
Refreshed(c) ==
    /\ At(c, "asking")
    /\ IF req[c].waiting = {} THEN UNCHANGED plan ELSE Fault
    /\ Go(c, IF req[c].waiting = {} /\ ~req[c].failed THEN "ok" ELSE "error")
    /\ UNCHANGED <<todo, data, tombs, cache, peers, registry, acked>>

----------------------------------------------------------------------------
\* Meanwhile: workers flush, cached lists expire, nodes heartbeat or pause,
\* and an operator drains a node.
WorkerFlush(n) ==
    /\ buffer[n] # {} /\ Flushed(n)
    /\ UNCHANGED <<plan, todo, req, tombs, cache, peers, registry, acked>>

ExpireTombstones(n) ==
    /\ cache[n].fresh /\ cache' = [cache EXCEPT ![n].fresh = FALSE]
    /\ UNCHANGED <<plan, todo, req, data, tombs, peers, registry, acked>>

ExpirePeers(n) ==
    /\ peers[n].fresh /\ peers' = [peers EXCEPT ![n].fresh = FALSE]
    /\ UNCHANGED <<plan, todo, req, data, tombs, cache, registry, acked>>

Heartbeat(n) ==
    /\ beating' = beating \cup {n}
    /\ draining' = IF n \in flag THEN draining \cup {n} ELSE draining \ {n}
    /\ UNCHANGED <<plan, todo, req, data, tombs, cache, peers, flag, acked>>

Lapse(n) ==
    /\ n \in beating /\ Spend("lapses") /\ beating' = beating \ {n}
    /\ UNCHANGED <<todo, req, data, tombs, cache, peers, flag, draining, acked>>

SetDraining(n) ==
    /\ Spend("drains") /\ flag' = IF n \in flag THEN flag \ {n} ELSE flag \cup {n}
    /\ UNCHANGED <<todo, req, data, tombs, cache, peers, beating, draining, acked>>

----------------------------------------------------------------------------
Init ==
    /\ plan \in Plans /\ todo = plan.todo /\ published = plan.published
    /\ req = [c \in Clients |-> Idle]
    /\ buffer = [n \in Nodes |-> {}] /\ holders = [d \in Docs |-> {}]
    /\ rows = {} /\ ordinal = [d \in Docs |-> 0] /\ drawn = 0
    /\ cache = [n \in Nodes |-> NoList]
    /\ peers = [n \in Nodes |-> [list |-> {}, fresh |-> FALSE]]
    /\ beating = Nodes /\ flag = {} /\ draining = {}
    /\ acked = [writes |-> {}, deletes |-> {}, own |-> {}]

Serve(c) ==
    \/ Refuse(c) \/ PickTarget(c) \/ Receive(c) \/ HandoffFails(c)
    \/ Store(c) \/ DrawOrdinal(c) \/ UpsertRows(c) \/ UpsertFails(c) \/ Invalidate(c) \/ Cut(c)
    \/ Reply(c) \/ ReplyLost(c)
    \/ ReadSplits(c) \/ UseCache(c) \/ FetchRows(c) \/ StoreRows(c) \/ Search(c) \/ Round(c)
    \/ AskAll(c) \/ (\E n \in Nodes : FlushOn(c, n)) \/ Refreshed(c)

Next ==
    \/ \E c \in Clients : Serve(c) \/ \E n \in Nodes : Send(c, n)
    \/ \E n \in Nodes : \/ WorkerFlush(n) \/ ExpireTombstones(n) \/ ExpirePeers(n)
                        \/ Heartbeat(n) \/ Lapse(n) \/ SetDraining(n)

Spec == Init /\ [][Next]_vars

\* Handlers run: every call they make has a timeout.
FairSpec == Spec /\ \A c \in Clients : WF_vars(Serve(c))

----------------------------------------------------------------------------
\* A batch is taken by exactly one node; only when a call between nodes failed
\* may a second one hold it too, and never a third: a handed-off batch is not
\* handed on, and a refusal leaves nothing behind (execute_bulk, bulk_internal).
StoredOnce ==
    \A d \in Docs :
        /\ d \in acked.writes => holders[d] # {}
        /\ Cardinality(holders[d]) <= IF "faults" \in plan.spent THEN 2 ELSE 1

\* A refresh that reports success made every write acknowledged before it
\* searchable, on whichever node it is buffered, draining nodes included: as
\* long as the registry could be read and no living node's heartbeat lapsed.
\* A write with ?refresh is searchable when it is answered in time.
RefreshSees ==
    \A c \in Clients :
        At(c, "ok") =>
            /\ (req[c].kind = "refresh" /\ req[c].asked # {} /\ "lapses" \notin plan.spent)
                  => req[c].before \subseteq published
            /\ (req[c].kind = "write" /\ req[c].refresh /\ ~req[c].failed)
                  => req[c].docs \subseteq published

\* A delete_by_query that succeeds has tombstoned every document that was
\* published when it began, over however many rounds, stale lists and handoffs.
QueryDeleted ==
    \A c \in Clients : (req[c].kind = "byQuery" /\ At(c, "ok")) => req[c].before \subseteq rows

\* Every request is answered, also one handed to a peer that drains or fails.
Answered ==
    \A c \in Clients :
        req[c].at \notin {"idle", "ok", "error"} ~> req[c].at \in {"idle", "ok", "error"}

\* A node's tombstone list lacks no row at or below an ordinal it has read, so extending it from
\* its last ordinal finds the rest: rows of one stream commit in the order of their ordinals,
\* whoever writes them (upsert_tombstones, tombstones_for).
ListComplete == \A n \in Nodes : \A d \in rows : d \in cache[n].rows \/ d \in Since(cache[n].seqs)

\* A delete is visible to the next search on the node that handled it, within
\* the second its cached list would be good for, unless the node was reading
\* the rows meanwhile: that older list is then stored as fresh.
OwnDeleteHidden ==
    \A c \in Clients : (req[c].kind = "search" /\ At(c, "ok")) => req[c].out \cap req[c].before = {}
=============================================================================
