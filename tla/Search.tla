------------------------------- MODULE Search -------------------------------
(***************************************************************************)
(* A client pages through a query: by search_after, by from/size or by a    *)
(* scroll (rsearch-server/src/search_api.rs, rsearch-metastore/src/scroll.rs),*)
(* each page being a search over the published splits                       *)
(* (rsearch-search/src/executor.rs).  Between and during pages splits are    *)
(* published, rebuilt into one another and lose tombstoned documents.        *)
(*                                                                         *)
(* A split is a sequence of segments (FieldSort).  A page searches the list  *)
(* of splits read when it starts; its split tasks run concurrently, share    *)
(* the counter of matches found so far and are merged at the end.            *)
(***************************************************************************)
EXTENDS FieldSort

CONSTANTS
    Library,            \* every document, by number
    Starts,             \* initial situations: [published, arriving, req, left]
    Concurrency,        \* SPLIT_SEARCH_CONCURRENCY
    MaxQuerySplits,
    MaxResultWindow,
    DefaultTrack        \* DEFAULT_TRACK_TOTAL_HITS

VARIABLES
    published,          \* the published splits
    arriving,           \* splits still to be published, in order
    deleted,            \* numbers of tombstoned documents
    req,                \* [mode, sort, size, track, limit, all, aggs], mode after, from,
                        \* scroll, count or alert
    plan,               \* req.sort as resolve_sort reads it, alike for every page
    phase,              \* of the client: idle, searching, done, refused, expired
    page,               \* the search in flight
    cursor,             \* the last hit's sort values, <<>> before there is one
    served,             \* document numbers received, in order
    total,              \* the total of the first page: [value, relation, matches]
    left,               \* bounds: rebuilds and deletes still to come
    early               \* numbers of the documents published from the start

vars == <<published, arriving, deleted, req, plan, phase, page, cursor, served, total, left, early>>
corpus == <<published, arriving, deleted, left>>
client == <<plan, cursor, served, total, early>>

------------------------------------------------------------------------------
(* Splits. *)

Docs(split) == UNION {Range(split[g]) : g \in DOMAIN split}
Numbers(docs) == {d.n : d \in docs}
TimeStart(split) == Min({d.ts : d \in Docs(split)})
TimeEnd(split) == Max({d.ts : d \in Docs(split)})

NoPage == [list |-> <<>>, gone |-> {}, hidden |-> <<>>, flag |-> <<>>, done |-> {}, counted |-> 0]
NoTotal == [value |-> 0, relation |-> "none", matches |-> 0]

Matching(d) == req.all \/ d.m
Selected(split, gone) == {d \in Docs(split) : Matching(d) /\ d.n \notin gone}

\* apply_tombstones folds the page's list into the exclusion set its reader shares with every
\* other search, so a split may also hide what was deleted after the page read its list.
Exclusions == {page.gone, deleted}

------------------------------------------------------------------------------
(* One page. *)

From == IF req.mode = "from" THEN Len(served) ELSE 0
After == IF req.mode = "from" THEN <<>> ELSE cursor

Unlimited == -1

\* track_total_hits as parsed; _count asks for everything, a scroll counts on its first page only.
RequestCap ==
    CASE req.mode = "count" -> Unlimited
      [] req.mode # "count" /\ req.track = "number" -> req.limit
      [] req.mode # "count" /\ req.track = "false" -> 0
      [] OTHER -> DefaultTrack
Cap == IF req.mode = "scroll" /\ total # NoTotal THEN 0 ELSE RequestCap

\* SearchRequest::parse and resolve_sort.
Refused == From + req.size > MaxResultWindow \/ ~Sortable(req.sort)

\* Variant: a split touching the boundary timestamp counts as outside.
OutsideOrTouching(split) ==
    /\ plan.kind = "timestamp"
    /\ After # <<>>
    /\ IF plan.desc THEN TimeStart(split) >= After[1] ELSE TimeEnd(split) <= After[1]

OutsideCursor(split) ==
    /\ plan.kind = "timestamp"
    /\ After # <<>>
    /\ IF plan.desc THEN TimeStart(split) > After[1] ELSE TimeEnd(split) < After[1]

\* Variant: a skipped count is reported as exact.
OutcomeExact(split, gone, skip) ==
    LET selected == Selected(split, gone)
        hits == SplitHits(plan, split, Numbers(selected), After, From + req.size)
    IN  [count |-> IF skip THEN Len(hits) ELSE Cardinality(selected), lower |-> FALSE, hits |-> Range(hits)]

\* search_one_split and the early return before it.
Outcome(split, gone, skip) ==
    LET selected == Selected(split, gone)
        hits == IF OutsideCursor(split) THEN <<>>
                ELSE SplitHits(plan, split, Numbers(selected), After, From + req.size)
        Found(count, lower) == [count |-> count, lower |-> lower, hits |-> Range(hits)]
        documents == Cardinality(Docs(split)) - Cardinality(Numbers(Docs(split)) \cap gone)
    IN  IF req.aggs THEN Found(Cardinality(selected), FALSE)
        ELSE IF skip /\ OutsideCursor(split) THEN Found(0, TRUE)
        ELSE IF req.all THEN Found(documents, FALSE)
        ELSE IF skip THEN Found(Len(hits), TRUE)
        ELSE Found(Cardinality(selected), FALSE)

StartPage ==
    /\ phase = "idle"
    /\ LET list == SetToSortSeq(published, LAMBDA a, b : TimeStart(a) < TimeStart(b))
       IN  IF Refused \/ Len(list) > MaxQuerySplits
           THEN phase' = "refused" /\ UNCHANGED page
           ELSE /\ phase' = "searching"
                /\ page' = [NoPage EXCEPT !.list = list, !.gone = deleted,
                                          !.hidden = [i \in DOMAIN list |-> {}],
                                          !.flag = [i \in DOMAIN list |-> "waiting"]]
    /\ UNCHANGED <<corpus, req, plan, cursor, served, total, early>>

\* buffered(N): tasks start in order, at most N past the finished prefix.
StartSplit(i) ==
    /\ phase = "searching"
    /\ page.flag[i] = "waiting"
    /\ \A j \in 1..(i - 1) : page.flag[j] # "waiting"
    /\ \A j \in 1..(i - Concurrency) : j \in page.done
    /\ page' = [page EXCEPT !.flag[i] = IF Cap >= 0 /\ page.counted >= Cap THEN "skip" ELSE "count"]
    /\ UNCHANGED <<corpus, req, phase, client>>

FinishSplit(i) ==
    /\ phase = "searching"
    /\ page.flag[i] # "waiting" /\ i \notin page.done
    /\ \E gone \in Exclusions :
         page' = [page EXCEPT !.done = @ \cup {i}, !.hidden[i] = gone,
                              !.counted = @ + Outcome(page.list[i], gone, page.flag[i] = "skip").count]
    /\ UNCHANGED <<corpus, req, phase, client>>

\* A split of the list was replaced and its object deleted before its task opened it.
FailPage(i) ==
    /\ phase = "searching"
    /\ page.flag[i] # "waiting" /\ i \notin page.done
    /\ page.list[i] \notin published
    /\ phase' = "idle" /\ page' = NoPage
    /\ UNCHANGED <<corpus, req, client>>

\* The merge of the outcomes, the response and the cursor the client or the scroll keeps.
MergePage ==
    /\ phase = "searching"
    /\ page.done = DOMAIN page.list
    /\ LET outcome == [i \in DOMAIN page.list |-> Outcome(page.list[i], page.hidden[i], page.flag[i] = "skip")]
           sorted == Best(plan, UNION {outcome[i].hits : i \in DOMAIN outcome}, From + req.size)
           hits == SubSeq(sorted, From + 1, Len(sorted))
           value == MapThenSumSet(LAMBDA i : outcome[i].count, DOMAIN outcome)
           lower == \E i \in DOMAIN outcome : outcome[i].lower
           matches == UNION {Selected(page.list[i], page.hidden[i]) : i \in DOMAIN page.list}
       IN  /\ served' = served \o [k \in DOMAIN hits |-> hits[k].n]
           /\ cursor' = IF hits = <<>> THEN cursor ELSE HitSort(plan, Last(hits))
           /\ phase' = IF hits = <<>> THEN "done" ELSE "idle"
           /\ total' = IF req.mode = "scroll" /\ total # NoTotal THEN total
                       ELSE [value |-> value, relation |-> IF lower THEN "gte" ELSE "eq",
                             matches |-> Cardinality(matches)]
    /\ page' = NoPage
    /\ UNCHANGED <<corpus, req, plan, early>>

\* The scroll's keep-alive passed: its context is purged and the next page is a 404.
ExpireScroll ==
    /\ phase = "idle" /\ req.mode = "scroll" /\ total # NoTotal
    /\ phase' = "expired"
    /\ UNCHANGED <<corpus, req, page, client>>

------------------------------------------------------------------------------
(* What happens to the splits meanwhile. *)

Publish ==
    /\ arriving # <<>>
    /\ published' = published \cup {Head(arriving)}
    /\ arriving' = Tail(arriving)
    /\ UNCHANGED <<deleted, left, req, phase, page, client>>

\* A tombstone names an _id, which a document without a sequence does not have.
Delete(n) ==
    /\ left.deletes > 0
    /\ n \in Numbers({d \in UNION {Docs(s) : s \in published} : d.seq # NoSeq}) \ deleted
    /\ deleted' = deleted \cup {n}
    /\ left' = [left EXCEPT !.deletes = @ - 1]
    /\ UNCHANGED <<published, arriving, req, phase, page, client>>

\* rebuild_splits: the surviving documents of the sources in one segment; a document
\* without identity gets one at sequence 0.
Rebuild(sources) ==
    /\ left.rebuilds > 0 /\ sources # {}
    /\ LET kept == {d \in UNION {Docs(s) : s \in sources} : d.n \notin deleted}
           order == SelectSeq([n \in DOMAIN Library |-> n], LAMBDA n : n \in Numbers(kept))
           Rewritten(d) == [d EXCEPT !.seq = IF @ = NoSeq THEN 0 ELSE @]
           segment == [i \in DOMAIN order |-> Rewritten(CHOOSE d \in kept : d.n = order[i])]
       IN  published' = (published \ sources) \cup (IF kept = {} THEN {} ELSE {<<segment>>})
    /\ left' = [left EXCEPT !.rebuilds = @ - 1]
    /\ UNCHANGED <<arriving, deleted, req, phase, page, client>>

------------------------------------------------------------------------------
Init ==
    /\ \E s \in Starts : /\ published = s.published /\ arriving = s.arriving
                         /\ req = s.req /\ plan = Plan(s.req.sort) /\ left = s.left
    /\ deleted = {} /\ phase = "idle" /\ page = NoPage
    /\ cursor = <<>> /\ served = <<>> /\ total = NoTotal
    /\ early = Numbers(UNION {Docs(s) : s \in published})

Searching ==
    \/ StartPage
    \/ \E i \in DOMAIN page.list : StartSplit(i) \/ FinishSplit(i) \/ FailPage(i)
    \/ MergePage

Next ==
    \/ Searching
    \/ ExpireScroll
    \/ Publish
    \/ \E s \in published : \E n \in Numbers(Docs(s)) : Delete(n)
    \/ \E sources \in SUBSET published : Rebuild(sources)

Spec == Init /\ [][Next]_vars

------------------------------------------------------------------------------
\* No published copy of the document still lacks a sequence.
Renumbered(n) == Library[n].seq = NoSeq /\ \A s \in published : \A d \in Docs(s) : d.n = n => d.seq # NoSeq

\* from/size has no cursor: its pages only tile a stream nothing is added to or removed from.
\* A sort by _seq keeps its order while no document is given the sequence it lacked.
Stable ==
    /\ req.mode = "from" => deleted = {} /\ Numbers(UNION {Docs(s) : s \in published}) = early
    /\ (\E c \in Range(plan.clauses) : c.target = "_seq") => \A n \in early : ~Renumbered(n)

\* The order the request asks for, over whole documents.
Rank(n) ==
    LET Value(c) == LET v == Representative(Library[n], c) IN IF v = Missing THEN c.substitute ELSE v
    IN  Hit(Library[n], [i \in DOMAIN plan.clauses |-> Value(plan.clauses[i])])

\* Neither document has a sequence, and the order does not tell them apart.
Tied(n, m) ==
    /\ Library[n].seq = NoSeq /\ Library[m].seq = NoSeq
    /\ ~HitBefore(plan, Rank(n), Rank(m)) /\ ~HitBefore(plan, Rank(m), Rank(n))

\* Across all its pages a client receives documents strictly in the requested order, so never one
\* twice (search_after, scroll and from/size over concurrently searched, rebuilt and newly
\* published splits).  Documents without a sequence that tie come in any order; an ascending
\* cursor at such a document (sequence -1) admits it again once a rebuild has made it sequence 0.
PagesInOrder ==
    Stable => \A i, j \in DOMAIN served : i < j =>
                \/ HitBefore(plan, Rank(served[i]), Rank(served[j]))
                \/ /\ Tied(served[i], served[j])
                   /\ served[i] = served[j] => ~plan.desc /\ Renumbered(served[i])

\* A client that pages to the end received every matching document that was published when it
\* started and was never deleted, but for documents without a sequence behind one that they tie
\* with (cursor_clause pages those by timestamp alone).
NoneSkipped ==
    (phase = "done" /\ req.size > 0 /\ Stable) =>
        \A n \in early \ deleted : Matching(Library[n]) =>
            n \in Range(served) \/ \E m \in Range(served) : Tied(n, m)

\* hits.total: "eq" is the number of matches in the splits searched, "gte" a lower bound reached
\* only once track_total_hits matches were counted (or none were asked for).
TotalHonest ==
    /\ total.relation = "eq" => total.value = total.matches
    /\ total.relation = "gte" => ~req.aggs /\ RequestCap <= total.value /\ total.value <= total.matches
==============================================================================
