----------------------------- MODULE FieldSort -----------------------------
(***************************************************************************)
(* Sorting hits and resuming after a cursor (rsearch-search/src/sort.rs and *)
(* the timestamp order of rsearch-search/src/executor.rs).                  *)
(*                                                                         *)
(* A document is [n, ts, seq, keys, m]: its number, timestamp, write        *)
(* sequence (-1 in a split without sequences), the set of values of each    *)
(* field, and whether it matches the query.  Values are positive integers,  *)
(* ordered as the strings or longs they stand for; Missing is no value.     *)
(* A segment is a sequence of documents.                                    *)
(*                                                                         *)
(* An entry of a request's sort is [field, raw, desc, mode, missing,        *)
(* substitute, unmapped], raw for a name with the ".keyword" suffix; a      *)
(* resolved clause is [target, ty, desc, useMax, nullIsMax, substitute] and  *)
(* a plan is [kind, desc, clauses].                                         *)
(***************************************************************************)
EXTENDS Integers, Sequences, FiniteSets, SequencesExt, FiniteSetsExt

CONSTANTS
    LongMax,           \* i64::MAX; -LongMax stands for i64::MIN
    Mapped,            \* mapped field -> its type
    DynamicTypes       \* unmapped field of the published splits -> its value types

ASSUME LongAssumption == LongMax \in Nat \ {0}

Missing == -1
NoSeq == -1

------------------------------------------------------------------------------
(* The request's sort. *)

IsTimestamp(entry) == entry.field \in {"_timestamp", "@timestamp", "timestamp"}

\* SortField::parse: _score and _doc are no clauses.
SortFields(sort) == SelectSeq(sort, LAMBDA entry : entry.field \notin {"_score", "_doc"})

\* SortSpec::parse: clauses on the timestamp alone keep the timestamp order.
TimestampOnly(sort) ==
    \A entry \in Range(SortFields(sort)) : IsTimestamp(entry) /\ entry.missing = "none"

\* resolve_sort: where a clause reads its values and as what type, or "refused".
Resolved(entry) ==
    LET f == entry.field
        Typed(target, ty) == [target |-> target, ty |-> ty]
        Refuse == Typed("none", "refused")
        types == IF f \in DOMAIN DynamicTypes THEN DynamicTypes[f] ELSE {}
    IN  CASE IsTimestamp(entry) -> Typed("_timestamp", "long")
          [] f = "_seq" -> Typed("_seq", "long")
          [] f \in DOMAIN Mapped /\ ~entry.raw ->
                IF Mapped[f] = "text" THEN Refuse ELSE Typed(f, Mapped[f])
          [] entry.raw /\ f \notin DOMAIN Mapped /\ "string" \in types -> Typed(f, "keyword")
          [] ~entry.raw /\ f \notin DOMAIN Mapped /\ types # {} ->
                IF "string" \in types THEN Refuse ELSE Typed(f, "long")
          [] OTHER -> IF entry.unmapped = "none" THEN Refuse ELSE Typed("none", entry.unmapped)

\* Direction, mode and the place of missing values; a value as `missing` substitutes.
Clause(entry) ==
    [target |-> Resolved(entry).target, ty |-> Resolved(entry).ty, desc |-> entry.desc,
     useMax |-> IF entry.mode = "none" THEN entry.desc ELSE entry.mode = "max",
     nullIsMax |-> IF entry.missing = "_first" THEN entry.desc ELSE ~entry.desc,
     substitute |-> IF entry.missing = "value" THEN entry.substitute ELSE Missing]

Sortable(sort) ==
    TimestampOnly(sort) \/ \A entry \in Range(SortFields(sort)) : Resolved(entry).ty # "refused"

Plan(sort) ==
    LET fields == SortFields(sort)
    IN  IF TimestampOnly(sort)
        THEN [kind |-> "timestamp", desc |-> fields # <<>> => Last(fields).desc, clauses |-> <<>>]
        ELSE [kind |-> "fields", desc |-> TRUE,
              clauses |-> [i \in DOMAIN fields |-> Clause(fields[i])]]

\* The sort value a hit reports, and what a cursor value parses back to.
JsonNull == Missing
ToJson(clause, v) ==
    IF v # Missing THEN v
    ELSE IF clause.ty \in {"keyword", "ip"} THEN JsonNull
    ELSE IF clause.nullIsMax THEN LongMax ELSE -LongMax

ParseSortValue(clause, j) ==
    IF j = JsonNull \/ (clause.ty \notin {"keyword", "ip"} /\ j \in {LongMax, -LongMax}) THEN Missing ELSE j

------------------------------------------------------------------------------
(* Comparison. *)

\* cmp_natural, for values and for the keys of one segment alike.
Less(a, b, nullIsMax) ==
    IF a = Missing \/ b = Missing
    THEN a # b /\ (IF nullIsMax THEN b = Missing ELSE a = Missing)
    ELSE a < b

Before(clause, a, b) ==
    IF clause.desc THEN Less(b, a, clause.nullIsMax) ELSE Less(a, b, clause.nullIsMax)

\* The first field that tells the two keys apart decides.
KeysBefore(clauses, a, b) ==
    \E i \in DOMAIN clauses :
        /\ Before(clauses[i], a[i], b[i])
        /\ \A j \in 1..(i - 1) : a[j] = b[j]

\* The implicit tiebreak: later timestamp first, then higher sequence.
TieBefore(a, b) == a.ts > b.ts \/ (a.ts = b.ts /\ a.seq > b.seq)

\* cmp_hits and cmp_ranked on [values, ts, seq].
HitBefore(plan, a, b) ==
    IF plan.kind = "fields"
    THEN KeysBefore(plan.clauses, a.values, b.values) \/ (a.values = b.values /\ TieBefore(a, b))
    ELSE IF plan.desc THEN TieBefore(a, b) ELSE TieBefore(b, a)

------------------------------------------------------------------------------
(* One segment: strings are compared by their place in its dictionary.      *)

\* open_accessor: the column a clause reads.
Values(doc, clause) ==
    CASE clause.target = "_timestamp" -> {doc.ts}
      [] clause.target = "_seq" -> {doc.seq} \ {NoSeq}
      [] clause.target \in DOMAIN doc.keys -> doc.keys[clause.target]
      [] OTHER -> {}

Column(segment, clause) == UNION {Values(segment[d], clause) : d \in DOMAIN segment}

\* accessor.key: the largest or the smallest value.
Representative(doc, clause) ==
    LET values == Values(doc, clause)
    IN  IF values = {} THEN Missing ELSE IF clause.useMax THEN Max(values) ELSE Min(values)

\* key_for: odd for a term of the dictionary, even between two of them.
KeyFor(segment, clause, v) ==
    IF v = Missing \/ clause.ty # "keyword" THEN v
    ELSE LET below == {x \in Column(segment, clause) : x < v}
         IN  2 * Cardinality(below) + (IF v \in Column(segment, clause) THEN 1 ELSE 0)

\* keys_for: a document without the field takes the substitute.
DocKey(segment, clause, doc) ==
    LET v == Representative(doc, clause)
    IN  KeyFor(segment, clause, IF v = Missing THEN clause.substitute ELSE v)

\* harvest and materialize: a key back into the value it stands for.
Materialize(segment, clause, key) ==
    IF key = Missing THEN Missing
    ELSE IF clause.substitute # Missing /\ key = KeyFor(segment, clause, clause.substitute)
         THEN clause.substitute
    ELSE IF clause.ty # "keyword" THEN key
    ELSE LET exact == {x \in Column(segment, clause) : KeyFor(segment, clause, x) = key}
         IN  IF exact = {} THEN Missing ELSE CHOOSE x \in exact : TRUE

------------------------------------------------------------------------------
(* Cursors: a sequence of the values a hit reported, <<>> for none.         *)

\* after_cursor, in the segment's key space; c.ties holds 0, 1 or 2 tiebreak values.
AfterFields(clauses, ranked, c) ==
    \/ KeysBefore(clauses, c.values, ranked.values)
    \/ /\ c.values = ranked.values
       /\ c.ties # <<>>
       /\ c.ties[1] > ranked.ts \/ (c.ties[1] = ranked.ts /\ Len(c.ties) = 2 /\ ranked.seq < c.ties[2])

\* Variant: the cursor's own position is not left out.
AfterInclusive(desc, legacy, doc, c) ==
    IF desc THEN doc.ts < c[1] \/ (doc.ts = c[1] /\ doc.seq <= c[2])
    ELSE doc.ts > c[1] \/ (doc.ts = c[1] /\ doc.seq >= c[2])

\* cursor_clause: a split without sequences pages by timestamp, keeping the boundary only
\* for a descending cursor with a real sequence.
AfterTimestamp(desc, legacy, doc, c) ==
    LET past == IF desc THEN doc.ts < c[1] ELSE doc.ts > c[1]
        tie == doc.ts = c[1] /\ (IF desc THEN doc.seq < c[2] ELSE doc.seq > c[2])
    IN  \/ past
        \/ Len(c) = 2 /\ (IF legacy THEN desc /\ c[2] >= 0 /\ doc.ts = c[1] ELSE tie)

FieldCursor(plan, cursor) ==
    LET n == Len(plan.clauses)
    IN  [values |-> [i \in 1..n |-> ParseSortValue(plan.clauses[i], cursor[i])],
         ties |-> SubSeq(cursor, n + 1, Len(cursor))]

HitSort(plan, hit) ==
    IF plan.kind = "timestamp" THEN <<hit.ts, hit.seq>>
    ELSE [i \in DOMAIN plan.clauses |-> ToJson(plan.clauses[i], hit.values[i])] \o <<hit.ts, hit.seq>>

------------------------------------------------------------------------------
(* The best hits of a segment, and of several segments.                     *)

Hit(doc, values) == [n |-> doc.n, values |-> values, ts |-> doc.ts, seq |-> doc.seq]

Best(plan, hits, limit) ==
    LET Ahead(a, b) == HitBefore(plan, a, b) \/ (~HitBefore(plan, b, a) /\ a.n < b.n)
        sorted == [k \in 1..Cardinality(hits) |->
                     CHOOSE h \in hits : Cardinality({g \in hits : Ahead(g, h)}) = k - 1]
    IN  SubSeq(sorted, 1, Min({Len(sorted), limit}))

\* FieldSortSegmentCollector: rank, drop what is not past the cursor, keep the best, harvest.
CollectFields(plan, segment, docs, cursor, limit) ==
    LET F == DOMAIN plan.clauses
        ranked == {Hit(segment[d], [i \in F |-> DocKey(segment, plan.clauses[i], segment[d])])
                      : d \in docs}
        parsed == FieldCursor(plan, cursor)
        at == [values |-> [i \in F |-> KeyFor(segment, plan.clauses[i], parsed.values[i])],
               ties |-> parsed.ties]
        kept == {r \in ranked : cursor = <<>> \/ AfterFields(plan.clauses, r, at)}
        best == Best(plan, kept, limit)
    IN  {[h EXCEPT !.values = [i \in F |-> Materialize(segment, plan.clauses[i], h.values[i])]]
            : h \in Range(best)}

CollectTimestamp(plan, segment, docs, cursor, limit) ==
    LET kept == {d \in docs : cursor = <<>>
                    \/ AfterTimestamp(plan.desc, segment[d].seq = NoSeq, segment[d], cursor)}
    IN  Range(Best(plan, {Hit(segment[d], <<>>) : d \in kept}, limit))

\* A split's page candidates: the documents of `selected` past the cursor, best first.
SplitHits(plan, segments, selected, cursor, limit) ==
    LET docs(g) == {d \in DOMAIN segments[g] : segments[g][d].n \in selected}
        k == IF limit = 0 THEN 1 ELSE limit
    IN  Best(plan, UNION {IF plan.kind = "fields"
                          THEN CollectFields(plan, segments[g], docs(g), cursor, k)
                          ELSE CollectTimestamp(plan, segments[g], docs(g), cursor, k)
                          : g \in DOMAIN segments}, k)
==============================================================================
