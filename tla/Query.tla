------------------------------- MODULE Query -------------------------------
(***************************************************************************)
(* The Elasticsearch query language (rsearch-search/src/query_dsl.rs): how  *)
(* a query object is translated for one split's schema, which requests are *)
(* refused, and the time bounds by which splits are pruned before any of    *)
(* them is opened.                                                          *)
(*                                                                         *)
(* A query is a record whose q field names its kind; f is a field name (a  *)
(* path), v a JSON scalar, ci the case_insensitive flag:                   *)
(*   all | bool [must, filter, should, mustNot: sets of queries]            *)
(*   term [f, v, ci] | terms [f, vs] | ids [vs] | exists [f]                *)
(*   range [f, lower, upper: sequences of [incl, v]: the gt and gte, the    *)
(*     lt and lte the body has]                                             *)
(*   prefix [f, s, ci] | wildcard [f, s, ci]                                *)
(*   match [f, v, conj] | phrase [f, v] | qs [s, fields, conj]              *)
(* The index library evaluates a translated query against a document's      *)
(* postings; Accepts is translation and evaluation together, for a query   *)
(* that translates (~Refused).                                              *)
(***************************************************************************)
EXTENDS Mapping

CONSTANT MaxIds        \* MAX_IDS_VALUES

------------------------------------------------------------------------------
(* Names and terms. *)

TimestampAliases == {<<"@timestamp">>, <<"timestamp">>, <<"_timestamp">>}

Target(kind, ty, field) == [kind |-> kind, ty |-> ty, field |-> field]

Resolve(schema, f) ==
    IF f \in TimestampAliases THEN Target("timestamp", "date", <<>>)
    ELSE IF f \in DOMAIN schema.fields THEN Target("typed", TypeOf(schema.fields[f]), Typed(f))
    ELSE IF f = <<"_id">> /\ HasIds(schema) THEN Target("typed", "keyword", IdField)
    ELSE IF f = <<"_seq">> /\ HasIds(schema) THEN Target("typed", "long", SeqField)
    ELSE IF Len(f) > 1 /\ Last(f) = "keyword"
         THEN Target(IF HasRaw(schema) THEN "keyword" ELSE "absent", "keyword", Raw(Front(f)))
    ELSE Target("dynamic", "any", Dynamic(f))

\* Mutant: query input is not normalized.
NoNormalizer(schema, f) == <<>>

FieldNormalizer(schema, f) ==
    IF f \in DOMAIN schema.fields THEN schema.fields[f].normalizer ELSE <<>>

BadTerm == <<"bad", <<>>>>

\* parse_time_millis: as at index time, except that a float is always seconds.
QueryMillis(v) == IF v.k = "float" THEN (v.v[1] * Scale) \div 2 ELSE DateOf(v)

TypedTerm(ty, normalizer, v) ==
    LET numeral == v.k = "str" /\ IsNumeral(v.v)
    IN  CASE ty \in {"keyword", "text"} -> <<"str", Normalize(normalizer, TextOf(v))>>
          [] ty = "long" /\ v.k = "int" -> <<"long", <<v.v[1] \div 2>>>>
          [] ty = "long" /\ numeral /\ Halves(v.v) % 2 = 0 -> <<"long", <<Halves(v.v) \div 2>>>>
          [] ty = "double" /\ v.k \in {"int", "float"} -> <<"double", v.v>>
          [] ty = "double" /\ numeral -> <<"double", <<Halves(v.v)>>>>
          [] ty = "boolean" /\ v.k = "bool" -> <<"bool", v.v>>
          [] ty = "boolean" /\ v.k = "str" /\ v.v \in {<<0>>, <<2>>} -> <<"bool", <<v.v[1] \div 2>>>>
          [] ty = "date" /\ IsDate(v) -> <<"date", <<QueryMillis(v)>>>>
          [] ty = "ip" /\ v.k = "str" /\ Len(v.v) = 1 /\ v.v[1] \in Ips -> <<"ip", v.v>>
          [] OTHER -> BadTerm

DynamicTerm(v) == IF v.k = "str" THEN <<"str", v.v>> ELSE <<v.k, v.v>>
\* Mutant: the exact-value term is lower-cased like a token.
FoldedRawTerm(v) == <<"str", Lower(TextOf(v))>>
RawTerm(v) == <<"str", TextOf(v)>>

\* The term a value becomes on a field (also the end points of a range).
TermFor(schema, f, v) ==
    LET t == Resolve(schema, f)
    IN  CASE t.kind \in {"timestamp", "typed"} -> TypedTerm(t.ty, FieldNormalizer(schema, f), v)
          [] t.kind = "dynamic" -> DynamicTerm(v)
          [] OTHER -> RawTerm(v)

IsStringField(schema, f) ==
    LET t == Resolve(schema, f)
    IN  t.kind \in {"dynamic", "keyword", "absent"} \/ (t.kind = "typed" /\ t.ty \in {"keyword", "text"})

------------------------------------------------------------------------------
(* Evaluation against one document [ts, postings]. *)

\* The terms of a document in the field a name resolves to.
TermsOf(schema, doc, f) ==
    LET t == Resolve(schema, f)
    IN  CASE t.kind = "timestamp" -> {<<"date", <<doc.ts>>>>}
          [] t.kind = "absent" -> {}
          [] OTHER -> {p.t : p \in {x \in doc.postings : x.f = t.field}}

\* The column exists, range and aggregations read: whole values for a dynamic path.
ColumnOf(schema, doc, f) ==
    LET t == Resolve(schema, f)
    IN  IF t.kind = "dynamic" THEN {p.t : p \in {x \in doc.postings : x.f = Fast(f)}}
        ELSE TermsOf(schema, doc, f)

StringsOf(schema, doc, f) == {t[2] : t \in {x \in TermsOf(schema, doc, f) : x[1] = "str"}}

TermQuery(schema, doc, f, v) == TermFor(schema, f, v) \in TermsOf(schema, doc, f)

\* Values of one kind compare as numbers, strings symbol by symbol.
TermLess(a, b) ==
    /\ a[1] = b[1]
    /\ LET differ == {i \in 1..Min({Len(a[2]), Len(b[2])}) : a[2][i] # b[2][i]}
       IN  IF differ = {} THEN Len(a[2]) < Len(b[2])
           ELSE a[2][Min(differ)] < b[2][Min(differ)]

\* Of two bounds on one side the last one counts.
RangeQuery(schema, doc, q) ==
    LET End(bounds) == TermFor(schema, q.f, Last(bounds).v)
    IN  \E t \in ColumnOf(schema, doc, q.f) :
            /\ q.lower # <<>> => TermLess(End(q.lower), t) \/ (Last(q.lower).incl /\ t = End(q.lower))
            /\ q.upper # <<>> => TermLess(t, End(q.upper)) \/ (Last(q.upper).incl /\ t = End(q.upper))

\* Wildcard symbols: AnyRun is `*`, AnyOne is `?`.
AnyRun == -1
AnyOne == -2

RECURSIVE WildcardMatch(_, _)
WildcardMatch(pattern, s) ==
    IF pattern = <<>> THEN s = <<>>
    ELSE IF Head(pattern) = AnyRun
         THEN \E n \in 0..Len(s) : WildcardMatch(Tail(pattern), SubSeq(s, n + 1, Len(s)))
         ELSE /\ s # <<>>
              /\ Head(pattern) \in {AnyOne, Head(s)}
              /\ WildcardMatch(Tail(pattern), Tail(s))

\* Which whole strings each kind of pattern matches.
PatternMatch(how, pattern, x) ==
    CASE how = "term"     -> pattern = x
      [] how = "prefix"   -> IsPrefix(pattern, x)
      [] how = "wildcard" -> WildcardMatch(pattern, x)

\* term, prefix and wildcard over the strings of a field, folding case when asked.
PatternQuery(schema, doc, how, f, s, ci) ==
    LET p == Normalize(FieldNormalizer(schema, f), s)
    IN  \E x \in StringsOf(schema, doc, f) :
            IF ci THEN PatternMatch(how, Lower(p), Lower(x)) ELSE PatternMatch(how, p, x)

HasToken(schema, doc, f, token) == <<"str", token>> \in TermsOf(schema, doc, f)

PhraseQuery(schema, doc, f, tokens) ==
    \E base \in {p.p : p \in doc.postings} : \A i \in DOMAIN tokens :
        Posting(Resolve(schema, f).field, <<"str", tokens[i]>>, base + i - 1) \in doc.postings

\* The clauses of a match, `found` the ones the document has: all of them, or one.
Combine(conj, clauses, found) ==
    IF conj THEN clauses # {} /\ clauses \subseteq found ELSE clauses \cap found # {}

\* A match is analysed on a text field and on a dynamic path, and is a term elsewhere.
Analysed(schema, f) ==
    LET t == Resolve(schema, f) IN t.kind = "dynamic" \/ (t.kind = "typed" /\ t.ty = "text")

MatchQuery(schema, doc, q) ==
    IF Analysed(schema, q.f)
    THEN LET tokens == Range(Tokens(TextOf(q.v)))
         IN  Combine(q.conj, tokens, {t \in tokens : HasToken(schema, doc, q.f, t)})
    ELSE TermQuery(schema, doc, q.f, q.v)

MatchPhrase(schema, doc, q) ==
    IF Analysed(schema, q.f)
    THEN LET tokens == Tokens(TextOf(q.v))
         IN  tokens # <<>> /\ PhraseQuery(schema, doc, q.f, tokens)
    ELSE TermQuery(schema, doc, q.f, q.v)

\* query_string: the mapped string fields are parsed together, so under AND each word
\* may come from a different one; every dynamic or .keyword path is parsed on its own.
DynamicPaths(postings) ==
    {p.f[2] : p \in {x \in postings : x.f[1] = "dynamic" /\ x.t[1] = "str"}}

DefaultFields(schema, q) ==
    IF q.fields = {} THEN {f \in DOMAIN schema.fields : TypeOf(schema.fields[f]) = "text"}
    ELSE {f \in q.fields : Resolve(schema, f).kind = "typed" /\ IsStringField(schema, f)}

PathFields(schema, doc, q) ==
    IF q.fields = {} THEN DynamicPaths(doc.postings)
    ELSE {f \in q.fields : Resolve(schema, f).kind \in {"dynamic", "keyword"}}

WordIn(schema, doc, f, word) ==
    HasToken(schema, doc, f, IF Analysed(schema, f) THEN Tokens(word)[1] ELSE word)

QueryString(schema, doc, q) ==
    LET words == {<<q.s[i]>> : i \in {k \in DOMAIN q.s : q.s[k] # Blank}}
        together == DefaultFields(schema, q)
        Found(fields) == {w \in words : \E f \in fields : WordIn(schema, doc, f, w)}
    IN  \/ Combine(q.conj, words, Found(together))
        \/ \E f \in PathFields(schema, doc, q) : Combine(q.conj, words, Found({f}))

RECURSIVE Accepts(_, _, _)
Accepts(schema, doc, q) ==
    CASE q.q = "all" -> TRUE
      [] q.q = "bool" ->
            LET must == q.must \cup q.filter
            IN  /\ \A c \in must : Accepts(schema, doc, c)
                /\ \A c \in q.mustNot : ~Accepts(schema, doc, c)
                /\ must = {} /\ q.should # {} => \E c \in q.should : Accepts(schema, doc, c)
      [] q.q = "term" ->
            IF q.ci THEN PatternQuery(schema, doc, "term", q.f, TextOf(q.v), TRUE)
            ELSE TermQuery(schema, doc, q.f, q.v)
      [] q.q = "terms" -> \E v \in q.vs : TermQuery(schema, doc, q.f, v)
      [] q.q = "ids" -> \E v \in q.vs : TermQuery(schema, doc, <<"_id">>, v)
      [] q.q = "range" -> RangeQuery(schema, doc, q)
      [] q.q \in {"prefix", "wildcard"} -> PatternQuery(schema, doc, q.q, q.f, q.s, q.ci)
      [] q.q = "exists" ->
            IF Resolve(schema, q.f).kind = "dynamic"
            THEN \E p \in doc.postings : p.f[1] = "fast" /\ IsPrefix(q.f, p.f[2])
            ELSE ColumnOf(schema, doc, q.f) # {}
      [] q.q = "match" -> MatchQuery(schema, doc, q)
      [] q.q = "phrase" -> MatchPhrase(schema, doc, q)
      [] q.q = "qs" -> QueryString(schema, doc, q)

------------------------------------------------------------------------------
(* Refusals: the requests translation answers with an error. *)

BadValue(schema, f, v) == Resolve(schema, f).kind # "absent" /\ TermFor(schema, f, v) = BadTerm

RECURSIVE Refused(_, _)
Refused(schema, q) ==
    CASE q.q = "bool" ->
            \E c \in q.must \cup q.filter \cup q.should \cup q.mustNot : Refused(schema, c)
      [] q.q = "term" -> IF q.ci THEN ~IsStringField(schema, q.f) ELSE BadValue(schema, q.f, q.v)
      [] q.q = "terms" -> \E v \in q.vs : BadValue(schema, q.f, v)
      [] q.q = "ids" -> Cardinality(q.vs) > MaxIds
      [] q.q = "range" ->
            \E b \in Range(q.lower \o q.upper) : BadValue(schema, q.f, b.v)
      [] q.q \in {"prefix", "wildcard"} -> ~IsStringField(schema, q.f)
      [] q.q = "exists" -> \* the index library refuses a field without a fast column
            LET t == Resolve(schema, q.f) IN t.kind = "typed" /\ t.ty = "text"
      [] q.q \in {"match", "phrase"} -> ~Analysed(schema, q.f) /\ BadValue(schema, q.f, q.v)
      [] q.q = "qs" ->
            /\ q.fields # {}
            /\ \A f \in q.fields :
                   LET t == Resolve(schema, f)
                   IN  t.kind = "timestamp" \/ (t.kind = "typed" /\ t.ty \notin {"keyword", "text"})
      [] OTHER -> FALSE

------------------------------------------------------------------------------
(* Pruning: the bounds a query puts on the timestamp, from conjunctive      *)
(* positions only.  A bound is kept as given even when exclusive, and of    *)
(* two on one side the narrower one counts.                                 *)

\* Mutant: bounds are harvested from should clauses as well.
RECURSIVE LowerBoundsAnywhere(_)
LowerBoundsAnywhere(q) ==
    CASE q.q = "range" /\ q.f \in TimestampAliases ->
            {QueryMillis(b.v) : b \in {x \in Range(q.lower) : IsDate(x.v)}}
      [] q.q = "bool" -> UNION {LowerBoundsAnywhere(c) : c \in q.must \cup q.filter \cup q.should}
      [] OTHER -> {}

RECURSIVE LowerBounds(_)
LowerBounds(q) ==
    CASE q.q = "range" /\ q.f \in TimestampAliases ->
            {QueryMillis(b.v) : b \in {x \in Range(q.lower) : IsDate(x.v)}}
      [] q.q = "bool" -> UNION {LowerBounds(c) : c \in q.must \cup q.filter}
      [] OTHER -> {}

RECURSIVE UpperBounds(_)
UpperBounds(q) ==
    CASE q.q = "range" /\ q.f \in TimestampAliases ->
            {QueryMillis(b.v) : b \in {x \in Range(q.upper) : IsDate(x.v)}}
      [] q.q = "bool" -> UNION {UpperBounds(c) : c \in q.must \cup q.filter}
      [] OTHER -> {}

\* splits_for_query keeps a split whose range meets the bounds.
Kept(q, lo, hi) ==
    /\ LowerBounds(q) # {} => hi >= Max(LowerBounds(q))
    /\ UpperBounds(q) # {} => lo <= Min(UpperBounds(q))
==============================================================================
