-------------------------- MODULE FieldSortProofs ---------------------------
(* The comparison of hits is a strict order, comparing by the places in a     *)
(* segment's dictionary is comparing the values, and the cursor a hit reports *)
(* admits exactly the hits after it: for any sort, values and segment.        *)
EXTENDS FieldSort, FiniteSetTheorems, SequenceTheorems, TLAPS

Clauses == [target : STRING, ty : STRING, desc : BOOLEAN, useMax : BOOLEAN,
            nullIsMax : BOOLEAN, substitute : Int]
Plans == [kind : {"timestamp", "fields"}, desc : BOOLEAN, clauses : Seq(Clauses)]
Hits(plan) == [n : Int, values : [DOMAIN plan.clauses -> Int], ts : Int, seq : Int]

\* Missing values at one end leave the order of values strict (cmp_natural).
LEMMA LessOrder ==
    ASSUME NEW a \in Int, NEW b \in Int, NEW c \in Int, NEW m \in BOOLEAN
    PROVE  /\ ~Less(a, a, m)
           /\ Less(a, b, m) /\ Less(b, c, m) => Less(a, c, m)
           /\ a # b => Less(a, b, m) \/ Less(b, a, m)
BY DEF Less, Missing

\* The same of a clause, whichever its direction.
LEMMA BeforeOrder ==
    ASSUME NEW k \in Clauses, NEW a \in Int, NEW b \in Int, NEW c \in Int
    PROVE  /\ ~Before(k, a, a)
           /\ Before(k, a, b) /\ Before(k, b, c) => Before(k, a, c)
<1>1. k.nullIsMax \in BOOLEAN
  BY ZenonT(30) DEF Clauses
<1> QED
  BY <1>1, LessOrder DEF Before

\* The lexicographic order of the keys (cmp_ranked) is strict.
LEMMA KeysOrder ==
    ASSUME NEW ks \in Seq(Clauses),
           NEW a \in [DOMAIN ks -> Int], NEW b \in [DOMAIN ks -> Int], NEW c \in [DOMAIN ks -> Int]
    PROVE  /\ ~KeysBefore(ks, a, a)
           /\ KeysBefore(ks, a, b) /\ KeysBefore(ks, b, c) => KeysBefore(ks, a, c)
<1>0. DOMAIN ks \subseteq Int /\ \A i \in DOMAIN ks : ks[i] \in Clauses /\ 1..(i - 1) \subseteq DOMAIN ks
  OBVIOUS
<1>1. ~KeysBefore(ks, a, a)
  BY <1>0, BeforeOrder, ZenonT(30) DEF KeysBefore
<1>2. ASSUME KeysBefore(ks, a, b), KeysBefore(ks, b, c) PROVE KeysBefore(ks, a, c)
  <2>1. PICK i \in DOMAIN ks : Before(ks[i], a[i], b[i]) /\ \A j \in 1..(i - 1) : a[j] = b[j]
    BY <1>2, ZenonT(30) DEF KeysBefore
  <2>2. PICK h \in DOMAIN ks : Before(ks[h], b[h], c[h]) /\ \A j \in 1..(h - 1) : b[j] = c[j]
    BY <1>2, ZenonT(30) DEF KeysBefore
  <2>3. CASE i < h
    <3>1. b[i] = c[i] /\ \A j \in 1..(i - 1) : a[j] = c[j]
      BY <1>0, <2>1, <2>2, <2>3
    <3> QED  BY <2>1, <3>1, ZenonT(30) DEF KeysBefore
  <2>4. CASE h < i
    <3>1. a[h] = b[h] /\ \A j \in 1..(h - 1) : a[j] = c[j]
      BY <1>0, <2>1, <2>2, <2>4
    <3> QED  BY <2>2, <3>1, ZenonT(30) DEF KeysBefore
  <2>5. CASE h = i
    <3>1. Before(ks[i], a[i], c[i])
      BY <1>0, <2>1, <2>2, <2>5, BeforeOrder, ZenonT(30)
    <3> QED  BY <2>1, <2>2, <2>5, <3>1, ZenonT(30) DEF KeysBefore
  <2> QED  BY <1>0, <2>3, <2>4, <2>5
<1> QED  BY <1>1, <1>2, ZenonT(30)

\* cmp_hits never puts a hit before itself and is transitive, for every sort: the
\* merge of the splits' hits is one order, so no page repeats a hit.
THEOREM HitOrder ==
    ASSUME NEW plan \in Plans,
           NEW a \in Hits(plan), NEW b \in Hits(plan), NEW c \in Hits(plan)
    PROVE  /\ ~HitBefore(plan, a, a)
           /\ HitBefore(plan, a, b) /\ HitBefore(plan, b, c) => HitBefore(plan, a, c)
<1>1. /\ plan.clauses \in Seq(Clauses) /\ plan.kind \in {"timestamp", "fields"} /\ plan.desc \in BOOLEAN
      /\ \A h \in {a, b, c} : h.values \in [DOMAIN plan.clauses -> Int] /\ h.ts \in Int /\ h.seq \in Int
  BY ZenonT(30) DEF Plans, Hits
<1>2. /\ ~TieBefore(a, a)
      /\ TieBefore(a, b) /\ TieBefore(b, c) => TieBefore(a, c)
      /\ TieBefore(b, a) /\ TieBefore(c, b) => TieBefore(c, a)
  BY <1>1 DEF TieBefore
<1>3. /\ ~KeysBefore(plan.clauses, a.values, a.values)
      /\ KeysBefore(plan.clauses, a.values, b.values) /\ KeysBefore(plan.clauses, b.values, c.values)
           => KeysBefore(plan.clauses, a.values, c.values)
  BY <1>1, KeysOrder, ZenonT(30)
<1>4. CASE plan.kind = "fields"
  BY <1>1, <1>2, <1>3, <1>4, ZenonT(30) DEF HitBefore
<1>5. CASE plan.kind = "timestamp"
  BY <1>1, <1>2, <1>5, ZenonT(30) DEF HitBefore
<1> QED  BY <1>1, <1>4, <1>5, ZenonT(30)

-----------------------------------------------------------------------------
\* A cursor value parses back into the value it reports: a missing value too, as
\* long as the extreme longs that stand for it are no values.
LEMMA ParseInverts ==
    ASSUME NEW k \in Clauses, NEW v \in Int, v \notin {LongMax, -LongMax}
    PROVE  ParseSortValue(k, ToJson(k, v)) = v
<1>1. LongMax \in Nat /\ LongMax # 0
  BY LongAssumption, ZenonT(30)
<1>2. CASE v = Missing
  BY <1>1, <1>2, ZenonT(30) DEF ParseSortValue, ToJson, JsonNull, Missing
<1>3. CASE v # Missing
  BY <1>1, <1>3, ZenonT(30) DEF ParseSortValue, ToJson, JsonNull, Missing
<1> QED  BY <1>2, <1>3, ZenonT(30)

\* A part of a cursor has the cursor's values.
LEMMA PartOf ==
    ASSUME NEW n \in Nat, NEW c \in Seq(Int), Len(c) = n + 2
    PROVE  \A i \in 1 .. 2 : SubSeq(c, n + 1, n + 2)[i] = c[n + i]
BY SMTT(60)

\* The tiebreak is the last two values of a cursor.
LEMMA LastTwo ==
    ASSUME NEW n \in Nat, NEW c \in Seq(Int), Len(c) = n + 2
    PROVE  SubSeq(c, n + 1, Len(c)) = <<c[n + 1], c[n + 2]>>
<1> DEFINE two == SubSeq(c, n + 1, n + 2)
<1>1. two \in Seq(Int)
  OBVIOUS
<1>2. Len(two) = 2
  OBVIOUS
<1>3. \A i \in 1 .. 2 : two[i] = c[n + i]
  BY PartOf, ZenonT(30)
<1>4. SubSeq(c, n + 1, Len(c)) = two
  BY ZenonT(30)
<1> HIDE DEF two
<1>5. two = <<two[1], two[2]>>
  BY <1>1, <1>2
<1>6. two[1] = c[n + 1] /\ two[2] = c[n + 2]
  BY <1>3
<1> QED  BY <1>4, <1>5, <1>6, ZenonT(30)

\* The values and the tiebreak of a cursor are those of the hit that reported it.
LEMMA CursorReads ==
    ASSUME NEW plan \in Plans, plan.kind = "fields", NEW h \in Hits(plan),
           \A i \in DOMAIN plan.clauses : h.values[i] \notin {LongMax, -LongMax}
    PROVE  FieldCursor(plan, HitSort(plan, h)) = [values |-> h.values, ties |-> <<h.ts, h.seq>>]
<1> DEFINE ks == plan.clauses
           n == Len(ks)
           json == [i \in DOMAIN ks |-> ToJson(ks[i], h.values[i])]
           cursor == json \o <<h.ts, h.seq>>
<1>1. /\ ks \in Seq(Clauses) /\ n \in Nat /\ DOMAIN ks = 1..n
      /\ h.values \in [1..n -> Int] /\ h.ts \in Int /\ h.seq \in Int
  BY DEF Plans, Hits
<1>2. \A i \in 1..n : ToJson(ks[i], h.values[i]) \in Int
  BY <1>1, LongAssumption DEF ToJson, JsonNull, Missing
<1>3. json \in Seq(Int) /\ Len(json) = n
  BY <1>1, <1>2
<1>4. /\ Len(cursor) = n + 2 /\ cursor \in Seq(Int)
      /\ \A i \in 1..n : cursor[i] = ToJson(ks[i], h.values[i])
      /\ cursor[n + 1] = h.ts /\ cursor[n + 2] = h.seq
  BY <1>1, <1>2, <1>3, SMTT(60)
<1>5. HitSort(plan, h) = cursor
  BY ZenonT(30) DEF HitSort
<1> HIDE DEF json, cursor, n
<1>6. ASSUME NEW i \in 1..n PROVE ParseSortValue(ks[i], cursor[i]) = h.values[i]
  <2>1. ks[i] \in Clauses /\ h.values[i] \in Int /\ h.values[i] \notin {LongMax, -LongMax}
    BY <1>1, SMTT(60)
  <2> QED  BY <1>4, <2>1, ParseInverts, ZenonT(30)
<1>7. [i \in 1..n |-> ParseSortValue(ks[i], cursor[i])] = h.values
  BY <1>1, <1>6, ZenonT(30)
<1>8. SubSeq(cursor, n + 1, Len(cursor)) = <<h.ts, h.seq>>
  <2>1. n \in Nat /\ cursor \in Seq(Int) /\ Len(cursor) = n + 2
    BY <1>1, <1>4, ZenonT(30)
  <2> QED  BY <1>4, <2>1, LastTwo, ZenonT(30)
<1> QED  BY <1>5, <1>7, <1>8, ZenonT(30) DEF FieldCursor, n

\* A field sort's cursor admits exactly the hits that come after the hit that reported
\* it (hit_sort_json, FieldCursor::parse, after_cursor against cmp_hits): paging by
\* search_after or a scroll neither repeats nor skips a hit.
THEOREM FieldCursorExact ==
    ASSUME NEW plan \in Plans, plan.kind = "fields",
           NEW h \in Hits(plan), NEW x \in Hits(plan),
           \A i \in DOMAIN plan.clauses : h.values[i] \notin {LongMax, -LongMax}
    PROVE  AfterFields(plan.clauses, x, FieldCursor(plan, HitSort(plan, h))) <=> HitBefore(plan, h, x)
<1>1. FieldCursor(plan, HitSort(plan, h)) = [values |-> h.values, ties |-> <<h.ts, h.seq>>]
  BY CursorReads, ZenonT(30)
<1>2. h.ts \in Int /\ h.seq \in Int /\ x.ts \in Int /\ x.seq \in Int
  BY ZenonT(30) DEF Hits
<1>3. <<h.ts, h.seq>> # << >> /\ Len(<<h.ts, h.seq>>) = 2
      /\ <<h.ts, h.seq>>[1] = h.ts /\ <<h.ts, h.seq>>[2] = h.seq
  OBVIOUS
<1> QED  BY <1>1, <1>2, <1>3 DEF AfterFields, HitBefore, TieBefore

\* The same of the timestamp order, in either direction, in splits with sequences
\* (cursor_clause).
THEOREM TimestampCursorExact ==
    ASSUME NEW plan \in Plans, plan.kind = "timestamp", NEW h \in Hits(plan), NEW x \in Hits(plan)
    PROVE  AfterTimestamp(plan.desc, FALSE, x, HitSort(plan, h)) <=> HitBefore(plan, h, x)
<1>1. h.ts \in Int /\ h.seq \in Int /\ x.ts \in Int /\ x.seq \in Int /\ plan.desc \in BOOLEAN
  BY ZenonT(30) DEF Hits, Plans
<1>2. HitSort(plan, h) = <<h.ts, h.seq>>
  BY ZenonT(30) DEF HitSort
<1> QED  BY <1>1, <1>2 DEF AfterTimestamp, HitBefore, TieBefore

-----------------------------------------------------------------------------
\* Comparing the keys of a segment is comparing the values they stand for, also when
\* the cursor's value is not in the segment's dictionary (SegAccessor::key_for).
THEOREM DictionaryOrder ==
    ASSUME NEW segment, NEW k, k.ty = "keyword",
           Column(segment, k) \subseteq Nat, IsFiniteSet(Column(segment, k)),
           NEW x \in Column(segment, k), NEW v \in Nat
    PROVE  /\ KeyFor(segment, k, v) < KeyFor(segment, k, x) <=> v < x
           /\ KeyFor(segment, k, x) < KeyFor(segment, k, v) <=> x < v
           /\ KeyFor(segment, k, v) = KeyFor(segment, k, x) <=> v = x
<1> DEFINE below(w) == {y \in Column(segment, k) : y < w}
           size(w) == Cardinality(below(w))
<1>1. \A w \in Nat : IsFiniteSet(below(w)) /\ size(w) \in Nat
  BY FS_Subset, FS_CardinalityType, ZenonT(30)
<1>2. /\ KeyFor(segment, k, x) = 2 * size(x) + 1
      /\ KeyFor(segment, k, v) = 2 * size(v) + (IF v \in Column(segment, k) THEN 1 ELSE 0)
  BY DEF KeyFor, Missing
<1>3. ASSUME NEW a \in Nat, NEW b \in Nat, a <= b PROVE size(a) <= size(b)
  <2>1. below(a) \subseteq below(b) /\ IsFiniteSet(below(b))
    BY <1>1, <1>3
  <2> HIDE DEF below
  <2> QED  BY <2>1, FS_Subset, ZenonT(30)
<1>4. ASSUME NEW a \in Column(segment, k), NEW b \in Nat, a < b PROVE size(a) < size(b)
  <2>1. below(a) \subseteq below(b) /\ a \in below(b) /\ a \notin below(a)
    BY <1>4
  <2>2. IsFiniteSet(below(b)) /\ a \in Nat /\ size(a) \in Nat /\ size(b) \in Nat
    BY <1>1, ZenonT(30)
  <2> HIDE DEF below
  <2>3. below(a) \in SUBSET below(b) /\ below(a) # below(b)
    BY <2>1, ZenonT(30)
  <2>4. Cardinality(below(a)) <= Cardinality(below(b)) /\ Cardinality(below(a)) # Cardinality(below(b))
    BY <2>2, <2>3, FS_Subset, ZenonT(30)
  <2> HIDE DEF size
  <2>5. size(a) <= size(b) /\ size(a) # size(b)
    BY <2>4, ZenonT(30) DEF size
  <2> QED  BY <2>2, <2>5
<1>5. size(x) \in Nat /\ size(v) \in Nat
  BY <1>1, ZenonT(30)
<1>6. CASE v = x
  BY <1>2, <1>5, <1>6
<1>7. CASE v < x
  <2>1. size(v) <= size(x) /\ (v \in Column(segment, k) => size(v) < size(x))
    BY <1>3, <1>4, <1>7
  <2> HIDE DEF size
  <2>2. KeyFor(segment, k, v) < KeyFor(segment, k, x)
    BY <1>2, <1>5, <2>1
  <2> QED  BY <1>2, <1>5, <1>7, <2>2
<1>8. CASE x < v
  <2>1. size(x) < size(v)
    BY <1>4, <1>8, ZenonT(30)
  <2> HIDE DEF size
  <2>2. KeyFor(segment, k, x) < KeyFor(segment, k, v)
    BY <1>2, <1>5, <2>1
  <2> QED  BY <1>2, <1>5, <1>8, <2>2
<1>9. v = x \/ v < x \/ x < v
  OBVIOUS
<1> QED  BY <1>6, <1>7, <1>8, <1>9, ZenonT(30)
=============================================================================
