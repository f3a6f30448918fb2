------------------------------ MODULE Mapping ------------------------------
(***************************************************************************)
(* Index mappings and the conversion of JSON documents into index terms    *)
(* (rsearch-index/src/{mapping,document,date,normalizer,tokenizer}.rs).     *)
(*                                                                         *)
(* Data.  A string is a sequence of symbols, each standing for one word of *)
(* one character.  A symbol is a number: 0 is "false", 2 is "true", every  *)
(* odd symbol is the capitalised form of the even one before it, and       *)
(* Numerals + 2h is the numeral of h halves ("1.5" for h = 3), in a form   *)
(* that is not a calendar date.  Blank is white space; a symbol below 0    *)
(* has no case.  A JSON value is one of                                    *)
(*    [k |-> "null"], [k |-> "str", v |-> symbols],                        *)
(*    [k |-> "bool", v |-> <<0>> or <<1>>],                                *)
(*    [k |-> "int", v |-> <<h>>], [k |-> "float", v |-> <<h>>] (h halves,  *)
(*       even for an int and odd for a float),                             *)
(*    [k |-> "arr", items |-> values], [k |-> "obj", m |-> name to value]. *)
(*                                                                         *)
(* A field declaration (FieldDef) is                                       *)
(*    [declared, normalizer, ignoreAbove, ignoreMalformed, fields];         *)
(* normalizer is the chain of filters it names (<<>> for none) and         *)
(* ignoreAbove is -1 when absent.  A mapping is [properties, normalizers]. *)
(*                                                                         *)
(* Indexing a document yields postings [f, t, p]: field f (a store and a   *)
(* path) holds term t at token position p.  A term is <<kind, data>>.      *)
(***************************************************************************)
EXTENDS Integers, Sequences, FiniteSets, SequencesExt, FiniteSetsExt

CONSTANTS
    Numerals,          \* first symbol that is a numeral
    Ips,               \* the symbols that parse as IP addresses
    Accents,           \* a function from symbols outside ASCII to the ones asciifolding makes of them
    Reserved,          \* the field names that begin with an underscore
    Tiers,             \* epoch thresholds: below Tiers[1] seconds, [2] millis, [3] micros
    Scale,             \* 1000 in the code: seconds to millis, millis to micros, ...
    LongLimit,         \* i64::MAX as f64
    SafeMillis,        \* MAX_SAFE_MILLIS
    KeywordIgnoreAbove \* KEYWORD_IGNORE_ABOVE, in symbols

------------------------------------------------------------------------------
Null == [k |-> "null"]

Blank == -3
Fold(c) == IF c < 0 \/ c >= Numerals THEN c ELSE c - (c % 2)
Shout(c) == IF c < 0 \/ c >= Numerals THEN c ELSE Fold(c) + 1
Lower(s) == [i \in DOMAIN s |-> Fold(s[i])]
IsNumeral(s) == Len(s) = 1 /\ s[1] >= Numerals
Halves(s) == (s[1] - Numerals) \div 2

\* The standard analyzer: one lower-case token per word.
Tokens(s) ==
    LET words == SelectSeq(s, LAMBDA c : c # Blank)
    IN  [i \in DOMAIN words |-> <<Fold(words[i])>>]

ApplyFilter(filter, s) ==
    LET ink == {i \in DOMAIN s : s[i] # Blank}
    IN  CASE filter = "lowercase" -> Lower(s)
          [] filter = "uppercase" -> [i \in DOMAIN s |-> Shout(s[i])]
          [] filter = "asciifolding" ->
                [i \in DOMAIN s |-> IF s[i] \in DOMAIN Accents THEN Accents[s[i]] ELSE s[i]]
          [] filter = "trim" -> IF ink = {} THEN <<>> ELSE SubSeq(s, Min(ink), Max(ink))

Normalize(filters, s) == FoldLeft(LAMBDA acc, f : ApplyFilter(f, acc), s, filters)

------------------------------------------------------------------------------
(* Dates. *)

Clamp(ms) == IF ms > SafeMillis THEN SafeMillis ELSE ms

EpochToMillis(n) ==
    Clamp(CASE n < Tiers[1] -> n * Scale
            [] n >= Tiers[1] /\ n < Tiers[2] -> n
            [] n >= Tiers[2] /\ n < Tiers[3] -> n \div Scale
            [] OTHER -> n \div (Scale * Scale))

\* The values parse_timestamp accepts, and what it makes of them.
IsDate(v) ==
    v.k \in {"int", "float"} \/ (v.k = "str" /\ IsNumeral(v.v) /\ Halves(v.v) % 2 = 0)

DateOf(v) ==
    CASE v.k = "str" -> EpochToMillis(Halves(v.v) \div 2)
      [] v.k = "int" -> EpochToMillis(v.v[1] \div 2)
      [] v.k = "float" /\ v.v[1] < 2 * Tiers[1] -> Clamp((v.v[1] * Scale) \div 2)
      [] OTHER -> EpochToMillis(v.v[1] \div 2)

------------------------------------------------------------------------------
(* Mappings. *)

TypeAliases ==
    [keyword |-> "keyword", text |-> "text", long |-> "long", integer |-> "long",
     short |-> "long", byte |-> "long", double |-> "double", float |-> "double",
     half_float |-> "double", boolean |-> "boolean", date |-> "date", ip |-> "ip"]

TypeOf(def) == TypeAliases[def.declared]

TakesIgnoreMalformed(ty) == ty \in {"long", "double", "date", "ip"}

\* FieldDef::from_json accepts a declaration when its parameters exist on its type,
\* and check_normalizer_references when the normalizers it names are defined.
RECURSIVE ValidDef(_, _)
ValidDef(def, normalizers) ==
    /\ def.declared \in DOMAIN TypeAliases
    /\ def.normalizer # <<>> => TypeOf(def) = "keyword" /\ def.normalizer \in normalizers
    /\ def.ignoreAbove # -1 => TypeOf(def) = "keyword"
    /\ def.ignoreMalformed => TakesIgnoreMalformed(TypeOf(def))
    /\ \A s \in DOMAIN def.fields : ValidDef(def.fields[s], normalizers)

ValidMapping(mapping) ==
    /\ DOMAIN mapping.properties \cap Reserved = {}
    /\ \A n \in DOMAIN mapping.properties : ValidDef(mapping.properties[n], mapping.normalizers)

\* put_mapping's merge: a declared field keeps its declaration and must keep its type.
Mergeable(existing, incoming) ==
    \A n \in DOMAIN existing.properties \cap DOMAIN incoming.properties :
        TypeOf(existing.properties[n]) = TypeOf(incoming.properties[n])

Merge(existing, incoming) ==
    [existing EXCEPT !.properties = @ @@ incoming.properties]

\* IndexMapping::paths: a property and, beneath it, its multi-fields.
RECURSIVE DefPaths(_, _)
DefPaths(path, def) ==
    {<<path, def>>} \cup
    UNION {DefPaths(Append(path, s), def.fields[s]) : s \in DOMAIN def.fields}

Paths(properties) == UNION {DefPaths(<<n>>, properties[n]) : n \in DOMAIN properties}

\* MappedSchema::build_versioned.
Schema(mapping, version) ==
    LET ps == Paths(mapping.properties)
    IN  [version |-> version, properties |-> mapping.properties,
         fields |-> [p \in {x[1] : x \in ps} |-> (CHOOSE x \in ps : x[1] = p)[2]]]

HasIds(schema) == schema.version >= 1
HasRaw(schema) == schema.version >= 2

------------------------------------------------------------------------------
(* Parsing one value for a mapped field: "nothing", "malformed" or a term.  *)

Nothing == <<"nothing", <<>>>>
Malformed == <<"malformed", <<>>>>

\* The text a scalar takes in a string field: numbers and booleans by their JSON form.
TextOf(v) ==
    CASE v.k = "str" -> v.v
      [] v.k = "bool" -> <<2 * v.v[1]>>
      [] v.k \in {"int", "float"} -> <<Numerals + 2 * v.v[1]>>

ParseNumber(v) ==
    CASE v.k \in {"int", "float"} -> <<"num", v.v>>
      [] v.k = "str" /\ v.v = <<>> -> Nothing
      [] v.k = "str" /\ IsNumeral(v.v) -> <<"num", <<Halves(v.v)>>>>
      [] OTHER -> Malformed

ParseFor(def, v) ==
    LET ty == TypeOf(def)
        n == ParseNumber(v)
    IN  IF v.k = "null" THEN Nothing
        ELSE CASE ty \in {"keyword", "text"} ->
                    IF v.k \in {"arr", "obj"} THEN Malformed ELSE <<"str", TextOf(v)>>
               [] ty = "long" ->
                    IF n[1] # "num" THEN n
                    ELSE IF n[2][1] % 2 = 1 \/ n[2][1] < 2 * LongLimit
                         THEN <<"long", <<n[2][1] \div 2>>>> ELSE Malformed
               [] ty = "double" -> IF n[1] = "num" THEN <<"double", n[2]>> ELSE n
               [] ty = "boolean" ->
                    CASE v.k = "bool" -> <<"bool", v.v>>
                      [] v.k = "str" /\ v.v = <<>> -> Nothing
                      [] v.k = "str" /\ v.v \in {<<0>>, <<2>>} -> <<"bool", <<v.v[1] \div 2>>>>
                      [] OTHER -> Malformed
               [] ty = "date" -> IF IsDate(v) THEN <<"date", <<DateOf(v)>>>> ELSE Malformed
               [] ty = "ip" ->
                    IF v.k = "str" /\ Len(v.v) = 1 /\ v.v[1] \in Ips
                    THEN <<"ip", v.v>> ELSE Malformed

Flatten(v) == IF v.k = "arr" THEN v.items ELSE <<v>>

------------------------------------------------------------------------------
(* Indexing and validating a mapped field.                                  *)

Typed(path) == <<"typed", path>>
Posting(f, t, p) == [f |-> f, t |-> t, p |-> p]

\* add_parsed: a string is dropped past ignore_above, normalized, and (text) tokenized.
AddParsed(def, f, t, base) ==
    IF t[1] # "str" THEN {Posting(f, t, base)}
    ELSE IF def.ignoreAbove # -1 /\ Len(t[2]) > def.ignoreAbove THEN {}
    ELSE IF TypeOf(def) = "text"
         THEN {Posting(f, <<"str", Tokens(t[2])[i]>>, base + i) : i \in DOMAIN Tokens(t[2])}
         ELSE {Posting(f, <<"str", Normalize(def.normalizer, t[2])>>, base)}

\* Positions of successive array items never touch, so no phrase spans two of them.
ItemGap == 100

RECURSIVE IndexMapped(_, _, _)
IndexMapped(path, def, v) ==
    LET items == Flatten(v)
        own == UNION {LET t == ParseFor(def, items[i])
                      IN  IF t \in {Nothing, Malformed} THEN {}
                          ELSE AddParsed(def, Typed(path), t, i * ItemGap)
                      : i \in DOMAIN items}
    IN  own \cup UNION {IndexMapped(Append(path, s), def.fields[s], v) : s \in DOMAIN def.fields}

RECURSIVE Dropped(_, _)
Dropped(def, v) ==
    LET items == Flatten(v)
        own == IF def.ignoreMalformed THEN 0
               ELSE Cardinality({i \in DOMAIN items : ParseFor(def, items[i]) = Malformed})
    IN  own + MapThenSumSet(LAMBDA s : Dropped(def.fields[s], v), DOMAIN def.fields)

\* Mutant: only the first item of an array is checked.
ValidateFirst(def, v) ==
    LET items == Flatten(v)
    IN  ~def.ignoreMalformed => ParseFor(def, items[1]) # Malformed

RECURSIVE ValidateMapped(_, _)
ValidateMapped(def, v) ==
    LET items == Flatten(v)
    IN  /\ ~def.ignoreMalformed => \A i \in DOMAIN items : ParseFor(def, items[i]) # Malformed
        /\ \A s \in DOMAIN def.fields : ValidateMapped(def.fields[s], v)

ValidateDocument(schema, doc) ==
    \A n \in DOMAIN doc \cap DOMAIN schema.properties :
        ValidateMapped(schema.properties[n], doc[n])

------------------------------------------------------------------------------
(* The dynamic stores: `_dynamic` (tokens, and whole values in its fast      *)
(* column) and `_dynamic_raw` (exact strings).                              *)

Dynamic(path) == <<"dynamic", path>>
Fast(path) == <<"fast", path>>
Raw(path) == <<"raw", path>>

RECURSIVE IndexDynamic(_, _, _)
IndexDynamic(path, v, base) ==
    CASE v.k = "null" -> {}
      [] v.k = "str" ->
            {Posting(Dynamic(path), <<"str", Tokens(v.v)[i]>>, base + i) : i \in DOMAIN Tokens(v.v)}
            \cup {Posting(Fast(path), <<"str", v.v>>, 0)}
      [] v.k \in {"int", "float", "bool"} ->
            {Posting(Dynamic(path), <<v.k, v.v>>, 0), Posting(Fast(path), <<v.k, v.v>>, 0)}
      [] v.k = "arr" -> UNION {IndexDynamic(path, v.items[i], i * ItemGap) : i \in DOMAIN v.items}
      [] v.k = "obj" -> UNION {IndexDynamic(Append(path, n), v.m[n], base) : n \in DOMAIN v.m}

\* keyword_projection and keyword_value: the strings short enough for a .keyword view.
RECURSIVE KeywordProjection(_, _)
KeywordProjection(path, v) ==
    CASE v.k = "str" -> IF Len(v.v) <= KeywordIgnoreAbove
                        THEN {Posting(Raw(path), <<"str", v.v>>, 0)} ELSE {}
      [] v.k = "arr" -> UNION {KeywordProjection(path, v.items[i]) : i \in DOMAIN v.items}
      [] v.k = "obj" -> UNION {KeywordProjection(Append(path, n), v.m[n]) : n \in DOMAIN v.m}
      [] OTHER -> {}

------------------------------------------------------------------------------
(* convert_with_source: the document's timestamp and its postings.          *)

ExtractTimestamp(doc, fallback) ==
    LET f == IF "@timestamp" \in DOMAIN doc THEN "@timestamp" ELSE "timestamp"
    IN  IF f \in DOMAIN doc /\ IsDate(doc[f]) THEN DateOf(doc[f]) ELSE fallback

IdField == Typed(<<"_id">>)
SeqField == Typed(<<"_seq">>)

\* identity is [id (a string), seq].
Convert(schema, doc, identity, fallback) ==
    LET mapped == DOMAIN doc \cap DOMAIN schema.properties
        unmapped == DOMAIN doc \ DOMAIN schema.properties
    IN  [ts |-> ExtractTimestamp(doc, fallback),
         postings |->
            (IF HasIds(schema)
             THEN {Posting(IdField, <<"str", identity.id>>, 0),
                   Posting(SeqField, <<"long", <<identity.seq>>>>, 0)} ELSE {})
            \cup UNION {IndexMapped(<<n>>, schema.properties[n], doc[n]) : n \in mapped}
            \cup UNION {IndexDynamic(<<n>>, doc[n], 0) : n \in unmapped}
            \cup (IF HasRaw(schema)
                  THEN UNION {KeywordProjection(<<n>>, doc[n]) : n \in unmapped} ELSE {}),
         dropped |-> MapThenSumSet(LAMBDA n : Dropped(schema.properties[n], doc[n]), mapped)]
==============================================================================
