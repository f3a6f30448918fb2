------------------------------ MODULE Streams ------------------------------
(***************************************************************************)
(* One index name through its life: PUT /{index}, PUT /{index}/_mapping and *)
(* DELETE /{index} served by any node, document writes accepted by one      *)
(* ingest node under its cached view of the stream, flushes that re-read    *)
(* the mapping, and the splits they leave behind, each read back with the   *)
(* schema it was written with (rsearch-server/src/search_api.rs,            *)
(* rsearch-server/src/bulk_api.rs, rsearch-ingest/src/pipeline.rs,          *)
(* rsearch-metastore/src/metastore.rs).                                     *)
(*                                                                         *)
(* The write-ahead log, retries and crashes of the ingest node are the      *)
(* subject of Pipeline; here a flush is one step.                           *)
(***************************************************************************)
EXTENDS Query

CONSTANTS
    Clients,           \* concurrent administrative requests
    Bodies,            \* mappings a request may carry
    Documents,         \* JSON documents (functions from names to values)
    Starts,            \* histories to start from: [written, puts, writes], where written is a
                       \* set of [doc, mapping, version], a split each, and puts and writes
                       \* bound the administrative requests and writes that follow
    Queries            \* the queries the pruning property ranges over

VARIABLES
    row,               \* the streams row of the name: [id, mode, mapping], id 0 when absent
    lastId,            \* ids given out by the sequence
    handler,           \* per client, where its request stands
    info,              \* the ingest node's cached StreamInfo: [id, mode], id 0 when none
    schema,            \* the ingest node's cached schema, a sequence of at most one mapping
    queue,             \* accepted documents not yet flushed
    splits,            \* published splits, one document each
    acked,             \* fields acknowledged by PUT _mapping: [id, name, ty]
    left               \* requests and writes still allowed: [puts, writes]

vars == <<row, lastId, handler, info, schema, queue, splits, acked, left>>

NoRow == [id |-> 0, mode |-> "log", mapping |-> [properties |-> <<>>, normalizers |-> {}]]
NoInfo == [id |-> 0, mode |-> "log"]
EmptyMapping == NoRow.mapping
Idle == [pc |-> "idle"]
CurrentVersion == 2

Exists == row.id # 0
Holds(id) == \E s \in splits : s.stream = id

\* ensure_stream and ensure_stream_with_mode: an existing row keeps its mode.
Ensured(mode) ==
    IF Exists THEN row ELSE [id |-> lastId + 1, mode |-> mode, mapping |-> EmptyMapping]

------------------------------------------------------------------------------
(* PUT /{index}: ensure the row, change its mode while empty, replace its   *)
(* mapping; three statements.  mode is "none" when the body names none.     *)

AfterMode(body) == IF body = "none" THEN Idle ELSE [pc |-> "store", body |-> body]

PutIndex(c, mode, body) ==
    /\ handler[c] = Idle /\ left.puts > 0
    /\ body # "none" => ValidMapping(Bodies[body])
    /\ LET record == Ensured(IF mode = "none" THEN "log" ELSE mode)
       IN  /\ row' = record
           /\ lastId' = IF Exists THEN lastId ELSE lastId + 1
           /\ handler' = [handler EXCEPT ![c] =
                  IF mode \notin {"none", record.mode}
                  THEN [pc |-> "mode", mode |-> mode, body |-> body]
                  ELSE AfterMode(body)]
    /\ left' = [left EXCEPT !.puts = @ - 1]
    /\ UNCHANGED <<info, schema, queue, splits, acked>>

\* set_stream_mode; the serving node forgets its caches, which may be the ingest node's.
SetMode(c, local) ==
    /\ handler[c].pc = "mode"
    /\ IF Exists /\ ~Holds(row.id)
       THEN /\ row' = [row EXCEPT !.mode = handler[c].mode]
            /\ handler' = [handler EXCEPT ![c] = AfterMode(handler[c].body)]
            /\ info' = IF local THEN NoInfo ELSE info
            /\ schema' = IF local THEN <<>> ELSE schema
       ELSE /\ handler' = [handler EXCEPT ![c] = Idle]
            /\ UNCHANGED <<row, info, schema>>
    /\ UNCHANGED <<lastId, queue, splits, acked, left>>

\* update_stream_mapping: by name, whatever row has the name by now.
UpdateMapping(mapping) == row' = IF Exists THEN [row EXCEPT !.mapping = mapping] ELSE row

StoreMapping(c) ==
    /\ handler[c].pc = "store"
    /\ UpdateMapping(Bodies[handler[c].body])
    /\ acked' = {}   \* a whole mapping replaces the fields acknowledged before
    /\ handler' = [handler EXCEPT ![c] = Idle]
    /\ UNCHANGED <<lastId, info, schema, queue, splits, left>>

------------------------------------------------------------------------------
(* PUT /{index}/_mapping: read, merge, write. *)

ReadMapping(c, body) ==
    LET incoming == [properties |-> Bodies[body].properties, normalizers |-> row.mapping.normalizers]
    IN  /\ handler[c] = Idle /\ left.puts > 0 /\ Exists
        /\ ValidMapping(incoming)
        /\ Mergeable(row.mapping, incoming)
        /\ handler' = [handler EXCEPT ![c] =
               [pc |-> "merged", mapping |-> Merge(row.mapping, incoming), add |-> incoming]]
        /\ left' = [left EXCEPT !.puts = @ - 1]
        /\ UNCHANGED <<row, lastId, info, schema, queue, splits, acked>>

WriteMapping(c) ==
    /\ handler[c].pc = "merged"
    /\ UpdateMapping(handler[c].mapping)
    /\ acked' = IF Exists
                THEN acked \cup
                     {[id |-> row.id, name |-> n, ty |-> TypeOf(handler[c].mapping.properties[n])]
                         : n \in DOMAIN handler[c].add.properties}
                ELSE acked
    /\ handler' = [handler EXCEPT ![c] = Idle]
    /\ UNCHANGED <<lastId, info, schema, queue, splits, left>>

------------------------------------------------------------------------------
(* DELETE /{index}: retire_stream frees the name and unpublishes the splits. *)

DeleteIndex(local) ==
    /\ Exists /\ left.puts > 0
    /\ row' = NoRow
    /\ splits' = {s \in splits : s.stream # row.id}
    /\ info' = IF local THEN NoInfo ELSE info
    /\ schema' = IF local THEN <<>> ELSE schema
    /\ left' = [left EXCEPT !.puts = @ - 1]
    /\ UNCHANGED <<lastId, handler, queue, acked>>

------------------------------------------------------------------------------
(* Writes on the ingest node. *)

\* STREAM_INFO_TTL passes for one of the two caches.
ExpireInfo ==
    /\ info # NoInfo
    /\ info' = NoInfo
    /\ UNCHANGED <<row, lastId, handler, schema, queue, splits, acked, left>>

ExpireSchema ==
    /\ schema # <<>>
    /\ schema' = <<>>
    /\ UNCHANGED <<row, lastId, handler, info, queue, splits, acked, left>>

\* stream_schema: the cached mapping, or the stored one (nothing declared when absent).
SchemaFor(mapping) == IF schema # <<>> THEN schema[1] ELSE mapping

\* A document-mode write is validated against the cached schema and refused if malformed.
\* An explicit _id creates a document index and is refused by a log index.
Write(doc, explicit) ==
    LET record == IF info # NoInfo THEN row ELSE Ensured(IF explicit THEN "document" ELSE "log")
        seen == IF info # NoInfo THEN info ELSE [id |-> record.id, mode |-> record.mode]
        mapping == SchemaFor(record.mapping)
        documentMode == seen.mode = "document"
    IN  /\ left.writes > 0
        /\ explicit => documentMode
        /\ documentMode => ValidateDocument(Schema(mapping, CurrentVersion), doc)
        /\ row' = record
        /\ lastId' = IF record.id > lastId THEN record.id ELSE lastId
        /\ info' = seen
        /\ schema' = IF documentMode THEN <<mapping>> ELSE schema
        /\ queue' = Append(queue, [stream |-> seen.id, doc |-> doc, checked |-> documentMode, mapping |-> mapping])
        /\ left' = [left EXCEPT !.writes = @ - 1]
        /\ UNCHANGED <<handler, splits, acked>>

Identity == [id |-> <<>>, seq |-> 0]

SplitOf(stream, item, mapping, version) ==
    LET s == Schema(mapping, version)
    IN  [stream |-> stream, schema |-> s, json |-> item.doc,
         indexed |-> Convert(s, item.doc, Identity, 0),
         checked |-> item.checked, same |-> item.mapping = mapping]

\* flush: resolve_target re-reads the row; a deleted index takes its documents with it,
\* also when the name exists again.
Flush ==
    /\ queue # <<>>
    /\ splits' = splits \cup {SplitOf(row.id, item, row.mapping, CurrentVersion)
                              : item \in {x \in Range(queue) : Exists /\ x.stream = row.id}}
    /\ queue' = <<>>
    /\ UNCHANGED <<row, lastId, handler, info, schema, acked, left>>

------------------------------------------------------------------------------
Init ==
    /\ row = [id |-> 1, mode |-> "log", mapping |-> EmptyMapping]
    /\ lastId = 1
    /\ handler = [c \in Clients |-> Idle]
    /\ info = NoInfo /\ schema = <<>> /\ queue = <<>>
    /\ acked = {}
    /\ \E start \in Starts :
           /\ splits = {SplitOf(1, [doc |-> w.doc, checked |-> FALSE, mapping |-> w.mapping],
                                w.mapping, w.version) : w \in start.written}
           /\ left = [puts |-> start.puts, writes |-> start.writes]

Request(c) ==
    \/ \E m \in {"none", "log", "document"}, b \in {"none"} \cup DOMAIN Bodies : PutIndex(c, m, b)
    \/ \E local \in BOOLEAN : SetMode(c, local)
    \/ StoreMapping(c)
    \/ \E b \in DOMAIN Bodies : ReadMapping(c, b)
    \/ WriteMapping(c)

Next ==
    \/ \E c \in Clients : Request(c)
    \/ \E local \in BOOLEAN : DeleteIndex(local)
    \/ \E d \in Documents, explicit \in BOOLEAN : Write(d, explicit)
    \/ ExpireInfo
    \/ ExpireSchema
    \/ Flush

Spec == Init /\ [][Next]_vars
------------------------------------------------------------------------------
(* Properties. *)

\* validate_document and index_mapped agree: a document checked against the mapping it is
\* flushed with loses no value (document.rs, "Check one mapped value the way index_mapped
\* would index it").
CheckedKeepsAll == \A s \in splits : s.checked /\ s.same => s.indexed.dropped = 0

Equals(f, v) == [q |-> "term", f |-> f, v |-> v, ci |-> FALSE]
Anycase(f, v) == [q |-> "term", f |-> f, v |-> v, ci |-> TRUE]
Words(f, v) == [q |-> "match", f |-> f, v |-> v, conj |-> TRUE]
Phrase(f, v) == [q |-> "phrase", f |-> f, v |-> v]
Has(f) == [q |-> "exists", f |-> f]
Among(f, v) == [q |-> "terms", f |-> f, vs |-> {v}]
At(f, v) == [q |-> "range", f |-> f, lower |-> <<[incl |-> TRUE, v |-> v]>>, upper |-> <<[incl |-> TRUE, v |-> v]>>]

\* Patterns made from a string: a first part of it, and any one symbol of it left open (white
\* space excepted, which a normalizer may drop); case folded too.
Patterns(f, s) ==
    {[q |-> "prefix", f |-> f, s |-> SubSeq(s, 1, k), ci |-> ci] : k \in DOMAIN s, ci \in BOOLEAN}
    \cup {[q |-> "wildcard", f |-> f, s |-> [s EXCEPT ![k] = c], ci |-> ci]
            : k \in {i \in DOMAIN s : s[i] # Blank}, c \in {AnyRun, AnyOne}, ci \in BOOLEAN}
Anywhere(s) == [q |-> "qs", s |-> s, fields |-> {}, conj |-> TRUE]

\* A date given as a float of seconds past MAX_SAFE_MILLIS: indexing clamps it, or takes it for
\* millis, micros or nanos, and a query does neither.
FarDate(v) == v.k = "float" /\ v.v[1] * Scale > 2 * SafeMillis

\* The queries a user writes from a value v they see in field n of a document.
MappedProbes(f, def, v) ==
    LET ty == TypeOf(def)
    IN  CASE ty = "keyword" -> IF def.ignoreAbove # -1 /\ Len(TextOf(v)) > def.ignoreAbove THEN {}
                               ELSE {Equals(f, v), Anycase(f, v), Among(f, v), Words(f, v), At(f, v), Has(f)}
                                    \cup Patterns(f, TextOf(v))
          [] ty = "text" -> IF TextOf(v) = <<>> THEN {}
                            ELSE {Words(f, v), Phrase(f, v), Anywhere(TextOf(v))}
          [] ty = "long" -> IF ParseNumber(v)[2][1] % 2 = 0 THEN {Equals(f, v), At(f, v), Has(f)} ELSE {Has(f)}
          [] ty = "date" -> {Has(f)} \cup (IF FarDate(v) THEN {} ELSE {Equals(f, v), At(f, v)})
          [] OTHER -> {Equals(f, v), Among(f, v), At(f, v), Has(f)}

UnmappedProbes(sch, n, v) ==
    LET f == <<n>>
        kw == <<n, "keyword">>
    IN  CASE v.k = "str" ->
                {Has(f)}
                \cup (IF v.v = <<>> THEN {} ELSE {Words(f, v), Phrase(f, v), Anywhere(v.v)})
                \cup (IF HasRaw(sch) /\ Len(v.v) <= KeywordIgnoreAbove
                      THEN {Equals(kw, v), Anycase(kw, v), At(kw, v), Has(kw)} \cup Patterns(kw, v.v) ELSE {})
          [] v.k \in {"int", "float", "bool"} -> {Equals(f, v), At(f, v), Has(f)}
          [] OTHER -> {}

Probes(s, n, v) ==
    IF <<n>> \in TimestampAliases THEN IF FarDate(v) THEN {} ELSE {At(<<n>>, v), Equals(<<n>>, v)}
    ELSE IF n \in DOMAIN s.schema.properties
         THEN UNION {LET def == s.schema.fields[f]
                     IN  IF ParseFor(def, v) \in {Nothing, Malformed} THEN {} ELSE MappedProbes(f, def, v)
                     : f \in {p \in DOMAIN s.schema.fields : p[1] = n}}
         ELSE UnmappedProbes(s.schema, n, v)

\* What was indexed is found: in the split that holds it, under the schema that split was
\* written with and whatever the mapping has become since, a document answers every query
\* made from one of its own values.  Not so for a date given as a float out of range (FarDate).
OwnValueFound ==
    \A s \in splits : \A n \in DOMAIN s.json : \A i \in DOMAIN Flatten(s.json[n]) :
        \A q \in Probes(s, n, Flatten(s.json[n])[i]) :
            ~Refused(s.schema, q) /\ Accepts(s.schema, s.indexed, q)

\* Pruning loses nothing, for ranges on one field whose second bound on a side, if any, is no
\* wider than the first: a split holding a document the query accepts survives
\* splits_for_query under the bounds extract_time_bounds found ("doing so drops matching
\* documents (H3/H4)").
PruneSound ==
    \A s \in splits, q \in Queries :
        ~Refused(s.schema, q) /\ Accepts(s.schema, s.indexed, q) => Kept(q, s.indexed.ts, s.indexed.ts)

\* The column a terms aggregation on f reads (rewrite_agg_fields), resolved with the stream's
\* present mapping and then looked up in the split as that split was written.
BucketsOf(s, f) ==
    LET now == Resolve(Schema(row.mapping, CurrentVersion), f)
        column == IF now.kind = "dynamic" THEN Fast(f) ELSE now.field
    IN  {p.t : p \in {x \in s.indexed.postings : x.f = column}}

\* A JSON value for the key of a string bucket.
KeyOf(t) == [k |-> "str", v |-> t[2]]

\* Drill-down: filtering on the key of an exact-value bucket finds the documents it counted,
\* also when the mapping changed after the split was written.
BucketsFound ==
    \A s \in splits : \A f \in {<<"svc">>, <<"svc", "keyword">>} :
        \A t \in BucketsOf(s, f) :
            t[1] = "str" /\ Resolve(s.schema, f).ty = "keyword" =>
                Accepts(s.schema, s.indexed, Equals(f, KeyOf(t)))

\* update_stream_mapping_if exists "so concurrent PUT /{index}/_mapping merges never overwrite
\* each other's fields": a field acknowledged by PUT _mapping stays declared with its type.
AckedFieldKept ==
    \A a \in acked : a.id = row.id =>
        a.name \in DOMAIN row.mapping.properties /\ TypeOf(row.mapping.properties[a.name]) = a.ty

\* index_mapped: "a document-mode write never reaches here with" a value the field cannot parse.
DocumentModeKeepsAll == \A s \in splits : s.checked => s.indexed.dropped = 0
==============================================================================
