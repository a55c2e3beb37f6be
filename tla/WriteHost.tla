------------------------------ MODULE WriteHost ------------------------------
(***************************************************************************)
(* The scalar side of the plugin data hosts (plugin_data_host.cpp): the    *)
(* WriteCore behind the source, parser and toolbox vtables with its caches *)
(* and its DataWriter, Arrow stream ingest (arrow_import.cpp), the retarget *)
(* between the two DataEngines of a pausable stream, the toolbox's catalog *)
(* snapshot and its series reader.                                         *)
(*                                                                         *)
(* Columns are kept the way TopicChunkBuilder keeps them, one array per    *)
(* column beside the timestamps, because bulk appends and row appends fill *)
(* them differently.  A value is the number of the row it was given with,  *)
(* 0 is null.  Field ids start at 0 as in the code, sequences at 1.        *)
(*                                                                         *)
(* Every operation of WriteCore maps a world (the core and the topics of   *)
(* its engine) to a world and an outcome; an action applies one of them.   *)
(***************************************************************************)
EXTENDS Integers, Sequences, FiniteSets, SequencesExt, FiniteSetsExt

CONSTANTS
    Names,          \* topic names
    Fields,         \* paths a plugin asks for with ensureField
    Types,          \* PrimitiveTypes
    Records,        \* sequence of records: seqs of [name, type, null]
    Streams,        \* sequence of streams: [schema, ts, batches, breaks]
    Schema,         \* <<>> or <<type tree>> of the bound topic
    Time,           \* timestamps of records
    HandlesKept,    \* whether the plugin keeps its handles when the engine is switched
    MaxChunkRows,   \* TopicDescriptor::max_chunk_rows
    MaxRows,        \* bound: rows accepted
    MaxCalls,       \* bound: calls other than appends
    MaxSources      \* bound: datasets

ASSUME HostAssumption ==
    /\ HandlesKept \in BOOLEAN /\ Time \subseteq Nat /\ MaxChunkRows \in Nat \ {0}
    /\ MaxRows \in Nat /\ MaxCalls \in Nat /\ MaxSources \in Nat \ {0}

(* Within a batch timestamps are in order; DataEngine has the others.      *)
ASSUME BatchesAssumption ==
    \A i \in DOMAIN Streams : \A b \in DOMAIN Streams[i].batches :
        LET ts == Streams[i].batches[b] IN \A j, k \in DOMAIN ts : j <= k => ts[j] <= ts[k]

VARIABLES
    host,      \* which vtable the plugin was given
    target,    \* the engine the core writes to
    engines,   \* engines[e]: [sources, topics]
    core,      \* WriteCore: caches and writer
    topicsHeld,\* topic handles the plugin keeps
    fieldsHeld,\* field handles the plugin keeps
    aborted,   \* an assertion of the builder failed
    log,       \* rows accepted (history)
    calls      \* calls other than appends (history)

vars == <<host, target, engines, core, topicsHeld, fieldsHeld, aborted, log, calls>>

Engines == {"primary", "secondary"}
Hosts == {"source", "parser", "toolbox"}
kUnspecified == "kUnspecified"
kNone == 0

put(f, x, v) == [y \in DOMAIN f \cup {x} |-> IF y = x THEN v ELSE f[y]]
at(f, x, default) == IF x \in DOMAIN f THEN f[x] ELSE default
concat(s) == FlattenSeq(s)

-----------------------------------------------------------------------------
(* Column layouts. *)

column(path, type) == [path |-> path, type |-> type]
HasPath(layout, p) == \E i \in DOMAIN layout : layout[i].path = p
IdOf(layout, p) == (CHOOSE i \in DOMAIN layout : layout[i].path = p) - 1

leafType(node, default) == IF node.type = <<>> THEN default ELSE node.type[1]

(* flattenColumnsImpl of the host: leaves in order, arrays left out.       *)
RECURSIVE flattenColumnsImpl(_, _)
flattenColumnsImpl(node, prefix) ==
    LET path == Append(prefix, node.name)
    IN  CASE node.kind = "primitive" -> <<column(path, leafType(node, "kFloat64"))>>
          [] node.kind = "enum" -> <<column(path, leafType(node, "kInt32"))>>
          [] node.kind = "array" -> <<>>
          [] node.kind = "struct" ->
               concat([i \in DOMAIN node.children |-> flattenColumnsImpl(node.children[i], path)])

buildSchemaColumns(root) ==
    IF root.kind = "struct"
    THEN concat([i \in DOMAIN root.children |-> flattenColumnsImpl(root.children[i], <<>>)])
    ELSE flattenColumnsImpl(root, <<>>)

(* flatten_columns_impl of the writer: arrays of fixed size are expanded.  *)
RECURSIVE flatten_columns_impl(_, _)
flatten_columns_impl(node, prefix) ==
    LET path == Append(prefix, node.name)
        below(n, p) == concat([i \in DOMAIN n.children |-> flatten_columns_impl(n.children[i], p)])
        element(p) == IF node.element.kind = "struct" THEN below(node.element, p)
                      ELSE <<column(p, leafType(node.element, "kFloat64"))>>
    IN  CASE node.kind = "struct" -> below(node, path)
          [] node.kind = "array" -> concat([i \in 1 .. node.size |-> element(Append(path, i - 1))])
          [] OTHER -> <<column(path, leafType(node, "kFloat64"))>>

buildColumnDescriptors(root) ==
    IF root.kind # "struct" THEN <<column(<<root.name>>, leafType(root, "kFloat64"))>>
    ELSE concat([i \in DOMAIN root.children |-> flatten_columns_impl(root.children[i], <<>>)])

fromChunks(topic) == IF topic.chunks = <<>> THEN <<>> ELSE topic.chunks[1].layout

(* effectiveColumns: the stored layout, the schema's, the first chunk's.   *)
effectiveColumns(topic) ==
    IF topic.stored # <<>> THEN topic.stored
    ELSE IF topic.schema # <<>> THEN buildSchemaColumns(topic.schema[1])
    ELSE fromChunks(topic)

-----------------------------------------------------------------------------
(* DataWriter, as the hosts use it. *)

(* row: the numbers of the rows (history).                                 *)
newBuilder(layout) ==
    [layout |-> layout, ts |-> <<>>, col |-> [i \in DOMAIN layout |-> <<>>], row |-> <<>>]
rowCount(b) == Len(b.ts)

(* ensureColsLoaded.                                                       *)
loadedCols(w, t) ==
    LET mine == at(w.cols, t, <<>>)
        topic == w.topics[t]
    IN  IF mine # <<>> THEN mine
        ELSE IF topic.stored # <<>> THEN topic.stored
        ELSE IF topic.schema # <<>> THEN buildColumnDescriptors(topic.schema[1])
        ELSE fromChunks(topic)

loadCols(w, t) == [w EXCEPT !.cols = put(@, t, loadedCols(w, t))]

getOrCreateBuilder(w, t) ==
    IF t \in DOMAIN w.builder THEN w
    ELSE [loadCols(w, t) EXCEPT !.builder = put(@, t, newBuilder(loadedCols(w, t)))]

without(f, x) == [y \in DOMAIN f \ {x} |-> f[y]]

(* autoSeal: the builder becomes a pending chunk.                          *)
autoSeal(w, t) ==
    [w EXCEPT !.pending = put(@, t, Append(at(@, t, <<>>), w.builder[t])),
              !.builder = without(@, t)]

(* Slip: the open builder is dropped with its rows.                        *)
dropBeforeLayoutChange(w, t) == [w EXCEPT !.builder = without(@, t)]

(* sealBeforeLayoutChange: only a builder with rows leaves a chunk.        *)
sealBeforeLayoutChange(w, t) ==
    IF t \notin DOMAIN w.builder THEN w
    ELSE IF rowCount(w.builder[t]) > 0 THEN autoSeal(w, t)
    ELSE [w EXCEPT !.builder = without(@, t)]

refuse(w) == [ok |-> FALSE, w |-> w, id |-> kNone]
accept(w, id) == [ok |-> TRUE, w |-> w, id |-> id]

(* ensureColumn, once the columns are loaded.                              *)
findOrAddColumn(w, t, f, type) ==
    LET cols == w.cols[t]
        grown == Append(cols, column(f, type))
    IN  IF HasPath(cols, f)
        THEN IF cols[IdOf(cols, f) + 1].type = type THEN accept(w, IdOf(cols, f)) ELSE refuse(w)
        ELSE accept([sealBeforeLayoutChange(w, t) EXCEPT
                        !.cols = put(@, t, grown), !.topics[t].stored = grown], Len(cols))

ensureColumn(w, t, f, type) == findOrAddColumn(loadCols(w, t), t, f, type)

late(w, t, ts) ==
    t \in DOMAIN w.builder /\ rowCount(w.builder[t]) > 0 /\ ts < Last(w.builder[t].ts)

(* finishRow and appendColumns seal a builder that is full.                *)
SealIfFull(w, t) == IF rowCount(w.builder[t]) >= MaxChunkRows THEN autoSeal(w, t) ELSE w

(* set and setNull of the given columns, finishRow with its one null for   *)
(* every column that fell behind, and the seal of a full builder.          *)
fillRow(w, t, ts, values, row) ==
    LET b == w.builder[t]
        given(c) == IF c - 1 \in DOMAIN values THEN Append(b.col[c], values[c - 1]) ELSE b.col[c]
        filled(c) == IF Len(given(c)) < rowCount(b) + 1 THEN Append(given(c), 0) ELSE given(c)
        done == [layout |-> b.layout, ts |-> Append(b.ts, ts),
                 col |-> [c \in DOMAIN b.col |-> filled(c)], row |-> Append(b.row, row)]
    IN  SealIfFull([w EXCEPT !.builder = put(@, t, done)], t)

(* beginRow and the rest of the row.                                       *)
writeRow(w, t, ts, values, row) == fillRow(getOrCreateBuilder(w, t), t, ts, values, row)

(* The values of one record, from the columns it names.                    *)
valuesOf(resolved, row) ==
    [c \in {resolved[i].id : i \in DOMAIN resolved} |->
        IF (CHOOSE i \in DOMAIN resolved : resolved[i].id = c) \in
              {i \in DOMAIN resolved : resolved[i].null} THEN 0 ELSE row]

(* flushAll: what a topic's pending chunks and its open builder give.      *)
flushAll(w, t) ==
    at(w.pending, t, <<>>) \o
        (IF t \in DOMAIN w.builder /\ rowCount(w.builder[t]) > 0 THEN <<w.builder[t]>> ELSE <<>>)

(* appendSealedChunk, as commitChunks uses it: a chunk that starts before  *)
(* the end of the last one is refused, and dropped without a word.  Rows   *)
(* of a chunk are in order, so t_min is its first and t_max its last.      *)
appendSealedChunk(chunks, c) ==
    IF chunks # <<>> /\ Head(c.ts) < Last(Last(chunks).ts) THEN chunks ELSE Append(chunks, c)

commitChunks(chunks, sealed) == FoldLeft(appendSealedChunk, chunks, sealed)

(* WriteCore::flushPending: flushAll and commitChunks.                     *)
flushWriter(w) ==
    [w EXCEPT !.topics = [t \in DOMAIN @ |-> [@[t] EXCEPT !.chunks = commitChunks(@, flushAll(w, t))]],
              !.pending = <<>>,
              !.builder = [t \in {x \in DOMAIN @ : rowCount(@[x]) = 0} |-> @[t]]]

-----------------------------------------------------------------------------
(* WriteCore. *)

(* A fresh WriteCore: an empty writer and empty caches.                    *)
newCore == [cols |-> <<>>, builder |-> <<>>, pending |-> <<>>,
            topic_cache |-> <<>>, field_cache |-> <<>>, field_types |-> <<>>]

(* listTopics and the search for the name among them.                      *)
topicsNamed(topics, source, name) ==
    {t \in DOMAIN topics : topics[t].source = source /\ topics[t].name = name}

newTopic(source, name, schema) ==
    [source |-> source, name |-> name, schema |-> schema, stored |-> <<>>, chunks |-> <<>>]

(* createDataSource.                                                       *)
createDataSource(w) == accept([w EXCEPT !.sources = @ + 1], w.sources + 1)

(* ensureTopic: the cache, the engine's topics by id, a new topic.         *)
ensureTopic(w, source, name) ==
    LET key == <<source, name>>
        known == topicsNamed(w.topics, source, name)
        t == IF known # {} THEN Min(known) ELSE Len(w.topics) + 1
        registered == IF known # {} THEN w
                      ELSE [w EXCEPT !.topics = Append(@, newTopic(source, name, <<>>))]
    IN  IF source \notin 1 .. w.sources THEN refuse(w)
        ELSE IF key \in DOMAIN w.topic_cache THEN accept(w, w.topic_cache[key])
        ELSE accept([registered EXCEPT !.topic_cache = put(@, key, t)], t)

(* lookupFieldType fills both caches from the topic's layout.              *)
cacheField(w, t, id, col) ==
    [w EXCEPT !.field_types = put(@, <<t, id>>, col.type),
              !.field_cache = put(@, <<t, col.path>>, id)]

(* lookupFieldType.                                                        *)
lookupFieldType(w, t, id) ==
    LET columns == effectiveColumns(w.topics[t])
    IN  IF <<t, id>> \in DOMAIN w.field_types THEN accept(w, w.field_types[<<t, id>>])
        ELSE IF id + 1 \notin DOMAIN columns THEN refuse(w)
        ELSE accept(cacheField(w, t, id, columns[id + 1]), columns[id + 1].type)

(* fromAbiType: kUnspecified and other values past kString are no types.   *)
fromAbiType(type) == type \in Types

(* ensureField, of a field the cache has: its type must be the same.       *)
acceptSameType(existing, id, type) ==
    IF existing.ok /\ existing.id = type THEN accept(existing.w, id) ELSE refuse(existing.w)

(* ensureField, of one it has not: the column's id goes into both caches.  *)
cacheColumn(made, t, f, type) ==
    IF ~made.ok THEN refuse(made.w)
    ELSE accept([made.w EXCEPT !.field_cache = put(@, <<t, f>>, made.id),
                               !.field_types = put(@, <<t, made.id>>, type)], made.id)

ensureField(w, t, f, type) ==
    LET key == <<t, f>>
    IN  IF t \notin DOMAIN w.topics \/ ~fromAbiType(type) THEN refuse(w)
        ELSE IF key \in DOMAIN w.field_cache
        THEN acceptSameType(lookupFieldType(w, t, w.field_cache[key]), w.field_cache[key], type)
        ELSE cacheColumn(ensureColumn(w, t, f, type), t, f, type)

stop(r, w) == [r EXCEPT !.ok = FALSE, !.w = w]
resolve(r, w, name, id, isNull) ==
    [r EXCEPT !.w = w, !.fields = Append(@, [name |-> name, id |-> id, null |-> isNull])]
resolveFound(r, found, name, id, isNull) ==
    IF found.ok THEN resolve(r, found.w, name, id, isNull) ELSE stop(r, found.w)
resolveMade(r, made, name, isNull) == resolveFound(r, made, name, made.id, isNull)

(* One turn of appendRecord's loop over the fields: a null takes the column *)
(* the cache knows whatever its type; a typed null of an unknown field     *)
(* makes the column, an untyped one is skipped.                            *)
resolveNamed(r, t, field) ==
    LET key == <<t, field.name>>
        cached == key \in DOMAIN r.w.field_cache
        id == r.w.field_cache[key]
        s == [r EXCEPT !.seen = @ \cup {field.name}]
    IN  IF ~r.ok THEN r
        ELSE IF field.name \in r.seen THEN stop(r, r.w)
        ELSE IF field.null /\ cached
        THEN resolveFound(s, lookupFieldType(r.w, t, id), field.name, id, TRUE)
        ELSE IF field.null /\ ~fromAbiType(field.type) THEN s
        ELSE resolveMade(s, ensureField(r.w, t, field.name, field.type), field.name, field.null)

(* One turn of appendBoundRecord's loop.                                   *)
resolveBound(r, t, field) ==
    LET type == lookupFieldType(r.w, t, field.handle.id)
    IN  IF ~r.ok THEN r
        ELSE IF field.handle.topic # t \/ field.handle.id \in r.seen THEN stop(r, r.w)
        ELSE IF ~type.ok \/ (~field.null /\ type.id # field.type) THEN stop(r, type.w)
        ELSE [resolve(r, type.w, field.handle.name, field.handle.id, field.null)
                 EXCEPT !.seen = @ \cup {field.handle.id}]

started(w) == [ok |-> TRUE, w |-> w, seen |-> {}, fields |-> <<>>]

outcome(ok, w, rows, abort) == [ok |-> ok, w |-> w, rows |-> rows, abort |-> abort]
loggedRow(t, ts, names) == [topic |-> t, ts |-> ts, fields |-> names]
NonNull(fields) == {fields[i].name : i \in {k \in DOMAIN fields : ~fields[k].null}}

(* The common end of appendRecord and appendBoundRecord: nothing is        *)
(* written unless every field was resolved and the row is not late.        *)
writeResolved(r, t, ts, row) ==
    IF ~r.ok \/ late(r.w, t, ts) THEN outcome(FALSE, r.w, <<>>, FALSE)
    ELSE outcome(TRUE, writeRow(r.w, t, ts, valuesOf(r.fields, row), row),
                 <<loggedRow(t, ts, NonNull(r.fields))>>, FALSE)

appendRecord(w, t, ts, record, row) ==
    IF t \notin DOMAIN w.topics THEN outcome(FALSE, w, <<>>, FALSE)
    ELSE writeResolved(FoldLeft(LAMBDA r, f : resolveNamed(r, t, f), started(w), record), t, ts, row)

appendBoundRecord(w, t, ts, bound, row) ==
    IF t \notin DOMAIN w.topics THEN outcome(FALSE, w, <<>>, FALSE)
    ELSE writeResolved(FoldLeft(LAMBDA r, f : resolveBound(r, t, f), started(w), bound), t, ts, row)

-----------------------------------------------------------------------------
(* Arrow streams. *)

nanoarrow_type_to_primitive(type) == type \in Types

(* mappingsFromSchema: columns of unsupported types are skipped.           *)
mappingsFromSchema(stream) == SelectSeq(stream.schema, LAMBDA c : nanoarrow_type_to_primitive(c.type))

(* generate_sequential_timestamps, of one batch.                           *)
generate_sequential_timestamps(length) == [i \in 1 .. length |-> i - 1]

(* extract_timestamps_nanoarrow: a column of another type than an integer  *)
(* counts as no timestamps at all.                                         *)
extract_timestamps_nanoarrow(type, batch) ==
    IF type = "kInt64" THEN batch ELSE generate_sequential_timestamps(Len(batch))

(* make_column_data_nanoarrow, of rows from row on.                        *)
make_column_data_nanoarrow(row, n) == [i \in 1 .. n |-> row + i - 1]

(* appendColumns: as many rows as the builder has room for, then the next  *)
(* builder.  A column the batch does not bring gets no rows; the assertion *)
(* of finishBulkAppend only compares its length with the number of rows.   *)
RECURSIVE appendColumns(_, _, _, _, _), appendPiece(_, _, _, _, _)
appendColumns(w, t, tss, ids, row) ==
    IF tss = <<>> THEN outcome(TRUE, w, <<>>, FALSE)
    ELSE appendPiece(getOrCreateBuilder(w, t), t, tss, ids, row)

appendPiece(w, t, tss, ids, row) ==
    LET b == w.builder[t]
        n == Min({Len(tss), MaxChunkRows - rowCount(b)})
        grown == [layout |-> b.layout, ts |-> b.ts \o SubSeq(tss, 1, n),
                  col |-> [c \in DOMAIN b.col |->
                     IF c - 1 \in ids THEN b.col[c] \o make_column_data_nanoarrow(row, n) ELSE b.col[c]],
                  row |-> b.row \o [i \in 1 .. n |-> row + i - 1]]
    IN  IF \E c \in DOMAIN grown.col : Len(grown.col[c]) < n
        THEN outcome(FALSE, w, <<>>, TRUE)
        ELSE appendColumns(SealIfFull([w EXCEPT !.builder = put(@, t, grown)], t),
                           t, SubSeq(tss, n + 1, Len(tss)), ids, row + n)

(* One turn of ingestBatchesFromStream: empty batches are skipped, a batch *)
(* that starts before the builder's last row ends the stream.              *)
ingestBatch(r, t, batch, tsType, fields, first) ==
    LET tss == extract_timestamps_nanoarrow(tsType, batch)
        rows == [i \in DOMAIN tss |-> loggedRow(t, tss[i], NonNull(fields))]
    IN  IF ~r.ok \/ batch = <<>> THEN r
        ELSE IF late(r.w, t, tss[1]) THEN [r EXCEPT !.ok = FALSE]
        ELSE [appendColumns(r.w, t, tss, {fields[i].id : i \in DOMAIN fields}, first + Len(r.rows))
                 EXCEPT !.rows = r.rows \o rows]

importArrowStream(w, t, stream, tsType, fields, first) ==
    LET r == FoldLeft(LAMBDA acc, b : ingestBatch(acc, t, b, tsType, fields, first),
                      outcome(TRUE, w, <<>>, FALSE), stream.batches)
    IN  [r EXCEPT !.ok = @ /\ ~stream.breaks]

(* The column of one mapping.                                              *)
resolveMapping(r, t, m) ==
    IF ~r.ok THEN r
    ELSE resolveMade(r, ensureField(r.w, t, m.name, m.type), m.name, FALSE)

(* appendArrowStream, once its columns are resolved or one was refused.    *)
importResolved(r, t, stream, times, first) ==
    LET tsType == IF times = {} THEN kUnspecified ELSE CHOOSE type \in times : TRUE
    IN  IF ~r.ok \/ (stream.ts # <<>> /\ times = {}) THEN outcome(FALSE, r.w, <<>>, FALSE)
        ELSE importArrowStream(r.w, t, stream, tsType, r.fields, first)

(* appendArrowStream: the columns are made before the timestamp column is  *)
(* found to be missing, the batches before a broken one stay.              *)
appendArrowStream(w, t, stream, first) ==
    LET mappings == mappingsFromSchema(stream)
        isTime(m) == stream.ts # <<>> /\ m.name = stream.ts
        times == {mappings[i].type : i \in {k \in DOMAIN mappings : isTime(mappings[k])}}
    IN  IF t \notin DOMAIN w.topics \/ mappings = <<>> THEN outcome(FALSE, w, <<>>, FALSE)
        ELSE importResolved(FoldLeft(LAMBDA acc, m : resolveMapping(acc, t, m), started(w),
                                     SelectSeq(mappings, LAMBDA m : ~isTime(m))),
                            t, stream, times, first)

-----------------------------------------------------------------------------
(* The hosts. *)

World == core @@ engines[target]
coreOf(w) == [k \in DOMAIN newCore |-> w[k]]
engineOf(w) == [k \in {"sources", "topics"} |-> w[k]]

Become(w) == core' = coreOf(w) /\ engines' = [engines EXCEPT ![target] = engineOf(w)]

(* The bound topic of a parser host; the streaming manager registers it on *)
(* both engines under the same id.                                         *)
BoundTopic == 1
BoundName == CHOOSE n \in Names : TRUE

handlesAtBind(h) == IF h = "parser" THEN {BoundTopic} ELSE {}

Init ==
    /\ host \in Hosts
    /\ target = "primary"
    /\ engines = [e \in Engines |-> [sources |-> 1, topics |-> <<newTopic(1, BoundName, Schema)>>]]
    /\ core = newCore
    /\ topicsHeld = handlesAtBind(host)
    /\ fieldsHeld = {}
    /\ aborted = FALSE
    /\ log = <<>>
    /\ calls = 0

Counted == ~aborted /\ calls < MaxCalls /\ calls' = calls + 1
Keep == UNCHANGED <<host, target>>

(* A call that returned a topic or a field handle, or an error.            *)
EnsuresTopic(source, name) ==
    LET r == ensureTopic(World, source, name)
    IN  /\ Counted /\ Become(r.w)
        /\ topicsHeld' = IF r.ok THEN topicsHeld \cup {r.id} ELSE topicsHeld
        /\ UNCHANGED <<fieldsHeld, aborted, log>> /\ Keep

EnsuresField(t, f, type) ==
    LET r == ensureField(World, t, f, type)
    IN  /\ Counted /\ Become(r.w)
        /\ fieldsHeld' = IF r.ok THEN fieldsHeld \cup {[topic |-> t, id |-> r.id, name |-> f, type |-> type]}
                         ELSE fieldsHeld
        /\ UNCHANGED <<topicsHeld, aborted, log>> /\ Keep

(* An append: the rows it wrote are logged, a failed assertion ends the    *)
(* process.                                                                *)
Appends(r) ==
    /\ ~aborted
    /\ Len(log) + Len(r.rows) <= MaxRows
    /\ IF r.abort THEN aborted' = TRUE /\ UNCHANGED <<core, engines, log>>
       ELSE /\ Become(r.w)
            /\ log' = log \o [i \in DOMAIN r.rows |-> [engine |-> target] @@ r.rows[i]]
            /\ UNCHANGED aborted
    /\ UNCHANGED <<topicsHeld, fieldsHeld, calls>> /\ Keep

NextRow == Len(log) + 1

AppendsRecord(t) ==
    \E ts \in Time, i \in DOMAIN Records : Appends(appendRecord(World, t, ts, Records[i], NextRow))

(* Bound records the plugin can send: one or two of its handles, the first *)
(* with a value of any type or null.                                       *)
AppendsBound(t) ==
    \E ts \in Time, h, g \in fieldsHeld, type \in Types, null, alone \in BOOLEAN :
        LET first == [handle |-> h, type |-> type, null |-> null]
            second == [handle |-> g, type |-> g.type, null |-> FALSE]
        IN  Appends(appendBoundRecord(World, t, ts, IF alone THEN <<first>> ELSE <<first, second>>, NextRow))

(* The caller's part: a stream brings every column the topic has.  The     *)
(* column builders of one that does not would be left shorter than the     *)
(* timestamps.                                                             *)
Fits(t, stream) ==
    t \in DOMAIN engines[target].topics => \A i \in DOMAIN loadedCols(World, t) :
        \E k \in DOMAIN stream.schema : stream.schema[k].name = loadedCols(World, t)[i].path

AppendsStream(t) ==
    \E i \in DOMAIN Streams :
        /\ Fits(t, Streams[i])
        /\ Appends(appendArrowStream(World, t, Streams[i], NextRow))

sourceEnsureTopic == host = "source" /\ \E n \in Names : EnsuresTopic(1, n)
sourceEnsureField ==
    host = "source" /\ \E t \in topicsHeld, f \in Fields, type \in Types : EnsuresField(t, f, type)
sourceAppendRecord == host = "source" /\ \E t \in topicsHeld : AppendsRecord(t)
sourceAppendBoundRecord == host = "source" /\ \E t \in topicsHeld : AppendsBound(t)
sourceAppendArrowStream == host = "source" /\ \E t \in topicsHeld : AppendsStream(t)

parserEnsureField ==
    host = "parser" /\ \E f \in Fields, type \in Types : EnsuresField(BoundTopic, f, type)
parserAppendRecord == host = "parser" /\ AppendsRecord(BoundTopic)
parserAppendBoundRecord == host = "parser" /\ AppendsBound(BoundTopic)
parserAppendArrowStream == host = "parser" /\ AppendsStream(BoundTopic)

toolboxCreateDataSource ==
    /\ host = "toolbox" /\ engines[target].sources < MaxSources
    /\ Counted /\ Become(createDataSource(World).w)
    /\ UNCHANGED <<topicsHeld, fieldsHeld, aborted, log>> /\ Keep
toolboxEnsureTopic ==
    host = "toolbox" /\ \E s \in 1 .. MaxSources, n \in Names : EnsuresTopic(s, n)
toolboxEnsureField ==
    host = "toolbox" /\ \E t \in topicsHeld, f \in Fields, type \in Types : EnsuresField(t, f, type)
toolboxAppendRecord == host = "toolbox" /\ \E t \in topicsHeld : AppendsRecord(t)
toolboxAppendBoundRecord == host = "toolbox" /\ \E t \in topicsHeld : AppendsBound(t)
toolboxAppendArrowStream == host = "toolbox" /\ \E t \in topicsHeld : AppendsStream(t)

(* flushPending of any host.                                               *)
flushPending ==
    /\ Counted /\ Become(flushWriter(World))
    /\ UNCHANGED <<topicsHeld, fieldsHeld, aborted, log>> /\ Keep

(* Slip: the caches outlive the engine they were filled from.              *)
coreAfterRetargetKept(w) == [coreOf(w) EXCEPT !.cols = <<>>, !.builder = <<>>, !.pending = <<>>]

(* setTarget destroys the core and makes a new one.                        *)
coreAfterRetarget(w) == newCore

(* setTarget of the source and the parser host: rows are committed to the  *)
(* old engine, the new one starts from empty caches.  Nothing tells the    *)
(* plugin: it may keep its handles, which then mean what has their number  *)
(* on the new engine.  Only the bound topic is the same on both.           *)
setTarget ==
    /\ Counted /\ host \in {"source", "parser"}
    /\ target' \in Engines \ {target}
    /\ engines' = [engines EXCEPT ![target] = engineOf(flushWriter(World))]
    /\ core' = coreAfterRetarget(flushWriter(World))
    /\ IF HandlesKept THEN UNCHANGED <<topicsHeld, fieldsHeld>>
       ELSE topicsHeld' = handlesAtBind(host) /\ fieldsHeld' = {}
    /\ UNCHANGED <<host, aborted, log>>

(* A second host of the primary engine, such as a toolbox beside a source, *)
(* ensures a topic with caches of its own.                                 *)
otherEnsureTopic ==
    \E n \in Names :
        /\ Counted /\ topicsNamed(engines["primary"].topics, 1, n) = {}
        /\ engines' = [engines EXCEPT !["primary"].topics = Append(@, newTopic(1, n, <<>>))]
        /\ UNCHANGED <<host, target, core, topicsHeld, fieldsHeld, aborted, log>>

Next ==
    \/ sourceEnsureTopic \/ sourceEnsureField \/ sourceAppendRecord
    \/ sourceAppendBoundRecord \/ sourceAppendArrowStream
    \/ parserEnsureField \/ parserAppendRecord
    \/ parserAppendBoundRecord \/ parserAppendArrowStream
    \/ toolboxCreateDataSource \/ toolboxEnsureTopic \/ toolboxEnsureField
    \/ toolboxAppendRecord \/ toolboxAppendBoundRecord \/ toolboxAppendArrowStream
    \/ flushPending \/ setTarget \/ otherEnsureTopic

Spec == Init /\ [][Next]_vars

-----------------------------------------------------------------------------
(* Toolbox reads. *)

(* Topic ids in the order of the snapshot: by data source, then by id.     *)
snapshotOrder(e) ==
    concat([s \in 1 .. engines[e].sources |->
        SetToSortSeq({t \in DOMAIN engines[e].topics : engines[e].topics[t].source = s}, <)])

(* acquireCatalogSnapshot: flat arrays, and in each entry the range of its *)
(* children.                                                               *)
acquireCatalogSnapshot(e) ==
    LET order == snapshotOrder(e)
        columns(k) == effectiveColumns(engines[e].topics[order[k]])
        fieldsOf(k) == [i \in DOMAIN columns(k) |->
                           [topic |-> order[k], id |-> i - 1, name |-> columns(k)[i].path]]
        before(k) == FoldLeft(+, 0, [j \in 1 .. k - 1 |-> Len(columns(j))])
        topicsOf(s) == {k \in DOMAIN order : engines[e].topics[order[k]].source = s}
        earlier(s) == {k \in DOMAIN order : engines[e].topics[order[k]].source < s}
    IN  [data_sources |-> [s \in 1 .. engines[e].sources |->
            [id |-> s, first_topic |-> Cardinality(earlier(s)), topic_count |-> Cardinality(topicsOf(s))]],
         topics |-> [k \in DOMAIN order |->
            [id |-> order[k], source |-> engines[e].topics[order[k]].source,
             name |-> engines[e].topics[order[k]].name,
             first_field |-> before(k), field_count |-> Len(columns(k))]],
         fields |-> concat([k \in DOMAIN order |-> fieldsOf(k)])]

(* The rows of one column of a chunk; a row past the end of its column is  *)
(* whatever the memory holds.                                              *)
unreadable == -1
decoded(chunk, c, i) == at(chunk.col[c], i, unreadable)
columnRows(chunk, c) == [i \in DOMAIN chunk.ts |-> <<chunk.ts[i], decoded(chunk, c, i)>>]

(* Slip: the field id taken for a column number that starts at 1.          *)
readSeriesOffByOne(e, t, id) ==
    LET chunks == engines[e].topics[t].chunks
    IN  concat([i \in DOMAIN chunks |->
            IF id \in DOMAIN chunks[i].layout THEN columnRows(chunks[i], id) ELSE <<>>])

(* readSeriesArrow: the committed rows of the chunks that have the field.  *)
readSeriesArrow(e, t, id) ==
    LET chunks == engines[e].topics[t].chunks
    IN  concat([i \in DOMAIN chunks |->
            IF id + 1 \in DOMAIN chunks[i].layout THEN columnRows(chunks[i], id + 1) ELSE <<>>])

-----------------------------------------------------------------------------
(* Properties. *)

RangeOf(s) == {s[i] : i \in DOMAIN s}
LayoutOK(layout) == \A i \in DOMAIN layout : layout[i].type \in Types
ChunkOK(c) == LayoutOK(c.layout) /\ DOMAIN c.col = DOMAIN c.layout /\ c.ts # <<>>

(* Type invariant: caches, builders and topics hold what they are declared *)
(* to, sealed chunks are never empty and a builder is never past its limit. *)
TypeOK ==
    /\ host \in Hosts /\ target \in Engines /\ aborted \in BOOLEAN
    /\ host = "toolbox" => target = "primary"
    /\ \A e \in Engines : \A t \in DOMAIN engines[e].topics :
          /\ engines[e].topics[t].source \in 1 .. engines[e].sources
          /\ LayoutOK(engines[e].topics[t].stored)
          /\ \A c \in RangeOf(engines[e].topics[t].chunks) : ChunkOK(c) /\ rowCount(c) <= MaxChunkRows
    /\ \A t \in DOMAIN core.builder : rowCount(core.builder[t]) < MaxChunkRows
    /\ \A t \in DOMAIN core.pending : \A c \in RangeOf(core.pending[t]) : ChunkOK(c)
    /\ \A k \in DOMAIN core.topic_cache : core.topic_cache[k] \in DOMAIN engines[target].topics

(* What the rows of a chunk say: the fields with a value and the row       *)
(* number the values were given with.                                      *)
DecodeChunk(c) ==
    [i \in DOMAIN c.ts |->
        [row |-> c.row[i], ts |-> c.ts[i],
         values |-> {<<c.layout[k].path, decoded(c, k, i)>> :
                        k \in {j \in DOMAIN c.col : decoded(c, j, i) # 0}}]]

Rows(chunks) == concat([i \in DOMAIN chunks |-> DecodeChunk(chunks[i])])

Committed(e, t) == Rows(engines[e].topics[t].chunks)

(* The rows of a topic, committed or still with the writer.                *)
Stored(e, t) ==
    Committed(e, t) \o
        (IF e # target THEN <<>>
         ELSE Rows(at(core.pending, t, <<>>) \o
                   (IF t \in DOMAIN core.builder THEN <<core.builder[t]>> ELSE <<>>)))

(* The numbers of the accepted rows of a topic, and of those that are in   *)
(* it no more.                                                             *)
Accepted(e, t) == {r \in DOMAIN log : log[r].engine = e /\ log[r].topic = t}
Lost(e, t) == Accepted(e, t) \ {q.row : q \in RangeOf(Stored(e, t))}

(* A row that came too late for its topic: older than a row that was       *)
(* accepted before it and is committed.                                    *)
TooLate(e, t, r) == \E q \in RangeOf(Committed(e, t)) : q.row < r /\ q.ts > log[r].ts

(* What plugins were told is accepted is in the engine it was sent to,     *)
(* whatever columns were added, chunks sealed and engines switched in      *)
(* between ("Pending rows are flushed to the current engine before the     *)
(* switch"): each row once, in the order of acceptance, in its own topic,  *)
(* with its own values and null for the fields not given; and what is      *)
(* committed is in time order.  A row is lost only with the rest of a      *)
(* chunk that begins with a row too late for its topic, never because of   *)
(* what happened to other rows; a refused record leaves no row.            *)
RowsConserved ==
    \A e \in Engines : \A t \in DOMAIN engines[e].topics :
        LET stored == Stored(e, t)
            committed == Committed(e, t)
        IN  /\ \A i \in DOMAIN stored :
                  /\ stored[i].row \in Accepted(e, t)
                  /\ stored[i].ts = log[stored[i].row].ts
                  /\ stored[i].values = {<<f, stored[i].row>> : f \in log[stored[i].row].fields}
            /\ \A i, j \in DOMAIN stored : i < j => stored[i].row < stored[j].row
            /\ \A i, j \in DOMAIN committed : i < j => committed[i].ts <= committed[j].ts
            /\ \A r \in Lost(e, t) : \E first \in Lost(e, t) :
                  /\ first <= r /\ TooLate(e, t, first)
                  /\ Accepted(e, t) \cap first .. r \subseteq Lost(e, t)

(* No two topics of a data source have one name.                           *)
TopicNamesUnique ==
    \A e \in Engines : \A s, t \in DOMAIN engines[e].topics :
        /\ engines[e].topics[s].source = engines[e].topics[t].source
        /\ engines[e].topics[s].name = engines[e].topics[t].name
        => s = t

(* What the caches say is what the writer does: a cached field has the     *)
(* cached type, in the column its id names, and the handles the plugin     *)
(* holds agree with it; and ensureTopic never makes a second topic of a    *)
(* name, whoever made the first and whether or not this core's cache       *)
(* knows it.                                                               *)
CacheCoherent ==
    /\ TypeOK
    /\ TopicNamesUnique
    /\ \A k \in DOMAIN core.field_cache :
          LET cols == loadedCols(World, k[1])
              id == core.field_cache[k]
          IN  /\ k[1] \in DOMAIN engines[target].topics
              /\ id + 1 \in DOMAIN cols /\ cols[id + 1].path = k[2]
              /\ <<k[1], id>> \in DOMAIN core.field_types
              /\ core.field_types[<<k[1], id>>] = cols[id + 1].type
    /\ \A h \in fieldsHeld : h.topic \in DOMAIN engines[target].topics
                             /\ h.id + 1 \in DOMAIN loadedCols(World, h.topic)
                             /\ loadedCols(World, h.topic)[h.id + 1] = column(h.name, h.type)

(* Every topic and field is reached once, and every series is exact.       *)
SnapshotExact(e, snap) ==
    LET slice(s, first, n) == SubSeq(s, first + 1, first + n)
        expected(t, f) == [i \in DOMAIN Committed(e, t) |->
            LET r == Committed(e, t)[i].row
            IN  <<log[r].ts, IF f \in log[r].fields THEN r ELSE 0>>]
    IN  /\ {snap.topics[k].id : k \in DOMAIN snap.topics} = DOMAIN engines[e].topics
        /\ Len(snap.topics) = Len(engines[e].topics)
        /\ \A s \in DOMAIN snap.data_sources :
              LET mine == slice(snap.topics, snap.data_sources[s].first_topic, snap.data_sources[s].topic_count)
              IN  \A k \in DOMAIN mine : mine[k].source = snap.data_sources[s].id
        /\ \A k \in DOMAIN snap.topics :
              LET t == snap.topics[k].id
                  mine == slice(snap.fields, snap.topics[k].first_field, snap.topics[k].field_count)
              IN  \A i \in DOMAIN mine :
                    LET series == readSeriesArrow(e, mine[i].topic, mine[i].id)
                        all == expected(t, mine[i].name)
                        skipped == Len(all) - Len(series)
                    IN  /\ mine[i].topic = t
                        /\ skipped >= 0
                        /\ series = SubSeq(all, skipped + 1, Len(all))
                        /\ \A j \in 1 .. skipped : all[j][2] = 0

(* Through the catalog snapshot a toolbox reaches every topic and field    *)
(* exactly once, and the series it reads by the handles found there is,    *)
(* for each field, the committed rows from some row on that is not after   *)
(* the first one with a value of the field, with null where it had none.   *)
CatalogSeriesExact == \A e \in Engines : SnapshotExact(e, acquireCatalogSnapshot(e))
=============================================================================
