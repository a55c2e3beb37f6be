---------------------------- MODULE ColumnLayout ----------------------------
(***************************************************************************)
(* How the columns of one schemaless topic grow while rows arrive:         *)
(* DataWriter::ensureColumn and expandArray, the layout each writer caches *)
(* (topic_columns), the one TopicStorage keeps for everyone                *)
(* (column_descriptors_), and the layouts that open builders and sealed    *)
(* chunks were made with.                                                  *)
(*                                                                         *)
(* A column is its field path and type; its field id is its place in the   *)
(* layout (from 0 in the code, from 1 here).  A row is the function from   *)
(* columns that were set to the path of the field the caller meant;        *)
(* finishRow fills the others with null.  Timestamps are DataEngine's.     *)
(***************************************************************************)
EXTENDS Integers, Sequences, FiniteSets, FiniteSetsExt, SequencesExt

CONSTANTS
    Writers,     \* DataWriters of the topic
    Fields,      \* names of scalar fields
    Arrays,      \* names of array fields
    Types,       \* PrimitiveTypes
    Lengths,     \* array lengths passed to expandArray
    Limit,       \* TopicDescriptor::array_expansion_limit
    MaxChunkRows,\* TopicDescriptor::max_chunk_rows
    MaxRows,     \* bound: rows finished
    MaxCalls     \* bound: calls of ensureColumn and expandArray

ASSUME LayoutAssumption ==
    /\ Lengths \subseteq Nat /\ Limit \in Nat
    /\ MaxChunkRows \in Nat \ {0} /\ MaxRows \in Nat /\ MaxCalls \in Nat

VARIABLES
    stored,      \* TopicStorage::column_descriptors_
    expansion,   \* array_expansion_counts_
    observed,    \* max_observed_array_length_
    truncated,   \* truncated_sample_count_
    cols,        \* cols[w]: topic_columns of writer w
    builder,     \* builder[w]: [layout, rows, open] in a set of at most one
    row,         \* row[w]: columns set in the row in progress
    pending,     \* pending[w]: chunks sealed by w
    chunks,      \* committed chunks
    handle,      \* handle[w]: field ids w got, by path
    finished,    \* rows finished (history)
    calls        \* layout calls (history)

storage == <<stored, expansion, observed, truncated>>
vars == <<stored, expansion, observed, truncated, cols, builder, row, pending, chunks, handle,
          finished, calls>>

elem(a, i) == <<a, i>>
Paths == {<<f>> : f \in Fields} \cup {elem(a, i) : a \in Arrays, i \in 0 .. Limit - 1}
Column == [path : Paths, type : Types]

HasPath(layout, p) == \E i \in DOMAIN layout : layout[i].path = p
IdOf(layout, p) == CHOOSE i \in DOMAIN layout : layout[i].path = p

-----------------------------------------------------------------------------
(* ensureColsLoaded: a writer that has no layout yet takes the stored one, *)
(* else the one of the first committed chunk.                              *)
loaded(w) ==
    IF cols[w] # <<>> THEN cols[w]
    ELSE IF stored # <<>> THEN stored
    ELSE IF chunks # <<>> THEN chunks[1].layout ELSE <<>>

RowInProgress(w) == \E b \in builder[w] : b.open

seal(b) == [layout |-> b.layout, rows |-> b.rows]

(* Slip: the builder with the old layout stays in use.                     *)
keepBuilder(w) == UNCHANGED <<pending, builder>>

(* sealBeforeLayoutChange: a builder with rows becomes a pending chunk, an *)
(* empty one is discarded.                                                 *)
sealBeforeLayoutChange(w) ==
    /\ pending' = [pending EXCEPT ![w] =
           @ \o SetToSeq({seal(b) : b \in {x \in builder[w] : x.rows # <<>>}})]
    /\ builder' = [builder EXCEPT ![w] = {}]

Init ==
    /\ stored = <<>>
    /\ expansion = [a \in Arrays |-> 0]
    /\ observed = 0 /\ truncated = 0
    /\ cols = [w \in Writers |-> <<>>]
    /\ builder = [w \in Writers |-> {}]
    /\ row = [w \in Writers |-> <<>>]
    /\ pending = [w \in Writers |-> <<>>]
    /\ chunks = <<>>
    /\ handle = [w \in Writers |-> <<>>]
    /\ finished = 0 /\ calls = 0

Remember(w, p, id) ==
    handle' = [handle EXCEPT ![w] = [q \in DOMAIN @ \cup {p} |-> IF q = p THEN id ELSE @[q]]]

(* Slip: the new column goes in front of the others.                       *)
columnInFront(layout, p, type) == <<[path |-> p, type |-> type]>> \o layout

(* ensureColumn: a new column goes after the others.                       *)
columnAtEnd(layout, p, type) == Append(layout, [path |-> p, type |-> type])

(* DataWriter::ensureColumn: the field id of an existing column of the     *)
(* same type, or a new column at the end.  Another type, and a new column  *)
(* while a row is in progress, are errors; the layout is loaded all the    *)
(* same.                                                                   *)
ensureColumn(w, p, type) ==
    LET layout == loaded(w)
    IN  /\ calls < MaxCalls
        /\ calls' = calls + 1
        /\ IF HasPath(layout, p)
           THEN /\ cols' = [cols EXCEPT ![w] = layout]
                /\ IF layout[IdOf(layout, p)].type = type
                   THEN Remember(w, p, IdOf(layout, p)) ELSE UNCHANGED handle
                /\ UNCHANGED <<stored, builder, pending>>
           ELSE IF RowInProgress(w)
           THEN /\ cols' = [cols EXCEPT ![w] = layout]
                /\ UNCHANGED <<stored, builder, pending, handle>>
           ELSE /\ sealBeforeLayoutChange(w)
                /\ cols' = [cols EXCEPT ![w] = columnAtEnd(layout, p, type)]
                /\ stored' = cols'[w]
                /\ Remember(w, p, IdOf(cols'[w], p))
        /\ UNCHANGED <<expansion, observed, truncated, row, chunks, finished>>

(* Slip: an element that ensureColumn added gets a second column.          *)
allElements(layout, a, from, to, type) ==
    [k \in 1 .. to - from |-> [path |-> elem(a, from + k - 1), type |-> type]]

(* The columns expandArray adds for the elements from .. to - 1 of a: those *)
(* the layout does not have.                                               *)
newElements(layout, a, from, to, type) ==
    FlattenSeq([k \in 1 .. to - from |->
        IF HasPath(layout, elem(a, from + k - 1)) THEN <<>>
        ELSE <<[path |-> elem(a, from + k - 1), type |-> type]>>])

(* DataWriter::expandArray.  The expansion count is read from the storage, *)
(* the layout from the writer's cache.                                     *)
expandArray(w, a, n, type) ==
    LET current == expansion[a]
        actual == Min({n, Limit})
    IN  /\ calls < MaxCalls
        /\ calls' = calls + 1
        /\ observed' = Max({observed, n})
        /\ truncated' = IF n > current /\ n > Limit THEN truncated + 1 ELSE truncated
        /\ IF actual <= current \/ RowInProgress(w)
           THEN UNCHANGED <<stored, expansion, cols, builder, pending>>
           ELSE /\ sealBeforeLayoutChange(w)
                /\ cols' = [cols EXCEPT ![w] =
                       loaded(w) \o newElements(loaded(w), a, current, actual, type)]
                /\ stored' = cols'[w]
                /\ expansion' = [expansion EXCEPT ![a] = actual]
        /\ UNCHANGED <<row, chunks, handle, finished>>

(* resolveField and bindTopicWriter: create the builder, look the path up. *)
getOrCreateBuilder(w) ==
    IF builder[w] # {} THEN builder[w]
    ELSE {[layout |-> loaded(w), rows |-> <<>>, open |-> FALSE]}

(* Slip: the path is looked up in the topic's layout, not the writer's.    *)
resolveStored(w, p) ==
    /\ builder' = [builder EXCEPT ![w] = getOrCreateBuilder(w)]
    /\ cols' = [cols EXCEPT ![w] = IF builder[w] # {} THEN @ ELSE loaded(w)]
    /\ IF HasPath(stored, p) THEN Remember(w, p, IdOf(stored, p)) ELSE UNCHANGED handle
    /\ UNCHANGED <<storage, row, pending, chunks, finished, calls>>

resolveField(w, p) ==
    /\ builder' = [builder EXCEPT ![w] = getOrCreateBuilder(w)]
    /\ cols' = [cols EXCEPT ![w] = IF builder[w] # {} THEN @ ELSE loaded(w)]
    /\ IF HasPath(cols'[w], p) THEN Remember(w, p, IdOf(cols'[w], p)) ELSE UNCHANGED handle
    /\ UNCHANGED <<storage, row, pending, chunks, finished, calls>>

beginRow(w) ==
    /\ finished < MaxRows
    /\ ~RowInProgress(w)
    /\ builder' = [builder EXCEPT ![w] = {[b EXCEPT !.open = TRUE] : b \in getOrCreateBuilder(w)}]
    /\ cols' = [cols EXCEPT ![w] = IF builder[w] # {} THEN @ ELSE loaded(w)]
    /\ row' = [row EXCEPT ![w] = <<>>]
    /\ UNCHANGED <<storage, pending, chunks, handle, finished, calls>>

(* set: the value of the field p goes to the column its handle names.  A   *)
(* column is set once per row.                                             *)
set(w, p) ==
    /\ RowInProgress(w)
    /\ p \in DOMAIN handle[w]
    /\ handle[w][p] \notin DOMAIN row[w]
    /\ row' = [row EXCEPT ![w] = [i \in DOMAIN @ \cup {handle[w][p]} |->
                                     IF i = handle[w][p] THEN p ELSE @[i]]]
    /\ UNCHANGED <<storage, cols, builder, pending, chunks, handle, finished, calls>>

(* finishRow, with the seal of a builder that is full.                     *)
finishRow(w) ==
    /\ RowInProgress(w)
    /\ \E b \in builder[w] :
         LET full == [b EXCEPT !.rows = Append(@, row[w]), !.open = FALSE]
         IN  IF Len(full.rows) >= MaxChunkRows
             THEN /\ pending' = [pending EXCEPT ![w] = Append(@, seal(full))]
                  /\ builder' = [builder EXCEPT ![w] = {}]
             ELSE builder' = [builder EXCEPT ![w] = {full}] /\ UNCHANGED pending
    /\ row' = [row EXCEPT ![w] = <<>>]
    /\ finished' = finished + 1
    /\ UNCHANGED <<storage, cols, chunks, handle, calls>>

(* flushAll and commitChunks, between rows.                                *)
flushAndCommit(w) ==
    /\ ~RowInProgress(w)
    /\ chunks' = chunks \o pending[w] \o
                   SetToSeq({seal(b) : b \in {x \in builder[w] : x.rows # <<>>}})
    /\ pending' = [pending EXCEPT ![w] = <<>>]
    /\ builder' = [builder EXCEPT ![w] = {b \in @ : b.rows = <<>>}]
    /\ UNCHANGED <<storage, cols, row, handle, finished, calls>>

Next ==
    \E w \in Writers :
        \/ \E p \in Paths, type \in Types : ensureColumn(w, p, type)
        \/ \E a \in Arrays, n \in Lengths, type \in Types : expandArray(w, a, n, type)
        \/ \E p \in Paths : resolveField(w, p) \/ set(w, p)
        \/ beginRow(w)
        \/ finishRow(w)
        \/ flushAndCommit(w)

Spec == Init /\ [][Next]_vars

-----------------------------------------------------------------------------
(* Properties. *)

Layout == Seq(Column)
RowOK(r) == r \in [DOMAIN r -> Paths]
ChunkOK(c) == c.layout \in Layout /\ \A i \in 1 .. Len(c.rows) : RowOK(c.rows[i])

(* Type invariant: every variable holds what its declaration says.         *)
TypeOK ==
    /\ stored \in Layout
    /\ expansion \in [Arrays -> 0 .. Limit]
    /\ observed \in Nat /\ truncated \in Nat
    /\ cols \in [Writers -> Layout]
    /\ \A w \in Writers :
          /\ Cardinality(builder[w]) <= 1 /\ RowOK(row[w])
          /\ handle[w] \in [DOMAIN handle[w] -> Nat] /\ DOMAIN handle[w] \subseteq Paths
          /\ \A b \in builder[w] : ChunkOK(seal(b)) /\ b.open \in BOOLEAN
          /\ \A i \in DOMAIN pending[w] : ChunkOK(pending[w][i])
    /\ \A i \in DOMAIN chunks : ChunkOK(chunks[i])
    /\ finished \in Nat /\ calls \in 0 .. MaxCalls

(* The writers' layouts have not parted: what each has cached begins the   *)
(* topic's.  setColumnDescriptors stores one writer's copy as a whole, so  *)
(* two that add columns of their own end this.                             *)
InStep == \A w \in Writers : IsPrefix(cols[w], stored)

(* At most one writer has a layout.                                        *)
OneLayout == \A v, w \in Writers : cols[v] # <<>> /\ cols[w] # <<>> => v = w

(* "Field IDs are append-only and stable": a reader takes a field's column *)
(* number from the stored layout and reads that column in every chunk.  As *)
(* long as no writer's layout has parted from the topic's, it finds the    *)
(* field it asked for in each chunk that has the column at all, also in    *)
(* those of a writer that has not seen the last columns yet.               *)
ChunksMatchLayout ==
    /\ TypeOK
    /\ InStep /\ stored # <<>> =>
          \A i \in DOMAIN chunks : \A k \in DOMAIN chunks[i].layout \cap DOMAIN stored :
              chunks[i].layout[k] = stored[k]

(* A handle stays good whatever columns were added and builders sealed     *)
(* after it was given out: the values of a row land in the column of the   *)
(* field they were meant for, and inside the builder's layout.  A second   *)
(* writer that loads a layout under its open builder can miss the latter.  *)
ValuesUnderOwnField ==
    OneLayout =>
    /\ \A w \in Writers : \A b \in builder[w] : \A k \in DOMAIN row[w] :
          k \in DOMAIN b.layout /\ b.layout[k].path = row[w][k]
    /\ \A i \in DOMAIN chunks : \A r \in DOMAIN chunks[i].rows : \A k \in DOMAIN chunks[i].rows[r] :
          k \in DOMAIN chunks[i].layout /\ chunks[i].layout[k].path = chunks[i].rows[r][k]

Misplaced(layout, r) == \E k \in DOMAIN r \cap DOMAIN layout : layout[k].path # r[k]

(* "existing handles are never invalidated by later column additions", of  *)
(* any number of writers whose layouts have parted: a handle names its     *)
(* field in the layout of the writer that got it, whatever the others put  *)
(* in the storage, and no value of a row is in a column that has another   *)
(* field's name, neither in a builder nor in a sealed or committed chunk.  *)
HandlesStayGood ==
    /\ \A w \in Writers : \A p \in DOMAIN handle[w] :
          handle[w][p] \in DOMAIN cols[w] /\ cols[w][handle[w][p]].path = p
    /\ \A w \in Writers : \A b \in builder[w] : ~Misplaced(b.layout, row[w])
    /\ \A w \in Writers : \A i \in DOMAIN pending[w] : \A r \in DOMAIN pending[w][i].rows :
          ~Misplaced(pending[w][i].layout, pending[w][i].rows[r])
    /\ \A i \in DOMAIN chunks : \A r \in DOMAIN chunks[i].rows :
          ~Misplaced(chunks[i].layout, chunks[i].rows[r])

(* The elements an array was expanded to all have a column, also when some *)
(* were added by ensureColumn before or by another writer, as long as no   *)
(* layout has parted; and no field ever has two.                           *)
ArraysComplete ==
    /\ InStep => \A a \in Arrays : \A i \in 0 .. expansion[a] - 1 : HasPath(stored, elem(a, i))
    /\ \A j, k \in DOMAIN stored : stored[j].path = stored[k].path => j = k
=============================================================================
