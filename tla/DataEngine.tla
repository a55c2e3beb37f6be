----------------------------- MODULE DataEngine -----------------------------
(***************************************************************************)
(* The write path of pj_datastore: DataWriters that accumulate rows in     *)
(* TopicChunkBuilders, seal them into immutable chunks and hand those to   *)
(* DataEngine::commitChunks, the per-topic deque of committed chunks       *)
(* (TopicStorage), retention, and the transfer of all committed chunks of  *)
(* one engine into another (DataEngine::flushTo).                          *)
(*                                                                         *)
(* The engine is single-threaded: an operation runs to its end before the  *)
(* next one starts.  Operations that loop (appendColumns, commitChunks,    *)
(* the second phase of flushTo) are one step per loop iteration here; what *)
(* is left of the loop is in rest, queue and plan, and no other operation  *)
(* starts while one of these is non-empty (Idle).                          *)
(*                                                                         *)
(* A row is its timestamp and the number it was accepted under; columns    *)
(* are the subject of ColumnLayout.  MinTime and MaxTime stand for         *)
(* INT64_MIN and INT64_MAX, the values an empty builder's statistics hold. *)
(***************************************************************************)
EXTENDS Integers, Sequences, FiniteSets

CONSTANTS
    Engines,        \* engines of the process (a main and a staging engine)
    Topics,         \* topic ids
    Writers,        \* DataWriter objects
    EngineOf,       \* the engine a writer was created by
    TopicKey,       \* (dataset_id, name) of a topic, what flushTo matches by
    MaxChunkRows,   \* TopicDescriptor::max_chunk_rows
    MinTime,        \* INT64_MIN
    MaxTime,        \* INT64_MAX
    Batches,        \* timestamp arrays a caller passes to appendColumns
    Windows,        \* retention windows a caller passes to enforceRetention
    MaxRows         \* bound: rows accepted in one behaviour

Time == MinTime .. MaxTime

ASSUME TimeAssumption  == MinTime \in Int /\ MaxTime \in Int /\ MinTime <= MaxTime
ASSUME ChunkAssumption == MaxChunkRows \in Nat \ {0}
ASSUME BindAssumption  == EngineOf \in [Writers -> Engines]
ASSUME BatchAssumption == Batches \subseteq Seq(Time)
ASSUME WindowAssumption == Windows \subseteq Nat
ASSUME BoundAssumption == MaxRows \in Nat
ASSUME FiniteAssumption == IsFiniteSet(Topics)

VARIABLES
    topics,     \* topics[e]: topics registered in engine e
    builder,    \* builder[w][t]: the open TopicChunkBuilder of writer w
    pending,    \* pending[w][t]: chunks sealed by w, not flushed yet
    flushed,    \* flushed[w][t]: chunks the caller got from flush()
    sealed,     \* sealed[e][t]: TopicStorage::sealed_chunks_
    rest,       \* rest[w][t]: timestamps appendColumns has still to append
    queue,      \* queue[w][t]: chunks commitChunks has still to append
    plan,       \* steps flushTo has still to execute
    nextChunk,  \* TopicChunkBuilder::next_chunk_id_, shared by all builders
    accepted,   \* rows accepted so far (history)
    rejected,   \* rows of chunks commitChunks refused (history)
    evicted     \* rows of chunks retention dropped (history)

loopVars == <<rest, queue, plan>>
vars == <<topics, builder, pending, flushed, sealed, rest, queue, plan,
          nextChunk, accepted, rejected, evicted>>

-----------------------------------------------------------------------------
(* The data. *)

Row == [ts : Time, id : Nat]

Chunk == [id : Nat, tmin : Time, tmax : Time, rows : Seq(Row)]

(* rows: finished rows; tmin, tmax: ChunkStats; last: last_timestamp_;     *)
(* open: row_in_progress_ (the row's timestamp is then last).              *)
Builder == [rows : Seq(Row), tmin : Time, tmax : Time, last : Time, open : BOOLEAN]

(* A topic without a builder and a builder that was just created differ    *)
(* only in the column layout, so both are the fresh builder.               *)
NewBuilder == [rows |-> <<>>, tmin |-> MaxTime, tmax |-> MinTime,
               last |-> MinTime, open |-> FALSE]

Step == [from : Engines, to : Engines, src : Topics, dst : Topics]

Lower(a, b) == IF a <= b THEN a ELSE b
Upper(a, b) == IF a >= b THEN a ELSE b

Empty == [t \in Topics |-> <<>>]

RowIds(chunks) == UNION {{chunks[i].rows[j].id : j \in DOMAIN chunks[i].rows} :
                            i \in DOMAIN chunks}

-----------------------------------------------------------------------------
(* TopicChunkBuilder and TopicStorage, as functions of their state. *)

isFull(b) == Len(b.rows) >= MaxChunkRows

remainingCapacity(b) == MaxChunkRows - Len(b.rows)

seal(b) == [id |-> nextChunk, tmin |-> b.tmin, tmax |-> b.tmax, rows |-> b.rows]

beginRowIn(b, ts) == [b EXCEPT !.open = TRUE, !.last = ts]

(* Slip: t_max is the end of a half-open range, one past the last row; at  *)
(* the last timestamp there is no such value.                              *)
finishRowHalfOpen(b) ==
    [rows |-> Append(b.rows, [ts |-> b.last, id |-> accepted + 1]),
     tmin |-> Lower(b.tmin, b.last), tmax |-> Upper(b.tmax, b.last + 1),
     last |-> b.last, open |-> FALSE]

finishRowIn(b) ==
    [rows |-> Append(b.rows, [ts |-> b.last, id |-> accepted + 1]),
     tmin |-> Lower(b.tmin, b.last), tmax |-> Upper(b.tmax, b.last),
     last |-> b.last, open |-> FALSE]

(* appendTimestamps: only the first and the last timestamp of the batch    *)
(* reach the statistics.                                                   *)
appendTimestamps(b, ts) ==
    [rows |-> b.rows \o [i \in 1 .. Len(ts) |-> [ts |-> ts[i], id |-> accepted + i]],
     tmin |-> Lower(b.tmin, ts[1]), tmax |-> Upper(b.tmax, ts[Len(ts)]),
     last |-> ts[Len(ts)], open |-> b.open]

back(chunks) == chunks[Len(chunks)]

time_min(chunks) == chunks[1].tmin
time_max(chunks) == back(chunks).tmax

(* Slip: compare with the start of the last chunk, not with its end.       *)
AppendableAfterStart(chunks, c) == chunks = <<>> \/ c.tmin >= back(chunks).tmin

(* appendSealedChunk accepts a chunk that starts at or after the end of    *)
(* the last committed one.                                                 *)
Appendable(chunks, c) == chunks = <<>> \/ c.tmin >= time_max(chunks)

(* Slip: evict a chunk that ends exactly at the cut.                       *)
EvictCountAtCut(chunks, keep) ==
    Cardinality({i \in 1 .. Len(chunks) : \A j \in 1 .. i : chunks[j].tmax <= keep})

(* The chunks evictBefore removes: the longest prefix that ends before     *)
(* keep.                                                                   *)
EvictCount(chunks, keep) ==
    Cardinality({i \in 1 .. Len(chunks) : \A j \in 1 .. i : chunks[j].tmax < keep})

evictBefore(chunks, keep) ==
    SubSeq(chunks, EvictCount(chunks, keep) + 1, Len(chunks))

-----------------------------------------------------------------------------

(* Slip: the chunk counter is not advanced.                                *)
autoSealSameId(w, t, b) ==
    IF isFull(b)
    THEN /\ builder' = [builder EXCEPT ![w][t] = NewBuilder]
         /\ pending' = [pending EXCEPT ![w][t] = Append(@, seal(b))]
         /\ UNCHANGED nextChunk
    ELSE /\ builder' = [builder EXCEPT ![w][t] = b]
         /\ UNCHANGED <<pending, nextChunk>>

(* A builder that is full is sealed at once and its chunk becomes pending. *)
(* autoSeal of the builder b that replaces builder[w][t].                  *)
autoSeal(w, t, b) ==
    IF isFull(b)
    THEN /\ builder' = [builder EXCEPT ![w][t] = NewBuilder]
         /\ pending' = [pending EXCEPT ![w][t] = Append(@, seal(b))]
         /\ nextChunk' = nextChunk + 1
    ELSE /\ builder' = [builder EXCEPT ![w][t] = b]
         /\ UNCHANGED <<pending, nextChunk>>

Idle == /\ \A w \in Writers, t \in Topics : rest[w][t] = <<>> /\ queue[w][t] = <<>>
        /\ plan = {}

Init ==
    /\ topics = [e \in Engines |-> {}]
    /\ builder = [w \in Writers |-> [t \in Topics |-> NewBuilder]]
    /\ pending = [w \in Writers |-> Empty]
    /\ flushed = [w \in Writers |-> Empty]
    /\ sealed = [e \in Engines |-> Empty]
    /\ rest = [w \in Writers |-> Empty]
    /\ queue = [w \in Writers |-> Empty]
    /\ plan = {}
    /\ nextChunk = 1
    /\ accepted = 0
    /\ rejected = {}
    /\ evicted = {}

(* DataEngine::createTopic.  The code does not look for an existing topic  *)
(* of the same dataset and name.                                           *)
createTopic(e, t) ==
    /\ Idle
    /\ t \notin topics[e]
    /\ topics' = [topics EXCEPT ![e] = @ \cup {t}]
    /\ UNCHANGED <<builder, pending, flushed, sealed, loopVars,
                   nextChunk, accepted, rejected, evicted>>

(* DataWriter::beginRow, accepted.  An unknown topic and a timestamp below *)
(* the last one of a builder that has rows are errors and change nothing.  *)
(* A second beginRow before finishRow fails an assertion.                  *)
beginRow(w, t, ts) ==
    /\ Idle
    /\ t \in topics[EngineOf[w]]
    /\ ~builder[w][t].open
    /\ builder[w][t].rows # <<>> => ts >= builder[w][t].last
    /\ builder' = [builder EXCEPT ![w][t] = beginRowIn(@, ts)]
    /\ UNCHANGED <<topics, pending, flushed, sealed, loopVars,
                   nextChunk, accepted, rejected, evicted>>

(* DataWriter::finishRow.  Without a row in progress it is an error.       *)
finishRow(w, t) ==
    /\ Idle
    /\ accepted < MaxRows
    /\ builder[w][t].open
    /\ autoSeal(w, t, finishRowIn(builder[w][t]))
    /\ accepted' = accepted + 1
    /\ UNCHANGED <<topics, flushed, sealed, loopVars, rejected, evicted>>

(* DataWriter::appendScalar: beginRow and finishRow in one call; the order *)
(* of timestamps is asserted, not reported.                                *)
appendScalar(w, t, ts) ==
    /\ Idle
    /\ accepted < MaxRows
    /\ t \in topics[EngineOf[w]]
    /\ ~builder[w][t].open
    /\ builder[w][t].rows # <<>> => ts >= builder[w][t].last
    /\ autoSeal(w, t, finishRowIn(beginRowIn(builder[w][t], ts)))
    /\ accepted' = accepted + 1
    /\ UNCHANGED <<topics, flushed, sealed, loopVars, rejected, evicted>>

(* DataWriter::appendColumns up to its loop: only the first timestamp is   *)
(* compared with the builder's last one.  An empty array returns ok.       *)
appendColumns(w, t, ts) ==
    /\ Idle
    /\ ts # <<>>
    /\ accepted + Len(ts) <= MaxRows
    /\ t \in topics[EngineOf[w]]
    /\ ~builder[w][t].open
    /\ builder[w][t].rows # <<>> => ts[1] >= builder[w][t].last
    /\ rest' = [rest EXCEPT ![w][t] = ts]
    /\ UNCHANGED <<topics, builder, pending, flushed, sealed, queue, plan,
                   nextChunk, accepted, rejected, evicted>>

(* One iteration of the loop of appendColumns: fill the builder, seal it   *)
(* when full.                                                              *)
appendBatch(w, t) ==
    LET n == Lower(Len(rest[w][t]), remainingCapacity(builder[w][t]))
    IN  /\ rest[w][t] # <<>>
        /\ autoSeal(w, t, appendTimestamps(builder[w][t], SubSeq(rest[w][t], 1, n)))
        /\ rest' = [rest EXCEPT ![w][t] = SubSeq(@, n + 1, Len(@))]
        /\ accepted' = accepted + n
        /\ UNCHANGED <<topics, flushed, sealed, queue, plan, rejected, evicted>>

-----------------------------------------------------------------------------

(* Slip: the sealed builder is not discarded.                              *)
flushKeepBuilder(w, t) ==
    LET b == builder[w][t]
        tail == IF b.rows # <<>> THEN <<seal(b)>> ELSE <<>>
    IN  /\ Idle
        /\ flushed[w] = Empty
        /\ pending[w][t] \o tail # <<>>
        /\ flushed' = [flushed EXCEPT ![w][t] = pending[w][t] \o tail]
        /\ pending' = [pending EXCEPT ![w][t] = <<>>]
        /\ nextChunk' = nextChunk + Len(tail)
        /\ UNCHANGED <<topics, builder, sealed, loopVars, accepted, rejected, evicted>>

(* DataWriter::flush(topic): pending chunks, then the builder if it has    *)
(* finished rows.  A row in progress of a sealed builder is lost with it;  *)
(* a builder without finished rows stays.                                  *)
flush(w, t) ==
    LET b == builder[w][t]
        tail == IF b.rows # <<>> THEN <<seal(b)>> ELSE <<>>
    IN  /\ Idle
        /\ flushed[w] = Empty
        /\ pending[w][t] \o tail # <<>>
        /\ flushed' = [flushed EXCEPT ![w][t] = pending[w][t] \o tail]
        /\ pending' = [pending EXCEPT ![w][t] = <<>>]
        /\ builder' = [builder EXCEPT ![w][t] = IF b.rows # <<>> THEN NewBuilder ELSE b]
        /\ nextChunk' = nextChunk + Len(tail)
        /\ UNCHANGED <<topics, sealed, loopVars, accepted, rejected, evicted>>

(* DataWriter::flushAll: the same for every topic of the writer.  The      *)
(* builders are sealed in the iteration order of a hash map, here any      *)
(* order (a numbering of the topics whose builder has rows).               *)
flushAll(w) ==
    LET open == {t \in Topics : builder[w][t].rows # <<>>}
    IN  /\ Idle
        /\ flushed[w] = Empty
        /\ \E order \in [open -> 0 .. Cardinality(open) - 1] :
             /\ \A s, t \in open : order[s] = order[t] => s = t
             /\ flushed' = [flushed EXCEPT ![w] =
                    [t \in Topics |-> pending[w][t] \o
                       (IF t \in open
                        THEN <<[seal(builder[w][t]) EXCEPT !.id = nextChunk + order[t]]>>
                        ELSE <<>>)]]
        /\ pending' = [pending EXCEPT ![w] = Empty]
        /\ builder' = [builder EXCEPT ![w] =
               [t \in Topics |-> IF t \in open THEN NewBuilder ELSE builder[w][t]]]
        /\ nextChunk' = nextChunk + Cardinality(open)
        /\ UNCHANGED <<topics, sealed, loopVars, accepted, rejected, evicted>>

(* The call of DataEngine::commitChunks with what a flush returned.        *)
commitChunks(w) ==
    /\ Idle
    /\ flushed[w] # Empty
    /\ queue' = [queue EXCEPT ![w] = flushed[w]]
    /\ flushed' = [flushed EXCEPT ![w] = Empty]
    /\ UNCHANGED <<topics, builder, pending, sealed, rest, plan,
                   nextChunk, accepted, rejected, evicted>>

(* One iteration of its loop: append the chunk to its topic, or drop it    *)
(* without a word when appendSealedChunk refuses it.                       *)
appendSealedChunk(w, t) ==
    LET e == EngineOf[w]
        c == queue[w][t][1]
    IN  /\ queue[w][t] # <<>>
        /\ queue' = [queue EXCEPT ![w][t] = Tail(@)]
        /\ IF t \in topics[e] /\ Appendable(sealed[e][t], c)
           THEN /\ sealed' = [sealed EXCEPT ![e][t] = Append(@, c)]
                /\ UNCHANGED rejected
           ELSE /\ rejected' = rejected \cup RowIds(<<c>>)
                /\ UNCHANGED sealed
        /\ UNCHANGED <<topics, builder, pending, flushed, rest, plan,
                       nextChunk, accepted, evicted>>

-----------------------------------------------------------------------------
(* DataEngine::enforceRetention: every topic drops the chunks that end     *)
(* before its own newest timestamp minus the window.                       *)
enforceRetention(e, window) ==
    LET kept(t) == IF sealed[e][t] = <<>> THEN <<>>
                   ELSE evictBefore(sealed[e][t], time_max(sealed[e][t]) - window)
        out(t) == SubSeq(sealed[e][t], 1, Len(sealed[e][t]) - Len(kept(t)))
    IN  /\ Idle
        /\ sealed' = [sealed EXCEPT ![e] = [t \in Topics |-> kept(t)]]
        /\ evicted' = evicted \cup UNION {RowIds(out(t)) : t \in Topics}
        /\ UNCHANGED <<topics, builder, pending, flushed, loopVars,
                       nextChunk, accepted, rejected>>

(* DataEngine::flushTo, first phase: every source topic with chunks needs  *)
(* a destination topic of the same key whose newest timestamp is not after *)
(* the source's oldest; the first one in map order is taken.  When a topic *)
(* fails, the call returns an error before anything was moved.             *)
Movable(e, f, s, d) ==
    /\ d \in topics[f]
    /\ TopicKey[d] = TopicKey[s]
    /\ sealed[f][d] # <<>> => time_min(sealed[e][s]) >= time_max(sealed[f][d])

flushTo(e, f) ==
    LET full == {s \in Topics : sealed[e][s] # <<>>}
    IN  /\ Idle
        /\ e # f
        /\ full # {}
        /\ \E match \in [full -> Topics] :
             /\ \A s \in full : Movable(e, f, s, match[s])
             /\ \A s, r \in full : TopicKey[s] = TopicKey[r] => match[s] = match[r]
             /\ plan' = {[from |-> e, to |-> f, src |-> s, dst |-> match[s]] : s \in full}
        /\ UNCHANGED <<topics, builder, pending, flushed, sealed, rest, queue,
                       nextChunk, accepted, rejected, evicted>>

(* Slip: the chunks go to the front of the destination.                    *)
moveChunksToFront(s) ==
    /\ s \in plan
    /\ plan' = plan \ {s}
    /\ sealed' = [sealed EXCEPT ![s.to][s.dst] = sealed[s.from][s.src] \o @,
                                ![s.from][s.src] = <<>>]
    /\ UNCHANGED <<topics, builder, pending, flushed, rest, queue,
                   nextChunk, accepted, rejected, evicted>>

(* Second phase, one step of the plan: the chunks of the source topic move *)
(* to the end of the destination topic.                                    *)
moveChunks(s) ==
    /\ s \in plan
    /\ plan' = plan \ {s}
    /\ sealed' = [e \in Engines |-> [t \in Topics |->
          IF e = s.to /\ t = s.dst THEN sealed[e][t] \o sealed[s.from][s.src]
          ELSE IF e = s.from /\ t = s.src THEN <<>>
          ELSE sealed[e][t]]]
    /\ UNCHANGED <<topics, builder, pending, flushed, rest, queue,
                   nextChunk, accepted, rejected, evicted>>

Next ==
    \/ \E e \in Engines, t \in Topics : createTopic(e, t)
    \/ \E w \in Writers, t \in Topics :
          \/ \E ts \in Time : beginRow(w, t, ts) \/ appendScalar(w, t, ts)
          \/ \E ts \in Batches : appendColumns(w, t, ts)
          \/ finishRow(w, t)
          \/ appendBatch(w, t)
          \/ flush(w, t)
          \/ appendSealedChunk(w, t)
    \/ \E w \in Writers : flushAll(w) \/ commitChunks(w)
    \/ \E e \in Engines, window \in Windows : enforceRetention(e, window)
    \/ \E e, f \in Engines : flushTo(e, f)
    \/ \E s \in plan : moveChunks(s)

Spec == Init /\ [][Next]_vars

-----------------------------------------------------------------------------
(* What the callers and the registration code are expected to respect.     *)

SortedTimes(ts) == \A i, j \in 1 .. Len(ts) : i <= j => ts[i] <= ts[j]

(* Callers pass non-decreasing timestamp arrays to appendColumns.          *)
BatchesSorted == \A ts \in Batches : SortedTimes(ts)

(* No two topics have the same dataset and name.                           *)
KeysUnique == \A s, t \in Topics : TopicKey[s] = TopicKey[t] => s = t

-----------------------------------------------------------------------------
(* Properties. *)

(* Type invariant: every variable holds what its declaration says.         *)
TypeOK ==
    /\ topics \in [Engines -> SUBSET Topics]
    /\ builder \in [Writers -> [Topics -> Builder]]
    /\ pending \in [Writers -> [Topics -> Seq(Chunk)]]
    /\ flushed \in [Writers -> [Topics -> Seq(Chunk)]]
    /\ sealed \in [Engines -> [Topics -> Seq(Chunk)]]
    /\ rest \in [Writers -> [Topics -> Seq(Time)]]
    /\ queue \in [Writers -> [Topics -> Seq(Chunk)]]
    /\ plan \subseteq Step
    /\ nextChunk \in Nat \ {0}
    /\ accepted \in Nat
    /\ rejected \subseteq Nat
    /\ evicted \subseteq Nat

(* A full builder is sealed in the call that filled it.                    *)
BuilderRoom == \A w \in Writers, t \in Topics : Len(builder[w][t].rows) < MaxChunkRows

RowsSorted(rows) == \A i, j \in 1 .. Len(rows) : i <= j => rows[i].ts <= rows[j].ts

(* A sealed chunk has rows, no more than max_chunk_rows, in time order,    *)
(* and its statistics are the first and the last timestamp.                *)
ChunkOK(c) ==
    /\ Len(c.rows) \in 1 .. MaxChunkRows
    /\ RowsSorted(c.rows)
    /\ c.tmin = c.rows[1].ts
    /\ c.tmax = c.rows[Len(c.rows)].ts

ChunksOK(chunks) == \A i \in 1 .. Len(chunks) : ChunkOK(chunks[i])

InOrder(chunks) ==
    \A i, j \in 1 .. Len(chunks) : i < j => chunks[i].tmax <= chunks[j].tmin

(* What the binary searches of the query layer rely on: the committed      *)
(* chunks of every topic of every engine are well formed and follow each   *)
(* other in time, whatever mix of row, scalar and bulk appends, flushes,   *)
(* late commits of several writers, evictions and engine-to-engine         *)
(* transfers produced them.                                                *)
TopicsInOrder ==
    \A e \in Engines, t \in Topics : ChunksOK(sealed[e][t]) /\ InOrder(sealed[e][t])

(* Where chunks are, all told.                                             *)
Places == {<<"pending", w, t>> : w \in Writers, t \in Topics}
          \cup {<<"flushed", w, t>> : w \in Writers, t \in Topics}
          \cup {<<"queue", w, t>> : w \in Writers, t \in Topics}
          \cup {<<"sealed", e, t>> : e \in Engines, t \in Topics}

ChunksAt(p) == CASE p[1] = "pending" -> pending[p[2]][p[3]]
                 [] p[1] = "flushed" -> flushed[p[2]][p[3]]
                 [] p[1] = "queue" -> queue[p[2]][p[3]]
                 [] p[1] = "sealed" -> sealed[p[2]][p[3]]

(* Two chunks are never given the same ChunkId, although builders of all   *)
(* writers and engines draw from one counter and chunks travel between     *)
(* engines.                                                                *)
ChunkIdsUnique ==
    \A p, q \in Places : \A i \in DOMAIN ChunksAt(p), j \in DOMAIN ChunksAt(q) :
        ChunksAt(p)[i].id = ChunksAt(q)[j].id => p = q /\ i = j

(* The places an accepted row is in: chunks, builders, or history.         *)
Holding(rows, id) == {j \in DOMAIN rows : rows[j].id = id}

ChunkPlaces == UNION {{p} \X DOMAIN ChunksAt(p) : p \in Places}

RowPlaces(id) ==
    (UNION {{x} \X Holding(ChunksAt(x[1])[x[2]].rows, id) : x \in ChunkPlaces})
    \cup (UNION {{x} \X Holding(builder[x[1]][x[2]].rows, id) : x \in Writers \X Topics})
    \cup {<<h>> : h \in {k \in {"rejected", "evicted"} :
                        id \in IF k = "rejected" THEN rejected ELSE evicted}}

(* Every row that was accepted is in exactly one place until retention     *)
(* drops it or commitChunks refuses its chunk: no flush, seal, commit or   *)
(* transfer loses a row or keeps a second copy.                            *)
RowsConserved == \A id \in 1 .. accepted : Cardinality(RowPlaces(id)) = 1

(* Retention never takes a row that is inside the smallest window in use,  *)
(* measured from the newest timestamp of its own topic.                    *)
RetentionKeepsWindow ==
    [][evicted' # evicted =>
        \A e \in Engines, t \in Topics :
            \A i \in DOMAIN sealed[e][t] : \A j \in DOMAIN sealed[e][t][i].rows :
                LET r == sealed[e][t][i].rows[j]
                IN  (\A window \in Windows : r.ts >= time_max(sealed[e][t]) - window)
                        => r.id \notin evicted']_vars

-----------------------------------------------------------------------------
(* The inductive invariant behind TopicsInOrder. *)

(* The rows of a builder are in order, its statistics are those of its     *)
(* first and last row, and no row can start before the last one.           *)
BuilderOK(b) ==
    /\ RowsSorted(b.rows)
    /\ b.rows = <<>> => b.tmin = MaxTime /\ b.tmax = MinTime
    /\ b.rows # <<>> => /\ b.tmin = b.rows[1].ts
                        /\ b.tmax = b.rows[Len(b.rows)].ts
                        /\ b.tmax <= b.last

(* What appendColumns has still to append follows what is in the builder.  *)
RestOK(ts, b) == SortedTimes(ts) /\ (ts # <<>> /\ b.rows # <<>> => ts[1] >= b.last)

WritersOK ==
    \A w \in Writers, t \in Topics :
        /\ BuilderOK(builder[w][t])
        /\ RestOK(rest[w][t], builder[w][t])
        /\ ChunksOK(pending[w][t])
        /\ ChunksOK(flushed[w][t])
        /\ ChunksOK(queue[w][t])

(* What flushTo validated in its first phase still holds for every step it *)
(* has yet to execute: the steps have distinct sources and destinations.   *)
PlanOK ==
    /\ plan # {} => \A w \in Writers, t \in Topics : queue[w][t] = <<>>
    /\ \A s \in plan :
          /\ s.from # s.to
          /\ sealed[s.from][s.src] # <<>>
          /\ sealed[s.to][s.dst] # <<>> =>
                time_min(sealed[s.from][s.src]) >= time_max(sealed[s.to][s.dst])
    /\ \A s, r \in plan :
          s.from = r.from /\ s.to = r.to /\ (s.src = r.src \/ s.dst = r.dst => s = r)

OrderInv == TypeOK /\ BuilderRoom /\ WritersOK /\ TopicsInOrder /\ PlanOK
=============================================================================
