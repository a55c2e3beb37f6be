-------------------------------- MODULE Query -------------------------------
(***************************************************************************)
(* The read side of pj_datastore over the committed chunks of one topic:   *)
(* RangeCursor (rangeQuery), latestAt, and a column seen as a series       *)
(* through SeriesCursor and SeriesReader.                                  *)
(*                                                                         *)
(* A row is its timestamp and the value of the column of interest, which   *)
(* may be Null; hasColumn is FALSE for a chunk that was sealed             *)
(* before the column was added.  Indices are 1-based; a cursor is at its   *)
(* end when chunk_index_ is past the last chunk.  Cursors read the live     *)
(* deque: chunks may be committed between two steps of one that is not at  *)
(* its end.  One that is would come to life again, and its caller drops it *)
(* first.                                                                  *)
(***************************************************************************)
EXTENDS Integers, Sequences, FiniteSets, FiniteSetsExt, SequencesExt

CONSTANTS
    Times,      \* timestamps of rows and queries
    Values,     \* column values
    Null,       \* a row without a value
    ChunkRows,  \* bound: rows in a chunk
    MaxChunks,  \* bound: chunks of the topic
    MaxRows     \* bound: rows of the topic

ASSUME QueryAssumption ==
    /\ Times \subseteq Int
    /\ Null \notin Values
    /\ ChunkRows \in Nat /\ MaxChunks \in Nat /\ MaxRows \in Nat

VARIABLES
    chunks,     \* TopicStorage::sealed_chunks_
    cursor,     \* the cursor in use
    yielded     \* positions the cursor delivered (history)

vars == <<chunks, cursor, yielded>>

NoCursor == [kind |-> "none", min |-> 0, max |-> 0, chunk |-> 1, row |-> 1]

(* The elements of s that pass a test, in their order.                     *)
Selected(s, Test(_)) == FlattenSeq([i \in 1 .. Len(s) |-> IF Test(s[i]) THEN <<s[i]>> ELSE <<>>])

row_count(c) == Len(c.rows)
tMin(c) == c.rows[1].ts
tMax(c) == Last(c.rows).ts

-----------------------------------------------------------------------------
(* std::lower_bound over 1 .. n, and std::upper_bound with its test turned *)
(* round: before has the indices in front of the one sought, and a range   *)
(* of len indices from first is halved until it is empty, which takes at   *)
(* most n rounds.                                                          *)
halve(r, before) ==
    LET half == r.len \div 2
    IN  IF r.len = 0 THEN r
        ELSE IF r.first + half \in before
        THEN [first |-> r.first + half + 1, len |-> r.len - half - 1]
        ELSE [first |-> r.first, len |-> half]

lower_bound(n, before) ==
    LET run[k \in 0 .. n] == IF k = 0 THEN [first |-> 1, len |-> n] ELSE halve(run[k - 1], before)
    IN  run[n].first

(* latestAt: the position of the most recent row at or before t, or the    *)
(* position 0, 0.                                                          *)
latestAt(t) ==
    LET after == lower_bound(Len(chunks), {i \in 1 .. Len(chunks) : tMin(chunks[i]) <= t})
        c == chunks[after - 1]
        row == lower_bound(row_count(c), {i \in 1 .. row_count(c) : c.rows[i].ts <= t})
    IN  IF after = 1 THEN <<0, 0>> ELSE IF row = 1 THEN <<0, 0>> ELSE <<after - 1, row - 1>>

-----------------------------------------------------------------------------
(* RangeCursor. *)

End == Len(chunks) + 1

valid(cur) == cur.chunk <= Len(chunks)

findFirstValid(cur) ==
    LET k == lower_bound(Len(chunks), {i \in 1 .. Len(chunks) : tMax(chunks[i]) < cur.min})
        c == chunks[k]
        row == lower_bound(row_count(c), {i \in 1 .. row_count(c) : c.rows[i].ts < cur.min})
    IN  IF k = End THEN [cur EXCEPT !.chunk = End, !.row = 1]
        ELSE IF row > row_count(c) THEN [cur EXCEPT !.chunk = End, !.row = 1]
        ELSE IF c.rows[row].ts > cur.max THEN [cur EXCEPT !.chunk = End, !.row = 1]
        ELSE [cur EXCEPT !.chunk = k, !.row = row]

(* Slip: the end of the range is taken as exclusive.                       *)
skipToValidExclusive(cur) ==
    IF valid(cur) /\ chunks[cur.chunk].rows[cur.row].ts >= cur.max
    THEN [cur EXCEPT !.chunk = End] ELSE cur

skipToValid(cur) ==
    IF valid(cur) /\ chunks[cur.chunk].rows[cur.row].ts > cur.max
    THEN [cur EXCEPT !.chunk = End] ELSE cur

nextRow(cur) ==
    IF cur.row + 1 > row_count(chunks[cur.chunk])
    THEN [cur EXCEPT !.chunk = @ + 1, !.row = 1]
    ELSE [cur EXCEPT !.row = @ + 1]

(* The rows forEachChunk hands out of chunk k when it starts at row from:  *)
(* skip rows before the range, then take rows until one is after it.       *)
chunkRange(cur, k, from) ==
    LET c == chunks[k]
        first == Min({i \in from .. row_count(c) : c.rows[i].ts >= cur.min} \cup {row_count(c) + 1})
        end == Min({i \in first .. row_count(c) : c.rows[i].ts > cur.max} \cup {row_count(c) + 1})
    IN  [i \in 1 .. end - first |-> <<k, first + i - 1>>]

(* It stops at the first chunk that starts after the range.                *)
forEachChunkRows(cur) ==
    LET stop == Min({k \in cur.chunk .. Len(chunks) : tMin(chunks[k]) > cur.max} \cup {End})
    IN  FlattenSeq([i \in 1 .. stop - cur.chunk |->
            LET k == cur.chunk + i - 1
            IN  IF tMax(chunks[k]) < cur.min THEN <<>>
                ELSE chunkRange(cur, k, IF i = 1 THEN cur.row ELSE 1)])

-----------------------------------------------------------------------------
(* Series. *)

hasValue(k, r) == chunks[k].hasColumn /\ chunks[k].rows[r].val # Null

(* SeriesCursor::skipToSample from a position: nothing left to see, or the *)
(* first row with a value.  The scan stops at the first chunk or row after *)
(* the range.                                                              *)
skipToSample(cur) ==
    LET from(k) == IF k = cur.chunk THEN cur.row ELSE 1
        usable(k) == tMax(chunks[k]) >= cur.min /\ chunks[k].hasColumn
        stopChunk(k) == usable(k) /\ tMin(chunks[k]) > cur.max
        rowsOf(k) == {r \in from(k) .. row_count(chunks[k]) : chunks[k].rows[r].ts >= cur.min}
        stops == {<<k, 0>> : k \in {j \in cur.chunk .. Len(chunks) : stopChunk(j)}}
                 \cup UNION {{<<k, r>> : r \in {q \in rowsOf(k) :
                              chunks[k].rows[q].ts > cur.max \/ hasValue(k, q)}} :
                                k \in {j \in cur.chunk .. Len(chunks) : usable(j)}}
        least == CHOOSE p \in stops : \A q \in stops : p[1] < q[1] \/ (p[1] = q[1] /\ p[2] <= q[2])
    IN  IF stops = {} THEN [cur EXCEPT !.chunk = End, !.row = 1]
        ELSE IF least[2] = 0 THEN [cur EXCEPT !.chunk = End]
        ELSE IF chunks[least[1]].rows[least[2]].ts > cur.max THEN [cur EXCEPT !.chunk = End]
        ELSE [cur EXCEPT !.chunk = least[1], !.row = least[2]]

(* All positions, in order, and those with a value: the virtual vector of  *)
(* SeriesReader::size and sampleAt.                                        *)
positions == FlattenSeq([k \in 1 .. Len(chunks) |->
                 [r \in 1 .. row_count(chunks[k]) |-> <<k, r>>]])

samplesAll == Selected(positions, LAMBDA p : hasValue(p[1], p[2]))

tsAt(p) == chunks[p[1]].rows[p[2]].ts

(* indexAtOrBeforeTime, 0 for none: count samples until a chunk or a row   *)
(* is after t.                                                             *)
indexAtOrBeforeTime(t) ==
    LET past(p) == \/ tsAt(p) > t /\ chunks[p[1]].hasColumn
                   \/ tMin(chunks[p[1]]) > t /\ chunks[p[1]].hasColumn
        stop == Min({i \in DOMAIN positions : past(positions[i])} \cup {Len(positions) + 1})
    IN  Len(Selected(SubSeq(positions, 1, stop - 1), LAMBDA p : hasValue(p[1], p[2])))

(* Slip: the samples of chunks that end before t are not counted.          *)
indexAfterSkipped(t) ==
    LET late == Selected(samplesAll, LAMBDA p : tMax(chunks[p[1]]) >= t)
        hits == {i \in DOMAIN late : tsAt(late[i]) >= t}
    IN  IF hits = {} THEN 0 ELSE Min(hits)

(* indexAtOrAfterTime, 0 for none: chunks that end before t only count.    *)
indexAtOrAfterTime(t) ==
    LET hit(p) == tMax(chunks[p[1]]) >= t /\ tsAt(p) >= t
        hits == {i \in DOMAIN samplesAll : hit(samplesAll[i])}
    IN  IF hits = {} THEN 0 ELSE Min(hits)

-----------------------------------------------------------------------------
Init == chunks = <<>> /\ cursor = NoCursor /\ yielded = <<>>

Chunk == UNION {[rows : [1 .. n -> [ts : Times, val : Values \cup {Null}]],
                 hasColumn : BOOLEAN] : n \in 1 .. ChunkRows}

Sorted(rows) == \A i, j \in DOMAIN rows : i <= j => rows[i].ts <= rows[j].ts

(* TopicStorage::appendSealedChunk of a chunk as a writer seals it: with   *)
(* rows, in time order; without the column there are no values.            *)
appendSealedChunk(c) ==
    /\ cursor.kind = "none" \/ valid(cursor)
    /\ Len(chunks) < MaxChunks /\ Len(positions) + row_count(c) <= MaxRows
    /\ Sorted(c.rows)
    /\ ~c.hasColumn => \A i \in DOMAIN c.rows : c.rows[i].val = Null
    /\ chunks # <<>> => tMin(c) >= tMax(Last(chunks))
    /\ chunks' = Append(chunks, c)
    /\ UNCHANGED <<cursor, yielded>>

openRange(min, max) ==
    /\ cursor.kind = "none"
    /\ cursor' = findFirstValid([NoCursor EXCEPT !.kind = "range", !.min = min, !.max = max])
    /\ yielded' = <<>>
    /\ UNCHANGED chunks

(* A SeriesCursor swaps the ends of a reversed range.                      *)
openSeries(a, b) ==
    /\ cursor.kind = "none"
    /\ cursor' = skipToSample([NoCursor EXCEPT !.kind = "series",
                                               !.min = IF a <= b THEN a ELSE b,
                                               !.max = IF a <= b THEN b ELSE a])
    /\ yielded' = <<>>
    /\ UNCHANGED chunks

(* current() and advance().                                                *)
advance ==
    /\ cursor.kind # "none" /\ valid(cursor)
    /\ yielded' = Append(yielded, <<cursor.chunk, cursor.row>>)
    /\ cursor' = IF cursor.kind = "range" THEN skipToValid(nextRow(cursor))
                 ELSE skipToSample([cursor EXCEPT !.row = @ + 1])
    /\ UNCHANGED chunks

(* forEachChunk: all that is left at once.                                 *)
forEachChunk ==
    /\ cursor.kind = "range" /\ valid(cursor)
    /\ yielded' = yielded \o forEachChunkRows(cursor)
    /\ cursor' = [cursor EXCEPT !.chunk = End]
    /\ UNCHANGED chunks

close ==
    /\ cursor.kind # "none"
    /\ cursor' = NoCursor /\ yielded' = <<>>
    /\ UNCHANGED chunks

Next ==
    \/ \E c \in Chunk : appendSealedChunk(c)
    \/ \E a, b \in Times : openRange(a, b) \/ openSeries(a, b)
    \/ advance
    \/ forEachChunk
    \/ close

Spec == Init /\ [][Next]_vars

-----------------------------------------------------------------------------
(* Properties. *)

(* Type invariant: chunks are committed ones, the cursor has its fields.   *)
TypeOK ==
    /\ chunks \in Seq(Chunk) /\ Len(chunks) <= MaxChunks
    /\ cursor.kind \in {"none", "range", "series"}
    /\ cursor.chunk \in 1 .. MaxChunks + 1 /\ cursor.row \in 1 .. ChunkRows + 1
    /\ yielded \in Seq((1 .. MaxChunks) \X (1 .. ChunkRows))

InRange(p) == cursor.min <= tsAt(p) /\ tsAt(p) <= cursor.max

(* What a cursor is asked for, from the rows alone.                        *)
Wanted == Selected(positions, LAMBDA p : InRange(p) /\ (cursor.kind = "series" => hasValue(p[1], p[2])))

(* A cursor, stepped by rows or finished with forEachChunk at any point,   *)
(* delivers exactly the rows (the samples) of its closed time range, in    *)
(* order, none twice and none left out at chunk boundaries with equal      *)
(* timestamps, and ends; rows committed while it was on its way included.  *)
CursorYieldsRange ==
    /\ TypeOK
    /\ cursor.kind # "none" =>
          IF valid(cursor) THEN /\ IsStrictPrefix(yielded, Wanted)
                                /\ Wanted[Len(yielded) + 1] = <<cursor.chunk, cursor.row>>
          ELSE yielded = Wanted

(* latestAt finds the last row at or before t, across chunks that share a  *)
(* boundary timestamp, and nothing when every row is after t.              *)
LatestAtIsLast ==
    \A t \in Times :
        LET upTo == Selected(positions, LAMBDA p : tsAt(p) <= t)
        IN  latestAt(t) = IF upTo = <<>> THEN <<0, 0>> ELSE Last(upTo)

(* The two lookups of a series by time agree with the virtual vector: the  *)
(* sample at or before t is the last one not after t, the one at or after  *)
(* t the first not before t, nulls and chunks without the column skipped.  *)
SeriesLookups ==
    \A t \in Times :
        LET before == {i \in DOMAIN samplesAll : tsAt(samplesAll[i]) <= t}
            after == {i \in DOMAIN samplesAll : tsAt(samplesAll[i]) >= t}
        IN  /\ indexAtOrBeforeTime(t) = IF before = {} THEN 0 ELSE Max(before)
            /\ indexAtOrAfterTime(t) = IF after = {} THEN 0 ELSE Min(after)

(* The binary searches over chunks and rows find what a scan would find.   *)
LookupsExact == LatestAtIsLast /\ SeriesLookups
=============================================================================
