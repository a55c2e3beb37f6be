-------------------------- MODULE DataEngine_proofs -------------------------
(***************************************************************************)
(* Theorems about DataEngine, for every set of engines, topics and         *)
(* writers and every chunk size: the types, what is committed, the rows    *)
(* and chunks that are carried around, and that it implements TopicLog.    *)
(***************************************************************************)
EXTENDS DataEngineLog, SequenceFacts, FiniteSetTheorems, SequenceTheorems, TLAPS

-----------------------------------------------------------------------------
(* An update of a function of two arguments. *)

(* One entry changes, the others stay.                                     *)
LEMMA Update2 ==
    ASSUME NEW A, NEW B, NEW S, NEW f \in [A -> [B -> S]],
           NEW a \in A, NEW b \in B, NEW v \in S
    PROVE  /\ [f EXCEPT ![a][b] = v] \in [A -> [B -> S]]
           /\ \A x \in A, y \in B :
                 [f EXCEPT ![a][b] = v][x][y] = IF x = a /\ y = b THEN v ELSE f[x][y]
OBVIOUS

(* The same for a whole row of the function.                               *)
LEMMA Update1 ==
    ASSUME NEW A, NEW B, NEW S, NEW f \in [A -> [B -> S]],
           NEW a \in A, NEW v \in [B -> S]
    PROVE  /\ [f EXCEPT ![a] = v] \in [A -> [B -> S]]
           /\ \A x \in A, y \in B :
                 [f EXCEPT ![a] = v][x][y] = IF x = a THEN v[y] ELSE f[x][y]
OBVIOUS

-----------------------------------------------------------------------------
(* Type correctness. *)

(* seal, beginRow and finishRow keep the types.                            *)
LEMMA BuilderOps ==
    ASSUME TypeOK, NEW b \in Builder, NEW ts \in Time
    PROVE  /\ seal(b) \in Chunk
           /\ beginRowIn(b, ts) \in Builder
           /\ finishRowIn(b) \in Builder
<1>1. seal(b) \in Chunk
  BY DEF TypeOK, seal, Chunk, Builder
<1>2. beginRowIn(b, ts) \in Builder
  BY DEF beginRowIn, Builder
<1>3. finishRowIn(b) \in Builder
  <2>1. [ts |-> b.last, id |-> accepted + 1] \in Row
    BY DEF TypeOK, Row, Builder
  <2>2. Lower(b.tmin, b.last) \in Time /\ Upper(b.tmax, b.last) \in Time
    BY DEF Lower, Upper, Builder
  <2> QED BY <2>1, <2>2 DEF finishRowIn, Builder
<1> QED BY <1>1, <1>2, <1>3

(* appendTimestamps keeps the types.                                       *)
LEMMA AppendTimestampsType ==
    ASSUME TypeOK, NEW b \in Builder, NEW ts \in Seq(Time), ts # <<>>
    PROVE  appendTimestamps(b, ts) \in Builder
<1>1. ts[1] \in Time /\ ts[Len(ts)] \in Time
  OBVIOUS
<1>2. [i \in 1 .. Len(ts) |-> [ts |-> ts[i], id |-> accepted + i]] \in Seq(Row)
  <2>1. \A i \in 1 .. Len(ts) : [ts |-> ts[i], id |-> accepted + i] \in Row
    BY DEF TypeOK, Row
  <2> QED BY <2>1
<1>3. Lower(b.tmin, ts[1]) \in Time /\ Upper(b.tmax, ts[Len(ts)]) \in Time
  BY <1>1 DEF Lower, Upper, Builder
<1> QED BY <1>1, <1>2, <1>3 DEF appendTimestamps, Builder

(* The builder after a seal is one.                                        *)
LEMMA NewBuilderType == NewBuilder \in Builder
BY TimeAssumption DEF NewBuilder, Builder, Time

(* What autoSeal does to the writer's state, argument by argument.         *)
LEMMA AutoSealEffect ==
    ASSUME TypeOK, NEW w \in Writers, NEW t \in Topics, NEW b \in Builder,
           autoSeal(w, t, b)
    PROVE  /\ builder' \in [Writers -> [Topics -> Builder]]
           /\ pending' \in [Writers -> [Topics -> Seq(Chunk)]]
           /\ nextChunk' \in Nat \ {0}
           /\ \A x \in Writers, y \in Topics :
                 builder'[x][y] = IF x = w /\ y = t
                                  THEN IF isFull(b) THEN NewBuilder ELSE b
                                  ELSE builder[x][y]
           /\ \A x \in Writers, y \in Topics :
                 pending'[x][y] = IF x = w /\ y = t /\ isFull(b)
                                  THEN Append(pending[w][t], seal(b))
                                  ELSE pending[x][y]
           /\ seal(b) \in Chunk
<1>0. builder \in [Writers -> [Topics -> Builder]] /\ pending \in [Writers -> [Topics -> Seq(Chunk)]]
  BY DEF TypeOK
<1>s. seal(b) \in Chunk
  BY BuilderOps, TimeAssumption DEF Time
<1>1. CASE isFull(b)
  <2>1. Append(pending[w][t], seal(b)) \in Seq(Chunk)
    BY <1>0, <1>s
  <2>2. /\ pending' = [pending EXCEPT ![w][t] = Append(pending[w][t], seal(b))]
        /\ builder' = [builder EXCEPT ![w][t] = NewBuilder]
        /\ nextChunk' = nextChunk + 1
    BY <1>1 DEF autoSeal
  <2>3. /\ pending' \in [Writers -> [Topics -> Seq(Chunk)]]
        /\ \A x \in Writers, y \in Topics :
              pending'[x][y] = IF x = w /\ y = t THEN Append(pending[w][t], seal(b))
                               ELSE pending[x][y]
    BY <1>0, <2>1, <2>2, Update2, SMTT(20)
  <2>4. /\ builder' \in [Writers -> [Topics -> Builder]]
        /\ \A x \in Writers, y \in Topics :
              builder'[x][y] = IF x = w /\ y = t THEN NewBuilder ELSE builder[x][y]
    BY <1>0, <2>2, Update2, NewBuilderType, SMTT(20)
  <2>5. nextChunk' \in Nat \ {0}
    BY <2>2 DEF TypeOK
  <2> QED BY <1>1, <1>s, <2>3, <2>4, <2>5
<1>2. CASE ~isFull(b)
  <2>1. builder' = [builder EXCEPT ![w][t] = b]
    BY <1>2 DEF autoSeal
  <2>2. pending' = pending /\ nextChunk' = nextChunk
    BY <1>2 DEF autoSeal
  <2>3. /\ builder' \in [Writers -> [Topics -> Builder]]
        /\ \A x \in Writers, y \in Topics :
              builder'[x][y] = IF x = w /\ y = t THEN b ELSE builder[x][y]
    BY <1>0, <2>1, Update2, SMTT(20)
  <2>4. nextChunk' \in Nat \ {0}
    BY <2>2 DEF TypeOK
  <2> QED BY <1>0, <1>2, <1>s, <2>2, <2>3, <2>4
<1> QED BY <1>1, <1>2

(* After autoSeal a builder has room for another row.                      *)
LEMMA AutoSealRoom ==
    ASSUME TypeOK, BuilderRoom, NEW w \in Writers, NEW t \in Topics, NEW b \in Builder,
           autoSeal(w, t, b)
    PROVE  BuilderRoom'
<1>1. Len(NewBuilder.rows) < MaxChunkRows
  BY ChunkAssumption DEF NewBuilder
<1>2. ~isFull(b) => Len(b.rows) < MaxChunkRows
  BY ChunkAssumption DEF isFull, Builder
<1>3. \A x \in Writers, y \in Topics :
         builder'[x][y] = IF x = w /\ y = t
                          THEN IF isFull(b) THEN NewBuilder ELSE b
                          ELSE builder[x][y]
  BY AutoSealEffect
<1> QED BY <1>1, <1>2, <1>3 DEF BuilderRoom

(* evictBefore leaves a run of the chunks it was given.                    *)
LEMMA EvictType ==
    ASSUME NEW chunks \in Seq(Chunk), NEW keep \in Int
    PROVE  /\ EvictCount(chunks, keep) \in 0 .. Len(chunks)
           /\ evictBefore(chunks, keep) \in Seq(Chunk)
           /\ Len(evictBefore(chunks, keep)) = Len(chunks) - EvictCount(chunks, keep)
           /\ \A i \in 1 .. Len(evictBefore(chunks, keep)) :
                 evictBefore(chunks, keep)[i] = chunks[EvictCount(chunks, keep) + i]
<1> DEFINE I == 1 .. Len(chunks)
           S == {i \in I : \A j \in 1 .. i : chunks[j].tmax < keep}
<1>1. IsFiniteSet(I) /\ Cardinality(I) = Len(chunks)
  <2>1. Len(chunks) \in Nat
    OBVIOUS
  <2>2. IsFiniteSet(I) /\ Cardinality(I) = IF 1 > Len(chunks) THEN 0 ELSE Len(chunks) - 1 + 1
    BY <2>1, FS_Interval
  <2> QED BY <2>1, <2>2
<1>2. Cardinality(S) \in Nat /\ Cardinality(S) <= Cardinality(I)
  <2>1. S \in SUBSET I
    OBVIOUS
  <2> HIDE DEF S, I
  <2>2. IsFiniteSet(S) /\ Cardinality(S) <= Cardinality(I)
    BY <1>1, <2>1, FS_Subset
  <2> QED BY <2>2, FS_CardinalityType
<1>3. EvictCount(chunks, keep) \in 0 .. Len(chunks)
  BY <1>1, <1>2 DEF EvictCount
<1>4. evictBefore(chunks, keep) = SubSeq(chunks, EvictCount(chunks, keep) + 1, Len(chunks))
  BY DEF evictBefore
<1> HIDE DEF I, S
<1> QED BY ONLY <1>3, <1>4, chunks \in Seq(Chunk), SMTT(20)

(* Row numbers are natural numbers.                                        *)
LEMMA RowIdsType ==
    ASSUME NEW chunks \in Seq(Chunk)
    PROVE  RowIds(chunks) \subseteq Nat
<1>1. \A i \in DOMAIN chunks : chunks[i] \in Chunk
  OBVIOUS
<1>2. \A c \in Chunk : \A j \in DOMAIN c.rows : c.rows[j].id \in Nat
  <2> SUFFICES ASSUME NEW c \in Chunk, NEW j \in DOMAIN c.rows
               PROVE  c.rows[j].id \in Nat
    OBVIOUS
  <2>1. c.rows \in Seq(Row)
    BY DEF Chunk
  <2>2. c.rows[j] \in Row
    BY <2>1
  <2> QED BY <2>2 DEF Row
<1> QED BY <1>1, <1>2 DEF RowIds

(* The initial state is well typed.                                        *)
LEMMA TypeInit == Init => TypeOK /\ BuilderRoom
<1> SUFFICES ASSUME Init PROVE TypeOK /\ BuilderRoom
  OBVIOUS
<1>1. TypeOK
  BY NewBuilderType DEF Init, TypeOK, Empty
<1>2. BuilderRoom
  BY ChunkAssumption DEF Init, BuilderRoom, NewBuilder
<1> QED BY <1>1, <1>2

(* Every step keeps the types and the room in the builders.                *)
LEMMA TypeStep == TypeOK /\ BuilderRoom /\ [Next]_vars => TypeOK' /\ BuilderRoom'
<1> SUFFICES ASSUME TypeOK, BuilderRoom, [Next]_vars
             PROVE  TypeOK' /\ BuilderRoom'
  OBVIOUS
<1> DEFINE G == TypeOK' /\ BuilderRoom'
<1>1. ASSUME NEW e \in Engines, NEW t \in Topics, createTopic(e, t)
      PROVE  G
  BY <1>1 DEF TypeOK, BuilderRoom, createTopic, loopVars
<1>2. ASSUME NEW w \in Writers, NEW t \in Topics, NEW ts \in Time, beginRow(w, t, ts)
      PROVE  G
  <2>1. builder' = [builder EXCEPT ![w][t] = beginRowIn(builder[w][t], ts)]
    BY <1>2 DEF beginRow
  <2>2. builder[w][t] \in Builder /\ builder \in [Writers -> [Topics -> Builder]]
    BY DEF TypeOK
  <2>3. beginRowIn(builder[w][t], ts) \in Builder
    BY <2>2, BuilderOps
  <2>4. /\ builder' \in [Writers -> [Topics -> Builder]]
        /\ \A x \in Writers, y \in Topics : builder'[x][y] =
              IF x = w /\ y = t THEN beginRowIn(builder[w][t], ts) ELSE builder[x][y]
    BY <2>1, <2>2, <2>3, Update2, SMTT(20)
  <2>5. beginRowIn(builder[w][t], ts).rows = builder[w][t].rows
    BY <2>2 DEF beginRowIn, Builder
  <2>6. BuilderRoom'
    BY <2>4, <2>5 DEF BuilderRoom
  <2> QED BY <1>2, <2>4, <2>6 DEF TypeOK, beginRow, loopVars
<1>3. ASSUME NEW w \in Writers, NEW t \in Topics, NEW ts \in Time, appendScalar(w, t, ts)
      PROVE  G
  <2> DEFINE b == finishRowIn(beginRowIn(builder[w][t], ts))
  <2>1. b \in Builder
    <3>1. builder[w][t] \in Builder
      BY DEF TypeOK
    <3>2. beginRowIn(builder[w][t], ts) \in Builder
      BY <3>1, BuilderOps
    <3> QED BY <3>2, BuilderOps
  <2>2. autoSeal(w, t, b)
    BY <1>3 DEF appendScalar
  <2> HIDE DEF b
  <2>3. /\ builder' \in [Writers -> [Topics -> Builder]]
        /\ pending' \in [Writers -> [Topics -> Seq(Chunk)]]
        /\ nextChunk' \in Nat \ {0}
    BY <2>1, <2>2, AutoSealEffect
  <2>4. BuilderRoom'
    BY <2>1, <2>2, AutoSealRoom
  <2> QED BY <1>3, <2>3, <2>4, SMTT(20) DEF TypeOK, appendScalar, loopVars
<1>4. ASSUME NEW w \in Writers, NEW t \in Topics, NEW ts \in Batches, appendColumns(w, t, ts)
      PROVE  G
  <2>1. ts \in Seq(Time)
    BY BatchAssumption
  <2>2. rest' \in [Writers -> [Topics -> Seq(Time)]]
    BY <1>4, <2>1, Update2, SMTT(20) DEF TypeOK, appendColumns
  <2> QED BY <1>4, <2>2 DEF TypeOK, BuilderRoom, appendColumns
<1>5. ASSUME NEW w \in Writers, NEW t \in Topics, finishRow(w, t)
      PROVE  G
  <2> DEFINE b == finishRowIn(builder[w][t])
  <2>1. b \in Builder
    <3>1. builder[w][t] \in Builder /\ MinTime \in Time
      BY TimeAssumption DEF TypeOK, Time
    <3> QED BY <3>1, BuilderOps
  <2>2. autoSeal(w, t, b)
    BY <1>5 DEF finishRow
  <2> HIDE DEF b
  <2>3. /\ builder' \in [Writers -> [Topics -> Builder]]
        /\ pending' \in [Writers -> [Topics -> Seq(Chunk)]]
        /\ nextChunk' \in Nat \ {0}
    BY <2>1, <2>2, AutoSealEffect
  <2>4. BuilderRoom'
    BY <2>1, <2>2, AutoSealRoom
  <2> QED BY <1>5, <2>3, <2>4 DEF TypeOK, finishRow, loopVars
<1>6. ASSUME NEW w \in Writers, NEW t \in Topics, appendBatch(w, t)
      PROVE  G
  <2> DEFINE n == Lower(Len(rest[w][t]), remainingCapacity(builder[w][t]))
             s == SubSeq(rest[w][t], 1, n)
             b == appendTimestamps(builder[w][t], s)
  <2>0. builder[w][t] \in Builder /\ rest[w][t] \in Seq(Time) /\ rest[w][t] # <<>>
    BY <1>6 DEF TypeOK, appendBatch
  <2>1. n \in 1 .. Len(rest[w][t])
    <3>1. Len(builder[w][t].rows) \in Nat /\ Len(builder[w][t].rows) < MaxChunkRows
      BY <2>0 DEF BuilderRoom, Builder
    <3>2. Len(rest[w][t]) \in Nat \ {0}
      BY <2>0
    <3>3. remainingCapacity(builder[w][t]) \in Nat \ {0}
      BY <3>1, ChunkAssumption DEF remainingCapacity
    <3> QED BY <3>2, <3>3 DEF Lower
  <2>2. autoSeal(w, t, b) /\ rest' = [rest EXCEPT ![w][t] = SubSeq(rest[w][t], n + 1, Len(rest[w][t]))]
        /\ accepted' = accepted + n
    BY <1>6 DEF appendBatch
  <2> HIDE DEF n
  <2>3. s \in Seq(Time) /\ s # <<>>
    BY <2>0, <2>1
  <2>4. b \in Builder
    BY <2>0, <2>3, AppendTimestampsType
  <2>5. SubSeq(rest[w][t], n + 1, Len(rest[w][t])) \in Seq(Time)
    BY <2>0, <2>1
  <2> HIDE DEF b
  <2>6. rest' \in [Writers -> [Topics -> Seq(Time)]]
    BY <2>2, <2>5, Update2, SMTT(20) DEF TypeOK
  <2>7. /\ builder' \in [Writers -> [Topics -> Builder]]
        /\ pending' \in [Writers -> [Topics -> Seq(Chunk)]]
        /\ nextChunk' \in Nat \ {0}
    BY <2>2, <2>4, AutoSealEffect
  <2>8. BuilderRoom'
    BY <2>2, <2>4, AutoSealRoom
  <2>9. accepted' \in Nat
    BY <2>1, <2>2 DEF TypeOK
  <2>10. UNCHANGED <<topics, flushed, sealed, queue, plan, rejected, evicted>>
    BY <1>6 DEF appendBatch
  <2> QED BY <2>6, <2>7, <2>8, <2>9, <2>10 DEF TypeOK
<1>7. ASSUME NEW w \in Writers, NEW t \in Topics, flush(w, t)
      PROVE  G
  <2> DEFINE b == builder[w][t]
             tail == IF b.rows # <<>> THEN <<seal(b)>> ELSE <<>>
  <2>1. b \in Builder /\ builder \in [Writers -> [Topics -> Builder]]
    BY DEF TypeOK
  <2>2. seal(b) \in Chunk
    BY <2>1, BuilderOps, TimeAssumption DEF Time
  <2>3. tail \in Seq(Chunk) /\ Len(tail) \in Nat /\ pending[w][t] \in Seq(Chunk)
    BY <2>2 DEF TypeOK
  <2>4. /\ flushed' = [flushed EXCEPT ![w][t] = pending[w][t] \o tail]
        /\ pending' = [pending EXCEPT ![w][t] = <<>>]
        /\ builder' = [builder EXCEPT ![w][t] = IF b.rows # <<>> THEN NewBuilder ELSE b]
        /\ nextChunk' = nextChunk + Len(tail)
    BY <1>7 DEF flush
  <2>5. UNCHANGED <<topics, sealed, rest, queue, plan, accepted, rejected, evicted>>
    BY <1>7 DEF flush, loopVars
  <2>6. pending[w][t] \o tail \in Seq(Chunk) /\ <<>> \in Seq(Chunk)
    BY <2>3
  <2>7. nextChunk' \in Nat \ {0}
    BY <2>3, <2>4 DEF TypeOK
  <2> HIDE DEF tail
  <2>8. /\ flushed' \in [Writers -> [Topics -> Seq(Chunk)]]
        /\ pending' \in [Writers -> [Topics -> Seq(Chunk)]]
    BY <2>4, <2>6, Update2, SMTT(20) DEF TypeOK
  <2>9. (IF b.rows # <<>> THEN NewBuilder ELSE b) \in Builder
    BY <2>1, NewBuilderType
  <2>10. /\ builder' \in [Writers -> [Topics -> Builder]]
         /\ \A x \in Writers, y \in Topics : builder'[x][y] =
              IF x = w /\ y = t THEN (IF b.rows # <<>> THEN NewBuilder ELSE b) ELSE builder[x][y]
    BY <2>1, <2>4, <2>9, Update2, SMTT(20)
  <2>11. BuilderRoom'
    BY <2>10, ChunkAssumption DEF BuilderRoom, NewBuilder
  <2> QED BY <2>5, <2>7, <2>8, <2>10, <2>11 DEF TypeOK
<1>8. ASSUME NEW w \in Writers, flushAll(w)
      PROVE  G
  <2> DEFINE open == {t \in Topics : builder[w][t].rows # <<>>}
             put(order, t) == pending[w][t] \o
                       (IF t \in open
                        THEN <<[seal(builder[w][t]) EXCEPT !.id = nextChunk + order[t]]>>
                        ELSE <<>>)
             bs == [t \in Topics |-> IF t \in open THEN NewBuilder ELSE builder[w][t]]
  <2>0. builder \in [Writers -> [Topics -> Builder]]
    BY DEF TypeOK
  <2>1. PICK order \in [open -> 0 .. Cardinality(open) - 1] :
          flushed' = [flushed EXCEPT ![w] = [t \in Topics |-> put(order, t)]]
    BY <1>8 DEF flushAll
  <2>2. Cardinality(open) \in Nat
    <3>1. open \in SUBSET Topics
      OBVIOUS
    <3> HIDE DEF open
    <3> QED BY <3>1, FS_Subset, FS_CardinalityType, FiniteAssumption
  <2>3. /\ pending' = [pending EXCEPT ![w] = Empty]
        /\ builder' = [builder EXCEPT ![w] = bs]
        /\ nextChunk' = nextChunk + Cardinality(open)
        /\ UNCHANGED <<topics, sealed, rest, queue, plan, accepted, rejected, evicted>>
    BY <1>8 DEF flushAll, loopVars
  <2>4. ASSUME NEW t \in Topics
        PROVE  put(order, t) \in Seq(Chunk)
    <3>1. pending[w][t] \in Seq(Chunk)
      BY DEF TypeOK
    <3>2. CASE t \in open
      <4>0. builder[w][t] \in Builder /\ MinTime \in Time
        BY <2>0, TimeAssumption DEF Time
      <4>1. seal(builder[w][t]) \in Chunk
        BY <4>0, BuilderOps
      <4>2. order[t] \in Int /\ order[t] >= 0
        BY <2>2, <3>2
      <4>3. nextChunk + order[t] \in Nat
        BY <4>2 DEF TypeOK
      <4> HIDE DEF open
      <4>4. [seal(builder[w][t]) EXCEPT !.id = nextChunk + order[t]] \in Chunk
        BY <4>1, <4>3 DEF Chunk
      <4> QED BY <3>1, <3>2, <4>4
    <3>3. CASE t \notin open
      BY <3>1, <3>3
    <3> QED BY <3>2, <3>3
  <2>5. \A t \in Topics : bs[t] \in Builder /\ Len(bs[t].rows) < MaxChunkRows
    BY <2>0, NewBuilderType, ChunkAssumption DEF BuilderRoom, NewBuilder
  <2>6. bs \in [Topics -> Builder] /\ Empty \in [Topics -> Seq(Chunk)]
    BY <2>5 DEF Empty
  <2>7. nextChunk' \in Nat \ {0}
    BY <2>2, <2>3 DEF TypeOK
  <2>8. [t \in Topics |-> put(order, t)] \in [Topics -> Seq(Chunk)]
    BY <2>4
  <2> HIDE DEF put, bs, open
  <2>9. /\ flushed' \in [Writers -> [Topics -> Seq(Chunk)]]
        /\ pending' \in [Writers -> [Topics -> Seq(Chunk)]]
    BY <2>1, <2>3, <2>6, <2>8, Update1 DEF TypeOK
  <2>10. /\ builder' \in [Writers -> [Topics -> Builder]]
         /\ \A x \in Writers, y \in Topics : builder'[x][y] = IF x = w THEN bs[y] ELSE builder[x][y]
    BY <2>0, <2>3, <2>6, Update1
  <2>11. BuilderRoom'
    BY <2>5, <2>10 DEF BuilderRoom
  <2> QED BY <2>3, <2>7, <2>9, <2>10, <2>11 DEF TypeOK
<1>9. ASSUME NEW w \in Writers, commitChunks(w)
      PROVE  G
  <2>1. flushed[w] \in [Topics -> Seq(Chunk)] /\ Empty \in [Topics -> Seq(Chunk)]
    BY DEF TypeOK, Empty
  <2>2. /\ queue' = [queue EXCEPT ![w] = flushed[w]]
        /\ flushed' = [flushed EXCEPT ![w] = Empty]
        /\ UNCHANGED <<topics, builder, pending, sealed, rest, plan, nextChunk, accepted, rejected, evicted>>
    BY <1>9 DEF commitChunks
  <2>3. /\ queue' \in [Writers -> [Topics -> Seq(Chunk)]]
        /\ flushed' \in [Writers -> [Topics -> Seq(Chunk)]]
    BY <2>1, <2>2, Update1 DEF TypeOK
  <2> QED BY <2>2, <2>3 DEF TypeOK, BuilderRoom
<1>10. ASSUME NEW w \in Writers, NEW t \in Topics, appendSealedChunk(w, t)
       PROVE  G
  <2> DEFINE e == EngineOf[w]
             c == queue[w][t][1]
  <2>1. /\ e \in Engines /\ c \in Chunk /\ queue[w][t] \in Seq(Chunk)
        /\ Tail(queue[w][t]) \in Seq(Chunk)
    <3>1. e \in Engines
      BY BindAssumption
    <3>2. queue[w][t] \in Seq(Chunk) /\ queue[w][t] # <<>>
      BY <1>10 DEF TypeOK, appendSealedChunk
    <3>3. \A s \in Seq(Chunk) : s # <<>> => s[1] \in Chunk /\ Tail(s) \in Seq(Chunk)
      OBVIOUS
    <3> QED BY <3>1, <3>2, <3>3
  <2>2. /\ queue' = [queue EXCEPT ![w][t] = Tail(queue[w][t])]
        /\ UNCHANGED <<topics, builder, pending, flushed, rest, plan, nextChunk, accepted, evicted>>
        /\ \/ sealed' = [sealed EXCEPT ![e][t] = Append(sealed[e][t], c)] /\ rejected' = rejected
           \/ sealed' = sealed /\ rejected' = rejected \cup RowIds(<<c>>)
    BY <1>10 DEF appendSealedChunk
  <2> HIDE DEF c, e
  <2>3. queue' \in [Writers -> [Topics -> Seq(Chunk)]]
    BY <2>1, <2>2, Update2, SMTT(20) DEF TypeOK
  <2>4. Append(sealed[e][t], c) \in Seq(Chunk)
    BY <2>1 DEF TypeOK
  <2>5. [sealed EXCEPT ![e][t] = Append(sealed[e][t], c)] \in [Engines -> [Topics -> Seq(Chunk)]]
    BY <2>1, <2>4, Update2, SMTT(20) DEF TypeOK
  <2>6. RowIds(<<c>>) \subseteq Nat
    <3>1. <<c>> \in Seq(Chunk)
      BY <2>1
    <3> QED BY <3>1, RowIdsType
  <2> QED BY <2>2, <2>3, <2>5, <2>6 DEF TypeOK, BuilderRoom
<1>11. ASSUME NEW e \in Engines, NEW window \in Windows, enforceRetention(e, window)
       PROVE  G
  <2> DEFINE kept(t) == IF sealed[e][t] = <<>> THEN <<>>
                        ELSE evictBefore(sealed[e][t], time_max(sealed[e][t]) - window)
             out(t) == SubSeq(sealed[e][t], 1, Len(sealed[e][t]) - Len(kept(t)))
  <2>1. /\ sealed' = [sealed EXCEPT ![e] = [t \in Topics |-> kept(t)]]
        /\ evicted' = evicted \cup UNION {RowIds(out(t)) : t \in Topics}
        /\ UNCHANGED <<topics, builder, pending, flushed, rest, queue, plan, nextChunk, accepted, rejected>>
    BY <1>11 DEF enforceRetention, loopVars
  <2>2. ASSUME NEW t \in Topics
        PROVE  kept(t) \in Seq(Chunk) /\ out(t) \in Seq(Chunk)
    <3>1. sealed[e][t] \in Seq(Chunk)
      BY DEF TypeOK
    <3>2. CASE sealed[e][t] = <<>>
      BY <3>1, <3>2
    <3>3. CASE sealed[e][t] # <<>>
      <4>1. time_max(sealed[e][t]) - window \in Int
        <5>1. back(sealed[e][t]) \in Chunk
          BY <3>1, <3>3 DEF back
        <5> QED BY <5>1, TimeAssumption, WindowAssumption DEF time_max, Chunk, Time
      <4>2. /\ evictBefore(sealed[e][t], time_max(sealed[e][t]) - window) \in Seq(Chunk)
            /\ Len(evictBefore(sealed[e][t], time_max(sealed[e][t]) - window)) \in 0 .. Len(sealed[e][t])
        BY <3>1, <4>1, EvictType
      <4> QED BY <3>1, <3>3, <4>2
    <3> QED BY <3>2, <3>3
  <2>3. [t \in Topics |-> kept(t)] \in [Topics -> Seq(Chunk)]
    BY <2>2
  <2>4. UNION {RowIds(out(t)) : t \in Topics} \subseteq Nat
    BY <2>2, RowIdsType
  <2> HIDE DEF kept, out
  <2>5. sealed' \in [Engines -> [Topics -> Seq(Chunk)]]
    BY <2>1, <2>3, Update1 DEF TypeOK
  <2> QED BY <2>1, <2>4, <2>5 DEF TypeOK, BuilderRoom
<1>12. ASSUME NEW e \in Engines, NEW f \in Engines, flushTo(e, f)
       PROVE  G
  <2>1. plan' \subseteq Step
    BY <1>12 DEF flushTo, Step
  <2> QED BY <1>12, <2>1 DEF TypeOK, BuilderRoom, flushTo
<1>13. ASSUME NEW s \in plan, moveChunks(s)
       PROVE  G
  <2>1. s.from \in Engines /\ s.to \in Engines /\ s.src \in Topics /\ s.dst \in Topics
    BY DEF TypeOK, Step
  <2>2. \A e \in Engines, t \in Topics : sealed[e][t] \in Seq(Chunk)
    BY DEF TypeOK
  <2>3. sealed[s.from][s.src] \in Seq(Chunk)
    BY <2>1, <2>2
  <2>4. \A e \in Engines, t \in Topics :
           sealed[e][t] \o sealed[s.from][s.src] \in Seq(Chunk) /\ <<>> \in Seq(Chunk)
    BY <2>2, <2>3
  <2>5. sealed' \in [Engines -> [Topics -> Seq(Chunk)]]
    BY <1>13, <2>2, <2>4 DEF moveChunks
  <2> QED BY <1>13, <2>5 DEF TypeOK, BuilderRoom, moveChunks
<1>14. CASE UNCHANGED vars
  BY <1>14 DEF TypeOK, BuilderRoom, vars
<1> QED
  BY <1>1, <1>2, <1>3, <1>4, <1>5, <1>6, <1>7, <1>8, <1>9, <1>10, <1>11, <1>12, <1>13, <1>14
     DEF Next

(* Every reachable state is well typed and no builder is ever left full.   *)
THEOREM TypeCorrect == Spec => []TypeOK
<1>1. Spec => [](TypeOK /\ BuilderRoom)
  BY TypeInit, TypeStep, PTL DEF Spec
<1> QED BY <1>1, PTL

-----------------------------------------------------------------------------
(* Builders keep their rows in time order. *)

(* The bounds of a builder are the timestamps of its first and last row.   *)
LEMMA BuilderBound ==
    ASSUME NEW b \in Builder, BuilderOK(b), NEW i \in 1 .. Len(b.rows)
    PROVE  b.rows # <<>> /\ b.rows[i] \in Row /\ b.rows[i].ts \in Int /\ b.last \in Int
           /\ b.rows[i].ts <= b.last /\ b.tmin <= b.rows[i].ts
<1>0. b.rows \in Seq(Row) /\ b.last \in Int
  BY DEF Builder, Time
<1>1. b.rows # <<>> /\ Len(b.rows) \in Nat \ {0}
  BY <1>0
<1>2. \A j \in 1 .. Len(b.rows) : b.rows[j] \in Row /\ b.rows[j].ts \in Int
  <2>1. \A r \in Row : r.ts \in Int
    BY DEF Row, Time
  <2> QED BY <1>0, <2>1
<1>3. b.rows[i].ts <= b.rows[Len(b.rows)].ts /\ b.rows[1].ts <= b.rows[i].ts
  BY <1>1 DEF BuilderOK, RowsSorted
<1> QED BY <1>0, <1>1, <1>2, <1>3 DEF BuilderOK

(* beginRow keeps the rows of a builder as they are.                       *)
LEMMA BeginOK ==
    ASSUME NEW b \in Builder, BuilderOK(b), NEW ts \in Time, b.rows # <<>> => ts >= b.last
    PROVE  BuilderOK(beginRowIn(b, ts))
<1>1. /\ beginRowIn(b, ts).rows = b.rows /\ beginRowIn(b, ts).tmin = b.tmin
      /\ beginRowIn(b, ts).tmax = b.tmax /\ beginRowIn(b, ts).last = ts
  BY DEF beginRowIn, Builder
<1>2. b.rows # <<>> => b.tmax <= ts
  BY DEF BuilderOK, Builder, Time
<1> QED BY <1>1, <1>2 DEF BuilderOK

(* finishRow puts a row behind that is not before the last one: beginRow   *)
(* refused any other timestamp.                                            *)
LEMMA FinishOK ==
    ASSUME TypeOK, NEW b \in Builder, BuilderOK(b)
    PROVE  /\ BuilderOK(finishRowIn(b))
           /\ Len(finishRowIn(b).rows) = Len(b.rows) + 1
<1> DEFINE n == Len(b.rows)
           r == [ts |-> b.last, id |-> accepted + 1]
           f == finishRowIn(b)
<1>1. /\ b.rows \in Seq(Row) /\ n \in Nat /\ r \in Row /\ b.last \in Int /\ b.last \in Time
      /\ r.ts = b.last
  BY DEF TypeOK, Builder, Row, Time
<1>2. /\ f.rows = Append(b.rows, r) /\ f.last = b.last
      /\ f.tmin = Lower(b.tmin, b.last) /\ f.tmax = Upper(b.tmax, b.last)
  BY DEF finishRowIn
<1> HIDE DEF r, f
<1>3. /\ Len(f.rows) = n + 1 /\ f.rows # <<>> /\ f.rows[n + 1] = r
      /\ \A i \in 1 .. n : f.rows[i] = b.rows[i]
  BY <1>1, <1>2
<1>4. \A i \in 1 .. n : b.rows[i].ts \in Int /\ b.rows[i].ts <= b.last
  BY BuilderBound
<1>5. \A i \in 1 .. n + 1 : f.rows[i].ts \in Int /\ f.rows[i].ts <= b.last
  BY <1>1, <1>3, <1>4, TimeAssumption, SMTT(30)
<1>6. RowsSorted(f.rows)
  <2> SUFFICES ASSUME NEW i \in 1 .. n + 1, NEW j \in 1 .. n + 1, i <= j
               PROVE  f.rows[i].ts <= f.rows[j].ts
    BY <1>3 DEF RowsSorted
  <2>1. CASE j = n + 1
    BY <1>1, <1>3, <1>5, <2>1
  <2>2. CASE j # n + 1
    <3>1. i \in 1 .. n /\ j \in 1 .. n
      BY <1>1, <2>2
    <3> QED BY <1>3, <3>1 DEF BuilderOK, RowsSorted
  <2> QED BY <2>1, <2>2
<1>7. f.tmin = f.rows[1].ts /\ f.tmax = f.rows[n + 1].ts
  <2>1. CASE n = 0
    <3>1. b.rows = <<>>
      BY <1>1, <2>1
    <3>2. b.tmin = MaxTime /\ b.tmax = MinTime
      BY <3>1 DEF BuilderOK
    <3> QED BY <1>1, <1>2, <1>3, <2>1, <3>2, TimeAssumption DEF Lower, Upper, Time
  <2>2. CASE n # 0
    <3>1. b.tmin = b.rows[1].ts /\ b.tmax = b.rows[n].ts /\ b.tmax <= b.last
      BY <1>1, <2>2 DEF BuilderOK
    <3>2. b.tmin \in Int /\ b.tmax \in Int /\ b.tmin <= b.last
      BY <1>1, <1>4, <2>2, <3>1
    <3> QED BY <1>1, <1>2, <1>3, <2>2, <3>1, <3>2 DEF Lower, Upper
  <2> QED BY <2>1, <2>2
<1>8. f.tmax <= f.last
  BY <1>1, <1>2, <1>3, <1>7
<1> QED BY <1>3, <1>6, <1>7, <1>8 DEF BuilderOK, f

(* appendTimestamps puts a sorted run behind that does not start before the*)
(* last row.                                                               *)
LEMMA AppendOK ==
    ASSUME TypeOK, NEW b \in Builder, BuilderOK(b), NEW ts \in Seq(Time), ts # <<>>,
           RestOK(ts, b)
    PROVE  /\ BuilderOK(appendTimestamps(b, ts))
           /\ Len(appendTimestamps(b, ts).rows) = Len(b.rows) + Len(ts)
           /\ appendTimestamps(b, ts).last = ts[Len(ts)]
<1> DEFINE n == Len(b.rows)
           m == Len(ts)
           new == [i \in 1 .. Len(ts) |-> [ts |-> ts[i], id |-> accepted + i]]
           f == appendTimestamps(b, ts)
<1>1. /\ b.rows \in Seq(Row) /\ n \in Nat /\ m \in Nat \ {0} /\ b.last \in Int
      /\ \A i \in 1 .. m : ts[i] \in Int /\ ts[i] \in Time
  <2>1. b.rows \in Seq(Row) /\ b.last \in Int
    BY DEF Builder, Time
  <2>2. m \in Nat \ {0}
    OBVIOUS
  <2>3. \A i \in 1 .. m : ts[i] \in Time
    OBVIOUS
  <2>4. \A x \in Time : x \in Int
    BY DEF Time
  <2> QED BY <2>1, <2>2, <2>3, <2>4
<1>2. \A i \in 1 .. m : new[i] \in Row /\ new[i].ts = ts[i]
  BY <1>1 DEF TypeOK, Row
<1>3. new \in Seq(Row) /\ Len(new) = m
  BY <1>1, <1>2
<1>4. /\ f.rows = b.rows \o new /\ f.last = ts[m]
      /\ f.tmin = Lower(b.tmin, ts[1]) /\ f.tmax = Upper(b.tmax, ts[m])
  BY DEF appendTimestamps
<1> HIDE DEF new, f
<1>5. /\ Len(f.rows) = n + m /\ f.rows # <<>>
      /\ \A i \in 1 .. n : f.rows[i] = b.rows[i]
      /\ \A i \in n + 1 .. n + m : f.rows[i] = new[i - n]
  <2>1. /\ Len(b.rows \o new) = n + m
        /\ \A i \in 1 .. n + m : (b.rows \o new)[i] = IF i <= n THEN b.rows[i] ELSE new[i - n]
    <3>1. b.rows \in Seq(Row) /\ new \in Seq(Row)
      BY <1>1, <1>3
    <3>2. /\ Len(b.rows \o new) = Len(b.rows) + Len(new)
          /\ \A i \in 1 .. Len(b.rows) + Len(new) :
                (b.rows \o new)[i] = IF i <= Len(b.rows) THEN b.rows[i] ELSE new[i - Len(b.rows)]
      BY ONLY <3>1, ConcatProperties
    <3> QED BY <1>3, <3>2
  <2>2. b.rows \o new # <<>>
    BY <1>1, <2>1
  <2>3. \A i \in 1 .. n : i \in 1 .. n + m /\ i <= n
    BY <1>1
  <2>4. \A i \in n + 1 .. n + m : i \in 1 .. n + m /\ ~(i <= n)
    BY <1>1
  <2> HIDE DEF n, m
  <2> QED BY <1>4, <2>1, <2>2, <2>3, <2>4
<1>6. \A i \in 1 .. n : b.rows[i].ts \in Int /\ b.rows[i].ts <= ts[1]
  <2> SUFFICES ASSUME NEW i \in 1 .. n
               PROVE  b.rows[i].ts \in Int /\ b.rows[i].ts <= ts[1]
    OBVIOUS
  <2>1. b.rows # <<>> /\ b.rows[i].ts \in Int /\ b.rows[i].ts <= b.last
    BY BuilderBound
  <2>2. ts[1] >= b.last
    BY <2>1 DEF RestOK
  <2> QED BY <1>1, <2>1, <2>2
<1>7. \A i \in n + 1 .. n + m : f.rows[i].ts = ts[i - n] /\ ts[1] <= ts[i - n]
  <2> SUFFICES ASSUME NEW i \in n + 1 .. n + m
               PROVE  f.rows[i].ts = ts[i - n] /\ ts[1] <= ts[i - n]
    OBVIOUS
  <2>1. i - n \in 1 .. m /\ 1 \in 1 .. m /\ 1 <= i - n
    BY <1>1
  <2>2. f.rows[i].ts = ts[i - n]
    BY <1>2, <1>5, <2>1
  <2> QED BY <2>1, <2>2 DEF RestOK, SortedTimes
<1>8. RowsSorted(f.rows)
  <2> SUFFICES ASSUME NEW i \in 1 .. n + m, NEW j \in 1 .. n + m, i <= j
               PROVE  f.rows[i].ts <= f.rows[j].ts
    BY <1>5 DEF RowsSorted
  <2>1. CASE j <= n
    <3>1. i \in 1 .. n /\ j \in 1 .. n
      BY <1>1, <2>1
    <3> QED BY <1>5, <3>1 DEF BuilderOK, RowsSorted
  <2>2. CASE i <= n /\ j > n
    <3>1. i \in 1 .. n /\ j \in n + 1 .. n + m /\ j - n \in 1 .. m
      BY <1>1, <2>2
    <3>2. f.rows[i].ts \in Int /\ f.rows[i].ts <= ts[1] /\ f.rows[j].ts = ts[j - n] /\ ts[1] <= ts[j - n]
      BY <1>5, <1>6, <1>7, <3>1
    <3>3. 1 \in 1 .. m /\ j - n \in 1 .. m /\ m = Len(ts)
      BY <1>1, <3>1
    <3>4. ts[1] \in Int /\ ts[j - n] \in Int
      <4> HIDE DEF n, m
      <4>1. ts[1] \in Time /\ ts[j - n] \in Time
        BY <3>3
      <4> QED BY <4>1 DEF Time
    <3> QED BY ONLY <3>2, <3>4
  <2>3. CASE i > n
    <3>1. /\ i \in n + 1 .. n + m /\ j \in n + 1 .. n + m
          /\ i - n \in 1 .. m /\ j - n \in 1 .. m /\ i - n <= j - n
      BY <1>1, <2>3
    <3>2. ts[i - n] <= ts[j - n]
      BY <3>1 DEF RestOK, SortedTimes
    <3> QED BY <1>7, <3>1, <3>2
  <2> QED BY <1>1, <2>1, <2>2, <2>3
<1>9. f.rows[n + m].ts = ts[m]
  <2>1. n + m \in n + 1 .. n + m /\ (n + m) - n = m
    BY <1>1
  <2> QED BY <1>7, <2>1
<1>10. f.tmin = f.rows[1].ts /\ f.tmax = f.rows[n + m].ts
  <2>0. ts[1] \in Time /\ ts[m] \in Time /\ ts[1] \in Int /\ ts[m] \in Int /\ ts[1] <= ts[m]
    BY <1>1 DEF RestOK, SortedTimes
  <2>1. CASE n = 0
    <3>1. b.rows = <<>>
      BY <1>1, <2>1
    <3>2. b.tmin = MaxTime /\ b.tmax = MinTime
      BY <3>1 DEF BuilderOK
    <3>3. f.rows[1].ts = ts[1]
      BY <1>1, <1>7, <2>1
    <3> QED BY <1>4, <1>9, <2>0, <3>2, <3>3, TimeAssumption DEF Lower, Upper, Time
  <2>2. CASE n # 0
    <3>1. b.tmin = b.rows[1].ts /\ b.tmax = b.rows[n].ts
      BY <1>1, <2>2 DEF BuilderOK
    <3>2. 1 \in 1 .. n /\ n \in 1 .. n
      BY <1>1, <2>2
    <3>3. b.tmin \in Int /\ b.tmax \in Int /\ b.tmin <= ts[1] /\ b.tmax <= ts[1] /\ f.rows[1].ts = b.tmin
      BY <1>5, <1>6, <3>1, <3>2
    <3> QED BY <1>4, <1>9, <2>0, <3>3 DEF Lower, Upper
  <2> QED BY <2>1, <2>2
<1>11. f.tmax <= f.last
  BY <1>1, <1>4, <1>9, <1>10
<1> QED BY <1>4, <1>5, <1>8, <1>10, <1>11 DEF BuilderOK, f

(* A sealed chunk takes its bounds from a builder in order.                *)
LEMMA SealOK ==
    ASSUME NEW b \in Builder, BuilderOK(b), Len(b.rows) \in 1 .. MaxChunkRows
    PROVE  ChunkOK(seal(b))
<1>1. b.rows # <<>>
  BY DEF Builder
<1> QED BY <1>1 DEF BuilderOK, seal, ChunkOK

(* A new builder is in order and empty.                                    *)
LEMMA NewBuilderOK == BuilderOK(NewBuilder) /\ NewBuilder.rows = <<>>
BY DEF BuilderOK, NewBuilder, RowsSorted

-----------------------------------------------------------------------------
(* Sequences of chunks in time order. *)

(* The bounds of a chunk in order are in order.                            *)
LEMMA ChunkTimes ==
    ASSUME NEW c \in Chunk, ChunkOK(c)
    PROVE  c.tmin \in Int /\ c.tmax \in Int /\ c.tmin <= c.tmax
<1>1. c.tmin \in Int /\ c.tmax \in Int
  BY DEF Chunk, Time
<1>2. 1 \in 1 .. Len(c.rows) /\ Len(c.rows) \in 1 .. Len(c.rows) /\ 1 <= Len(c.rows)
  BY DEF ChunkOK
<1>3. c.rows[1].ts <= c.rows[Len(c.rows)].ts
  BY <1>2 DEF ChunkOK, RowsSorted
<1> QED BY <1>1, <1>3 DEF ChunkOK

(* Adding a chunk that is in order.                                        *)
LEMMA AppendChunk ==
    ASSUME NEW p \in Seq(Chunk), ChunksOK(p), NEW c \in Chunk, ChunkOK(c)
    PROVE  ChunksOK(Append(p, c))
BY DEF ChunksOK

(* Two runs of chunks in order, the second starting where the first ends   *)
(* or later, are one run in order.                                         *)
LEMMA ConcatInOrder ==
    ASSUME NEW p \in Seq(Chunk), NEW q \in Seq(Chunk),
           ChunksOK(p), ChunksOK(q), InOrder(p), InOrder(q),
           p # <<>> /\ q # <<>> => time_min(q) >= time_max(p)
    PROVE  ChunksOK(p \o q) /\ InOrder(p \o q) /\ p \o q \in Seq(Chunk)
<1> DEFINE n == Len(p)
           m == Len(q)
           s == p \o q
<1>1. /\ s \in Seq(Chunk) /\ Len(s) = n + m /\ n \in Nat /\ m \in Nat
      /\ \A i \in 1 .. n + m : s[i] = IF i <= n THEN p[i] ELSE q[i - n]
  BY ConcatProperties
<1>2. \A i \in 1 .. n : s[i] = p[i] /\ p[i] \in Chunk
  BY <1>1
<1>3. \A i \in n + 1 .. n + m : i - n \in 1 .. m /\ s[i] = q[i - n] /\ q[i - n] \in Chunk
  BY <1>1
<1>4. ChunksOK(s)
  <2> SUFFICES ASSUME NEW i \in 1 .. n + m PROVE ChunkOK(s[i])
    BY <1>1 DEF ChunksOK
  <2>1. CASE i <= n
    <3>1. i \in 1 .. n
      BY <1>1, <2>1
    <3> QED BY <1>2, <3>1 DEF ChunksOK
  <2>2. CASE i > n
    <3>1. i \in n + 1 .. n + m
      BY <1>1, <2>2
    <3> QED BY <1>3, <3>1 DEF ChunksOK
  <2> QED BY <1>1, <2>1, <2>2
<1>5. \A i \in 1 .. n : p[i].tmax \in Int /\ p[n].tmax \in Int /\ p[i].tmax <= p[n].tmax
  <2> SUFFICES ASSUME NEW i \in 1 .. n
               PROVE  p[i].tmax \in Int /\ p[n].tmax \in Int /\ p[i].tmax <= p[n].tmax
    OBVIOUS
  <2>1. n \in 1 .. n /\ p[i] \in Chunk /\ p[n] \in Chunk /\ ChunkOK(p[i]) /\ ChunkOK(p[n])
    BY DEF ChunksOK
  <2>2. p[i].tmax \in Int /\ p[n].tmax \in Int /\ p[n].tmin \in Int /\ p[n].tmin <= p[n].tmax
    BY <2>1, ChunkTimes
  <2>3. i = n \/ p[i].tmax <= p[n].tmin
    BY <2>1 DEF InOrder
  <2> QED BY <2>2, <2>3
<1>6. \A j \in 1 .. m : q[1].tmin \in Int /\ q[j].tmin \in Int /\ q[1].tmin <= q[j].tmin
  <2> SUFFICES ASSUME NEW j \in 1 .. m
               PROVE  q[1].tmin \in Int /\ q[j].tmin \in Int /\ q[1].tmin <= q[j].tmin
    OBVIOUS
  <2>1. 1 \in 1 .. m /\ q[1] \in Chunk /\ q[j] \in Chunk /\ ChunkOK(q[1]) /\ ChunkOK(q[j])
    BY DEF ChunksOK
  <2>2. q[1].tmax \in Int /\ q[1].tmin \in Int /\ q[j].tmin \in Int /\ q[1].tmin <= q[1].tmax
    BY <2>1, ChunkTimes
  <2>3. j = 1 \/ q[1].tmax <= q[j].tmin
    BY <2>1 DEF InOrder
  <2> QED BY <2>2, <2>3
<1>7. ASSUME NEW i \in 1 .. n + m, NEW j \in 1 .. n + m, i < j
      PROVE  s[i].tmax <= s[j].tmin
  <2>1. CASE j <= n
    <3>1. i \in 1 .. n /\ j \in 1 .. n
      BY <1>1, <1>7, <2>1
    <3> QED BY <1>2, <1>7, <3>1 DEF InOrder
  <2>2. CASE i <= n /\ j > n
    <3>1. i \in 1 .. n /\ j \in n + 1 .. n + m /\ j - n \in 1 .. m /\ p # <<>> /\ q # <<>>
      BY <1>1, <2>2
    <3>2. p[n].tmax <= q[1].tmin
      BY <3>1, <1>5, <1>6 DEF time_min, time_max, back
    <3>3. s[i] = p[i] /\ s[j] = q[j - n]
      BY <1>2, <1>3, <3>1
    <3> HIDE DEF n, m, s
    <3>4. p[i].tmax <= p[n].tmax /\ q[1].tmin <= q[j - n].tmin
      BY <1>5, <1>6, <3>1
    <3>5. /\ p[i].tmax \in Int /\ p[n].tmax \in Int
          /\ q[1].tmin \in Int /\ q[j - n].tmin \in Int
      BY <1>5, <1>6, <3>1
    <3> QED BY ONLY <3>2, <3>3, <3>4, <3>5
  <2>3. CASE i > n
    <3>1. /\ i \in n + 1 .. n + m /\ j \in n + 1 .. n + m
          /\ i - n \in 1 .. m /\ j - n \in 1 .. m /\ i - n < j - n
      BY <1>1, <1>7, <2>3
    <3>2. q[i - n].tmax <= q[j - n].tmin
      BY <3>1 DEF InOrder
    <3> QED BY <1>3, <3>1, <3>2
  <2> QED BY <1>1, <2>1, <2>2, <2>3
<1>8. InOrder(s)
  BY <1>1, <1>7 DEF InOrder
<1> QED BY <1>1, <1>4, <1>8

(* A chunk that Appendable accepts goes to the end in order.               *)
LEMMA AppendInOrder ==
    ASSUME NEW p \in Seq(Chunk), ChunksOK(p), InOrder(p),
           NEW c \in Chunk, ChunkOK(c), Appendable(p, c)
    PROVE  ChunksOK(Append(p, c)) /\ InOrder(Append(p, c))
<1>1. <<c>> \in Seq(Chunk) /\ ChunksOK(<<c>>) /\ InOrder(<<c>>) /\ time_min(<<c>>) = c.tmin
  BY DEF ChunksOK, InOrder, time_min
<1>2. p # <<>> => time_min(<<c>>) >= time_max(p)
  BY <1>1 DEF Appendable
<1>3. Append(p, c) = p \o <<c>>
  OBVIOUS
<1>4. ChunksOK(p \o <<c>>) /\ InOrder(p \o <<c>>)
  BY <1>1, <1>2, ConcatInOrder
<1> QED BY <1>3, <1>4

(* evictBefore leaves a run of chunks in order.                            *)
LEMMA EvictInOrder ==
    ASSUME NEW p \in Seq(Chunk), ChunksOK(p), InOrder(p), NEW keep \in Int
    PROVE  ChunksOK(evictBefore(p, keep)) /\ InOrder(evictBefore(p, keep))
<1> DEFINE n == EvictCount(p, keep)
           q == evictBefore(p, keep)
<1>1. /\ n \in 0 .. Len(p) /\ q \in Seq(Chunk) /\ Len(q) = Len(p) - n
      /\ \A i \in 1 .. Len(q) : q[i] = p[n + i]
  BY EvictType
<1> HIDE DEF n, q
<1>2. \A i \in 1 .. Len(q) : n + i \in 1 .. Len(p)
  BY <1>1
<1>3. ChunksOK(q)
  BY <1>1, <1>2 DEF ChunksOK
<1>4. InOrder(q)
  <2> SUFFICES ASSUME NEW i \in 1 .. Len(q), NEW j \in 1 .. Len(q), i < j
               PROVE  q[i].tmax <= q[j].tmin
    BY DEF InOrder
  <2>1. n + i < n + j
    BY <1>1
  <2>2. p[n + i].tmax <= p[n + j].tmin
    BY <1>2, <2>1 DEF InOrder
  <2> QED BY <1>1, <2>2
<1> QED BY <1>3, <1>4 DEF q

(* What a commit leaves of its queue is in order.                          *)
LEMMA TailOK ==
    ASSUME NEW p \in Seq(Chunk), p # <<>>, ChunksOK(p)
    PROVE  p[1] \in Chunk /\ ChunkOK(p[1]) /\ Tail(p) \in Seq(Chunk) /\ ChunksOK(Tail(p))
BY DEF ChunksOK

-----------------------------------------------------------------------------
(* Committed topics are in time order. *)

(* Lower gives one of its arguments.                                       *)
LEMMA LowerRange ==
    ASSUME NEW x \in Nat \ {0}, NEW y \in Nat \ {0}
    PROVE  Lower(x, y) \in 1 .. x /\ Lower(x, y) <= y
BY DEF Lower

(* An appended row or run of rows leaves the builder sealed or with room,  *)
(* in both cases in order.                                                 *)
LEMMA AutoSealOK ==
    ASSUME TypeOK, WritersOK, NEW w \in Writers, NEW t \in Topics, NEW b \in Builder,
           BuilderOK(b), Len(b.rows) \in 1 .. MaxChunkRows, autoSeal(w, t, b)
    PROVE  \A x \in Writers, y \in Topics :
              BuilderOK(builder'[x][y]) /\ ChunksOK(pending'[x][y])
<1> SUFFICES ASSUME NEW x \in Writers, NEW y \in Topics
             PROVE  BuilderOK(builder'[x][y]) /\ ChunksOK(pending'[x][y])
  OBVIOUS
<1>1. /\ builder'[x][y] = IF x = w /\ y = t
                          THEN IF isFull(b) THEN NewBuilder ELSE b
                          ELSE builder[x][y]
      /\ pending'[x][y] = IF x = w /\ y = t /\ isFull(b)
                          THEN Append(pending[w][t], seal(b))
                          ELSE pending[x][y]
      /\ seal(b) \in Chunk
  BY AutoSealEffect
<1>2. BuilderOK(builder[x][y]) /\ ChunksOK(pending[x][y]) /\ ChunksOK(pending[w][t])
  BY DEF WritersOK
<1>3. ChunkOK(seal(b))
  BY SealOK
<1>4. pending[w][t] \in Seq(Chunk)
  BY DEF TypeOK
<1>5. ChunksOK(Append(pending[w][t], seal(b)))
  BY <1>1, <1>2, <1>3, <1>4, AppendChunk
<1> QED BY <1>1, <1>2, <1>5, NewBuilderOK

(* Empty topics are in order.                                              *)
LEMMA InitOrder == Init => OrderInv
<1> SUFFICES ASSUME Init PROVE OrderInv
  OBVIOUS
<1>1. TypeOK /\ BuilderRoom
  BY TypeInit
<1>2. WritersOK
  BY NewBuilderOK DEF Init, WritersOK, Empty, RestOK, SortedTimes, ChunksOK
<1>3. TopicsInOrder /\ PlanOK
  BY DEF Init, TopicsInOrder, PlanOK, Empty, ChunksOK, InOrder
<1> QED BY <1>1, <1>2, <1>3 DEF OrderInv

(* Every step keeps builders, chunks and topics in order.                  *)
LEMMA OrderStep ==
    ASSUME BatchesSorted, KeysUnique, OrderInv, [Next]_vars
    PROVE  OrderInv'
<1>t. TypeOK /\ BuilderRoom /\ WritersOK /\ TopicsInOrder /\ PlanOK
  BY DEF OrderInv
<1>u. TypeOK' /\ BuilderRoom'
  BY <1>t, TypeStep
<1> DEFINE G == WritersOK' /\ TopicsInOrder' /\ PlanOK'
<1>1. ASSUME NEW e \in Engines, NEW t \in Topics, createTopic(e, t)
      PROVE  G
  BY <1>1, <1>t DEF createTopic, loopVars, WritersOK, TopicsInOrder, PlanOK
<1>2. ASSUME NEW w \in Writers, NEW t \in Topics, NEW ts \in Time, beginRow(w, t, ts)
      PROVE  G
  <2>1. builder' = [builder EXCEPT ![w][t] = beginRowIn(builder[w][t], ts)]
        /\ rest[w][t] = <<>>
        /\ UNCHANGED <<pending, flushed, sealed, rest, queue, plan>>
    BY <1>2 DEF beginRow, loopVars, Idle
  <2>2. builder[w][t] \in Builder /\ builder \in [Writers -> [Topics -> Builder]]
    BY <1>t DEF TypeOK
  <2>3. beginRowIn(builder[w][t], ts) \in Builder
    BY <1>t, <2>2, BuilderOps
  <2>4. \A x \in Writers, y \in Topics : builder'[x][y] =
              IF x = w /\ y = t THEN beginRowIn(builder[w][t], ts) ELSE builder[x][y]
    BY <2>1, <2>2, <2>3, Update2, SMTT(20)
  <2>5. BuilderOK(builder[w][t]) /\ (builder[w][t].rows # <<>> => ts >= builder[w][t].last)
    BY <1>2, <1>t DEF beginRow, WritersOK
  <2>6. BuilderOK(beginRowIn(builder[w][t], ts))
    BY <2>2, <2>5, BeginOK
  <2>7. RestOK(<<>>, beginRowIn(builder[w][t], ts))
    BY DEF RestOK, SortedTimes
  <2>8. WritersOK'
    BY <1>t, <2>1, <2>4, <2>6, <2>7 DEF WritersOK
  <2> QED BY <1>t, <2>1, <2>8 DEF TopicsInOrder, PlanOK
<1>3. ASSUME NEW w \in Writers, NEW t \in Topics, NEW b \in Builder, Idle,
             BuilderOK(b), Len(b.rows) \in 1 .. MaxChunkRows, autoSeal(w, t, b),
             UNCHANGED <<flushed, sealed, rest, queue, plan>>
      PROVE  G
  <2>1. \A x \in Writers, y \in Topics :
           BuilderOK(builder'[x][y]) /\ ChunksOK(pending'[x][y])
    BY <1>3, <1>t, AutoSealOK
  <2>2. \A x \in Writers, y \in Topics : rest'[x][y] = <<>>
    BY <1>3 DEF Idle
  <2>3. \A x \in Writers, y \in Topics : RestOK(rest'[x][y], builder'[x][y])
    BY <2>2 DEF RestOK, SortedTimes
  <2>4. WritersOK'
    BY <1>3, <1>t, <2>1, <2>3 DEF WritersOK
  <2> QED BY <1>3, <1>t, <2>4 DEF TopicsInOrder, PlanOK
<1>4. ASSUME NEW w \in Writers, NEW t \in Topics, NEW ts \in Time, appendScalar(w, t, ts)
      PROVE  G
  <2> DEFINE a == beginRowIn(builder[w][t], ts)
             b == finishRowIn(a)
  <2>1. builder[w][t] \in Builder /\ BuilderOK(builder[w][t])
        /\ Len(builder[w][t].rows) \in Nat /\ Len(builder[w][t].rows) < MaxChunkRows
    BY <1>t DEF TypeOK, WritersOK, BuilderRoom, Builder
  <2>2. a \in Builder /\ BuilderOK(a)
    BY <1>t, <1>4, <2>1, BuilderOps, BeginOK DEF appendScalar
  <2>3. a.rows = builder[w][t].rows
    BY <2>1 DEF beginRowIn, Builder
  <2>4. /\ autoSeal(w, t, b) /\ Idle
        /\ UNCHANGED <<flushed, sealed, rest, queue, plan>>
    BY <1>4 DEF appendScalar, loopVars
  <2> HIDE DEF a
  <2>5. b \in Builder /\ BuilderOK(b) /\ Len(b.rows) = Len(a.rows) + 1
    BY <1>t, <2>2, BuilderOps, FinishOK
  <2>6. Len(b.rows) \in 1 .. MaxChunkRows
    BY <2>1, <2>3, <2>5, ChunkAssumption
  <2> HIDE DEF b
  <2> QED BY <1>3, <2>4, <2>5, <2>6
<1>5. ASSUME NEW w \in Writers, NEW t \in Topics, NEW ts \in Batches, appendColumns(w, t, ts)
      PROVE  G
  <2>1. ts \in Seq(Time) /\ SortedTimes(ts)
    BY BatchAssumption DEF BatchesSorted
  <2>2. rest' = [rest EXCEPT ![w][t] = ts] /\ UNCHANGED <<builder, pending, flushed, sealed, queue, plan>>
        /\ (builder[w][t].rows # <<>> => ts[1] >= builder[w][t].last)
    BY <1>5 DEF appendColumns
  <2>3. \A x \in Writers, y \in Topics : rest'[x][y] = IF x = w /\ y = t THEN ts ELSE rest[x][y]
    <3>1. rest \in [Writers -> [Topics -> Seq(Time)]]
      BY <1>t DEF TypeOK
    <3>2. PICK f \in [Writers -> [Topics -> Seq(Time)]] : f = rest
      BY <3>1
    <3>3. rest' = [f EXCEPT ![w][t] = ts]
      BY <2>2, <3>2
    <3> QED BY <2>1, <3>2, <3>3, Update2
  <2>4. RestOK(ts, builder[w][t])
    BY <2>1, <2>2 DEF RestOK
  <2>5. WritersOK'
    BY <1>t, <2>2, <2>3, <2>4 DEF WritersOK
  <2> QED BY <1>t, <2>2, <2>5 DEF TopicsInOrder, PlanOK
<1>6. ASSUME NEW w \in Writers, NEW t \in Topics, finishRow(w, t)
      PROVE  G
  <2> DEFINE a == builder[w][t]
             b == finishRowIn(a)
  <2>1. a \in Builder /\ BuilderOK(a) /\ Len(a.rows) \in Nat /\ Len(a.rows) < MaxChunkRows
        /\ MinTime \in Time
    BY <1>t, TimeAssumption DEF TypeOK, WritersOK, BuilderRoom, Builder, Time
  <2>2. /\ autoSeal(w, t, b) /\ Idle
        /\ UNCHANGED <<flushed, sealed, rest, queue, plan>>
    BY <1>6 DEF finishRow, loopVars
  <2> HIDE DEF a
  <2>3. b \in Builder /\ BuilderOK(b) /\ Len(b.rows) = Len(a.rows) + 1
    BY <1>t, <2>1, BuilderOps, FinishOK
  <2>4. Len(b.rows) \in 1 .. MaxChunkRows
    BY <2>1, <2>3, ChunkAssumption
  <2> HIDE DEF b
  <2> QED BY <1>3, <2>2, <2>3, <2>4
<1>7. ASSUME NEW w \in Writers, NEW t \in Topics, appendBatch(w, t)
      PROVE  G
  <2> DEFINE r == rest[w][t]
             a == builder[w][t]
             n == Lower(Len(r), remainingCapacity(a))
             s == SubSeq(r, 1, n)
             b == appendTimestamps(a, s)
             left == SubSeq(r, n + 1, Len(r))
  <2>1. /\ a \in Builder /\ BuilderOK(a) /\ Len(a.rows) \in Nat /\ Len(a.rows) < MaxChunkRows
        /\ r \in Seq(Time) /\ RestOK(r, a)
    BY <1>t DEF TypeOK, WritersOK, BuilderRoom, Builder
  <2>2. /\ r # <<>> /\ autoSeal(w, t, b) /\ rest' = [rest EXCEPT ![w][t] = left]
        /\ UNCHANGED <<flushed, sealed, queue, plan>>
    BY <1>7 DEF appendBatch
  <2>3. Len(r) \in Nat \ {0} /\ n \in 1 .. Len(r) /\ n <= MaxChunkRows - Len(a.rows)
    <3> HIDE DEF a, r
    <3>1. Len(r) \in Nat \ {0}
      BY <2>1, <2>2
    <3>2. remainingCapacity(a) \in Nat \ {0} /\ remainingCapacity(a) = MaxChunkRows - Len(a.rows)
      BY <2>1, ChunkAssumption DEF remainingCapacity
    <3>3. n \in 1 .. Len(r) /\ n <= remainingCapacity(a)
      BY <3>1, <3>2, LowerRange
    <3> QED BY <3>1, <3>2, <3>3
  <2> HIDE DEF n, a, r
  <2>4. /\ s \in Seq(Time) /\ Len(s) = n /\ s # <<>> /\ \A i \in 1 .. n : s[i] = r[i]
    BY <2>1, <2>3
  <2>5. /\ left \in Seq(Time) /\ Len(left) = Len(r) - n
        /\ \A i \in 1 .. Len(r) - n : left[i] = r[n + i]
    BY <2>1, <2>3
  <2>6. SortedTimes(r)
    BY <2>1 DEF RestOK
  <2>7. RestOK(s, a)
    <3>1. SortedTimes(s)
      <4>1. \A i \in 1 .. n : i \in 1 .. Len(r)
        BY <2>3
      <4> HIDE DEF s
      <4> QED BY <2>4, <2>6, <4>1 DEF SortedTimes
    <3>2. s[1] = r[1]
      BY <2>3, <2>4
    <3> HIDE DEF s
    <3> QED BY <2>1, <2>2, <3>1, <3>2 DEF RestOK
  <2>8. SortedTimes(left) /\ (left # <<>> => left[1] >= s[n])
    <3>1. \A i \in 1 .. Len(r) - n : n + i \in 1 .. Len(r)
      BY <2>3
    <3>2. SortedTimes(left)
      <4> SUFFICES ASSUME NEW i \in 1 .. Len(r) - n, NEW j \in 1 .. Len(r) - n, i <= j
                   PROVE  left[i] <= left[j]
        BY <2>5 DEF SortedTimes
      <4>1. n + i <= n + j
        BY <2>3
      <4>2. r[n + i] <= r[n + j]
        BY <2>6, <3>1, <4>1 DEF SortedTimes
      <4> QED BY <2>5, <4>2
    <3>3. ASSUME left # <<>> PROVE left[1] >= s[n]
      <4>1. 1 \in 1 .. Len(r) - n
        BY <2>3, <2>5, <3>3
      <4>2. n \in 1 .. Len(r) /\ n + 1 \in 1 .. Len(r) /\ n <= n + 1
        BY <2>3, <3>1, <4>1
      <4>3. r[n] <= r[n + 1] /\ r[n] \in Int /\ r[n + 1] \in Int
        <5>1. r[n] \in Time /\ r[n + 1] \in Time
          BY <2>1, <4>2
        <5>2. r[n] <= r[n + 1]
          BY <2>6, <4>2 DEF SortedTimes
        <5> QED BY ONLY <5>1, <5>2 DEF Time
      <4>4. s[n] = r[n] /\ left[1] = r[n + 1]
        BY <2>3, <2>4, <2>5, <4>1
      <4> QED BY <4>3, <4>4
    <3> QED BY <3>2, <3>3
  <2> HIDE DEF s, left
  <2>9. b \in Builder /\ BuilderOK(b) /\ Len(b.rows) = Len(a.rows) + n /\ b.last = s[n]
    BY <1>t, <2>1, <2>4, <2>7, AppendTimestampsType, AppendOK
  <2>10. Len(b.rows) \in 1 .. MaxChunkRows
    BY <2>1, <2>3, <2>9, ChunkAssumption
  <2> HIDE DEF b
  <2>11. /\ \A x \in Writers, y \in Topics :
              BuilderOK(builder'[x][y]) /\ ChunksOK(pending'[x][y])
         /\ \A x \in Writers, y \in Topics :
              builder'[x][y] = IF x = w /\ y = t
                               THEN IF isFull(b) THEN NewBuilder ELSE b
                               ELSE builder[x][y]
    <3>1. \A x \in Writers, y \in Topics :
              BuilderOK(builder'[x][y]) /\ ChunksOK(pending'[x][y])
      BY <1>t, <2>2, <2>9, <2>10, AutoSealOK
    <3>2. \A x \in Writers, y \in Topics :
              builder'[x][y] = IF x = w /\ y = t
                               THEN IF isFull(b) THEN NewBuilder ELSE b
                               ELSE builder[x][y]
      BY <1>t, <2>2, <2>9, <2>10, AutoSealEffect
    <3> QED BY ONLY <3>1, <3>2
  <2>12. \A x \in Writers, y \in Topics : rest'[x][y] = IF x = w /\ y = t THEN left ELSE rest[x][y]
    <3>1. rest \in [Writers -> [Topics -> Seq(Time)]]
      BY <1>t DEF TypeOK
    <3> QED BY <2>2, <2>5, <3>1, Update2, SMTT(20)
  <2>13. RestOK(left, b) /\ RestOK(left, NewBuilder)
    BY <2>8, <2>9, NewBuilderOK DEF RestOK
  <2>14. WritersOK'
    <3> SUFFICES ASSUME NEW x \in Writers, NEW y \in Topics
                 PROVE  /\ BuilderOK(builder'[x][y])
                        /\ RestOK(rest'[x][y], builder'[x][y])
                        /\ ChunksOK(pending'[x][y])
                        /\ ChunksOK(flushed'[x][y])
                        /\ ChunksOK(queue'[x][y])
      BY DEF WritersOK
    <3>1. RestOK(rest[x][y], builder[x][y]) /\ ChunksOK(flushed[x][y]) /\ ChunksOK(queue[x][y])
      BY <1>t DEF WritersOK
    <3> QED BY <2>2, <2>11, <2>12, <2>13, <3>1
  <2> QED BY <1>t, <2>2, <2>14 DEF TopicsInOrder, PlanOK
<1>8. ASSUME NEW w \in Writers, NEW t \in Topics, flush(w, t)
      PROVE  G
  <2> DEFINE b == builder[w][t]
             tail == IF b.rows # <<>> THEN <<seal(b)>> ELSE <<>>
             nb == IF b.rows # <<>> THEN NewBuilder ELSE b
  <2>1. /\ b \in Builder /\ BuilderOK(b) /\ Len(b.rows) \in Nat /\ Len(b.rows) < MaxChunkRows
        /\ pending[w][t] \in Seq(Chunk) /\ ChunksOK(pending[w][t]) /\ MinTime \in Time
    BY <1>t, TimeAssumption DEF TypeOK, WritersOK, BuilderRoom, Builder, Time
  <2>2. /\ flushed' = [flushed EXCEPT ![w][t] = pending[w][t] \o tail]
        /\ pending' = [pending EXCEPT ![w][t] = <<>>]
        /\ builder' = [builder EXCEPT ![w][t] = nb]
        /\ UNCHANGED <<sealed, rest, queue, plan>>
        /\ Idle
    BY <1>8 DEF flush, loopVars
  <2>3. tail \in Seq(Chunk) /\ ChunksOK(pending[w][t] \o tail) /\ pending[w][t] \o tail \in Seq(Chunk)
    <3>1. CASE b.rows # <<>>
      <4>1. Len(b.rows) \in 1 .. MaxChunkRows
        BY <2>1, <3>1, ChunkAssumption DEF Builder
      <4>2. seal(b) \in Chunk /\ ChunkOK(seal(b))
        BY <1>t, <2>1, <4>1, BuilderOps, SealOK
      <4>3. pending[w][t] \o <<seal(b)>> = Append(pending[w][t], seal(b))
        BY <2>1, <4>2
      <4>4. ChunksOK(Append(pending[w][t], seal(b)))
        BY <2>1, <4>2, AppendChunk
      <4>5. tail = <<seal(b)>>
        BY <3>1
      <4> HIDE DEF tail, b
      <4>6. Append(pending[w][t], seal(b)) \in Seq(Chunk) /\ <<seal(b)>> \in Seq(Chunk)
        BY <2>1, <4>2
      <4> QED BY <4>3, <4>4, <4>5, <4>6
    <3>2. CASE b.rows = <<>>
      BY <2>1, <3>2
    <3> QED BY <3>1, <3>2
  <2>4. nb \in Builder /\ BuilderOK(nb)
    BY <2>1, NewBuilderType, NewBuilderOK
  <2> HIDE DEF tail, nb
  <2>t. /\ flushed \in [Writers -> [Topics -> Seq(Chunk)]]
        /\ pending \in [Writers -> [Topics -> Seq(Chunk)]]
        /\ builder \in [Writers -> [Topics -> Builder]]
        /\ <<>> \in Seq(Chunk)
    BY <1>t DEF TypeOK
  <2>a. \A x \in Writers, y \in Topics :
           flushed'[x][y] = IF x = w /\ y = t THEN pending[w][t] \o tail ELSE flushed[x][y]
    BY <2>2, <2>3, <2>t, Update2, SMTT(20)
  <2>b. \A x \in Writers, y \in Topics :
           pending'[x][y] = IF x = w /\ y = t THEN <<>> ELSE pending[x][y]
    BY <2>2, <2>t, Update2, SMTT(20)
  <2>5. \A x \in Writers, y \in Topics :
           builder'[x][y] = IF x = w /\ y = t THEN nb ELSE builder[x][y]
    BY <2>2, <2>4, <2>t, Update2, SMTT(20)
  <2>6. \A x \in Writers, y \in Topics : RestOK(rest'[x][y], builder'[x][y])
    BY <2>2 DEF Idle, RestOK, SortedTimes
  <2>7. ChunksOK(<<>>)
    BY DEF ChunksOK
  <2>8. WritersOK'
    BY <1>t, <2>2, <2>3, <2>4, <2>a, <2>b, <2>5, <2>6, <2>7 DEF WritersOK
  <2> QED BY <1>t, <2>2, <2>8 DEF TopicsInOrder, PlanOK
<1>9. ASSUME NEW w \in Writers, flushAll(w)
      PROVE  G
  <2> DEFINE open == {t \in Topics : builder[w][t].rows # <<>>}
             put(order, t) == pending[w][t] \o
                       (IF t \in open
                        THEN <<[seal(builder[w][t]) EXCEPT !.id = nextChunk + order[t]]>>
                        ELSE <<>>)
             bs == [t \in Topics |-> IF t \in open THEN NewBuilder ELSE builder[w][t]]
  <2>t. /\ flushed \in [Writers -> [Topics -> Seq(Chunk)]]
        /\ pending \in [Writers -> [Topics -> Seq(Chunk)]]
        /\ builder \in [Writers -> [Topics -> Builder]]
        /\ nextChunk \in Nat
    BY <1>t DEF TypeOK
  <2>1. PICK order \in [open -> 0 .. Cardinality(open) - 1] :
          flushed' = [flushed EXCEPT ![w] = [t \in Topics |-> put(order, t)]]
    BY <1>9 DEF flushAll
  <2>2. Cardinality(open) \in Nat
    <3>1. open \in SUBSET Topics
      OBVIOUS
    <3> HIDE DEF open
    <3> QED BY <3>1, FS_Subset, FS_CardinalityType, FiniteAssumption
  <2>3. /\ pending' = [pending EXCEPT ![w] = Empty]
        /\ builder' = [builder EXCEPT ![w] = bs]
        /\ UNCHANGED <<sealed, rest, queue, plan>>
        /\ Idle
    BY <1>9 DEF flushAll, loopVars
  <2>4. ASSUME NEW t \in Topics
        PROVE  put(order, t) \in Seq(Chunk) /\ ChunksOK(put(order, t))
    <3>1. /\ pending[w][t] \in Seq(Chunk) /\ ChunksOK(pending[w][t]) /\ MinTime \in Time
          /\ builder[w][t] \in Builder /\ BuilderOK(builder[w][t])
          /\ Len(builder[w][t].rows) < MaxChunkRows
      BY <1>t, <2>t, TimeAssumption, ChunkAssumption DEF WritersOK, BuilderRoom, Time
    <3>2. CASE t \in open
      <4> DEFINE c == [seal(builder[w][t]) EXCEPT !.id = nextChunk + order[t]]
      <4>1. builder[w][t].rows # <<>>
        BY <3>2
      <4>2. Len(builder[w][t].rows) \in 1 .. MaxChunkRows
        BY <3>1, <4>1, ChunkAssumption DEF Builder
      <4>3. seal(builder[w][t]) \in Chunk /\ ChunkOK(seal(builder[w][t]))
        BY <1>t, <3>1, <4>2, BuilderOps, SealOK
      <4>4. order[t] \in Int /\ order[t] >= 0
        BY <2>2, <3>2
      <4>5. nextChunk + order[t] \in Nat
        BY <2>t, <4>4
      <4> HIDE DEF open
      <4>6. /\ c \in Chunk /\ c.rows = seal(builder[w][t]).rows
            /\ c.tmin = seal(builder[w][t]).tmin /\ c.tmax = seal(builder[w][t]).tmax
        BY <4>3, <4>5 DEF Chunk
      <4>7. put(order, t) = pending[w][t] \o <<c>>
        BY <3>2
      <4> HIDE DEF c, put
      <4>8. ChunkOK(c)
        BY <4>3, <4>6 DEF ChunkOK
      <4>9. pending[w][t] \o <<c>> = Append(pending[w][t], c) /\ Append(pending[w][t], c) \in Seq(Chunk)
        BY <3>1, <4>6
      <4>10. ChunksOK(Append(pending[w][t], c))
        BY <3>1, <4>6, <4>8, AppendChunk
      <4> QED BY <4>7, <4>9, <4>10
    <3>3. CASE t \notin open
      <4> HIDE DEF open
      <4>1. put(order, t) = pending[w][t] \o <<>>
        BY <3>3
      <4>2. pending[w][t] \o <<>> = pending[w][t]
        BY <3>1
      <4> QED BY <3>1, <4>1, <4>2
    <3> QED BY <3>2, <3>3
  <2>5. \A t \in Topics : bs[t] \in Builder /\ BuilderOK(bs[t])
    BY <1>t, <2>t, NewBuilderType, NewBuilderOK DEF WritersOK
  <2>6. bs \in [Topics -> Builder] /\ Empty \in [Topics -> Seq(Chunk)]
        /\ \A t \in Topics : ChunksOK(Empty[t])
    BY <2>5 DEF Empty, ChunksOK
  <2> DEFINE out == [t \in Topics |-> put(order, t)]
  <2>8. out \in [Topics -> Seq(Chunk)] /\ \A t \in Topics : ChunksOK(out[t])
    BY <2>4
  <2>m. flushed' = [flushed EXCEPT ![w] = out]
    BY <2>1
  <2> HIDE DEF put, bs, open, out
  <2>9. \A x \in Writers, y \in Topics : flushed'[x][y] = IF x = w THEN out[y] ELSE flushed[x][y]
    BY <2>m, <2>8, <2>t, Update1
  <2>10. \A x \in Writers, y \in Topics : pending'[x][y] = IF x = w THEN Empty[y] ELSE pending[x][y]
    BY <2>3, <2>6, <2>t, Update1
  <2>11. \A x \in Writers, y \in Topics : builder'[x][y] = IF x = w THEN bs[y] ELSE builder[x][y]
    BY <2>3, <2>6, <2>t, Update1
  <2>12. \A x \in Writers, y \in Topics : RestOK(rest'[x][y], builder'[x][y])
    BY <2>3 DEF Idle, RestOK, SortedTimes
  <2>13. WritersOK'
    BY <1>t, <2>3, <2>5, <2>6, <2>8, <2>9, <2>10, <2>11, <2>12 DEF WritersOK
  <2> QED BY <1>t, <2>3, <2>13 DEF TopicsInOrder, PlanOK
<1>10. ASSUME NEW w \in Writers, commitChunks(w)
       PROVE  G
  <2>1. /\ flushed[w] \in [Topics -> Seq(Chunk)] /\ Empty \in [Topics -> Seq(Chunk)]
        /\ queue \in [Writers -> [Topics -> Seq(Chunk)]] /\ flushed \in [Writers -> [Topics -> Seq(Chunk)]]
    BY <1>t DEF TypeOK, Empty
  <2>2. /\ queue' = [queue EXCEPT ![w] = flushed[w]]
        /\ flushed' = [flushed EXCEPT ![w] = Empty]
        /\ UNCHANGED <<builder, pending, sealed, rest, plan>>
        /\ plan = {}
    BY <1>10 DEF commitChunks, Idle
  <2>3. \A x \in Writers, y \in Topics : queue'[x][y] = IF x = w THEN flushed[w][y] ELSE queue[x][y]
    BY <2>1, <2>2, Update1
  <2>4. \A x \in Writers, y \in Topics : flushed'[x][y] = IF x = w THEN Empty[y] ELSE flushed[x][y]
    BY <2>1, <2>2, Update1
  <2>5. \A t \in Topics : ChunksOK(Empty[t])
    BY DEF Empty, ChunksOK
  <2>6. WritersOK'
    BY <1>t, <2>2, <2>3, <2>4, <2>5 DEF WritersOK
  <2> QED BY <1>t, <2>2, <2>6 DEF TopicsInOrder, PlanOK
<1>11. ASSUME NEW w \in Writers, NEW t \in Topics, appendSealedChunk(w, t)
       PROVE  G
  <2> DEFINE e == EngineOf[w]
             c == queue[w][t][1]
  <2>t. /\ sealed \in [Engines -> [Topics -> Seq(Chunk)]]
        /\ queue \in [Writers -> [Topics -> Seq(Chunk)]]
    BY <1>t DEF TypeOK
  <2>1. queue[w][t] \in Seq(Chunk) /\ queue[w][t] # <<>> /\ ChunksOK(queue[w][t])
    BY <1>11, <1>t, <2>t DEF appendSealedChunk, WritersOK
  <2>2. c \in Chunk /\ ChunkOK(c) /\ Tail(queue[w][t]) \in Seq(Chunk) /\ ChunksOK(Tail(queue[w][t]))
    BY <2>1, TailOK
  <2>3. e \in Engines
    BY BindAssumption
  <2>4. /\ queue' = [queue EXCEPT ![w][t] = Tail(queue[w][t])]
        /\ UNCHANGED <<builder, pending, flushed, rest, plan>>
        /\ \/ /\ Appendable(sealed[e][t], c)
              /\ sealed' = [sealed EXCEPT ![e][t] = Append(sealed[e][t], c)]
           \/ sealed' = sealed
    BY <1>11 DEF appendSealedChunk
  <2>5. plan = {}
    BY <1>t, <2>1 DEF PlanOK
  <2> HIDE DEF c, e
  <2>6. \A x \in Writers, y \in Topics :
           queue'[x][y] = IF x = w /\ y = t THEN Tail(queue[w][t]) ELSE queue[x][y]
    BY <2>2, <2>4, <2>t, Update2, SMTT(20)
  <2>7. WritersOK'
    BY <1>t, <2>2, <2>4, <2>6 DEF WritersOK
  <2>8. TopicsInOrder'
    <3>1. CASE sealed' = sealed
      BY <1>t, <3>1 DEF TopicsInOrder
    <3>2. CASE /\ Appendable(sealed[e][t], c)
               /\ sealed' = [sealed EXCEPT ![e][t] = Append(sealed[e][t], c)]
      <4>1. sealed[e][t] \in Seq(Chunk) /\ ChunksOK(sealed[e][t]) /\ InOrder(sealed[e][t])
        BY <1>t, <2>3, <2>t DEF TopicsInOrder
      <4>2. ChunksOK(Append(sealed[e][t], c)) /\ InOrder(Append(sealed[e][t], c))
        BY <2>2, <3>2, <4>1, AppendInOrder
      <4>3. Append(sealed[e][t], c) \in Seq(Chunk)
        BY <2>2, <4>1
      <4>4. \A x \in Engines, y \in Topics :
               sealed'[x][y] = IF x = e /\ y = t THEN Append(sealed[e][t], c) ELSE sealed[x][y]
        BY <2>3, <2>t, <3>2, <4>3, Update2, SMTT(20)
      <4> QED BY <1>t, <4>2, <4>4 DEF TopicsInOrder
    <3> QED BY <2>4, <3>1, <3>2
  <2>9. PlanOK'
    BY <2>4, <2>5 DEF PlanOK
  <2> QED BY <2>7, <2>8, <2>9
<1>12. ASSUME NEW e \in Engines, NEW window \in Windows, enforceRetention(e, window)
       PROVE  G
  <2> DEFINE kept(t) == IF sealed[e][t] = <<>> THEN <<>>
                        ELSE evictBefore(sealed[e][t], time_max(sealed[e][t]) - window)
             ks == [t \in Topics |-> kept(t)]
  <2>t. sealed \in [Engines -> [Topics -> Seq(Chunk)]]
    BY <1>t DEF TypeOK
  <2>1. /\ sealed' = [sealed EXCEPT ![e] = ks]
        /\ UNCHANGED <<builder, pending, flushed, rest, queue, plan>>
        /\ plan = {}
    BY <1>12 DEF enforceRetention, loopVars, Idle
  <2>2. ASSUME NEW t \in Topics
        PROVE  kept(t) \in Seq(Chunk) /\ ChunksOK(kept(t)) /\ InOrder(kept(t))
    <3>1. sealed[e][t] \in Seq(Chunk) /\ ChunksOK(sealed[e][t]) /\ InOrder(sealed[e][t])
      BY <1>t, <2>t DEF TopicsInOrder
    <3>2. CASE sealed[e][t] = <<>>
      BY <3>1, <3>2
    <3>3. CASE sealed[e][t] # <<>>
      <4>1. time_max(sealed[e][t]) - window \in Int
        <5>1. back(sealed[e][t]) \in Chunk
          BY <3>1, <3>3 DEF back
        <5> QED BY <5>1, TimeAssumption, WindowAssumption DEF time_max, Chunk, Time
      <4>2. kept(t) = evictBefore(sealed[e][t], time_max(sealed[e][t]) - window)
        BY <3>3
      <4> HIDE DEF kept
      <4> QED BY <3>1, <4>1, <4>2, EvictType, EvictInOrder
    <3> QED BY <3>2, <3>3
  <2>3. ks \in [Topics -> Seq(Chunk)] /\ \A t \in Topics : ChunksOK(ks[t]) /\ InOrder(ks[t])
    BY <2>2
  <2> HIDE DEF ks
  <2>4. \A x \in Engines, y \in Topics : sealed'[x][y] = IF x = e THEN ks[y] ELSE sealed[x][y]
    BY <2>1, <2>3, <2>t, Update1
  <2>5. TopicsInOrder'
    BY <1>t, <2>3, <2>4 DEF TopicsInOrder
  <2> QED BY <1>t, <2>1, <2>5 DEF WritersOK, PlanOK
<1>13. ASSUME NEW e \in Engines, NEW f \in Engines, flushTo(e, f)
       PROVE  G
  <2> DEFINE full == {s \in Topics : sealed[e][s] # <<>>}
             step(s, d) == [from |-> e, to |-> f, src |-> s, dst |-> d]
  <2>1. /\ e # f /\ Idle
        /\ UNCHANGED <<builder, pending, flushed, sealed, rest, queue>>
    BY <1>13 DEF flushTo
  <2>2. PICK match \in [full -> Topics] :
          /\ \A s \in full : Movable(e, f, s, match[s])
          /\ plan' = {step(s, match[s]) : s \in full}
    BY <1>13 DEF flushTo
  <2>3. \A p \in plan' : \E s \in full : p = step(s, match[s])
    BY <2>2
  <2>4. ASSUME NEW p \in plan'
        PROVE  /\ p.from = e /\ p.to = f /\ p.src \in full /\ p.dst = match[p.src]
               /\ p = step(p.src, p.dst)
    BY <2>3
  <2>5. ASSUME NEW p \in plan'
        PROVE  /\ p.from # p.to
               /\ sealed[p.from][p.src] # <<>>
               /\ sealed[p.to][p.dst] # <<>> =>
                     time_min(sealed[p.from][p.src]) >= time_max(sealed[p.to][p.dst])
    <3>1. /\ p.from = e /\ p.to = f /\ p.src \in full /\ p.dst = match[p.src]
      BY <2>4
    <3>2. Movable(e, f, p.src, p.dst) /\ sealed[e][p.src] # <<>>
      BY <2>2, <3>1
    <3> QED BY <2>1, <3>1, <3>2 DEF Movable
  <2>6. ASSUME NEW p \in plan', NEW q \in plan'
        PROVE  p.from = q.from /\ p.to = q.to /\ (p.src = q.src \/ p.dst = q.dst => p = q)
    <3>1. /\ p.from = e /\ p.to = f /\ p.src \in full /\ p.dst = match[p.src] /\ p = step(p.src, p.dst)
          /\ q.from = e /\ q.to = f /\ q.src \in full /\ q.dst = match[q.src] /\ q = step(q.src, q.dst)
      BY <2>4
    <3>2. p.src = q.src => p = q
      BY <3>1
    <3>3. p.dst = q.dst => p.src = q.src
      <4>1. TopicKey[p.dst] = TopicKey[p.src] /\ TopicKey[q.dst] = TopicKey[q.src]
        BY <2>2, <3>1 DEF Movable
      <4> QED BY <3>1, <4>1 DEF KeysUnique
    <3> QED BY <3>1, <3>2, <3>3
  <2>7. PlanOK'
    <3>1. \A w \in Writers, t \in Topics : queue'[w][t] = <<>>
      BY <2>1 DEF Idle
    <3>2. sealed' = sealed
      BY <2>1
    <3> HIDE DEF full, step
    <3> QED BY <2>5, <2>6, <3>1, <3>2 DEF PlanOK
  <2> QED BY <1>t, <2>1, <2>7 DEF WritersOK, TopicsInOrder
<1>14. ASSUME NEW s \in plan, moveChunks(s)
       PROVE  G
  <2> DEFINE src == sealed[s.from][s.src]
             dst == sealed[s.to][s.dst]
  <2>0. /\ s.from \in Engines /\ s.to \in Engines /\ s.src \in Topics /\ s.dst \in Topics
        /\ \A x \in Engines, y \in Topics : sealed[x][y] \in Seq(Chunk)
    BY <1>t DEF TypeOK, Step
  <2>1. /\ \A x \in Engines, y \in Topics : sealed'[x][y] =
              IF x = s.to /\ y = s.dst THEN dst \o src
              ELSE IF x = s.from /\ y = s.src THEN <<>> ELSE sealed[x][y]
        /\ plan' = plan \ {s}
        /\ UNCHANGED <<builder, pending, flushed, rest, queue>>
    BY <1>14, <2>0 DEF moveChunks
  <2>2. /\ src \in Seq(Chunk) /\ dst \in Seq(Chunk) /\ s.from # s.to
        /\ ChunksOK(src) /\ ChunksOK(dst) /\ InOrder(src) /\ InOrder(dst)
        /\ (dst # <<>> => time_min(src) >= time_max(dst))
    BY <1>t, <2>0 DEF TopicsInOrder, PlanOK
  <2> HIDE DEF src, dst
  <2>3. ChunksOK(dst \o src) /\ InOrder(dst \o src)
    BY <2>2, ConcatInOrder
  <2>4. ChunksOK(<<>>) /\ InOrder(<<>>)
    BY DEF ChunksOK, InOrder
  <2>5. TopicsInOrder'
    BY <1>t, <2>1, <2>3, <2>4 DEF TopicsInOrder
  <2>6. ASSUME NEW r \in plan'
        PROVE  /\ r.from # r.to
               /\ sealed'[r.from][r.src] = sealed[r.from][r.src]
               /\ sealed'[r.to][r.dst] = sealed[r.to][r.dst]
               /\ r \in plan
    <3>1. r \in plan /\ r # s
      BY <2>1
    <3>2. r.from = s.from /\ r.to = s.to /\ r.src # s.src /\ r.dst # s.dst
      BY <1>t, <3>1 DEF PlanOK
    <3>3. r.from \in Engines /\ r.to \in Engines /\ r.src \in Topics /\ r.dst \in Topics
      BY <1>t, <3>1 DEF TypeOK, Step
    <3> QED BY <2>1, <2>2, <3>1, <3>2, <3>3
  <2>7. PlanOK'
    BY <1>t, <2>1, <2>6 DEF PlanOK
  <2> QED BY <1>t, <2>1, <2>5, <2>7 DEF WritersOK
<1>15. ASSUME UNCHANGED vars
       PROVE  G
  BY <1>15, <1>t DEF vars, WritersOK, TopicsInOrder, PlanOK
<1>16. G
  BY <1>1, <1>2, <1>4, <1>5, <1>6, <1>7, <1>8, <1>9, <1>10, <1>11, <1>12, <1>13, <1>14, <1>15
     DEF Next
<1> QED BY <1>u, <1>16 DEF OrderInv

(* As long as callers pass sorted timestamp arrays to appendColumns and    *)
(* topics have distinct keys, the committed chunks of every topic are in   *)
(* time order and their statistics are exact, for any number of engines,   *)
(* writers and topics and any chunk size: what commitChunks and flushTo    *)
(* check is enough for the binary searches of the query layer.             *)
THEOREM CommittedInOrder ==
    ASSUME BatchesSorted, KeysUnique
    PROVE  Spec => []TopicsInOrder
<1>1. OrderInv /\ [Next]_vars => OrderInv'
  BY OrderStep
<1>2. OrderInv => TopicsInOrder
  BY DEF OrderInv
<1> QED BY <1>1, <1>2, InitOrder, PTL DEF Spec

-----------------------------------------------------------------------------
(* The rows and chunks the engine carries around.  Chunk ids and row       *)
(* numbers are tokens, the places they can be in are cells, and TraceInv   *)
(* says where the tokens are: every step carries tokens from cell to cell, *)
(* and only a builder that accepts rows and a seal create new ones.        *)

(* Tokens of sequences of chunks. *)

(* What must not be doubled: the id of a chunk and the numbers of its rows.*)
RowTok(rows) == {<<"row", rows[j].id>> : j \in DOMAIN rows}
Tok(c) == {<<"chunk", c.id>>} \cup RowTok(c.rows)
Toks(s) == UNION {Tok(s[i]) : i \in DOMAIN s}

RowsDistinct(rows) == \A i, j \in DOMAIN rows : rows[i].id = rows[j].id => i = j

OneEach(s) ==
    /\ \A i \in DOMAIN s : RowsDistinct(s[i].rows)
    /\ \A i, j \in DOMAIN s : Tok(s[i]) \cap Tok(s[j]) # {} => i = j

(* No chunks hold no tokens.                                               *)
LEMMA ToksNone == Toks(<<>>) = {} /\ OneEach(<<>>)
BY DEF Toks, OneEach

(* One chunk holds its own id and the numbers of its rows.                 *)
LEMMA ToksOne ==
    ASSUME NEW c
    PROVE  Toks(<<c>>) = Tok(c) /\ (RowsDistinct(c.rows) => OneEach(<<c>>))
<1>1. DOMAIN <<c>> = {1} /\ <<c>>[1] = c
  OBVIOUS
<1>2. Toks(<<c>>) = Tok(c)
  BY <1>1, Zenon DEF Toks
<1>3. RowsDistinct(c.rows) => OneEach(<<c>>)
  BY <1>1, Zenon DEF OneEach
<1> QED BY <1>2, <1>3

(* Two runs of chunks behind each other hold the tokens of both, each once *)
(* when the runs share none: a commit, a flush and flushTo concatenate.    *)
LEMMA ToksConcat ==
    ASSUME NEW s \in Seq(Chunk), NEW t \in Seq(Chunk)
    PROVE  /\ Toks(s \o t) = Toks(s) \cup Toks(t)
           /\ OneEach(s) /\ OneEach(t) /\ Toks(s) \cap Toks(t) = {} => OneEach(s \o t)
           /\ OneEach(s \o t) => OneEach(s) /\ OneEach(t) /\ Toks(s) \cap Toks(t) = {}
<1> DEFINE q == s \o t
           l == Len(s)
           m == Len(t)
<1>1. /\ l \in Nat /\ m \in Nat /\ DOMAIN s = 1 .. l /\ DOMAIN t = 1 .. m
      /\ DOMAIN q = 1 .. l + m
  OBVIOUS
<1>2. /\ \A i \in 1 .. l : q[i] = s[i]
      /\ \A i \in 1 .. m : q[l + i] = t[i]
  OBVIOUS
<1> HIDE DEF q, l, m
<1>3. \A i \in 1 .. l + m : i \in 1 .. l \/ (i - l \in 1 .. m /\ l + (i - l) = i)
  BY <1>1
<1>4. /\ \A i \in 1 .. l : i \in 1 .. l + m
      /\ \A i \in 1 .. m : l + i \in 1 .. l + m /\ \A j \in 1 .. l : j # l + i
      /\ \A i, j \in 1 .. m : l + i = l + j => i = j
  BY <1>1
<1>5. Toks(q) = Toks(s) \cup Toks(t)
  <2>1. ASSUME NEW x \in Toks(q) PROVE x \in Toks(s) \cup Toks(t)
    <3>1. PICK i \in 1 .. l + m : x \in Tok(q[i])
      BY <1>1, <2>1 DEF Toks
    <3>2. CASE i \in 1 .. l
      BY <1>1, <1>2, <3>1, <3>2 DEF Toks
    <3>3. CASE i - l \in 1 .. m /\ l + (i - l) = i
      <4>1. PICK k \in 1 .. m : l + k = i
        BY <3>3
      <4> QED BY <1>1, <1>2, <3>1, <4>1 DEF Toks
    <3> QED BY <1>3, <3>2, <3>3
  <2>2. ASSUME NEW x \in Toks(s) PROVE x \in Toks(q)
    <3>1. PICK i \in 1 .. l : x \in Tok(s[i])
      BY <1>1, <2>2 DEF Toks
    <3> QED BY <1>1, <1>2, <1>4, <3>1 DEF Toks
  <2>3. ASSUME NEW x \in Toks(t) PROVE x \in Toks(q)
    <3>1. PICK i \in 1 .. m : x \in Tok(t[i])
      BY <1>1, <2>3 DEF Toks
    <3> QED BY <1>1, <1>2, <1>4, <3>1 DEF Toks
  <2> QED BY <2>1, <2>2, <2>3
<1>6. ASSUME OneEach(s), OneEach(t), Toks(s) \cap Toks(t) = {} PROVE OneEach(q)
  <2>1. ASSUME NEW i \in 1 .. l + m PROVE RowsDistinct(q[i].rows)
    <3>1. CASE i \in 1 .. l
      BY <1>1, <1>2, <1>6, <3>1 DEF OneEach
    <3>2. CASE i - l \in 1 .. m /\ l + (i - l) = i
      <4>1. PICK k \in 1 .. m : l + k = i
        BY <3>2
      <4> QED BY <1>1, <1>2, <1>6, <4>1 DEF OneEach
    <3> QED BY <1>3, <3>1, <3>2
  <2>2. ASSUME NEW i \in 1 .. l + m, NEW j \in 1 .. l + m, Tok(q[i]) \cap Tok(q[j]) # {}
        PROVE  i = j
    <3>1. CASE i \in 1 .. l /\ j \in 1 .. l
      BY <1>1, <1>2, <1>6, <2>2, <3>1 DEF OneEach
    <3>2. CASE i \in 1 .. l /\ j - l \in 1 .. m /\ l + (j - l) = j
      <4>1. PICK k \in 1 .. m : l + k = j
        BY <3>2
      <4>2. Tok(s[i]) \cap Tok(t[k]) # {}
        BY <1>2, <2>2, <3>2, <4>1
      <4>3. Tok(s[i]) \subseteq Toks(s) /\ Tok(t[k]) \subseteq Toks(t)
        BY <1>1, <3>2 DEF Toks
      <4> QED BY <1>6, <4>2, <4>3
    <3>3. CASE j \in 1 .. l /\ i - l \in 1 .. m /\ l + (i - l) = i
      <4>1. PICK k \in 1 .. m : l + k = i
        BY <3>3
      <4>2. Tok(s[j]) \cap Tok(t[k]) # {}
        BY <1>2, <2>2, <3>3, <4>1
      <4>3. Tok(s[j]) \subseteq Toks(s) /\ Tok(t[k]) \subseteq Toks(t)
        BY <1>1, <3>3 DEF Toks
      <4> QED BY <1>6, <4>2, <4>3
    <3>4. CASE i - l \in 1 .. m /\ l + (i - l) = i /\ j - l \in 1 .. m /\ l + (j - l) = j
      <4>1. PICK k \in 1 .. m : l + k = i
        BY <3>4
      <4>2. PICK h \in 1 .. m : l + h = j
        BY <3>4
      <4>3. Tok(t[k]) \cap Tok(t[h]) # {}
        BY <1>2, <2>2, <4>1, <4>2
      <4> QED BY <1>1, <1>6, <4>1, <4>2, <4>3 DEF OneEach
    <3> QED BY <1>3, <3>1, <3>2, <3>3, <3>4
  <2> QED BY <1>1, <2>1, <2>2 DEF OneEach
<1>7. ASSUME OneEach(q) PROVE OneEach(s) /\ OneEach(t) /\ Toks(s) \cap Toks(t) = {}
  <2>1. OneEach(s)
    BY <1>1, <1>2, <1>4, <1>7 DEF OneEach
  <2>2. OneEach(t)
    <3>1. ASSUME NEW i \in 1 .. m PROVE RowsDistinct(t[i].rows)
      BY <1>1, <1>2, <1>4, <1>7 DEF OneEach
    <3>2. ASSUME NEW i \in 1 .. m, NEW j \in 1 .. m, Tok(t[i]) \cap Tok(t[j]) # {} PROVE i = j
      <4>1. l + i \in 1 .. l + m /\ l + j \in 1 .. l + m
        BY <1>4
      <4>2. Tok(q[l + i]) \cap Tok(q[l + j]) # {}
        BY <1>2, <3>2
      <4>3. l + i = l + j
        BY <1>1, <1>7, <4>1, <4>2 DEF OneEach
      <4> QED BY <1>4, <4>3
    <3> QED BY <1>1, <3>1, <3>2 DEF OneEach
  <2>3. ASSUME NEW x \in Toks(s), x \in Toks(t) PROVE FALSE
    <3>1. PICK i \in 1 .. l : x \in Tok(s[i])
      BY <1>1, <2>3 DEF Toks
    <3>2. PICK k \in 1 .. m : x \in Tok(t[k])
      BY <1>1, <2>3 DEF Toks
    <3>3. i \in 1 .. l + m /\ l + k \in 1 .. l + m /\ i # l + k
      BY <1>4
    <3>4. Tok(q[i]) \cap Tok(q[l + k]) # {}
      BY <1>2, <3>1, <3>2
    <3> QED BY <1>1, <1>7, <3>3, <3>4 DEF OneEach
  <2> QED BY <2>1, <2>2, <2>3
<1> QED BY <1>5, <1>6, <1>7 DEF q

(* A sequence of chunks is what is in front of a cut and what is behind.   *)
LEMMA ToksCut ==
    ASSUME NEW s \in Seq(Chunk), NEW k \in 0 .. Len(s)
    PROVE  LET a == SubSeq(s, 1, k)
               b == SubSeq(s, k + 1, Len(s))
           IN  /\ a \in Seq(Chunk) /\ b \in Seq(Chunk) /\ Toks(s) = Toks(a) \cup Toks(b)
               /\ OneEach(s) => OneEach(a) /\ OneEach(b) /\ Toks(a) \cap Toks(b) = {}
<1> DEFINE a == SubSeq(s, 1, k)
           b == SubSeq(s, k + 1, Len(s))
<1>1. a \in Seq(Chunk) /\ b \in Seq(Chunk)
  BY SuffixFacts
<1>2. a \o b = s
  BY SuffixFacts
<1> HIDE DEF a, b
<1>3. /\ Toks(s) = Toks(a) \cup Toks(b)
      /\ OneEach(s) => OneEach(a) /\ OneEach(b) /\ Toks(a) \cap Toks(b) = {}
  BY <1>1, <1>2, ToksConcat
<1> QED BY <1>1, <1>3 DEF a, b

-----------------------------------------------------------------------------
(* The inductive invariant. *)

(* Every place a chunk or a row can be in, history included.               *)
Cells == Places \cup {<<"builder", w, t>> : w \in Writers, t \in Topics}
         \cup {<<"rejected">>, <<"evicted">>}

TokAt(p) == CASE p[1] = "builder" -> RowTok(builder[p[2]][p[3]].rows)
              [] p[1] = "rejected" -> {<<"row", n>> : n \in rejected}
              [] p[1] = "evicted" -> {<<"row", n>> : n \in evicted}
              [] OTHER -> Toks(ChunksAt(p))

Apart == \A p, q \in Cells : p # q => TokAt(p) \cap TokAt(q) = {}

Single == /\ \A p \in Places : OneEach(ChunksAt(p))
          /\ \A w \in Writers, t \in Topics : RowsDistinct(builder[w][t].rows)

Numbered == \A p \in Cells, n \in Nat :
               /\ <<"chunk", n>> \in TokAt(p) => n < nextChunk
               /\ <<"row", n>> \in TokAt(p) => n \in 1 .. accepted

AllKept == \A n \in 1 .. accepted : \E p \in Cells : <<"row", n>> \in TokAt(p)

PlanApart == \A s \in plan : s.from # s.to

TraceInv == TypeOK /\ BuilderRoom /\ Apart /\ Single /\ Numbered /\ AllKept /\ PlanApart

-----------------------------------------------------------------------------
(* What lies in the places that hold chunks.                               *)
LEMMA PlaceFacts ==
    /\ \A w \in Writers, t \in Topics :
          /\ <<"pending", w, t>> \in Places /\ ChunksAt(<<"pending", w, t>>) = pending[w][t]
          /\ <<"flushed", w, t>> \in Places /\ ChunksAt(<<"flushed", w, t>>) = flushed[w][t]
          /\ <<"queue", w, t>> \in Places /\ ChunksAt(<<"queue", w, t>>) = queue[w][t]
    /\ \A e \in Engines, t \in Topics :
          <<"sealed", e, t>> \in Places /\ ChunksAt(<<"sealed", e, t>>) = sealed[e][t]
<1>1. ASSUME NEW w \in Writers, NEW t \in Topics
      PROVE  /\ <<"pending", w, t>> \in Places /\ ChunksAt(<<"pending", w, t>>) = pending[w][t]
             /\ <<"flushed", w, t>> \in Places /\ ChunksAt(<<"flushed", w, t>>) = flushed[w][t]
             /\ <<"queue", w, t>> \in Places /\ ChunksAt(<<"queue", w, t>>) = queue[w][t]
  BY DEF Places, ChunksAt
<1>2. ASSUME NEW e \in Engines, NEW t \in Topics
      PROVE  <<"sealed", e, t>> \in Places /\ ChunksAt(<<"sealed", e, t>>) = sealed[e][t]
  BY DEF Places, ChunksAt
<1> QED BY <1>1, <1>2

(* The tokens of each kind of cell.                                        *)
LEMMA CellFacts ==
    /\ \A w \in Writers, t \in Topics :
          /\ <<"pending", w, t>> \in Cells /\ TokAt(<<"pending", w, t>>) = Toks(pending[w][t])
          /\ <<"flushed", w, t>> \in Cells /\ TokAt(<<"flushed", w, t>>) = Toks(flushed[w][t])
          /\ <<"queue", w, t>> \in Cells /\ TokAt(<<"queue", w, t>>) = Toks(queue[w][t])
          /\ <<"builder", w, t>> \in Cells /\ TokAt(<<"builder", w, t>>) = RowTok(builder[w][t].rows)
    /\ \A e \in Engines, t \in Topics :
          <<"sealed", e, t>> \in Cells /\ TokAt(<<"sealed", e, t>>) = Toks(sealed[e][t])
    /\ <<"rejected">> \in Cells /\ TokAt(<<"rejected">>) = {<<"row", n>> : n \in rejected}
    /\ <<"evicted">> \in Cells /\ TokAt(<<"evicted">>) = {<<"row", n>> : n \in evicted}
<1>1. ASSUME NEW w \in Writers, NEW t \in Topics
      PROVE  /\ <<"pending", w, t>> \in Cells /\ TokAt(<<"pending", w, t>>) = Toks(pending[w][t])
             /\ <<"flushed", w, t>> \in Cells /\ TokAt(<<"flushed", w, t>>) = Toks(flushed[w][t])
             /\ <<"queue", w, t>> \in Cells /\ TokAt(<<"queue", w, t>>) = Toks(queue[w][t])
  BY PlaceFacts DEF Cells, TokAt
<1>2. ASSUME NEW w \in Writers, NEW t \in Topics
      PROVE  <<"builder", w, t>> \in Cells /\ TokAt(<<"builder", w, t>>) = RowTok(builder[w][t].rows)
  BY DEF Cells, TokAt
<1>3. ASSUME NEW e \in Engines, NEW t \in Topics
      PROVE  <<"sealed", e, t>> \in Cells /\ TokAt(<<"sealed", e, t>>) = Toks(sealed[e][t])
  BY PlaceFacts DEF Cells, TokAt
<1>4. /\ <<"rejected">> \in Cells /\ TokAt(<<"rejected">>) = {<<"row", n>> : n \in rejected}
      /\ <<"evicted">> \in Cells /\ TokAt(<<"evicted">>) = {<<"row", n>> : n \in evicted}
  BY DEF Cells, TokAt
<1> QED BY <1>1, <1>2, <1>3, <1>4

(* A cell is a place of chunks, a builder or a piece of history.           *)
LEMMA CellCases ==
    ASSUME NEW p \in Cells
    PROVE  \/ \E w \in Writers, t \in Topics :
                 p \in {<<"pending", w, t>>, <<"flushed", w, t>>, <<"queue", w, t>>, <<"builder", w, t>>}
           \/ \E e \in Engines, t \in Topics : p = <<"sealed", e, t>>
           \/ p \in {<<"rejected">>, <<"evicted">>}
BY DEF Cells, Places

(* A place of chunks is a topic, the writer's pending list, what a flush   *)
(* returned or a commit's queue.                                           *)
LEMMA PlaceCases ==
    ASSUME NEW p \in Places
    PROVE  /\ \/ \E w \in Writers, t \in Topics :
                 p \in {<<"pending", w, t>>, <<"flushed", w, t>>, <<"queue", w, t>>}
              \/ \E e \in Engines, t \in Topics : p = <<"sealed", e, t>>
           /\ p \in Cells /\ TokAt(p) = Toks(ChunksAt(p))
<1>1. \/ \E w \in Writers, t \in Topics :
            p \in {<<"pending", w, t>>, <<"flushed", w, t>>, <<"queue", w, t>>}
      \/ \E e \in Engines, t \in Topics : p = <<"sealed", e, t>>
  BY DEF Places
<1>2. p[1] \in {"pending", "flushed", "queue", "sealed"}
  BY <1>1
<1> QED BY <1>1, <1>2 DEF Cells, TokAt

(* The cells a step does not touch.                                        *)
Untouched(D) ==
    /\ \A w \in Writers, t \in Topics :
          /\ <<"pending", w, t>> \notin D => pending'[w][t] = pending[w][t]
          /\ <<"flushed", w, t>> \notin D => flushed'[w][t] = flushed[w][t]
          /\ <<"queue", w, t>> \notin D => queue'[w][t] = queue[w][t]
          /\ <<"builder", w, t>> \notin D => builder'[w][t].rows = builder[w][t].rows
    /\ \A e \in Engines, t \in Topics :
          <<"sealed", e, t>> \notin D => sealed'[e][t] = sealed[e][t]
    /\ <<"rejected">> \notin D => rejected' = rejected
    /\ <<"evicted">> \notin D => evicted' = evicted

(* The same after a step.                                                  *)
LEMMA CellFactsNext ==
    /\ \A w \in Writers, t \in Topics :
          /\ TokAt(<<"pending", w, t>>)' = Toks(pending'[w][t])
          /\ TokAt(<<"flushed", w, t>>)' = Toks(flushed'[w][t])
          /\ TokAt(<<"queue", w, t>>)' = Toks(queue'[w][t])
          /\ TokAt(<<"builder", w, t>>)' = RowTok(builder'[w][t].rows)
    /\ \A e \in Engines, t \in Topics : TokAt(<<"sealed", e, t>>)' = Toks(sealed'[e][t])
    /\ TokAt(<<"rejected">>)' = {<<"row", n>> : n \in rejected'}
    /\ TokAt(<<"evicted">>)' = {<<"row", n>> : n \in evicted'}
<1>1. ASSUME NEW w \in Writers, NEW t \in Topics
      PROVE  /\ TokAt(<<"pending", w, t>>)' = Toks(pending'[w][t])
             /\ TokAt(<<"flushed", w, t>>)' = Toks(flushed'[w][t])
             /\ TokAt(<<"queue", w, t>>)' = Toks(queue'[w][t])
  BY DEF TokAt, ChunksAt
<1>2. ASSUME NEW w \in Writers, NEW t \in Topics
      PROVE  TokAt(<<"builder", w, t>>)' = RowTok(builder'[w][t].rows)
  BY DEF TokAt
<1>3. ASSUME NEW e \in Engines, NEW t \in Topics
      PROVE  TokAt(<<"sealed", e, t>>)' = Toks(sealed'[e][t])
  BY DEF TokAt, ChunksAt
<1>4. /\ TokAt(<<"rejected">>)' = {<<"row", n>> : n \in rejected'}
      /\ TokAt(<<"evicted">>)' = {<<"row", n>> : n \in evicted'}
  BY DEF TokAt
<1> QED BY <1>1, <1>2, <1>3, <1>4

(* A cell no one touches keeps its tokens.                                 *)
LEMMA Frame ==
    ASSUME NEW D, Untouched(D), NEW p \in Cells, p \notin D
    PROVE  TokAt(p)' = TokAt(p)
<1>1. CASE \E w \in Writers, t \in Topics : p = <<"pending", w, t>>
  <2>1. PICK w \in Writers, t \in Topics : p = <<"pending", w, t>>
    BY <1>1
  <2>2. pending'[w][t] = pending[w][t]
    BY <2>1 DEF Untouched
  <2>3. TokAt(p) = Toks(pending[w][t])
    BY <2>1, CellFacts
  <2>4. TokAt(p)' = Toks(pending'[w][t])
    BY <2>1, CellFactsNext
  <2> QED BY <2>2, <2>3, <2>4
<1>2. CASE \E w \in Writers, t \in Topics : p = <<"flushed", w, t>>
  <2>1. PICK w \in Writers, t \in Topics : p = <<"flushed", w, t>>
    BY <1>2
  <2>2. flushed'[w][t] = flushed[w][t]
    BY <2>1 DEF Untouched
  <2>3. TokAt(p) = Toks(flushed[w][t])
    BY <2>1, CellFacts
  <2>4. TokAt(p)' = Toks(flushed'[w][t])
    BY <2>1, CellFactsNext
  <2> QED BY <2>2, <2>3, <2>4
<1>3. CASE \E w \in Writers, t \in Topics : p = <<"queue", w, t>>
  <2>1. PICK w \in Writers, t \in Topics : p = <<"queue", w, t>>
    BY <1>3
  <2>2. queue'[w][t] = queue[w][t]
    BY <2>1 DEF Untouched
  <2>3. TokAt(p) = Toks(queue[w][t])
    BY <2>1, CellFacts
  <2>4. TokAt(p)' = Toks(queue'[w][t])
    BY <2>1, CellFactsNext
  <2> QED BY <2>2, <2>3, <2>4
<1>4. CASE \E w \in Writers, t \in Topics : p = <<"builder", w, t>>
  <2>1. PICK w \in Writers, t \in Topics : p = <<"builder", w, t>>
    BY <1>4
  <2>2. builder'[w][t].rows = builder[w][t].rows
    BY <2>1 DEF Untouched
  <2>3. TokAt(p) = RowTok(builder[w][t].rows)
    BY <2>1, CellFacts
  <2>4. TokAt(p)' = RowTok(builder'[w][t].rows)
    BY <2>1, CellFactsNext
  <2> QED BY <2>2, <2>3, <2>4
<1>5. CASE \E e \in Engines, t \in Topics : p = <<"sealed", e, t>>
  BY <1>5, CellFacts, CellFactsNext DEF Untouched
<1>6. CASE p \in {<<"rejected">>, <<"evicted">>}
  BY <1>6, CellFacts, CellFactsNext DEF Untouched
<1> QED BY <1>1, <1>2, <1>3, <1>4, <1>5, <1>6, CellCases

(* Single, place by place.                                                 *)
LEMMA SingleParts ==
    Single <=> /\ \A w \in Writers, t \in Topics :
                    /\ OneEach(pending[w][t]) /\ OneEach(flushed[w][t]) /\ OneEach(queue[w][t])
                    /\ RowsDistinct(builder[w][t].rows)
               /\ \A e \in Engines, t \in Topics : OneEach(sealed[e][t])
<1>1. ASSUME Single
      PROVE  /\ \A w \in Writers, t \in Topics :
                    /\ OneEach(pending[w][t]) /\ OneEach(flushed[w][t]) /\ OneEach(queue[w][t])
                    /\ RowsDistinct(builder[w][t].rows)
             /\ \A e \in Engines, t \in Topics : OneEach(sealed[e][t])
  <2>1. ASSUME NEW w \in Writers, NEW t \in Topics
        PROVE  /\ OneEach(pending[w][t]) /\ OneEach(flushed[w][t]) /\ OneEach(queue[w][t])
               /\ RowsDistinct(builder[w][t].rows)
    BY <1>1, PlaceFacts, Zenon DEF Single
  <2>2. ASSUME NEW e \in Engines, NEW t \in Topics PROVE OneEach(sealed[e][t])
    BY <1>1, PlaceFacts, Zenon DEF Single
  <2> QED BY <2>1, <2>2
<1>2. ASSUME \A w \in Writers, t \in Topics :
                 /\ OneEach(pending[w][t]) /\ OneEach(flushed[w][t]) /\ OneEach(queue[w][t])
                 /\ RowsDistinct(builder[w][t].rows),
             \A e \in Engines, t \in Topics : OneEach(sealed[e][t])
      PROVE  Single
  <2>1. ASSUME NEW p \in Places PROVE OneEach(ChunksAt(p))
    <3>1. CASE \E w \in Writers, t \in Topics : p = <<"pending", w, t>>
      <4>1. PICK w \in Writers, t \in Topics : p = <<"pending", w, t>>
        BY <3>1
      <4> QED BY <1>2, <4>1, PlaceFacts, Zenon
    <3>2. CASE \E w \in Writers, t \in Topics : p = <<"flushed", w, t>>
      <4>1. PICK w \in Writers, t \in Topics : p = <<"flushed", w, t>>
        BY <3>2
      <4> QED BY <1>2, <4>1, PlaceFacts, Zenon
    <3>3. CASE \E w \in Writers, t \in Topics : p = <<"queue", w, t>>
      <4>1. PICK w \in Writers, t \in Topics : p = <<"queue", w, t>>
        BY <3>3
      <4> QED BY <1>2, <4>1, PlaceFacts, Zenon
    <3>4. CASE \E e \in Engines, t \in Topics : p = <<"sealed", e, t>>
      BY <1>2, <3>4, PlaceFacts
    <3> QED BY <3>1, <3>2, <3>3, <3>4, PlaceCases
  <2> QED BY <1>2, <2>1 DEF Single
<1> QED BY <1>1, <1>2

(* The same after a step.                                                  *)
LEMMA SinglePartsNext ==
    ASSUME \A w \in Writers, t \in Topics :
              /\ OneEach(pending'[w][t]) /\ OneEach(flushed'[w][t]) /\ OneEach(queue'[w][t])
              /\ RowsDistinct(builder'[w][t].rows),
           \A e \in Engines, t \in Topics : OneEach(sealed'[e][t])
    PROVE  Single'
<1>1. Single' <=> (/\ \A w \in Writers, t \in Topics :
                    /\ OneEach(pending[w][t]) /\ OneEach(flushed[w][t]) /\ OneEach(queue[w][t])
                    /\ RowsDistinct(builder[w][t].rows)
               /\ \A e \in Engines, t \in Topics : OneEach(sealed[e][t]))'
  BY SingleParts, PTL
<1> QED BY <1>1

(* Tokens move into one cell b.                                            *)
LEMMA Sink ==
    ASSUME Apart, NEW b \in Cells, NEW X,
           \A p \in Cells \ {b} : TokAt(p)' \subseteq TokAt(p) /\ TokAt(p)' \cap X = {},
           TokAt(b)' \subseteq TokAt(b) \cup X
    PROVE  Apart'
<1> SUFFICES ASSUME NEW p \in Cells, NEW q \in Cells, p # q, NEW x \in TokAt(p)', x \in TokAt(q)'
             PROVE  FALSE
  BY DEF Apart
<1>1. CASE p = b
  BY <1>1 DEF Apart
<1>2. CASE q = b
  BY <1>2 DEF Apart
<1>3. CASE p # b /\ q # b
  BY <1>3 DEF Apart
<1> QED BY <1>1, <1>2, <1>3

(* No row gets lost.                                                       *)
LEMMA KeptStep ==
    ASSUME AllKept, accepted \in Nat, accepted' \in Nat,
           \A n \in 1 .. accepted' : n \in 1 .. accepted \/ \E p \in Cells : <<"row", n>> \in TokAt(p)',
           \A p \in Cells, n \in 1 .. accepted : <<"row", n>> \in TokAt(p) =>
               \E q \in Cells : <<"row", n>> \in TokAt(q)'
    PROVE  AllKept'
BY DEF AllKept

-----------------------------------------------------------------------------
(* Steps of a builder. *)

(* A token is the id of a chunk or the number of a row.                    *)
LEMMA TokForms ==
    ASSUME NEW c, NEW n
    PROVE  /\ <<"chunk", n>> \in Tok(c) <=> n = c.id
           /\ <<"row", n>> \in Tok(c) <=> <<"row", n>> \in RowTok(c.rows)
           /\ <<"chunk", n>> \notin RowTok(c.rows)
<1>1. <<"chunk", n>> \notin RowTok(c.rows)
  BY DEF RowTok
<1>2. <<"chunk", n>> \in {<<"chunk", c.id>>} <=> n = c.id
  OBVIOUS
<1>3. <<"row", n>> \notin {<<"chunk", c.id>>}
  OBVIOUS
<1> QED BY <1>1, <1>2, <1>3 DEF Tok

(* seal moves the rows of the builder into the chunk as they are.          *)
LEMMA SealToks ==
    ASSUME NEW b
    PROVE  Tok(seal(b)) = {<<"chunk", nextChunk>>} \cup RowTok(b.rows) /\ seal(b).rows = b.rows
BY DEF Tok, seal

(* A chunk pushed behind a run of chunks.                                  *)
LEMMA ToksAppend ==
    ASSUME NEW s \in Seq(Chunk), NEW c \in Chunk
    PROVE  /\ Append(s, c) \in Seq(Chunk) /\ Toks(Append(s, c)) = Toks(s) \cup Tok(c)
           /\ OneEach(s) /\ RowsDistinct(c.rows) /\ Toks(s) \cap Tok(c) = {} => OneEach(Append(s, c))
<1>1. Append(s, c) \in Seq(Chunk) /\ <<c>> \in Seq(Chunk)
  OBVIOUS
<1>2. Append(s, c) = s \o <<c>>
  BY AppendIsConcat
<1>3. Toks(<<c>>) = Tok(c) /\ (RowsDistinct(c.rows) => OneEach(<<c>>))
  BY ToksOne
<1>4. /\ Toks(s \o <<c>>) = Toks(s) \cup Toks(<<c>>)
      /\ OneEach(s) /\ OneEach(<<c>>) /\ Toks(s) \cap Toks(<<c>>) = {} => OneEach(s \o <<c>>)
  BY <1>1, ToksConcat
<1> QED BY <1>1, <1>2, <1>3, <1>4

(* A step that moves no row.                                               *)
LEMMA QuietStep ==
    ASSUME TraceInv, TypeOK', BuilderRoom', Untouched({}), nextChunk' = nextChunk,
           accepted' = accepted, PlanApart'
    PROVE  TraceInv'
<1>1. \A p \in Cells : TokAt(p)' = TokAt(p)
  BY Frame
<1>2. Apart'
  BY <1>1 DEF TraceInv, Apart
<1>3. Numbered'
  BY <1>1 DEF TraceInv, Numbered
<1>4. AllKept'
  BY <1>1 DEF TraceInv, AllKept
<1>5. Single'
  <2>1. /\ \A w \in Writers, t \in Topics :
           /\ OneEach(pending[w][t]) /\ OneEach(flushed[w][t]) /\ OneEach(queue[w][t])
           /\ RowsDistinct(builder[w][t].rows)
        /\ \A e \in Engines, t \in Topics : OneEach(sealed[e][t])
    BY SingleParts DEF TraceInv
  <2>2. \A w \in Writers, t \in Topics :
           /\ OneEach(pending'[w][t]) /\ OneEach(flushed'[w][t]) /\ OneEach(queue'[w][t])
           /\ RowsDistinct(builder'[w][t].rows)
    BY <2>1 DEF Untouched
  <2>3. \A e \in Engines, t \in Topics : OneEach(sealed'[e][t])
    BY <2>1 DEF Untouched
  <2> QED BY <2>2, <2>3, SinglePartsNext
<1> QED BY <1>2, <1>3, <1>4, <1>5 DEF TraceInv

(* Rows are added to a builder, which is sealed when it is full.           *)
LEMMA GrowStep ==
    ASSUME TraceInv, TypeOK', BuilderRoom', NEW w \in Writers, NEW t \in Topics,
           NEW b \in Builder, NEW k \in Nat, autoSeal(w, t, b), accepted' = accepted + k,
           UNCHANGED <<flushed, sealed, queue, plan, rejected, evicted>>,
           RowTok(b.rows) = RowTok(builder[w][t].rows)
                            \cup {<<"row", n>> : n \in accepted + 1 .. accepted + k},
           RowsDistinct(b.rows)
    PROVE  TraceInv'
<1> DEFINE in == <<"builder", w, t>>
           out == <<"pending", w, t>>
           new == {<<"row", n>> : n \in accepted + 1 .. accepted + k}
<1>0. /\ TypeOK /\ Apart /\ Single /\ Numbered /\ AllKept /\ PlanApart /\ accepted \in Nat
      /\ nextChunk \in Nat /\ pending[w][t] \in Seq(Chunk)
  BY DEF TraceInv, TypeOK
<1>1. /\ in \in Cells /\ out \in Cells /\ in # out
      /\ TokAt(in) = RowTok(builder[w][t].rows) /\ TokAt(out) = Toks(pending[w][t])
  BY CellFacts
<1>2. /\ \A x \in Writers, y \in Topics :
            builder'[x][y] = IF x = w /\ y = t THEN IF isFull(b) THEN NewBuilder ELSE b
                             ELSE builder[x][y]
      /\ \A x \in Writers, y \in Topics :
            pending'[x][y] = IF x = w /\ y = t /\ isFull(b)
                             THEN Append(pending[w][t], seal(b)) ELSE pending[x][y]
      /\ seal(b) \in Chunk
  BY <1>0, AutoSealEffect
<1>3. Untouched({in, out})
  <2>1. ASSUME NEW x \in Writers, NEW y \in Topics
        PROVE  /\ <<"pending", x, y>> \notin {in, out} => pending'[x][y] = pending[x][y]
               /\ <<"flushed", x, y>> \notin {in, out} => flushed'[x][y] = flushed[x][y]
               /\ <<"queue", x, y>> \notin {in, out} => queue'[x][y] = queue[x][y]
               /\ <<"builder", x, y>> \notin {in, out} => builder'[x][y].rows = builder[x][y].rows
    BY <1>2
  <2> QED BY <2>1 DEF Untouched
<1>4. \A p \in Cells \ {in, out} : TokAt(p)' = TokAt(p)
  BY <1>3, Frame
<1>5. \A p \in Cells : new \cap TokAt(p) = {} /\ <<"chunk", nextChunk>> \notin TokAt(p)
  <2> SUFFICES ASSUME NEW p \in Cells
               PROVE  new \cap TokAt(p) = {} /\ <<"chunk", nextChunk>> \notin TokAt(p)
    OBVIOUS
  <2>1. <<"chunk", nextChunk>> \notin TokAt(p)
    <3>1. <<"chunk", nextChunk>> \in TokAt(p) => nextChunk < nextChunk
      BY <1>0, Zenon DEF Numbered
    <3> QED BY <1>0, <3>1
  <2>2. ASSUME NEW n \in accepted + 1 .. accepted + k PROVE <<"row", n>> \notin TokAt(p)
    <3>1. n \in Nat /\ ~(n \in 1 .. accepted)
      BY <1>0
    <3> QED BY <1>0, <3>1 DEF Numbered
  <2> QED BY <2>1, <2>2
<1>6. Toks(Append(pending[w][t], seal(b))) = Toks(pending[w][t]) \cup Tok(seal(b))
  BY <1>0, <1>2, ToksAppend
<1>7. /\ isFull(b) => /\ TokAt(in)' = {}
                      /\ TokAt(out)' = TokAt(out) \cup {<<"chunk", nextChunk>>} \cup TokAt(in) \cup new
      /\ ~isFull(b) => TokAt(in)' = TokAt(in) \cup new /\ TokAt(out)' = TokAt(out)
  <2>1. TokAt(in)' = RowTok(builder'[w][t].rows) /\ TokAt(out)' = Toks(pending'[w][t])
    BY CellFactsNext
  <2>2. RowTok(NewBuilder.rows) = {}
    BY DEF RowTok, NewBuilder
  <2>3. CASE isFull(b)
    <3>1. builder'[w][t] = NewBuilder /\ pending'[w][t] = Append(pending[w][t], seal(b))
      BY <1>2, <2>3
    <3> QED BY <1>1, <1>6, <2>1, <2>2, <2>3, <3>1, SealToks, SMTT(30)
  <2>4. CASE ~isFull(b)
    <3>1. builder'[w][t] = b /\ pending'[w][t] = pending[w][t]
      BY <1>2, <2>4
    <3> QED BY <1>1, <2>1, <2>4, <3>1
  <2> QED BY <2>3, <2>4
<1>8. nextChunk' = IF isFull(b) THEN nextChunk + 1 ELSE nextChunk
  BY DEF autoSeal
<1> HIDE DEF in, out, new
<1>9. Apart'
  <2>1. CASE isFull(b)
    <3> DEFINE X == {<<"chunk", nextChunk>>} \cup TokAt(in) \cup new
    <3>1. ASSUME NEW p \in Cells \ {out}
          PROVE  TokAt(p)' \subseteq TokAt(p) /\ TokAt(p)' \cap X = {}
      <4>1. CASE p = in
        BY <1>7, <2>1, <4>1
      <4>2. CASE p # in
        <5>1. TokAt(p)' = TokAt(p) /\ TokAt(p) \cap TokAt(in) = {}
          BY <1>0, <1>1, <1>4, <4>2 DEF Apart
        <5> QED BY <1>5, <5>1
      <4> QED BY <4>1, <4>2
    <3>2. TokAt(out)' \subseteq TokAt(out) \cup X
      BY <1>7, <2>1
    <3> HIDE DEF X
    <3> QED BY <1>0, <1>1, <3>1, <3>2, Sink
  <2>2. CASE ~isFull(b)
    <3>1. \A p \in Cells \ {in} : TokAt(p)' \subseteq TokAt(p) /\ TokAt(p)' \cap new = {}
      BY <1>1, <1>4, <1>5, <1>7, <2>2
    <3>2. TokAt(in)' \subseteq TokAt(in) \cup new
      BY <1>7, <2>2
    <3> QED BY <1>0, <1>1, <3>1, <3>2, Sink
  <2> QED BY <2>1, <2>2
<1>10. Numbered'
  <2> SUFFICES ASSUME NEW p \in Cells, NEW n \in Nat
               PROVE  /\ <<"chunk", n>> \in TokAt(p)' => n < nextChunk'
                      /\ <<"row", n>> \in TokAt(p)' => n \in 1 .. accepted'
    BY DEF Numbered
  <2>1. /\ <<"chunk", n>> \in new => FALSE
        /\ <<"row", n>> \in new => n \in accepted + 1 .. accepted + k
        /\ <<"row", n>> \notin {<<"chunk", nextChunk>>}
        /\ <<"chunk", n>> \in {<<"chunk", nextChunk>>} => n = nextChunk
    BY DEF new
  <2>2. TokAt(p)' \subseteq TokAt(p) \cup TokAt(in) \cup new
                            \cup (IF isFull(b) THEN {<<"chunk", nextChunk>>} ELSE {})
    BY <1>4, <1>7
  <2>3. ASSUME <<"chunk", n>> \in TokAt(p)' PROVE n < nextChunk'
    <3>1. \/ <<"chunk", n>> \in TokAt(p) \/ <<"chunk", n>> \in TokAt(in)
          \/ isFull(b) /\ n = nextChunk
      BY <2>1, <2>2, <2>3
    <3>2. n < nextChunk \/ (isFull(b) /\ n = nextChunk)
      <4>1. \A q \in Cells : <<"chunk", n>> \in TokAt(q) => n < nextChunk
        BY <1>0 DEF Numbered
      <4> QED BY <1>1, <3>1, <4>1
    <3> QED BY <1>0, <1>8, <3>2
  <2>4. ASSUME <<"row", n>> \in TokAt(p)' PROVE n \in 1 .. accepted'
    <3>1. \/ <<"row", n>> \in TokAt(p) \/ <<"row", n>> \in TokAt(in)
          \/ n \in accepted + 1 .. accepted + k
      BY <2>1, <2>2, <2>4
    <3>2. n \in 1 .. accepted \/ n \in accepted + 1 .. accepted + k
      BY <1>0, <1>1, <3>1 DEF Numbered
    <3> QED BY <1>0, <3>2
  <2> QED BY <2>3, <2>4
<1>11. AllKept'
  <2>1. ASSUME NEW n \in 1 .. accepted', n \notin 1 .. accepted
        PROVE  \E p \in Cells : <<"row", n>> \in TokAt(p)'
    <3>1. n \in accepted + 1 .. accepted + k
      BY <1>0, <2>1
    <3>2. <<"row", n>> \in new
      BY <3>1 DEF new
    <3> QED BY <1>1, <1>7, <3>2
  <2>2. ASSUME NEW p \in Cells, NEW n \in 1 .. accepted, <<"row", n>> \in TokAt(p)
        PROVE  \E q \in Cells : <<"row", n>> \in TokAt(q)'
    BY <1>1, <1>4, <1>7, <2>2
  <2>3. accepted' \in Nat
    BY <1>0
  <2> QED BY <1>0, <2>1, <2>2, <2>3, KeptStep
<1>12. Single'
  <2>0. /\ \A x \in Writers, y \in Topics :
            /\ OneEach(pending[x][y]) /\ OneEach(flushed[x][y]) /\ OneEach(queue[x][y])
            /\ RowsDistinct(builder[x][y].rows)
        /\ \A e \in Engines, y \in Topics : OneEach(sealed[e][y])
    BY <1>0, SingleParts
  <2>1. RowsDistinct(NewBuilder.rows)
    BY DEF RowsDistinct, NewBuilder
  <2>2. OneEach(Append(pending[w][t], seal(b)))
    <3>1. RowsDistinct(seal(b).rows)
      BY SealToks
    <3>3. Toks(pending[w][t]) \cap Tok(seal(b)) = {}
      <4>1. Tok(seal(b)) = {<<"chunk", nextChunk>>} \cup TokAt(in) \cup new
        BY <1>1, SealToks DEF new
      <4>2. TokAt(out) \cap TokAt(in) = {}
        BY <1>0, <1>1 DEF Apart
      <4> QED BY <1>1, <1>5, <4>1, <4>2
    <3> QED BY <1>0, <1>2, <2>0, <3>1, <3>3, ToksAppend
  <2>3. ASSUME NEW x \in Writers, NEW y \in Topics
        PROVE  /\ OneEach(pending'[x][y]) /\ OneEach(flushed'[x][y]) /\ OneEach(queue'[x][y])
               /\ RowsDistinct(builder'[x][y].rows)
    <3>1. OneEach(pending'[x][y])
      BY <1>2, <2>0, <2>2
    <3>2. RowsDistinct(builder'[x][y].rows)
      BY <1>2, <2>0, <2>1
    <3> QED BY <2>0, <3>1, <3>2
  <2>4. \A e \in Engines, y \in Topics : OneEach(sealed'[e][y])
    BY <2>0
  <2> QED BY <2>3, <2>4, SinglePartsNext
<1>13. PlanApart'
  BY <1>0 DEF PlanApart
<1> QED BY <1>9, <1>10, <1>11, <1>12, <1>13 DEF TraceInv

-----------------------------------------------------------------------------
(* Flushing. *)

(* The chunk a flush seals of the builder of topic t, under the id n.      *)
Sealed(w, t, n) ==
    IF builder[w][t].rows # <<>> THEN <<[seal(builder[w][t]) EXCEPT !.id = n]>> ELSE <<>>

Fresh(w, t, n) == IF builder[w][t].rows # <<>> THEN {<<"chunk", n>>} ELSE {}

(* The chunk a flush seals holds the rows of the builder and an id of its  *)
(* own.                                                                    *)
LEMMA SealedFacts ==
    ASSUME TypeOK, NEW w \in Writers, NEW t \in Topics, NEW n \in Nat
    PROVE  /\ Sealed(w, t, n) \in Seq(Chunk)
           /\ Toks(Sealed(w, t, n)) = Fresh(w, t, n) \cup RowTok(builder[w][t].rows)
           /\ RowsDistinct(builder[w][t].rows) => OneEach(Sealed(w, t, n))
<1> DEFINE b == builder[w][t]
           c == [seal(b) EXCEPT !.id = n]
<1>1. b \in Builder
  BY DEF TypeOK
<1>2. c \in Chunk /\ c.id = n /\ c.rows = b.rows
  <2>1. seal(b) \in Chunk /\ seal(b).rows = b.rows
    BY <1>1 DEF TypeOK, seal, Chunk, Builder
  <2> QED BY <2>1 DEF Chunk
<1>3. CASE b.rows = <<>>
  <2>1. Sealed(w, t, n) = <<>> /\ Fresh(w, t, n) = {} /\ RowTok(b.rows) = {}
    BY <1>3 DEF Sealed, Fresh, RowTok
  <2> QED BY <2>1, ToksNone
<1>4. CASE b.rows # <<>>
  <2>1. Sealed(w, t, n) = <<c>> /\ Fresh(w, t, n) = {<<"chunk", n>>}
    BY <1>4 DEF Sealed, Fresh
  <2>2. Toks(<<c>>) = Tok(c) /\ (RowsDistinct(c.rows) => OneEach(<<c>>))
    BY ToksOne
  <2>3. Tok(c) = {<<"chunk", n>>} \cup RowTok(b.rows)
    BY <1>2 DEF Tok
  <2> HIDE DEF c
  <2> QED BY <1>2, <2>1, <2>2, <2>3
<1> QED BY <1>3, <1>4

(* flush and flushAll: the pending chunks and the sealed builder of the    *)
(* topics T go to the caller, under the chunk ids num.                     *)
Flushes(w, T, num) ==
    /\ \A t \in T : builder[w][t].rows # <<>> => nextChunk <= num[t] /\ num[t] < nextChunk'
    /\ \A s, t \in T : builder[w][s].rows # <<>> /\ builder[w][t].rows # <<>>
                           /\ num[s] = num[t] => s = t
    /\ nextChunk <= nextChunk' /\ accepted' = accepted
    /\ UNCHANGED <<sealed, queue, plan, rejected, evicted>>
    /\ \A t \in T : flushed[w][t] = <<>>
    /\ \A x \in Writers, t \in Topics :
          IF x = w /\ t \in T
          THEN /\ flushed'[x][t] = pending[w][t] \o Sealed(w, t, num[t])
               /\ pending'[x][t] = <<>> /\ builder'[x][t].rows = <<>>
          ELSE /\ flushed'[x][t] = flushed[x][t] /\ pending'[x][t] = pending[x][t]
               /\ builder'[x][t] = builder[x][t]

(* A flush, of one topic or of all, keeps the invariant when the chunk ids *)
(* it gives are new and different.                                         *)
LEMMA FlushStep ==
    ASSUME TraceInv, TypeOK', BuilderRoom', NEW w \in Writers, NEW T \in SUBSET Topics,
           NEW num \in [Topics -> Nat], Flushes(w, T, num)
    PROVE  TraceInv'
<1> USE DEF Flushes
<1> DEFINE B(t) == <<"builder", w, t>>
           P(t) == <<"pending", w, t>>
           F(t) == <<"flushed", w, t>>
           D == {B(t) : t \in T} \cup {P(t) : t \in T} \cup {F(t) : t \in T}
<1>0. /\ TypeOK /\ Apart /\ Single /\ Numbered /\ AllKept /\ PlanApart /\ accepted \in Nat
      /\ nextChunk \in Nat /\ nextChunk' \in Nat
  BY DEF TraceInv, TypeOK
<1>1. Untouched(D)
  <2>1. ASSUME NEW x \in Writers, NEW y \in Topics
        PROVE  /\ <<"pending", x, y>> \notin D => pending'[x][y] = pending[x][y]
               /\ <<"flushed", x, y>> \notin D => flushed'[x][y] = flushed[x][y]
               /\ <<"queue", x, y>> \notin D => queue'[x][y] = queue[x][y]
               /\ <<"builder", x, y>> \notin D => builder'[x][y].rows = builder[x][y].rows
    <3>1. CASE x = w /\ y \in T
      BY <3>1
    <3>2. CASE ~(x = w /\ y \in T)
      BY <3>2
    <3> QED BY <3>1, <3>2
  <2> QED BY <2>1 DEF Untouched
<1>2. ASSUME NEW p \in Cells, p \notin D PROVE TokAt(p)' = TokAt(p)
  BY <1>1, <1>2, Frame
<1>3. ASSUME NEW t \in T
      PROVE  /\ B(t) \in Cells /\ P(t) \in Cells /\ F(t) \in Cells
             /\ TokAt(B(t))' = {} /\ TokAt(P(t))' = {}
             /\ TokAt(F(t))' = TokAt(P(t)) \cup TokAt(B(t)) \cup Fresh(w, t, num[t])
             /\ OneEach(flushed'[w][t])
  <2>0. t \in Topics
    OBVIOUS
  <2>1. /\ B(t) \in Cells /\ P(t) \in Cells /\ F(t) \in Cells
        /\ TokAt(B(t)) = RowTok(builder[w][t].rows) /\ TokAt(P(t)) = Toks(pending[w][t])
    BY <2>0, CellFacts
  <2>2. /\ TokAt(B(t))' = RowTok(builder'[w][t].rows) /\ TokAt(P(t))' = Toks(pending'[w][t])
        /\ TokAt(F(t))' = Toks(flushed'[w][t])
    BY <2>0, CellFactsNext
  <2>3. /\ flushed'[w][t] = pending[w][t] \o Sealed(w, t, num[t])
        /\ pending'[w][t] = <<>> /\ builder'[w][t].rows = <<>>
    BY <2>0
  <2>4. RowTok(<<>>) = {} /\ Toks(<<>>) = {}
    BY ToksNone DEF RowTok
  <2>5. num[t] \in Nat /\ pending[w][t] \in Seq(Chunk)
    BY <1>0, <2>0 DEF TypeOK
  <2>6. /\ Sealed(w, t, num[t]) \in Seq(Chunk)
        /\ Toks(Sealed(w, t, num[t])) = Fresh(w, t, num[t]) \cup RowTok(builder[w][t].rows)
        /\ RowsDistinct(builder[w][t].rows) => OneEach(Sealed(w, t, num[t]))
    BY <1>0, <2>0, <2>5, SealedFacts
  <2>7. OneEach(pending[w][t]) /\ RowsDistinct(builder[w][t].rows)
    BY <1>0, <2>0, SingleParts
  <2>8. Toks(pending[w][t]) \cap Toks(Sealed(w, t, num[t])) = {}
    <3>1. TokAt(P(t)) \cap TokAt(B(t)) = {}
      <4>1. P(t) # B(t)
        OBVIOUS
      <4> QED BY <1>0, <2>1, <4>1 DEF Apart
    <3>2. ASSUME builder[w][t].rows # <<>> PROVE <<"chunk", num[t]>> \notin TokAt(P(t))
      <4>1. <<"chunk", num[t]>> \in TokAt(P(t)) => num[t] < nextChunk
        BY <1>0, <2>1, <2>5 DEF Numbered
      <4>2. nextChunk <= num[t]
        BY <3>2
      <4> QED BY <1>0, <2>5, <4>1, <4>2
    <3> QED BY <2>1, <2>6, <3>1, <3>2, ZenonT(30) DEF Fresh
  <2>9. OneEach(flushed'[w][t])
    BY <2>3, <2>5, <2>6, <2>7, <2>8, ToksConcat
  <2>10. Toks(flushed'[w][t]) = Toks(pending[w][t]) \cup Toks(Sealed(w, t, num[t]))
    BY <2>3, <2>5, <2>6, ToksConcat
  <2> QED BY <2>1, <2>2, <2>3, <2>4, <2>6, <2>9, <2>10, ZenonT(30)
<1>4. /\ \A s, t : B(s) # P(t) /\ B(s) # F(t) /\ P(s) # F(t)
      /\ \A s, t : s # t => B(s) # B(t) /\ P(s) # P(t) /\ F(s) # F(t)
  OBVIOUS
<1>5. ASSUME NEW t \in T, NEW x \in Fresh(w, t, num[t])
      PROVE  /\ x = <<"chunk", num[t]>> /\ builder[w][t].rows # <<>>
             /\ num[t] \in Nat /\ num[t] < nextChunk'
             /\ \A p \in Cells : x \notin TokAt(p)
  <2>1. x = <<"chunk", num[t]>> /\ builder[w][t].rows # <<>> /\ num[t] \in Nat
    BY <1>5 DEF Fresh
  <2>2. nextChunk <= num[t] /\ num[t] < nextChunk'
    BY <2>1
  <2>3. ASSUME NEW p \in Cells PROVE x \notin TokAt(p)
    <3>1. <<"chunk", num[t]>> \in TokAt(p) => num[t] < nextChunk
      BY <1>0, <2>1 DEF Numbered
    <3> QED BY <1>0, <2>1, <2>2, <3>1
  <2> QED BY <2>1, <2>2, <2>3
<1>6. ASSUME NEW p \in Cells, NEW x \in TokAt(p)'
      PROVE  \/ p \notin D /\ x \in TokAt(p)
             \/ \E t \in T : p = F(t) /\ (x \in TokAt(P(t)) \/ x \in TokAt(B(t)) \/ x \in Fresh(w, t, num[t]))
  <2>1. CASE p \notin D
    BY <1>2, <1>6, <2>1
  <2>2. CASE p \in D
    <3>1. PICK t \in T : p \in {B(t), P(t), F(t)}
      BY <2>2
    <3> HIDE DEF B, P, F
    <3> QED BY <1>3, <1>6, <3>1
  <2> QED BY <2>1, <2>2
<1>7. \A t \in T : B(t) \in D /\ P(t) \in D /\ F(t) \in D
  OBVIOUS
<1> HIDE DEF B, P, F, D
<1>8. Apart'
  <2> SUFFICES ASSUME NEW p \in Cells, NEW q \in Cells, p # q, NEW x \in TokAt(p)', x \in TokAt(q)'
               PROVE  FALSE
    BY DEF Apart
  <2>1. CASE p \notin D /\ x \in TokAt(p) /\ q \notin D /\ x \in TokAt(q)
    BY <1>0, <2>1 DEF Apart
  <2>2. ASSUME NEW u \in Cells, u \notin D, x \in TokAt(u), NEW t \in T,
               x \in TokAt(P(t)) \/ x \in TokAt(B(t)) \/ x \in Fresh(w, t, num[t])
        PROVE  FALSE
    <3>1. P(t) \in Cells /\ B(t) \in Cells /\ u # P(t) /\ u # B(t)
      BY <1>3, <1>7, <2>2
    <3> QED BY <1>0, <1>5, <2>2, <3>1 DEF Apart
  <2>3. ASSUME NEW s \in T, NEW t \in T, p = F(s), q = F(t),
               x \in TokAt(P(s)) \/ x \in TokAt(B(s)) \/ x \in Fresh(w, s, num[s]),
               x \in TokAt(P(t)) \/ x \in TokAt(B(t)) \/ x \in Fresh(w, t, num[t])
        PROVE  FALSE
    <3>1. s # t
      BY <2>3
    <3>2. /\ P(s) \in Cells /\ B(s) \in Cells /\ P(t) \in Cells /\ B(t) \in Cells
          /\ P(s) # P(t) /\ B(s) # B(t) /\ P(s) # B(t) /\ B(s) # P(t)
      BY <1>3, <1>4, <3>1
    <3>3. CASE x \in Fresh(w, s, num[s])
      <4>1. x \in Fresh(w, t, num[t])
        BY <1>5, <2>3, <3>2, <3>3
      <4>2. <<"chunk", num[s]>> = <<"chunk", num[t]>> /\ builder[w][s].rows # <<>> /\ builder[w][t].rows # <<>>
        BY <1>5, <3>3, <4>1
      <4>3. num[s] = num[t]
        BY <4>2
      <4> QED BY <3>1, <4>2, <4>3
    <3>4. CASE x \notin Fresh(w, s, num[s])
      <4>1. x \notin Fresh(w, t, num[t])
        BY <1>5, <2>3, <3>2, <3>4
      <4> QED BY <1>0, <2>3, <3>2, <3>4, <4>1 DEF Apart
    <3> QED BY <3>3, <3>4
  <2> QED BY <1>6, <2>1, <2>2, <2>3
<1>9. Numbered'
  <2> SUFFICES ASSUME NEW p \in Cells, NEW n \in Nat
               PROVE  /\ <<"chunk", n>> \in TokAt(p)' => n < nextChunk'
                      /\ <<"row", n>> \in TokAt(p)' => n \in 1 .. accepted'
    BY DEF Numbered
  <2>0. \A q \in Cells : /\ <<"chunk", n>> \in TokAt(q) => n < nextChunk'
                         /\ <<"row", n>> \in TokAt(q) => n \in 1 .. accepted'
    <3>1. \A q \in Cells : /\ <<"chunk", n>> \in TokAt(q) => n < nextChunk
                           /\ <<"row", n>> \in TokAt(q) => n \in 1 .. accepted
      BY <1>0 DEF Numbered
    <3>2. n < nextChunk => n < nextChunk'
      BY <1>0
    <3> QED BY <3>1, <3>2
  <2>1. ASSUME NEW t \in T, <<"chunk", n>> \in Fresh(w, t, num[t]) PROVE n < nextChunk'
    <3>1. <<"chunk", n>> = <<"chunk", num[t]>> /\ num[t] < nextChunk'
      BY <1>5, <2>1
    <3>2. n = num[t]
      BY <3>1
    <3> QED BY <3>1, <3>2
  <2>2. ASSUME NEW t \in T, <<"row", n>> \in Fresh(w, t, num[t]) PROVE FALSE
    <3>1. <<"row", n>> = <<"chunk", num[t]>>
      BY <1>5, <2>2
    <3> QED BY <3>1
  <2> QED BY <1>3, <1>6, <2>0, <2>1, <2>2
<1>10. AllKept'
  <2>2. ASSUME NEW p \in Cells, NEW n \in 1 .. accepted, <<"row", n>> \in TokAt(p)
        PROVE  \E q \in Cells : <<"row", n>> \in TokAt(q)'
    <3>1. CASE p \notin D
      BY <1>2, <2>2, <3>1
    <3>2. CASE p \in D
      <4>1. PICK t \in T : p \in {B(t), P(t), F(t)}
        BY <3>2 DEF D
      <4>2. p # F(t)
        <5>1. TokAt(F(t)) = Toks(<<>>)
          <6>1. TokAt(F(t)) = Toks(flushed[w][t]) /\ flushed[w][t] = <<>>
            BY CellFacts DEF F
          <6> QED BY <6>1
        <5> QED BY <2>2, <5>1, ToksNone
      <4> QED BY <1>3, <2>2, <4>1, <4>2
    <3> QED BY <3>1, <3>2
  <2> QED BY <1>0, <2>2, KeptStep
<1>11. Single'
  <2>0. /\ \A x \in Writers, y \in Topics :
            /\ OneEach(pending[x][y]) /\ OneEach(flushed[x][y]) /\ OneEach(queue[x][y])
            /\ RowsDistinct(builder[x][y].rows)
        /\ \A e \in Engines, y \in Topics : OneEach(sealed[e][y])
    BY <1>0, SingleParts
  <2>1. RowsDistinct(<<>>) /\ OneEach(<<>>)
    BY ToksNone DEF RowsDistinct
  <2>3. ASSUME NEW x \in Writers, NEW y \in Topics
        PROVE  /\ OneEach(pending'[x][y]) /\ OneEach(flushed'[x][y]) /\ OneEach(queue'[x][y])
               /\ RowsDistinct(builder'[x][y].rows)
    <3>1. CASE x = w /\ y \in T
      BY <1>3, <2>0, <2>1, <3>1
    <3>2. CASE ~(x = w /\ y \in T)
      BY <2>0, <3>2
    <3> QED BY <3>1, <3>2
  <2>4. \A e \in Engines, y \in Topics : OneEach(sealed'[e][y])
    BY <2>0
  <2> QED BY <2>3, <2>4, SinglePartsNext
<1>12. PlanApart'
  BY <1>0 DEF PlanApart
<1> QED BY <1>8, <1>9, <1>10, <1>11, <1>12 DEF TraceInv

-----------------------------------------------------------------------------
(* Committing. *)

(* The call of commitChunks: what a flush returned becomes the queue.      *)
LEMMA CommitStep ==
    ASSUME TraceInv, TypeOK', BuilderRoom', NEW w \in Writers, commitChunks(w)
    PROVE  TraceInv'
<1> DEFINE F(t) == <<"flushed", w, t>>
           Q(t) == <<"queue", w, t>>
           D == {F(t) : t \in Topics} \cup {Q(t) : t \in Topics}
<1>0. /\ TypeOK /\ Apart /\ Single /\ Numbered /\ AllKept /\ PlanApart /\ accepted \in Nat
  BY DEF TraceInv, TypeOK
<1>1. /\ UNCHANGED <<builder, pending, sealed, plan, nextChunk, accepted, rejected, evicted>>
      /\ \A t \in Topics : queue[w][t] = <<>>
      /\ \A x \in Writers, t \in Topics :
            IF x = w THEN queue'[x][t] = flushed[w][t] /\ flushed'[x][t] = <<>>
            ELSE queue'[x][t] = queue[x][t] /\ flushed'[x][t] = flushed[x][t]
  <2>1. \A t \in Topics : queue[w][t] = <<>>
    BY DEF commitChunks, Idle
  <2>2. /\ UNCHANGED <<builder, pending, sealed, plan, nextChunk, accepted, rejected, evicted>>
        /\ queue' = [queue EXCEPT ![w] = flushed[w]] /\ flushed' = [flushed EXCEPT ![w] = Empty]
    BY DEF commitChunks
  <2>3. /\ queue \in [Writers -> [Topics -> Seq(Chunk)]]
        /\ flushed \in [Writers -> [Topics -> Seq(Chunk)]]
    BY <1>0 DEF TypeOK
  <2>4. ASSUME NEW x \in Writers, NEW t \in Topics
        PROVE  IF x = w THEN queue'[x][t] = flushed[w][t] /\ flushed'[x][t] = <<>>
               ELSE queue'[x][t] = queue[x][t] /\ flushed'[x][t] = flushed[x][t]
    BY <2>2, <2>3 DEF Empty
  <2> QED BY <2>1, <2>2, <2>4
<1>2. Untouched(D)
  <2>1. ASSUME NEW x \in Writers, NEW y \in Topics
        PROVE  /\ <<"flushed", x, y>> \notin D => flushed'[x][y] = flushed[x][y]
               /\ <<"queue", x, y>> \notin D => queue'[x][y] = queue[x][y]
    <3>1. CASE x = w
      BY <3>1
    <3>2. CASE x # w
      BY <1>1, <3>2
    <3> QED BY <3>1, <3>2
  <2> HIDE DEF D
  <2> QED BY <1>1, <2>1 DEF Untouched
<1>3. ASSUME NEW p \in Cells, p \notin D PROVE TokAt(p)' = TokAt(p)
  BY <1>2, <1>3, Frame
<1>4. ASSUME NEW t \in Topics
      PROVE  /\ F(t) \in Cells /\ Q(t) \in Cells
             /\ TokAt(F(t))' = {} /\ TokAt(Q(t))' = TokAt(F(t)) /\ TokAt(Q(t)) = {}
  <2>1. /\ F(t) \in Cells /\ Q(t) \in Cells /\ TokAt(F(t)) = Toks(flushed[w][t])
        /\ TokAt(Q(t)) = Toks(queue[w][t])
    BY CellFacts
  <2>2. TokAt(F(t))' = Toks(flushed'[w][t]) /\ TokAt(Q(t))' = Toks(queue'[w][t])
    BY CellFactsNext
  <2>3. queue'[w][t] = flushed[w][t] /\ flushed'[w][t] = <<>> /\ queue[w][t] = <<>>
    BY <1>1
  <2> QED BY <2>1, <2>2, <2>3, ToksNone
<1>5. \A s, t : F(s) # Q(t) /\ (s # t => F(s) # F(t))
  OBVIOUS
<1>6. ASSUME NEW p \in Cells, NEW x \in TokAt(p)'
      PROVE  \/ p \notin D /\ x \in TokAt(p)
             \/ \E t \in Topics : p = Q(t) /\ x \in TokAt(F(t))
  <2>1. CASE p \notin D
    BY <1>3, <1>6, <2>1
  <2>2. CASE p \in D
    <3>1. PICK t \in Topics : p \in {F(t), Q(t)}
      BY <2>2
    <3> HIDE DEF F, Q
    <3> QED BY <1>4, <1>6, <3>1
  <2> QED BY <2>1, <2>2
<1>7. \A t \in Topics : F(t) \in D /\ Q(t) \in D
  OBVIOUS
<1> HIDE DEF F, Q, D
<1>8. Apart'
  <2> SUFFICES ASSUME NEW p \in Cells, NEW q \in Cells, p # q, NEW x \in TokAt(p)', x \in TokAt(q)'
               PROVE  FALSE
    BY DEF Apart
  <2>1. CASE p \notin D /\ x \in TokAt(p) /\ q \notin D /\ x \in TokAt(q)
    BY <1>0, <2>1 DEF Apart
  <2>2. ASSUME NEW u \in Cells, u \notin D, x \in TokAt(u), NEW t \in Topics, x \in TokAt(F(t))
        PROVE  FALSE
    BY <1>0, <1>4, <1>7, <2>2 DEF Apart
  <2>3. ASSUME NEW s \in Topics, NEW t \in Topics, p = Q(s), q = Q(t), x \in TokAt(F(s)), x \in TokAt(F(t))
        PROVE  FALSE
    <3>1. s # t
      BY <2>3
    <3> QED BY <1>0, <1>4, <1>5, <2>3, <3>1 DEF Apart
  <2> QED BY <1>6, <2>1, <2>2, <2>3
<1>9. Numbered'
  <2> SUFFICES ASSUME NEW p \in Cells, NEW n \in Nat
               PROVE  /\ <<"chunk", n>> \in TokAt(p)' => n < nextChunk'
                      /\ <<"row", n>> \in TokAt(p)' => n \in 1 .. accepted'
    BY DEF Numbered
  <2>1. \A q \in Cells : /\ <<"chunk", n>> \in TokAt(q) => n < nextChunk'
                         /\ <<"row", n>> \in TokAt(q) => n \in 1 .. accepted'
    BY <1>0, <1>1 DEF Numbered
  <2> QED BY <1>4, <1>6, <2>1
<1>10. AllKept'
  <2>1. ASSUME NEW p \in Cells, NEW n \in 1 .. accepted, <<"row", n>> \in TokAt(p)
        PROVE  \E q \in Cells : <<"row", n>> \in TokAt(q)'
    <3>1. CASE p \notin D
      BY <1>3, <2>1, <3>1
    <3>2. CASE p \in D
      <4>1. PICK t \in Topics : p \in {F(t), Q(t)}
        BY <3>2 DEF D
      <4> QED BY <1>4, <2>1, <4>1
    <3> QED BY <3>1, <3>2
  <2> QED BY <1>0, <1>1, <2>1, KeptStep
<1>11. Single'
  <2>0. /\ \A x \in Writers, y \in Topics :
            /\ OneEach(pending[x][y]) /\ OneEach(flushed[x][y]) /\ OneEach(queue[x][y])
            /\ RowsDistinct(builder[x][y].rows)
        /\ \A e \in Engines, y \in Topics : OneEach(sealed[e][y])
    BY <1>0, SingleParts
  <2>3. ASSUME NEW x \in Writers, NEW y \in Topics
        PROVE  /\ OneEach(pending'[x][y]) /\ OneEach(flushed'[x][y]) /\ OneEach(queue'[x][y])
               /\ RowsDistinct(builder'[x][y].rows)
    <3>1. CASE x = w
      BY <1>1, <2>0, <3>1, ToksNone
    <3>2. CASE x # w
      BY <1>1, <2>0, <3>2
    <3> QED BY <3>1, <3>2
  <2>4. \A e \in Engines, y \in Topics : OneEach(sealed'[e][y])
    BY <1>1, <2>0
  <2> QED BY <2>3, <2>4, SinglePartsNext
<1>12. PlanApart'
  BY <1>0, <1>1 DEF PlanApart
<1> QED BY <1>8, <1>9, <1>10, <1>11, <1>12 DEF TraceInv

(* The rows of a chunk, as the history variables count them.               *)
LEMMA RowIdsToks ==
    ASSUME NEW s \in Seq(Chunk), NEW n
    PROVE  n \in RowIds(s) <=> <<"row", n>> \in Toks(s)
<1>1. ASSUME n \in RowIds(s) PROVE <<"row", n>> \in Toks(s)
  <2>0. PICK i \in DOMAIN s : n \in {s[i].rows[j].id : j \in DOMAIN s[i].rows}
    BY <1>1 DEF RowIds
  <2>1. PICK j \in DOMAIN s[i].rows : n = s[i].rows[j].id
    BY <2>0
  <2>2. <<"row", n>> \in Tok(s[i])
    BY <2>1 DEF Tok, RowTok
  <2> QED BY <2>2 DEF Toks
<1>2. ASSUME <<"row", n>> \in Toks(s) PROVE n \in RowIds(s)
  <2>1. PICK i \in DOMAIN s : <<"row", n>> \in Tok(s[i])
    BY <1>2 DEF Toks
  <2>2. <<"row", n>> \in RowTok(s[i].rows)
    BY <2>1, TokForms
  <2>3. PICK j \in DOMAIN s[i].rows : <<"row", n>> = <<"row", s[i].rows[j].id>>
    BY <2>2 DEF RowTok
  <2>4. n = s[i].rows[j].id
    BY <2>3
  <2> QED BY <2>4 DEF RowIds
<1> QED BY <1>1, <1>2

(* One iteration of commitChunks.                                          *)
LEMMA AppendSealedStep ==
    ASSUME TraceInv, TypeOK', BuilderRoom', NEW w \in Writers, NEW t \in Topics,
           appendSealedChunk(w, t)
    PROVE  TraceInv'
<1> DEFINE e == EngineOf[w]
           c == queue[w][t][1]
           Q == <<"queue", w, t>>
           S == <<"sealed", e, t>>
           R == <<"rejected">>
           ok == t \in topics[e] /\ Appendable(sealed[e][t], c)
<1>0. /\ TypeOK /\ Apart /\ Single /\ Numbered /\ AllKept /\ PlanApart /\ accepted \in Nat
      /\ e \in Engines /\ queue[w][t] \in Seq(Chunk) /\ sealed[e][t] \in Seq(Chunk)
      /\ queue[w][t] # <<>>
  <2>1. TypeOK /\ Apart /\ Single /\ Numbered /\ AllKept /\ PlanApart
    BY DEF TraceInv
  <2>2. queue[w][t] # <<>>
    BY DEF appendSealedChunk
  <2>3. e \in Engines
    BY BindAssumption
  <2> QED BY <2>1, <2>2, <2>3, SMTT(30) DEF TypeOK
<1>1. /\ UNCHANGED <<builder, pending, flushed, plan, nextChunk, accepted, evicted>>
      /\ \A x \in Writers, y \in Topics :
            queue'[x][y] = IF x = w /\ y = t THEN Tail(queue[w][t]) ELSE queue[x][y]
      /\ \A f \in Engines, y \in Topics :
            sealed'[f][y] = IF ok /\ f = e /\ y = t THEN Append(sealed[e][t], c) ELSE sealed[f][y]
      /\ rejected' = IF ok THEN rejected ELSE rejected \cup RowIds(<<c>>)
  <2>1. /\ UNCHANGED <<builder, pending, flushed, plan, nextChunk, accepted, evicted>>
        /\ queue' = [queue EXCEPT ![w][t] = Tail(queue[w][t])]
        /\ rejected' = IF ok THEN rejected ELSE rejected \cup RowIds(<<c>>)
        /\ sealed' = IF ok THEN [sealed EXCEPT ![e][t] = Append(sealed[e][t], c)] ELSE sealed
    BY DEF appendSealedChunk
  <2>2. /\ queue \in [Writers -> [Topics -> Seq(Chunk)]]
        /\ sealed \in [Engines -> [Topics -> Seq(Chunk)]]
        /\ Tail(queue[w][t]) \in Seq(Chunk) /\ c \in Chunk /\ Append(sealed[e][t], c) \in Seq(Chunk)
    BY <1>0 DEF TypeOK
  <2>3. \A x \in Writers, y \in Topics :
           queue'[x][y] = IF x = w /\ y = t THEN Tail(queue[w][t]) ELSE queue[x][y]
    <3> DEFINE v == Tail(queue[w][t])
    <3>1. v \in Seq(Chunk) /\ queue' = [queue EXCEPT ![w][t] = v]
      BY <2>1, <2>2
    <3> HIDE DEF v
    <3>2. \A x \in Writers, y \in Topics :
             queue'[x][y] = IF x = w /\ y = t THEN v ELSE queue[x][y]
      BY <2>2, <3>1, Update2
    <3> QED BY <3>2 DEF v
  <2>4. \A f \in Engines, y \in Topics :
            sealed'[f][y] = IF ok /\ f = e /\ y = t THEN Append(sealed[e][t], c) ELSE sealed[f][y]
    <3>1. CASE ok
      <4>1. sealed' = [sealed EXCEPT ![e][t] = Append(sealed[e][t], c)]
        BY <2>1, <3>1
      <4> HIDE DEF ok, c
      <4> QED BY <1>0, <2>2, <3>1, <4>1, Update2
    <3>2. CASE ~ok
      BY <2>1, <3>2
    <3> QED BY <3>1, <3>2
  <2> QED BY <2>1, <2>3, <2>4
<1>2. /\ c \in Chunk /\ Tail(queue[w][t]) \in Seq(Chunk)
      /\ TokAt(Q) = Tok(c) \cup Toks(Tail(queue[w][t])) /\ Tok(c) \cap Toks(Tail(queue[w][t])) = {}
      /\ OneEach(Tail(queue[w][t])) /\ RowsDistinct(c.rows)
  <2> DEFINE s == queue[w][t]
  <2>1. /\ s = <<c>> \o Tail(s) /\ c \in Chunk /\ <<c>> \in Seq(Chunk) /\ Tail(s) \in Seq(Chunk)
        /\ Len(s) \in Nat /\ 1 \in DOMAIN s /\ s[1] = c
    BY <1>0
  <2>2. OneEach(s)
    BY <1>0, SingleParts
  <2>3. TokAt(Q) = Toks(s)
    BY CellFacts
  <2> HIDE DEF s, c
  <2>4. Toks(<<c>>) = Tok(c)
    BY ToksOne
  <2>5. Toks(s) = Toks(<<c>>) \cup Toks(Tail(s)) /\ OneEach(Tail(s)) /\ Toks(<<c>>) \cap Toks(Tail(s)) = {}
    <3> DEFINE a == <<c>>
               b == Tail(s)
    <3>1. a \in Seq(Chunk) /\ b \in Seq(Chunk) /\ s = a \o b
      BY <2>1
    <3> HIDE DEF a, b
    <3>2. Toks(s) = Toks(a) \cup Toks(b) /\ OneEach(b) /\ Toks(a) \cap Toks(b) = {}
      BY <2>2, <3>1, ToksConcat
    <3> QED BY <3>2 DEF a, b
  <2>6. RowsDistinct(c.rows)
    BY <2>1, <2>2 DEF OneEach
  <2> QED BY <2>1, <2>3, <2>4, <2>5, <2>6 DEF s
<1>3. Q \in Cells /\ S \in Cells /\ R \in Cells /\ Q # S /\ Q # R /\ S # R
  BY <1>0, CellFacts
<1>4. Untouched({Q, S, R})
  <2>1. ASSUME NEW x \in Writers, NEW y \in Topics
        PROVE  <<"queue", x, y>> \notin {Q, S, R} => queue'[x][y] = queue[x][y]
    BY <1>1
  <2>2. ASSUME NEW f \in Engines, NEW y \in Topics
        PROVE  <<"sealed", f, y>> \notin {Q, S, R} => sealed'[f][y] = sealed[f][y]
    <3>1. <<"sealed", f, y>> # S => ~(f = e /\ y = t)
      OBVIOUS
    <3> HIDE DEF ok, S
    <3> QED BY <1>1, <3>1
  <2> HIDE DEF Q, S, ok
  <2> QED BY <1>1, <2>1, <2>2 DEF Untouched
<1>5. \A p \in Cells \ {Q, S, R} : TokAt(p)' = TokAt(p)
  BY <1>4, Frame
<1>6. TokAt(Q)' = Toks(Tail(queue[w][t]))
  <2>1. TokAt(Q)' = Toks(queue'[w][t]) /\ queue'[w][t] = Tail(queue[w][t])
    BY <1>1, CellFactsNext
  <2> QED BY <2>1
<1>7. /\ ok => TokAt(S)' = TokAt(S) \cup Tok(c) /\ TokAt(R)' = TokAt(R)
      /\ ~ok => /\ TokAt(S)' = TokAt(S)
                /\ \A x : x \in TokAt(R)' <=> x \in TokAt(R) \/ x \in RowTok(c.rows)
  <2>1. /\ TokAt(S) = Toks(sealed[e][t]) /\ TokAt(S)' = Toks(sealed'[e][t])
        /\ TokAt(R) = {<<"row", n>> : n \in rejected} /\ TokAt(R)' = {<<"row", n>> : n \in rejected'}
    BY <1>0, CellFacts, CellFactsNext
  <2>2. sealed'[e][t] = IF ok THEN Append(sealed[e][t], c) ELSE sealed[e][t]
    BY <1>0, <1>1
  <2>3. Toks(Append(sealed[e][t], c)) = Toks(sealed[e][t]) \cup Tok(c)
    BY <1>0, <1>2, ToksAppend
  <2>4. ASSUME ~ok, NEW x PROVE x \in TokAt(R)' <=> x \in TokAt(R) \/ x \in RowTok(c.rows)
    <3>1. rejected' = rejected \cup RowIds(<<c>>)
      BY <1>1, <2>4
    <3>2. RowIds(<<c>>) = {c.rows[j].id : j \in DOMAIN c.rows}
      <4>1. DOMAIN <<c>> = {1} /\ <<c>>[1] = c
        OBVIOUS
      <4> HIDE DEF c
      <4> QED BY <4>1 DEF RowIds
    <3> HIDE DEF c, ok
    <3> QED BY <2>1, <3>1, <3>2 DEF RowTok
  <2> HIDE DEF c, ok, S, R
  <2> QED BY <1>1, <2>1, <2>2, <2>3, <2>4
<1>8. \A x \in RowTok(c.rows) : x \in Tok(c)
  BY DEF Tok
<1>9. RowsDistinct(c.rows) /\ OneEach(sealed[e][t]) /\ Toks(sealed[e][t]) \cap Tok(c) = {}
  <2>1. OneEach(sealed[e][t]) /\ TokAt(S) = Toks(sealed[e][t])
    BY <1>0, SingleParts, CellFacts
  <2>2. TokAt(S) \cap TokAt(Q) = {}
    BY <1>0, <1>3 DEF Apart
  <2> HIDE DEF c, S, Q
  <2> QED BY <1>2, <2>1, <2>2
<1> HIDE DEF c, ok, Q, S, R, e
<1>10. Apart'
  <2>1. CASE ok
    <3>1. \A p \in Cells \ {S} : TokAt(p)' \subseteq TokAt(p) /\ TokAt(p)' \cap Tok(c) = {}
      <4>1. ASSUME NEW p \in Cells \ {S}
            PROVE  TokAt(p)' \subseteq TokAt(p) /\ TokAt(p)' \cap Tok(c) = {}
        <5>1. CASE p = Q
          BY <1>2, <1>6, <5>1
        <5>2. CASE p # Q
          <6>1. TokAt(p)' = TokAt(p)
            BY <1>5, <1>7, <2>1, <5>2
          <6>2. TokAt(p) \cap TokAt(Q) = {}
            BY <1>0, <1>3, <5>2 DEF Apart
          <6> QED BY <1>2, <6>1, <6>2
        <5> QED BY <5>1, <5>2
      <4> QED BY <4>1
    <3>2. TokAt(S)' \subseteq TokAt(S) \cup Tok(c)
      BY <1>7, <2>1
    <3> QED BY <1>0, <1>3, <3>1, <3>2, Sink
  <2>2. CASE ~ok
    <3>1. \A p \in Cells \ {R} : TokAt(p)' \subseteq TokAt(p) /\ TokAt(p)' \cap Tok(c) = {}
      <4>1. ASSUME NEW p \in Cells \ {R}
            PROVE  TokAt(p)' \subseteq TokAt(p) /\ TokAt(p)' \cap Tok(c) = {}
        <5>1. CASE p = Q
          BY <1>2, <1>6, <5>1
        <5>2. CASE p # Q
          <6>1. TokAt(p)' = TokAt(p)
            BY <1>5, <1>7, <2>2, <5>2
          <6>2. TokAt(p) \cap TokAt(Q) = {}
            BY <1>0, <1>3, <5>2 DEF Apart
          <6> QED BY <1>2, <6>1, <6>2
        <5> QED BY <5>1, <5>2
      <4> QED BY <4>1
    <3>2. TokAt(R)' \subseteq TokAt(R) \cup Tok(c)
      BY <1>7, <1>8, <2>2
    <3> QED BY <1>0, <1>3, <3>1, <3>2, Sink
  <2> QED BY <2>1, <2>2
<1>11. \A p \in Cells : TokAt(p)' \subseteq TokAt(p) \cup TokAt(Q)
  <2>1. ASSUME NEW p \in Cells PROVE TokAt(p)' \subseteq TokAt(p) \cup TokAt(Q)
    <3>1. CASE p \notin {Q, S, R}
      BY <1>5, <3>1
    <3>2. CASE p = Q
      BY <1>2, <1>6, <3>2
    <3>3. CASE p = S
      BY <1>2, <1>7, <3>3
    <3>4. CASE p = R
      BY <1>2, <1>7, <1>8, <3>4
    <3> QED BY <3>1, <3>2, <3>3, <3>4
  <2> QED BY <2>1
<1>12. Numbered'
  <2> SUFFICES ASSUME NEW p \in Cells, NEW n \in Nat
               PROVE  /\ <<"chunk", n>> \in TokAt(p)' => n < nextChunk'
                      /\ <<"row", n>> \in TokAt(p)' => n \in 1 .. accepted'
    BY DEF Numbered
  <2>1. \A q \in Cells : /\ <<"chunk", n>> \in TokAt(q) => n < nextChunk'
                         /\ <<"row", n>> \in TokAt(q) => n \in 1 .. accepted'
    BY <1>0, <1>1 DEF Numbered
  <2> QED BY <1>3, <1>11, <2>1
<1>13. AllKept'
  <2>1. ASSUME NEW p \in Cells, NEW n \in 1 .. accepted, <<"row", n>> \in TokAt(p)
        PROVE  \E q \in Cells : <<"row", n>> \in TokAt(q)'
    <3>1. CASE p \notin {Q, S, R}
      BY <1>5, <2>1, <3>1
    <3>2. CASE p = Q
      <4>1. <<"row", n>> \in Toks(Tail(queue[w][t])) \/ <<"row", n>> \in Tok(c)
        BY <1>2, <2>1, <3>2
      <4>2. <<"row", n>> \in Tok(c) => <<"row", n>> \in RowTok(c.rows)
        BY TokForms
      <4> QED BY <1>3, <1>6, <1>7, <4>1, <4>2
    <3>3. CASE p \in {S, R}
      BY <1>3, <1>7, <2>1, <3>3
    <3> QED BY <3>1, <3>2, <3>3
  <2> QED BY <1>0, <1>1, <2>1, KeptStep
<1>14. Single'
  <2>0. /\ \A x \in Writers, y \in Topics :
            /\ OneEach(pending[x][y]) /\ OneEach(flushed[x][y]) /\ OneEach(queue[x][y])
            /\ RowsDistinct(builder[x][y].rows)
        /\ \A f \in Engines, y \in Topics : OneEach(sealed[f][y])
    BY <1>0, SingleParts
  <2>1. OneEach(Append(sealed[e][t], c))
    BY <1>0, <1>2, <1>9, ToksAppend
  <2>3. ASSUME NEW x \in Writers, NEW y \in Topics
        PROVE  /\ OneEach(pending'[x][y]) /\ OneEach(flushed'[x][y]) /\ OneEach(queue'[x][y])
               /\ RowsDistinct(builder'[x][y].rows)
    BY <1>1, <1>2, <2>0
  <2>4. \A f \in Engines, y \in Topics : OneEach(sealed'[f][y])
    BY <1>1, <2>0, <2>1
  <2> QED BY <2>3, <2>4, SinglePartsNext
<1>15. PlanApart'
  BY <1>0, <1>1 DEF PlanApart
<1> QED BY <1>10, <1>12, <1>13, <1>14, <1>15 DEF TraceInv

-----------------------------------------------------------------------------
(* Retention and transfer. *)

(* evictBefore removes the longest prefix of chunks that end before keep.  *)
LEMMA EvictCountFacts ==
    ASSUME NEW chunks \in Seq(Chunk), NEW keep \in Int
    PROVE  /\ EvictCount(chunks, keep) \in 0 .. Len(chunks)
           /\ \A i \in 1 .. EvictCount(chunks, keep) : chunks[i].tmax < keep
           /\ EvictCount(chunks, keep) < Len(chunks) =>
                 ~(chunks[EvictCount(chunks, keep) + 1].tmax < keep)
<1> DEFINE l == Len(chunks)
           S == {i \in 1 .. l : \A j \in 1 .. i : chunks[j].tmax < keep}
           B == {i \in 1 .. l + 1 : i = l + 1 \/ ~(chunks[i].tmax < keep)}
<1>1. l \in Nat
  OBVIOUS
<1>2. B \in SUBSET Nat /\ l + 1 \in B
  BY <1>1
<1>3. PICK m \in B : \A i \in B : m <= i
  BY <1>2, LeastNatural
<1>4. m \in 1 .. l + 1 /\ (m < l + 1 => ~(chunks[m].tmax < keep))
  BY <1>1, <1>3
<1>5. \A i \in 1 .. m - 1 : chunks[i].tmax < keep
  <2>1. ASSUME NEW i \in 1 .. m - 1 PROVE chunks[i].tmax < keep
    <3>1. i \in 1 .. l + 1 /\ i # l + 1 /\ ~(m <= i)
      BY <1>1, <1>4
    <3>2. i \notin B
      BY <1>3, <3>1
    <3> QED BY <3>1, <3>2
  <2> QED BY <2>1
<1> HIDE DEF B
<1>6. S = 1 .. m - 1
  <2>1. ASSUME NEW i \in 1 .. m - 1 PROVE i \in S
    <3>1. i \in 1 .. l /\ \A j \in 1 .. i : j \in 1 .. m - 1
      BY <1>1, <1>4
    <3> QED BY <1>5, <3>1
  <2>2. ASSUME NEW i \in S PROVE i \in 1 .. m - 1
    <3>1. i \in 1 .. l /\ \A j \in 1 .. i : chunks[j].tmax < keep
      OBVIOUS
    <3>2. CASE m \in 1 .. i
      <4>1. chunks[m].tmax < keep /\ m < l + 1
        BY <1>1, <1>4, <3>1, <3>2
      <4> QED BY <1>4, <4>1
    <3>3. CASE m \notin 1 .. i
      BY <1>1, <1>4, <3>1, <3>3
    <3> QED BY <3>2, <3>3
  <2> QED BY <2>1, <2>2
<1>7. Cardinality(1 .. m - 1) = m - 1
  <2>1. m - 1 \in Nat /\ 1 \in Int /\ m - 1 \in Int
    BY <1>1, <1>4
  <2>2. Cardinality(1 .. m - 1) = IF 1 > m - 1 THEN 0 ELSE (m - 1) - 1 + 1
    BY <2>1, FS_Interval
  <2> QED BY <2>1, <2>2
<1>8. EvictCount(chunks, keep) = Cardinality(S)
  BY DEF EvictCount
<1> HIDE DEF S
<1>9. EvictCount(chunks, keep) = m - 1
  BY <1>6, <1>7, <1>8
<1>10. m - 1 + 1 = m /\ m - 1 \in 0 .. l /\ (m - 1 < l => m < l + 1)
  BY <1>1, <1>4
<1> QED BY <1>4, <1>5, <1>9, <1>10

(* enforceRetention cuts the front off every topic of one engine; every    *)
(* chunk it drops ends before the window, and the newest chunk stays.      *)
LEMMA RetentionEffect ==
    ASSUME TypeOK, NEW e \in Engines, NEW window \in Windows, enforceRetention(e, window)
    PROVE  /\ UNCHANGED <<topics, builder, pending, flushed, rest, queue, plan, nextChunk,
                          accepted, rejected>>
           /\ \E k \in [Topics -> Nat] :
                /\ \A t \in Topics :
                      /\ k[t] \in 0 .. Len(sealed[e][t])
                      /\ sealed[e][t] # <<>> => k[t] < Len(sealed[e][t])
                      /\ \A i \in 1 .. k[t] : sealed[e][t][i].tmax < time_max(sealed[e][t]) - window
                /\ \A f \in Engines, t \in Topics :
                      sealed'[f][t] = IF f = e THEN SubSeq(sealed[e][t], k[t] + 1, Len(sealed[e][t]))
                                      ELSE sealed[f][t]
                /\ evicted' = evicted \cup UNION {RowIds(SubSeq(sealed[e][t], 1, k[t])) : t \in Topics}
<1> DEFINE s(t) == sealed[e][t]
           keep(t) == time_max(s(t)) - window
           kept(t) == IF s(t) = <<>> THEN <<>> ELSE evictBefore(s(t), keep(t))
           out(t) == SubSeq(s(t), 1, Len(s(t)) - Len(kept(t)))
           k == [t \in Topics |-> IF s(t) = <<>> THEN 0 ELSE EvictCount(s(t), keep(t))]
<1>1. /\ sealed' = [sealed EXCEPT ![e] = [t \in Topics |-> kept(t)]]
      /\ evicted' = evicted \cup UNION {RowIds(out(t)) : t \in Topics}
      /\ UNCHANGED <<topics, builder, pending, flushed, rest, queue, plan, nextChunk, accepted, rejected>>
  BY DEF enforceRetention, loopVars
<1>2. ASSUME NEW t \in Topics
      PROVE  /\ k[t] \in Nat /\ k[t] \in 0 .. Len(s(t)) /\ (s(t) # <<>> => k[t] < Len(s(t)))
             /\ \A i \in 1 .. k[t] : s(t)[i].tmax < keep(t)
             /\ kept(t) = SubSeq(s(t), k[t] + 1, Len(s(t))) /\ kept(t) \in Seq(Chunk)
             /\ out(t) = SubSeq(s(t), 1, k[t])
  <2>1. s(t) \in Seq(Chunk)
    BY DEF TypeOK
  <2>2. CASE s(t) = <<>>
    <3>1. k[t] = 0 /\ kept(t) = <<>> /\ Len(s(t)) = 0
      BY <2>2
    <3> HIDE DEF k, kept
    <3> QED BY <2>1, <2>2, <3>1
  <2>3. CASE s(t) # <<>>
    <3> DEFINE q == s(t)
               h == keep(t)
               n == EvictCount(q, h)
    <3>0. q \in Seq(Chunk) /\ Len(q) \in Nat /\ Len(q) # 0 /\ q[Len(q)] \in Chunk
      BY <2>1, <2>3
    <3>1. h \in Int /\ ~(q[Len(q)].tmax < h)
      <4>1. q[Len(q)].tmax \in Int /\ window \in Nat /\ h = q[Len(q)].tmax - window
        BY <3>0, TimeAssumption, WindowAssumption, SMTT(30) DEF Chunk, Time, time_max, back
      <4> HIDE DEF q, h
      <4> QED BY <4>1
    <3>2. kept(t) = evictBefore(q, h) /\ k[t] = n
      BY <2>3
    <3> HIDE DEF q, h
    <3>3. /\ n \in 0 .. Len(q) /\ \A i \in 1 .. n : q[i].tmax < h
          /\ evictBefore(q, h) \in Seq(Chunk) /\ Len(evictBefore(q, h)) = Len(q) - n
          /\ evictBefore(q, h) = SubSeq(q, n + 1, Len(q))
      BY <3>0, <3>1, EvictCountFacts, EvictType DEF evictBefore
    <3>4. n < Len(q)
      <4>1. n = Len(q) => q[Len(q)].tmax < h
        BY <3>0, <3>3
      <4> QED BY <3>0, <3>1, <3>3, <4>1
    <3> HIDE DEF n
    <3>5. Len(q) - (Len(q) - n) = n
      BY <3>0, <3>3
    <3> HIDE DEF k, kept, keep
    <3>6. out(t) = SubSeq(q, 1, n)
      BY <3>2, <3>3, <3>5 DEF q
    <3>7. n \in Nat
      BY <3>0, <3>3
    <3> QED BY <3>2, <3>3, <3>4, <3>6, <3>7 DEF q, h
  <2> QED BY <2>2, <2>3
<1>3. [t \in Topics |-> kept(t)] \in [Topics -> Seq(Chunk)]
  BY <1>2
<1>4. k \in [Topics -> Nat]
  <2>1. k = [t \in Topics |-> k[t]]
    OBVIOUS
  <2> HIDE DEF k
  <2> QED BY <1>2, <2>1
<1> HIDE DEF kept, k, out
<1>5. ASSUME NEW f \in Engines, NEW t \in Topics
      PROVE  sealed'[f][t] = IF f = e THEN SubSeq(sealed[e][t], k[t] + 1, Len(sealed[e][t]))
                             ELSE sealed[f][t]
  <2>1. sealed \in [Engines -> [Topics -> Seq(Chunk)]]
    BY DEF TypeOK
  <2> QED BY <1>1, <1>2, <2>1
<1>6. UNION {RowIds(out(t)) : t \in Topics} = UNION {RowIds(SubSeq(sealed[e][t], 1, k[t])) : t \in Topics}
  BY <1>2
<1> QED BY <1>1, <1>2, <1>4, <1>5, <1>6

(* A step that accepts nothing and seals nothing, and only carries tokens  *)
(* from cell to cell.                                                      *)
LEMMA Carried ==
    ASSUME Numbered, AllKept, accepted \in Nat, nextChunk' = nextChunk, accepted' = accepted,
           \A p \in Cells : \A x \in TokAt(p)' : \E q \in Cells : x \in TokAt(q),
           \A p \in Cells, n \in Nat : <<"row", n>> \in TokAt(p) =>
               \E q \in Cells : <<"row", n>> \in TokAt(q)'
    PROVE  Numbered' /\ AllKept'
<1>1. Numbered'
  <2> SUFFICES ASSUME NEW p \in Cells, NEW n \in Nat
               PROVE  /\ <<"chunk", n>> \in TokAt(p)' => n < nextChunk'
                      /\ <<"row", n>> \in TokAt(p)' => n \in 1 .. accepted'
    BY DEF Numbered
  <2>1. \A q \in Cells : /\ <<"chunk", n>> \in TokAt(q) => n < nextChunk'
                         /\ <<"row", n>> \in TokAt(q) => n \in 1 .. accepted'
    BY DEF Numbered
  <2> QED BY <2>1
<1>2. AllKept'
  <2>1. \A p \in Cells, n \in 1 .. accepted : <<"row", n>> \in TokAt(p) =>
               \E q \in Cells : <<"row", n>> \in TokAt(q)'
    <3>1. \A n \in 1 .. accepted : n \in Nat
      OBVIOUS
    <3> QED BY <3>1, Zenon
  <2> QED BY <2>1, KeptStep
<1> QED BY <1>1, <1>2

(* Retention: the front of every topic of the engine becomes history.      *)
LEMMA RetentionStep ==
    ASSUME TraceInv, TypeOK', BuilderRoom', NEW e \in Engines, NEW window \in Windows,
           enforceRetention(e, window)
    PROVE  TraceInv'
<1>0. /\ TypeOK /\ Apart /\ Single /\ Numbered /\ AllKept /\ PlanApart /\ accepted \in Nat
  BY DEF TraceInv, TypeOK
<1>1. UNCHANGED <<topics, builder, pending, flushed, rest, queue, plan, nextChunk, accepted, rejected>>
  BY <1>0, RetentionEffect
<1>2. PICK k \in [Topics -> Nat] :
         /\ \A t \in Topics : k[t] \in 0 .. Len(sealed[e][t])
         /\ \A f \in Engines, t \in Topics :
               sealed'[f][t] = IF f = e THEN SubSeq(sealed[e][t], k[t] + 1, Len(sealed[e][t]))
                               ELSE sealed[f][t]
         /\ evicted' = evicted \cup UNION {RowIds(SubSeq(sealed[e][t], 1, k[t])) : t \in Topics}
  BY <1>0, RetentionEffect
<1> DEFINE S(t) == <<"sealed", e, t>>
           V == <<"evicted">>
           D == {S(t) : t \in Topics} \cup {V}
           a(t) == SubSeq(sealed[e][t], 1, k[t])
           b(t) == SubSeq(sealed[e][t], k[t] + 1, Len(sealed[e][t]))
<1>3. ASSUME NEW t \in Topics
      PROVE  /\ a(t) \in Seq(Chunk) /\ S(t) \in Cells /\ TokAt(S(t)) = Toks(a(t)) \cup Toks(b(t))
             /\ TokAt(S(t))' = Toks(b(t)) /\ Toks(a(t)) \cap Toks(b(t)) = {} /\ OneEach(b(t))
             /\ sealed'[e][t] = b(t)
  <2>1. sealed[e][t] \in Seq(Chunk) /\ k[t] \in 0 .. Len(sealed[e][t])
    BY <1>0, <1>2 DEF TypeOK
  <2>2. OneEach(sealed[e][t])
    BY <1>0, SingleParts
  <2>3. /\ a(t) \in Seq(Chunk) /\ Toks(sealed[e][t]) = Toks(a(t)) \cup Toks(b(t))
        /\ OneEach(b(t)) /\ Toks(a(t)) \cap Toks(b(t)) = {}
    BY <2>1, <2>2, ToksCut
  <2>4. S(t) \in Cells /\ TokAt(S(t)) = Toks(sealed[e][t]) /\ TokAt(S(t))' = Toks(sealed'[e][t])
    BY CellFacts, CellFactsNext
  <2>5. sealed'[e][t] = b(t)
    BY <1>2
  <2> QED BY <2>3, <2>4, <2>5
<1>4. /\ V \in Cells /\ \A t : S(t) # V
      /\ \A x : x \in TokAt(V)' <=> x \in TokAt(V) \/ \E t \in Topics : \E n \in RowIds(a(t)) : x = <<"row", n>>
  <2>1. V \in Cells /\ TokAt(V) = {<<"row", n>> : n \in evicted} /\ TokAt(V)' = {<<"row", n>> : n \in evicted'}
    BY CellFacts, CellFactsNext
  <2>2. \A n : n \in evicted' <=> n \in evicted \/ \E t \in Topics : n \in RowIds(a(t))
    BY <1>2
  <2>3. \A t : S(t) # V
    OBVIOUS
  <2> HIDE DEF a
  <2> QED BY <2>1, <2>2, <2>3
<1>5. \A t \in Topics : \A n : n \in RowIds(a(t)) <=> <<"row", n>> \in Toks(a(t))
  BY <1>3, RowIdsToks
<1>6. Untouched(D)
  <2>1. ASSUME NEW f \in Engines, NEW t \in Topics, <<"sealed", f, t>> \notin D
        PROVE  sealed'[f][t] = sealed[f][t]
    <3>1. f # e
      BY <2>1
    <3> QED BY <1>2, <3>1
  <2>2. <<"evicted">> \in D
    OBVIOUS
  <2> HIDE DEF D
  <2> QED BY <1>1, <2>1, <2>2 DEF Untouched
<1>7. \A p \in Cells : p \notin D => TokAt(p)' = TokAt(p)
  BY <1>6, Frame
<1>8. \A s, t : s # t => S(s) # S(t)
  OBVIOUS
<1>9. \A p \in D : p = V \/ \E t \in Topics : p = S(t)
  OBVIOUS
<1> DEFINE X == UNION {Toks(a(t)) : t \in Topics}
<1> HIDE DEF S, V, D, a, b
<1>10. \A x : x \in TokAt(V)' => x \in TokAt(V) \/ x \in X
  BY <1>4, <1>5
<1>11. \A x \in X : \E t \in Topics : x \in Toks(a(t))
  OBVIOUS
<1>12. \A t \in Topics : \A x \in Toks(a(t)) : x \in TokAt(S(t))
  BY <1>3
<1> HIDE DEF X
<1>13. Apart'
  <2>1. ASSUME NEW p \in Cells \ {V} PROVE TokAt(p)' \subseteq TokAt(p) /\ TokAt(p)' \cap X = {}
    <3>1. CASE p \notin D
      <4>1. TokAt(p)' = TokAt(p)
        BY <1>7, <2>1, <3>1
      <4>2. ASSUME NEW x \in X, x \in TokAt(p) PROVE FALSE
        <5>1. PICK t \in Topics : x \in TokAt(S(t))
          BY <1>11, <1>12
        <5>2. S(t) \in Cells /\ S(t) # p
          BY <1>3, <3>1 DEF D
        <5> QED BY <1>0, <4>2, <5>1, <5>2 DEF Apart
      <4> QED BY <4>1, <4>2
    <3>2. CASE p \in D
      <4>1. PICK t \in Topics : p = S(t)
        BY <1>9, <2>1, <3>2
      <4>2. TokAt(p)' = Toks(b(t)) /\ TokAt(p) = Toks(a(t)) \cup Toks(b(t)) /\ Toks(a(t)) \cap Toks(b(t)) = {}
        BY <1>3, <4>1
      <4>3. ASSUME NEW x \in X, x \in TokAt(p)' PROVE FALSE
        <5>1. PICK s \in Topics : x \in Toks(a(s))
          BY <1>11
        <5>2. CASE s = t
          BY <4>2, <4>3, <5>1, <5>2
        <5>3. CASE s # t
          <6>1. x \in TokAt(S(s)) /\ x \in TokAt(S(t)) /\ S(s) # S(t) /\ S(s) \in Cells /\ S(t) \in Cells
            BY <1>3, <1>8, <4>1, <4>2, <4>3, <5>1, <5>3
          <6> QED BY <1>0, <6>1 DEF Apart
        <5> QED BY <5>2, <5>3
      <4> QED BY <4>2, <4>3
    <3> QED BY <3>1, <3>2
  <2>2. TokAt(V)' \subseteq TokAt(V) \cup X
    BY <1>10
  <2> QED BY <1>0, <1>4, <2>1, <2>2, Sink
<1>14. Numbered' /\ AllKept'
  <2>1. ASSUME NEW p \in Cells, NEW x \in TokAt(p)' PROVE \E q \in Cells : x \in TokAt(q)
    <3>1. CASE p \notin D
      BY <1>7, <2>1, <3>1
    <3>2. CASE p = V
      BY <1>3, <1>4, <1>10, <1>11, <1>12, <2>1, <3>2
    <3>3. CASE \E t \in Topics : p = S(t)
      BY <1>3, <2>1, <3>3
    <3> QED BY <1>9, <3>1, <3>2, <3>3
  <2>2. ASSUME NEW p \in Cells, NEW n \in Nat, <<"row", n>> \in TokAt(p)
        PROVE  \E q \in Cells : <<"row", n>> \in TokAt(q)'
    <3>1. CASE p \notin D
      BY <1>7, <2>2, <3>1
    <3>2. CASE p = V
      BY <1>4, <2>2, <3>2
    <3>3. CASE \E t \in Topics : p = S(t)
      <4>1. PICK t \in Topics : p = S(t)
        BY <3>3
      <4>2. <<"row", n>> \in Toks(a(t)) \/ <<"row", n>> \in TokAt(p)'
        BY <1>3, <2>2, <4>1
      <4> QED BY <1>4, <1>5, <4>2
    <3> QED BY <1>9, <3>1, <3>2, <3>3
  <2> QED BY <1>0, <1>1, <2>1, <2>2, Carried
<1>15. Single'
  <2>0. /\ \A x \in Writers, y \in Topics :
            /\ OneEach(pending[x][y]) /\ OneEach(flushed[x][y]) /\ OneEach(queue[x][y])
            /\ RowsDistinct(builder[x][y].rows)
        /\ \A f \in Engines, y \in Topics : OneEach(sealed[f][y])
    BY <1>0, SingleParts
  <2>1. \A x \in Writers, y \in Topics :
            /\ OneEach(pending'[x][y]) /\ OneEach(flushed'[x][y]) /\ OneEach(queue'[x][y])
            /\ RowsDistinct(builder'[x][y].rows)
    BY <1>1, <2>0
  <2>2. \A f \in Engines, y \in Topics : OneEach(sealed'[f][y])
    <3>1. ASSUME NEW f \in Engines, NEW y \in Topics PROVE OneEach(sealed'[f][y])
      <4>1. CASE f = e
        BY <1>3, <4>1
      <4>2. CASE f # e
        BY <1>2, <2>0, <4>2
      <4> QED BY <4>1, <4>2
    <3> QED BY <3>1
  <2> QED BY <2>1, <2>2, SinglePartsNext
<1>16. PlanApart'
  BY <1>0, <1>1 DEF PlanApart
<1> QED BY <1>13, <1>14, <1>15, <1>16 DEF TraceInv

(* A step of flushTo's plan.                                               *)
LEMMA MoveStep ==
    ASSUME TraceInv, TypeOK', BuilderRoom', NEW m \in plan, moveChunks(m)
    PROVE  TraceInv'
<1> DEFINE A == <<"sealed", m.from, m.src>>
           B == <<"sealed", m.to, m.dst>>
           s == sealed[m.from][m.src]
           d == sealed[m.to][m.dst]
<1>0. /\ TypeOK /\ Apart /\ Single /\ Numbered /\ AllKept /\ PlanApart /\ accepted \in Nat
  BY DEF TraceInv, TypeOK
<1>1. /\ m.from \in Engines /\ m.to \in Engines /\ m.src \in Topics /\ m.dst \in Topics
      /\ m.from # m.to
  <2>1. m \in Step
    BY <1>0 DEF TypeOK
  <2> QED BY <1>0, <2>1 DEF Step, PlanApart
<1>2. /\ UNCHANGED <<builder, pending, flushed, queue, nextChunk, accepted, rejected, evicted>>
      /\ plan' = plan \ {m}
      /\ \A e \in Engines, t \in Topics : sealed'[e][t] =
            IF e = m.to /\ t = m.dst THEN sealed[e][t] \o s
            ELSE IF e = m.from /\ t = m.src THEN <<>> ELSE sealed[e][t]
  BY DEF moveChunks
<1>3. s \in Seq(Chunk) /\ d \in Seq(Chunk) /\ OneEach(s) /\ OneEach(d)
  BY <1>0, <1>1, SingleParts DEF TypeOK
<1>4. sealed'[m.to][m.dst] = d \o s /\ sealed'[m.from][m.src] = <<>>
  BY <1>1, <1>2
<1>5. /\ A \in Cells /\ B \in Cells /\ A # B /\ TokAt(A) = Toks(s) /\ TokAt(B) = Toks(d)
      /\ TokAt(A)' = Toks(sealed'[m.from][m.src]) /\ TokAt(B)' = Toks(sealed'[m.to][m.dst])
  BY <1>1, CellFacts, CellFactsNext
<1>6. Toks(s) \cap Toks(d) = {}
  BY <1>0, <1>5 DEF Apart
<1>7. OneEach(d \o s) /\ Toks(d \o s) = Toks(d) \cup Toks(s)
  BY <1>3, <1>6, ToksConcat
<1>8. Untouched({A, B})
  <2>1. ASSUME NEW e \in Engines, NEW t \in Topics, <<"sealed", e, t>> \notin {A, B}
        PROVE  sealed'[e][t] = sealed[e][t]
    <3>1. ~(e = m.to /\ t = m.dst) /\ ~(e = m.from /\ t = m.src)
      BY <2>1
    <3> QED BY <1>2, <3>1
  <2> HIDE DEF A, B
  <2> QED BY <1>2, <2>1 DEF Untouched
<1>9. \A p \in Cells \ {A, B} : TokAt(p)' = TokAt(p)
  BY <1>8, Frame
<1>10. TokAt(A)' = {} /\ TokAt(B)' = TokAt(B) \cup TokAt(A)
  BY <1>4, <1>5, <1>7, ToksNone
<1> HIDE DEF A, B, s, d
<1>11. Apart'
  <2>1. \A p \in Cells \ {B} : TokAt(p)' \subseteq TokAt(p) /\ TokAt(p)' \cap TokAt(A) = {}
    BY <1>0, <1>5, <1>9, <1>10 DEF Apart
  <2>2. TokAt(B)' \subseteq TokAt(B) \cup TokAt(A)
    BY <1>10
  <2> QED BY <1>0, <1>5, <2>1, <2>2, Sink
<1>12. Numbered' /\ AllKept'
  <2>1. \A p \in Cells : \A x \in TokAt(p)' : \E q \in Cells : x \in TokAt(q)
    BY <1>5, <1>9, <1>10
  <2>2. \A p \in Cells, n \in Nat : <<"row", n>> \in TokAt(p) =>
               \E q \in Cells : <<"row", n>> \in TokAt(q)'
    BY <1>5, <1>9, <1>10
  <2> QED BY <1>0, <1>2, <2>1, <2>2, Carried
<1>13. Single'
  <2>0. /\ \A x \in Writers, y \in Topics :
            /\ OneEach(pending[x][y]) /\ OneEach(flushed[x][y]) /\ OneEach(queue[x][y])
            /\ RowsDistinct(builder[x][y].rows)
        /\ \A f \in Engines, y \in Topics : OneEach(sealed[f][y])
    BY <1>0, SingleParts
  <2>1. \A x \in Writers, y \in Topics :
            /\ OneEach(pending'[x][y]) /\ OneEach(flushed'[x][y]) /\ OneEach(queue'[x][y])
            /\ RowsDistinct(builder'[x][y].rows)
    BY <1>2, <2>0
  <2>2. \A f \in Engines, y \in Topics : OneEach(sealed'[f][y])
    <3>1. ASSUME NEW f \in Engines, NEW y \in Topics PROVE OneEach(sealed'[f][y])
      <4>1. CASE f = m.to /\ y = m.dst
        BY <1>4, <1>7, <4>1
      <4>2. CASE f = m.from /\ y = m.src
        BY <1>4, <4>2, ToksNone
      <4>3. CASE ~(f = m.to /\ y = m.dst) /\ ~(f = m.from /\ y = m.src)
        BY <1>2, <2>0, <4>3
      <4> QED BY <4>1, <4>2, <4>3
    <3> QED BY <3>1
  <2> QED BY <2>1, <2>2, SinglePartsNext
<1>14. PlanApart'
  BY <1>0, <1>2 DEF PlanApart
<1> QED BY <1>11, <1>12, <1>13, <1>14 DEF TraceInv

-----------------------------------------------------------------------------
(* The rows of a builder. *)

(* The rows a call adds to a builder, as tokens.                           *)
LEMMA RowsAdded ==
    ASSUME NEW old \in Seq(Row), NEW n \in Nat, NEW new \in Seq(Row), Len(new) = n,
           accepted \in Nat, \A i \in 1 .. n : new[i].id = accepted + i,
           RowsDistinct(old), \A x \in RowTok(old) : \E h \in 1 .. accepted : x = <<"row", h>>
    PROVE  /\ RowTok(old \o new) = RowTok(old) \cup {<<"row", h>> : h \in accepted + 1 .. accepted + n}
           /\ RowsDistinct(old \o new)
<1> DEFINE q == old \o new
           l == Len(old)
<1>1. /\ l \in Nat /\ DOMAIN old = 1 .. l /\ DOMAIN q = 1 .. l + n
      /\ \A i \in 1 .. l : q[i] = old[i]
      /\ \A i \in 1 .. n : q[l + i] = new[i]
  OBVIOUS
<1> HIDE DEF q, l
<1>2. /\ \A i \in 1 .. l + n : i \in 1 .. l \/ \E k \in 1 .. n : i = l + k
      /\ \A i \in 1 .. l : i \in 1 .. l + n
      /\ \A k \in 1 .. n : l + k \in 1 .. l + n
  <2>1. ASSUME NEW i \in 1 .. l + n, i \notin 1 .. l PROVE \E k \in 1 .. n : i = l + k
    <3>1. i - l \in 1 .. n /\ i = l + (i - l)
      BY <1>1, <2>1
    <3> QED BY <3>1
  <2> QED BY <1>1, <2>1
<1>3. /\ \A i \in 1 .. l : q[i].id = old[i].id
      /\ \A k \in 1 .. n : q[l + k].id = accepted + k
  BY <1>1
<1>4. \A i \in 1 .. l : old[i].id \in 1 .. accepted
  <2>1. ASSUME NEW i \in 1 .. l PROVE old[i].id \in 1 .. accepted
    <3>1. <<"row", old[i].id>> \in RowTok(old)
      BY <1>1 DEF RowTok
    <3>2. PICK h \in 1 .. accepted : <<"row", old[i].id>> = <<"row", h>>
      BY <3>1
    <3> QED BY <3>2
  <2> QED BY <2>1
<1>5. RowTok(q) = RowTok(old) \cup {<<"row", h>> : h \in accepted + 1 .. accepted + n}
  <2>1. ASSUME NEW x \in RowTok(q)
        PROVE  x \in RowTok(old) \cup {<<"row", h>> : h \in accepted + 1 .. accepted + n}
    <3>1. PICK i \in 1 .. l + n : x = <<"row", q[i].id>>
      BY <1>1 DEF RowTok
    <3>2. CASE i \in 1 .. l
      BY <1>1, <3>1, <3>2 DEF RowTok
    <3>3. CASE i \notin 1 .. l
      <4>1. PICK k \in 1 .. n : i = l + k
        BY <1>2, <3>3
      <4>2. q[i].id = accepted + k /\ accepted + k \in accepted + 1 .. accepted + n
        BY <1>3, <4>1
      <4> QED BY <3>1, <4>2
    <3> QED BY <3>2, <3>3
  <2>2. ASSUME NEW x \in RowTok(old) PROVE x \in RowTok(q)
    <3>1. PICK i \in 1 .. l : x = <<"row", old[i].id>>
      BY <1>1 DEF RowTok
    <3> QED BY <1>1, <1>2, <3>1 DEF RowTok
  <2>3. ASSUME NEW h \in accepted + 1 .. accepted + n PROVE <<"row", h>> \in RowTok(q)
    <3>1. h - accepted \in 1 .. n /\ accepted + (h - accepted) = h
      OBVIOUS
    <3>2. PICK k \in 1 .. n : accepted + k = h
      BY <3>1
    <3>3. l + k \in 1 .. l + n /\ q[l + k].id = h
      BY <1>2, <1>3, <3>2
    <3> QED BY <1>1, <3>3 DEF RowTok
  <2> QED BY <2>1, <2>2, <2>3
<1>6. RowsDistinct(q)
  <2> SUFFICES ASSUME NEW i \in 1 .. l + n, NEW j \in 1 .. l + n, q[i].id = q[j].id
               PROVE  i = j
    BY <1>1 DEF RowsDistinct
  <2>1. CASE i \in 1 .. l /\ j \in 1 .. l
    BY <1>1, <1>3, <2>1 DEF RowsDistinct
  <2>2. CASE i \in 1 .. l /\ j \notin 1 .. l
    <3>1. PICK k \in 1 .. n : j = l + k
      BY <1>2, <2>2
    <3>2. q[i].id \in 1 .. accepted /\ q[j].id = accepted + k
      BY <1>3, <1>4, <2>2, <3>1
    <3> QED BY <3>2
  <2>3. CASE i \notin 1 .. l /\ j \in 1 .. l
    <3>1. PICK k \in 1 .. n : i = l + k
      BY <1>2, <2>3
    <3>2. q[j].id \in 1 .. accepted /\ q[i].id = accepted + k
      BY <1>3, <1>4, <2>3, <3>1
    <3> QED BY <3>2
  <2>4. CASE i \notin 1 .. l /\ j \notin 1 .. l
    <3>1. PICK k \in 1 .. n : i = l + k
      BY <1>2, <2>4
    <3>2. PICK h \in 1 .. n : j = l + h
      BY <1>2, <2>4
    <3>3. accepted + k = accepted + h
      BY <1>3, <3>1, <3>2
    <3> QED BY <3>1, <3>2, <3>3
  <2> QED BY <2>1, <2>2, <2>3, <2>4
<1> QED BY <1>5, <1>6 DEF q

(* What the invariant says of the rows in one builder.                     *)
LEMMA BuilderRows ==
    ASSUME TraceInv, NEW w \in Writers, NEW t \in Topics
    PROVE  /\ builder[w][t] \in Builder /\ builder[w][t].rows \in Seq(Row) /\ accepted \in Nat
           /\ RowsDistinct(builder[w][t].rows)
           /\ \A x \in RowTok(builder[w][t].rows) : \E h \in 1 .. accepted : x = <<"row", h>>
<1>1. builder[w][t] \in Builder /\ accepted \in Nat
  BY DEF TraceInv, TypeOK
<1>2. builder[w][t].rows \in Seq(Row)
  BY <1>1 DEF Builder
<1>3. RowsDistinct(builder[w][t].rows)
  BY SingleParts DEF TraceInv
<1>4. ASSUME NEW x \in RowTok(builder[w][t].rows) PROVE \E h \in 1 .. accepted : x = <<"row", h>>
  <2>1. PICK i \in DOMAIN builder[w][t].rows : x = <<"row", builder[w][t].rows[i].id>>
    BY DEF RowTok
  <2> DEFINE h == builder[w][t].rows[i].id
  <2>2. h \in Nat
    <3>1. builder[w][t].rows[i] \in Row
      BY <1>2
    <3> QED BY <3>1 DEF Row
  <2>3. <<"builder", w, t>> \in Cells /\ x \in TokAt(<<"builder", w, t>>)
    BY CellFacts
  <2>4. Numbered
    BY DEF TraceInv
  <2> HIDE DEF h
  <2>5. x = <<"row", h>>
    BY <2>1 DEF h
  <2> QED BY <2>2, <2>3, <2>4, <2>5 DEF Numbered
<1> QED BY <1>1, <1>2, <1>3, <1>4

(* finishRow adds one row, with the next number.                           *)
LEMMA FinishRows ==
    ASSUME TraceInv, NEW w \in Writers, NEW t \in Topics, NEW b \in Builder,
           b.rows = builder[w][t].rows
    PROVE  /\ finishRowIn(b) \in Builder /\ RowsDistinct(finishRowIn(b).rows)
           /\ RowTok(finishRowIn(b).rows) = RowTok(builder[w][t].rows)
                            \cup {<<"row", n>> : n \in accepted + 1 .. accepted + 1}
<1> DEFINE r == [ts |-> b.last, id |-> accepted + 1]
           old == builder[w][t].rows
<1>1. r \in Row /\ r.id = accepted + 1
  <2>1. b.last \in Time /\ accepted \in Nat
    BY DEF Builder, TraceInv, TypeOK
  <2> QED BY <2>1 DEF Row
<1>2. finishRowIn(b) \in Builder
  <2>1. TypeOK /\ MinTime \in Time
    BY TimeAssumption DEF TraceInv, Time
  <2> QED BY <2>1, BuilderOps
<1>3. finishRowIn(b).rows = Append(old, r)
  BY DEF finishRowIn
<1>4. /\ old \in Seq(Row) /\ accepted \in Nat /\ RowsDistinct(old)
      /\ \A x \in RowTok(old) : \E h \in 1 .. accepted : x = <<"row", h>>
  BY BuilderRows
<1> HIDE DEF r, old
<1>5. Append(old, r) = old \o <<r>>
  BY <1>1, <1>4, AppendIsConcat
<1> DEFINE new == <<r>>
<1>6. new \in Seq(Row) /\ Len(new) = 1 /\ \A i \in 1 .. 1 : new[i].id = accepted + i
  BY <1>1
<1> HIDE DEF new
<1>7. /\ RowTok(old \o new) = RowTok(old) \cup {<<"row", h>> : h \in accepted + 1 .. accepted + 1}
      /\ RowsDistinct(old \o new)
  BY <1>4, <1>6, RowsAdded
<1> QED BY <1>2, <1>3, <1>5, <1>7 DEF new, old

(* appendColumns adds a run of rows, with the next numbers.                *)
LEMMA BatchRows ==
    ASSUME TraceInv, NEW w \in Writers, NEW t \in Topics, NEW ts \in Seq(Time), ts # <<>>
    PROVE  LET b == appendTimestamps(builder[w][t], ts)
           IN  /\ b \in Builder /\ RowsDistinct(b.rows)
               /\ RowTok(b.rows) = RowTok(builder[w][t].rows)
                            \cup {<<"row", n>> : n \in accepted + 1 .. accepted + Len(ts)}
<1> DEFINE b == appendTimestamps(builder[w][t], ts)
           old == builder[w][t].rows
           new == [i \in 1 .. Len(ts) |-> [ts |-> ts[i], id |-> accepted + i]]
<1>1. /\ old \in Seq(Row) /\ accepted \in Nat /\ RowsDistinct(old) /\ builder[w][t] \in Builder
      /\ \A x \in RowTok(old) : \E h \in 1 .. accepted : x = <<"row", h>>
  BY BuilderRows
<1>2. b \in Builder
  BY <1>1, AppendTimestampsType DEF TraceInv
<1>3. b.rows = old \o new
  BY DEF appendTimestamps
<1>4. new \in Seq(Row) /\ Len(new) = Len(ts)
  <2>1. \A i \in 1 .. Len(ts) : [ts |-> ts[i], id |-> accepted + i] \in Row
    BY <1>1 DEF Row
  <2> QED BY <2>1
<1>5. \A i \in 1 .. Len(ts) : new[i].id = accepted + i
  OBVIOUS
<1>6. Len(ts) \in Nat
  OBVIOUS
<1> HIDE DEF old, new
<1>7. /\ RowTok(old \o new) = RowTok(old) \cup {<<"row", h>> : h \in accepted + 1 .. accepted + Len(ts)}
      /\ RowsDistinct(old \o new)
  BY <1>1, <1>4, <1>5, <1>6, RowsAdded
<1> QED BY <1>2, <1>3, <1>7 DEF old

-----------------------------------------------------------------------------
(* Every step. *)

(* At the start nothing is anywhere.                                       *)
LEMMA TraceInit == Init => TraceInv
<1> SUFFICES ASSUME Init PROVE TraceInv
  OBVIOUS
<1>1. TypeOK /\ BuilderRoom
  BY TypeInit
<1>2. /\ \A w \in Writers, t \in Topics :
           /\ pending[w][t] = <<>> /\ flushed[w][t] = <<>> /\ queue[w][t] = <<>>
           /\ builder[w][t].rows = <<>>
      /\ \A e \in Engines, t \in Topics : sealed[e][t] = <<>>
      /\ rejected = {} /\ evicted = {} /\ plan = {} /\ accepted = 0
  BY DEF Init, Empty, NewBuilder
<1>3. RowTok(<<>>) = {} /\ RowsDistinct(<<>>)
  BY DEF RowTok, RowsDistinct
<1>4. ASSUME NEW p \in Cells PROVE TokAt(p) = {}
  <2>1. CASE \E w \in Writers, t \in Topics :
                 p \in {<<"pending", w, t>>, <<"flushed", w, t>>, <<"queue", w, t>>, <<"builder", w, t>>}
    <3>1. PICK w \in Writers, t \in Topics :
                 p \in {<<"pending", w, t>>, <<"flushed", w, t>>, <<"queue", w, t>>, <<"builder", w, t>>}
      BY <2>1
    <3>2. /\ TokAt(<<"pending", w, t>>) = Toks(<<>>) /\ TokAt(<<"flushed", w, t>>) = Toks(<<>>)
          /\ TokAt(<<"queue", w, t>>) = Toks(<<>>) /\ TokAt(<<"builder", w, t>>) = RowTok(<<>>)
      BY <1>2, CellFacts
    <3> QED BY <1>3, <3>1, <3>2, ToksNone, Zenon
  <2>2. CASE \E e \in Engines, t \in Topics : p = <<"sealed", e, t>>
    BY <1>2, <2>2, CellFacts, ToksNone
  <2>3. CASE p \in {<<"rejected">>, <<"evicted">>}
    BY <1>2, <2>3, CellFacts
  <2> QED BY <2>1, <2>2, <2>3, CellCases
<1>5. Apart
  BY <1>4 DEF Apart
<1>6. Single
  BY <1>2, <1>3, ToksNone, SingleParts
<1>7. Numbered
  BY <1>4 DEF Numbered
<1>8. AllKept
  BY <1>2 DEF AllKept
<1>9. PlanApart
  BY <1>2 DEF PlanApart
<1> QED BY <1>1, <1>5, <1>6, <1>7, <1>8, <1>9 DEF TraceInv

(* TopicChunkBuilder::flush keeps the invariant.                           *)
LEMMA FlushTrace ==
    ASSUME TraceInv, TypeOK', BuilderRoom', NEW w \in Writers, NEW t \in Topics, flush(w, t)
    PROVE  TraceInv'
<1> DEFINE b == builder[w][t]
           tail == IF b.rows # <<>> THEN <<seal(b)>> ELSE <<>>
           num == [s \in Topics |-> nextChunk]
           nb == IF b.rows # <<>> THEN NewBuilder ELSE b
<1>1. TypeOK /\ nextChunk \in Nat /\ b \in Builder
  BY DEF TraceInv, TypeOK
<1>2. /\ flushed' = [flushed EXCEPT ![w][t] = pending[w][t] \o tail]
      /\ pending' = [pending EXCEPT ![w][t] = <<>>]
      /\ builder' = [builder EXCEPT ![w][t] = nb]
      /\ nextChunk' = nextChunk + Len(tail)
      /\ UNCHANGED <<sealed, queue, plan, accepted, rejected, evicted>>
  BY DEF flush, loopVars
<1>3. tail = Sealed(w, t, num[t])
  <2>1. [seal(b) EXCEPT !.id = nextChunk] = seal(b)
    BY DEF seal
  <2> QED BY <2>1 DEF Sealed
<1>4. tail \in Seq(Chunk) /\ pending[w][t] \in Seq(Chunk)
  <2>1. nextChunk \in Nat /\ num[t] = nextChunk
    BY <1>1
  <2> HIDE DEF num, tail
  <2> QED BY <1>1, <1>3, <2>1, SealedFacts DEF TypeOK
<1>5. Len(tail) = IF b.rows # <<>> THEN 1 ELSE 0
  OBVIOUS
<1>6. nb \in Builder /\ nb.rows = <<>>
  BY <1>1, NewBuilderType DEF NewBuilder
<1>7. flushed[w][t] = <<>>
  BY DEF flush, Empty
<1>8. num \in [Topics -> Nat] /\ num[t] = nextChunk
  BY <1>1
<1> HIDE DEF tail, nb, num
<1>9. ASSUME NEW x \in Writers, NEW y \in Topics
      PROVE  IF x = w /\ y \in {t}
              THEN /\ flushed'[x][y] = pending[w][y] \o Sealed(w, y, num[y])
                   /\ pending'[x][y] = <<>> /\ builder'[x][y].rows = <<>>
              ELSE /\ flushed'[x][y] = flushed[x][y] /\ pending'[x][y] = pending[x][y]
                   /\ builder'[x][y] = builder[x][y]
  <2> DEFINE new == pending[w][t] \o tail
  <2>1. new \in Seq(Chunk) /\ <<>> \in Seq(Chunk)
    BY <1>4
  <2>2. /\ flushed \in [Writers -> [Topics -> Seq(Chunk)]]
        /\ pending \in [Writers -> [Topics -> Seq(Chunk)]]
        /\ builder \in [Writers -> [Topics -> Builder]]
    BY <1>1 DEF TypeOK
  <2>3. /\ flushed' = [flushed EXCEPT ![w][t] = new]
    BY <1>2
  <2> HIDE DEF new
  <2>4. flushed'[x][y] = IF x = w /\ y = t THEN new ELSE flushed[x][y]
    BY <2>1, <2>2, <2>3, Update2
  <2>5. pending'[x][y] = IF x = w /\ y = t THEN <<>> ELSE pending[x][y]
    BY <1>2, <2>1, <2>2, Update2
  <2>6. builder'[x][y] = IF x = w /\ y = t THEN nb ELSE builder[x][y]
    BY <1>2, <1>6, <2>2, Update2
  <2>7. CASE x = w /\ y = t
    BY <1>3, <1>6, <2>4, <2>5, <2>6, <2>7 DEF new
  <2>8. CASE ~(x = w /\ y = t)
    BY <2>4, <2>5, <2>6, <2>8
  <2> QED BY <2>7, <2>8
<1>10. /\ nextChunk <= nextChunk'
       /\ \A y \in {t} : builder[w][y].rows # <<>> => nextChunk <= num[y] /\ num[y] < nextChunk'
       /\ \A s, y \in {t} : builder[w][s].rows # <<>> /\ builder[w][y].rows # <<>>
                              /\ num[s] = num[y] => s = y
  BY <1>1, <1>2, <1>5, <1>8
<1> DEFINE T == {t}
<1>11. T \in SUBSET Topics /\ \A y \in T : flushed[w][y] = <<>>
  BY <1>7
<1>12. /\ \A y \in T : builder[w][y].rows # <<>> => nextChunk <= num[y] /\ num[y] < nextChunk'
       /\ \A s, y \in T : builder[w][s].rows # <<>> /\ builder[w][y].rows # <<>>
                              /\ num[s] = num[y] => s = y
       /\ \A x \in Writers, y \in Topics : IF x = w /\ y \in T
              THEN /\ flushed'[x][y] = pending[w][y] \o Sealed(w, y, num[y])
                   /\ pending'[x][y] = <<>> /\ builder'[x][y].rows = <<>>
              ELSE /\ flushed'[x][y] = flushed[x][y] /\ pending'[x][y] = pending[x][y]
                   /\ builder'[x][y] = builder[x][y]
  <2>1. \A x \in Writers, y \in Topics : IF x = w /\ y \in T
              THEN /\ flushed'[x][y] = pending[w][y] \o Sealed(w, y, num[y])
                   /\ pending'[x][y] = <<>> /\ builder'[x][y].rows = <<>>
              ELSE /\ flushed'[x][y] = flushed[x][y] /\ pending'[x][y] = pending[x][y]
                   /\ builder'[x][y] = builder[x][y]
    BY <1>9, Zenon
  <2> HIDE DEF b
  <2> QED BY <1>10, <2>1, Zenon
<1>13. accepted' = accepted /\ UNCHANGED <<sealed, queue, plan, rejected, evicted>>
  BY <1>2
<1>14. num \in [Topics -> Nat] /\ nextChunk <= nextChunk'
  BY <1>8, <1>10
<1> HIDE DEF T, b
<1>15. Flushes(w, T, num)
  BY <1>11, <1>12, <1>13, <1>14, Zenon DEF Flushes
<1> QED BY <1>11, <1>14, <1>15, FlushStep

(* DataWriter::flushAll keeps the invariant: the topics it seals get       *)
(* different chunk ids.                                                    *)
LEMMA FlushAllTrace ==
    ASSUME TraceInv, TypeOK', BuilderRoom', NEW w \in Writers, flushAll(w)
    PROVE  TraceInv'
<1> DEFINE open == {t \in Topics : builder[w][t].rows # <<>>}
           put(order, t) == pending[w][t] \o
                       (IF t \in open
                        THEN <<[seal(builder[w][t]) EXCEPT !.id = nextChunk + order[t]]>>
                        ELSE <<>>)
           bs == [t \in Topics |-> IF t \in open THEN NewBuilder ELSE builder[w][t]]
<1>1. TypeOK /\ nextChunk \in Nat
  BY DEF TraceInv, TypeOK
<1>2. PICK order \in [open -> 0 .. Cardinality(open) - 1] :
        /\ \A s, t \in open : order[s] = order[t] => s = t
        /\ flushed' = [flushed EXCEPT ![w] = [t \in Topics |-> put(order, t)]]
  BY DEF flushAll
<1>3. /\ pending' = [pending EXCEPT ![w] = Empty]
      /\ builder' = [builder EXCEPT ![w] = bs]
      /\ nextChunk' = nextChunk + Cardinality(open)
      /\ UNCHANGED <<sealed, queue, plan, accepted, rejected, evicted>>
      /\ flushed[w] = Empty
  BY DEF flushAll, loopVars
<1>4. Cardinality(open) \in Nat
  <2>1. open \in SUBSET Topics
    OBVIOUS
  <2> HIDE DEF open
  <2> QED BY <2>1, FS_Subset, FS_CardinalityType, FiniteAssumption
<1> DEFINE num == [t \in Topics |-> IF t \in open THEN nextChunk + order[t] ELSE 0]
<1>5. \A t \in open : order[t] \in Nat /\ order[t] < Cardinality(open)
  <2>1. \A c \in Nat : \A i \in 0 .. c - 1 : i \in Nat /\ i < c
    OBVIOUS
  <2> QED BY <1>2, <1>4, <2>1
<1>6. num \in [Topics -> Nat] /\ \A t \in open : num[t] = nextChunk + order[t]
  <2> HIDE DEF open
  <2>1. ASSUME NEW t \in Topics PROVE (IF t \in open THEN nextChunk + order[t] ELSE 0) \in Nat
    BY <1>1, <1>5
  <2>2. open \subseteq Topics
    BY DEF open
  <2> QED BY <2>1, <2>2
<1>7. ASSUME NEW t \in Topics
      PROVE  put(order, t) = pending[w][t] \o Sealed(w, t, num[t])
  <2>1. CASE t \in open
    <3>1. builder[w][t].rows # <<>> /\ num[t] = nextChunk + order[t]
      BY <1>6, <2>1
    <3> HIDE DEF num, open
    <3> QED BY <2>1, <3>1 DEF Sealed
  <2>2. CASE t \notin open
    <3>1. builder[w][t].rows = <<>>
      BY <2>2
    <3> HIDE DEF num, open
    <3> QED BY <2>2, <3>1 DEF Sealed
  <2> QED BY <2>1, <2>2
<1>8. ASSUME NEW t \in Topics PROVE bs[t].rows = <<>>
  BY DEF NewBuilder
<1>9. \A t \in Topics : flushed[w][t] = <<>>
  BY <1>3 DEF Empty
<1>10. \A t \in Topics : builder[w][t].rows # <<>> => t \in open
  OBVIOUS
<1>11. open \subseteq Topics
  OBVIOUS
<1> HIDE DEF open, bs, num, put
<1>12. ASSUME NEW x \in Writers, NEW t \in Topics
       PROVE  IF x = w /\ t \in Topics
              THEN /\ flushed'[x][t] = pending[w][t] \o Sealed(w, t, num[t])
                   /\ pending'[x][t] = <<>> /\ builder'[x][t].rows = <<>>
              ELSE /\ flushed'[x][t] = flushed[x][t] /\ pending'[x][t] = pending[x][t]
                   /\ builder'[x][t] = builder[x][t]
  <2>1. /\ flushed \in [Writers -> [Topics -> Seq(Chunk)]]
        /\ pending \in [Writers -> [Topics -> Seq(Chunk)]]
        /\ builder \in [Writers -> [Topics -> Builder]]
    BY <1>1 DEF TypeOK
  <2>2. flushed'[x][t] = IF x = w THEN put(order, t) ELSE flushed[x][t]
    BY <1>2, <2>1
  <2>3. pending'[x][t] = IF x = w THEN <<>> ELSE pending[x][t]
    BY <1>3, <2>1 DEF Empty
  <2>4. builder'[x][t] = IF x = w THEN bs[t] ELSE builder[x][t]
    BY <1>3, <2>1
  <2> QED BY <1>7, <1>8, <2>2, <2>3, <2>4
<1>13. \A t \in Topics : builder[w][t].rows # <<>> => nextChunk <= num[t] /\ num[t] < nextChunk'
  <2>1. ASSUME NEW t \in open PROVE nextChunk <= num[t] /\ num[t] < nextChunk'
    <3>1. num[t] = nextChunk + order[t] /\ order[t] \in Nat /\ order[t] < Cardinality(open)
      BY <1>5, <1>6
    <3> QED BY <1>1, <1>3, <1>4, <3>1
  <2> QED BY <1>10, <2>1
<1>14. \A s, t \in Topics : builder[w][s].rows # <<>> /\ builder[w][t].rows # <<>>
                              /\ num[s] = num[t] => s = t
  <2>1. ASSUME NEW s \in open, NEW t \in open, num[s] = num[t] PROVE s = t
    <3>1. nextChunk + order[s] = nextChunk + order[t] /\ order[s] \in Nat /\ order[t] \in Nat
      BY <1>5, <1>6, <2>1
    <3>2. order[s] = order[t]
      BY <1>1, <3>1
    <3> QED BY <1>2, <3>2
  <2> QED BY <1>10, <2>1
<1>15. nextChunk <= nextChunk'
  BY <1>1, <1>3, <1>4
<1>16. Topics \in SUBSET Topics
  OBVIOUS
<1>17. accepted' = accepted /\ UNCHANGED <<sealed, queue, plan, rejected, evicted>>
  BY <1>3
<1>18. num \in [Topics -> Nat]
  BY <1>6
<1>19. \A x \in Writers, t \in Topics :
          IF x = w /\ t \in Topics
              THEN /\ flushed'[x][t] = pending[w][t] \o Sealed(w, t, num[t])
                   /\ pending'[x][t] = <<>> /\ builder'[x][t].rows = <<>>
              ELSE /\ flushed'[x][t] = flushed[x][t] /\ pending'[x][t] = pending[x][t]
                   /\ builder'[x][t] = builder[x][t]
  BY <1>12, Zenon
<1>20. Flushes(w, Topics, num)
  BY <1>9, <1>13, <1>14, <1>15, <1>17, <1>19, Zenon DEF Flushes
<1> QED BY <1>16, <1>18, <1>20, FlushStep

(* Every step of every writer, commit, retention and transfer keeps the    *)
(* invariant.                                                              *)
LEMMA TraceStep == TraceInv /\ [Next]_vars => TraceInv'
<1> SUFFICES ASSUME TraceInv, [Next]_vars PROVE TraceInv'
  OBVIOUS
<1>0. TypeOK' /\ BuilderRoom'
  BY TypeStep DEF TraceInv
<1>t. TypeOK /\ PlanApart
  BY DEF TraceInv
<1>1. ASSUME NEW e \in Engines, NEW t \in Topics, createTopic(e, t) PROVE TraceInv'
  <2>1. UNCHANGED <<builder, pending, flushed, sealed, queue, plan, nextChunk, accepted, rejected, evicted>>
    BY <1>1 DEF createTopic, loopVars
  <2>2. Untouched({})
    BY <2>1 DEF Untouched
  <2>3. PlanApart'
    BY <1>t, <2>1 DEF PlanApart
  <2> QED BY <1>0, <2>1, <2>2, <2>3, QuietStep
<1>2. ASSUME NEW w \in Writers, NEW t \in Topics, NEW ts \in Time, beginRow(w, t, ts) PROVE TraceInv'
  <2> DEFINE b == beginRowIn(builder[w][t], ts)
  <2>1. /\ UNCHANGED <<pending, flushed, sealed, queue, plan, nextChunk, accepted, rejected, evicted>>
        /\ builder' = [builder EXCEPT ![w][t] = b]
    BY <1>2 DEF beginRow, loopVars
  <2>2. builder[w][t] \in Builder /\ builder \in [Writers -> [Topics -> Builder]]
    BY <1>t DEF TypeOK
  <2>3. b \in Builder
    BY <1>t, <2>2, BuilderOps
  <2>4. b.rows = builder[w][t].rows
    BY <2>2 DEF beginRowIn, Builder
  <2> HIDE DEF b
  <2>5. \A x \in Writers, y \in Topics : builder'[x][y] = IF x = w /\ y = t THEN b ELSE builder[x][y]
    BY <2>1, <2>2, <2>3, Update2
  <2>6. \A x \in Writers, y \in Topics : builder'[x][y].rows = builder[x][y].rows
    BY <2>4, <2>5
  <2>7. Untouched({})
    BY <2>1, <2>6 DEF Untouched
  <2>8. PlanApart'
    BY <1>t, <2>1 DEF PlanApart
  <2> QED BY <1>0, <2>1, <2>7, <2>8, QuietStep
<1>3. ASSUME NEW w \in Writers, NEW t \in Topics, NEW ts \in Time, appendScalar(w, t, ts) PROVE TraceInv'
  <2> DEFINE a == beginRowIn(builder[w][t], ts)
             b == finishRowIn(a)
  <2>1. /\ autoSeal(w, t, b) /\ accepted' = accepted + 1
        /\ UNCHANGED <<flushed, sealed, queue, plan, rejected, evicted>>
    BY <1>3 DEF appendScalar, loopVars
  <2>2. builder[w][t] \in Builder
    BY <1>t DEF TypeOK
  <2>3. a \in Builder
    BY <1>t, <2>2, BuilderOps
  <2>4. a.rows = builder[w][t].rows
    BY <2>2 DEF beginRowIn, Builder
  <2> HIDE DEF a
  <2>5. /\ b \in Builder /\ RowsDistinct(b.rows)
        /\ RowTok(b.rows) = RowTok(builder[w][t].rows) \cup {<<"row", n>> : n \in accepted + 1 .. accepted + 1}
    BY <2>3, <2>4, FinishRows
  <2> HIDE DEF b
  <2> QED BY <1>0, <2>1, <2>5, GrowStep
<1>4. ASSUME NEW w \in Writers, NEW t \in Topics, NEW ts \in Batches, appendColumns(w, t, ts) PROVE TraceInv'
  <2>1. UNCHANGED <<builder, pending, flushed, sealed, queue, plan, nextChunk, accepted, rejected, evicted>>
    BY <1>4 DEF appendColumns
  <2>2. Untouched({})
    BY <2>1 DEF Untouched
  <2>3. PlanApart'
    BY <1>t, <2>1 DEF PlanApart
  <2> QED BY <1>0, <2>1, <2>2, <2>3, QuietStep
<1>5. ASSUME NEW w \in Writers, NEW t \in Topics, finishRow(w, t) PROVE TraceInv'
  <2> DEFINE b == finishRowIn(builder[w][t])
  <2>1. /\ autoSeal(w, t, b) /\ accepted' = accepted + 1
        /\ UNCHANGED <<flushed, sealed, queue, plan, rejected, evicted>>
    BY <1>5 DEF finishRow, loopVars
  <2>2. builder[w][t] \in Builder
    BY <1>t DEF TypeOK
  <2>5. /\ b \in Builder /\ RowsDistinct(b.rows)
        /\ RowTok(b.rows) = RowTok(builder[w][t].rows) \cup {<<"row", n>> : n \in accepted + 1 .. accepted + 1}
    BY <2>2, FinishRows
  <2> HIDE DEF b
  <2> QED BY <1>0, <2>1, <2>5, GrowStep
<1>6. ASSUME NEW w \in Writers, NEW t \in Topics, appendBatch(w, t) PROVE TraceInv'
  <2> DEFINE n == Lower(Len(rest[w][t]), remainingCapacity(builder[w][t]))
             s == SubSeq(rest[w][t], 1, n)
             b == appendTimestamps(builder[w][t], s)
  <2>0. builder[w][t] \in Builder /\ rest[w][t] \in Seq(Time) /\ rest[w][t] # <<>>
    BY <1>6, <1>t DEF TypeOK, appendBatch
  <2>1. n \in 1 .. Len(rest[w][t])
    <3>1. Len(builder[w][t].rows) \in Nat /\ Len(builder[w][t].rows) < MaxChunkRows
      BY <2>0 DEF TraceInv, BuilderRoom, Builder
    <3>2. Len(rest[w][t]) \in Nat \ {0}
      BY <2>0
    <3>3. remainingCapacity(builder[w][t]) \in Nat \ {0}
      BY <3>1, ChunkAssumption DEF remainingCapacity
    <3> QED BY <3>2, <3>3 DEF Lower
  <2>2. /\ autoSeal(w, t, b) /\ accepted' = accepted + n
        /\ UNCHANGED <<flushed, sealed, queue, plan, rejected, evicted>>
    BY <1>6 DEF appendBatch
  <2> HIDE DEF n
  <2>3. s \in Seq(Time) /\ s # <<>> /\ Len(s) = n /\ n \in Nat
    BY <2>0, <2>1
  <2> HIDE DEF s
  <2>4. /\ b \in Builder /\ RowsDistinct(b.rows)
        /\ RowTok(b.rows) = RowTok(builder[w][t].rows) \cup {<<"row", i>> : i \in accepted + 1 .. accepted + n}
    BY <2>3, BatchRows
  <2> HIDE DEF b
  <2> QED BY <1>0, <2>2, <2>3, <2>4, GrowStep
<1>7. ASSUME NEW w \in Writers, NEW t \in Topics, flush(w, t) PROVE TraceInv'
  BY <1>0, <1>7, FlushTrace
<1>8. ASSUME NEW w \in Writers, flushAll(w) PROVE TraceInv'
  BY <1>0, <1>8, FlushAllTrace
<1>9. ASSUME NEW w \in Writers, commitChunks(w) PROVE TraceInv'
  BY <1>0, <1>9, CommitStep
<1>10. ASSUME NEW w \in Writers, NEW t \in Topics, appendSealedChunk(w, t) PROVE TraceInv'
  BY <1>0, <1>10, AppendSealedStep
<1>11. ASSUME NEW e \in Engines, NEW window \in Windows, enforceRetention(e, window) PROVE TraceInv'
  BY <1>0, <1>11, RetentionStep
<1>12. ASSUME NEW e \in Engines, NEW f \in Engines, flushTo(e, f) PROVE TraceInv'
  <2>1. UNCHANGED <<builder, pending, flushed, sealed, queue, nextChunk, accepted, rejected, evicted>>
    BY <1>12 DEF flushTo
  <2>2. Untouched({})
    BY <2>1 DEF Untouched
  <2>3. PlanApart'
    <3>1. e # f
      BY <1>12 DEF flushTo
    <3>2. \A s \in plan' : s.from = e /\ s.to = f
      BY <1>12 DEF flushTo
    <3> QED BY <3>1, <3>2 DEF PlanApart
  <2> QED BY <1>0, <2>1, <2>2, <2>3, QuietStep
<1>13. ASSUME NEW s \in plan, moveChunks(s) PROVE TraceInv'
  BY <1>0, <1>13, MoveStep
<1>14. CASE UNCHANGED vars
  <2>1. UNCHANGED <<builder, pending, flushed, sealed, queue, plan, nextChunk, accepted, rejected, evicted>>
    BY <1>14 DEF vars
  <2>2. Untouched({})
    BY <2>1 DEF Untouched
  <2>3. PlanApart'
    BY <1>t, <2>1 DEF PlanApart
  <2> QED BY <1>0, <2>1, <2>2, <2>3, QuietStep
<1> QED
  BY <1>1, <1>2, <1>3, <1>4, <1>5, <1>6, <1>7, <1>8, <1>9, <1>10, <1>11, <1>12, <1>13, <1>14
     DEF Next

-----------------------------------------------------------------------------
(* What the invariant gives. *)

(* The tokens are always apart, numbered and complete.                     *)
LEMMA TraceAlways == Spec => []TraceInv
BY TraceInit, TraceStep, PTL DEF Spec

(* Chunks that share an id share a token, so that they are the same chunk  *)
(* in the same place.                                                      *)
LEMMA IdsFollow == TraceInv => ChunkIdsUnique
<1> SUFFICES ASSUME TraceInv, NEW p \in Places, NEW q \in Places,
                    NEW i \in DOMAIN ChunksAt(p), NEW j \in DOMAIN ChunksAt(q),
                    ChunksAt(p)[i].id = ChunksAt(q)[j].id
             PROVE  p = q /\ i = j
  BY DEF ChunkIdsUnique
<1> DEFINE x == <<"chunk", ChunksAt(p)[i].id>>
<1>1. x \in Tok(ChunksAt(p)[i]) /\ x \in Tok(ChunksAt(q)[j])
  BY DEF Tok
<1>2. x \in Toks(ChunksAt(p)) /\ x \in Toks(ChunksAt(q))
  BY <1>1 DEF Toks
<1>3. p \in Cells /\ q \in Cells /\ TokAt(p) = Toks(ChunksAt(p)) /\ TokAt(q) = Toks(ChunksAt(q))
  BY PlaceCases
<1> HIDE DEF x
<1>4. p = q
  BY <1>2, <1>3 DEF TraceInv, Apart
<1>5. OneEach(ChunksAt(p))
  BY DEF TraceInv, Single
<1> QED BY <1>1, <1>4, <1>5 DEF OneEach

(* No two chunks have the same ChunkId, whether they are pending in a      *)
(* writer, returned by a flush, queued for a commit or committed in any    *)
(* engine: the one counter all builders draw from never gives an id twice, *)
(* and no operation keeps a second copy of a chunk.                        *)
THEOREM IdsNeverReused == Spec => []ChunkIdsUnique
BY TraceAlways, IdsFollow, PTL

-----------------------------------------------------------------------------
(* The elements of RowPlaces. *)

InChunk(y, id, p, i, j) ==
    /\ p \in Places /\ i \in DOMAIN ChunksAt(p) /\ j \in DOMAIN ChunksAt(p)[i].rows
    /\ y = <<<<p, i>>, j>> /\ ChunksAt(p)[i].rows[j].id = id

InBuilder(y, id, w, t, j) ==
    /\ w \in Writers /\ t \in Topics /\ j \in DOMAIN builder[w][t].rows
    /\ y = <<<<w, t>>, j>> /\ builder[w][t].rows[j].id = id

(* A place of a row is one in a chunk or one in a builder.                 *)
LEMMA RowPlaceForms ==
    ASSUME NEW id, NEW y
    PROVE  y \in RowPlaces(id) <=>
              \/ \E p, i, j : InChunk(y, id, p, i, j)
              \/ \E w, t, j : InBuilder(y, id, w, t, j)
              \/ y = <<"rejected">> /\ id \in rejected
              \/ y = <<"evicted">> /\ id \in evicted
<1> DEFINE A == UNION {{x} \X Holding(ChunksAt(x[1])[x[2]].rows, id) : x \in ChunkPlaces}
           B == UNION {{x} \X Holding(builder[x[1]][x[2]].rows, id) : x \in Writers \X Topics}
           H == {<<h>> : h \in {k \in {"rejected", "evicted"} :
                        id \in IF k = "rejected" THEN rejected ELSE evicted}}
<1>1. y \in A <=> \E p, i, j : InChunk(y, id, p, i, j)
  <2>1. ASSUME y \in A PROVE \E p, i, j : InChunk(y, id, p, i, j)
    <3>1. PICK x \in ChunkPlaces : y \in {x} \X Holding(ChunksAt(x[1])[x[2]].rows, id)
      BY <2>1
    <3>2. PICK p \in Places : x \in {p} \X DOMAIN ChunksAt(p)
      BY DEF ChunkPlaces
    <3>3. PICK i \in DOMAIN ChunksAt(p) : x = <<p, i>>
      BY <3>2
    <3>4. PICK j \in Holding(ChunksAt(p)[i].rows, id) : y = <<x, j>>
      BY <3>1, <3>3
    <3>5. InChunk(y, id, p, i, j)
      BY <3>3, <3>4 DEF InChunk, Holding
    <3> QED BY <3>5
  <2>2. ASSUME NEW p, NEW i, NEW j, InChunk(y, id, p, i, j) PROVE y \in A
    <3>1. /\ p \in Places /\ i \in DOMAIN ChunksAt(p) /\ y = <<<<p, i>>, j>>
          /\ j \in Holding(ChunksAt(p)[i].rows, id)
      BY <2>2 DEF InChunk, Holding
    <3>2. <<p, i>> \in ChunkPlaces
      BY <3>1 DEF ChunkPlaces
    <3>3. PICK x \in ChunkPlaces : x = <<p, i>> /\ x[1] = p /\ x[2] = i
      BY <3>2
    <3>4. y \in {x} \X Holding(ChunksAt(x[1])[x[2]].rows, id)
      BY <3>1, <3>3
    <3> QED BY <3>4
  <2> QED BY <2>1, <2>2
<1>2. y \in B <=> \E w, t, j : InBuilder(y, id, w, t, j)
  <2>1. ASSUME y \in B PROVE \E w, t, j : InBuilder(y, id, w, t, j)
    <3>1. PICK x \in Writers \X Topics : y \in {x} \X Holding(builder[x[1]][x[2]].rows, id)
      BY <2>1
    <3>2. PICK w \in Writers, t \in Topics : x = <<w, t>>
      OBVIOUS
    <3>3. PICK j \in Holding(builder[w][t].rows, id) : y = <<x, j>>
      BY <3>1, <3>2
    <3>4. InBuilder(y, id, w, t, j)
      BY <3>2, <3>3 DEF InBuilder, Holding
    <3> QED BY <3>4
  <2>2. ASSUME NEW w, NEW t, NEW j, InBuilder(y, id, w, t, j) PROVE y \in B
    <3>1. /\ w \in Writers /\ t \in Topics /\ y = <<<<w, t>>, j>>
          /\ j \in Holding(builder[w][t].rows, id)
      BY <2>2 DEF InBuilder, Holding
    <3>2. PICK x \in Writers \X Topics : x = <<w, t>> /\ x[1] = w /\ x[2] = t
      BY <3>1
    <3>3. y \in {x} \X Holding(builder[x[1]][x[2]].rows, id)
      BY <3>1, <3>2
    <3> QED BY <3>3
  <2> QED BY <2>1, <2>2
<1>3. y \in H <=> \/ y = <<"rejected">> /\ id \in rejected
                  \/ y = <<"evicted">> /\ id \in evicted
  <2>1. "rejected" # "evicted"
    OBVIOUS
  <2> QED BY <2>1
<1>4. RowPlaces(id) = A \cup B \cup H
  BY Zenon DEF RowPlaces
<1> HIDE DEF A, B, H
<1> QED BY <1>1, <1>2, <1>3, <1>4

(* The cell of a place.                                                    *)
LEMMA InChunkCell ==
    ASSUME NEW y, NEW id, NEW p, NEW i, NEW j, InChunk(y, id, p, i, j)
    PROVE  /\ p \in Cells /\ <<"row", id>> \in TokAt(p)
           /\ <<"row", id>> \in Tok(ChunksAt(p)[i])
<1>1. /\ p \in Places /\ i \in DOMAIN ChunksAt(p) /\ j \in DOMAIN ChunksAt(p)[i].rows
      /\ ChunksAt(p)[i].rows[j].id = id
  BY DEF InChunk
<1>2. <<"row", id>> \in RowTok(ChunksAt(p)[i].rows)
  BY <1>1 DEF RowTok
<1>3. <<"row", id>> \in Tok(ChunksAt(p)[i])
  BY <1>2 DEF Tok
<1>4. <<"row", id>> \in Toks(ChunksAt(p))
  BY <1>1, <1>3 DEF Toks
<1> QED BY <1>1, <1>3, <1>4, PlaceCases

(* The cell of a place in a builder.                                       *)
LEMMA InBuilderCell ==
    ASSUME NEW y, NEW id, NEW w, NEW t, NEW j, InBuilder(y, id, w, t, j)
    PROVE  <<"builder", w, t>> \in Cells /\ <<"row", id>> \in TokAt(<<"builder", w, t>>)
<1>1. /\ w \in Writers /\ t \in Topics /\ j \in DOMAIN builder[w][t].rows
      /\ builder[w][t].rows[j].id = id
  BY DEF InBuilder
<1>2. <<"row", id>> \in RowTok(builder[w][t].rows)
  BY <1>1 DEF RowTok
<1> QED BY <1>1, <1>2, CellFacts

(* A place in a chunk is not a place in a builder.                         *)
LEMMA NotBuilderPlace ==
    ASSUME NEW p \in Places, NEW w, NEW t
    PROVE  p # <<"builder", w, t>> /\ p # <<"rejected">> /\ p # <<"evicted">>
<1>1. p[1] \in {"pending", "flushed", "queue", "sealed"}
  BY PlaceCases
<1>2. /\ <<"builder", w, t>>[1] = "builder" /\ <<"rejected">>[1] = "rejected"
      /\ <<"evicted">>[1] = "evicted"
  OBVIOUS
<1> QED BY <1>1, <1>2

(* A row that lay in two places would be a token in two cells, or twice in *)
(* one.                                                                    *)
LEMMA OnePlace == TraceInv => RowsConserved
<1> SUFFICES ASSUME TraceInv, NEW id \in 1 .. accepted PROVE Cardinality(RowPlaces(id)) = 1
  BY DEF RowsConserved
<1> DEFINE r == <<"row", id>>
<1>0. Apart /\ Single /\ AllKept /\ accepted \in Nat
  BY DEF TraceInv, TypeOK
<1>1. \E y : y \in RowPlaces(id)
  <2>1. PICK p \in Cells : r \in TokAt(p)
    BY <1>0 DEF AllKept
  <2>2. CASE p \in Places
    <3>1. r \in Toks(ChunksAt(p))
      BY <2>1, <2>2, PlaceCases
    <3>2. PICK i \in DOMAIN ChunksAt(p) : r \in Tok(ChunksAt(p)[i])
      BY <3>1 DEF Toks
    <3>3. r \in RowTok(ChunksAt(p)[i].rows)
      BY <3>2, TokForms
    <3>4. PICK j \in DOMAIN ChunksAt(p)[i].rows : r = <<"row", ChunksAt(p)[i].rows[j].id>>
      BY <3>3 DEF RowTok
    <3>5. ChunksAt(p)[i].rows[j].id = id
      BY <3>4
    <3>6. InChunk(<<<<p, i>>, j>>, id, p, i, j)
      BY <2>2, <3>5 DEF InChunk
    <3> QED BY <3>6, RowPlaceForms
  <2>3. CASE \E w \in Writers, t \in Topics : p = <<"builder", w, t>>
    <3>1. PICK w \in Writers, t \in Topics : p = <<"builder", w, t>>
      BY <2>3
    <3>2. r \in RowTok(builder[w][t].rows)
      BY <2>1, <3>1, CellFacts
    <3>3. PICK j \in DOMAIN builder[w][t].rows : r = <<"row", builder[w][t].rows[j].id>>
      BY <3>2 DEF RowTok
    <3>4. builder[w][t].rows[j].id = id
      BY <3>3
    <3>5. InBuilder(<<<<w, t>>, j>>, id, w, t, j)
      BY <3>4 DEF InBuilder
    <3> QED BY <3>5, RowPlaceForms
  <2>4. CASE p = <<"rejected">>
    <3>1. PICK n \in rejected : r = <<"row", n>>
      BY <2>1, <2>4, CellFacts
    <3>2. id \in rejected
      BY <3>1
    <3> QED BY <3>2, RowPlaceForms
  <2>5. CASE p = <<"evicted">>
    <3>1. PICK n \in evicted : r = <<"row", n>>
      BY <2>1, <2>5, CellFacts
    <3>2. id \in evicted
      BY <3>1
    <3> QED BY <3>2, RowPlaceForms
  <2> QED BY <2>2, <2>3, <2>4, <2>5 DEF Cells
<1>2. /\ <<"rejected">> \in Cells /\ <<"evicted">> \in Cells
      /\ id \in rejected => r \in TokAt(<<"rejected">>)
      /\ id \in evicted => r \in TokAt(<<"evicted">>)
  BY CellFacts
<1> HIDE DEF r
<1>3. \A p, q \in Cells : r \in TokAt(p) /\ r \in TokAt(q) => p = q
  BY <1>0 DEF Apart
<1>4. ASSUME NEW y \in RowPlaces(id), NEW z \in RowPlaces(id) PROVE y = z
  <2>1. ASSUME NEW p, NEW i, NEW j, InChunk(y, id, p, i, j) PROVE y = z
    <3>0. p \in Places /\ p \in Cells /\ r \in TokAt(p) /\ r \in Tok(ChunksAt(p)[i])
      BY <2>1, InChunkCell DEF r, InChunk
    <3>1. ASSUME NEW q, NEW g, NEW h, InChunk(z, id, q, g, h) PROVE y = z
      <4>0. q \in Cells /\ r \in TokAt(q) /\ r \in Tok(ChunksAt(q)[g])
        BY <3>1, InChunkCell DEF r
      <4>1. p = q
        BY <1>3, <3>0, <4>0
      <4>2. /\ i \in DOMAIN ChunksAt(p) /\ g \in DOMAIN ChunksAt(p)
            /\ j \in DOMAIN ChunksAt(p)[i].rows /\ h \in DOMAIN ChunksAt(p)[g].rows
            /\ ChunksAt(p)[i].rows[j].id = id /\ ChunksAt(p)[g].rows[h].id = id
            /\ y = <<<<p, i>>, j>> /\ z = <<<<p, g>>, h>>
        BY <2>1, <3>1, <4>1 DEF InChunk
      <4>3. OneEach(ChunksAt(p))
        BY <1>0, <3>0 DEF Single
      <4>4. i = g
        BY <3>0, <4>0, <4>1, <4>2, <4>3 DEF OneEach
      <4>5. j = h
        BY <4>2, <4>3, <4>4 DEF OneEach, RowsDistinct
      <4> QED BY <4>2, <4>4, <4>5
    <3>2. ASSUME NEW w, NEW t, NEW h, InBuilder(z, id, w, t, h) PROVE y = z
      <4>1. <<"builder", w, t>> \in Cells /\ r \in TokAt(<<"builder", w, t>>)
        BY <3>2, InBuilderCell DEF r
      <4> QED BY <1>3, <3>0, <4>1, NotBuilderPlace
    <3>3. id \notin rejected /\ id \notin evicted
      BY <1>2, <1>3, <3>0, NotBuilderPlace
    <3> QED BY <3>1, <3>2, <3>3, RowPlaceForms
  <2>2. ASSUME NEW w, NEW t, NEW j, InBuilder(y, id, w, t, j) PROVE y = z
    <3>0. <<"builder", w, t>> \in Cells /\ r \in TokAt(<<"builder", w, t>>)
      BY <2>2, InBuilderCell DEF r
    <3>1. ASSUME NEW q, NEW g, NEW h, InChunk(z, id, q, g, h) PROVE y = z
      <4>1. q \in Places /\ q \in Cells /\ r \in TokAt(q)
        BY <3>1, InChunkCell DEF r, InChunk
      <4> QED BY <1>3, <3>0, <4>1, NotBuilderPlace
    <3>2. ASSUME NEW v, NEW s, NEW h, InBuilder(z, id, v, s, h) PROVE y = z
      <4>1. <<"builder", v, s>> \in Cells /\ r \in TokAt(<<"builder", v, s>>)
        BY <3>2, InBuilderCell DEF r
      <4>2. <<"builder", v, s>> = <<"builder", w, t>>
        BY <1>3, <3>0, <4>1
      <4>3. v = w /\ s = t
        BY <4>2
      <4>4. /\ w \in Writers /\ t \in Topics /\ j \in DOMAIN builder[w][t].rows
            /\ h \in DOMAIN builder[w][t].rows /\ builder[w][t].rows[j].id = id
            /\ builder[w][t].rows[h].id = id /\ y = <<<<w, t>>, j>> /\ z = <<<<w, t>>, h>>
        BY <2>2, <3>2, <4>3 DEF InBuilder
      <4>5. j = h
        BY <1>0, <4>4 DEF Single, RowsDistinct
      <4> QED BY <4>4, <4>5
    <3>3. id \notin rejected /\ id \notin evicted
      <4>1. <<"builder", w, t>> # <<"rejected">> /\ <<"builder", w, t>> # <<"evicted">>
        OBVIOUS
      <4> QED BY <1>2, <1>3, <3>0, <4>1
    <3> QED BY <3>1, <3>2, <3>3, RowPlaceForms
  <2>3. ASSUME id \in rejected \/ id \in evicted PROVE y = z
    <3>1. ASSUME NEW x \in RowPlaces(id), NEW p, NEW i, NEW j, InChunk(x, id, p, i, j) PROVE FALSE
      <4>1. p \in Places /\ p \in Cells /\ r \in TokAt(p)
        BY <3>1, InChunkCell DEF r, InChunk
      <4> QED BY <1>2, <1>3, <2>3, <4>1, NotBuilderPlace
    <3>2. ASSUME NEW x \in RowPlaces(id), NEW w, NEW t, NEW j, InBuilder(x, id, w, t, j) PROVE FALSE
      <4>1. <<"builder", w, t>> \in Cells /\ r \in TokAt(<<"builder", w, t>>)
        BY <3>2, InBuilderCell DEF r
      <4>2. <<"builder", w, t>> # <<"rejected">> /\ <<"builder", w, t>> # <<"evicted">>
        OBVIOUS
      <4> QED BY <1>2, <1>3, <2>3, <4>1, <4>2
    <3>3. ~(id \in rejected /\ id \in evicted)
      <4>1. <<"rejected">> # <<"evicted">>
        OBVIOUS
      <4> QED BY <1>2, <1>3, <4>1
    <3>4. \A x \in RowPlaces(id) : \/ x = <<"rejected">> /\ id \in rejected
                                   \/ x = <<"evicted">> /\ id \in evicted
      BY <3>1, <3>2, RowPlaceForms
    <3> QED BY <3>3, <3>4
  <2> QED BY <2>1, <2>2, <2>3, RowPlaceForms
<1>5. PICK y : y \in RowPlaces(id)
  BY <1>1
<1>6. RowPlaces(id) = {y}
  BY <1>4, <1>5
<1> QED BY <1>6, FS_Singleton

(* Every row a builder accepted is in exactly one place: in its builder, in*)
(* one chunk on its way to a topic or in one, refused by appendSealedChunk,*)
(* or evicted by retention. Any number of writers may seal, flush, flushAll*)
(* and commit between the steps of enforceRetention and of flushTo.        *)
THEOREM NoRowLostOrDoubled == Spec => []RowsConserved
BY TraceAlways, OnePlace, PTL

-----------------------------------------------------------------------------

(* A row's timestamp is not after the end of its chunk.                    *)
LEMMA RowBeforeEnd ==
    ASSUME NEW c \in Chunk, ChunkOK(c), NEW j \in DOMAIN c.rows
    PROVE  c.rows[j].ts <= c.tmax
<1> DEFINE l == Len(c.rows)
<1>1. l \in Nat /\ DOMAIN c.rows = 1 .. l
  BY DEF Chunk
<1>2. l \in 1 .. MaxChunkRows /\ c.tmax = c.rows[l].ts
  BY DEF ChunkOK
<1> HIDE DEF l
<1>3. j <= l /\ l \in 1 .. l
  BY <1>1, <1>2, ChunkAssumption
<1>4. \A i, k \in 1 .. l : i <= k => c.rows[i].ts <= c.rows[k].ts
  BY DEF ChunkOK, RowsSorted, l
<1> QED BY <1>1, <1>2, <1>3, <1>4

(* A chunk enforceRetention drops ends before the window, and so do its    *)
(* rows.                                                                   *)
LEMMA WindowStep ==
    ASSUME TraceInv, TopicsInOrder, [Next]_vars, evicted' # evicted,
           NEW e \in Engines, NEW t \in Topics, NEW i \in DOMAIN sealed[e][t],
           NEW j \in DOMAIN sealed[e][t][i].rows,
           \A window \in Windows : sealed[e][t][i].rows[j].ts >= time_max(sealed[e][t]) - window
    PROVE  sealed[e][t][i].rows[j].id \notin evicted'
<1> DEFINE c == sealed[e][t][i]
           id == c.rows[j].id
           S(f, s) == <<"sealed", f, s>>
<1>0. TypeOK /\ Apart /\ Single
  BY DEF TraceInv
<1>1. PICK f \in Engines, window \in Windows : enforceRetention(f, window)
  <2>1. ASSUME NEW f \in Engines, NEW s \in Topics, createTopic(f, s) PROVE evicted' = evicted
    BY <2>1 DEF createTopic
  <2>2. ASSUME NEW w \in Writers, NEW s \in Topics, NEW ts, beginRow(w, s, ts) \/ appendScalar(w, s, ts)
        PROVE  evicted' = evicted
    BY <2>2 DEF beginRow, appendScalar
  <2>3. ASSUME NEW w \in Writers, NEW s \in Topics, NEW ts, appendColumns(w, s, ts)
        PROVE  evicted' = evicted
    BY <2>3 DEF appendColumns
  <2>4. ASSUME NEW w \in Writers, NEW s \in Topics, finishRow(w, s) \/ appendBatch(w, s)
        PROVE  evicted' = evicted
    BY <2>4 DEF finishRow, appendBatch
  <2>5. ASSUME NEW w \in Writers, NEW s \in Topics, flush(w, s) \/ appendSealedChunk(w, s)
        PROVE  evicted' = evicted
    BY <2>5 DEF flush, appendSealedChunk
  <2>6. ASSUME NEW w \in Writers, flushAll(w) \/ commitChunks(w) PROVE evicted' = evicted
    BY <2>6 DEF flushAll, commitChunks
  <2>7. ASSUME NEW g \in Engines, NEW f \in Engines, flushTo(g, f) PROVE evicted' = evicted
    BY <2>7 DEF flushTo
  <2>8. ASSUME NEW s \in plan, moveChunks(s) PROVE evicted' = evicted
    BY <2>8 DEF moveChunks
  <2>9. ASSUME UNCHANGED vars PROVE evicted' = evicted
    BY <2>9 DEF vars
  <2> QED BY <2>1, <2>2, <2>3, <2>4, <2>5, <2>6, <2>7, <2>8, <2>9 DEF Next
<1>2. PICK k \in [Topics -> Nat] :
         /\ \A s \in Topics :
               /\ k[s] \in 0 .. Len(sealed[f][s])
               /\ \A g \in 1 .. k[s] : sealed[f][s][g].tmax < time_max(sealed[f][s]) - window
         /\ evicted' = evicted \cup UNION {RowIds(SubSeq(sealed[f][s], 1, k[s])) : s \in Topics}
  BY <1>0, <1>1, RetentionEffect
<1>3. /\ sealed[e][t] \in Seq(Chunk) /\ i \in 1 .. Len(sealed[e][t]) /\ Len(sealed[e][t]) \in Nat
      /\ c \in Chunk /\ c.rows \in Seq(Row)
  <2>1. sealed[e][t] \in Seq(Chunk)
    BY <1>0 DEF TypeOK
  <2>2. c \in Chunk /\ i \in 1 .. Len(sealed[e][t])
    BY <2>1
  <2> QED BY <2>1, <2>2 DEF Chunk
<1>4. /\ S(e, t) \in Cells /\ TokAt(S(e, t)) = Toks(sealed[e][t])
      /\ <<"row", id>> \in Tok(c) /\ <<"row", id>> \in TokAt(S(e, t))
  <2>1. <<"row", id>> \in RowTok(c.rows)
    BY DEF RowTok
  <2>2. <<"row", id>> \in Tok(c)
    BY <2>1 DEF Tok
  <2>3. S(e, t) \in Cells /\ TokAt(S(e, t)) = Toks(sealed[e][t])
    BY CellFacts
  <2> QED BY <2>2, <2>3 DEF Toks
<1>5. id \notin evicted
  <2>1. <<"evicted">> \in Cells /\ (id \in evicted => <<"row", id>> \in TokAt(<<"evicted">>))
    BY CellFacts
  <2>2. S(e, t) # <<"evicted">>
    OBVIOUS
  <2> HIDE DEF S
  <2> QED BY <1>0, <1>4, <2>1, <2>2 DEF Apart
<1>6. ASSUME NEW s \in Topics, id \in RowIds(SubSeq(sealed[f][s], 1, k[s])) PROVE FALSE
  <2> DEFINE q == sealed[f][s]
             a == SubSeq(q, 1, k[s])
  <2>1. q \in Seq(Chunk) /\ k[s] \in 0 .. Len(q) /\ Len(q) \in Nat
    BY <1>0, <1>2 DEF TypeOK
  <2>2. a \in Seq(Chunk) /\ Len(a) = k[s] /\ \A g \in 1 .. k[s] : a[g] = q[g]
    BY <2>1, SuffixFacts
  <2>3. <<"row", id>> \in Toks(a)
    BY <1>6, <2>2, RowIdsToks
  <2>4. PICK g \in 1 .. k[s] : <<"row", id>> \in Tok(q[g])
    <3>1. PICK g \in DOMAIN a : <<"row", id>> \in Tok(a[g])
      BY <2>3 DEF Toks
    <3>2. g \in 1 .. k[s]
      BY <2>2
    <3> HIDE DEF a, id
    <3> QED BY <2>2, <3>1, <3>2
  <2>5. g \in 1 .. Len(q) /\ g \in DOMAIN q
    BY <2>1
  <2>6. S(f, s) \in Cells /\ <<"row", id>> \in TokAt(S(f, s))
    <3>1. S(f, s) \in Cells /\ TokAt(S(f, s)) = Toks(q)
      BY CellFacts
    <3> QED BY <2>4, <2>5, <3>1 DEF Toks
  <2>7. f = e /\ s = t
    <3>1. S(f, s) = S(e, t)
      <4> HIDE DEF S, id
      <4> QED BY <1>0, <1>4, <2>6 DEF Apart
    <3> QED BY <3>1
  <2>8. g = i
    <3>1. OneEach(sealed[e][t])
      BY <1>0, SingleParts
    <3>2. Tok(sealed[e][t][g]) \cap Tok(sealed[e][t][i]) # {}
      BY <1>4, <2>4, <2>7
    <3> QED BY <2>5, <2>7, <3>1, <3>2 DEF OneEach
  <2>9. c.tmax < time_max(sealed[e][t]) - window
    BY <1>2, <2>4, <2>7, <2>8
  <2>10. c.rows[j].ts <= c.tmax
    <3>1. ChunkOK(c)
      BY <1>3 DEF TopicsInOrder, ChunksOK
    <3> QED BY <1>3, <3>1, RowBeforeEnd
  <2>11. c.rows[j].ts >= time_max(sealed[e][t]) - window
    OBVIOUS
  <2>12. /\ c.rows[j].ts \in Int /\ c.tmax \in Int /\ time_max(sealed[e][t]) \in Int /\ window \in Int
    <3>1. c.rows[j] \in Row /\ back(sealed[e][t]) \in Chunk
      BY <1>3 DEF back
    <3>2. \A x \in Time : x \in Int
      BY TimeAssumption DEF Time
    <3>3. c.rows[j].ts \in Time
      BY <3>1 DEF Row
    <3>4. c.tmax \in Time
      BY <1>3 DEF Chunk
    <3>5. time_max(sealed[e][t]) \in Time
      BY <3>1 DEF Chunk, time_max
    <3> QED BY <3>2, <3>3, <3>4, <3>5, WindowAssumption
  <2> QED BY <2>9, <2>10, <2>11, <2>12
<1> QED BY <1>2, <1>5, <1>6

(* enforceRetention never takes a row that is inside the smallest window   *)
(* in use, measured from the newest timestamp of its topic, for any        *)
(* windows and any contents: evictBefore looks at the end of a chunk only, *)
(* which is enough because topics are in time order when callers append    *)
(* sorted columns and topics have distinct keys.                           *)
THEOREM RetentionRespectsWindow ==
    ASSUME BatchesSorted, KeysUnique
    PROVE  Spec => RetentionKeepsWindow
<1> DEFINE Keeps ==
       evicted' # evicted =>
        \A e \in Engines, t \in Topics :
            \A i \in DOMAIN sealed[e][t] : \A j \in DOMAIN sealed[e][t][i].rows :
                LET r == sealed[e][t][i].rows[j]
                IN  (\A window \in Windows : r.ts >= time_max(sealed[e][t]) - window)
                        => r.id \notin evicted'
<1>1. TraceInv /\ TopicsInOrder /\ [Next]_vars => [Keeps]_vars
  <2>1. ASSUME TraceInv, TopicsInOrder, [Next]_vars PROVE Keeps
    BY <2>1, WindowStep
  <2> QED BY <2>1
<1>2. Spec => []TopicsInOrder
  BY CommittedInOrder
<1>3. RetentionKeepsWindow <=> [][Keeps]_vars
  BY DEF RetentionKeepsWindow
<1> HIDE DEF Keeps
<1> QED BY <1>1, <1>2, <1>3, TraceAlways, PTL DEF Spec

-----------------------------------------------------------------------------
(* The refinement: DataEngine implements TopicLog.                         *)

(* What a reader sees of a sequence of chunks. *)

(* What a reader sees of a sequence of chunks.                             *)
Rows(chunks) == FlattenSeq([i \in 1 .. Len(chunks) |-> chunks[i].rows])

(* The rows a reader sees are the rows of the chunks one behind the other. *)
LEMMA RowsAreJoined ==
    ASSUME NEW chunks \in Seq(Chunk)
    PROVE  \E f : /\ f \in [0 .. Len(chunks) -> Seq(Row)] /\ f[0] = <<>>
                  /\ \A i \in 1 .. Len(chunks) : f[i] = f[i - 1] \o chunks[i].rows
                  /\ Rows(chunks) = f[Len(chunks)] /\ Rows(chunks) \in Seq(Row)
<1> DEFINE ss == [i \in 1 .. Len(chunks) |-> chunks[i].rows]
<1>1. Len(chunks) \in Nat /\ \A i \in 1 .. Len(chunks) : chunks[i].rows \in Seq(Row)
  <2>1. \A i \in 1 .. Len(chunks) : chunks[i] \in Chunk
    OBVIOUS
  <2> QED BY <2>1 DEF Chunk
<1>2. ss \in Seq(Seq(Row)) /\ Len(ss) = Len(chunks) /\ \A i \in 1 .. Len(chunks) : ss[i] = chunks[i].rows
  BY <1>1
<1>3. Rows(chunks) = FlattenSeq(ss)
  BY DEF Rows
<1> HIDE DEF ss
<1>4. PICK f : Joined(f, ss, Row)
  BY <1>2, JoinsExist
<1>5. Rows(chunks) = f[Len(chunks)] /\ Rows(chunks) \in Seq(Row)
  BY <1>2, <1>3, <1>4, FlattenIsJoin
<1> QED BY <1>2, <1>4, <1>5 DEF Joined

(* The other way round: whatever joins the chunks gives their rows.        *)
LEMMA RowsByJoin ==
    ASSUME NEW chunks \in Seq(Chunk), NEW f, f \in [0 .. Len(chunks) -> Seq(Row)], f[0] = <<>>,
           \A i \in 1 .. Len(chunks) : f[i] = f[i - 1] \o chunks[i].rows
    PROVE  Rows(chunks) = f[Len(chunks)]
<1> DEFINE ss == [i \in 1 .. Len(chunks) |-> chunks[i].rows]
<1>1. Len(chunks) \in Nat /\ \A i \in 1 .. Len(chunks) : chunks[i].rows \in Seq(Row)
  <2>1. \A i \in 1 .. Len(chunks) : chunks[i] \in Chunk
    OBVIOUS
  <2> QED BY <2>1 DEF Chunk
<1>2. ss \in Seq(Seq(Row)) /\ Len(ss) = Len(chunks) /\ \A i \in 1 .. Len(chunks) : ss[i] = chunks[i].rows
  BY <1>1
<1>3. Rows(chunks) = FlattenSeq(ss)
  BY DEF Rows
<1> HIDE DEF ss
<1>4. Joined(f, ss, Row)
  BY <1>2 DEF Joined
<1> QED BY <1>2, <1>3, <1>4, FlattenIsJoin

(* No chunks, nothing to see.                                              *)
LEMMA RowsNone == Rows(<<>>) = <<>>
<1>1. <<>> \in Seq(Chunk) /\ Len(<<>>) = 0
  OBVIOUS
<1>2. PICK f : f[0] = <<>> /\ Rows(<<>>) = f[Len(<<>>)]
  BY <1>1, RowsAreJoined
<1> QED BY <1>1, <1>2

(* A reader of two runs of chunks sees the rows of the first, then those of*)
(* the second.                                                             *)
LEMMA RowsConcat ==
    ASSUME NEW s \in Seq(Chunk), NEW t \in Seq(Chunk)
    PROVE  Rows(s \o t) = Rows(s) \o Rows(t) /\ Rows(s) \in Seq(Row) /\ Rows(t) \in Seq(Row)
<1> DEFINE q == s \o t
           l == Len(s)
           m == Len(t)
<1>1. /\ l \in Nat /\ m \in Nat /\ q \in Seq(Chunk) /\ Len(q) = l + m
      /\ \A i \in 1 .. l : q[i] = s[i]
      /\ \A i \in 1 .. m : q[l + i] = t[i]
  BY ConcatFacts
<1>2. PICK f : /\ f \in [0 .. l -> Seq(Row)] /\ f[0] = <<>>
               /\ \A i \in 1 .. l : f[i] = f[i - 1] \o s[i].rows
               /\ Rows(s) = f[l] /\ Rows(s) \in Seq(Row)
  BY RowsAreJoined
<1>3. PICK g : /\ g \in [0 .. m -> Seq(Row)] /\ g[0] = <<>>
               /\ \A i \in 1 .. m : g[i] = g[i - 1] \o t[i].rows
               /\ Rows(t) = g[m] /\ Rows(t) \in Seq(Row)
  BY RowsAreJoined
<1>4. \A i \in 1 .. m : t[i].rows \in Seq(Row)
  <2>1. \A i \in 1 .. m : t[i] \in Chunk
    OBVIOUS
  <2> QED BY <2>1 DEF Chunk
<1> HIDE DEF q, l, m
<1> DEFINE h == [i \in 0 .. l + m |-> IF i <= l THEN f[i] ELSE f[l] \o g[i - l]]
<1>5. /\ \A i \in 0 .. l : h[i] = f[i]
      /\ \A i \in 0 .. m : h[l + i] = f[l] \o g[i] /\ f[l] \o g[i] \in Seq(Row)
  <2>1. ASSUME NEW i \in 0 .. l PROVE h[i] = f[i]
    <3>1. i \in 0 .. l + m /\ i <= l
      BY <1>1
    <3> QED BY <3>1
  <2>2. ASSUME NEW i \in 0 .. m PROVE h[l + i] = f[l] \o g[i] /\ f[l] \o g[i] \in Seq(Row)
    <3>1. l + i \in 0 .. l + m /\ l + i - l = i /\ l \in 0 .. l
      BY <1>1
    <3>2. f[l] \in Seq(Row) /\ g[i] \in Seq(Row)
      BY <1>2, <1>3, <3>1
    <3>3. CASE i = 0
      <4>1. h[l + i] = f[l] /\ g[i] = <<>>
        BY <1>1, <1>3, <3>1, <3>3
      <4> HIDE DEF h
      <4> QED BY <3>2, <4>1
    <3>4. CASE i # 0
      <4>1. ~(l + i <= l)
        BY <1>1, <3>4
      <4>2. h[l + i] = f[l] \o g[i]
        <5>1. PICK k \in 0 .. l + m : k = l + i /\ k - l = i /\ ~(k <= l)
          BY <3>1, <4>1
        <5>2. h[k] = f[l] \o g[k - l]
          BY <5>1
        <5> QED BY <5>1, <5>2, Zenon
      <4> HIDE DEF h
      <4> QED BY <3>2, <4>2
    <3> QED BY <3>3, <3>4
  <2> QED BY <2>1, <2>2
<1>6. \A i \in 0 .. l + m : i \in 0 .. l \/ \E k \in 1 .. m : i = l + k
  <2>1. ASSUME NEW i \in 0 .. l + m, i \notin 0 .. l PROVE \E k \in 1 .. m : i = l + k
    <3>1. i - l \in 1 .. m /\ i = l + (i - l)
      BY <1>1, <2>1
    <3> QED BY <3>1
  <2> QED BY <2>1
<1>7. h \in [0 .. l + m -> Seq(Row)]
  <2>1. ASSUME NEW i \in 0 .. l + m PROVE h[i] \in Seq(Row)
    <3>1. CASE i \in 0 .. l
      BY <1>2, <1>5, <3>1
    <3>2. CASE \E k \in 1 .. m : i = l + k
      <4>1. PICK k \in 1 .. m : i = l + k
        BY <3>2
      <4>2. k \in 0 .. m
        OBVIOUS
      <4> HIDE DEF h
      <4> QED BY <1>5, <4>1, <4>2
    <3> QED BY <1>6, <3>1, <3>2
  <2>2. h = [i \in 0 .. l + m |-> h[i]]
    OBVIOUS
  <2> HIDE DEF h
  <2> QED BY <2>1, <2>2
<1> HIDE DEF h
<1>8. h[0] = <<>>
  BY <1>1, <1>2, <1>5
<1>9. ASSUME NEW i \in 1 .. l + m PROVE h[i] = h[i - 1] \o q[i].rows
  <2>1. CASE i \in 0 .. l
    <3>1. i \in 1 .. l /\ i - 1 \in 0 .. l
      BY <1>1, <2>1
    <3> QED BY <1>1, <1>2, <1>5, <2>1, <3>1
  <2>2. CASE \E k \in 1 .. m : i = l + k
    <3>1. PICK k \in 1 .. m : i = l + k
      BY <2>2
    <3>2. k \in 0 .. m /\ k - 1 \in 0 .. m /\ i - 1 = l + (k - 1) /\ l \in 0 .. l
      BY <1>1, <3>1
    <3>3. h[i] = f[l] \o g[k] /\ h[i - 1] = f[l] \o g[k - 1] /\ q[i].rows = t[k].rows
      BY <1>1, <1>5, <3>1, <3>2
    <3>4. g[k] = g[k - 1] \o t[k].rows /\ t[k].rows \in Seq(Row)
      BY <1>3, <1>4
    <3>5. f[l] \in Seq(Row) /\ g[k - 1] \in Seq(Row)
      BY <1>2, <1>3, <3>2
    <3>6. (f[l] \o g[k - 1]) \o t[k].rows = f[l] \o (g[k - 1] \o t[k].rows)
      <4>1. \A x, y, z \in Seq(Row) : (x \o y) \o z = x \o (y \o z)
        <5>1. ASSUME NEW x \in Seq(Row), NEW y \in Seq(Row), NEW z \in Seq(Row)
              PROVE  (x \o y) \o z = x \o (y \o z)
          OBVIOUS
        <5> QED BY <5>1
      <4> QED BY <3>4, <3>5, <4>1, Zenon
    <3> QED BY <3>3, <3>4, <3>6
  <2>3. i \in 0 .. l + m
    BY <1>1
  <2> QED BY <1>6, <2>1, <2>2, <2>3
<1>10. Rows(q) = h[Len(q)]
  BY <1>1, <1>7, <1>8, <1>9, RowsByJoin
<1>11. h[l + m] = f[l] \o g[m]
  <2>1. m \in 0 .. m
    BY <1>1
  <2> QED BY <1>5, <2>1
<1> QED BY <1>1, <1>2, <1>3, <1>10, <1>11 DEF q

(* A reader of one chunk sees its rows.                                    *)
LEMMA RowsOne ==
    ASSUME NEW c \in Chunk
    PROVE  Rows(<<c>>) = c.rows
<1>1. <<c>> \in Seq(Chunk) /\ Len(<<c>>) = 1 /\ <<c>>[1] = c /\ c.rows \in Seq(Row)
  BY DEF Chunk
<1> DEFINE s == <<c>>
<1> HIDE DEF s
<1>2. PICK f : f[0] = <<>> /\ (\A i \in 1 .. Len(s) : f[i] = f[i - 1] \o s[i].rows) /\ Rows(s) = f[Len(s)]
  BY <1>1, RowsAreJoined DEF s
<1>3. f[1] = f[0] \o c.rows /\ Rows(s) = f[1]
  <2>1. Len(s) = 1 /\ s[1] = c
    BY <1>1 DEF s
  <2>2. 1 \in 1 .. Len(s) /\ 1 - 1 = 0
    BY <2>1
  <2> QED BY <1>2, <2>1, <2>2
<1>4. <<>> \o c.rows = c.rows
  BY <1>1
<1> QED BY <1>2, <1>3, <1>4 DEF s

-----------------------------------------------------------------------------
(* Rows in time order. *)

(* Two sorted runs of rows, the second not before the end of the first.    *)
LEMMA SortedConcat ==
    ASSUME NEW a \in Seq(Row), NEW b \in Seq(Row), RowsSorted(a), RowsSorted(b),
           a # <<>> /\ b # <<>> => a[Len(a)].ts <= b[1].ts
    PROVE  RowsSorted(a \o b)
<1> DEFINE q == a \o b
           l == Len(a)
           m == Len(b)
<1>1. /\ l \in Nat /\ m \in Nat /\ Len(q) = l + m
      /\ \A i \in 1 .. l : q[i] = a[i]
      /\ \A i \in 1 .. m : q[l + i] = b[i]
  BY ConcatFacts
<1>2. /\ \A i \in 1 .. l : a[i].ts \in Int
      /\ \A i \in 1 .. m : b[i].ts \in Int
  <2>1. (\A i \in 1 .. l : a[i] \in Row) /\ (\A i \in 1 .. m : b[i] \in Row)
    OBVIOUS
  <2>2. \A r \in Row : r.ts \in Int
    BY TimeAssumption DEF Row, Time
  <2> QED BY <2>1, <2>2
<1>3. /\ \A i, j \in 1 .. l : i <= j => a[i].ts <= a[j].ts
      /\ \A i, j \in 1 .. m : i <= j => b[i].ts <= b[j].ts
      /\ l > 0 /\ m > 0 => a[l].ts <= b[1].ts
  BY DEF RowsSorted
<1>4. RowsSorted(q) <=> \A i, j \in 1 .. Len(q) : i <= j => q[i].ts <= q[j].ts
  BY DEF RowsSorted
<1> HIDE DEF q, l, m
<1>5. \A i \in 1 .. l + m : i \in 1 .. l \/ \E k \in 1 .. m : i = l + k
  <2>1. ASSUME NEW i \in 1 .. l + m, i \notin 1 .. l PROVE \E k \in 1 .. m : i = l + k
    <3>1. i - l \in 1 .. m /\ i = l + (i - l)
      BY <1>1, <2>1
    <3> QED BY <3>1
  <2> QED BY <2>1
<1>6. ASSUME NEW i \in 1 .. l + m, NEW j \in 1 .. l + m, i <= j PROVE q[i].ts <= q[j].ts
  <2>1. CASE i \in 1 .. l /\ j \in 1 .. l
    BY <1>1, <1>3, <1>6, <2>1
  <2>2. CASE i \in 1 .. l /\ j \notin 1 .. l
    <3>1. PICK k \in 1 .. m : j = l + k
      BY <1>5, <2>2
    <3>2. l > 0 /\ m > 0 /\ l \in 1 .. l /\ 1 \in 1 .. m /\ i <= l /\ 1 <= k
      BY <1>1, <2>2
    <3>3. a[i].ts <= a[l].ts /\ a[l].ts <= b[1].ts /\ b[1].ts <= b[k].ts
      BY <1>3, <2>2, <3>2
    <3>4. a[i].ts \in Int /\ a[l].ts \in Int /\ b[1].ts \in Int /\ b[k].ts \in Int
      BY <1>2, <2>2, <3>2
    <3>5. a[i].ts <= b[k].ts
      BY <3>3, <3>4
    <3>6. q[i] = a[i] /\ q[j] = b[k]
      BY <1>1, <2>2, <3>1
    <3> QED BY <3>5, <3>6
  <2>3. CASE i \notin 1 .. l
    <3>1. PICK k \in 1 .. m : i = l + k
      BY <1>5, <2>3
    <3>2. j \notin 1 .. l
      BY <1>1, <1>6, <2>3
    <3>3. PICK h \in 1 .. m : j = l + h
      BY <1>5, <3>2
    <3>4. k <= h
      BY <1>1, <1>6, <3>1, <3>3
    <3>5. q[i] = b[k] /\ q[j] = b[h]
      BY <1>1, <3>1, <3>3
    <3> QED BY <1>3, <3>4, <3>5
  <2> QED BY <2>1, <2>2, <2>3
<1> QED BY <1>1, <1>4, <1>6 DEF q

(* The rows of chunks that follow each other in time are in time order,    *)
(* and chunks are never empty.                                             *)
LEMMA VisibleSorted ==
    ASSUME NEW chunks \in Seq(Chunk), ChunksOK(chunks), InOrder(chunks)
    PROVE  RowsSorted(Rows(chunks)) /\ (chunks # <<>> => Rows(chunks) # <<>>)
<1> DEFINE n == Len(chunks)
<1>0. n \in Nat /\ \A i \in 1 .. n : chunks[i] \in Chunk /\ chunks[i].rows \in Seq(Row) /\ ChunkOK(chunks[i])
  <2>1. \A i \in 1 .. n : chunks[i] \in Chunk
    OBVIOUS
  <2> QED BY <2>1 DEF Chunk, ChunksOK
<1>1. PICK f : /\ f \in [0 .. n -> Seq(Row)] /\ f[0] = <<>>
               /\ \A i \in 1 .. n : f[i] = f[i - 1] \o chunks[i].rows
               /\ Rows(chunks) = f[n]
  BY RowsAreJoined
<1>2. \A i, j \in 1 .. n : i < j => chunks[i].tmax <= chunks[j].tmin
  BY DEF InOrder
<1> HIDE DEF n
<1> DEFINE P(i) == /\ RowsSorted(f[i])
                   /\ i > 0 => f[i] # <<>> /\ f[i][Len(f[i])].ts = chunks[i].tmax
           S == {i \in 0 .. n : P(i)}
<1>3. 0 \in S
  BY <1>0, <1>1 DEF RowsSorted
<1>4. ASSUME NEW i \in 0 .. n - 1, i \in S PROVE i + 1 \in S
  <2>0. PICK k \in 1 .. n : k = i + 1 /\ k - 1 = i /\ k \in 0 .. n /\ k > 0
    BY <1>0
  <2> DEFINE a == f[i]
             b == chunks[k].rows
  <2>1. a \in Seq(Row) /\ b \in Seq(Row) /\ Len(b) \in Nat /\ Len(b) > 0 /\ Len(a) \in Nat
    <3>1. a \in Seq(Row) /\ b \in Seq(Row)
      BY <1>0, <1>1, <2>0
    <3>2. Len(b) \in 1 .. MaxChunkRows
      BY <1>0 DEF ChunkOK
    <3> QED BY <3>1, <3>2, ChunkAssumption
  <2>2. f[k] = a \o b
    <3>1. f[k] = f[k - 1] \o chunks[k].rows
      BY <1>1
    <3> QED BY <2>0, <3>1, Zenon
  <2>3. RowsSorted(a) /\ RowsSorted(b)
    BY <1>0, <1>4 DEF ChunkOK
  <2>4. a # <<>> /\ b # <<>> => a[Len(a)].ts <= b[1].ts
    <3>1. CASE i = 0
      BY <1>1, <3>1
    <3>2. CASE i # 0
      <4>1. i > 0 /\ i \in 1 .. n /\ i < k
        BY <1>0, <2>0, <3>2
      <4>2. a[Len(a)].ts = chunks[i].tmax
        BY <1>4, <4>1
      <4>3. chunks[i].tmax <= chunks[k].tmin
        BY <1>2, <4>1
      <4>4. chunks[k].tmin = b[1].ts
        BY <1>0 DEF ChunkOK
      <4> QED BY <4>2, <4>3, <4>4
    <3> QED BY <3>1, <3>2
  <2>5. chunks[k].tmax = b[Len(b)].ts
    BY <1>0 DEF ChunkOK
  <2> HIDE DEF a, b
  <2>6. RowsSorted(a \o b)
    BY <2>1, <2>3, <2>4, SortedConcat
  <2>7. a \o b # <<>> /\ (a \o b)[Len(a \o b)] = b[Len(b)]
    <3>1. Len(a \o b) = Len(a) + Len(b) /\ Len(b) \in 1 .. Len(b)
      BY <2>1
    <3>2. (a \o b)[Len(a) + Len(b)] = b[Len(b)]
      BY <2>1, <3>1, ConcatFacts
    <3>3. a \o b # <<>>
      BY <2>1, <3>1
    <3> QED BY <3>1, <3>2, <3>3
  <2>8. P(k)
    BY <2>2, <2>5, <2>6, <2>7
  <2> HIDE DEF P
  <2> QED BY <2>0, <2>8
<1>5. 0 .. n \subseteq S
  <2> HIDE DEF S
  <2> QED BY <1>0, <1>3, <1>4, IntervalInduction
<1>6. P(n)
  <2>1. n \in 0 .. n
    BY <1>0
  <2>2. n \in S
    <3> HIDE DEF S
    <3> QED BY <1>5, <2>1
  <2> HIDE DEF P
  <2> QED BY <2>2
<1>7. chunks # <<>> => n > 0
  BY <1>0 DEF n
<1> QED BY <1>1, <1>6, <1>7

-----------------------------------------------------------------------------
(* The steps of DataEngine as steps of TopicLog. *)

(* The refinement mapping, before and after a step.                        *)
LEMMA VisibleRows ==
    /\ visible = [e \in Engines |-> [t \in Topics |-> Rows(sealed[e][t])]]
    /\ visible' = [e \in Engines |-> [t \in Topics |-> Rows(sealed'[e][t])]]
<1>1. visible = [e \in Engines |-> [t \in Topics |-> Rows(sealed[e][t])]]
  BY Zenon DEF visible, Rows
<1>2. visible' = [e \in Engines |-> [t \in Topics |-> Rows(sealed'[e][t])]]
  BY Zenon DEF visible, Rows
<1> QED BY <1>1, <1>2

(* The steps of a plan join topics of one key.                             *)
PlanKeys == \A s \in plan : TopicKey[s.src] = TopicKey[s.dst]

LogInv == OrderInv /\ PlanKeys

(* DataEngine starts with empty logs.                                      *)
LEMMA LogInit == Init => LogInv /\ Log!Init
<1> SUFFICES ASSUME Init PROVE LogInv /\ Log!Init
  OBVIOUS
<1>1. LogInv
  BY InitOrder DEF LogInv, PlanKeys, Init
<1>2. \A e \in Engines, t \in Topics : sealed[e][t] = <<>>
  BY DEF Init, Empty
<1>3. visible = [e \in Engines |-> [t \in Topics |-> <<>>]]
  BY <1>2, VisibleRows, RowsNone
<1> QED BY <1>1, <1>3 DEF Log!Init

(* Every step keeps the keys of a plan: flushTo looks topics up by name in *)
(* the other engine.                                                       *)
LEMMA PlanKeysStep ==
    ASSUME PlanKeys, [Next]_vars
    PROVE  PlanKeys'
<1>1. ASSUME NEW e \in Engines, NEW t \in Topics, createTopic(e, t) PROVE plan' = plan
  BY <1>1 DEF createTopic, loopVars
<1>2. ASSUME NEW w \in Writers, NEW t \in Topics, NEW ts, beginRow(w, t, ts) \/ appendScalar(w, t, ts)
      PROVE  plan' = plan
  BY <1>2 DEF beginRow, appendScalar, loopVars
<1>3. ASSUME NEW w \in Writers, NEW t \in Topics, NEW ts, appendColumns(w, t, ts) PROVE plan' = plan
  BY <1>3 DEF appendColumns
<1>4. ASSUME NEW w \in Writers, NEW t \in Topics, finishRow(w, t) \/ appendBatch(w, t)
      PROVE  plan' = plan
  BY <1>4 DEF finishRow, appendBatch, loopVars
<1>5. ASSUME NEW w \in Writers, NEW t \in Topics, flush(w, t) \/ appendSealedChunk(w, t)
      PROVE  plan' = plan
  BY <1>5 DEF flush, appendSealedChunk, loopVars
<1>6. ASSUME NEW w \in Writers, flushAll(w) \/ commitChunks(w) PROVE plan' = plan
  BY <1>6 DEF flushAll, commitChunks, loopVars
<1>7. ASSUME NEW e \in Engines, NEW window \in Windows, enforceRetention(e, window) PROVE plan' = plan
  BY <1>7 DEF enforceRetention, loopVars
<1>8. ASSUME NEW e \in Engines, NEW f \in Engines, flushTo(e, f) PROVE PlanKeys'
  BY <1>8 DEF flushTo, Movable, PlanKeys
<1>9. ASSUME NEW s \in plan, moveChunks(s) PROVE PlanKeys'
  BY <1>9 DEF moveChunks, PlanKeys
<1>10. ASSUME UNCHANGED vars PROVE plan' = plan
  BY <1>10 DEF vars
<1>11. plan' = plan => PlanKeys'
  BY DEF PlanKeys
<1> QED BY <1>1, <1>2, <1>3, <1>4, <1>5, <1>6, <1>7, <1>8, <1>9, <1>10, <1>11 DEF Next

(* The log of one topic.                                                   *)
LEMMA VisibleAt ==
    ASSUME NEW e \in Engines, NEW t \in Topics
    PROVE  visible[e][t] = Rows(sealed[e][t]) /\ visible'[e][t] = Rows(sealed'[e][t])
BY VisibleRows

(* Both modules mean the same by sorted rows.                              *)
LEMMA SortedForms ==
    ASSUME NEW rows
    PROVE  Log!Sorted(rows) <=> RowsSorted(rows)
BY DEF Log!Sorted, RowsSorted

(* One iteration of commitChunks extends the log of one topic, or is       *)
(* refused and changes nothing a reader sees.                              *)
LEMMA CommitIsExtend ==
    ASSUME OrderInv, OrderInv', NEW w \in Writers, NEW t \in Topics, appendSealedChunk(w, t)
    PROVE  Log!Next \/ visible' = visible
<1> DEFINE e == EngineOf[w]
           c == queue[w][t][1]
           s == sealed[e][t]
           ok == t \in topics[e] /\ Appendable(s, c)
<1>0. /\ TypeOK /\ WritersOK /\ TopicsInOrder' /\ TypeOK' /\ e \in Engines /\ c \in Chunk
      /\ s \in Seq(Chunk) /\ ChunkOK(c)
  <2>1. TypeOK /\ WritersOK /\ TopicsInOrder' /\ TypeOK'
    BY DEF OrderInv
  <2>2. e \in Engines
    BY BindAssumption
  <2>3. queue[w][t] \in Seq(Chunk) /\ s \in Seq(Chunk) /\ queue[w][t] # <<>>
    BY <2>1, <2>2, SMTT(30) DEF TypeOK, appendSealedChunk
  <2>4. c \in Chunk /\ 1 \in 1 .. Len(queue[w][t])
    BY <2>3
  <2>5. ChunkOK(c)
    BY <2>1, <2>4 DEF WritersOK, ChunksOK
  <2> QED BY <2>1, <2>2, <2>3, <2>4, <2>5
<1>1. CASE ~ok
  <2>1. sealed' = sealed
    BY <1>1 DEF appendSealedChunk
  <2> QED BY <2>1, VisibleRows
<1>2. CASE ok
  <2>1. sealed' = [sealed EXCEPT ![e][t] = Append(s, c)]
    BY <1>2 DEF appendSealedChunk
  <2>2. sealed \in [Engines -> [Topics -> Seq(Chunk)]] /\ Append(s, c) \in Seq(Chunk)
    BY <1>0 DEF TypeOK
  <2> DEFINE v == Append(s, c)
  <2>3. v = s \o <<c>> /\ <<c>> \in Seq(Chunk)
    <3> HIDE DEF c, s
    <3>1. Append(s, c) = s \o <<c>>
      BY <1>0, AppendIsConcat
    <3>2. <<c>> \in Seq(Chunk)
      BY <1>0
    <3> QED BY <3>1, <3>2
  <2> HIDE DEF v, c, ok, s
  <2>4. \A f \in Engines, y \in Topics : sealed'[f][y] = IF f = e /\ y = t THEN v ELSE sealed[f][y]
    <3>1. sealed' = [sealed EXCEPT ![e][t] = v] /\ v \in Seq(Chunk)
      BY <2>1, <2>2 DEF v
    <3> HIDE DEF e
    <3> QED BY <1>0, <2>2, <3>1, Update2
  <2>5. visible[e][t] = Rows(s) /\ visible'[e][t] = Rows(v) /\ v = sealed'[e][t]
    BY <1>0, <2>4, VisibleAt DEF s
  <2>6. Rows(v) = Rows(s) \o c.rows /\ Rows(s) \in Seq(Row) /\ c.rows \in Seq(Row)
    <3>1. Rows(s \o <<c>>) = Rows(s) \o Rows(<<c>>) /\ Rows(s) \in Seq(Row) /\ Rows(<<c>>) \in Seq(Row)
      BY <1>0, <2>3, RowsConcat
    <3>2. Rows(<<c>>) = c.rows
      BY <1>0, RowsOne
    <3> QED BY <2>3, <3>1, <3>2
  <2>7. Len(c.rows) \in Nat /\ Len(c.rows) > 0
    BY <1>0, ChunkAssumption DEF ChunkOK
  <2>8. /\ Len(Rows(v)) > Len(Rows(s)) /\ SubSeq(Rows(v), 1, Len(Rows(s))) = Rows(s)
    <3> DEFINE a == Rows(s)
               b == c.rows
    <3>1. a \in Seq(Row) /\ b \in Seq(Row) /\ Rows(v) = a \o b /\ Len(b) > 0
      BY <2>6, <2>7
    <3> HIDE DEF a, b
    <3>2. Len(a \o b) > Len(a)
      BY <3>1
    <3>3. SubSeq(a \o b, 1, Len(a)) = a
      <4>1. /\ SubSeq(a \o b, 1, Len(a)) \in Seq(Row) /\ Len(SubSeq(a \o b, 1, Len(a))) = Len(a)
            /\ \A i \in 1 .. Len(a) : SubSeq(a \o b, 1, Len(a))[i] = (a \o b)[i]
        <5>1. a \o b \in Seq(Row) /\ Len(a) \in 0 .. Len(a \o b)
          BY <3>1
        <5> DEFINE q == a \o b
        <5> HIDE DEF q
        <5>2. q \in Seq(Row) /\ Len(a) \in 0 .. Len(q)
          BY <5>1 DEF q
        <5>3. /\ SubSeq(q, 1, Len(a)) \in Seq(Row) /\ Len(SubSeq(q, 1, Len(a))) = Len(a)
              /\ \A i \in 1 .. Len(a) : SubSeq(q, 1, Len(a))[i] = q[i]
          BY <5>2, SuffixFacts
        <5> QED BY <5>3 DEF q
      <4>2. \A i \in 1 .. Len(a) : (a \o b)[i] = a[i]
        BY <3>1
      <4> QED BY <3>1, <4>1, <4>2, SeqEqual
    <3> QED BY <3>1, <3>2, <3>3 DEF a
  <2>9. Log!Sorted(visible'[e][t])
    <3>1. ChunksOK(v) /\ InOrder(v) /\ v \in Seq(Chunk)
      <4>1. ChunksOK(sealed'[e][t]) /\ InOrder(sealed'[e][t])
        BY <1>0 DEF TopicsInOrder
      <4> QED BY <2>2, <2>5, <4>1 DEF v
    <3>2. RowsSorted(Rows(v))
      BY <3>1, VisibleSorted
    <3> QED BY <2>5, <3>2, SortedForms
  <2>10. Log!Others({<<e, t>>})
    <3>1. ASSUME NEW f \in Engines, NEW y \in Topics, <<f, y>> \notin {<<e, t>>}
          PROVE  visible'[f][y] = visible[f][y]
      <4>1. ~(f = e /\ y = t)
        BY <3>1
      <4>2. sealed'[f][y] = sealed[f][y]
        BY <2>4, <4>1
      <4> QED BY <4>2, VisibleAt
    <3> HIDE DEF e
    <3> QED BY <3>1 DEF Log!Others
  <2> HIDE DEF e
  <2>11. Log!Extend(e, t)
    BY <2>5, <2>8, <2>9, <2>10 DEF Log!Extend
  <2> QED BY <1>0, <2>11 DEF Log!Next
<1> QED BY <1>1, <1>2

(* enforceRetention drops oldest rows of one engine's logs and never the   *)
(* last one.                                                               *)
LEMMA RetentionIsExpire ==
    ASSUME OrderInv, OrderInv', NEW e \in Engines, NEW window \in Windows, enforceRetention(e, window)
    PROVE  Log!Next
<1>0. TypeOK /\ TopicsInOrder /\ TopicsInOrder' /\ TypeOK'
  BY DEF OrderInv
<1>1. PICK k \in [Topics -> Nat] :
                /\ \A t \in Topics :
                      /\ k[t] \in 0 .. Len(sealed[e][t])
                      /\ sealed[e][t] # <<>> => k[t] < Len(sealed[e][t])
                /\ \A f \in Engines, t \in Topics :
                      sealed'[f][t] = IF f = e THEN SubSeq(sealed[e][t], k[t] + 1, Len(sealed[e][t]))
                                      ELSE sealed[f][t]
  BY <1>0, RetentionEffect
<1>2. ASSUME NEW t \in Topics
      PROVE  \E n \in 0 .. Len(visible[e][t]) :
             /\ visible'[e][t] = SubSeq(visible[e][t], n + 1, Len(visible[e][t]))
             /\ visible[e][t] # <<>> => visible'[e][t] # <<>>
  <2> DEFINE s == sealed[e][t]
             a == SubSeq(s, 1, k[t])
             b == SubSeq(s, k[t] + 1, Len(s))
  <2>1. s \in Seq(Chunk) /\ k[t] \in 0 .. Len(s) /\ (s # <<>> => k[t] < Len(s)) /\ Len(s) \in Nat
    BY <1>0, <1>1 DEF TypeOK
  <2>2. a \in Seq(Chunk) /\ b \in Seq(Chunk) /\ s = a \o b /\ Len(b) = Len(s) - k[t]
    BY <2>1, SuffixFacts, ZenonT(30)
  <2>3. sealed'[e][t] = b
    BY <1>1
  <2>4. ChunksOK(b) /\ InOrder(b)
    BY <1>0, <2>3 DEF TopicsInOrder
  <2>5. s # <<>> => b # <<>>
    <3> HIDE DEF b
    <3>1. s # <<>> => Len(b) > 0
      BY <2>1, <2>2
    <3> QED BY <2>2, <3>1
  <2>6. visible[e][t] = Rows(s) /\ visible'[e][t] = Rows(b)
    BY <2>3, VisibleAt
  <2> HIDE DEF a, b, s
  <2>7. Rows(s) = Rows(a) \o Rows(b) /\ Rows(a) \in Seq(Row) /\ Rows(b) \in Seq(Row)
    BY <2>2, RowsConcat
  <2>8. Rows(s) # <<>> => Rows(b) # <<>>
    BY <2>2, <2>4, <2>5, VisibleSorted, RowsNone
  <2> DEFINE p == Rows(a)
             r == Rows(b)
             n == Len(p)
  <2>9. p \in Seq(Row) /\ r \in Seq(Row) /\ Rows(s) = p \o r
    BY <2>7
  <2> HIDE DEF p, r
  <2>10. n \in 0 .. Len(p \o r) /\ r = SubSeq(p \o r, n + 1, Len(p \o r))
    <3>1. p \o r \in Seq(Row) /\ Len(p \o r) = Len(p) + Len(r) /\ Len(p) \in Nat /\ Len(r) \in Nat
      BY <2>9
    <3>2. n \in 0 .. Len(p \o r)
      BY <3>1
    <3> DEFINE q == p \o r
    <3> HIDE DEF q
    <3>3. q \in Seq(Row) /\ n \in 0 .. Len(q) /\ Len(q) - n = Len(r)
      BY <3>1, <3>2 DEF q
    <3>4. /\ SubSeq(q, n + 1, Len(q)) \in Seq(Row) /\ Len(SubSeq(q, n + 1, Len(q))) = Len(q) - n
          /\ \A i \in 1 .. Len(q) - n : SubSeq(q, n + 1, Len(q))[i] = q[n + i]
      BY <3>3, SuffixFacts
    <3>5. \A i \in 1 .. Len(r) : q[n + i] = r[i]
      BY <2>9, ConcatFacts DEF q
    <3>6. r = SubSeq(q, n + 1, Len(q))
      BY <2>9, <3>3, <3>4, <3>5, SeqEqual
    <3> QED BY <3>2, <3>6 DEF q
  <2> HIDE DEF n
  <2>11. visible'[e][t] = r /\ visible[e][t] = p \o r
    BY <2>6, <2>9 DEF r
  <2>12. visible[e][t] # <<>> => visible'[e][t] # <<>>
    BY <2>6, <2>8
  <2> QED BY <2>10, <2>11, <2>12
<1>3. Log!Others({e} \X Topics)
  <2>1. ASSUME NEW f \in Engines, NEW t \in Topics, <<f, t>> \notin {e} \X Topics
        PROVE  visible'[f][t] = visible[f][t]
    <3>1. f # e
      BY <2>1
    <3>2. sealed'[f][t] = sealed[f][t]
      BY <1>1, <3>1
    <3> QED BY <3>2, VisibleAt
  <2> QED BY <2>1 DEF Log!Others
<1>4. Log!Expire(e)
  BY <1>2, <1>3, Zenon DEF Log!Expire
<1> QED BY <1>4 DEF Log!Next

(* One topic of flushTo moves as a whole to the end of the topic with its  *)
(* key.                                                                    *)
LEMMA TransferIsMove ==
    ASSUME LogInv, LogInv', NEW m \in plan, moveChunks(m)
    PROVE  Log!Next
<1> DEFINE e == m.from
           f == m.to
           s == m.src
           d == m.dst
<1>0. /\ TypeOK /\ TopicsInOrder /\ TopicsInOrder' /\ TypeOK' /\ PlanOK
      /\ TopicKey[s] = TopicKey[d]
  BY DEF LogInv, OrderInv, PlanKeys
<1>1. e \in Engines /\ f \in Engines /\ s \in Topics /\ d \in Topics
  <2>1. m \in Step
    BY <1>0 DEF TypeOK
  <2> QED BY <2>1 DEF Step
<1>2. e # f /\ sealed[e][s] # <<>>
  BY <1>0 DEF PlanOK
<1>3. \A g \in Engines, t \in Topics : sealed'[g][t] =
            IF g = f /\ t = d THEN sealed[f][d] \o sealed[e][s]
            ELSE IF g = e /\ t = s THEN <<>> ELSE sealed[g][t]
  BY DEF moveChunks
<1>4. sealed[e][s] \in Seq(Chunk) /\ sealed[f][d] \in Seq(Chunk) /\ sealed'[f][d] \in Seq(Chunk)
  BY <1>0, <1>1 DEF TypeOK
<1> HIDE DEF e, f, s, d
<1>5. /\ visible[e][s] = Rows(sealed[e][s]) /\ visible[f][d] = Rows(sealed[f][d])
      /\ visible'[e][s] = Rows(sealed'[e][s]) /\ visible'[f][d] = Rows(sealed'[f][d])
  BY <1>1, VisibleAt
<1>6. sealed'[e][s] = <<>> /\ sealed'[f][d] = sealed[f][d] \o sealed[e][s]
  BY <1>1, <1>2, <1>3
<1>7. visible[e][s] # <<>>
  <2>1. ChunksOK(sealed[e][s]) /\ InOrder(sealed[e][s])
    BY <1>0, <1>1 DEF TopicsInOrder
  <2> QED BY <1>2, <1>4, <1>5, <2>1, VisibleSorted
<1>8. visible'[e][s] = <<>>
  BY <1>5, <1>6, RowsNone
<1>9. visible'[f][d] = visible[f][d] \o visible[e][s]
  BY <1>4, <1>5, <1>6, RowsConcat
<1>10. Log!Sorted(visible'[f][d])
  <2>1. ChunksOK(sealed'[f][d]) /\ InOrder(sealed'[f][d])
    BY <1>0, <1>1 DEF TopicsInOrder
  <2>2. RowsSorted(Rows(sealed'[f][d]))
    BY <1>4, <2>1, VisibleSorted
  <2> QED BY <1>5, <2>2, SortedForms
<1>11. Log!Others({<<e, s>>, <<f, d>>})
  <2>1. ASSUME NEW g \in Engines, NEW t \in Topics, <<g, t>> \notin {<<e, s>>, <<f, d>>}
        PROVE  visible'[g][t] = visible[g][t]
    <3>1. ~(g = f /\ t = d) /\ ~(g = e /\ t = s)
      BY <2>1
    <3>2. sealed'[g][t] = sealed[g][t]
      BY <1>3, <3>1
    <3> QED BY <3>2, VisibleAt
  <2> QED BY <2>1 DEF Log!Others
<1>12. Log!Move(e, f, s, d)
  BY <1>0, <1>2, <1>7, <1>8, <1>9, <1>10, <1>11 DEF Log!Move, e, f, s, d
<1> QED BY <1>1, <1>12 DEF Log!Next

(* Every step of DataEngine is a step of TopicLog or one a reader cannot   *)
(* see.                                                                    *)
LEMMA LogStep ==
    ASSUME LogInv, LogInv', [Next]_vars
    PROVE  [Log!Next]_visible
<1>0. sealed' = sealed => visible' = visible
  BY VisibleRows
<1>i. OrderInv /\ OrderInv'
  BY DEF LogInv
<1>1. ASSUME NEW e \in Engines, NEW t \in Topics, createTopic(e, t) PROVE sealed' = sealed
  BY <1>1 DEF createTopic
<1>2. ASSUME NEW w \in Writers, NEW t \in Topics, NEW ts, beginRow(w, t, ts) \/ appendScalar(w, t, ts)
      PROVE  sealed' = sealed
  BY <1>2 DEF beginRow, appendScalar
<1>3. ASSUME NEW w \in Writers, NEW t \in Topics, NEW ts, appendColumns(w, t, ts)
      PROVE  sealed' = sealed
  BY <1>3 DEF appendColumns
<1>4. ASSUME NEW w \in Writers, NEW t \in Topics, finishRow(w, t) \/ appendBatch(w, t) \/ flush(w, t)
      PROVE  sealed' = sealed
  BY <1>4 DEF finishRow, appendBatch, flush
<1>5. ASSUME NEW w \in Writers, NEW t \in Topics, appendSealedChunk(w, t)
      PROVE  Log!Next \/ visible' = visible
  BY <1>i, <1>5, CommitIsExtend
<1>6. ASSUME NEW w \in Writers, flushAll(w) \/ commitChunks(w) PROVE sealed' = sealed
  BY <1>6 DEF flushAll, commitChunks
<1>7. ASSUME NEW e \in Engines, NEW window \in Windows, enforceRetention(e, window) PROVE Log!Next
  BY <1>i, <1>7, RetentionIsExpire
<1>8. ASSUME NEW e \in Engines, NEW f \in Engines, flushTo(e, f) PROVE sealed' = sealed
  BY <1>8 DEF flushTo
<1>9. ASSUME NEW s \in plan, moveChunks(s) PROVE Log!Next
  BY <1>9, TransferIsMove
<1>10. ASSUME UNCHANGED vars PROVE sealed' = sealed
  BY <1>10 DEF vars
<1>11. Log!Next \/ visible' = visible
  BY <1>0, <1>1, <1>2, <1>3, <1>4, <1>5, <1>6, <1>7, <1>8, <1>9, <1>10 DEF Next
<1> QED BY <1>11

(* DataEngine implements TopicLog: what readers see of any topic grows at  *)
(* its end in time order, loses rows at its beginning, or moves as a whole *)
(* to the topic of the same key in another engine, whatever the builders,  *)
(* pending chunks and queues of the writers go through.                    *)
THEOREM EngineImplementsLog ==
    ASSUME BatchesSorted, KeysUnique
    PROVE  Spec => ImplementsTopicLog
<1>1. LogInv /\ [Next]_vars => LogInv'
  BY OrderStep, PlanKeysStep DEF LogInv
<1>2. LogInv /\ LogInv' /\ [Next]_vars => [Log!Next]_visible
  BY LogStep
<1> QED BY <1>1, <1>2, LogInit, PTL DEF Spec, ImplementsTopicLog, Log!Spec
=============================================================================
