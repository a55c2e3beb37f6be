------------------------ MODULE DerivedEngine_proofs ------------------------
(***************************************************************************)
(* Theorems about DerivedEngine, for every number of topics, nodes and     *)
(* writers: the graph of transforms stays consistent and is visited in     *)
(* topological order, and transforms are called once per sample, in order. *)
(***************************************************************************)
EXTENDS DerivedEngine, SequenceFacts, FiniteSetTheorems, TLAPS

-----------------------------------------------------------------------------
(* The invariant of the graph. *)

(* The nodes.                                                              *)
NodeT == [mimo : BOOLEAN, op : Ops, inputs : Seq(Topics), outs : Seq(Topics),
          dirty : BOOLEAN, mark : Int, got : Seq(Row)]

(* The topics of a node exist, and it has an input.                        *)
TopicsOK(node) ==
    /\ node.inputs # <<>>
    /\ \A i \in 1 .. Len(node.inputs) : node.inputs[i] < nextTopic
    /\ \A k \in 1 .. Len(node.outs) : node.outs[k] < nextTopic

(* The same of all nodes.                                                  *)
TopicsExist == \A n \in DOMAIN nodes : TopicsOK(nodes[n])

(* A node reads only what older nodes write.                               *)
Older == \A u \in NodeIds : \A m \in downstream_of[u] : u < m

(* scheduleActive goes through nodes that exist.                           *)
TodoOK == \A i \in 1 .. Len(todo) : todo[i] \in DOMAIN nodes

(* The inductive invariant of the graph.                                   *)
GraphInv == TypeOK /\ TopicsExist /\ IndexesAgree /\ Older /\ TodoOK

(* No list of names has one twice: addMimoTransform looks for the names in *)
(* registered_output_names, not in the list.                               *)
NamesDistinct == \A names \in NameLists : \A i, j \in DOMAIN names : names[i] = names[j] => i = j

-----------------------------------------------------------------------------
(* What a run of a node computes. *)

(* The rows of the chunks of a topic.                                      *)
LEMMA RowsType ==
    ASSUME NEW chunks \in Seq(Chunk)
    PROVE  Rows(chunks) \in Seq(Row)
<1> DEFINE ss == [i \in 1 .. Len(chunks) |-> chunks[i].rows]
<1>1. \A i \in 1 .. Len(chunks) : chunks[i] \in Chunk /\ chunks[i].rows \in Seq(Row)
  <2>1. \A i \in 1 .. Len(chunks) : chunks[i] \in Chunk
    OBVIOUS
  <2> QED BY <2>1 DEF Chunk
<1>2. ss \in Seq(Seq(Row)) /\ Len(chunks) \in Nat
  BY <1>1
<1>3. Rows(chunks) = FlattenSeq(ss)
  BY DEF Rows
<1> HIDE DEF ss
<1>4. PICK f : Joined(f, ss, Row)
  BY <1>2, JoinsExist
<1> QED BY <1>2, <1>3, <1>4, FlattenIsJoin

(* The chunks run_siso_incremental processes.                              *)
LEMMA SisoChunksType ==
    ASSUME NEW node \in NodeT, node.inputs # <<>>, NEW sl \in [Topics -> Seq(Chunk)]
    PROVE  sisoChunks(node, sl) \in Seq(Chunk)
<1>1. node.inputs \in Seq(Topics)
  BY DEF NodeT
<1>2. PICK s : s = sl[node.inputs[1]]
  OBVIOUS
<1>3. s \in Seq(Chunk)
  BY <1>1, <1>2
<1> DEFINE K == {i \in 1 .. Len(s) : s[i].id > node.mark}
<1>4. sisoChunks(node, sl) = FlattenSeq([i \in 1 .. Len(s) |-> IF i \in K THEN <<s[i]>> ELSE <<>>])
  BY <1>2 DEF sisoChunks, Selected
<1>5. K \in SUBSET (1 .. Len(s))
  OBVIOUS
<1> HIDE DEF K
<1> QED BY <1>3, <1>4, <1>5, SelectSeqKeeps

(* The largest id of a sequence of chunks, or a lower bound of them.       *)
LEMMA LargestId ==
    ASSUME NEW s \in Seq(Chunk), NEW m0 \in Int
    PROVE  \E m \in {m0} \cup {c.id : c \in ToSet(s)} :
              /\ m \in Int /\ m0 <= m
              /\ \A c \in ToSet(s) : c.id <= m
<1> DEFINE P(i, m) == /\ m \in {m0} \cup {s[j].id : j \in 1 .. i} /\ m \in Int /\ m0 <= m
                      /\ \A j \in 1 .. i : s[j].id <= m
           S == {i \in 0 .. Len(s) : \E m : P(i, m)}
<1>1. Len(s) \in Nat /\ DOMAIN s = 1 .. Len(s) /\ \A i \in 1 .. Len(s) : s[i].id \in Nat
  <2>1. Len(s) \in Nat /\ DOMAIN s = 1 .. Len(s) /\ \A i \in 1 .. Len(s) : s[i] \in Chunk
    OBVIOUS
  <2>2. \A c \in Chunk : c.id \in Nat
    BY DEF Chunk
  <2> QED BY ONLY <2>1, <2>2
<1>2. 0 \in S
  <2>1. P(0, m0)
    OBVIOUS
  <2> HIDE DEF P
  <2> QED BY <1>1, <2>1
<1>3. ASSUME NEW i \in 0 .. Len(s) - 1, i \in S PROVE i + 1 \in S
  <2>1. PICK m : P(i, m)
    BY <1>3
  <2>2. i + 1 \in 1 .. Len(s) /\ i \in Nat /\ s[i + 1].id \in Nat /\ i + 1 \in 0 .. Len(s)
    BY <1>1
  <2>3. \A j \in 1 .. i + 1 : j = i + 1 \/ j \in 1 .. i
    BY <2>2
  <2>4. \A j \in 1 .. i : j \in 1 .. i + 1
    BY <2>2
  <2>5. \A j \in 1 .. i : s[j].id \in Nat
    BY <1>1, <2>2
  <2>6. \E x : P(i + 1, x)
    <3>1. CASE s[i + 1].id <= m
      <4>1. P(i + 1, m)
        BY <2>1, <2>2, <2>3, <2>4, <3>1
      <4> HIDE DEF P
      <4> QED BY <4>1
    <3>2. CASE ~(s[i + 1].id <= m)
      <4>1. i + 1 \in 1 .. i + 1
        BY <2>2
      <4>2. P(i + 1, s[i + 1].id)
        BY <2>1, <2>2, <2>3, <2>5, <3>2, <4>1
      <4> HIDE DEF P
      <4> QED BY <4>2
    <3> QED BY <3>1, <3>2
  <2> HIDE DEF P
  <2> QED BY <2>2, <2>6
<1>4. 0 .. Len(s) \subseteq S
  <2> HIDE DEF S
  <2> QED BY <1>1, <1>2, <1>3, IntervalInduction
<1>5. Len(s) \in 0 .. Len(s)
  BY <1>1
<1>6. \E m : P(Len(s), m)
  <2> HIDE DEF P
  <2> QED BY <1>4, <1>5
<1>7. PICK m : P(Len(s), m)
  BY <1>6
<1>8. \A c \in ToSet(s) : \E j \in 1 .. Len(s) : c = s[j]
  BY <1>1 DEF ToSet
<1>9. \A j \in 1 .. Len(s) : s[j] \in ToSet(s)
  BY <1>1 DEF ToSet
<1>10. m \in {m0} \cup {c.id : c \in ToSet(s)}
  BY <1>7, <1>9
<1> QED BY <1>7, <1>8, <1>10

(* The watermark after the chunks.                                         *)
LEMMA SisoMarkFacts ==
    ASSUME NEW node \in NodeT, node.inputs # <<>>, NEW sl \in [Topics -> Seq(Chunk)]
    PROVE  /\ sisoMark(node, sl) \in Int /\ \A c \in ToSet(sisoChunks(node, sl)) : c.id <= sisoMark(node, sl)
           /\ sisoMark(node, sl) \in {node.mark} \cup {c.id : c \in ToSet(sisoChunks(node, sl))}
<1>1. PICK s \in Seq(Chunk) : s = sisoChunks(node, sl)
  BY SisoChunksType
<1>2. PICK m0 \in Int : m0 = node.mark
  BY DEF NodeT
<1>3. PICK m \in {m0} \cup {c.id : c \in ToSet(s)} : m \in Int /\ \A c \in ToSet(s) : c.id <= m
  BY LargestId
<1>4. PICK M : M = {m0} \cup {c.id : c \in ToSet(s)}
  OBVIOUS
<1>5. sisoMark(node, sl) = CHOOSE x \in M : \A c \in ToSet(s) : c.id <= x
  BY <1>1, <1>2, <1>4 DEF sisoMark
<1>6. M \subseteq Int
  <2>1. \A c \in ToSet(s) : c.id \in Int
    <3>1. \A i \in DOMAIN s : s[i] \in Chunk
      OBVIOUS
    <3> QED BY <3>1 DEF ToSet, Chunk
  <2> QED BY <1>4, <2>1
<1>7. m \in M /\ \A c \in ToSet(s) : c.id <= m
  BY <1>3, <1>4
<1>8. sisoMark(node, sl) \in M /\ \A c \in ToSet(s) : c.id <= sisoMark(node, sl)
  BY <1>5, <1>7
<1> QED BY <1>1, <1>2, <1>4, <1>6, <1>8

(* The rows after the watermark.                                           *)
LEMMA FreshType ==
    ASSUME NEW node \in NodeT, NEW sl \in [Topics -> Seq(Chunk)], NEW i \in 1 .. Len(node.inputs)
    PROVE  /\ fresh(node, sl, i) \in Seq(Row)
           /\ \A k \in 1 .. Len(fresh(node, sl, i)) : fresh(node, sl, i)[k].ts > node.mark
<1>1. node.inputs[i] \in Topics
  BY DEF NodeT
<1>2. sl[node.inputs[i]] \in Seq(Chunk)
  BY <1>1
<1>3. PICK s \in Seq(Row) : s = Rows(sl[node.inputs[i]])
  BY <1>2, RowsType
<1> DEFINE K == {k \in 1 .. Len(s) : s[k].ts > node.mark}
<1>4. fresh(node, sl, i) = FlattenSeq([k \in 1 .. Len(s) |-> IF k \in K THEN <<s[k]>> ELSE <<>>])
  BY <1>3 DEF fresh, Selected
<1>5. K \in SUBSET (1 .. Len(s)) 
  OBVIOUS
<1>6. \A k \in K : s[k].ts > node.mark
  OBVIOUS
<1> HIDE DEF K
<1>7. PICK q : q = fresh(node, sl, i)
  OBVIOUS
<1>8. q \in Seq(Row) /\ \E h : KeptBy(h, q, s, K)
  BY ONLY <1>4, <1>5, <1>7, SelectSeqKeeps, <1>3
<1>9. PICK h : KeptBy(h, q, s, K)
  BY <1>8
<1>10. \A k \in 1 .. Len(q) : q[k].ts > node.mark
  BY <1>6, <1>9 DEF KeptBy
<1> QED BY <1>7, <1>8, <1>10

(* The rows with a timestamp that every input has.                         *)
LEMMA CommonFacts ==
    ASSUME NEW node \in NodeT, node.inputs # <<>>, NEW sl \in [Topics -> Seq(Chunk)]
    PROVE  /\ common(node, sl) \in Seq(Row)
           /\ \A k \in 1 .. Len(common(node, sl)) : \A i \in 1 .. Len(node.inputs) :
                 \E q \in ToSet(fresh(node, sl, i)) : q.ts = common(node, sl)[k].ts
<1>1. node.inputs \in Seq(Topics) /\ 1 \in 1 .. Len(node.inputs) /\ DOMAIN node.inputs = 1 .. Len(node.inputs)
  BY DEF NodeT
<1>2. PICK s \in Seq(Row) : s = fresh(node, sl, 1)
  BY <1>1, FreshType
<1> DEFINE K == {k \in 1 .. Len(s) :
                    \A i \in DOMAIN node.inputs : \E q \in ToSet(fresh(node, sl, i)) : q.ts = s[k].ts}
<1>3. common(node, sl) = FlattenSeq([k \in 1 .. Len(s) |-> IF k \in K THEN <<s[k]>> ELSE <<>>])
  BY <1>2 DEF common, Selected
<1>4. K \in SUBSET (1 .. Len(s))
  OBVIOUS
<1>5. \A k \in K : \A i \in 1 .. Len(node.inputs) : \E q \in ToSet(fresh(node, sl, i)) : q.ts = s[k].ts
  BY <1>1
<1> HIDE DEF K
<1>6. PICK q : q = common(node, sl)
  OBVIOUS
<1>7. q \in Seq(Row) /\ \E h : KeptBy(h, q, s, K)
  BY ONLY <1>2, <1>3, <1>4, <1>6, SelectSeqKeeps
<1>8. PICK h : KeptBy(h, q, s, K)
  BY <1>7
<1>9. \A k \in 1 .. Len(q) : h[k] \in K /\ q[k] = s[h[k]]
  BY <1>8 DEF KeptBy
<1>10. \A k \in 1 .. Len(q) : \A i \in 1 .. Len(node.inputs) :
          \E x \in ToSet(fresh(node, sl, i)) : x.ts = q[k].ts
  BY <1>5, <1>9
<1> QED BY <1>6, <1>7, <1>10

(* std::unique leaves elements of the sequence.                            *)
LEMMA UniqueFacts ==
    ASSUME NEW s \in Seq(Int)
    PROVE  /\ unique(s) \in Seq(Int)
           /\ \A k \in 1 .. Len(unique(s)) : \E i \in 1 .. Len(s) : unique(s)[k] = s[i]
<1> DEFINE K == {k \in 1 .. Len(s) : ~(k > 1 /\ s[k - 1] = s[k])}
<1>1. unique(s) = FlattenSeq([k \in 1 .. Len(s) |-> IF k \in K THEN <<s[k]>> ELSE <<>>])
  <2>1. [k \in 1 .. Len(s) |-> IF k > 1 /\ s[k - 1] = s[k] THEN <<>> ELSE <<s[k]>>]
          = [k \in 1 .. Len(s) |-> IF k \in K THEN <<s[k]>> ELSE <<>>]
    OBVIOUS
  <2> HIDE DEF K
  <2> QED BY <2>1 DEF unique
<1>2. K \in SUBSET (1 .. Len(s))
  OBVIOUS
<1> HIDE DEF K
<1>3. PICK q : q = unique(s)
  OBVIOUS
<1>4. q \in Seq(Int) /\ \E h : KeptBy(h, q, s, K)
  BY ONLY <1>1, <1>2, <1>3, SelectSeqKeeps, s \in Seq(Int)
<1>5. PICK h : KeptBy(h, q, s, K)
  BY <1>4
<1>6. \A k \in 1 .. Len(q) : h[k] \in 1 .. Len(s) /\ q[k] = s[h[k]]
  BY <1>2, <1>5 DEF KeptBy
<1> QED BY <1>3, <1>4, <1>6

(* The timestamps that are joined: every input has each.                   *)
LEMMA JoinedFacts ==
    ASSUME NEW node \in NodeT, node.inputs # <<>>, NEW sl \in [Topics -> Seq(Chunk)]
    PROVE  /\ joinedTimes(node, sl) \in Seq(Int)
           /\ \A k \in 1 .. Len(joinedTimes(node, sl)) : \A i \in 1 .. Len(node.inputs) :
                 \E q \in ToSet(fresh(node, sl, i)) : q.ts = joinedTimes(node, sl)[k]
<1>1. PICK rows \in Seq(Row) : rows = common(node, sl)
  BY CommonFacts
<1>2. PICK s : s = [k \in 1 .. Len(rows) |-> rows[k].ts]
  OBVIOUS
<1>3. joinedTimes(node, sl) = unique(s)
  BY <1>1, <1>2 DEF joinedTimes
<1>4. \A k \in 1 .. Len(rows) : rows[k].ts \in Int
  <2>1. \A k \in 1 .. Len(rows) : rows[k] \in Row
    OBVIOUS
  <2> QED BY <2>1 DEF Row
<1>5. s \in Seq(Int) /\ Len(s) = Len(rows) /\ \A k \in 1 .. Len(rows) : s[k] = rows[k].ts
  <2>1. Len(rows) \in Nat
    BY <1>1
  <2> QED BY ONLY <1>2, <1>4, <2>1
<1>6. /\ unique(s) \in Seq(Int)
      /\ \A k \in 1 .. Len(unique(s)) : \E i \in 1 .. Len(s) : unique(s)[k] = s[i]
  BY <1>5, UniqueFacts
<1>7. \A k \in 1 .. Len(rows) : \A i \in 1 .. Len(node.inputs) :
          \E q \in ToSet(fresh(node, sl, i)) : q.ts = rows[k].ts
  BY <1>1, CommonFacts
<1>8. PICK u : u = unique(s)
  OBVIOUS
<1>9. ASSUME NEW k \in 1 .. Len(u), NEW i \in 1 .. Len(node.inputs)
      PROVE  \E q \in ToSet(fresh(node, sl, i)) : q.ts = u[k]
  <2>1. PICK j \in 1 .. Len(s) : u[k] = s[j]
    BY <1>6, <1>8
  <2>2. j \in 1 .. Len(rows) /\ u[k] = rows[j].ts
    BY <1>5, <2>1
  <2> QED BY <1>7, <2>2
<1> QED BY <1>3, <1>6, <1>8, <1>9

(* The last row of an input with a joined timestamp.                       *)
LEMMA LookupType ==
    ASSUME NEW node \in NodeT, NEW sl \in [Topics -> Seq(Chunk)], NEW i \in 1 .. Len(node.inputs),
           NEW ts \in Int, \E q \in ToSet(fresh(node, sl, i)) : q.ts = ts
    PROVE  lookup(node, sl, i, ts) \in Seq(Nat)
<1>1. PICK s \in Seq(Row) : s = fresh(node, sl, i)
  BY FreshType
<1> DEFINE K == {k \in 1 .. Len(s) : s[k].ts = ts}
<1>2. PICK q : q = Selected(fresh(node, sl, i), LAMBDA r : r.ts = ts)
  OBVIOUS
<1>3. q = FlattenSeq([k \in 1 .. Len(s) |-> IF k \in K THEN <<s[k]>> ELSE <<>>])
  BY <1>1, <1>2 DEF Selected
<1>4. K \in SUBSET (1 .. Len(s))
  OBVIOUS
<1>5. K # {}
  BY <1>1 DEF ToSet
<1> HIDE DEF K
<1>6. q \in Seq(Row) /\ \E h : KeptBy(h, q, s, K)
  BY ONLY <1>1, <1>3, <1>4, SelectSeqKeeps
<1>7. PICK h : KeptBy(h, q, s, K)
  BY <1>6
<1>8. Len(q) \in Nat /\ \E k \in 1 .. Len(q) : TRUE
  BY <1>5, <1>6, <1>7 DEF KeptBy
<1>9. Last(q) \in Row
  <2>1. Len(q) \in 1 .. Len(q) /\ DOMAIN q = 1 .. Len(q)
    BY <1>6, <1>8
  <2> QED BY <1>6, <2>1 DEF Last
<1>10. Last(q).val \in Seq(Nat)
  BY <1>9 DEF Row
<1>11. lookup(node, sl, i, ts) = Last(q).val
  BY <1>2 DEF lookup
<1> QED BY <1>10, <1>11

(* The rows a joining node computes from.                                  *)
LEMMA MimoRowsType ==
    ASSUME NEW node \in NodeT, node.inputs # <<>>, NEW sl \in [Topics -> Seq(Chunk)]
    PROVE  mimoRows(node, sl) \in Seq(Row)
<1>1. PICK times \in Seq(Int) : times = joinedTimes(node, sl)
  BY JoinedFacts
<1>2. node.inputs \in Seq(Topics) /\ Len(node.inputs) \in Nat /\ DOMAIN node.inputs = 1 .. Len(node.inputs)
  BY DEF NodeT
<1> DEFINE val(k) == FlattenSeq([i \in DOMAIN node.inputs |-> lookup(node, sl, i, times[k])])
           rows == [k \in 1 .. Len(times) |-> [ts |-> times[k], val |-> val(k)]]
<1>3. mimoRows(node, sl) = rows
  BY <1>1 DEF mimoRows
<1>4. ASSUME NEW k \in 1 .. Len(times)
      PROVE  [ts |-> times[k], val |-> val(k)] \in Row
  <2>1. times[k] \in Int
    BY <1>1
  <2>2. \A i \in 1 .. Len(node.inputs) : lookup(node, sl, i, times[k]) \in Seq(Nat)
    <3>1. ASSUME NEW i \in 1 .. Len(node.inputs) PROVE lookup(node, sl, i, times[k]) \in Seq(Nat)
      <4>1. \E q \in ToSet(fresh(node, sl, i)) : q.ts = times[k]
        BY <1>1, JoinedFacts
      <4> QED BY <2>1, <4>1, LookupType
    <3> QED BY <3>1
  <2>3. PICK ss : ss = [i \in DOMAIN node.inputs |-> lookup(node, sl, i, times[k])]
    OBVIOUS
  <2>4. ss \in Seq(Seq(Nat))
    BY ONLY <1>2, <2>2, <2>3
  <2>5. PICK f : Joined(f, ss, Nat)
    BY <2>4, JoinsExist
  <2>6. val(k) \in Seq(Nat)
    BY <2>3, <2>4, <2>5, FlattenIsJoin
  <2> HIDE DEF val
  <2> QED BY <2>1, <2>6 DEF Row
<1> HIDE DEF val
<1>5. Len(times) \in Nat
  BY <1>1
<1>6. rows \in Seq(Row)
  BY <1>4, <1>5
<1> QED BY <1>3, <1>6

(* The samples a run calls the transform with, and the watermark after it. *)
LEMMA SamplesType ==
    ASSUME NEW node \in NodeT, node.inputs # <<>>, NEW sl \in [Topics -> Seq(Chunk)]
    PROVE  newSamples(node, sl) \in Seq(Row) /\ newMark(node, sl) \in Int
<1>1. newSamples(node, sl) \in Seq(Row)
  <2>1. Rows(sisoChunks(node, sl)) \in Seq(Row)
    BY SisoChunksType, RowsType
  <2> QED BY <2>1, MimoRowsType DEF newSamples
<1>2. newMark(node, sl) \in Int
  <2>1. node.mark \in Int
    BY DEF NodeT
  <2>2. sisoMark(node, sl) \in Int
    BY SisoMarkFacts
  <2>3. PICK times \in Seq(Int) : times = joinedTimes(node, sl)
    BY JoinedFacts
  <2>4. times # <<>> => Last(times) \in Int
    BY <2>3 DEF Last
  <2> QED BY <2>1, <2>2, <2>3, <2>4 DEF newMark
<1> QED BY <1>1, <1>2

(* A committed chunk is the last of its topic, or dropped.                 *)
LEMMA CommitChunkType ==
    ASSUME NEW chunks \in Seq(Chunk), NEW c \in Chunk
    PROVE  commitChunk(chunks, c) \in Seq(Chunk)
<1>1. Append(chunks, c) \in Seq(Chunk)
  OBVIOUS
<1> QED BY <1>1 DEF commitChunk

(* What a run leaves alone of the node.                                    *)
SameShape(a, b) == a.mimo = b.mimo /\ a.op = b.op /\ a.inputs = b.inputs /\ a.outs = b.outs

(* A run of a node keeps it a node and its topics topics.                  *)
LEMMA RunNodeType ==
    ASSUME NEW node \in NodeT, node.inputs # <<>>, NEW sl \in [Topics -> Seq(Chunk)],
           nextChunk \in Nat \ {0}
    PROVE  /\ runNode(node, sl).node \in NodeT /\ SameShape(runNode(node, sl).node, node)
           /\ runNode(node, sl).sealed \in [Topics -> Seq(Chunk)]
           /\ runNode(node, sl).nextChunk \in Nat \ {0}
<1> DEFINE samples == newSamples(node, sl)
           rows == IF samples = <<>> THEN <<>> ELSE emitted(node, samples)
           index(t) == CHOOSE k \in DOMAIN node.outs : node.outs[k] = t
           node2 == [node EXCEPT !.dirty = FALSE, !.mark = newMark(node, sl), !.got = @ \o samples]
           sealed2 == IF rows = <<>> THEN sl
                      ELSE [t \in Topics |-> IF t \in ToSet(node.outs)
                            THEN commitChunk(sl[t], [id |-> nextChunk + index(t) - 1, rows |-> rows])
                            ELSE sl[t]]
           chunk2 == IF rows = <<>> THEN nextChunk ELSE nextChunk + Len(node.outs)
<1>1. /\ runNode(node, sl).node = node2 /\ runNode(node, sl).sealed = sealed2
      /\ runNode(node, sl).nextChunk = chunk2
  BY DEF runNode
<1>2. samples \in Seq(Row) /\ newMark(node, sl) \in Int
  BY SamplesType
<1> HIDE DEF samples
<1>3. rows \in Seq(Row)
  BY <1>2 DEF emitted
<1> HIDE DEF rows
<1>4. node2 \in NodeT /\ SameShape(node2, node)
  <2>1. node.got \o samples \in Seq(Row)
    <3>1. node.got \in Seq(Row)
      BY DEF NodeT
    <3> QED BY <1>2, <3>1
  <2> QED BY <1>2, <2>1 DEF NodeT, SameShape
<1>5. sealed2 \in [Topics -> Seq(Chunk)]
  <2>1. ASSUME NEW t \in Topics, t \in ToSet(node.outs)
        PROVE  commitChunk(sl[t], [id |-> nextChunk + index(t) - 1, rows |-> rows]) \in Seq(Chunk)
    <3>1. node.outs \in Seq(Topics) /\ DOMAIN node.outs = 1 .. Len(node.outs)
      BY DEF NodeT
    <3>2. \E k \in DOMAIN node.outs : node.outs[k] = t
      BY <2>1 DEF ToSet
    <3>3. index(t) \in 1 .. Len(node.outs)
      BY <3>1, <3>2
    <3> HIDE DEF index
    <3>4. nextChunk + index(t) - 1 \in Nat
      BY <3>1, <3>3
    <3>5. [id |-> nextChunk + index(t) - 1, rows |-> rows] \in Chunk
      BY <1>3, <3>4 DEF Chunk
    <3> QED BY <3>5, CommitChunkType
  <2> HIDE DEF index
  <2> QED BY <2>1
<1>6. chunk2 \in Nat \ {0}
  <2>1. Len(node.outs) \in Nat
    BY DEF NodeT
  <2> QED BY <2>1
<1> QED BY <1>1, <1>4, <1>5, <1>6

-----------------------------------------------------------------------------
(* Kahn's algorithm. *)

(* The node ids of a set, in ascending order.                              *)
LEMMA SortedIdsFacts ==
    ASSUME NEW S \in SUBSET NodeIds
    PROVE  /\ SortedIds(S) \in Seq(S)
           /\ \A i, j \in 1 .. Len(SortedIds(S)) : SortedIds(S)[i] = SortedIds(S)[j] => i = j
           /\ \A n \in S : \E i \in 1 .. Len(SortedIds(S)) : SortedIds(S)[i] = n
<1>1. MaxNodes \in Nat
  BY DerivedBoundAssumption
<1>2. PICK s : s = [n \in NodeIds |-> n]
  OBVIOUS
<1>3. s \in Seq(NodeIds) /\ Len(s) = MaxNodes /\ \A n \in NodeIds : s[n] = n
  BY <1>1, <1>2 DEF NodeIds
<1>4. PICK q : q = SortedIds(S)
  OBVIOUS
<1>5. q = FlattenSeq([k \in 1 .. Len(s) |-> IF k \in S THEN <<s[k]>> ELSE <<>>])
  <2>1. q = FlattenSeq([k \in 1 .. Len(s) |-> IF s[k] \in S THEN <<s[k]>> ELSE <<>>])
    BY <1>2, <1>4 DEF SortedIds, Selected
  <2>2. [k \in 1 .. Len(s) |-> IF s[k] \in S THEN <<s[k]>> ELSE <<>>]
          = [k \in 1 .. Len(s) |-> IF k \in S THEN <<s[k]>> ELSE <<>>]
    BY <1>3 DEF NodeIds
  <2> QED BY <2>1, <2>2
<1>6. S \in SUBSET (1 .. Len(s))
  BY <1>3 DEF NodeIds
<1>7. q \in Seq(NodeIds) /\ \E h : KeptBy(h, q, s, S)
  BY ONLY <1>3, <1>5, <1>6, SelectSeqKeeps
<1>8. PICK h : KeptBy(h, q, s, S)
  BY <1>7
<1>9. Len(q) \in Nat /\ \A k \in 1 .. Len(q) : h[k] \in S /\ q[k] = h[k]
  BY <1>3, <1>7, <1>8 DEF KeptBy
<1>10. q \in Seq(S)
  BY ONLY <1>7, <1>9
<1>11. \A n \in S : \E i \in 1 .. Len(q) : q[i] = n
  BY <1>8, <1>9 DEF KeptBy
<1>12. ASSUME NEW i \in 1 .. Len(q), NEW j \in 1 .. Len(q), q[i] = q[j] PROVE i = j
  <2>1. i < j => h[i] < h[j]
    BY <1>8 DEF KeptBy
  <2>2. j < i => h[j] < h[i]
    BY <1>8 DEF KeptBy
  <2>3. h[i] = h[j] /\ h[i] \in S
    BY <1>9, <1>12
  <2>4. \A x \in NodeIds : x \in Int
    BY <1>1 DEF NodeIds
  <2>5. h[i] \in Int
    BY <2>3, <2>4
  <2> QED BY <1>9, <2>1, <2>2, <2>3, <2>5
<1> QED BY <1>4, <1>10, <1>11, <1>12

(* The nodes taken from the queue in k rounds.                             *)
TakenIn(r, k) == {r[i] : i \in {j \in 1 .. Len(r) : j <= k}}

(* The nodes m waits for once the nodes of T were taken.                   *)
WaitsFor(m, T) == {u \in NodeIds : m \in downstream_of[u] /\ u \notin T}

(* The states of the algorithm, its first and its steps.                   *)
KahnStates == [ready : Seq(DOMAIN nodes), in_degree : [DOMAIN nodes -> Int]]

(* The queue and the counts of topologicalOrder, one round at a time.      *)
KahnStart == [ready |-> SortedIds({n \in DOMAIN nodes : in_degree(n) = 0}),
              in_degree |-> [n \in DOMAIN nodes |-> in_degree(n)]]
KahnDegrees(s, n) ==
    [m \in DOMAIN nodes |-> s.in_degree[m] - (IF m \in downstream_of[n] THEN 1 ELSE 0)]
KahnTake(s, n) ==
    [ready |-> s.ready \o
         SortedIds({m \in downstream_of[n] \cap DOMAIN nodes : KahnDegrees(s, n)[m] = 0}),
     in_degree |-> KahnDegrees(s, n)]
KahnRound(s, k) == IF k > Len(s.ready) THEN s ELSE KahnTake(s, s.ready[k])

(* What the algorithm needs of the graph.                                  *)
GraphOK ==
    /\ DOMAIN nodes \subseteq NodeIds
    /\ downstream_of \in [NodeIds -> SUBSET NodeIds]
    /\ \A u \in NodeIds : \A m \in downstream_of[u] :
          u \in DOMAIN nodes /\ m \in DOMAIN nodes /\ u < m

(* Sets of nodes are finite.                                               *)
LEMMA NodeIdsFinite ==
    ASSUME NEW S \in SUBSET NodeIds
    PROVE  IsFiniteSet(S) /\ Cardinality(S) \in Nat
<1>1. MaxNodes \in Int /\ 1 \in Int
  BY DerivedBoundAssumption
<1>2. IsFiniteSet(NodeIds)
  BY <1>1, FS_Interval DEF NodeIds
<1>3. IsFiniteSet(S)
  BY <1>2, FS_Subset
<1> QED BY <1>3, FS_CardinalityType

(* The states of Kahn's algorithm: the queue, and the number of producers  *)
(* each node still waits for.                                              *)
LEMMA KahnTypes ==
    ASSUME GraphOK
    PROVE  /\ KahnStart \in KahnStates
           /\ \A s \in KahnStates : \A k \in Nat \ {0} : KahnRound(s, k) \in KahnStates
<1> DEFINE ids == DOMAIN nodes
<1>1. ids \subseteq NodeIds
  BY DEF GraphOK
<1>2. \A S \in SUBSET ids : SortedIds(S) \in Seq(ids)
  <2>1. ASSUME NEW S \in SUBSET ids PROVE SortedIds(S) \in Seq(ids)
    <3>1. SortedIds(S) \in Seq(S)
      BY <1>1, SortedIdsFacts
    <3> QED BY <3>1
  <2> QED BY <2>1
<1>3. \A m \in ids : in_degree(m) \in Int
  BY NodeIdsFinite DEF in_degree
<1>4. KahnStart \in KahnStates
  BY <1>2, <1>3 DEF KahnStart, KahnStates
<1>5. ASSUME NEW s \in KahnStates, NEW k \in Nat \ {0} PROVE KahnRound(s, k) \in KahnStates
  <2>1. s.ready \in Seq(ids) /\ s.in_degree \in [ids -> Int]
    BY DEF KahnStates
  <2>2. ASSUME NEW n \in ids PROVE KahnTake(s, n) \in KahnStates
    <3>1. KahnDegrees(s, n) \in [ids -> Int]
      BY <2>1 DEF KahnDegrees
    <3>2. PICK q : q = SortedIds({m \in downstream_of[n] \cap ids : KahnDegrees(s, n)[m] = 0})
      OBVIOUS
    <3>3. q \in Seq(ids)
      BY <1>2, <3>2
    <3>4. s.ready \o q \in Seq(ids)
      BY <2>1, <3>3
    <3> QED BY <3>1, <3>2, <3>4 DEF KahnTake, KahnStates
  <2>3. CASE k > Len(s.ready)
    BY <2>3 DEF KahnRound
  <2>4. CASE ~(k > Len(s.ready))
    <3>1. s.ready[k] \in ids
      BY <2>1, <2>4
    <3> QED BY <2>2, <2>4, <3>1 DEF KahnRound
  <2> QED BY <2>3, <2>4
<1> QED BY <1>4, <1>5

(* The states the algorithm goes through, as topologicalOrder computes     *)
(* them.                                                                   *)
KahnRuns(f) ==
    /\ f \in [0 .. Cardinality(DOMAIN nodes) -> KahnStates]
    /\ f[0] = KahnStart
    /\ \A k \in 1 .. Cardinality(DOMAIN nodes) : f[k] = KahnRound(f[k - 1], k)

(* topologicalOrder is the queue after as many rounds as there are nodes.  *)
LEMMA KahnUnfolds ==
    ASSUME GraphOK
    PROVE  \E f : KahnRuns(f) /\ topologicalOrder = f[Cardinality(DOMAIN nodes)].ready
<1> DEFINE c == Cardinality(DOMAIN nodes)
           Body(h) == [k \in 0 .. c |-> IF k = 0 THEN KahnStart ELSE KahnRound(h[k - 1], k)]
           run == CHOOSE h : h = Body(h)
<1>1. c \in Nat
  BY NodeIdsFinite DEF GraphOK
<1>2. topologicalOrder = run[c].ready
  BY DEF topologicalOrder, KahnStart, KahnRound, KahnTake, KahnDegrees
<1> HIDE DEF c
<1>3. PICK g : g = [k \in 1 .. c |-> [s \in KahnStates |-> KahnRound(s, k)]]
  OBVIOUS
<1>4. g \in [1 .. c -> [KahnStates -> KahnStates]]
  BY <1>1, <1>3, KahnTypes
<1>5. KahnStart \in KahnStates
  BY KahnTypes
<1>6. PICK f : Iterated(f, KahnStates, c, KahnStart, g)
  BY ONLY <1>1, <1>4, <1>5, Iterates
<1>7. f \in [0 .. c -> KahnStates] /\ f[0] = KahnStart /\ \A k \in 1 .. c : f[k] = g[k][f[k - 1]]
  BY <1>6 DEF Iterated
<1>8. ASSUME NEW k \in 1 .. c
      PROVE  k - 1 \in 0 .. c /\ f[k - 1] \in KahnStates /\ f[k] = KahnRound(f[k - 1], k)
  <2>1. k - 1 \in 0 .. c /\ f[k - 1] \in KahnStates
    BY <1>1, <1>7
  <2>2. g[k] = [s \in KahnStates |-> KahnRound(s, k)]
    BY <1>3
  <2>3. f[k] = g[k][f[k - 1]]
    BY <1>7
  <2> QED BY <2>1, <2>2, <2>3
<1>9. f = Body(f)
  <2>1. \A k \in 0 .. c : f[k] = IF k = 0 THEN KahnStart ELSE KahnRound(f[k - 1], k)
    <3>1. \A k \in 0 .. c : k = 0 \/ k \in 1 .. c
      BY <1>1
    <3> QED BY <1>7, <1>8, <3>1
  <2> QED BY <1>7, <2>1
<1>10. run = Body(run)
  <2> HIDE DEF Body
  <2> QED BY <1>9
<1>11. run = f
  <2> HIDE DEF run
  <2>1. DOMAIN run = 0 .. c /\ \A k \in 0 .. c : run[k] = IF k = 0 THEN KahnStart ELSE KahnRound(run[k - 1], k)
    BY <1>10
  <2> DEFINE S == {k \in 0 .. c : run[k] = f[k]}
  <2>2. 0 \in S
    BY <1>1, <1>7, <2>1
  <2>3. ASSUME NEW k \in 0 .. c - 1, k \in S PROVE k + 1 \in S
    <3>1. k + 1 \in 1 .. c /\ k + 1 \in 0 .. c /\ k + 1 # 0 /\ (k + 1) - 1 = k
      BY <1>1
    <3>2. run[k + 1] = KahnRound(run[k], k + 1) /\ f[k + 1] = KahnRound(f[k], k + 1)
      <4>1. run[k + 1] = KahnRound(run[(k + 1) - 1], k + 1) /\ f[k + 1] = KahnRound(f[(k + 1) - 1], k + 1)
        BY <1>8, <2>1, <3>1
      <4> QED BY <3>1, <4>1
    <3> QED BY <2>3, <3>1, <3>2
  <2>4. 0 .. c \subseteq S
    <3> HIDE DEF S
    <3> QED BY <1>1, <2>2, <2>3, IntervalInduction
  <2>5. \A k \in 0 .. c : run[k] = f[k]
    BY <2>4
  <2>6. run = [k \in 0 .. c |-> run[k]] /\ f = [k \in 0 .. c |-> f[k]]
    <3>1. run = [k \in 0 .. c |-> IF k = 0 THEN KahnStart ELSE KahnRound(run[k - 1], k)]
      BY <1>10
    <3> QED BY <1>7, <2>1, <3>1
  <2> QED BY <2>5, <2>6
<1>12. KahnRuns(f)
  BY <1>7, <1>8 DEF KahnRuns, c
<1> QED BY <1>2, <1>11, <1>12 DEF c

(* After k rounds the queue holds exactly the nodes that wait for none but *)
(* taken ones, each once and after all it depends on, and in_degree counts *)
(* what a node still waits for.                                            *)
KahnInv(s, k) ==
    /\ \A i, j \in 1 .. Len(s.ready) : s.ready[i] = s.ready[j] => i = j
    /\ \A m \in DOMAIN nodes : s.in_degree[m] = Cardinality(WaitsFor(m, TakenIn(s.ready, k)))
    /\ \A m \in DOMAIN nodes :
          (\E i \in 1 .. Len(s.ready) : s.ready[i] = m) <=> WaitsFor(m, TakenIn(s.ready, k)) = {}
    /\ \A j \in 1 .. Len(s.ready) : \A u \in NodeIds :
          s.ready[j] \in downstream_of[u] => \E i \in 1 .. Len(s.ready) : i < j /\ s.ready[i] = u

(* Kahn's invariant holds before the first round.                          *)
LEMMA KahnInit ==
    ASSUME GraphOK
    PROVE  KahnInv(KahnStart, 0)
<1> DEFINE S == {n \in DOMAIN nodes : in_degree(n) = 0}
           r == SortedIds(S)
<1>1. KahnStart.ready = r /\ KahnStart.in_degree = [n \in DOMAIN nodes |-> in_degree(n)]
  BY DEF KahnStart
<1>2. S \in SUBSET NodeIds
  BY DEF GraphOK
<1>3. \A n \in DOMAIN nodes : n \in S <=> in_degree(n) = 0
  OBVIOUS
<1>4. S \subseteq DOMAIN nodes
  OBVIOUS
<1> HIDE DEF S
<1>5. /\ r \in Seq(S)
      /\ \A i, j \in 1 .. Len(r) : r[i] = r[j] => i = j
      /\ \A n \in S : \E i \in 1 .. Len(r) : r[i] = n
  BY <1>2, SortedIdsFacts
<1> HIDE DEF r
<1>6. Len(r) \in Nat /\ \A i \in 1 .. Len(r) : r[i] \in S
  BY <1>5
<1>7. TakenIn(r, 0) = {}
  BY <1>6 DEF TakenIn
<1>8. \A m : in_degree(m) = Cardinality(WaitsFor(m, {}))
  BY DEF in_degree, WaitsFor
<1>9. \A m : in_degree(m) = 0 <=> WaitsFor(m, {}) = {}
  <2>1. ASSUME NEW m PROVE in_degree(m) = 0 <=> WaitsFor(m, {}) = {}
    <3>1. IsFiniteSet(WaitsFor(m, {}))
      BY NodeIdsFinite DEF WaitsFor
    <3> QED BY <1>8, <3>1, FS_EmptySet
  <2> QED BY <2>1
<1>10. \A m \in DOMAIN nodes : (\E i \in 1 .. Len(r) : r[i] = m) <=> WaitsFor(m, {}) = {}
  BY <1>3, <1>5, <1>6, <1>9
<1>11. \A j \in 1 .. Len(r) : \A u \in NodeIds : r[j] \notin downstream_of[u]
  <2>1. \A j \in 1 .. Len(r) : WaitsFor(r[j], {}) = {}
    BY <1>3, <1>4, <1>6, <1>9
  <2> QED BY <2>1 DEF WaitsFor
<1>12. \A m \in DOMAIN nodes : KahnStart.in_degree[m] = Cardinality(WaitsFor(m, {}))
  BY <1>1, <1>8
<1> QED BY ONLY <1>1, <1>5, <1>7, <1>10, <1>11, <1>12 DEF KahnInv

(* Taking the next node of the queue.                                      *)
LEMMA KahnTakes ==
    ASSUME GraphOK, NEW s \in KahnStates, NEW k \in Nat, KahnInv(s, k), k + 1 <= Len(s.ready)
    PROVE  KahnInv(KahnTake(s, s.ready[k + 1]), k + 1)
<1> DEFINE ids == DOMAIN nodes
           T == TakenIn(s.ready, k)
<1>1. PICK r \in Seq(ids) : r = s.ready
  BY DEF KahnStates
<1>2. Len(r) \in Nat /\ k + 1 \in 1 .. Len(r) /\ \A i \in 1 .. Len(r) : r[i] \in ids
  BY <1>1
<1>3. PICK n \in ids : n = r[k + 1]
  BY <1>2
<1>4. ids \subseteq NodeIds /\ n \in NodeIds /\ downstream_of[n] \subseteq ids
  BY DEF GraphOK
<1> DEFINE deg == KahnDegrees(s, n)
           Q == {m \in downstream_of[n] \cap ids : deg[m] = 0}
           q == SortedIds(Q)
           r2 == r \o q
           T2 == TakenIn(r2, k + 1)
<1>5. KahnTake(s, n).ready = r2 /\ KahnTake(s, n).in_degree = deg
  BY <1>1 DEF KahnTake
<1>6. /\ \A i, j \in 1 .. Len(r) : r[i] = r[j] => i = j
      /\ \A m \in ids : s.in_degree[m] = Cardinality(WaitsFor(m, T))
      /\ \A m \in ids : (\E i \in 1 .. Len(r) : r[i] = m) <=> WaitsFor(m, T) = {}
      /\ \A j \in 1 .. Len(r) : \A u \in NodeIds :
            r[j] \in downstream_of[u] => \E i \in 1 .. Len(r) : i < j /\ r[i] = u
  BY <1>1 DEF KahnInv
<1>7. T = {r[i] : i \in {j \in 1 .. Len(r) : j <= k}}
  BY <1>1 DEF TakenIn
<1>8. \A m \in ids : deg[m] = s.in_degree[m] - (IF m \in downstream_of[n] THEN 1 ELSE 0)
  BY DEF KahnDegrees
<1>9. Q \in SUBSET NodeIds /\ Q \subseteq ids /\ \A m \in ids : m \in Q <=> m \in downstream_of[n] /\ deg[m] = 0
  BY <1>4
<1> HIDE DEF T, deg, Q
<1>10. /\ q \in Seq(Q) /\ \A i, j \in 1 .. Len(q) : q[i] = q[j] => i = j
       /\ \A m \in Q : \E i \in 1 .. Len(q) : q[i] = m
  BY <1>9, SortedIdsFacts
<1> HIDE DEF q
<1>11. Len(q) \in Nat /\ q \in Seq(ids) /\ \A i \in 1 .. Len(q) : q[i] \in Q
  <2>1. Len(q) \in Nat /\ \A i \in 1 .. Len(q) : q[i] \in Q
    BY <1>10
  <2>2. q \in Seq(NodeIds) /\ q \in Seq(ids)
    BY <1>9, <1>10
  <2> QED BY <2>1, <2>2
<1>12. /\ Len(r2) = Len(r) + Len(q) /\ (\A i \in 1 .. Len(r) : r2[i] = r[i])
       /\ \A i \in 1 .. Len(q) : r2[Len(r) + i] = q[i]
  BY ONLY <1>1, <1>11, ConcatFacts
<1> HIDE DEF r2
<1>13. \A j \in 1 .. Len(r2) : \/ j \in 1 .. Len(r) /\ r2[j] = r[j]
                               \/ j - Len(r) \in 1 .. Len(q) /\ j > Len(r) /\ r2[j] = q[j - Len(r)]
  <2>1. ASSUME NEW j \in 1 .. Len(r2), j \notin 1 .. Len(r)
        PROVE  j - Len(r) \in 1 .. Len(q) /\ j > Len(r) /\ r2[j] = q[j - Len(r)]
    <3>1. j - Len(r) \in 1 .. Len(q) /\ j > Len(r) /\ Len(r) + (j - Len(r)) = j
      BY <1>2, <1>11, <1>12, <2>1
    <3>2. r2[Len(r) + (j - Len(r))] = q[j - Len(r)]
      BY <1>12, <3>1
    <3> QED BY <3>1, <3>2
  <2> QED BY <1>12, <2>1
<1>14. 1 .. Len(r) \subseteq 1 .. Len(r2) /\ \A i \in 1 .. Len(q) : Len(r) + i \in 1 .. Len(r2)
  BY <1>2, <1>11, <1>12
<1>15. T2 = T \cup {n} /\ n \notin T
  <2>1. T2 = {r2[i] : i \in {j \in 1 .. Len(r2) : j <= k + 1}}
    BY DEF TakenIn
  <2>2. \A i : i \in {j \in 1 .. Len(r2) : j <= k + 1} <=> (i \in {j \in 1 .. Len(r) : j <= k} \/ i = k + 1)
    BY <1>2, <1>11, <1>12
  <2>3. \A i \in {j \in 1 .. Len(r) : j <= k} : r2[i] = r[i] /\ i # k + 1 /\ i \in 1 .. Len(r)
    BY <1>2, <1>12
  <2>4. r2[k + 1] = n
    BY <1>2, <1>3, <1>12
  <2>5. n \notin T
    BY <1>2, <1>3, <1>6, <1>7, <2>3
  <2> QED BY <1>7, <2>1, <2>2, <2>3, <2>4, <2>5
<1> HIDE DEF T2
<1>16. ASSUME NEW m \in ids
       PROVE  /\ WaitsFor(m, T2) = WaitsFor(m, T) \ {n}
              /\ n \in WaitsFor(m, T) <=> m \in downstream_of[n]
              /\ deg[m] = Cardinality(WaitsFor(m, T2))
              /\ deg[m] = 0 <=> WaitsFor(m, T2) = {}
  <2>1. WaitsFor(m, T2) = WaitsFor(m, T) \ {n} /\ (n \in WaitsFor(m, T) <=> m \in downstream_of[n])
    BY <1>4, <1>15 DEF WaitsFor
  <2>2. WaitsFor(m, T) \in SUBSET NodeIds /\ WaitsFor(m, T2) \in SUBSET NodeIds
    BY DEF WaitsFor
  <2>3. IsFiniteSet(WaitsFor(m, T)) /\ IsFiniteSet(WaitsFor(m, T2)) /\ Cardinality(WaitsFor(m, T)) \in Nat
    BY <2>2, NodeIdsFinite
  <2>4. Cardinality(WaitsFor(m, T) \ {n})
          = IF n \in WaitsFor(m, T) THEN Cardinality(WaitsFor(m, T)) - 1 ELSE Cardinality(WaitsFor(m, T))
    BY <2>3, FS_RemoveElement
  <2>5. deg[m] = Cardinality(WaitsFor(m, T2))
    BY <1>6, <1>8, <2>1, <2>3, <2>4
  <2>6. deg[m] = 0 <=> WaitsFor(m, T2) = {}
    BY <2>3, <2>5, FS_EmptySet
  <2> QED BY <2>1, <2>5, <2>6
<1>17. \A m \in Q : \A i \in 1 .. Len(r) : r[i] # m
  BY <1>6, <1>9, <1>16
<1>18. ASSUME NEW i \in 1 .. Len(r2), NEW j \in 1 .. Len(r2), r2[i] = r2[j] PROVE i = j
  <2>1. CASE i \in 1 .. Len(r) /\ j \in 1 .. Len(r)
    BY <1>6, <1>12, <1>18, <2>1
  <2>2. CASE i \in 1 .. Len(r) /\ j \notin 1 .. Len(r)
    <3>1. r2[j] \in Q /\ r2[i] = r[i]
      BY <1>11, <1>12, <1>13, <2>2
    <3> QED BY ONLY <1>17, r2[i] = r2[j], <2>2, <3>1
  <2>3. CASE i \notin 1 .. Len(r) /\ j \in 1 .. Len(r)
    <3>1. r2[i] \in Q /\ r2[j] = r[j]
      BY <1>11, <1>12, <1>13, <2>3
    <3> QED BY ONLY <1>17, r2[i] = r2[j], <2>3, <3>1
  <2>4. CASE i \notin 1 .. Len(r) /\ j \notin 1 .. Len(r)
    <3>1. /\ i - Len(r) \in 1 .. Len(q) /\ r2[i] = q[i - Len(r)]
          /\ j - Len(r) \in 1 .. Len(q) /\ r2[j] = q[j - Len(r)]
      BY <1>13, <2>4
    <3>2. i - Len(r) = j - Len(r)
      <4>1. q[i - Len(r)] = q[j - Len(r)]
        BY <1>18, <3>1
      <4> QED BY ONLY <1>10, <3>1, <4>1
    <3> QED BY <1>2, <1>11, <1>12, <3>2
  <2> QED BY <2>1, <2>2, <2>3, <2>4
<1>19. ASSUME NEW m \in ids
       PROVE  (\E i \in 1 .. Len(r2) : r2[i] = m) <=> WaitsFor(m, T2) = {}
  <2>1. (\E i \in 1 .. Len(r2) : r2[i] = m) <=> (\E i \in 1 .. Len(r) : r[i] = m) \/ m \in Q
    <3>1. ASSUME NEW i \in 1 .. Len(r2), r2[i] = m PROVE (\E j \in 1 .. Len(r) : r[j] = m) \/ m \in Q
      BY <1>11, <1>13, <3>1
    <3>2. ASSUME NEW i \in 1 .. Len(r), r[i] = m PROVE \E j \in 1 .. Len(r2) : r2[j] = m
      BY <1>12, <1>14, <3>2
    <3>3. ASSUME m \in Q PROVE \E j \in 1 .. Len(r2) : r2[j] = m
      <4>1. PICK i \in 1 .. Len(q) : q[i] = m
        BY <1>10, <3>3
      <4>2. Len(r) + i \in 1 .. Len(r2) /\ r2[Len(r) + i] = m
        BY <1>12, <1>14, <4>1
      <4> QED BY <4>2
    <3> QED BY <3>1, <3>2, <3>3
  <2> QED BY <1>6, <1>9, <1>16, <2>1
<1>20. ASSUME NEW j \in 1 .. Len(r2), NEW u \in NodeIds, r2[j] \in downstream_of[u]
       PROVE  \E i \in 1 .. Len(r2) : i < j /\ r2[i] = u
  <2>1. CASE j \in 1 .. Len(r)
    <3>1. PICK i \in 1 .. Len(r) : i < j /\ r[i] = u
      BY <1>6, <1>12, <1>20, <2>1
    <3> QED BY <1>12, <1>14, <3>1
  <2>2. CASE j \notin 1 .. Len(r)
    <3>1. j > Len(r) /\ r2[j] \in Q
      BY <1>11, <1>13, <2>2
    <3>2. WaitsFor(r2[j], T2) = {}
      BY <1>9, <1>16, <3>1
    <3>3. u \in T2
      BY <1>20, <3>2 DEF WaitsFor
    <3>4. \E i \in 1 .. Len(r) : r[i] = u
      BY <1>2, <1>3, <1>7, <1>15, <3>3
    <3>5. PICK i \in 1 .. Len(r) : r[i] = u
      BY <3>4
    <3>6. i < j
      BY <1>2, <1>11, <1>12, <3>1
    <3> QED BY <1>12, <1>14, <3>5, <3>6
  <2> QED BY <2>1, <2>2
<1>21. KahnInv(KahnTake(s, n), k + 1)
  BY <1>5, <1>16, <1>18, <1>19, <1>20 DEF KahnInv, T2
<1> QED BY <1>1, <1>3, <1>21

(* Every round keeps the invariant.                                        *)
LEMMA KahnRounds ==
    ASSUME GraphOK, NEW s \in KahnStates, NEW k \in Nat, KahnInv(s, k)
    PROVE  KahnInv(KahnRound(s, k + 1), k + 1)
<1>1. Len(s.ready) \in Nat
  BY DEF KahnStates
<1>2. CASE k + 1 > Len(s.ready)
  <2>1. TakenIn(s.ready, k + 1) = TakenIn(s.ready, k)
    <3>1. {j \in 1 .. Len(s.ready) : j <= k + 1} = {j \in 1 .. Len(s.ready) : j <= k}
      BY <1>1, <1>2
    <3> QED BY <3>1 DEF TakenIn
  <2>2. KahnRound(s, k + 1) = s
    BY <1>2 DEF KahnRound
  <2> QED BY <2>1, <2>2 DEF KahnInv
<1>3. CASE ~(k + 1 > Len(s.ready))
  <2>1. KahnRound(s, k + 1) = KahnTake(s, s.ready[k + 1]) /\ k + 1 <= Len(s.ready)
    BY <1>1, <1>3 DEF KahnRound
  <2> QED BY <2>1, KahnTakes
<1> QED BY <1>2, <1>3

(* The order has every node once, after all it depends on.                 *)
LEMMA OrderCorrect ==
    ASSUME GraphOK
    PROVE  OrderIsTopological /\ topologicalOrder \in Seq(DOMAIN nodes)
<1> DEFINE ids == DOMAIN nodes
<1>1. PICK f : KahnRuns(f) /\ topologicalOrder = f[Cardinality(DOMAIN nodes)].ready
  BY KahnUnfolds
<1>2. PICK c \in Nat : c = Cardinality(ids)
  BY NodeIdsFinite DEF GraphOK
<1>3. /\ f \in [0 .. c -> KahnStates] /\ f[0] = KahnStart
      /\ \A k \in 1 .. c : f[k] = KahnRound(f[k - 1], k)
  BY <1>1, <1>2 DEF KahnRuns
<1>4. KahnInv(f[c], c)
  <2> DEFINE S == {k \in 0 .. c : KahnInv(f[k], k)}
  <2>1. 0 \in S
    BY <1>2, <1>3, KahnInit
  <2>2. ASSUME NEW k \in 0 .. c - 1, k \in S PROVE k + 1 \in S
    <3>1. k \in Nat /\ k + 1 \in 1 .. c /\ k + 1 \in 0 .. c /\ (k + 1) - 1 = k /\ f[k] \in KahnStates
      BY <1>2, <1>3
    <3>2. f[k + 1] = KahnRound(f[k], k + 1)
      BY <1>3, <3>1
    <3>3. KahnInv(KahnRound(f[k], k + 1), k + 1)
      BY <2>2, <3>1, KahnRounds
    <3> QED BY <3>1, <3>2, <3>3
  <2>3. 0 .. c \subseteq S
    <3> HIDE DEF S
    <3> QED BY <1>2, <2>1, <2>2, IntervalInduction
  <2>4. c \in 0 .. c
    BY <1>2
  <2> QED BY <2>3, <2>4
<1>5. PICK r \in Seq(ids) : r = f[c].ready
  <2>1. f[c] \in KahnStates
    BY <1>2, <1>3
  <2> QED BY <2>1 DEF KahnStates
<1>6. topologicalOrder = r
  BY <1>1, <1>2, <1>5
<1>7. /\ \A i, j \in 1 .. Len(r) : r[i] = r[j] => i = j
      /\ \A m \in ids : (\E i \in 1 .. Len(r) : r[i] = m) <=> WaitsFor(m, TakenIn(r, c)) = {}
      /\ \A j \in 1 .. Len(r) : \A u \in NodeIds :
            r[j] \in downstream_of[u] => \E i \in 1 .. Len(r) : i < j /\ r[i] = u
  BY <1>4, <1>5 DEF KahnInv
<1>8. Len(r) \in Nat /\ DOMAIN r = 1 .. Len(r) /\ \A i \in 1 .. Len(r) : r[i] \in ids
  BY <1>5
<1>9. IsFiniteSet(ids) /\ IsFiniteSet(1 .. Len(r)) /\ Cardinality(1 .. Len(r)) = Len(r)
  <2>1. IsFiniteSet(ids)
    BY NodeIdsFinite DEF GraphOK
  <2>2. Len(r) \in Int /\ 1 \in Int
    BY <1>8
  <2> QED BY <1>8, <2>1, <2>2, FS_Interval
<1>10. r \in [1 .. Len(r) -> ids]
  BY <1>5, <1>8
<1>11. r \in Injection(1 .. Len(r), ids)
  BY <1>7, <1>10 DEF Injection, IsInjective
<1>12. Len(r) <= c
  BY <1>2, <1>9, <1>11, FS_Injection
<1>13. TakenIn(r, c) = {r[i] : i \in 1 .. Len(r)}
  <2>1. {j \in 1 .. Len(r) : j <= c} = 1 .. Len(r)
    BY <1>2, <1>8, <1>12
  <2> QED BY <2>1 DEF TakenIn
<1>14. \A m \in ids : \E i \in 1 .. Len(r) : r[i] = m
  <2> DEFINE B == {m \in ids : ~\E i \in 1 .. Len(r) : r[i] = m}
  <2>1. ids \subseteq NodeIds /\ NodeIds \subseteq Nat
    BY DerivedBoundAssumption DEF GraphOK, NodeIds
  <2>2. B \in SUBSET Nat
    BY <2>1
  <2>3. ASSUME B # {} PROVE FALSE
    <3>1. PICK m \in B : \A x \in B : m <= x
      BY <2>2, <2>3, LeastNatural
    <3>2. m \in ids /\ WaitsFor(m, TakenIn(r, c)) # {}
      BY <1>7
    <3>3. PICK u \in NodeIds : m \in downstream_of[u] /\ u \notin TakenIn(r, c)
      BY <3>2 DEF WaitsFor
    <3>4. u \in ids /\ u < m
      BY <3>3 DEF GraphOK
    <3>5. u \in B
      BY <1>13, <3>3, <3>4
    <3>6. m <= u /\ m \in Nat /\ u \in Nat
      BY <2>1, <3>1, <3>2, <3>5
    <3> QED BY <3>4, <3>6
  <2> QED BY <2>3
<1>15. ToSet(r) = ids
  BY <1>8, <1>14 DEF ToSet
<1>16. Len(r) = Cardinality(ids)
  <2>1. r \in Surjection(1 .. Len(r), ids)
    BY <1>10, <1>14 DEF Surjection
  <2> QED BY <1>9, <1>11, <2>1, FS_Injection
<1>17. ASSUME NEW i \in DOMAIN r, NEW j \in DOMAIN r, r[j] \in downstream_of[r[i]] PROVE i < j
  <2>1. i \in 1 .. Len(r) /\ j \in 1 .. Len(r) /\ r[i] \in NodeIds
    BY <1>8 DEF GraphOK
  <2>2. PICK x \in 1 .. Len(r) : x < j /\ r[x] = r[i]
    BY <1>7, <1>17, <2>1
  <2> QED BY <1>7, <2>1, <2>2
<1> QED BY <1>5, <1>6, <1>15, <1>16, <1>17 DEF OrderIsTopological

-----------------------------------------------------------------------------
(* Steps that leave the graph alone. *)

(* What Kahn's algorithm needs of the graph.                               *)
LEMMA GraphInvOK ==
    ASSUME GraphInv
    PROVE  GraphOK
<1>1. DOMAIN nodes \subseteq NodeIds
  <2>1. DOMAIN nodes \subseteq 1 .. nextNode - 1 /\ nextNode \in 1 .. MaxNodes + 1 /\ MaxNodes \in Nat
    BY DerivedBoundAssumption DEF GraphInv, TypeOK
  <2> QED BY <2>1 DEF NodeIds
<1>2. downstream_of \in [NodeIds -> SUBSET NodeIds]
  BY DEF GraphInv, TypeOK
<1>3. ASSUME NEW u \in NodeIds, NEW m \in downstream_of[u]
      PROVE  u \in DOMAIN nodes /\ m \in DOMAIN nodes /\ u < m
  BY DEF GraphInv, IndexesAgree, Older, Exists
<1> QED BY <1>1, <1>2, <1>3 DEF GraphOK

(* The nodes that are there keep their topics, and so does the graph.      *)
SameGraph ==
    /\ UNCHANGED graph
    /\ DOMAIN nodes' = DOMAIN nodes
    /\ \A n \in DOMAIN nodes : nodes'[n] \in NodeT /\ SameShape(nodes'[n], nodes[n])

(* Steps that leave the topics of the nodes and the indexes alone keep the *)
(* graph invariant.                                                        *)
LEMMA SameGraphKeeps ==
    ASSUME GraphInv, SameGraph
    PROVE  TopicsExist' /\ IndexesAgree' /\ Older'
<1> DEFINE ids == DOMAIN nodes
<1>1. /\ nextTopic' = nextTopic /\ topic_to_nodes' = topic_to_nodes
      /\ output_topic_to_node' = output_topic_to_node /\ downstream_of' = downstream_of
      /\ registered_output_names' = registered_output_names /\ DOMAIN nodes' = ids
  BY DEF SameGraph, graph
<1>2. \A n \in ids : nodes'[n].inputs = nodes[n].inputs /\ nodes'[n].outs = nodes[n].outs
  BY DEF SameGraph, SameShape
<1>3. TopicsExist'
  BY <1>1, <1>2 DEF GraphInv, TopicsExist, TopicsOK
<1>4. Older'
  BY <1>1 DEF GraphInv, Older
<1>5. IndexesAgree'
  <2>1. ASSUME NEW t \in Topics
        PROVE  /\ topic_to_nodes[t] = {n \in ids : t \in ToSet(nodes'[n].inputs)}
               /\ {n \in ids : t \in ToSet(nodes'[n].outs)} = {output_topic_to_node[t]} \ {0}
    <3>1. /\ topic_to_nodes[t] = {n \in ids : t \in ToSet(nodes[n].inputs)}
          /\ {n \in ids : t \in ToSet(nodes[n].outs)} = {output_topic_to_node[t]} \ {0}
      BY DEF GraphInv, IndexesAgree
    <3>2. /\ {n \in ids : t \in ToSet(nodes'[n].inputs)} = {n \in ids : t \in ToSet(nodes[n].inputs)}
          /\ {n \in ids : t \in ToSet(nodes'[n].outs)} = {n \in ids : t \in ToSet(nodes[n].outs)}
      BY <1>2
    <3> QED BY <3>1, <3>2
  <2>2. ASSUME NEW n \in NodeIds
        PROVE  downstream_of[n] = {m \in ids : n \in ids /\ ToSet(nodes'[m].inputs) \cap ToSet(nodes'[n].outs) # {}}
    <3>1. downstream_of[n] = {m \in ids : n \in ids /\ ToSet(nodes[m].inputs) \cap ToSet(nodes[n].outs) # {}}
      BY DEF GraphInv, IndexesAgree, Exists
    <3> QED BY <1>2, <3>1
  <2>3. {registered_output_names[x] : x \in Names} \ {0} = {t \in Topics : output_topic_to_node[t] # 0}
    BY DEF GraphInv, IndexesAgree
  <2> QED BY <1>1, <2>1, <2>2, <2>3 DEF IndexesAgree, Exists
<1> QED BY <1>3, <1>4, <1>5

(* A writer that seals a chunk leaves the graph alone.                     *)
LEMMA SealSourceGraph ==
    ASSUME GraphInv, NEW w \in Writers, NEW t \in 1 .. NumSources, NEW ts \in Batches, sealSource(w, t, ts)
    PROVE  GraphInv'
<1>1. TypeOK
  BY DEF GraphInv
<1>2. /\ nodes' = nodes /\ UNCHANGED graph /\ todo' = todo /\ sealed' = sealed /\ unnotified' = unnotified
      /\ recomputes' = recomputes /\ replayed' = replayed
  BY DEF sealSource, history
<1>3. SameGraph
  BY <1>1, <1>2 DEF SameGraph, SameShape, TypeOK, NodeT
<1>4. ts \in Seq(Int) /\ Len(ts) \in Nat /\ DOMAIN ts = 1 .. Len(ts)
  BY DerivedBatchAssumption
<1>5. sealedRows \in Nat /\ nextChunk \in Nat \ {0} /\ t \in Topics /\ MaxRows \in Nat
  BY <1>1, DerivedBoundAssumption DEF TypeOK, Topics
<1>6. PICK rows : rows = [i \in DOMAIN ts |-> [ts |-> ts[i], val |-> <<sealedRows + i>>]]
  OBVIOUS
<1>7. rows \in Seq(Row)
  <2>1. \A i \in 1 .. Len(ts) : [ts |-> ts[i], val |-> <<sealedRows + i>>] \in Row
    <3>1. ASSUME NEW i \in 1 .. Len(ts) PROVE [ts |-> ts[i], val |-> <<sealedRows + i>>] \in Row
      <4>1. ts[i] \in Int /\ sealedRows + i \in Nat
        BY <1>4, <1>5
      <4>2. <<sealedRows + i>> \in Seq(Nat)
        BY <4>1
      <4> QED BY <4>1, <4>2 DEF Row
    <3> QED BY <3>1
  <2> QED BY ONLY <1>4, <1>6, <2>1
<1>8. PICK p : p = [topic |-> t, chunk |-> [id |-> nextChunk, rows |-> rows]]
  OBVIOUS
<1>9. p \in [topic : Topics, chunk : Chunk]
  BY <1>5, <1>7, <1>8 DEF Chunk
<1>10. pending' = [pending EXCEPT ![w] = <<p>>]
  BY <1>6, <1>8 DEF sealSource
<1>11. pending' \in [Writers -> Seq([topic : Topics, chunk : Chunk])]
  <2>1. PICK P : P = [topic : Topics, chunk : Chunk]
    OBVIOUS
  <2>2. pending \in [Writers -> Seq(P)] /\ <<p>> \in Seq(P)
    <3>1. pending \in [Writers -> Seq(P)]
      BY <1>1, <2>1 DEF TypeOK
    <3>2. p \in P
      BY <1>9, <2>1
    <3>3. <<p>> \in Seq(P)
      BY ONLY <3>2
    <3> QED BY <3>1, <3>3
  <2>3. pending' \in [Writers -> Seq(P)]
    BY ONLY <1>10, <2>2
  <2> QED BY <2>1, <2>3
<1>12. nextChunk' \in Nat \ {0} /\ sealedRows' \in 0 .. MaxRows
  BY <1>4, <1>5 DEF sealSource
<1>13. TypeOK'
  BY <1>1, <1>2, <1>11, <1>12 DEF TypeOK, graph
<1>14. TodoOK'
  BY <1>2 DEF GraphInv, TodoOK
<1> QED BY <1>3, <1>13, <1>14, SameGraphKeeps DEF GraphInv

(* A commit of a source topic leaves the graph alone.                      *)
LEMMA CommitSourceGraph ==
    ASSUME GraphInv, NEW w \in Writers, commitSource(w)
    PROVE  GraphInv'
<1>1. TypeOK
  BY DEF GraphInv
<1>2. /\ nodes' = nodes /\ UNCHANGED graph /\ todo' = todo /\ nextChunk' = nextChunk
      /\ sealedRows' = sealedRows /\ recomputes' = recomputes /\ replayed' = replayed
  BY DEF commitSource, history
<1>3. SameGraph
  BY <1>1, <1>2 DEF SameGraph, SameShape, TypeOK, NodeT
<1>4. PICK P : P = [topic : Topics, chunk : Chunk]
  OBVIOUS
<1>5. pending \in [Writers -> Seq(P)] /\ pending[w] # <<>>
  BY <1>1, <1>4 DEF TypeOK, commitSource
<1>6. pending[w][1] \in P /\ pending' \in [Writers -> Seq(P)]
  <2>1. pending[w] \in Seq(P) /\ pending[w] # <<>> /\ pending' = [pending EXCEPT ![w] = <<>>]
    BY <1>5 DEF commitSource
  <2> QED BY ONLY <1>5, <2>1
<1>7. PICK p \in P : p = pending[w][1]
  BY <1>6
<1>8. p.topic \in Topics /\ p.chunk \in Chunk
  BY <1>4, <1>7
<1>9. sealed' = [sealed EXCEPT ![p.topic] = commitChunk(sealed[p.topic], p.chunk)]
  BY <1>7 DEF commitSource
<1>10. sealed \in [Topics -> Seq(Chunk)]
  BY <1>1 DEF TypeOK
<1>11. commitChunk(sealed[p.topic], p.chunk) \in Seq(Chunk)
  BY <1>8, <1>10, CommitChunkType
<1>12. sealed' \in [Topics -> Seq(Chunk)]
  BY <1>8, <1>9, <1>10, <1>11
<1>13. unnotified' \subseteq Topics
  <2>1. unnotified' = unnotified \cup {t \in Topics : sealed'[t] # sealed[t]}
    BY DEF commitSource
  <2> QED BY <1>1, <2>1 DEF TypeOK
<1>14. TypeOK'
  BY <1>1, <1>2, <1>4, <1>6, <1>12, <1>13 DEF TypeOK, graph
<1>15. TodoOK'
  BY <1>2 DEF GraphInv, TodoOK
<1> QED BY <1>3, <1>14, <1>15, SameGraphKeeps DEF GraphInv

(* onSourceCommitted only makes nodes dirty.                               *)
LEMMA OnSourceCommittedGraph ==
    ASSUME GraphInv, onSourceCommitted
    PROVE  GraphInv'
<1>1. TypeOK
  BY DEF GraphInv
<1>2. /\ sealed' = sealed /\ nextChunk' = nextChunk /\ pending' = pending /\ UNCHANGED graph
      /\ todo' = todo /\ sealedRows' = sealedRows /\ recomputes' = recomputes /\ replayed' = replayed
      /\ unnotified' = {}
  BY DEF onSourceCommitted, engine, history
<1>3. nodes' = [n \in DOMAIN nodes |->
           [nodes[n] EXCEPT !.dirty = @ \/ \E t \in unnotified : n \in topic_to_nodes[t]]]
  BY DEF onSourceCommitted
<1>4. DOMAIN nodes' = DOMAIN nodes
  BY <1>3
<1>5. ASSUME NEW n \in DOMAIN nodes PROVE nodes'[n] \in NodeT /\ SameShape(nodes'[n], nodes[n])
  <2>1. PICK d \in BOOLEAN : nodes'[n] = [nodes[n] EXCEPT !.dirty = d]
    <3>1. nodes[n].dirty \in BOOLEAN
      BY <1>1 DEF TypeOK
    <3>2. (nodes[n].dirty \/ \E t \in unnotified : n \in topic_to_nodes[t]) \in BOOLEAN
      BY <3>1
    <3> QED BY <1>3, <3>2
  <2>2. nodes[n] \in NodeT
    BY <1>1 DEF TypeOK, NodeT
  <2> QED BY <2>1, <2>2 DEF NodeT, SameShape
<1>6. SameGraph
  BY <1>2, <1>4, <1>5 DEF SameGraph
<1>7. TypeOK'
  BY <1>1, <1>2, <1>4, <1>5 DEF TypeOK, graph, NodeT
<1>8. TodoOK'
  BY <1>2, <1>4 DEF GraphInv, TodoOK
<1> QED BY <1>6, <1>7, <1>8, SameGraphKeeps DEF GraphInv

(* scheduleActive will visit nodes that exist.                             *)
LEMMA ScheduleActiveGraph ==
    ASSUME GraphInv, NEW active, scheduleActive(active)
    PROVE  GraphInv'
<1>1. TypeOK
  BY DEF GraphInv
<1>2. /\ nodes' = nodes /\ UNCHANGED graph /\ UNCHANGED engine /\ UNCHANGED source /\ UNCHANGED history
  BY DEF scheduleActive
<1>3. SameGraph
  BY <1>1, <1>2 DEF SameGraph, SameShape, TypeOK, NodeT
<1>4. DOMAIN nodes \subseteq NodeIds
  BY GraphInvOK DEF GraphOK
<1>5. PICK order \in Seq(DOMAIN nodes) : order = topologicalOrder
  BY GraphInvOK, OrderCorrect
<1>6. Selected(order, LAMBDA n : n \in withUpstream(active)) \in Seq(DOMAIN nodes)
  <2> DEFINE K == {k \in 1 .. Len(order) : order[k] \in withUpstream(active)}
  <2>1. PICK q : q = Selected(order, LAMBDA n : n \in withUpstream(active))
    OBVIOUS
  <2>2. q = FlattenSeq([k \in 1 .. Len(order) |-> IF k \in K THEN <<order[k]>> ELSE <<>>])
    BY <2>1 DEF Selected
  <2>3. K \in SUBSET (1 .. Len(order))
    OBVIOUS
  <2> HIDE DEF K
  <2>4. q \in Seq(DOMAIN nodes) /\ \E h : KeptBy(h, q, order, K)
    BY ONLY <1>5, <2>2, <2>3, SelectSeqKeeps
  <2> QED BY <2>1, <2>4
<1>7. todo' \in Seq(DOMAIN nodes)
  BY <1>5, <1>6 DEF scheduleActive
<1>8. todo' \in Seq(NodeIds)
  BY <1>4, <1>7
<1>9. TypeOK'
  BY <1>1, <1>2, <1>8 DEF TypeOK, graph, engine, source, history
<1>10. TodoOK'
  BY <1>2, <1>7 DEF TodoOK
<1> QED BY <1>3, <1>9, <1>10, SameGraphKeeps DEF GraphInv

(* A visit runs a node, which keeps its topics.                            *)
LEMMA VisitNodeGraph ==
    ASSUME GraphInv, visitNode
    PROVE  GraphInv'
<1>1. TypeOK
  BY DEF GraphInv
<1>2. todo \in Seq(NodeIds) /\ todo # <<>> /\ todo' = Tail(todo)
  BY <1>1 DEF TypeOK, visitNode
<1>3. PICK n \in DOMAIN nodes : n = todo[1]
  BY <1>2 DEF GraphInv, TodoOK
<1>4. UNCHANGED graph /\ UNCHANGED source /\ UNCHANGED history
  BY DEF visitNode
<1>5. nodes[n] \in NodeT /\ nodes[n].inputs # <<>>
  BY <1>1 DEF TypeOK, NodeT, GraphInv, TopicsExist, TopicsOK
<1>6. sealed \in [Topics -> Seq(Chunk)] /\ nextChunk \in Nat \ {0}
  BY <1>1 DEF TypeOK
<1>7. PICK r : r = runNode(nodes[n], sealed)
  OBVIOUS
<1>8. /\ r.node \in NodeT /\ SameShape(r.node, nodes[n])
      /\ r.sealed \in [Topics -> Seq(Chunk)] /\ r.nextChunk \in Nat \ {0}
  BY <1>5, <1>6, <1>7, RunNodeType
<1>9. /\ DOMAIN nodes' = DOMAIN nodes
      /\ \A m \in DOMAIN nodes : nodes'[m] \in NodeT /\ SameShape(nodes'[m], nodes[m])
      /\ sealed' \in [Topics -> Seq(Chunk)] /\ nextChunk' \in Nat \ {0}
  <2>1. CASE nodes[n].dirty
    <3>1. /\ nodes' = [m \in DOMAIN nodes |->
                 IF m = n THEN r.node ELSE [nodes[m] EXCEPT !.dirty = @ \/ m \in downstream_of[n]]]
          /\ sealed' = r.sealed /\ nextChunk' = r.nextChunk
      BY <1>3, <1>7, <2>1 DEF visitNode
    <3>2. ASSUME NEW m \in DOMAIN nodes, m # n
          PROVE  nodes'[m] \in NodeT /\ SameShape(nodes'[m], nodes[m])
      <4>1. nodes[m] \in NodeT
        BY <1>1 DEF TypeOK, NodeT
      <4>2. PICK d \in BOOLEAN : nodes'[m] = [nodes[m] EXCEPT !.dirty = d]
        <5>1. (nodes[m].dirty \/ m \in downstream_of[n]) \in BOOLEAN
          BY <4>1 DEF NodeT
        <5> QED BY <3>1, <3>2, <5>1
      <4> QED BY <4>1, <4>2 DEF NodeT, SameShape
    <3>3. nodes'[n] = r.node /\ DOMAIN nodes' = DOMAIN nodes
      BY <3>1
    <3> QED BY <1>8, <3>1, <3>2, <3>3
  <2>2. CASE ~nodes[n].dirty
    <3>1. nodes' = nodes /\ sealed' = sealed /\ nextChunk' = nextChunk
      BY <1>3, <2>2 DEF visitNode, engine
    <3>2. \A m \in DOMAIN nodes : nodes[m] \in NodeT
      BY <1>1 DEF TypeOK, NodeT
    <3> QED BY <1>6, <3>1, <3>2 DEF SameShape
  <2> QED BY <2>1, <2>2
<1>10. SameGraph
  BY <1>4, <1>9 DEF SameGraph
<1>11. todo' \in Seq(NodeIds) /\ TodoOK'
  <2>1. /\ Tail(todo) \in Seq(NodeIds) /\ Len(Tail(todo)) = Len(todo) - 1 /\ Len(todo) \in Nat
        /\ \A i \in 1 .. Len(Tail(todo)) : Tail(todo)[i] = todo[i + 1]
    BY <1>2
  <2>2. \A i \in 1 .. Len(Tail(todo)) : i + 1 \in 1 .. Len(todo)
    BY <2>1
  <2>3. \A i \in 1 .. Len(Tail(todo)) : Tail(todo)[i] \in DOMAIN nodes
    BY <2>1, <2>2 DEF GraphInv, TodoOK
  <2> QED BY <1>2, <1>9, <2>1, <2>3 DEF TodoOK
<1>12. TypeOK'
  BY <1>1, <1>4, <1>9, <1>11 DEF TypeOK, NodeT, graph, source, history
<1> QED BY <1>10, <1>11, <1>12, SameGraphKeeps DEF GraphInv

(* recompute_batch replaces a node by one with the same topics.            *)
LEMMA RecomputeGraph ==
    ASSUME GraphInv, NEW n, recompute_batch(n)
    PROVE  GraphInv'
<1>1. TypeOK
  BY DEF GraphInv
<1>2. n \in DOMAIN nodes /\ UNCHANGED graph /\ UNCHANGED source /\ todo' = todo
  BY DEF recompute_batch, Exists
<1>3. nodes[n] \in NodeT /\ nodes[n].inputs # <<>>
  BY <1>1, <1>2 DEF TypeOK, NodeT, GraphInv, TopicsExist, TopicsOK
<1>4. sealed \in [Topics -> Seq(Chunk)] /\ nextChunk \in Nat \ {0}
  BY <1>1 DEF TypeOK
<1>5. PICK cleared : cleared = [t \in Topics |-> IF t \in ToSet(nodes[n].outs) THEN <<>> ELSE sealed[t]]
  OBVIOUS
<1>6. PICK reset : reset = NewNode(nodes[n].mimo, nodes[n].op, nodes[n].inputs, nodes[n].outs)
  OBVIOUS
<1>7. PICK r : r = runNode(reset, cleared)
  OBVIOUS
<1>8. cleared \in [Topics -> Seq(Chunk)]
  BY <1>4, <1>5
<1>9. reset \in NodeT /\ reset.inputs # <<>> /\ SameShape(reset, nodes[n])
  <2>1. MinTime \in Int /\ 0 \in Int /\ <<>> \in Seq(Row)
    BY DerivedBatchAssumption
  <2> QED BY <1>3, <1>6, <2>1 DEF NewNode, NodeT, SameShape
<1>10. /\ r.node \in NodeT /\ SameShape(r.node, reset)
       /\ r.sealed \in [Topics -> Seq(Chunk)] /\ r.nextChunk \in Nat \ {0}
  BY <1>4, <1>7, <1>8, <1>9, RunNodeType
<1>11. nodes' = [nodes EXCEPT ![n] = r.node] /\ sealed' = r.sealed /\ nextChunk' = r.nextChunk
  BY <1>5, <1>6, <1>7 DEF recompute_batch
<1>12. /\ DOMAIN nodes' = DOMAIN nodes /\ nodes'[n] = r.node
       /\ \A m \in DOMAIN nodes : m # n => nodes'[m] = nodes[m]
  BY <1>2, <1>11
<1>13. \A m \in DOMAIN nodes : nodes'[m] \in NodeT /\ SameShape(nodes'[m], nodes[m])
  <2>1. \A m \in DOMAIN nodes : nodes[m] \in NodeT
    BY <1>1 DEF TypeOK, NodeT
  <2> QED BY <1>9, <1>10, <1>12, <2>1 DEF SameShape
<1>14. SameGraph
  BY <1>2, <1>12, <1>13 DEF SameGraph
<1>15. \A m \in DOMAIN nodes : ToSet(nodes[m].outs) \subseteq Topics
  BY <1>1 DEF TypeOK, ToSet
<1>16. replayed' \subseteq Topics
  <2>1. replayed' =
             (IF ToSet(nodes[n].inputs) \cap replayed = {}
              THEN replayed \ ToSet(nodes[n].outs) ELSE replayed)
             \cup UNION {ToSet(nodes[m].outs) : m \in below(n)}
    BY DEF recompute_batch
  <2>2. below(n) \subseteq DOMAIN nodes
    BY DEF below
  <2>3. replayed \subseteq Topics
    BY <1>1 DEF TypeOK
  <2> QED BY <1>15, <2>1, <2>2, <2>3
<1>17. recomputes' \in 0 .. MaxRecomputes
  <2>1. recomputes' = recomputes + 1 /\ recomputes < MaxRecomputes
    BY DEF recompute_batch
  <2>2. recomputes \in 0 .. MaxRecomputes /\ MaxRecomputes \in Nat
    BY <1>1, DerivedBoundAssumption DEF TypeOK
  <2> QED BY ONLY <2>1, <2>2
<1>18. TypeOK'
  BY <1>1, <1>2, <1>10, <1>11, <1>12, <1>13, <1>16, <1>17 DEF TypeOK, NodeT, graph, source
<1>19. TodoOK'
  BY <1>2, <1>12 DEF GraphInv, TodoOK
<1> QED BY <1>14, <1>18, <1>19, SameGraphKeeps DEF GraphInv

-----------------------------------------------------------------------------
(* Steps that change the graph. *)

(* The producer of a topic is the node that has it as an output.           *)
LEMMA ProducerFacts ==
    ASSUME GraphInv, NEW t \in Topics
    PROVE  /\ output_topic_to_node[t] # 0 =>
                 output_topic_to_node[t] \in DOMAIN nodes
                 /\ t \in ToSet(nodes[output_topic_to_node[t]].outs)
           /\ \A n \in DOMAIN nodes : t \in ToSet(nodes[n].outs) => output_topic_to_node[t] = n /\ n # 0
<1>1. {n \in DOMAIN nodes : t \in ToSet(nodes[n].outs)} = {output_topic_to_node[t]} \ {0}
  BY DEF GraphInv, IndexesAgree
<1> QED BY <1>1

(* removeNode takes a node out of every index.                             *)
LEMMA RemoveNodeGraph ==
    ASSUME GraphInv, NEW n \in NodeIds, removeNode(n)
    PROVE  GraphInv'
<1> DEFINE ids == DOMAIN nodes
           outs == ToSet(nodes[n].outs)
<1>1. TypeOK
  BY DEF GraphInv
<1>2. /\ n \in ids /\ UNCHANGED engine /\ UNCHANGED source /\ UNCHANGED history
      /\ nextNode' = nextNode /\ nextTopic' = nextTopic /\ todo' = todo /\ todo = <<>>
  BY DEF removeNode, Exists, Idle
<1>3. DOMAIN nodes' = ids \ {n} /\ \A m \in ids \ {n} : nodes'[m] = nodes[m]
  BY DEF removeNode
<1>4. /\ \A t \in Topics : topic_to_nodes'[t] = topic_to_nodes[t] \ {n}
      /\ \A t \in Topics : output_topic_to_node'[t] = IF t \in outs THEN 0 ELSE output_topic_to_node[t]
      /\ \A x \in Names : registered_output_names'[x] =
            IF registered_output_names[x] \in outs THEN 0 ELSE registered_output_names[x]
      /\ \A m \in NodeIds : downstream_of'[m] = IF m = n THEN {} ELSE downstream_of[m] \ {n}
  BY DEF removeNode
<1>5. /\ topic_to_nodes' \in [Topics -> SUBSET NodeIds]
      /\ output_topic_to_node' \in [Topics -> 0 .. MaxNodes]
      /\ downstream_of' \in [NodeIds -> SUBSET NodeIds]
      /\ registered_output_names' \in [Names -> 0 .. MaxTopics]
  <2>1. MaxNodes \in Nat /\ MaxTopics \in Nat /\ 0 \in 0 .. MaxNodes /\ 0 \in 0 .. MaxTopics
    BY DerivedBoundAssumption
  <2>2. topic_to_nodes' \in [Topics -> SUBSET NodeIds]
    BY <1>1 DEF TypeOK, removeNode
  <2>3. output_topic_to_node' \in [Topics -> 0 .. MaxNodes]
    BY <1>1, <2>1 DEF TypeOK, removeNode
  <2>4. downstream_of' \in [NodeIds -> SUBSET NodeIds]
    BY <1>1 DEF TypeOK, removeNode
  <2>5. registered_output_names' \in [Names -> 0 .. MaxTopics]
    BY <1>1, <2>1 DEF TypeOK, removeNode
  <2> QED BY <2>2, <2>3, <2>4, <2>5
<1>6. TypeOK'
  <2>1. DOMAIN nodes' \subseteq 1 .. nextNode' - 1
    BY <1>1, <1>2, <1>3 DEF TypeOK
  <2> QED BY <1>1, <1>2, <1>3, <1>5, <2>1 DEF TypeOK, engine, source, history
<1>7. TopicsExist'
  BY <1>2, <1>3 DEF GraphInv, TopicsExist, TopicsOK
<1>8. Older'
  BY <1>4 DEF GraphInv, Older
<1>9. TodoOK'
  BY <1>2 DEF TodoOK
<1>10. IndexesAgree'
  <2>1. ASSUME NEW t \in Topics
        PROVE  /\ topic_to_nodes'[t] = {m \in ids \ {n} : t \in ToSet(nodes'[m].inputs)}
               /\ {m \in ids \ {n} : t \in ToSet(nodes'[m].outs)} = {output_topic_to_node'[t]} \ {0}
    <3>1. topic_to_nodes[t] = {m \in ids : t \in ToSet(nodes[m].inputs)}
      BY DEF GraphInv, IndexesAgree
    <3>2. {m \in ids : t \in ToSet(nodes[m].outs)} = {output_topic_to_node[t]} \ {0}
      BY DEF GraphInv, IndexesAgree
    <3>3. topic_to_nodes'[t] = {m \in ids \ {n} : t \in ToSet(nodes'[m].inputs)}
      BY <1>3, <1>4, <3>1
    <3>4. {m \in ids \ {n} : t \in ToSet(nodes'[m].outs)} = {m \in ids : t \in ToSet(nodes[m].outs)} \ {n}
      BY <1>3
    <3>5. ({output_topic_to_node[t]} \ {0}) \ {n} = {output_topic_to_node'[t]} \ {0}
      <4>1. CASE t \in outs
        <5>1. output_topic_to_node[t] = n /\ output_topic_to_node'[t] = 0
          BY <1>2, <1>4, <4>1, ProducerFacts
        <5> QED BY <5>1
      <4>2. CASE t \notin outs
        <5>1. output_topic_to_node'[t] = output_topic_to_node[t] /\ output_topic_to_node[t] # n
          <6>1. n # 0
            BY DerivedBoundAssumption DEF NodeIds
          <6> QED BY <1>4, <4>2, <6>1, ProducerFacts
        <5> QED BY <5>1
      <4> QED BY <4>1, <4>2
    <3> QED BY <3>2, <3>3, <3>4, <3>5
  <2>2. ASSUME NEW u \in NodeIds
        PROVE  downstream_of'[u] = {m \in ids \ {n} : u \in ids \ {n} /\
                  ToSet(nodes'[m].inputs) \cap ToSet(nodes'[u].outs) # {}}
    <3>1. downstream_of[u] = {m \in ids : u \in ids /\ ToSet(nodes[m].inputs) \cap ToSet(nodes[u].outs) # {}}
      BY DEF GraphInv, IndexesAgree, Exists
    <3>2. CASE u = n
      BY <1>4, <3>2
    <3>3. CASE u # n
      <4>1. downstream_of'[u] = downstream_of[u] \ {n}
        BY <1>4, <3>3
      <4> QED BY <1>3, <3>1, <3>3, <4>1
    <3> QED BY <3>2, <3>3
  <2>3. {registered_output_names'[x] : x \in Names} \ {0} = {t \in Topics : output_topic_to_node'[t] # 0}
    <3>1. {registered_output_names[x] : x \in Names} \ {0} = {t \in Topics : output_topic_to_node[t] # 0}
      BY DEF GraphInv, IndexesAgree
    <3>2. {t \in Topics : output_topic_to_node'[t] # 0} = {t \in Topics : output_topic_to_node[t] # 0} \ outs
      BY <1>4
    <3>3. ASSUME NEW y PROVE y \in {registered_output_names'[x] : x \in Names} \ {0}
                              <=> y \in ({registered_output_names[x] : x \in Names} \ {0}) \ outs
      BY <1>4
    <3> QED BY <3>1, <3>2, <3>3
  <2> QED BY <1>3, <2>1, <2>2, <2>3 DEF IndexesAgree, Exists
<1> QED BY <1>6, <1>7, <1>8, <1>9, <1>10 DEF GraphInv

(* A new node enters every index with topics and names nothing else has.   *)
LEMMA AddNodeGraph ==
    ASSUME GraphInv, NEW mimo \in BOOLEAN, NEW op \in Ops, NEW inputs \in Seq(Topics), inputs # <<>>,
           NEW names \in Seq(Names),
           \A i, j \in DOMAIN names : names[i] = names[j] => i = j,
           \A k \in DOMAIN names : registered_output_names[names[k]] = 0,
           \A i \in DOMAIN inputs : inputs[i] < nextTopic,
           todo = <<>>, addNode(mimo, op, inputs, names)
    PROVE  GraphInv'
<1> DEFINE ids == DOMAIN nodes
           outs == [k \in DOMAIN names |-> nextTopic + k - 1]
           In == ToSet(inputs)
           Out == ToSet(outs)
<1>1. PICK n : n = nextNode
  OBVIOUS
<1>2. TypeOK
  BY DEF GraphInv
<1>3. /\ nextNode <= MaxNodes /\ nextTopic + Len(names) - 1 <= MaxTopics
      /\ nextNode' = nextNode + 1 /\ nextTopic' = nextTopic + Len(names)
      /\ UNCHANGED engine /\ UNCHANGED source /\ todo' = todo /\ recomputes' = recomputes
  BY DEF addNode
<1>4. nextNode \in Nat \ {0} /\ nextTopic \in Nat \ {0} /\ MaxNodes \in Nat /\ MaxTopics \in Nat
  BY <1>2, DerivedBoundAssumption DEF TypeOK
<1>5. Len(names) \in Nat /\ DOMAIN names = 1 .. Len(names)
  OBVIOUS
<1>6. n \in NodeIds /\ n # 0 /\ n \notin ids /\ ids \subseteq NodeIds
  BY <1>1, <1>2, <1>3, <1>4, GraphInvOK, SMTT(30) DEF TypeOK, NodeIds, GraphOK
<1>7. outs \in Seq(Topics) /\ Len(outs) = Len(names) /\ \A k \in 1 .. Len(names) : outs[k] = nextTopic + k - 1
  <2>1. \A k \in 1 .. Len(names) : nextTopic + k - 1 \in Topics
    BY <1>3, <1>4, <1>5 DEF Topics
  <2> QED BY <1>5, <2>1
<1>8. \A t \in Out : t \in Topics /\ t >= nextTopic
  BY <1>4, <1>5, <1>7 DEF ToSet
<1>9. \A t \in In : t \in Topics /\ t < nextTopic
  BY DEF ToSet
<1>10. /\ DOMAIN nodes' = ids \cup {n} /\ nodes'[n] = NewNode(mimo, op, inputs, outs)
      /\ \A m \in ids : nodes'[m] = nodes[m]
  BY <1>1, <1>6 DEF addNode
<1>11. nodes'[n] \in NodeT /\ nodes'[n].inputs = inputs /\ nodes'[n].outs = outs
  <2>1. MinTime \in Int /\ <<>> \in Seq(Row)
    BY DerivedBatchAssumption
  <2> HIDE DEF outs
  <2> QED BY <1>7, <1>10, <2>1 DEF NewNode, NodeT
<1>12. /\ topic_to_nodes' = [t \in Topics |-> topic_to_nodes[t] \cup (IF t \in In THEN {n} ELSE {})]
       /\ output_topic_to_node' = [t \in Topics |-> IF t \in Out THEN n ELSE output_topic_to_node[t]]
       /\ downstream_of' = [m \in NodeIds |-> downstream_of[m] \cup
                 (IF \E t \in In : output_topic_to_node[t] = m THEN {n} ELSE {})]
       /\ registered_output_names' = [x \in Names |->
               IF \E k \in DOMAIN names : names[k] = x
               THEN outs[Max({k \in DOMAIN names : names[k] = x})]
               ELSE registered_output_names[x]]
       /\ replayed' = replayed \cup (IF In \cap replayed = {} THEN {} ELSE Out)
  BY <1>1 DEF addNode
<1> HIDE DEF outs, In, Out
<1>13. \A k \in 1 .. Len(names) : registered_output_names'[names[k]] = outs[k]
  <2>1. ASSUME NEW k \in 1 .. Len(names) PROVE registered_output_names'[names[k]] = outs[k]
    <3>1. {j \in DOMAIN names : names[j] = names[k]} = {k}
      BY <1>5
    <3>2. Max({k}) = k
      BY DEF Max
    <3>3. names[k] \in Names /\ k \in DOMAIN names
      BY <1>5
    <3> QED BY <1>12, <3>1, <3>2, <3>3
  <2> QED BY <2>1
<1>14. \A x \in Names : (~\E k \in 1 .. Len(names) : names[k] = x) =>
          registered_output_names'[x] = registered_output_names[x]
  BY <1>5, <1>12
<1>15. TypeOK'
  <2>1. topic_to_nodes' \in [Topics -> SUBSET NodeIds]
    BY <1>2, <1>6, <1>12 DEF TypeOK
  <2>2. output_topic_to_node' \in [Topics -> 0 .. MaxNodes]
    <3>1. n \in 0 .. MaxNodes
      BY <1>1, <1>3, <1>4
    <3> QED BY <1>2, <1>12, <3>1 DEF TypeOK
  <2>3. downstream_of' \in [NodeIds -> SUBSET NodeIds]
    BY <1>2, <1>6, <1>12 DEF TypeOK
  <2>4. registered_output_names' \in [Names -> 0 .. MaxTopics]
    <3>1. \A x \in Names : registered_output_names'[x] \in 0 .. MaxTopics
      <4>1. ASSUME NEW x \in Names PROVE registered_output_names'[x] \in 0 .. MaxTopics
        <5>1. CASE \E k \in 1 .. Len(names) : names[k] = x
          <6>1. PICK k \in 1 .. Len(names) : names[k] = x
            BY <5>1
          <6>2. registered_output_names'[x] = outs[k] /\ outs[k] \in Topics
            BY <1>7, <1>13, <6>1
          <6> QED BY <1>4, <6>2 DEF Topics
        <5>2. CASE ~\E k \in 1 .. Len(names) : names[k] = x
          BY <1>2, <1>14, <5>2 DEF TypeOK
        <5> QED BY <5>1, <5>2
      <4> QED BY <4>1
    <3>2. registered_output_names' = [x \in Names |-> registered_output_names'[x]]
      BY <1>12
    <3> QED BY <3>1, <3>2
  <2>5. DOMAIN nodes' \subseteq 1 .. nextNode' - 1 /\ nextNode' \in 1 .. MaxNodes + 1
    <3>1. ids \subseteq 1 .. nextNode - 1
      BY <1>2 DEF TypeOK
    <3>2. nextNode' \in 1 .. MaxNodes + 1 /\ nextNode' - 1 = nextNode /\ n \in 1 .. nextNode
      BY <1>1, <1>3, <1>4
    <3>3. \A x \in 1 .. nextNode - 1 : x \in 1 .. nextNode
      BY <1>4
    <3> QED BY <1>10, <3>1, <3>2, <3>3
  <2>6. nextTopic' \in 1 .. MaxTopics + 1
    BY <1>3, <1>4, <1>5
  <2>7. replayed' \subseteq Topics
    BY <1>2, <1>8, <1>12 DEF TypeOK
  <2>8. \A m \in DOMAIN nodes' : nodes'[m] \in NodeT
    BY <1>2, <1>10, <1>11 DEF TypeOK, NodeT
  <2> QED BY <1>2, <1>3, <2>1, <2>2, <2>3, <2>4, <2>5, <2>6, <2>7, <2>8
          DEF TypeOK, NodeT, engine, source
<1>16. TopicsExist'
  <2>1. ASSUME NEW m \in ids PROVE TopicsOK(nodes[m])'
    <3>1. nodes[m] \in NodeT /\ TopicsOK(nodes[m])
      BY <1>2 DEF TypeOK, NodeT, GraphInv, TopicsExist
    <3>2. \A i \in 1 .. Len(nodes[m].inputs) : nodes[m].inputs[i] \in Topics
      BY <3>1 DEF NodeT
    <3>3. \A i \in 1 .. Len(nodes[m].outs) : nodes[m].outs[i] \in Topics
      BY <3>1 DEF NodeT
    <3>4. \A t \in Topics : t < nextTopic => t < nextTopic'
      BY <1>3, <1>4, <1>5 DEF Topics
    <3> QED BY <1>10, <3>1, <3>2, <3>3, <3>4 DEF TopicsOK
  <2>2. TopicsOK(nodes[n])'
    <3>1. \A i \in 1 .. Len(inputs) : inputs[i] \in Topics /\ inputs[i] < nextTopic
      OBVIOUS
    <3>2. \A i \in 1 .. Len(inputs) : inputs[i] < nextTopic'
      BY <1>3, <1>4, <1>5, <3>1 DEF Topics
    <3>3. \A k \in 1 .. Len(outs) : outs[k] < nextTopic'
      BY <1>3, <1>4, <1>5, <1>7
    <3> QED BY <1>11, <3>2, <3>3 DEF TopicsOK
  <2> QED BY <1>10, <2>1, <2>2 DEF TopicsExist
<1>17. Older'
  <2>1. \A t \in Topics : output_topic_to_node[t] # 0 => output_topic_to_node[t] < n
    BY <1>1, <1>2, <1>4, ProducerFacts DEF TypeOK
  <2>2. ASSUME NEW u \in NodeIds, NEW m \in downstream_of'[u] PROVE u < m
    <3>1. u # 0
      BY <1>4 DEF NodeIds
    <3>2. CASE m \in downstream_of[u]
      BY <3>2 DEF GraphInv, Older
    <3>3. CASE m \notin downstream_of[u]
      <4>1. m = n /\ \E t \in In : output_topic_to_node[t] = u
        BY <1>12, <2>2, <3>3
      <4> QED BY <1>9, <2>1, <3>1, <4>1
    <3> QED BY <3>2, <3>3
  <2> QED BY <2>2 DEF Older
<1>18. TodoOK'
  BY <1>3 DEF TodoOK
<1>19. \A m \in ids : \A t \in ToSet(nodes[m].inputs) \cup ToSet(nodes[m].outs) : t \in Topics /\ t < nextTopic
  <2>1. ASSUME NEW m \in ids
        PROVE  \A t \in ToSet(nodes[m].inputs) \cup ToSet(nodes[m].outs) : t \in Topics /\ t < nextTopic
    <3>1. /\ nodes[m].inputs \in Seq(Topics) /\ nodes[m].outs \in Seq(Topics)
          /\ \A i \in 1 .. Len(nodes[m].inputs) : nodes[m].inputs[i] < nextTopic
          /\ \A k \in 1 .. Len(nodes[m].outs) : nodes[m].outs[k] < nextTopic
      BY <1>2 DEF TypeOK, GraphInv, TopicsExist, TopicsOK
    <3> QED BY <3>1 DEF ToSet
  <2> QED BY <2>1
<1>20. \A t \in Out : t \notin In /\ \A m \in ids : t \notin ToSet(nodes[m].inputs) /\ t \notin ToSet(nodes[m].outs)
  BY <1>4, <1>8, <1>9, <1>19 DEF Topics
<1>21. IndexesAgree'
  <2>1. ASSUME NEW t \in Topics
        PROVE  /\ topic_to_nodes'[t] = {m \in ids \cup {n} : t \in ToSet(nodes'[m].inputs)}
               /\ {m \in ids \cup {n} : t \in ToSet(nodes'[m].outs)} = {output_topic_to_node'[t]} \ {0}
    <3>1. topic_to_nodes[t] = {m \in ids : t \in ToSet(nodes[m].inputs)}
      BY DEF GraphInv, IndexesAgree
    <3>2. {m \in ids : t \in ToSet(nodes[m].outs)} = {output_topic_to_node[t]} \ {0}
      BY DEF GraphInv, IndexesAgree
    <3>3. topic_to_nodes'[t] = {m \in ids \cup {n} : t \in ToSet(nodes'[m].inputs)}
      <4>1. topic_to_nodes'[t] = topic_to_nodes[t] \cup (IF t \in In THEN {n} ELSE {})
        BY <1>12
      <4>2. t \in ToSet(nodes'[n].inputs) <=> t \in In
        BY <1>11 DEF In
      <4> QED BY <1>6, <1>10, <3>1, <4>1, <4>2
    <3>4. CASE t \in Out
      <4>1. {m \in ids \cup {n} : t \in ToSet(nodes'[m].outs)} = {n}
        BY <1>6, <1>10, <1>11, <1>20, <3>4 DEF Out
      <4>2. output_topic_to_node'[t] = n
        BY <1>12, <3>4
      <4> QED BY <1>6, <3>3, <4>1, <4>2
    <3>5. CASE t \notin Out
      <4>1. {m \in ids \cup {n} : t \in ToSet(nodes'[m].outs)} = {m \in ids : t \in ToSet(nodes[m].outs)}
        BY <1>6, <1>10, <1>11, <3>5 DEF Out
      <4>2. output_topic_to_node'[t] = output_topic_to_node[t]
        BY <1>12, <3>5
      <4> QED BY <3>2, <3>3, <4>1, <4>2
    <3> QED BY <3>4, <3>5
  <2>2. ASSUME NEW u \in NodeIds
        PROVE  downstream_of'[u] = {m \in ids \cup {n} : u \in ids \cup {n} /\
                  ToSet(nodes'[m].inputs) \cap ToSet(nodes'[u].outs) # {}}
    <3>1. downstream_of[u] = {m \in ids : u \in ids /\ ToSet(nodes[m].inputs) \cap ToSet(nodes[u].outs) # {}}
      BY DEF GraphInv, IndexesAgree, Exists
    <3>2. downstream_of'[u] = downstream_of[u] \cup
                 (IF \E t \in In : output_topic_to_node[t] = u THEN {n} ELSE {})
      BY <1>12
    <3>3. u # 0
      BY <1>4 DEF NodeIds
    <3>4. ToSet(nodes'[n].inputs) = In /\ ToSet(nodes'[n].outs) = Out
      BY <1>11 DEF In, Out
    <3>5. CASE u = n
      <4>1. downstream_of[u] = {}
        BY <1>6, <3>1, <3>5
      <4>2. ~\E t \in In : output_topic_to_node[t] = u
        BY <1>6, <1>9, <3>5, ProducerFacts
      <4>3. \A m \in ids \cup {n} : ToSet(nodes'[m].inputs) \cap Out = {}
        BY <1>10, <1>20, <3>4
      <4> QED BY <3>2, <3>4, <3>5, <4>1, <4>2, <4>3
    <3>6. CASE u # n
      <4>1. (\E t \in In : output_topic_to_node[t] = u) <=> u \in ids /\ In \cap ToSet(nodes[u].outs) # {}
        BY <1>9, <3>3, ProducerFacts
      <4> QED BY <1>6, <1>10, <3>1, <3>2, <3>4, <3>6, <4>1
    <3> QED BY <3>5, <3>6
  <2>3. {registered_output_names'[x] : x \in Names} \ {0} = {t \in Topics : output_topic_to_node'[t] # 0}
    <3>1. {registered_output_names[x] : x \in Names} \ {0} = {t \in Topics : output_topic_to_node[t] # 0}
      BY DEF GraphInv, IndexesAgree
    <3>2. {t \in Topics : output_topic_to_node'[t] # 0} = {t \in Topics : output_topic_to_node[t] # 0} \cup Out
      BY <1>6, <1>8, <1>12
    <3>3. {registered_output_names'[x] : x \in Names} \ {0} = ({registered_output_names[x] : x \in Names} \ {0}) \cup Out
      <4>1. \A t : t \in Out <=> \E k \in 1 .. Len(names) : outs[k] = t
        BY <1>5, <1>7 DEF Out, ToSet
      <4>2. 0 \notin Out
        BY <1>4, <1>8
      <4>3. \A k \in 1 .. Len(names) : names[k] \in Names /\ registered_output_names[names[k]] = 0
        BY <1>5
      <4>4. ASSUME NEW x \in Names, registered_output_names'[x] # 0
            PROVE  registered_output_names'[x] \in ({registered_output_names[y] : y \in Names} \ {0}) \cup Out
        <5>1. CASE \E k \in 1 .. Len(names) : names[k] = x
          BY <1>13, <4>1, <5>1
        <5>2. CASE ~\E k \in 1 .. Len(names) : names[k] = x
          BY <1>14, <4>4, <5>2
        <5> QED BY <5>1, <5>2
      <4>5. ASSUME NEW x \in Names, registered_output_names[x] # 0
            PROVE  registered_output_names'[x] = registered_output_names[x]
        BY <1>14, <4>3, <4>5
      <4>6. ASSUME NEW t \in Out PROVE \E x \in Names : registered_output_names'[x] = t
        BY <1>13, <4>1, <4>3
      <4> QED BY <4>2, <4>4, <4>5, <4>6
    <3> QED BY <3>1, <3>2, <3>3
  <2>4. ASSUME NEW t \in Topics
        PROVE  /\ topic_to_nodes'[t] = {m \in DOMAIN nodes' : t \in ToSet(nodes'[m].inputs)}
               /\ {m \in DOMAIN nodes' : t \in ToSet(nodes'[m].outs)} = {output_topic_to_node'[t]} \ {0}
    BY <1>10, <2>1
  <2>5. ASSUME NEW u \in NodeIds
        PROVE  downstream_of'[u] = {m \in DOMAIN nodes' : u \in DOMAIN nodes' /\
                  ToSet(nodes'[m].inputs) \cap ToSet(nodes'[u].outs) # {}}
    BY <1>10, <2>2
  <2> QED BY ONLY <2>3, <2>4, <2>5 DEF IndexesAgree, Exists
<1> QED BY <1>15, <1>16, <1>17, <1>18, <1>21 DEF GraphInv

-----------------------------------------------------------------------------

(* An engine without nodes.                                                *)
LEMMA InitGraph ==
    ASSUME Init
    PROVE  GraphInv
<1>1. DOMAIN nodes = {} /\ todo = <<>>
  BY DEF Init
<1>2. NumSources \in Nat \ {0} /\ NumSources <= MaxTopics /\ MaxNodes \in Nat /\ MaxTopics \in Nat
      /\ MaxRows \in Nat /\ MaxRecomputes \in Nat
  BY DerivedBoundAssumption
<1>3. TypeOK
  <2>1. PICK P : P = [topic : Topics, chunk : Chunk]
    OBVIOUS
  <2>2. pending \in [Writers -> Seq(P)]
    BY DEF Init
  <2>3. sealed \in [Topics -> Seq(Chunk)] /\ nextChunk \in Nat \ {0} /\ unnotified \subseteq Topics
    BY DEF Init
  <2>4. nextNode \in 1 .. MaxNodes + 1 /\ nextTopic \in 1 .. MaxTopics + 1
    BY <1>2 DEF Init
  <2>5. topic_to_nodes \in [Topics -> SUBSET NodeIds] /\ downstream_of \in [NodeIds -> SUBSET NodeIds]
    BY DEF Init
  <2>6. output_topic_to_node \in [Topics -> 0 .. MaxNodes] /\ registered_output_names \in [Names -> 0 .. MaxTopics]
    BY <1>2 DEF Init
  <2>7. todo \in Seq(NodeIds) /\ sealedRows \in 0 .. MaxRows /\ recomputes \in 0 .. MaxRecomputes
        /\ replayed \subseteq Topics
    BY <1>2 DEF Init
  <2> QED BY <1>1, <2>1, <2>2, <2>3, <2>4, <2>5, <2>6, <2>7 DEF TypeOK
<1>4. TopicsExist /\ TodoOK
  BY <1>1 DEF TopicsExist, TodoOK
<1>5. Older
  BY DEF Init, Older
<1>6. IndexesAgree
  BY <1>1 DEF Init, IndexesAgree, Exists
<1> QED BY <1>3, <1>4, <1>5, <1>6 DEF GraphInv

(* addSisoTransform validates what addNode needs.                          *)
LEMMA AddSisoGraph ==
    ASSUME GraphInv, NEW op \in Ops, NEW t \in Topics, NEW name \in Names, addSisoTransform(t, name, op)
    PROVE  GraphInv'
<1>1. t < nextTopic /\ registered_output_names[name] = 0 /\ todo = <<>>
  BY DEF addSisoTransform, Idle
<1>2. PICK inputs, names : inputs = <<t>> /\ names = <<name>>
  OBVIOUS
<1>3. addNode(FALSE, op, inputs, names)
  BY <1>2 DEF addSisoTransform
<1>4. inputs \in Seq(Topics) /\ inputs # <<>> /\ \A i \in DOMAIN inputs : inputs[i] < nextTopic
  BY <1>1, <1>2
<1>5. /\ names \in Seq(Names) /\ \A i, j \in DOMAIN names : names[i] = names[j] => i = j
      /\ \A k \in DOMAIN names : registered_output_names[names[k]] = 0
  BY <1>1, <1>2
<1>6. FALSE \in BOOLEAN
  OBVIOUS
<1> QED BY <1>1, <1>3, <1>4, <1>5, <1>6, AddNodeGraph

(* addMimoTransform does, when its list has no name twice.                 *)
LEMMA AddMimoGraph ==
    ASSUME GraphInv, NamesDistinct, NEW op \in Ops, NEW s \in Topics, NEW t \in Topics, NEW names \in NameLists,
           addMimoTransform(<<s, t>>, names, op)
    PROVE  GraphInv'
<1>1. PICK inputs : inputs = <<s, t>>
  OBVIOUS
<1>2. /\ \A i \in DOMAIN inputs : inputs[i] < nextTopic
      /\ \A k \in DOMAIN names : registered_output_names[names[k]] = 0
      /\ todo = <<>> /\ addNode(TRUE, op, inputs, names)
  BY <1>1 DEF addMimoTransform, Idle
<1>3. inputs \in Seq(Topics) /\ inputs # <<>>
  BY <1>1
<1>4. names \in Seq(Names) /\ \A i, j \in DOMAIN names : names[i] = names[j] => i = j
  BY DerivedNamesAssumption DEF NamesDistinct
<1>5. TRUE \in BOOLEAN
  OBVIOUS
<1> QED BY <1>2, <1>3, <1>4, <1>5, AddNodeGraph

(* No step breaks the graph invariant.                                     *)
LEMMA StepGraph ==
    ASSUME GraphInv, NamesDistinct, [Next]_vars
    PROVE  GraphInv'
<1>1. CASE UNCHANGED vars
  <2>1. /\ UNCHANGED graph /\ UNCHANGED engine /\ UNCHANGED source /\ UNCHANGED history
        /\ nodes' = nodes /\ todo' = todo
    BY <1>1 DEF vars, graph, engine, source, history
  <2>2. TypeOK'
    BY <2>1 DEF GraphInv, TypeOK, graph, engine, source, history
  <2>3. SameGraph
    BY <2>1 DEF SameGraph, SameShape, GraphInv, TypeOK, NodeT
  <2>4. TodoOK'
    BY <2>1 DEF GraphInv, TodoOK
  <2> QED BY <2>2, <2>3, <2>4, SameGraphKeeps DEF GraphInv
<1>2. CASE Next
  <2>1. ASSUME NEW w \in Writers, NEW t \in 1 .. NumSources, NEW ts \in Batches, sealSource(w, t, ts)
        PROVE  GraphInv'
    BY <2>1, SealSourceGraph
  <2>2. ASSUME NEW w \in Writers, commitSource(w) PROVE GraphInv'
    BY <2>2, CommitSourceGraph
  <2>3. CASE onSourceCommitted
    BY <2>3, OnSourceCommittedGraph
  <2>4. ASSUME NEW op \in Ops, NEW t \in Topics, NEW name \in Names, addSisoTransform(t, name, op)
        PROVE  GraphInv'
    BY <2>4, AddSisoGraph
  <2>5. ASSUME NEW op \in Ops, NEW s \in Topics, NEW t \in Topics, NEW names \in NameLists,
               addMimoTransform(<<s, t>>, names, op)
        PROVE  GraphInv'
    BY <2>5, AddMimoGraph
  <2>6. ASSUME NEW n \in NodeIds, removeNode(n) PROVE GraphInv'
    BY <2>6, RemoveNodeGraph
  <2>7. ASSUME NEW n \in NodeIds, recompute_batch(n) PROVE GraphInv'
    BY <2>7, RecomputeGraph
  <2>8. ASSUME NEW active \in SUBSET DOMAIN nodes, scheduleActive(active) PROVE GraphInv'
    BY <2>8, ScheduleActiveGraph
  <2>9. CASE visitNode
    BY <2>9, VisitNodeGraph
  <2> QED BY <1>2, <2>1, <2>2, <2>3, <2>4, <2>5, <2>6, <2>7, <2>8, <2>9 DEF Next
<1> QED BY <1>1, <1>2

(* Whatever transforms are added and removed in whatever order and however *)
(* their runs interleave with commits, every variable keeps its type, the  *)
(* four indexes of the DerivedEngine say what its nodes say, and Kahn's    *)
(* algorithm in scheduleActive visits every node once and after all it     *)
(* reads from.  Provided no list of output names has one name twice.       *)
THEOREM GraphAlwaysConsistent ==
    ASSUME NamesDistinct
    PROVE  Spec => []GraphConsistent
<1>1. Init => GraphInv
  BY InitGraph
<1>2. GraphInv /\ [Next]_vars => GraphInv'
  BY StepGraph
<1>3. GraphInv => GraphConsistent
  BY GraphInvOK, OrderCorrect DEF GraphInv, GraphConsistent
<1> QED BY <1>1, <1>2, <1>3, PTL DEF Spec

-----------------------------------------------------------------------------
(* The invariant of the samples. *)

(* Two rows in the order in which a transform may see them.                *)
Before(r, q) == r.ts <= q.ts /\ r.val[1] # q.val[1]

(* Rows that follow each other in time and were computed from different    *)
(* rows.                                                                   *)
RowsInOrder(rows) == \A i, j \in 1 .. Len(rows) : i < j => Before(rows[i], rows[j])

(* Every row was computed from some row.                                   *)
RowsFilled(rows) == \A i \in 1 .. Len(rows) : rows[i].val # <<>>

(* The same of the chunks of a topic.                                      *)
InOrder(chunks) ==
    \A a, b \in 1 .. Len(chunks) :
        /\ RowsInOrder(chunks[a].rows)
        /\ a < b => \A i \in 1 .. Len(chunks[a].rows) : \A j \in 1 .. Len(chunks[b].rows) :
              Before(chunks[a].rows[i], chunks[b].rows[j])

(* Every chunk has rows.                                                   *)
Filled(chunks) == \A a \in 1 .. Len(chunks) : chunks[a].rows # <<>> /\ RowsFilled(chunks[a].rows)

(* Every topic that was not written from a recomputed one is in order.     *)
TopicsInOrder == \A t \in Topics \ replayed : InOrder(sealed[t]) /\ Filled(sealed[t])

(* Topics that do not exist have no chunks.                                *)
TopicsEmpty == \A t \in Topics : t >= nextTopic => sealed[t] = <<>>

(* Nodes write their own topics.                                           *)
OutsOwned ==
    /\ NumSources < nextTopic
    /\ \A n \in DOMAIN nodes : /\ nodes[n].outs # <<>>
                               /\ \A k \in 1 .. Len(nodes[n].outs) : nodes[n].outs[k] > NumSources

(* What is written from a replayed topic is replayed.                      *)
ReplayedClosed ==
    /\ \A t \in replayed : NumSources < t /\ t < nextTopic
    /\ \A n \in DOMAIN nodes :
          (ToSet(nodes[n].inputs) \cup ToSet(nodes[n].outs)) \cap replayed # {} => ToSet(nodes[n].outs) \subseteq replayed

(* What a SISO node was called with is in the chunks up to its watermark.  *)
SeenSiso(node, chunks) ==
    \E p \in 0 .. Len(chunks) :
        /\ \A a \in 1 .. p : chunks[a].id <= node.mark
        /\ \A g \in 1 .. Len(node.got) :
              \E a \in 1 .. p : \E i \in 1 .. Len(chunks[a].rows) : chunks[a].rows[i] = node.got[g]

(* What a joining node was called with is not after its watermark.         *)
SeenMimo(node, chunks) ==
    \A g \in 1 .. Len(node.got) :
        /\ node.got[g].ts <= node.mark
        /\ \E a \in 1 .. Len(chunks) : \E i \in 1 .. Len(chunks[a].rows) :
              chunks[a].rows[i].ts = node.got[g].ts /\ chunks[a].rows[i].val[1] = node.got[g].val[1]

(* What a transform was called with is in order.                           *)
GotInOrder(node) ==
    /\ RowsInOrder(node.got) /\ RowsFilled(node.got)
    /\ node.mimo => \A i, j \in 1 .. Len(node.got) : i < j => node.got[i].ts < node.got[j].ts

(* An output topic holds rows its node emitted.                            *)
FromGot(node, chunks) ==
    \A a \in 1 .. Len(chunks) : \A i \in 1 .. Len(chunks[a].rows) :
        \E g \in 1 .. Len(node.got) : chunks[a].rows[i] = node.got[g]

(* What a node was called with, has seen and has written, in the topics    *)
(* sl.                                                                     *)
NodeSeq(node, sl) ==
    /\ GotInOrder(node)
    /\ IF node.mimo THEN SeenMimo(node, sl[node.inputs[1]]) ELSE SeenSiso(node, sl[node.inputs[1]])
    /\ \A t \in ToSet(node.outs) : FromGot(node, sl[t])

(* The same of every undisturbed node.                                     *)
NodesSeq == \A n \in Undisturbed : NodeSeq(nodes[n], sealed)

(* Rows computed from different source rows.                               *)
Apart(rows, others) ==
    \A i \in 1 .. Len(rows) : \A j \in 1 .. Len(others) : rows[i].val[1] # others[j].val[1]

(* Source rows up to number n.                                             *)
UpTo(rows, n) == \A i \in 1 .. Len(rows) : rows[i].val[1] <= n

(* A chunk sealed for a source topic, whose rows are not in the topic sl.  *)
NewChunk(p, sl, n) ==
    /\ p.topic <= NumSources
    /\ p.chunk.rows # <<>> /\ RowsFilled(p.chunk.rows) /\ RowsInOrder(p.chunk.rows) /\ UpTo(p.chunk.rows, n)
    /\ \A a \in 1 .. Len(sl[p.topic]) : Apart(sl[p.topic][a].rows, p.chunk.rows)

(* The rows of a sealed chunk that was not committed are new.              *)
PendingNew ==
    /\ \A w \in Writers : pending[w] # <<>> => NewChunk(pending[w][1], sealed, sealedRows)
    /\ \A w, v \in Writers : w # v /\ pending[w] # <<>> /\ pending[v] # <<>> =>
          Apart(pending[w][1].chunk.rows, pending[v][1].chunk.rows)
    /\ \A t \in 1 .. NumSources : \A a \in 1 .. Len(sealed[t]) : UpTo(sealed[t][a].rows, sealedRows)

(* The inductive invariant of the samples.                                 *)
SeqInv == TopicsInOrder /\ TopicsEmpty /\ OutsOwned /\ ReplayedClosed /\ NodesSeq /\ PendingNew

-----------------------------------------------------------------------------
(* Rows in order. *)

(* Before as a relation.                                                   *)
BeforePairs == {p \in Row \X Row : Before(p[1], p[2])}

(* Rows are in order when every two of them are.                           *)
LEMMA InOrderPairs ==
    ASSUME NEW rows \in Seq(Row)
    PROVE  RowsInOrder(rows) <=> Pairwise(rows, BeforePairs)
<1>1. \A i \in 1 .. Len(rows) : rows[i] \in Row
  OBVIOUS
<1>2. \A r, q \in Row : <<r, q>> \in BeforePairs <=> Before(r, q)
  BY DEF BeforePairs
<1> QED BY ONLY <1>1, <1>2 DEF RowsInOrder, Pairwise

(* The rows of chunks in order are in order, and each is one of a chunk.   *)
LEMMA RowsOfChunks ==
    ASSUME NEW chunks \in Seq(Chunk), InOrder(chunks), Filled(chunks)
    PROVE  /\ Rows(chunks) \in Seq(Row) /\ RowsInOrder(Rows(chunks)) /\ RowsFilled(Rows(chunks))
           /\ \A x \in 1 .. Len(Rows(chunks)) :
                 \E a \in 1 .. Len(chunks) : \E i \in 1 .. Len(chunks[a].rows) : Rows(chunks)[x] = chunks[a].rows[i]
<1>1. Len(chunks) \in Nat /\ \A a \in 1 .. Len(chunks) : chunks[a] \in Chunk /\ chunks[a].rows \in Seq(Row)
  <2>1. Len(chunks) \in Nat /\ \A a \in 1 .. Len(chunks) : chunks[a] \in Chunk
    OBVIOUS
  <2>2. \A c \in Chunk : c.rows \in Seq(Row)
    BY DEF Chunk
  <2> QED BY <2>1, <2>2
<1>2. PICK ss : ss = [a \in 1 .. Len(chunks) |-> chunks[a].rows]
  OBVIOUS
<1>3. ss \in Seq(Seq(Row)) /\ Len(ss) = Len(chunks) /\ \A a \in 1 .. Len(chunks) : ss[a] = chunks[a].rows
  BY ONLY <1>1, <1>2
<1>4. Rows(chunks) = FlattenSeq(ss)
  BY <1>2 DEF Rows
<1>5. \A a \in 1 .. Len(ss) : Pairwise(ss[a], BeforePairs)
  <2>1. ASSUME NEW a \in 1 .. Len(ss) PROVE Pairwise(ss[a], BeforePairs)
    <3>1. ss[a] \in Seq(Row) /\ RowsInOrder(ss[a])
      BY <1>1, <1>3 DEF InOrder
    <3> QED BY <3>1, InOrderPairs
  <2> QED BY <2>1
<1>6. ASSUME NEW a \in 1 .. Len(ss), NEW b \in 1 .. Len(ss), a < b,
             NEW i \in 1 .. Len(ss[a]), NEW j \in 1 .. Len(ss[b])
      PROVE  <<ss[a][i], ss[b][j]>> \in BeforePairs
  <2>1. ss[a] = chunks[a].rows /\ ss[b] = chunks[b].rows /\ ss[a] \in Seq(Row) /\ ss[b] \in Seq(Row)
    BY <1>1, <1>3
  <2>2. ss[a][i] \in Row /\ ss[b][j] \in Row
    BY <2>1
  <2>3. Before(ss[a][i], ss[b][j])
    BY <1>3, <1>6, <2>1 DEF InOrder
  <2> QED BY <2>2, <2>3 DEF BeforePairs
<1>7. /\ FlattenSeq(ss) \in Seq(Row) /\ Pairwise(FlattenSeq(ss), BeforePairs)
      /\ \A x \in 1 .. Len(FlattenSeq(ss)) :
            \E a \in 1 .. Len(ss) : \E i \in 1 .. Len(ss[a]) : FlattenSeq(ss)[x] = ss[a][i]
  BY <1>3, <1>5, <1>6, PairwiseFlatten
<1>8. PICK rows \in Seq(Row) : rows = Rows(chunks)
  BY <1>4, <1>7
<1>9. RowsInOrder(rows)
  BY <1>4, <1>7, <1>8, InOrderPairs
<1>10. ASSUME NEW x \in 1 .. Len(rows)
      PROVE  /\ \E a \in 1 .. Len(chunks) : \E i \in 1 .. Len(chunks[a].rows) : rows[x] = chunks[a].rows[i]
             /\ rows[x].val # <<>>
  <2>1. PICK a \in 1 .. Len(ss) : \E i \in 1 .. Len(ss[a]) : rows[x] = ss[a][i]
    BY <1>4, <1>7, <1>8
  <2>2. PICK i \in 1 .. Len(chunks[a].rows) : rows[x] = chunks[a].rows[i]
    BY <1>3, <2>1
  <2>3. a \in 1 .. Len(chunks)
    BY <1>3
  <2>4. chunks[a].rows[i].val # <<>>
    BY <2>3 DEF Filled, RowsFilled
  <2> QED BY <2>2, <2>3, <2>4
<1> QED BY <1>8, <1>9, <1>10 DEF RowsFilled

(* Chunks that are kept are in order.                                      *)
LEMMA KeptInOrder ==
    ASSUME NEW chunks \in Seq(Chunk), NEW q \in Seq(Chunk), NEW K \in SUBSET (1 .. Len(chunks)), NEW h,
           KeptBy(h, q, chunks, K), InOrder(chunks), Filled(chunks)
    PROVE  InOrder(q) /\ Filled(q)
<1>1. \A k \in 1 .. Len(q) : h[k] \in 1 .. Len(chunks) /\ q[k] = chunks[h[k]]
  BY DEF KeptBy
<1>2. \A k, m \in 1 .. Len(q) : k < m => h[k] < h[m]
  BY DEF KeptBy
<1>3. Filled(q)
  BY <1>1 DEF Filled
<1>4. InOrder(q)
  BY <1>1, <1>2 DEF InOrder
<1> QED BY <1>3, <1>4

(* Rows that are kept are in order.                                        *)
LEMMA KeptRows ==
    ASSUME NEW rows \in Seq(Row), NEW q \in Seq(Row), NEW K \in SUBSET (1 .. Len(rows)), NEW h,
           KeptBy(h, q, rows, K), RowsInOrder(rows)
    PROVE  RowsInOrder(q)
<1>1. \A k \in 1 .. Len(q) : h[k] \in 1 .. Len(rows) /\ q[k] = rows[h[k]]
  BY DEF KeptBy
<1>2. \A k, m \in 1 .. Len(q) : k < m => h[k] < h[m]
  BY DEF KeptBy
<1> QED BY <1>1, <1>2 DEF RowsInOrder

(* Rows after rows.                                                        *)
LEMMA ConcatInOrder ==
    ASSUME NEW s \in Seq(Row), NEW t \in Seq(Row), RowsInOrder(s), RowsInOrder(t), RowsFilled(s), RowsFilled(t),
           \A i \in 1 .. Len(s) : \A j \in 1 .. Len(t) : Before(s[i], t[j])
    PROVE  s \o t \in Seq(Row) /\ RowsInOrder(s \o t) /\ RowsFilled(s \o t)
<1>1. s \o t \in Seq(Row)
  OBVIOUS
<1>2. Pairwise(s, BeforePairs) /\ Pairwise(t, BeforePairs)
  BY InOrderPairs
<1>3. \A i \in 1 .. Len(s) : \A j \in 1 .. Len(t) : <<s[i], t[j]>> \in BeforePairs
  <2>1. (\A i \in 1 .. Len(s) : s[i] \in Row) /\ (\A j \in 1 .. Len(t) : t[j] \in Row)
    OBVIOUS
  <2> QED BY <2>1 DEF BeforePairs
<1>4. Pairwise(s \o t, BeforePairs)
  BY <1>2, <1>3, PairwiseConcat
<1>5. RowsInOrder(s \o t)
  BY <1>1, <1>4, InOrderPairs
<1>6. PICK u : u = s \o t
  OBVIOUS
<1>7. \A x \in 1 .. Len(u) : (\E i \in 1 .. Len(s) : u[x] = s[i]) \/ (\E j \in 1 .. Len(t) : u[x] = t[j])
  <2>1. \A x \in 1 .. Len(u) : \/ x \in 1 .. Len(s) /\ u[x] = s[x]
                               \/ x > Len(s) /\ x - Len(s) \in 1 .. Len(t) /\ u[x] = t[x - Len(s)]
    BY <1>6, ConcatIndex
  <2> QED BY <2>1
<1>8. RowsFilled(u)
  BY <1>7 DEF RowsFilled
<1> QED BY <1>1, <1>5, <1>6, <1>8

-----------------------------------------------------------------------------
(* A run of a SISO node. *)

(* The node after a run.                                                   *)
Ran(node, s, m) == [node EXCEPT !.dirty = FALSE, !.mark = m, !.got = @ \o s]

(* What a run changes of the node.                                         *)
LEMMA RanFields ==
    ASSUME NEW node \in NodeT, NEW s \in Seq(Row), NEW m \in Int
    PROVE  /\ Ran(node, s, m).mark = m /\ Ran(node, s, m).got = node.got \o s
           /\ SameShape(Ran(node, s, m), node) /\ node.got \in Seq(Row)
BY DEF Ran, SameShape, NodeT

(* run_siso_incremental on an input in order: what is above the watermark  *)
(* comes after all the transform was called with.                          *)
LEMMA SisoRun ==
    ASSUME NEW node \in NodeT, node.inputs # <<>>, ~node.mimo, NEW sl \in [Topics -> Seq(Chunk)],
           InOrder(sl[node.inputs[1]]), Filled(sl[node.inputs[1]]),
           GotInOrder(node), SeenSiso(node, sl[node.inputs[1]]),
           NEW s, NEW m, s = newSamples(node, sl), m = newMark(node, sl)
    PROVE  /\ RowsInOrder(s) /\ RowsFilled(s)
           /\ \A i \in 1 .. Len(node.got) : \A j \in 1 .. Len(s) : Before(node.got[i], s[j])
           /\ GotInOrder(Ran(node, s, m)) /\ SeenSiso(Ran(node, s, m), sl[node.inputs[1]])
<1>1. s \in Seq(Row) /\ m \in Int
  BY SamplesType
<1>2. node.inputs[1] \in Topics
  BY DEF NodeT
<1>3. PICK chunks \in Seq(Chunk) : chunks = sl[node.inputs[1]]
  BY <1>2
<1>4. node.mark \in Int /\ node.got \in Seq(Row)
  BY DEF NodeT
<1>5. Len(chunks) \in Nat /\ \A a \in 1 .. Len(chunks) : chunks[a].id \in Nat
  <2>1. Len(chunks) \in Nat /\ \A a \in 1 .. Len(chunks) : chunks[a] \in Chunk
    BY <1>3
  <2>2. \A c \in Chunk : c.id \in Nat
    BY DEF Chunk
  <2> QED BY <2>1, <2>2
<1> DEFINE K == {a \in 1 .. Len(chunks) : chunks[a].id > node.mark}
<1>6. PICK q : q = sisoChunks(node, sl)
  OBVIOUS
<1>7. q = FlattenSeq([a \in 1 .. Len(chunks) |-> IF a \in K THEN <<chunks[a]>> ELSE <<>>])
  BY <1>3, <1>6 DEF sisoChunks, Selected
<1>8. K \in SUBSET (1 .. Len(chunks))
  OBVIOUS
<1>9. \A a \in 1 .. Len(chunks) : a \in K <=> chunks[a].id > node.mark
  OBVIOUS
<1> HIDE DEF K
<1>10. q \in Seq(Chunk) /\ \E h : KeptBy(h, q, chunks, K)
  BY ONLY <1>3, <1>7, <1>8, SelectSeqKeeps
<1>11. PICK h : KeptBy(h, q, chunks, K)
  BY <1>10
<1>12. InOrder(q) /\ Filled(q)
  BY <1>3, <1>8, <1>10, <1>11, KeptInOrder
<1>13. s = Rows(q)
  BY <1>6 DEF newSamples
<1>14. /\ RowsInOrder(s) /\ RowsFilled(s)
       /\ \A x \in 1 .. Len(s) : \E b \in 1 .. Len(q) : \E i \in 1 .. Len(q[b].rows) : s[x] = q[b].rows[i]
  BY <1>10, <1>12, <1>13, RowsOfChunks
<1>15. \A x \in 1 .. Len(s) : \E a \in K : \E i \in 1 .. Len(chunks[a].rows) : s[x] = chunks[a].rows[i]
  <2>1. \A b \in 1 .. Len(q) : h[b] \in K /\ q[b] = chunks[h[b]]
    BY <1>11 DEF KeptBy
  <2>2. ASSUME NEW x \in 1 .. Len(s)
        PROVE  \E a \in K : \E i \in 1 .. Len(chunks[a].rows) : s[x] = chunks[a].rows[i]
    <3>1. PICK b \in 1 .. Len(q) : \E i \in 1 .. Len(q[b].rows) : s[x] = q[b].rows[i]
      BY <1>14
    <3>2. PICK a : a = h[b]
      OBVIOUS
    <3>3. a \in K /\ q[b] = chunks[a]
      BY <2>1, <3>2
    <3> QED BY ONLY <3>1, <3>3
  <2> QED BY <2>2
<1>16. PICK p \in 0 .. Len(chunks) :
          /\ \A a \in 1 .. p : chunks[a].id <= node.mark
          /\ \A g \in 1 .. Len(node.got) :
                \E a \in 1 .. p : \E i \in 1 .. Len(chunks[a].rows) : chunks[a].rows[i] = node.got[g]
  BY <1>3 DEF SeenSiso
<1>17. \A a \in K : a \in 1 .. Len(chunks) /\ a > p
  BY <1>4, <1>5, <1>8, <1>9, <1>16
<1>18. ASSUME NEW i \in 1 .. Len(node.got), NEW j \in 1 .. Len(s) PROVE Before(node.got[i], s[j])
  <2>1. PICK a \in 1 .. p : \E x \in 1 .. Len(chunks[a].rows) : chunks[a].rows[x] = node.got[i]
    BY <1>16
  <2>2. PICK x \in 1 .. Len(chunks[a].rows) : chunks[a].rows[x] = node.got[i]
    BY <2>1
  <2>3. PICK b \in K : \E y \in 1 .. Len(chunks[b].rows) : s[j] = chunks[b].rows[y]
    BY <1>15
  <2>4. PICK y \in 1 .. Len(chunks[b].rows) : s[j] = chunks[b].rows[y]
    BY <2>3
  <2>5. a \in 1 .. Len(chunks) /\ b \in 1 .. Len(chunks) /\ a < b
    BY <1>5, <1>16, <1>17
  <2>6. Before(chunks[a].rows[x], chunks[b].rows[y])
    BY <1>3, <2>5 DEF InOrder
  <2> QED BY <2>2, <2>4, <2>6
<1>19. RowsInOrder(node.got) /\ RowsFilled(node.got)
  BY DEF GotInOrder
<1>20. RowsInOrder(node.got \o s) /\ RowsFilled(node.got \o s)
  BY <1>1, <1>4, <1>14, <1>18, <1>19, ConcatInOrder
<1>21. PICK n2 : n2 = Ran(node, s, m)
  OBVIOUS
<1>22. n2.mark = m /\ n2.got = node.got \o s /\ ~n2.mimo
  <2>1. n2.mark = m /\ n2.got = node.got \o s
    BY <1>1, <1>21, RanFields
  <2>2. n2.mimo = node.mimo
    BY <1>1, <1>21, RanFields DEF SameShape
  <2> QED BY <2>1, <2>2
<1>23. GotInOrder(n2)
  BY <1>20, <1>22 DEF GotInOrder
<1>24. \A a \in 1 .. Len(chunks) : chunks[a].id <= m
  <2>1. m = sisoMark(node, sl)
    BY DEF newMark
  <2>2. /\ m \in {node.mark} \cup {c.id : c \in ToSet(q)}
        /\ \A c \in ToSet(q) : c.id <= m
    BY <1>6, <2>1, SisoMarkFacts
  <2>3. \A a \in K : chunks[a] \in ToSet(q)
    <3>1. DOMAIN q = 1 .. Len(q)
      BY <1>10
    <3>2. ASSUME NEW a \in K PROVE \E k \in 1 .. Len(q) : chunks[a] = q[k]
      <4>1. PICK k \in 1 .. Len(q) : h[k] = a
        BY <1>11 DEF KeptBy
      <4>2. q[k] = chunks[h[k]]
        BY <1>11 DEF KeptBy
      <4> QED BY <4>1, <4>2
    <3> QED BY <3>1, <3>2 DEF ToSet
  <2>4. node.mark <= m
    <3>1. \A c \in ToSet(q) : c.id > node.mark
      <4>1. DOMAIN q = 1 .. Len(q)
        BY <1>10
      <4>2. \A k \in 1 .. Len(q) : q[k].id > node.mark
        BY <1>8, <1>9, <1>11 DEF KeptBy
      <4> QED BY <4>1, <4>2 DEF ToSet
    <3> QED BY <1>1, <1>4, <2>2, <3>1
  <2>5. ASSUME NEW a \in 1 .. Len(chunks) PROVE chunks[a].id <= m
    <3>1. CASE a \in K
      BY <2>2, <2>3, <3>1
    <3>2. CASE a \notin K
      BY <1>1, <1>4, <1>5, <1>9, <2>4, <3>2
    <3> QED BY <3>1, <3>2
  <2> QED BY <2>5
<1>25. ASSUME NEW g \in 1 .. Len(n2.got)
       PROVE  \E a \in 1 .. Len(chunks) : \E i \in 1 .. Len(chunks[a].rows) : chunks[a].rows[i] = n2.got[g]
  <2>1. PICK u : u = node.got \o s
    OBVIOUS
  <2>2. \/ g \in 1 .. Len(node.got) /\ u[g] = node.got[g]
        \/ g > Len(node.got) /\ g - Len(node.got) \in 1 .. Len(s) /\ u[g] = s[g - Len(node.got)]
    BY <1>1, <1>4, <1>22, <2>1, ConcatIndex
  <2>3. n2.got[g] = u[g]
    BY <1>22, <2>1
  <2>4. CASE g \in 1 .. Len(node.got) /\ u[g] = node.got[g]
    <3>1. PICK a \in 1 .. p : \E i \in 1 .. Len(chunks[a].rows) : chunks[a].rows[i] = node.got[g]
      BY <1>16, <2>4
    <3>2. a \in 1 .. Len(chunks)
      BY <1>5, <1>16
    <3> QED BY <2>3, <2>4, <3>1, <3>2
  <2>5. CASE g - Len(node.got) \in 1 .. Len(s) /\ u[g] = s[g - Len(node.got)]
    BY <1>8, <1>15, <2>3, <2>5
  <2> QED BY <2>2, <2>4, <2>5
<1>26. SeenSiso(n2, chunks)
  <2>1. Len(chunks) \in 0 .. Len(chunks)
    BY <1>5
  <2> QED BY <1>22, <1>24, <1>25, <2>1 DEF SeenSiso
<1> QED BY <1>3, <1>14, <1>18, <1>21, <1>23, <1>26

-----------------------------------------------------------------------------
(* A run of a joining node. *)

(* A row of a chunk.                                                       *)
IsRow(r, chunks) == \E a \in 1 .. Len(chunks) : \E i \in 1 .. Len(chunks[a].rows) : r = chunks[a].rows[i]

(* The rows of the first input after the watermark.                        *)
LEMMA FreshOrder ==
    ASSUME NEW node \in NodeT, node.inputs # <<>>, NEW sl \in [Topics -> Seq(Chunk)],
           InOrder(sl[node.inputs[1]]), Filled(sl[node.inputs[1]])
    PROVE  /\ fresh(node, sl, 1) \in Seq(Row) /\ RowsInOrder(fresh(node, sl, 1))
           /\ \A k \in 1 .. Len(fresh(node, sl, 1)) :
                 fresh(node, sl, 1)[k].ts > node.mark /\ IsRow(fresh(node, sl, 1)[k], sl[node.inputs[1]])
<1>1. node.inputs[1] \in Topics /\ 1 \in 1 .. Len(node.inputs)
  BY DEF NodeT
<1>2. PICK chunks \in Seq(Chunk) : chunks = sl[node.inputs[1]]
  BY <1>1
<1>3. PICK rows \in Seq(Row) : rows = Rows(chunks)
  BY RowsType
<1>4. RowsInOrder(rows) /\ \A x \in 1 .. Len(rows) : IsRow(rows[x], chunks)
  BY <1>2, <1>3, RowsOfChunks DEF IsRow
<1> DEFINE K == {k \in 1 .. Len(rows) : rows[k].ts > node.mark}
<1>5. PICK q \in Seq(Row) : q = fresh(node, sl, 1)
  BY <1>1, FreshType
<1>6. q = FlattenSeq([k \in 1 .. Len(rows) |-> IF k \in K THEN <<rows[k]>> ELSE <<>>])
  BY <1>2, <1>3, <1>5 DEF fresh, Selected
<1>7. K \in SUBSET (1 .. Len(rows))
  OBVIOUS
<1> HIDE DEF K
<1>8. \E h : KeptBy(h, q, rows, K)
  BY ONLY <1>3, <1>6, <1>7, SelectSeqKeeps
<1>9. PICK h : KeptBy(h, q, rows, K)
  BY <1>8
<1>10. RowsInOrder(q)
  BY <1>3, <1>4, <1>5, <1>7, <1>9, KeptRows
<1>11. \A k \in 1 .. Len(q) : IsRow(q[k], chunks)
  BY <1>4, <1>7, <1>9 DEF KeptBy
<1>12. \A k \in 1 .. Len(q) : q[k].ts > node.mark
  BY <1>1, <1>5, FreshType
<1> QED BY <1>2, <1>5, <1>10, <1>11, <1>12

(* Of these, the ones whose timestamp all inputs have.                     *)
LEMMA CommonOrder ==
    ASSUME NEW node \in NodeT, node.inputs # <<>>, NEW sl \in [Topics -> Seq(Chunk)],
           InOrder(sl[node.inputs[1]]), Filled(sl[node.inputs[1]])
    PROVE  /\ common(node, sl) \in Seq(Row) /\ RowsInOrder(common(node, sl))
           /\ \A k \in 1 .. Len(common(node, sl)) :
                 common(node, sl)[k].ts > node.mark /\ IsRow(common(node, sl)[k], sl[node.inputs[1]])
<1>1. PICK rows \in Seq(Row) : rows = fresh(node, sl, 1)
  BY FreshOrder
<1>2. /\ RowsInOrder(rows)
      /\ \A k \in 1 .. Len(rows) : rows[k].ts > node.mark /\ IsRow(rows[k], sl[node.inputs[1]])
  BY <1>1, FreshOrder
<1> DEFINE K == {k \in 1 .. Len(rows) :
                    \A i \in DOMAIN node.inputs : \E q \in ToSet(fresh(node, sl, i)) : q.ts = rows[k].ts}
<1>3. PICK q \in Seq(Row) : q = common(node, sl)
  BY CommonFacts
<1>4. q = FlattenSeq([k \in 1 .. Len(rows) |-> IF k \in K THEN <<rows[k]>> ELSE <<>>])
  BY <1>1, <1>3 DEF common, Selected
<1>5. K \in SUBSET (1 .. Len(rows))
  OBVIOUS
<1> HIDE DEF K
<1>6. \E h : KeptBy(h, q, rows, K)
  BY ONLY <1>1, <1>4, <1>5, SelectSeqKeeps
<1>7. PICK h : KeptBy(h, q, rows, K)
  BY <1>6
<1>8. RowsInOrder(q)
  BY <1>1, <1>2, <1>3, <1>5, <1>7, KeptRows
<1>9. \A k \in 1 .. Len(q) : q[k].ts > node.mark /\ IsRow(q[k], sl[node.inputs[1]])
  <2>1. \A k \in 1 .. Len(q) : h[k] \in 1 .. Len(rows) /\ q[k] = rows[h[k]]
    BY <1>5, <1>7 DEF KeptBy
  <2> QED BY <1>2, <2>1
<1> QED BY <1>3, <1>8, <1>9

(* std::unique of a sorted sequence has no two equal elements.             *)
LEMMA UniqueStrict ==
    ASSUME NEW s \in Seq(Int), \A i, j \in 1 .. Len(s) : i <= j => s[i] <= s[j]
    PROVE  \A k, m \in 1 .. Len(unique(s)) : k < m => unique(s)[k] < unique(s)[m]
<1> DEFINE K == {k \in 1 .. Len(s) : ~(k > 1 /\ s[k - 1] = s[k])}
<1>1. unique(s) = FlattenSeq([k \in 1 .. Len(s) |-> IF k \in K THEN <<s[k]>> ELSE <<>>])
  <2>1. [k \in 1 .. Len(s) |-> IF k > 1 /\ s[k - 1] = s[k] THEN <<>> ELSE <<s[k]>>]
          = [k \in 1 .. Len(s) |-> IF k \in K THEN <<s[k]>> ELSE <<>>]
    OBVIOUS
  <2> HIDE DEF K
  <2> QED BY <2>1 DEF unique
<1>2. K \in SUBSET (1 .. Len(s)) /\ \A k \in K : k > 1 => s[k - 1] # s[k]
  OBVIOUS
<1> HIDE DEF K
<1>3. PICK q : q = unique(s)
  OBVIOUS
<1>4. q \in Seq(Int) /\ \E h : KeptBy(h, q, s, K)
  BY ONLY <1>1, <1>2, <1>3, SelectSeqKeeps, s \in Seq(Int)
<1>5. PICK h : KeptBy(h, q, s, K)
  BY <1>4
<1>6. ASSUME NEW k \in 1 .. Len(q), NEW m \in 1 .. Len(q), k < m PROVE q[k] < q[m]
  <2>1. PICK x, y : x = h[k] /\ y = h[m]
    OBVIOUS
  <2>2. x \in K /\ y \in K /\ x < y /\ q[k] = s[x] /\ q[m] = s[y]
    BY <1>5, <1>6, <2>1 DEF KeptBy
  <2>3. Len(s) \in Nat /\ x \in 1 .. Len(s) /\ y \in 1 .. Len(s) /\ y - 1 \in 1 .. Len(s) /\ x <= y - 1 /\ y > 1
    BY <1>2, <2>2
  <2>4. s[x] \in Int /\ s[y] \in Int /\ s[y - 1] \in Int
    BY <2>3
  <2>5. s[x] <= s[y - 1] /\ s[y - 1] <= s[y] /\ s[y - 1] # s[y]
    BY <1>2, <2>2, <2>3
  <2> QED BY <2>2, <2>4, <2>5
<1> QED BY <1>3, <1>6

(* The joined timestamps ascend from the watermark.                        *)
LEMMA JoinedOrder ==
    ASSUME NEW node \in NodeT, node.inputs # <<>>, NEW sl \in [Topics -> Seq(Chunk)],
           InOrder(sl[node.inputs[1]]), Filled(sl[node.inputs[1]])
    PROVE  /\ joinedTimes(node, sl) \in Seq(Int)
           /\ \A k, m \in 1 .. Len(joinedTimes(node, sl)) : k < m => joinedTimes(node, sl)[k] < joinedTimes(node, sl)[m]
           /\ \A k \in 1 .. Len(joinedTimes(node, sl)) : joinedTimes(node, sl)[k] > node.mark
<1>1. PICK rows \in Seq(Row) : rows = common(node, sl)
  BY CommonFacts
<1>2. PICK s : s = [k \in 1 .. Len(rows) |-> rows[k].ts]
  OBVIOUS
<1>3. joinedTimes(node, sl) = unique(s)
  BY <1>1, <1>2 DEF joinedTimes
<1>4. Len(rows) \in Nat /\ \A k \in 1 .. Len(rows) : rows[k].ts \in Int
  <2>1. Len(rows) \in Nat /\ \A k \in 1 .. Len(rows) : rows[k] \in Row
    OBVIOUS
  <2>2. \A r \in Row : r.ts \in Int
    BY DEF Row
  <2> QED BY <2>1, <2>2
<1>5. s \in Seq(Int) /\ Len(s) = Len(rows) /\ \A k \in 1 .. Len(rows) : s[k] = rows[k].ts
  BY ONLY <1>2, <1>4
<1>6. RowsInOrder(rows) /\ \A k \in 1 .. Len(rows) : rows[k].ts > node.mark
  BY <1>1, CommonOrder
<1>7. \A i, j \in 1 .. Len(s) : i <= j => s[i] <= s[j]
  <2>1. ASSUME NEW i \in 1 .. Len(s), NEW j \in 1 .. Len(s), i <= j PROVE s[i] <= s[j]
    <3>1. CASE i = j
      BY <1>4, <1>5, <3>1
    <3>2. CASE i # j
      <4>1. i < j
        BY <1>4, <1>5, <2>1, <3>2
      <4>2. rows[i].ts <= rows[j].ts
        BY <1>5, <1>6, <4>1 DEF RowsInOrder, Before
      <4> QED BY <1>5, <4>2
    <3> QED BY <3>1, <3>2
  <2> QED BY <2>1
<1>8. PICK u \in Seq(Int) : u = unique(s)
  BY <1>5, UniqueFacts
<1>9. \A k, m \in 1 .. Len(u) : k < m => u[k] < u[m]
  BY <1>5, <1>7, <1>8, UniqueStrict
<1>10. \A k \in 1 .. Len(u) : \E i \in 1 .. Len(s) : u[k] = s[i]
  BY <1>5, <1>8, UniqueFacts
<1>11. \A k \in 1 .. Len(u) : u[k] > node.mark
  BY <1>5, <1>6, <1>10
<1> QED BY <1>3, <1>8, <1>9, <1>11

(* What is looked up in the first input is the value of one of its rows.   *)
LEMMA LookupRow ==
    ASSUME NEW node \in NodeT, node.inputs # <<>>, NEW sl \in [Topics -> Seq(Chunk)],
           InOrder(sl[node.inputs[1]]), Filled(sl[node.inputs[1]]),
           NEW ts \in Int, \E q \in ToSet(fresh(node, sl, 1)) : q.ts = ts
    PROVE  \E r \in Row : r.ts = ts /\ r.val = lookup(node, sl, 1, ts) /\ IsRow(r, sl[node.inputs[1]])
<1>1. PICK s \in Seq(Row) : s = fresh(node, sl, 1)
  BY FreshOrder
<1> DEFINE K == {k \in 1 .. Len(s) : s[k].ts = ts}
<1>2. PICK q : q = Selected(fresh(node, sl, 1), LAMBDA r : r.ts = ts)
  OBVIOUS
<1>3. q = FlattenSeq([k \in 1 .. Len(s) |-> IF k \in K THEN <<s[k]>> ELSE <<>>])
  BY <1>1, <1>2 DEF Selected
<1>4. K \in SUBSET (1 .. Len(s)) /\ \A k \in K : s[k].ts = ts
  OBVIOUS
<1>5. K # {}
  BY <1>1 DEF ToSet
<1> HIDE DEF K
<1>6. q \in Seq(Row) /\ \E h : KeptBy(h, q, s, K)
  BY ONLY <1>1, <1>3, <1>4, SelectSeqKeeps
<1>7. PICK h : KeptBy(h, q, s, K)
  BY <1>6
<1>8. Len(q) \in Nat /\ \E k \in 1 .. Len(q) : TRUE
  BY <1>5, <1>6, <1>7 DEF KeptBy
<1>9. Len(q) \in 1 .. Len(q) /\ Last(q) = q[Len(q)] /\ Last(q) \in Row
  <2>1. Len(q) \in 1 .. Len(q) /\ DOMAIN q = 1 .. Len(q)
    BY <1>6, <1>8
  <2> QED BY <1>6, <2>1 DEF Last
<1>10. PICK x : x = h[Len(q)]
  OBVIOUS
<1>11. x \in K /\ Last(q) = s[x]
  BY <1>7, <1>9, <1>10 DEF KeptBy
<1>12. IsRow(s[x], sl[node.inputs[1]])
  BY <1>1, <1>4, <1>11, FreshOrder
<1>13. lookup(node, sl, 1, ts) = Last(q).val
  BY <1>2 DEF lookup
<1> QED BY <1>4, <1>9, <1>11, <1>12, <1>13

(* Rows of a topic with different timestamps were computed from different  *)
(* rows.                                                                   *)
LEMMA DistinctHeads ==
    ASSUME NEW chunks \in Seq(Chunk), InOrder(chunks), NEW r, NEW q, IsRow(r, chunks), IsRow(q, chunks), r.ts # q.ts
    PROVE  r.val[1] # q.val[1]
<1>1. PICK a \in 1 .. Len(chunks) : \E i \in 1 .. Len(chunks[a].rows) : r = chunks[a].rows[i]
  BY DEF IsRow
<1>2. PICK i \in 1 .. Len(chunks[a].rows) : r = chunks[a].rows[i]
  BY <1>1
<1>3. PICK b \in 1 .. Len(chunks) : \E j \in 1 .. Len(chunks[b].rows) : q = chunks[b].rows[j]
  BY DEF IsRow
<1>4. PICK j \in 1 .. Len(chunks[b].rows) : q = chunks[b].rows[j]
  BY <1>3
<1>5. CASE a < b
  <2>1. Before(r, q)
    BY <1>2, <1>4, <1>5 DEF InOrder
  <2> QED BY <2>1 DEF Before
<1>6. CASE b < a
  <2>1. Before(q, r)
    BY <1>2, <1>4, <1>6 DEF InOrder
  <2> QED BY <2>1 DEF Before
<1>7. CASE a = b
  <2>1. RowsInOrder(chunks[a].rows)
    BY DEF InOrder
  <2>2. CASE i < j
    BY <1>2, <1>4, <1>7, <2>1, <2>2 DEF RowsInOrder, Before
  <2>3. CASE j < i
    BY <1>2, <1>4, <1>7, <2>1, <2>3 DEF RowsInOrder, Before
  <2>4. i # j
    BY <1>2, <1>4, <1>7
  <2>5. i \in Int /\ j \in Int
    OBVIOUS
  <2> QED BY <2>2, <2>3, <2>4, <2>5
<1>8. a \in Int /\ b \in Int
  OBVIOUS
<1> QED BY <1>5, <1>6, <1>7, <1>8

(* The joined rows: their timestamps are the joined ones, and each starts  *)
(* with a row of the first input.                                          *)
LEMMA MimoRowsFacts ==
    ASSUME NEW node \in NodeT, node.inputs # <<>>, NEW sl \in [Topics -> Seq(Chunk)],
           InOrder(sl[node.inputs[1]]), Filled(sl[node.inputs[1]])
    PROVE  /\ Len(mimoRows(node, sl)) = Len(joinedTimes(node, sl))
           /\ \A k \in 1 .. Len(joinedTimes(node, sl)) :
                 /\ mimoRows(node, sl)[k].ts = joinedTimes(node, sl)[k]
                 /\ mimoRows(node, sl)[k].val # <<>>
                 /\ \E r \in Row : /\ r.ts = joinedTimes(node, sl)[k] /\ IsRow(r, sl[node.inputs[1]])
                                   /\ r.val[1] = mimoRows(node, sl)[k].val[1]
<1>1. PICK times \in Seq(Int) : times = joinedTimes(node, sl)
  BY JoinedFacts
<1>2. node.inputs \in Seq(Topics) /\ Len(node.inputs) \in Nat /\ DOMAIN node.inputs = 1 .. Len(node.inputs)
      /\ 1 \in 1 .. Len(node.inputs)
  BY DEF NodeT
<1> DEFINE val(k) == FlattenSeq([i \in DOMAIN node.inputs |-> lookup(node, sl, i, times[k])])
           rows == [k \in 1 .. Len(times) |-> [ts |-> times[k], val |-> val(k)]]
<1>3. mimoRows(node, sl) = rows
  BY <1>1 DEF mimoRows
<1>4. Len(times) \in Nat
  BY <1>1
<1>5. Len(rows) = Len(times) /\ \A k \in 1 .. Len(times) : rows[k].ts = times[k] /\ rows[k].val = val(k)
  <2> HIDE DEF val
  <2> QED BY <1>4
<1>6. ASSUME NEW k \in 1 .. Len(times)
      PROVE  val(k) # <<>> /\ \E r \in Row : r.ts = times[k] /\ IsRow(r, sl[node.inputs[1]]) /\ r.val[1] = val(k)[1]
  <2>1. times[k] \in Int
    BY <1>1
  <2>2. \A i \in 1 .. Len(node.inputs) : \E q \in ToSet(fresh(node, sl, i)) : q.ts = times[k]
    BY <1>1, JoinedFacts
  <2>3. \A i \in 1 .. Len(node.inputs) : lookup(node, sl, i, times[k]) \in Seq(Nat)
    <3>1. ASSUME NEW i \in 1 .. Len(node.inputs) PROVE lookup(node, sl, i, times[k]) \in Seq(Nat)
      <4>1. \E q \in ToSet(fresh(node, sl, i)) : q.ts = times[k]
        BY <2>2
      <4> QED BY <2>1, <4>1, LookupType
    <3> QED BY <3>1
  <2>4. PICK ss : ss = [i \in DOMAIN node.inputs |-> lookup(node, sl, i, times[k])]
    OBVIOUS
  <2>5. ss \in Seq(Seq(Nat)) /\ ss[1] = lookup(node, sl, 1, times[k]) /\ ss # <<>>
    <3>1. ss \in Seq(Seq(Nat)) /\ Len(ss) = Len(node.inputs)
      BY ONLY <1>2, <2>3, <2>4
    <3>2. ss[1] = lookup(node, sl, 1, times[k])
      BY <1>2, <2>4
    <3>3. ss # <<>>
      BY <1>2, <3>1
    <3> QED BY <3>1, <3>2, <3>3
  <2>6. PICK r \in Row : r.ts = times[k] /\ r.val = ss[1] /\ IsRow(r, sl[node.inputs[1]])
    <3>1. \E q \in ToSet(fresh(node, sl, 1)) : q.ts = times[k]
      BY <1>2, <2>2
    <3> QED BY <2>1, <2>5, <3>1, LookupRow, ZenonT(30)
  <2>7. ss[1] # <<>>
    BY <2>6 DEF IsRow, Filled, RowsFilled
  <2>8. FlattenSeq(ss) # <<>> /\ FlattenSeq(ss)[1] = ss[1][1]
    BY <2>5, <2>7, FlattenHead
  <2>9. val(k) = FlattenSeq(ss)
    BY <2>4
  <2> HIDE DEF val
  <2> QED BY <2>6, <2>8, <2>9
<1> HIDE DEF val
<1>7. PICK mr : mr = mimoRows(node, sl)
  OBVIOUS
<1>8. Len(mr) = Len(times) /\ \A k \in 1 .. Len(times) : mr[k].ts = times[k] /\ mr[k].val = val(k)
  BY <1>3, <1>5, <1>7
<1> QED BY <1>1, <1>6, <1>7, <1>8

(* run_mimo_incremental on a first input in order: every joined timestamp  *)
(* is after the watermark, and its row of the first input is new.          *)
LEMMA MimoRun ==
    ASSUME NEW node \in NodeT, node.inputs # <<>>, node.mimo, NEW sl \in [Topics -> Seq(Chunk)],
           InOrder(sl[node.inputs[1]]), Filled(sl[node.inputs[1]]),
           GotInOrder(node), SeenMimo(node, sl[node.inputs[1]]),
           NEW s, NEW m, s = newSamples(node, sl), m = newMark(node, sl)
    PROVE  /\ RowsInOrder(s) /\ RowsFilled(s)
           /\ \A i \in 1 .. Len(node.got) : \A j \in 1 .. Len(s) : Before(node.got[i], s[j])
           /\ GotInOrder(Ran(node, s, m)) /\ SeenMimo(Ran(node, s, m), sl[node.inputs[1]])
<1>1. s \in Seq(Row) /\ m \in Int /\ Len(s) \in Nat
  BY SamplesType
<1>2. node.inputs[1] \in Topics
  BY DEF NodeT
<1>3. PICK chunks \in Seq(Chunk) : chunks = sl[node.inputs[1]]
  BY <1>2
<1>4. node.mark \in Int /\ node.got \in Seq(Row)
  BY DEF NodeT
<1>5. PICK times \in Seq(Int) : times = joinedTimes(node, sl)
  BY JoinedFacts
<1>6. /\ \A k, x \in 1 .. Len(times) : k < x => times[k] < times[x]
      /\ \A k \in 1 .. Len(times) : times[k] > node.mark
      /\ Len(times) \in Nat
  <2>1. Len(times) \in Nat
    BY <1>5
  <2>2. \A k, x \in 1 .. Len(times) : k < x => times[k] < times[x]
    BY <1>5, JoinedOrder
  <2>3. \A k \in 1 .. Len(times) : times[k] > node.mark
    BY <1>5, JoinedOrder
  <2> QED BY <2>1, <2>2, <2>3
<1>7. s = mimoRows(node, sl)
  BY DEF newSamples
<1>8. Len(s) = Len(times) /\ \A k \in 1 .. Len(s) : s[k].ts = times[k] /\ s[k].val # <<>> /\ s[k].ts \in Int
  BY <1>5, <1>7, MimoRowsFacts
<1>9. \A k \in 1 .. Len(s) : \E r \in Row : r.ts = s[k].ts /\ IsRow(r, chunks) /\ r.val[1] = s[k].val[1]
  BY <1>3, <1>5, <1>7, <1>8, MimoRowsFacts, SMTT(30)
<1>10. \A g \in 1 .. Len(node.got) :
         node.got[g].ts <= node.mark /\ \E r : r.ts = node.got[g].ts /\ IsRow(r, chunks) /\ r.val[1] = node.got[g].val[1]
  BY <1>3 DEF SeenMimo, IsRow
<1>11. RowsFilled(s)
  BY <1>8 DEF RowsFilled
<1>12. \A i, j \in 1 .. Len(s) : i < j => s[i].ts < s[j].ts
  BY <1>6, <1>8
<1>13. RowsInOrder(s)
  <2>1. ASSUME NEW i \in 1 .. Len(s), NEW j \in 1 .. Len(s), i < j PROVE Before(s[i], s[j])
    <3>1. PICK r \in Row : r.ts = s[i].ts /\ IsRow(r, chunks) /\ r.val[1] = s[i].val[1]
      BY <1>9
    <3>2. PICK q \in Row : q.ts = s[j].ts /\ IsRow(q, chunks) /\ q.val[1] = s[j].val[1]
      BY <1>9
    <3>3. s[i].ts < s[j].ts /\ s[i].ts \in Int /\ s[j].ts \in Int
      BY <1>8, <1>12, <2>1
    <3>4. r.ts # q.ts
      BY <3>1, <3>2, <3>3
    <3>5. r.val[1] # q.val[1]
      BY <1>3, <3>1, <3>2, <3>4, DistinctHeads
    <3> QED BY <3>1, <3>2, <3>3, <3>5 DEF Before
  <2> QED BY <2>1 DEF RowsInOrder
<1>14. \A g \in 1 .. Len(node.got) : node.got[g].ts \in Int
  <2>1. \A g \in 1 .. Len(node.got) : node.got[g] \in Row
    BY <1>4
  <2> QED BY <2>1 DEF Row
<1>15. ASSUME NEW i \in 1 .. Len(node.got), NEW j \in 1 .. Len(s)
       PROVE  Before(node.got[i], s[j]) /\ node.got[i].ts < s[j].ts
  <2>1. PICK r : r.ts = node.got[i].ts /\ IsRow(r, chunks) /\ r.val[1] = node.got[i].val[1]
    BY <1>10
  <2>2. PICK q : q.ts = s[j].ts /\ IsRow(q, chunks) /\ q.val[1] = s[j].val[1]
    BY <1>9
  <2>3. node.got[i].ts <= node.mark /\ node.mark < s[j].ts /\ s[j].ts \in Int /\ node.got[i].ts \in Int
    BY <1>4, <1>6, <1>8, <1>10, <1>14
  <2>4. node.got[i].ts < s[j].ts
    BY <1>4, <2>3
  <2>5. r.ts # q.ts
    BY <2>1, <2>2, <2>3, <2>4
  <2>6. r.val[1] # q.val[1]
    BY <1>3, <2>1, <2>2, <2>5, DistinctHeads
  <2> QED BY <2>1, <2>2, <2>3, <2>4, <2>6 DEF Before
<1>16. RowsInOrder(node.got) /\ RowsFilled(node.got)
  BY DEF GotInOrder
<1>17. RowsInOrder(node.got \o s) /\ RowsFilled(node.got \o s)
  BY <1>1, <1>4, <1>11, <1>13, <1>15, <1>16, ConcatInOrder
<1>18. PICK n2 : n2 = Ran(node, s, m)
  OBVIOUS
<1>19. n2.mark = m /\ n2.got = node.got \o s
  BY <1>1, <1>18, RanFields
<1>20. PICK u : u = node.got \o s
  OBVIOUS
<1>21. \A x \in 1 .. Len(u) : \/ x \in 1 .. Len(node.got) /\ u[x] = node.got[x]
                              \/ x > Len(node.got) /\ x - Len(node.got) \in 1 .. Len(s) /\ u[x] = s[x - Len(node.got)]
  BY <1>1, <1>4, <1>20, ConcatIndex
<1>22. Len(u) \in Nat /\ Len(node.got) \in Nat
  BY <1>1, <1>4, <1>20
<1>23. ASSUME NEW x \in 1 .. Len(u), NEW y \in 1 .. Len(u), x < y PROVE u[x].ts < u[y].ts
  <2>1. CASE x \in 1 .. Len(node.got) /\ y \in 1 .. Len(node.got)
    <3>1. u[x] = node.got[x] /\ u[y] = node.got[y]
      BY <1>21, <1>22, <2>1
    <3> QED BY <1>23, <2>1, <3>1 DEF GotInOrder
  <2>2. CASE x \in 1 .. Len(node.got) /\ y \notin 1 .. Len(node.got)
    <3>1. u[x] = node.got[x]
      BY <1>21, <1>22, <2>2
    <3>2. y - Len(node.got) \in 1 .. Len(s) /\ u[y] = s[y - Len(node.got)]
      BY <1>21, <2>2
    <3> QED BY <1>15, <2>2, <3>1, <3>2
  <2>3. CASE x \notin 1 .. Len(node.got)
    <3>1. y \notin 1 .. Len(node.got)
      BY <1>22, <1>23, <2>3
    <3>2. /\ x - Len(node.got) \in 1 .. Len(s) /\ u[x] = s[x - Len(node.got)]
          /\ y - Len(node.got) \in 1 .. Len(s) /\ u[y] = s[y - Len(node.got)]
      BY <1>21, <2>3, <3>1
    <3>3. x - Len(node.got) < y - Len(node.got)
      BY <1>22, <1>23
    <3> QED BY <1>12, <3>2, <3>3
  <2> QED BY <2>1, <2>2, <2>3
<1>24. GotInOrder(n2)
  BY <1>17, <1>19, <1>20, <1>23 DEF GotInOrder
<1>25. node.mark <= m /\ \A k \in 1 .. Len(s) : s[k].ts <= m
  <2>1. CASE times = <<>>
    <3>1. m = node.mark
      BY <1>5, <2>1 DEF newMark
    <3>2. Len(s) = 0
      BY <1>8, <2>1
    <3> QED BY <1>1, <1>4, <3>1, <3>2
  <2>2. CASE times # <<>>
    <3>1. m = Last(times)
      BY <1>5, <2>2 DEF newMark
    <3>2. Len(times) \in 1 .. Len(times) /\ m = times[Len(times)]
      BY <1>6, <2>2, <3>1 DEF Last
    <3>3. \A k \in 1 .. Len(times) : k = Len(times) \/ k < Len(times)
      BY <1>6
    <3>4. \A k \in 1 .. Len(times) : times[k] \in Int /\ times[k] <= m
      BY <1>5, <1>6, <3>2, <3>3
    <3> QED BY <1>1, <1>4, <1>6, <1>8, <3>2, <3>4
  <2> QED BY <2>1, <2>2
<1>26. ASSUME NEW x \in 1 .. Len(u)
       PROVE  u[x].ts <= m /\ \E r : r.ts = u[x].ts /\ IsRow(r, chunks) /\ r.val[1] = u[x].val[1]
  <2>1. CASE x \in 1 .. Len(node.got) /\ u[x] = node.got[x]
    <3>1. u[x].ts <= m
      BY <1>1, <1>4, <1>10, <1>14, <1>25, <2>1
    <3> QED BY <1>10, <2>1, <3>1
  <2>2. CASE x - Len(node.got) \in 1 .. Len(s) /\ u[x] = s[x - Len(node.got)]
    <3>1. PICK k \in 1 .. Len(s) : u[x] = s[k]
      BY <2>2
    <3>2. s[k].ts <= m /\ \E r : r.ts = s[k].ts /\ IsRow(r, chunks) /\ r.val[1] = s[k].val[1]
      BY ONLY <1>9, <1>25, k \in 1 .. Len(s)
    <3> QED BY ONLY <3>1, <3>2
  <2> QED BY <1>21, <2>1, <2>2
<1>27. SeenMimo(n2, chunks)
  <2>1. ASSUME NEW g \in 1 .. Len(u)
        PROVE  /\ u[g].ts <= m
               /\ \E a \in 1 .. Len(chunks) : \E i \in 1 .. Len(chunks[a].rows) :
                     chunks[a].rows[i].ts = u[g].ts /\ chunks[a].rows[i].val[1] = u[g].val[1]
    <3>1. PICK r : r.ts = u[g].ts /\ IsRow(r, chunks) /\ r.val[1] = u[g].val[1]
      BY <1>26
    <3>2. PICK a \in 1 .. Len(chunks) : \E i \in 1 .. Len(chunks[a].rows) : r = chunks[a].rows[i]
      BY <3>1 DEF IsRow
    <3> QED BY <1>26, <3>1, <3>2
  <2>2. n2.got = u /\ n2.mark = m
    BY <1>19, <1>20
  <2> QED BY ONLY <2>1, <2>2 DEF SeenMimo
<1> QED BY <1>3, <1>11, <1>13, <1>15, <1>18, <1>24, <1>27

-----------------------------------------------------------------------------
(* A run and its outputs. *)

(* Every row of a topic is at most as late as its last.                    *)
LEMMA LastRow ==
    ASSUME NEW chunks \in Seq(Chunk), chunks # <<>>, InOrder(chunks), Filled(chunks), NEW r, IsRow(r, chunks)
    PROVE  r.ts <= Last(Last(chunks).rows).ts /\ r.ts \in Int /\ Last(Last(chunks).rows).ts \in Int
<1>1. PICK a \in 1 .. Len(chunks) : \E i \in 1 .. Len(chunks[a].rows) : r = chunks[a].rows[i]
  BY DEF IsRow
<1>2. PICK i \in 1 .. Len(chunks[a].rows) : r = chunks[a].rows[i]
  BY <1>1
<1>3. PICK n \in 1 .. Len(chunks) : n = Len(chunks)
  OBVIOUS
<1>4. \A b \in 1 .. Len(chunks) : chunks[b].rows \in Seq(Row) /\ chunks[b].rows # <<>>
  <2>1. \A b \in 1 .. Len(chunks) : chunks[b] \in Chunk
    OBVIOUS
  <2> QED BY <2>1 DEF Chunk, Filled
<1>5. PICK m \in 1 .. Len(chunks[n].rows) : m = Len(chunks[n].rows)
  BY <1>4
<1>6. Last(Last(chunks).rows) = chunks[n].rows[m]
  BY <1>3, <1>5 DEF Last
<1>7. r \in Row /\ chunks[n].rows[m] \in Row
  BY <1>2, <1>4
<1>8. \A x \in Row : x.ts \in Int
  BY DEF Row
<1>9. r.ts <= chunks[n].rows[m].ts
  <2>1. CASE a < n
    BY <1>2, <2>1 DEF InOrder, Before
  <2>2. CASE a = n
    <3>1. RowsInOrder(chunks[n].rows)
      BY DEF InOrder
    <3>2. CASE i < m
      BY <1>2, <2>2, <3>1, <3>2 DEF RowsInOrder, Before
    <3>3. CASE i = m
      BY <1>2, <1>7, <1>8, <2>2, <3>3
    <3>4. i < m \/ i = m
      BY <1>4, <1>5, <2>2
    <3> QED BY <3>2, <3>3, <3>4
  <2>3. a < n \/ a = n
    BY <1>3
  <2> QED BY <2>1, <2>2, <2>3
<1> QED BY <1>6, <1>7, <1>8, <1>9

(* What is in a topic stays where it is when a chunk is committed, and the *)
(* rows are those that were there and the chunk's.                         *)
Extends(c2, chunks) ==
    /\ Len(chunks) <= Len(c2)
    /\ \A a \in 1 .. Len(chunks) : c2[a] = chunks[a]

(* A commit adds at most one chunk, at the end.                            *)
LEMMA CommitExtends ==
    ASSUME NEW chunks \in Seq(Chunk), NEW c \in Chunk
    PROVE  /\ Extends(commitChunk(chunks, c), chunks)
           /\ \A a \in 1 .. Len(commitChunk(chunks, c)) :
                 a \in 1 .. Len(chunks) \/ commitChunk(chunks, c)[a] = c
<1>1. Len(chunks) \in Nat
  OBVIOUS
<1>2. CASE commitChunk(chunks, c) = chunks
  BY <1>1, <1>2 DEF Extends
<1>3. CASE commitChunk(chunks, c) = Append(chunks, c)
  <2>1. Len(Append(chunks, c)) = Len(chunks) + 1 /\ Append(chunks, c)[Len(chunks) + 1] = c
        /\ \A a \in 1 .. Len(chunks) : Append(chunks, c)[a] = chunks[a]
    OBVIOUS
  <2>2. \A a \in 1 .. Len(chunks) + 1 : a \in 1 .. Len(chunks) \/ a = Len(chunks) + 1
    BY <1>1
  <2> QED BY <1>1, <1>3, <2>1, <2>2 DEF Extends
<1> QED BY <1>2, <1>3 DEF commitChunk

(* What a node has seen stays in a topic that only grows.                  *)
LEMMA SeenExtends ==
    ASSUME NEW node, NEW chunks \in Seq(Chunk), NEW c2 \in Seq(Chunk), Extends(c2, chunks)
    PROVE  /\ SeenSiso(node, chunks) => SeenSiso(node, c2)
           /\ SeenMimo(node, chunks) => SeenMimo(node, c2)
<1>1. Len(chunks) \in Nat /\ Len(c2) \in Nat /\ Len(chunks) <= Len(c2) /\ \A a \in 1 .. Len(chunks) : c2[a] = chunks[a]
  BY DEF Extends
<1>2. ASSUME SeenSiso(node, chunks) PROVE SeenSiso(node, c2)
  <2>1. PICK p \in 0 .. Len(chunks) :
          /\ \A a \in 1 .. p : chunks[a].id <= node.mark
          /\ \A g \in 1 .. Len(node.got) :
                \E a \in 1 .. p : \E i \in 1 .. Len(chunks[a].rows) : chunks[a].rows[i] = node.got[g]
    BY <1>2 DEF SeenSiso
  <2>2. p \in 0 .. Len(c2) /\ \A a \in 1 .. p : c2[a] = chunks[a]
    BY <1>1
  <2>3. \A a \in 1 .. p : c2[a].id <= node.mark
    BY <2>1, <2>2
  <2>4. ASSUME NEW g \in 1 .. Len(node.got)
        PROVE  \E a \in 1 .. p : \E i \in 1 .. Len(c2[a].rows) : c2[a].rows[i] = node.got[g]
    <3>1. PICK a \in 1 .. p : \E i \in 1 .. Len(chunks[a].rows) : chunks[a].rows[i] = node.got[g]
      BY <2>1
    <3>2. c2[a] = chunks[a]
      BY <2>2
    <3> QED BY <3>1, <3>2
  <2> QED BY <2>2, <2>3, <2>4 DEF SeenSiso
<1>3. ASSUME SeenMimo(node, chunks) PROVE SeenMimo(node, c2)
  <2>1. ASSUME NEW g \in 1 .. Len(node.got)
        PROVE  /\ node.got[g].ts <= node.mark
               /\ \E a \in 1 .. Len(c2) : \E i \in 1 .. Len(c2[a].rows) :
                     c2[a].rows[i].ts = node.got[g].ts /\ c2[a].rows[i].val[1] = node.got[g].val[1]
    <3>1. PICK a \in 1 .. Len(chunks) : \E i \in 1 .. Len(chunks[a].rows) :
             chunks[a].rows[i].ts = node.got[g].ts /\ chunks[a].rows[i].val[1] = node.got[g].val[1]
      BY <1>3 DEF SeenMimo
    <3>2. c2[a] = chunks[a] /\ a \in 1 .. Len(c2)
      BY <1>1
    <3>3. node.got[g].ts <= node.mark
      BY <1>3 DEF SeenMimo
    <3> QED BY <3>1, <3>2, <3>3
  <2> QED BY <2>1 DEF SeenMimo
<1> QED BY <1>2, <1>3

(* A committed chunk of new rows leaves a topic in order.                  *)
LEMMA CommitInOrder ==
    ASSUME NEW chunks \in Seq(Chunk), InOrder(chunks), Filled(chunks),
           NEW c \in Chunk, c.rows # <<>>, RowsInOrder(c.rows), RowsFilled(c.rows),
           \A a \in 1 .. Len(chunks) : \A i \in 1 .. Len(chunks[a].rows) : \A j \in 1 .. Len(c.rows) :
               chunks[a].rows[i].val[1] # c.rows[j].val[1]
    PROVE  InOrder(commitChunk(chunks, c)) /\ Filled(commitChunk(chunks, c))
<1>1. PICK c2 \in Seq(Chunk) : c2 = commitChunk(chunks, c)
  BY CommitChunkType
<1>2. /\ Len(chunks) <= Len(c2) /\ (\A a \in 1 .. Len(chunks) : c2[a] = chunks[a])
      /\ \A a \in 1 .. Len(c2) : a \in 1 .. Len(chunks) \/ c2[a] = c
  BY <1>1, CommitExtends, SMTT(30) DEF Extends
<1>3. Filled(c2)
  BY <1>2 DEF Filled
<1>4. c.rows \in Seq(Row)
  BY DEF Chunk
<1>5. \A a \in 1 .. Len(c2) : RowsInOrder(c2[a].rows)
  BY <1>2 DEF InOrder
<1>6. CASE c2 = chunks
  BY <1>1, <1>3, <1>6
<1>7. CASE c2 # chunks
  <2>1. c2 = Append(chunks, c) /\ (chunks = <<>> \/ c.rows[1].ts >= Last(Last(chunks).rows).ts)
    BY <1>1, <1>7 DEF commitChunk
  <2>2. Len(c2) = Len(chunks) + 1 /\ Len(chunks) \in Nat
    BY <2>1
  <2>3. ASSUME NEW a \in 1 .. Len(chunks), NEW i \in 1 .. Len(chunks[a].rows), NEW j \in 1 .. Len(c.rows)
        PROVE  Before(chunks[a].rows[i], c.rows[j])
    <3>1. PICK r : r = chunks[a].rows[i]
      OBVIOUS
    <3>2. chunks # <<>> /\ IsRow(r, chunks)
      BY <3>1 DEF IsRow
    <3>3. r.ts <= Last(Last(chunks).rows).ts /\ r.ts \in Int /\ Last(Last(chunks).rows).ts \in Int
      BY <3>2, LastRow
    <3>4. c.rows[1] \in Row /\ c.rows[j] \in Row /\ Len(c.rows) \in Nat /\ 1 \in 1 .. Len(c.rows)
      BY <1>4
    <3>5. c.rows[1].ts \in Int /\ c.rows[j].ts \in Int
      BY <3>4 DEF Row
    <3>6. c.rows[1].ts <= c.rows[j].ts
      <4>1. CASE j = 1
        BY <3>5, <4>1
      <4>2. CASE j # 1
        <5>1. 1 < j
          BY <3>4, <4>2
        <5> QED BY <3>4, <5>1 DEF RowsInOrder, Before
      <4> QED BY <4>1, <4>2
    <3>7. r.ts <= c.rows[j].ts
      BY <2>1, <3>2, <3>3, <3>5, <3>6
    <3> QED BY <3>1, <3>7 DEF Before
  <2>4. ASSUME NEW a \in 1 .. Len(c2), NEW b \in 1 .. Len(c2), a < b,
               NEW i \in 1 .. Len(c2[a].rows), NEW j \in 1 .. Len(c2[b].rows)
        PROVE  Before(c2[a].rows[i], c2[b].rows[j])
    <3>1. a \in 1 .. Len(chunks) /\ c2[a] = chunks[a]
      BY <1>2, <2>2, <2>4
    <3>2. CASE b \in 1 .. Len(chunks)
      <4>1. c2[b] = chunks[b]
        BY <1>2, <3>2
      <4> QED BY <2>4, <3>1, <3>2, <4>1 DEF InOrder
    <3>3. CASE b \notin 1 .. Len(chunks)
      <4>1. c2[b] = c
        BY <1>2, <3>3
      <4> QED BY <2>3, <3>1, <4>1
    <3> QED BY <3>2, <3>3
  <2>5. InOrder(c2)
    BY <1>5, <2>4 DEF InOrder
  <2> QED BY <1>1, <1>3, <2>5
<1> QED BY <1>6, <1>7

(* What the transform emits is in the order of the samples, and from them. *)
LEMMA EmittedFacts ==
    ASSUME NEW node, NEW s \in Seq(Row), s # <<>>, RowsInOrder(s), RowsFilled(s)
    PROVE  /\ emitted(node, s) \in Seq(Row) /\ RowsInOrder(emitted(node, s)) /\ RowsFilled(emitted(node, s))
           /\ \A i \in 1 .. Len(emitted(node, s)) : \E j \in 1 .. Len(s) : emitted(node, s)[i] = s[j]
<1>1. PICK t : t = Tail(s)
  OBVIOUS
<1>2. t \in Seq(Row) /\ Len(s) \in Nat /\ Len(t) = Len(s) - 1 /\ \A i \in 1 .. Len(t) : t[i] = s[i + 1]
  BY <1>1
<1>3. \A i \in 1 .. Len(t) : i + 1 \in 1 .. Len(s)
  BY <1>2
<1>4. \A i, j \in 1 .. Len(t) : i < j => i + 1 < j + 1
  BY <1>2
<1>5. RowsInOrder(t) /\ RowsFilled(t) /\ \A i \in 1 .. Len(t) : \E j \in 1 .. Len(s) : t[i] = s[j]
  <2>1. RowsInOrder(t)
    BY <1>2, <1>3, <1>4 DEF RowsInOrder
  <2>2. RowsFilled(t)
    BY <1>2, <1>3 DEF RowsFilled
  <2> QED BY <1>2, <1>3, <2>1, <2>2
<1> QED BY <1>1, <1>2, <1>5 DEF emitted

(* The topics after a run: the node's outputs are longer, the others the   *)
(* same.                                                                   *)
LEMMA RunSealed ==
    ASSUME NEW node \in NodeT, node.inputs # <<>>, NEW sl \in [Topics -> Seq(Chunk)], nextChunk \in Nat \ {0},
           NEW s, s = newSamples(node, sl), NEW rows, rows = IF s = <<>> THEN <<>> ELSE emitted(node, s),
           rows \in Seq(Row)
    PROVE  /\ runNode(node, sl).node = Ran(node, s, newMark(node, sl))
           /\ \A t \in Topics \ ToSet(node.outs) : runNode(node, sl).sealed[t] = sl[t]
           /\ rows = <<>> => runNode(node, sl).sealed = sl
           /\ rows # <<>> => \A t \in ToSet(node.outs) : \E c \in Chunk :
                 c.rows = rows /\ runNode(node, sl).sealed[t] = commitChunk(sl[t], c)
<1> DEFINE index(t) == CHOOSE k \in DOMAIN node.outs : node.outs[k] = t
           sealed2 == IF rows = <<>> THEN sl
                      ELSE [t \in Topics |-> IF t \in ToSet(node.outs)
                            THEN commitChunk(sl[t], [id |-> nextChunk + index(t) - 1, rows |-> rows])
                            ELSE sl[t]]
<1>1. runNode(node, sl).node = Ran(node, s, newMark(node, sl)) /\ runNode(node, sl).sealed = sealed2
  BY DEF runNode, Ran
<1>2. node.outs \in Seq(Topics) /\ DOMAIN node.outs = 1 .. Len(node.outs)
  BY DEF NodeT
<1>3. ASSUME NEW t \in ToSet(node.outs)
      PROVE  t \in Topics /\ [id |-> nextChunk + index(t) - 1, rows |-> rows] \in Chunk
  <2>1. \E k \in DOMAIN node.outs : node.outs[k] = t
    BY <1>3 DEF ToSet
  <2>2. index(t) \in 1 .. Len(node.outs)
    BY <1>2, <2>1
  <2> HIDE DEF index
  <2>3. nextChunk + index(t) - 1 \in Nat
    BY <1>2, <2>2
  <2> QED BY <1>2, <2>1, <2>3 DEF Chunk
<1> HIDE DEF index
<1>4. ASSUME rows # <<>>, NEW t \in ToSet(node.outs)
      PROVE  \E c \in Chunk : c.rows = rows /\ sealed2[t] = commitChunk(sl[t], c)
  <2>1. PICK c : c = [id |-> nextChunk + index(t) - 1, rows |-> rows]
    OBVIOUS
  <2>2. c \in Chunk /\ c.rows = rows /\ t \in Topics
    BY <1>3, <2>1
  <2>3. sealed2[t] = commitChunk(sl[t], c)
    BY <1>4, <2>1, <2>2
  <2> QED BY <2>2, <2>3
<1>5. \A t \in Topics \ ToSet(node.outs) : sealed2[t] = sl[t]
  OBVIOUS
<1>6. rows = <<>> => sealed2 = sl
  OBVIOUS
<1> HIDE DEF sealed2
<1> QED BY <1>1, <1>4, <1>5, <1>6

(* A run of a node whose first input and outputs are in order calls the    *)
(* transform in order and leaves its outputs in order.                     *)
LEMMA RunSeq ==
    ASSUME NEW node \in NodeT, node.inputs # <<>>, NEW sl \in [Topics -> Seq(Chunk)], nextChunk \in Nat \ {0},
           InOrder(sl[node.inputs[1]]), Filled(sl[node.inputs[1]]), node.inputs[1] \notin ToSet(node.outs),
           \A t \in ToSet(node.outs) : InOrder(sl[t]) /\ Filled(sl[t]),
           NodeSeq(node, sl)
    PROVE  /\ NodeSeq(runNode(node, sl).node, runNode(node, sl).sealed)
           /\ \A t \in ToSet(node.outs) :
                 InOrder(runNode(node, sl).sealed[t]) /\ Filled(runNode(node, sl).sealed[t])
<1>1. PICK s \in Seq(Row) : s = newSamples(node, sl)
  BY SamplesType
<1>2. PICK m \in Int : m = newMark(node, sl)
  BY SamplesType
<1>3. PICK n2 : n2 = Ran(node, s, m)
  OBVIOUS
<1>4. n2.mark = m /\ n2.got = node.got \o s /\ SameShape(n2, node) /\ node.got \in Seq(Row)
  BY <1>3, RanFields
<1>5. /\ RowsInOrder(s) /\ RowsFilled(s)
      /\ \A i \in 1 .. Len(node.got) : \A j \in 1 .. Len(s) : Before(node.got[i], s[j])
      /\ GotInOrder(n2)
      /\ IF node.mimo THEN SeenMimo(n2, sl[node.inputs[1]]) ELSE SeenSiso(n2, sl[node.inputs[1]])
  <2>1. CASE node.mimo
    BY <1>1, <1>2, <1>3, <2>1, MimoRun DEF NodeSeq
  <2>2. CASE ~node.mimo
    BY <1>1, <1>2, <1>3, <2>2, SisoRun DEF NodeSeq
  <2> QED BY <2>1, <2>2
<1>6. PICK rows : rows = IF s = <<>> THEN <<>> ELSE emitted(node, s)
  OBVIOUS
<1>7. /\ rows \in Seq(Row) /\ RowsInOrder(rows) /\ RowsFilled(rows)
      /\ \A i \in 1 .. Len(rows) : \E j \in 1 .. Len(s) : rows[i] = s[j]
  <2>1. CASE s = <<>>
    BY <1>6, <2>1 DEF RowsInOrder, RowsFilled
  <2>2. CASE s # <<>>
    BY <1>1, <1>5, <1>6, <2>2, EmittedFacts
  <2> QED BY <2>1, <2>2
<1>8. PICK sl2 : sl2 = runNode(node, sl).sealed
  OBVIOUS
<1>9. /\ runNode(node, sl).node = n2
      /\ \A t \in Topics \ ToSet(node.outs) : sl2[t] = sl[t]
      /\ rows = <<>> => sl2 = sl
      /\ rows # <<>> => \A t \in ToSet(node.outs) : \E c \in Chunk : c.rows = rows /\ sl2[t] = commitChunk(sl[t], c)
  BY <1>1, <1>2, <1>3, <1>6, <1>7, <1>8, RunSealed, SMTT(30)
<1>10. \A t \in ToSet(node.outs) : FromGot(node, sl[t]) /\ t \in Topics
  <2>1. node.outs \in Seq(Topics)
    BY DEF NodeT
  <2> QED BY <2>1, SMTT(30) DEF NodeSeq, ToSet
<1>11. PICK u : u = node.got \o s
  OBVIOUS
<1>12. /\ Len(u) = Len(node.got) + Len(s) /\ (\A i \in 1 .. Len(node.got) : u[i] = node.got[i])
       /\ \A j \in 1 .. Len(s) : u[Len(node.got) + j] = s[j]
  BY <1>1, <1>4, <1>11, ConcatFacts
<1>13. Len(node.got) \in Nat /\ Len(s) \in Nat
  BY <1>1, <1>4
<1>14. /\ \A i \in 1 .. Len(node.got) : \E g \in 1 .. Len(u) : u[g] = node.got[i]
       /\ \A j \in 1 .. Len(s) : \E g \in 1 .. Len(u) : u[g] = s[j]
  <2>1. \A i \in 1 .. Len(node.got) : i \in 1 .. Len(u)
    BY <1>12, <1>13
  <2>2. \A j \in 1 .. Len(s) : Len(node.got) + j \in 1 .. Len(u)
    BY <1>12, <1>13
  <2> QED BY <1>12, <2>1, <2>2
<1>15. ASSUME NEW t \in ToSet(node.outs)
       PROVE  InOrder(sl2[t]) /\ Filled(sl2[t]) /\ FromGot(n2, sl2[t])
  <2>1. PICK chunks \in Seq(Chunk) : chunks = sl[t]
    BY <1>10
  <2>2. InOrder(chunks) /\ Filled(chunks) /\ FromGot(node, chunks)
    BY <1>10, <2>1
  <2>3. \A a \in 1 .. Len(chunks) : \A i \in 1 .. Len(chunks[a].rows) :
          \E g \in 1 .. Len(u) : chunks[a].rows[i] = u[g]
    <3>1. ASSUME NEW a \in 1 .. Len(chunks), NEW i \in 1 .. Len(chunks[a].rows)
          PROVE  \E g \in 1 .. Len(u) : chunks[a].rows[i] = u[g]
      <4>1. PICK x \in 1 .. Len(node.got) : chunks[a].rows[i] = node.got[x]
        BY <2>2 DEF FromGot
      <4>2. PICK g \in 1 .. Len(u) : u[g] = node.got[x]
        BY <1>14
      <4> QED BY <4>1, <4>2
    <3> QED BY <3>1
  <2>4. CASE rows = <<>>
    <3>1. sl2[t] = chunks
      BY <1>9, <2>1, <2>4
    <3>2. n2.got = u
      BY <1>4, <1>11
    <3>3. FromGot(n2, chunks)
      BY ONLY <2>3, <3>2 DEF FromGot
    <3> QED BY <2>2, <3>1, <3>3
  <2>5. CASE rows # <<>>
    <3>1. PICK c \in Chunk : c.rows = rows /\ sl2[t] = commitChunk(chunks, c)
      BY <1>9, <2>1, <2>5
    <3>2. ASSUME NEW a \in 1 .. Len(chunks), NEW i \in 1 .. Len(chunks[a].rows), NEW j \in 1 .. Len(c.rows)
          PROVE  chunks[a].rows[i].val[1] # c.rows[j].val[1]
      <4>1. PICK x \in 1 .. Len(node.got) : chunks[a].rows[i] = node.got[x]
        BY <2>2 DEF FromGot
      <4>2. PICK y \in 1 .. Len(s) : c.rows[j] = s[y]
        BY <1>7, <3>1
      <4>3. Before(node.got[x], s[y])
        BY <1>5
      <4> QED BY <4>1, <4>2, <4>3 DEF Before
    <3>3. InOrder(sl2[t]) /\ Filled(sl2[t])
      BY <1>7, <2>2, <2>5, <3>1, <3>2, CommitInOrder
    <3>4. PICK c2 : c2 = sl2[t]
      OBVIOUS
    <3>5. /\ \A a \in 1 .. Len(chunks) : c2[a] = chunks[a]
          /\ \A a \in 1 .. Len(c2) : a \in 1 .. Len(chunks) \/ c2[a] = c
      BY <3>1, <3>4, CommitExtends DEF Extends
    <3>6. ASSUME NEW a \in 1 .. Len(c2), NEW i \in 1 .. Len(c2[a].rows)
          PROVE  \E g \in 1 .. Len(u) : c2[a].rows[i] = u[g]
      <4>1. CASE a \in 1 .. Len(chunks)
        BY <2>3, <3>5, <4>1
      <4>2. CASE c2[a] = c
        <5>1. PICK j \in 1 .. Len(s) : c2[a].rows[i] = s[j]
          BY <1>7, <3>1, <4>2
        <5>2. PICK g \in 1 .. Len(u) : u[g] = s[j]
          BY <1>14
        <5> QED BY <5>1, <5>2
      <4> QED BY <3>5, <4>1, <4>2
    <3>7. FromGot(n2, c2)
      <4>1. n2.got = u
        BY <1>4, <1>11
      <4> QED BY ONLY <3>6, <4>1 DEF FromGot
    <3> QED BY <3>3, <3>4, <3>7
  <2> QED BY <2>4, <2>5
<1>16. node.inputs[1] \in Topics
  BY DEF NodeT
<1>17. sl2[node.inputs[1]] = sl[node.inputs[1]]
  BY <1>9, <1>16
<1>18. n2.inputs = node.inputs /\ n2.outs = node.outs
  BY <1>4 DEF SameShape
<1>19. n2.mimo = node.mimo
  BY <1>4 DEF SameShape
<1>20. IF n2.mimo THEN SeenMimo(n2, sl2[n2.inputs[1]]) ELSE SeenSiso(n2, sl2[n2.inputs[1]])
  BY <1>5, <1>17, <1>18, <1>19
<1>21. NodeSeq(n2, sl2)
  BY <1>5, <1>15, <1>18, <1>20 DEF NodeSeq
<1> QED BY <1>8, <1>9, <1>15, <1>21

-----------------------------------------------------------------------------
(* The nodes a node depends on. *)

(* The nodes that write what the nodes of S read.                          *)
Producers(S) == {output_topic_to_node[t] : t \in UNION {ToSet(nodes[n].inputs) : n \in S}} \ {0}

(* S depends on no other node.                                             *)
ProducersIn(S) == \A n \in S : \A t \in ToSet(nodes[n].inputs) : output_topic_to_node[t] # 0 => output_topic_to_node[t] \in S

(* The producers of what a node reads are older nodes.                     *)
LEMMA ProducersOlder ==
    ASSUME GraphInv, NEW n \in DOMAIN nodes, NEW t \in ToSet(nodes[n].inputs), output_topic_to_node[t] # 0
    PROVE  /\ output_topic_to_node[t] \in DOMAIN nodes /\ output_topic_to_node[t] < n
           /\ t \in ToSet(nodes[output_topic_to_node[t]].outs)
<1>1. DOMAIN nodes \subseteq NodeIds
  BY GraphInvOK DEF GraphOK
<1>2. t \in Topics
  BY DEF GraphInv, TypeOK, ToSet
<1>3. PICK u : u = output_topic_to_node[t]
  OBVIOUS
<1>4. u \in DOMAIN nodes /\ t \in ToSet(nodes[u].outs)
  BY <1>2, <1>3, ProducerFacts
<1>5. n \in downstream_of[u]
  BY <1>1, <1>4 DEF GraphInv, IndexesAgree, Exists
<1>6. u < n
  BY <1>1, <1>4, <1>5 DEF GraphInv, Older
<1> QED BY <1>3, <1>4, <1>6

(* withUpstream: the nodes given, all they depend on, and no others.       *)
LEMMA UpstreamFacts ==
    ASSUME GraphInv, NEW A
    PROVE  /\ A \cap DOMAIN nodes \subseteq withUpstream(A)
           /\ withUpstream(A) \subseteq DOMAIN nodes
           /\ ProducersIn(withUpstream(A))
           /\ \A Z \in SUBSET DOMAIN nodes : A \cap DOMAIN nodes \subseteq Z /\ ProducersIn(Z) => withUpstream(A) \subseteq Z
<1>1. PICK ids : ids = DOMAIN nodes
  OBVIOUS
<1>2. PICK N \in Nat : N = MaxNodes
  BY DerivedBoundAssumption
<1> DEFINE X == SUBSET ids
           x0 == A \cap DOMAIN nodes
           g == [k \in 1 .. N |-> [S \in X |-> S \cup Producers(S)]]
           Body(h) == [k \in 0 .. N |-> IF k = 0 THEN x0 ELSE h[k - 1] \cup Producers(h[k - 1])]
           reach == CHOOSE h : h = Body(h)
<1>3. withUpstream(A) = reach[N]
  BY <1>2 DEF withUpstream, Producers
<1>4. x0 \in X
  BY <1>1
<1>5. ASSUME NEW S \in X PROVE S \cup Producers(S) \in X
  BY <1>1, ProducersOlder DEF Producers
<1>6. g \in [1 .. N -> [X -> X]]
  BY <1>5
<1>7. \A k \in 1 .. N : \A S \in X : g[k][S] = S \cup Producers(S)
  OBVIOUS
<1> HIDE DEF X, x0, g
<1>8. PICK f : Iterated(f, X, N, x0, g)
  BY ONLY <1>2, <1>4, <1>6, Iterates
<1>9. f \in [0 .. N -> X] /\ f[0] = x0 /\ \A k \in 1 .. N : f[k] = f[k - 1] \cup Producers(f[k - 1])
  <2>1. f \in [0 .. N -> X] /\ f[0] = x0 /\ \A k \in 1 .. N : f[k] = g[k][f[k - 1]]
    BY <1>8 DEF Iterated
  <2>2. ASSUME NEW k \in 1 .. N PROVE f[k] = f[k - 1] \cup Producers(f[k - 1])
    <3>1. k - 1 \in 0 .. N /\ f[k - 1] \in X
      BY <1>2, <2>1
    <3> QED BY <1>7, <2>1, <3>1
  <2> QED BY <2>1, <2>2
<1>10. f = Body(f)
  <2>1. \A k \in 0 .. N : f[k] = IF k = 0 THEN x0 ELSE f[k - 1] \cup Producers(f[k - 1])
    <3>1. \A k \in 0 .. N : k = 0 \/ k \in 1 .. N
      BY <1>2
    <3> QED BY <1>9, <3>1
  <2> QED BY <1>9, <2>1
<1>11. reach = Body(reach)
  <2> HIDE DEF Body
  <2> QED BY <1>10
<1>12. reach[N] = f[N]
  <2> HIDE DEF reach
  <2>1. \A k \in 0 .. N : reach[k] = IF k = 0 THEN x0 ELSE reach[k - 1] \cup Producers(reach[k - 1])
    BY <1>11
  <2> DEFINE S == {k \in 0 .. N : reach[k] = f[k]}
  <2>2. 0 \in S
    <3>1. 0 \in 0 .. N
      BY <1>2
    <3>2. reach[0] = x0
      BY <2>1, <3>1
    <3> QED BY <1>9, <3>1, <3>2
  <2>3. ASSUME NEW k \in 0 .. N - 1, k \in S PROVE k + 1 \in S
    <3>1. k + 1 \in 1 .. N /\ k + 1 \in 0 .. N /\ k + 1 # 0 /\ (k + 1) - 1 = k
      BY <1>2
    <3>2. /\ reach[k + 1] = reach[(k + 1) - 1] \cup Producers(reach[(k + 1) - 1])
          /\ f[k + 1] = f[(k + 1) - 1] \cup Producers(f[(k + 1) - 1])
      BY <1>9, <2>1, <3>1
    <3>3. reach[k + 1] = reach[k] \cup Producers(reach[k]) /\ f[k + 1] = f[k] \cup Producers(f[k])
      BY <3>1, <3>2
    <3>4. reach[k] = f[k]
      BY <2>3
    <3> QED BY <3>1, <3>3, <3>4
  <2>4. 0 .. N \subseteq S
    <3> HIDE DEF S
    <3> QED BY <1>2, <2>2, <2>3, IntervalInduction
  <2>5. N \in 0 .. N
    BY <1>2
  <2> QED BY <2>4, <2>5
<1> HIDE DEF reach, Body
<1>13. PICK W : W = withUpstream(A)
  OBVIOUS
<1>14. W = f[N]
  BY <1>3, <1>12, <1>13
<1>15. \A k \in 0 .. N : x0 \subseteq f[k] /\ \A j \in 0 .. N : j <= k => f[j] \subseteq f[k]
  <2> DEFINE S == {k \in 0 .. N : x0 \subseteq f[k] /\ \A j \in 0 .. N : j <= k => f[j] \subseteq f[k]}
  <2>1. 0 \in S
    BY <1>2, <1>9
  <2>2. ASSUME NEW k \in 0 .. N - 1, k \in S PROVE k + 1 \in S
    <3>1. k + 1 \in 1 .. N /\ k + 1 \in 0 .. N /\ (k + 1) - 1 = k
      BY <1>2
    <3>2. f[k] \subseteq f[k + 1]
      BY <1>9, <3>1
    <3>3. \A j \in 0 .. N : j <= k + 1 => j <= k \/ j = k + 1
      BY <1>2
    <3> QED BY <2>2, <3>1, <3>2, <3>3
  <2>3. 0 .. N \subseteq S
    <3> HIDE DEF S
    <3> QED BY <1>2, <2>1, <2>2, IntervalInduction
  <2> QED BY <2>3
<1>16. \A n \in ids : n \in 1 .. N
  BY <1>1, <1>2, GraphInvOK DEF GraphOK, NodeIds
<1>17. \A k \in 0 .. N : \A n \in f[k] : n \in ids /\ n \in f[N - n]
  <2> DEFINE S == {k \in 0 .. N : \A n \in f[k] : n \in ids /\ n \in f[N - n]}
  <2>1. 0 \in S
    <3>1. ASSUME NEW n \in f[0] PROVE n \in ids /\ n \in f[N - n]
      <4>1. n \in ids /\ n \in x0
        BY <1>4, <1>9 DEF X
      <4>2. N - n \in 0 .. N
        BY <1>2, <1>16, <4>1
      <4> QED BY <1>15, <4>1, <4>2
    <3> QED BY <1>2, <3>1
  <2>2. ASSUME NEW k \in 0 .. N - 1, k \in S PROVE k + 1 \in S
    <3>1. k \in 0 .. N /\ k + 1 \in 1 .. N /\ k + 1 \in 0 .. N /\ (k + 1) - 1 = k
      BY <1>2
    <3>2. f[k + 1] = f[k] \cup Producers(f[k])
      <4>1. f[k + 1] = f[(k + 1) - 1] \cup Producers(f[(k + 1) - 1])
        BY <1>9, <3>1
      <4> QED BY <3>1, <4>1
    <3>3. ASSUME NEW n \in Producers(f[k]) PROVE n \in ids /\ n \in f[N - n]
      <4>1. PICK m \in f[k] : \E t \in ToSet(nodes[m].inputs) : n = output_topic_to_node[t] /\ n # 0
        BY <3>3 DEF Producers
      <4>2. m \in ids /\ m \in f[N - m]
        BY <2>2, <4>1
      <4>3. PICK t \in ToSet(nodes[m].inputs) : n = output_topic_to_node[t] /\ n # 0
        BY <4>1
      <4>4. n \in ids /\ n < m
        BY <1>1, <4>2, <4>3, ProducersOlder
      <4>5. n \in 1 .. N /\ m \in 1 .. N
        BY <1>16, <4>2, <4>4
      <4>6. PICK j : j = N - m + 1
        OBVIOUS
      <4>7. j \in 1 .. N /\ j \in 0 .. N /\ j - 1 = N - m /\ N - n \in 0 .. N /\ j <= N - n
        BY <1>2, <4>4, <4>5, <4>6
      <4>8. n \in Producers(f[N - m])
        BY <4>2, <4>3 DEF Producers
      <4>9. n \in f[j]
        <5>1. f[j] = f[j - 1] \cup Producers(f[j - 1])
          BY <1>9, <4>7
        <5> QED BY <4>7, <4>8, <5>1
      <4>10. f[j] \subseteq f[N - n]
        BY <1>15, <4>7
      <4> QED BY <4>4, <4>9, <4>10
    <3>4. \A n \in f[k] : n \in ids /\ n \in f[N - n]
      BY <2>2
    <3> QED BY <3>1, <3>2, <3>3, <3>4
  <2>3. 0 .. N \subseteq S
    <3> HIDE DEF S
    <3> QED BY <1>2, <2>1, <2>2, IntervalInduction
  <2> QED BY <2>3
<1>18. N \in 0 .. N
  BY <1>2
<1>19. x0 \subseteq W /\ W \subseteq ids
  BY <1>14, <1>15, <1>17, <1>18
<1>20. ProducersIn(W)
  <2>1. ASSUME NEW m \in W, NEW t \in ToSet(nodes[m].inputs), output_topic_to_node[t] # 0
        PROVE  output_topic_to_node[t] \in W
    <3>1. m \in ids /\ m \in f[N - m]
      BY <1>14, <1>17, <1>18
    <3>2. PICK j : j = N - m + 1
      OBVIOUS
    <3>3. j \in 1 .. N /\ j \in 0 .. N /\ j - 1 = N - m /\ j <= N
      BY <1>2, <1>16, <3>1, <3>2
    <3>4. output_topic_to_node[t] \in Producers(f[N - m])
      BY <2>1, <3>1 DEF Producers
    <3>5. f[j] = f[j - 1] \cup Producers(f[j - 1])
      BY <1>9, <3>3
    <3>6. f[j] \subseteq f[N]
      BY <1>15, <1>18, <3>3
    <3> QED BY <1>14, <3>3, <3>4, <3>5, <3>6
  <2> QED BY <2>1 DEF ProducersIn
<1>21. ASSUME NEW Z \in SUBSET ids, x0 \subseteq Z, ProducersIn(Z) PROVE W \subseteq Z
  <2> DEFINE S == {k \in 0 .. N : f[k] \subseteq Z}
  <2>1. 0 \in S
    BY <1>2, <1>9, <1>21
  <2>2. ASSUME NEW k \in 0 .. N - 1, k \in S PROVE k + 1 \in S
    <3>1. k + 1 \in 1 .. N /\ k + 1 \in 0 .. N /\ (k + 1) - 1 = k
      BY <1>2
    <3>2. f[k + 1] = f[k] \cup Producers(f[k])
      <4>1. f[k + 1] = f[(k + 1) - 1] \cup Producers(f[(k + 1) - 1])
        BY <1>9, <3>1
      <4> QED BY <3>1, <4>1
    <3>3. f[k] \subseteq Z
      BY <2>2
    <3>4. Producers(f[k]) \subseteq Z
      BY <1>21, <3>3 DEF Producers, ProducersIn
    <3> QED BY <3>1, <3>2, <3>3, <3>4
  <2>3. 0 .. N \subseteq S
    <3> HIDE DEF S
    <3> QED BY <1>2, <2>1, <2>2, IntervalInduction
  <2> QED BY <1>14, <1>18, <2>3
<1> QED BY <1>1, <1>13, <1>19, <1>20, <1>21 DEF x0

(* The nodes below one, and the topics they write.                         *)
LEMMA BelowNewer ==
    ASSUME GraphInv, NEW n \in DOMAIN nodes, NEW m \in below(n)
    PROVE  m \in DOMAIN nodes /\ n < m
<1>1. m \in DOMAIN nodes /\ m # n /\ n \in withUpstream({m})
  BY DEF below
<1>2. PICK ids : ids = DOMAIN nodes
  OBVIOUS
<1>3. \A x \in ids : x \in Int
  BY <1>2, GraphInvOK DEF GraphOK, NodeIds
<1>4. PICK Z : Z = {x \in ids : x <= m}
  OBVIOUS
<1>5. Z \in SUBSET DOMAIN nodes /\ {m} \cap DOMAIN nodes \subseteq Z
  BY <1>1, <1>2, <1>3, <1>4
<1>6. ProducersIn(Z)
  <2>1. ASSUME NEW x \in Z, NEW t \in ToSet(nodes[x].inputs), output_topic_to_node[t] # 0
        PROVE  output_topic_to_node[t] \in Z
    <3>1. PICK u : u = output_topic_to_node[t]
      OBVIOUS
    <3>2. u \in ids /\ u < x
      BY <1>2, <1>4, <2>1, <3>1, ProducersOlder
    <3>3. u <= m
      BY <1>1, <1>2, <1>3, <1>4, <3>2
    <3> QED BY <1>4, <3>1, <3>2, <3>3
  <2> QED BY <2>1 DEF ProducersIn
<1>7. n \in Z
  BY <1>1, <1>5, <1>6, UpstreamFacts
<1>8. n <= m
  BY <1>4, <1>7
<1> QED BY <1>1, <1>2, <1>3, <1>8

(* Who reads an output of a node, or of a node below it, is below it.      *)
LEMMA BelowReaders ==
    ASSUME GraphInv, NEW n \in DOMAIN nodes, NEW k \in DOMAIN nodes, NEW m \in DOMAIN nodes, m = n \/ m \in below(n),
           NEW t \in ToSet(nodes[k].inputs), t \in ToSet(nodes[m].outs)
    PROVE  k \in below(n)
<1>1. t \in Topics
  BY SMTT(30) DEF GraphInv, TypeOK, ToSet
<1>2. output_topic_to_node[t] = m /\ output_topic_to_node[t] # 0
  BY <1>1, ProducerFacts
<1>3. m < k
  BY <1>2, ProducersOlder
<1>4. n \in Int /\ m \in Int /\ k \in Int
  BY GraphInvOK DEF GraphOK, NodeIds
<1>5. n <= m
  BY <1>4, BelowNewer
<1>6. k # n
  BY <1>3, <1>4, <1>5
<1>7. PICK W : W = withUpstream({k})
  OBVIOUS
<1>8. k \in W /\ ProducersIn(W) /\ W \in SUBSET DOMAIN nodes
  BY <1>7, UpstreamFacts
<1>9. m \in W
  BY <1>2, <1>8 DEF ProducersIn
<1>10. n \in W
  <2>1. CASE m = n
    BY <1>9, <2>1
  <2>2. CASE m \in below(n)
    <3>1. n \in withUpstream({m})
      BY <2>2 DEF below
    <3>2. {m} \cap DOMAIN nodes \subseteq W
      BY <1>9
    <3> QED BY <1>8, <3>1, <3>2, UpstreamFacts
  <2> QED BY <2>1, <2>2
<1> QED BY <1>6, <1>7, <1>10 DEF below

(* The topics of a node.                                                   *)
LEMMA NodeTopics ==
    ASSUME GraphInv, NEW n \in DOMAIN nodes
    PROVE  /\ nodes[n] \in NodeT /\ nodes[n].inputs # <<>>
           /\ nodes[n].inputs[1] \in ToSet(nodes[n].inputs) /\ nodes[n].inputs[1] \in Topics
           /\ ToSet(nodes[n].inputs) \subseteq Topics /\ ToSet(nodes[n].outs) \subseteq Topics
           /\ ToSet(nodes[n].inputs) \cap ToSet(nodes[n].outs) = {}
           /\ \A t \in ToSet(nodes[n].inputs) \cup ToSet(nodes[n].outs) : t < nextTopic
<1>1. nodes[n] \in NodeT /\ nodes[n].inputs # <<>>
  BY DEF GraphInv, TypeOK, NodeT, TopicsExist, TopicsOK
<1>2. PICK ins \in Seq(Topics) : ins = nodes[n].inputs
  BY <1>1 DEF NodeT
<1>3. PICK outs \in Seq(Topics) : outs = nodes[n].outs
  BY <1>1 DEF NodeT
<1>4. ins[1] \in ToSet(ins) /\ ins[1] \in Topics /\ ToSet(ins) \subseteq Topics /\ ToSet(outs) \subseteq Topics
  <2>1. 1 \in DOMAIN ins
    BY <1>1, <1>2
  <2> QED BY <2>1 DEF ToSet
<1>5. ASSUME NEW t \in ToSet(ins), t \in ToSet(outs) PROVE FALSE
  <2>1. t \in Topics
    BY <1>4
  <2>2. output_topic_to_node[t] = n /\ output_topic_to_node[t] # 0
    BY <1>3, <1>5, <2>1, ProducerFacts
  <2>3. n < n
    BY <1>2, <2>2, ProducersOlder
  <2>4. n \in Int
    BY GraphInvOK DEF GraphOK, NodeIds
  <2> QED BY <2>3, <2>4
<1>6. \A t \in ToSet(ins) \cup ToSet(outs) : t < nextTopic
  <2>1. TopicsOK(nodes[n])
    BY DEF GraphInv, TopicsExist
  <2> QED BY <1>2, <1>3, <2>1 DEF TopicsOK, ToSet
<1> QED BY <1>1, <1>2, <1>3, <1>4, <1>5, <1>6

(* An undisturbed node has nothing to do with a replayed topic.            *)
LEMMA UndisturbedTopics ==
    ASSUME GraphInv, SeqInv, NEW n \in Undisturbed
    PROVE  /\ n \in DOMAIN nodes /\ NodeSeq(nodes[n], sealed)
           /\ nodes[n].inputs[1] \in Topics \ replayed /\ ToSet(nodes[n].outs) \subseteq Topics \ replayed
           /\ ToSet(nodes[n].inputs) \cap replayed = {}
<1>1. n \in DOMAIN nodes /\ ToSet(nodes[n].outs) \cap replayed = {}
  BY DEF Undisturbed
<1>2. ToSet(nodes[n].outs) # {}
  <2>1. nodes[n].outs \in Seq(Topics) /\ nodes[n].outs # <<>>
    BY <1>1, NodeTopics DEF NodeT, SeqInv, OutsOwned
  <2>2. 1 \in DOMAIN nodes[n].outs
    BY <2>1
  <2> QED BY <2>2 DEF ToSet
<1>3. ToSet(nodes[n].inputs) \cap replayed = {}
  BY <1>1, <1>2 DEF SeqInv, ReplayedClosed
<1>4. NodeSeq(nodes[n], sealed)
  BY DEF SeqInv, NodesSeq
<1> QED BY <1>1, <1>3, <1>4, NodeTopics

(* A node that was not run has seen what it had seen, when its first input *)
(* has only grown and no other node writes its outputs.                    *)
SameSeen(b, a) ==
    b.mimo = a.mimo /\ b.inputs = a.inputs /\ b.outs = a.outs /\ b.mark = a.mark /\ b.got = a.got

(* A node that did not run keeps the invariant when its outputs are left   *)
(* alone.                                                                  *)
LEMMA NodeSeqKept ==
    ASSUME NEW a, NEW b, SameSeen(b, a), NEW sl \in [Topics -> Seq(Chunk)], NEW sl2 \in [Topics -> Seq(Chunk)],
           a.inputs[1] \in Topics, Extends(sl2[a.inputs[1]], sl[a.inputs[1]]),
           \A t \in ToSet(a.outs) : sl2[t] = sl[t], NodeSeq(a, sl)
    PROVE  NodeSeq(b, sl2)
<1>1. PICK x \in Topics : x = a.inputs[1] /\ x = b.inputs[1]
  BY DEF SameSeen
<1>2. b.got = a.got /\ b.mark = a.mark /\ b.outs = a.outs
  BY DEF SameSeen
<1>3. b.mimo = a.mimo
  BY DEF SameSeen
<1>4. GotInOrder(b)
  BY <1>2, <1>3 DEF NodeSeq, GotInOrder
<1>5. /\ SeenSiso(a, sl[x]) => SeenSiso(a, sl2[x])
      /\ SeenMimo(a, sl[x]) => SeenMimo(a, sl2[x])
  BY <1>1, SeenExtends
<1>6. /\ SeenSiso(a, sl2[x]) => SeenSiso(b, sl2[x])
      /\ SeenMimo(a, sl2[x]) => SeenMimo(b, sl2[x])
  BY <1>2 DEF SeenSiso, SeenMimo
<1>7. IF b.mimo THEN SeenMimo(b, sl2[x]) ELSE SeenSiso(b, sl2[x])
  <2>1. IF a.mimo THEN SeenMimo(a, sl[x]) ELSE SeenSiso(a, sl[x])
    BY <1>1 DEF NodeSeq
  <2> QED BY <1>3, <1>5, <1>6, <2>1
<1>8. ASSUME NEW t \in ToSet(b.outs) PROVE FromGot(b, sl2[t])
  <2>1. t \in ToSet(a.outs) /\ sl2[t] = sl[t]
    BY <1>2, <1>8
  <2>2. FromGot(a, sl[t])
    BY <2>1 DEF NodeSeq
  <2> QED BY <1>2, <2>1, <2>2 DEF FromGot
<1> QED BY <1>1, <1>4, <1>7, <1>8 DEF NodeSeq

-----------------------------------------------------------------------------
(* Steps that write nothing. *)

(* Nodes are removed or made dirty, and nothing is written.                *)
QuietStep ==
    /\ sealed' = sealed /\ replayed' = replayed /\ nextTopic' = nextTopic
    /\ pending' = pending /\ sealedRows' = sealedRows
    /\ DOMAIN nodes' \subseteq DOMAIN nodes
    /\ \A n \in DOMAIN nodes' : SameSeen(nodes'[n], nodes[n])

(* A step that writes nothing keeps the invariant.                         *)
LEMMA QuietSeq ==
    ASSUME GraphInv, SeqInv, QuietStep
    PROVE  SeqInv'
<1>1. /\ sealed' = sealed /\ replayed' = replayed /\ nextTopic' = nextTopic
      /\ pending' = pending /\ sealedRows' = sealedRows
  BY DEF QuietStep
<1>2. \A n \in DOMAIN nodes' : n \in DOMAIN nodes /\ SameSeen(nodes'[n], nodes[n])
        /\ nodes'[n].inputs = nodes[n].inputs /\ nodes'[n].outs = nodes[n].outs
  BY DEF QuietStep, SameSeen
<1>3. TopicsInOrder' /\ TopicsEmpty' /\ PendingNew'
  BY <1>1 DEF SeqInv, TopicsInOrder, TopicsEmpty, PendingNew
<1>4. OutsOwned' /\ ReplayedClosed'
  BY <1>1, <1>2 DEF SeqInv, OutsOwned, ReplayedClosed
<1>5. NodesSeq'
  <2>1. ASSUME NEW n \in Undisturbed' PROVE NodeSeq(nodes'[n], sealed)
    <3>1. n \in DOMAIN nodes' /\ n \in Undisturbed
      BY <1>1, <1>2, <2>1 DEF Undisturbed
    <3>2. nodes[n].inputs[1] \in Topics /\ NodeSeq(nodes[n], sealed)
      BY <3>1, UndisturbedTopics
    <3>3. PICK sl \in [Topics -> Seq(Chunk)] : sl = sealed
      BY DEF GraphInv, TypeOK
    <3>4. Extends(sl[nodes[n].inputs[1]], sl[nodes[n].inputs[1]])
      BY <3>2 DEF Extends
    <3> QED BY <1>2, <3>1, <3>2, <3>3, <3>4, NodeSeqKept
  <2> QED BY <1>1, <2>1 DEF NodesSeq
<1> QED BY <1>3, <1>4, <1>5 DEF SeqInv

(* onSourceCommitted writes nothing.                                       *)
LEMMA OnSourceCommittedSeq ==
    ASSUME GraphInv, SeqInv, onSourceCommitted
    PROVE  SeqInv'
<1>1. /\ sealed' = sealed /\ replayed' = replayed /\ nextTopic' = nextTopic
      /\ pending' = pending /\ sealedRows' = sealedRows
  BY DEF onSourceCommitted, engine, graph, history
<1>2. DOMAIN nodes' = DOMAIN nodes
  BY DEF onSourceCommitted
<1>3. ASSUME NEW n \in DOMAIN nodes PROVE SameSeen(nodes'[n], nodes[n])
  <2>1. PICK node \in NodeT : node = nodes[n]
    BY NodeTopics
  <2>2. PICK d : nodes'[n] = [node EXCEPT !.dirty = d]
    BY <1>3, <2>1 DEF onSourceCommitted
  <2> QED BY <2>1, <2>2 DEF SameSeen, NodeT
<1> QED BY <1>1, <1>2, <1>3, QuietSeq DEF QuietStep

(* removeNode writes nothing: the output topics stay.                      *)
LEMMA RemoveNodeSeq ==
    ASSUME GraphInv, SeqInv, NEW n, removeNode(n)
    PROVE  SeqInv'
<1>1. /\ sealed' = sealed /\ replayed' = replayed /\ nextTopic' = nextTopic
      /\ pending' = pending /\ sealedRows' = sealedRows
  BY DEF removeNode, engine, source, history
<1>2. DOMAIN nodes' \subseteq DOMAIN nodes /\ \A m \in DOMAIN nodes' : nodes'[m] = nodes[m]
  BY DEF removeNode
<1> QED BY <1>1, <1>2, QuietSeq DEF QuietStep, SameSeen

(* scheduleActive writes nothing.                                          *)
LEMMA ScheduleActiveSeq ==
    ASSUME GraphInv, SeqInv, NEW active, scheduleActive(active)
    PROVE  SeqInv'
<1>1. /\ sealed' = sealed /\ replayed' = replayed /\ nextTopic' = nextTopic
      /\ pending' = pending /\ sealedRows' = sealedRows /\ nodes' = nodes
  BY DEF scheduleActive, engine, source, history, graph
<1> QED BY <1>1, QuietSeq DEF QuietStep, SameSeen

(* The rows of a sealed chunk are in no topic and in no other sealed       *)
(* chunk.                                                                  *)
LEMMA SealSourceSeq ==
    ASSUME GraphInv, SeqInv, NEW w \in Writers, NEW t \in 1 .. NumSources, NEW ts \in Batches, sealSource(w, t, ts)
    PROVE  SeqInv'
<1>1. /\ sealed' = sealed /\ replayed' = replayed /\ nextTopic' = nextTopic /\ nodes' = nodes
      /\ sealedRows' = sealedRows + Len(ts)
  BY DEF sealSource, graph, history
<1>2. TopicsInOrder' /\ TopicsEmpty' /\ OutsOwned' /\ ReplayedClosed'
  BY <1>1 DEF SeqInv, TopicsInOrder, TopicsEmpty, OutsOwned, ReplayedClosed
<1>3. NodesSeq'
  BY <1>1 DEF SeqInv, NodesSeq, Undisturbed
<1>4. PICK N \in Nat : N = sealedRows
  BY DerivedBoundAssumption DEF GraphInv, TypeOK
<1>5. /\ ts \in Seq(Int) /\ ts # <<>> /\ DOMAIN ts = 1 .. Len(ts) /\ Len(ts) \in Nat
      /\ \A i, j \in 1 .. Len(ts) : i <= j => ts[i] <= ts[j]
  BY DerivedBatchAssumption
<1>6. PICK rows : rows = [i \in 1 .. Len(ts) |-> [ts |-> ts[i], val |-> <<N + i>>]]
  OBVIOUS
<1>7. Len(rows) = Len(ts) /\ \A i \in 1 .. Len(rows) : rows[i].ts = ts[i] /\ rows[i].val = <<N + i>> /\ rows[i].val[1] = N + i
  BY <1>5, <1>6
<1>8. PICK p : p = [topic |-> t, chunk |-> [id |-> nextChunk, rows |-> rows]]
  OBVIOUS
<1>9. pending' = [pending EXCEPT ![w] = <<p>>]
  BY <1>4, <1>5, <1>6, <1>8 DEF sealSource
<1>10. pending' [w] = <<p>> /\ \A v \in Writers : v # w => pending'[v] = pending[v]
  BY <1>9 DEF GraphInv, TypeOK
<1>11. /\ rows # <<>> /\ RowsFilled(rows) /\ RowsInOrder(rows) /\ UpTo(rows, N + Len(ts))
  <2>1. rows # <<>>
    BY <1>5, <1>7
  <2>2. RowsFilled(rows)
    <3>1. \A i \in 1 .. Len(rows) : rows[i].val = <<N + i>>
      BY <1>7
    <3>2. \A x : <<x>> # <<>>
      OBVIOUS
    <3> QED BY <3>1, <3>2 DEF RowsFilled
  <2>3. RowsInOrder(rows)
    <3>1. ASSUME NEW i \in 1 .. Len(rows), NEW j \in 1 .. Len(rows), i < j
          PROVE  rows[i].ts <= rows[j].ts /\ rows[i].val[1] # rows[j].val[1]
      BY <1>4, <1>5, <1>7, <3>1
    <3> QED BY <3>1 DEF RowsInOrder, Before
  <2>4. UpTo(rows, N + Len(ts))
    BY <1>4, <1>5, <1>7 DEF UpTo
  <2> QED BY <2>1, <2>2, <2>3, <2>4
<1>12. ASSUME NEW q \in Seq(Row), RowsFilled(q), UpTo(q, N)
       PROVE  UpTo(q, N + Len(ts)) /\ Apart(q, rows) /\ Apart(rows, q)
  <2>1. \A i \in 1 .. Len(q) : q[i].val[1] \in Nat /\ q[i].val[1] <= N
    <3>1. \A i \in 1 .. Len(q) : q[i] \in Row /\ q[i].val # <<>>
      BY <1>12 DEF RowsFilled
    <3>2. \A r \in Row : r.val # <<>> => r.val[1] \in Nat
      BY DEF Row
    <3> QED BY <1>12, <3>1, <3>2 DEF UpTo
  <2>2. UpTo(q, N + Len(ts))
    BY <1>4, <1>5, <2>1 DEF UpTo
  <2>3. \A i \in 1 .. Len(q) : \A j \in 1 .. Len(rows) : q[i].val[1] # N + j
    BY <1>4, <1>5, <1>7, <2>1
  <2> QED BY <1>7, <2>2, <2>3 DEF Apart
<1>13. ASSUME NEW s \in 1 .. NumSources, NEW a \in 1 .. Len(sealed[s])
       PROVE  sealed[s][a].rows \in Seq(Row) /\ RowsFilled(sealed[s][a].rows) /\ UpTo(sealed[s][a].rows, N)
  <2>1. s \in Topics /\ s \notin replayed
    BY DerivedBoundAssumption DEF SeqInv, ReplayedClosed, Topics
  <2>2. sealed[s] \in Seq(Chunk) /\ Filled(sealed[s])
    BY <2>1 DEF GraphInv, TypeOK, SeqInv, TopicsInOrder
  <2>3. sealed[s][a] \in Chunk
    BY <2>2
  <2> QED BY <1>4, <2>2, <2>3 DEF Chunk, Filled, SeqInv, PendingNew
<1>14. NewChunk(p, sealed, N + Len(ts))
  <2>1. p.topic = t /\ p.chunk.rows = rows
    BY <1>8
  <2>2. \A a \in 1 .. Len(sealed[t]) : Apart(sealed[t][a].rows, rows)
    BY <1>12, <1>13
  <2>3. t <= NumSources
    BY DerivedBoundAssumption
  <2> QED BY <1>11, <2>1, <2>2, <2>3 DEF NewChunk
<1>15. ASSUME NEW v \in Writers, v # w, pending[v] # <<>>
       PROVE  /\ NewChunk(pending[v][1], sealed, N + Len(ts))
              /\ Apart(pending[v][1].chunk.rows, rows) /\ Apart(rows, pending[v][1].chunk.rows)
  <2>1. NewChunk(pending[v][1], sealed, N)
    BY <1>4, <1>15 DEF SeqInv, PendingNew
  <2>2. pending[v][1].chunk.rows \in Seq(Row)
    <3>1. PICK P : P = [topic : Topics, chunk : Chunk]
      OBVIOUS
    <3>2. pending[v] \in Seq(P)
      BY <3>1 DEF GraphInv, TypeOK
    <3>3. pending[v][1] \in P
      BY <1>15, <3>2
    <3> QED BY <3>1, <3>3 DEF Chunk
  <2> QED BY <1>12, <2>1, <2>2 DEF NewChunk
<1>16. PendingNew'
  <2>1. ASSUME NEW v \in Writers, pending'[v] # <<>> PROVE NewChunk(pending'[v][1], sealed, N + Len(ts))
    BY <1>10, <1>14, <1>15, <2>1
  <2>2. ASSUME NEW u \in Writers, NEW v \in Writers, u # v, pending'[u] # <<>>, pending'[v] # <<>>
        PROVE  Apart(pending'[u][1].chunk.rows, pending'[v][1].chunk.rows)
    <3>1. p.chunk.rows = rows
      BY <1>8
    <3>2. CASE u = w
      BY <1>10, <1>15, <2>2, <3>1, <3>2
    <3>3. CASE v = w
      BY <1>10, <1>15, <2>2, <3>1, <3>3
    <3>4. CASE u # w /\ v # w
      BY <1>10, <2>2, <3>4 DEF SeqInv, PendingNew
    <3> QED BY <3>2, <3>3, <3>4
  <2>3. \A s \in 1 .. NumSources : \A a \in 1 .. Len(sealed[s]) : UpTo(sealed[s][a].rows, N + Len(ts))
    BY <1>12, <1>13
  <2> QED BY <1>1, <1>4, <2>1, <2>2, <2>3 DEF PendingNew
<1> QED BY <1>2, <1>3, <1>16 DEF SeqInv

-----------------------------------------------------------------------------
(* Steps that write. *)

(* A commit of a source topic puts new rows at its end or drops the chunk. *)
LEMMA CommitSourceSeq ==
    ASSUME GraphInv, SeqInv, NEW w \in Writers, commitSource(w)
    PROVE  SeqInv'
<1>1. /\ replayed' = replayed /\ nextTopic' = nextTopic /\ nodes' = nodes /\ sealedRows' = sealedRows
      /\ pending[w] # <<>>
  BY DEF commitSource, graph, history
<1>2. PICK p : p = pending[w][1]
  OBVIOUS
<1>3. PICK P : P = [topic : Topics, chunk : Chunk]
  OBVIOUS
<1>4. \A v \in Writers : pending[v] # <<>> => pending[v][1] \in P
  <2>1. \A v \in Writers : pending[v] \in Seq(P)
    BY <1>3 DEF GraphInv, TypeOK
  <2> QED BY <2>1
<1>5. PICK x \in Topics : x = p.topic
  BY <1>1, <1>2, <1>3, <1>4
<1>6. PICK c \in Chunk : c = p.chunk
  BY <1>1, <1>2, <1>3, <1>4
<1>7. NewChunk(p, sealed, sealedRows) /\ x <= NumSources
  BY <1>1, <1>2, <1>5 DEF SeqInv, PendingNew, NewChunk
<1>8. sealed \in [Topics -> Seq(Chunk)]
  BY DEF GraphInv, TypeOK
<1>9. PICK chunks \in Seq(Chunk) : chunks = sealed[x]
  BY <1>8
<1>10. PICK c2 \in Seq(Chunk) : c2 = commitChunk(chunks, c)
  BY CommitChunkType
<1>11. sealed' = [sealed EXCEPT ![x] = c2]
  BY <1>2, <1>5, <1>6, <1>9, <1>10 DEF commitSource
<1>12. sealed'[x] = c2 /\ (\A t \in Topics : t # x => sealed'[t] = sealed[t]) /\ sealed' \in [Topics -> Seq(Chunk)]
  BY <1>8, <1>11
<1>13. pending'[w] = <<>> /\ \A v \in Writers : v # w => pending'[v] = pending[v]
  BY DEF commitSource, GraphInv, TypeOK
<1>14. Extends(c2, chunks) /\ \A a \in 1 .. Len(c2) : a \in 1 .. Len(chunks) \/ c2[a] = c
  BY <1>10, CommitExtends
<1>15. \A a \in 1 .. Len(chunks) : c2[a] = chunks[a]
  BY <1>14 DEF Extends
<1>16. NumSources \in Int /\ x \in Int /\ nextTopic \in Int
  BY DerivedBoundAssumption DEF GraphInv, TypeOK, Topics
<1>17. x \notin replayed /\ x < nextTopic
  BY <1>7, <1>16 DEF SeqInv, ReplayedClosed, OutsOwned
<1>18. InOrder(c2) /\ Filled(c2)
  <2>1. InOrder(chunks) /\ Filled(chunks)
    BY <1>9, <1>17 DEF SeqInv, TopicsInOrder
  <2>2. c.rows # <<>> /\ RowsFilled(c.rows) /\ RowsInOrder(c.rows)
    BY <1>6, <1>7 DEF NewChunk
  <2>3. \A a \in 1 .. Len(chunks) : Apart(chunks[a].rows, c.rows)
    BY <1>5, <1>6, <1>7, <1>9 DEF NewChunk
  <2> QED BY <1>10, <2>1, <2>2, <2>3, CommitInOrder DEF Apart
<1>19. TopicsInOrder'
  BY <1>1, <1>12, <1>18 DEF SeqInv, TopicsInOrder
<1>20. TopicsEmpty'
  <2>1. \A t \in Topics : t >= nextTopic => t # x
    BY <1>16, <1>17
  <2> QED BY <1>1, <1>12, <2>1 DEF SeqInv, TopicsEmpty
<1>21. OutsOwned' /\ ReplayedClosed'
  BY <1>1 DEF SeqInv, OutsOwned, ReplayedClosed
<1>22. NodesSeq'
  <2>1. ASSUME NEW n \in Undisturbed' PROVE NodeSeq(nodes[n], sealed')
    <3>1. n \in Undisturbed
      BY <1>1, <2>1 DEF Undisturbed
    <3>2. n \in DOMAIN nodes /\ NodeSeq(nodes[n], sealed) /\ nodes[n].inputs[1] \in Topics
          /\ ToSet(nodes[n].outs) \subseteq Topics
      BY <3>1, UndisturbedTopics
    <3>3. \A t \in ToSet(nodes[n].outs) : sealed'[t] = sealed[t]
      <4>1. nodes[n].outs \in Seq(Topics)
        BY <3>2, NodeTopics DEF NodeT
      <4>2. \A t \in ToSet(nodes[n].outs) : t > NumSources
        BY <3>2, <4>1 DEF SeqInv, OutsOwned, ToSet
      <4>3. \A t \in ToSet(nodes[n].outs) : t # x /\ t \in Topics
        BY <1>7, <1>16, <3>2, <4>2
      <4> QED BY <1>12, <4>3
    <3>4. Extends(sealed'[nodes[n].inputs[1]], sealed[nodes[n].inputs[1]])
      <4>1. CASE nodes[n].inputs[1] = x
        BY <1>9, <1>12, <1>14, <4>1
      <4>2. CASE nodes[n].inputs[1] # x
        <5>1. sealed[nodes[n].inputs[1]] \in Seq(Chunk)
          BY <1>8, <3>2
        <5> QED BY <1>12, <3>2, <4>2, <5>1 DEF Extends
      <4> QED BY <4>1, <4>2
    <3>5. PICK sl2 \in [Topics -> Seq(Chunk)] : sl2 = sealed'
      BY <1>12
    <3>6. SameSeen(nodes[n], nodes[n])
      BY DEF SameSeen
    <3> QED BY <1>8, <3>2, <3>3, <3>4, <3>5, <3>6, NodeSeqKept
  <2> QED BY <1>1, <2>1 DEF NodesSeq
<1>23. PendingNew'
  <2>1. ASSUME NEW v \in Writers, pending'[v] # <<>> PROVE NewChunk(pending'[v][1], sealed', sealedRows)
    <3>1. v # w /\ pending'[v] = pending[v] /\ pending[v] # <<>>
      BY <1>13, <2>1
    <3>2. PICK q : q = pending[v][1]
      OBVIOUS
    <3>3. NewChunk(q, sealed, sealedRows) /\ q.topic \in Topics
      <4>1. q \in P
        BY <1>4, <3>1, <3>2
      <4> QED BY <1>3, <3>1, <3>2, <4>1 DEF SeqInv, PendingNew
    <3>4. Apart(c.rows, q.chunk.rows)
      BY <1>1, <1>2, <1>6, <3>1, <3>2 DEF SeqInv, PendingNew
    <3>5. \A a \in 1 .. Len(sealed'[q.topic]) : Apart(sealed'[q.topic][a].rows, q.chunk.rows)
      <4>1. \A a \in 1 .. Len(sealed[q.topic]) : Apart(sealed[q.topic][a].rows, q.chunk.rows)
        BY <3>3 DEF NewChunk
      <4>2. CASE q.topic = x
        BY <1>9, <1>12, <1>14, <1>15, <3>4, <4>1, <4>2
      <4>3. CASE q.topic # x
        BY <1>12, <3>3, <4>1, <4>3
      <4> QED BY <4>2, <4>3
    <3> QED BY <3>1, <3>2, <3>3, <3>5 DEF NewChunk
  <2>2. ASSUME NEW u \in Writers, NEW v \in Writers, u # v, pending'[u] # <<>>, pending'[v] # <<>>
        PROVE  Apart(pending'[u][1].chunk.rows, pending'[v][1].chunk.rows)
    BY <1>13, <2>2 DEF SeqInv, PendingNew
  <2>3. ASSUME NEW t \in 1 .. NumSources, NEW a \in 1 .. Len(sealed'[t]) PROVE UpTo(sealed'[t][a].rows, sealedRows)
    <3>1. \A b \in 1 .. Len(sealed[t]) : UpTo(sealed[t][b].rows, sealedRows)
      BY DEF SeqInv, PendingNew
    <3>2. UpTo(c.rows, sealedRows)
      BY <1>6, <1>7 DEF NewChunk
    <3>3. CASE t = x
      BY <1>9, <1>12, <1>14, <1>15, <2>3, <3>1, <3>2, <3>3
    <3>4. CASE t # x
      <4>1. t \in Topics
        BY DerivedBoundAssumption DEF Topics
      <4> QED BY <1>12, <2>3, <3>1, <3>4, <4>1
    <3> QED BY <3>3, <3>4
  <2> QED BY <1>1, <2>1, <2>2, <2>3 DEF PendingNew
<1> QED BY <1>19, <1>20, <1>21, <1>22, <1>23 DEF SeqInv

(* A node that was not called yet.                                         *)
LEMMA NewNodeSeq ==
    ASSUME NEW node, node.got = <<>>, NEW sl \in [Topics -> Seq(Chunk)], node.inputs[1] \in Topics,
           \A t \in ToSet(node.outs) : sl[t] = <<>>
    PROVE  NodeSeq(node, sl)
<1>1. PICK chunks \in Seq(Chunk) : chunks = sl[node.inputs[1]]
  OBVIOUS
<1>2. Len(node.got) = 0 /\ \A g : g \notin 1 .. Len(node.got)
  <2>1. Len(node.got) = 0
    OBVIOUS
  <2> QED BY <2>1
<1>3. GotInOrder(node)
  BY <1>2 DEF GotInOrder, RowsInOrder, RowsFilled
<1>4. SeenMimo(node, chunks)
  BY <1>2 DEF SeenMimo
<1>5. SeenSiso(node, chunks)
  <2>1. 0 \in 0 .. Len(chunks) /\ \A a : a \notin 1 .. 0
    OBVIOUS
  <2> QED BY <1>2, <2>1 DEF SeenSiso
<1>6. \A t \in ToSet(node.outs) : FromGot(node, sl[t])
  BY DEF FromGot
<1> QED BY <1>1, <1>3, <1>4, <1>5, <1>6 DEF NodeSeq

(* A run writes the outputs of the node and only adds to them.             *)
LEMMA RunGrows ==
    ASSUME NEW node \in NodeT, node.inputs # <<>>, NEW sl \in [Topics -> Seq(Chunk)], nextChunk \in Nat \ {0}
    PROVE  /\ \A t \in Topics : Extends(runNode(node, sl).sealed[t], sl[t])
           /\ \A t \in Topics \ ToSet(node.outs) : runNode(node, sl).sealed[t] = sl[t]
<1>1. PICK s \in Seq(Row) : s = newSamples(node, sl)
  BY SamplesType
<1>2. PICK rows : rows = IF s = <<>> THEN <<>> ELSE emitted(node, s)
  OBVIOUS
<1>3. rows \in Seq(Row)
  <2>1. CASE s = <<>>
    BY <1>2, <2>1
  <2>2. CASE s # <<>>
    <3>1. Tail(s) \in Seq(Row)
      BY <1>1, <2>2
    <3> QED BY <1>1, <1>2, <2>2, <3>1 DEF emitted
  <2> QED BY <2>1, <2>2
<1>4. PICK sl2 : sl2 = runNode(node, sl).sealed
  OBVIOUS
<1>5. /\ \A t \in Topics \ ToSet(node.outs) : sl2[t] = sl[t]
      /\ rows = <<>> => sl2 = sl
      /\ rows # <<>> => \A t \in ToSet(node.outs) : \E c \in Chunk : c.rows = rows /\ sl2[t] = commitChunk(sl[t], c)
  BY <1>1, <1>2, <1>3, <1>4, RunSealed, SMTT(30)
<1>6. ASSUME NEW t \in Topics PROVE Extends(sl2[t], sl[t])
  <2>1. sl[t] \in Seq(Chunk)
    OBVIOUS
  <2>2. Extends(sl[t], sl[t])
    BY <2>1 DEF Extends
  <2>3. CASE sl2[t] = sl[t]
    BY <2>2, <2>3
  <2>4. CASE sl2[t] # sl[t]
    <3>1. PICK c \in Chunk : sl2[t] = commitChunk(sl[t], c)
      BY <1>5, <2>4
    <3> QED BY <2>1, <3>1, CommitExtends
  <2> QED BY <2>3, <2>4
<1> QED BY <1>4, <1>5, <1>6

(* A run of one node: what it writes, and the nodes that share no topic    *)
(* with it.                                                                *)
LEMMA OutputsApart ==
    ASSUME GraphInv, NEW n \in DOMAIN nodes, NEW m \in DOMAIN nodes, m # n
    PROVE  ToSet(nodes[m].outs) \cap ToSet(nodes[n].outs) = {}
<1>1. ASSUME NEW t \in ToSet(nodes[m].outs), t \in ToSet(nodes[n].outs) PROVE FALSE
  <2>1. t \in Topics
    BY NodeTopics
  <2> QED BY <1>1, <2>1, ProducerFacts
<1> QED BY <1>1

(* The source topics are not written by nodes.                             *)
LEMMA NodesWriteNoSource ==
    ASSUME GraphInv, SeqInv, NEW n \in DOMAIN nodes
    PROVE  \A t \in ToSet(nodes[n].outs) : t > NumSources
<1>1. nodes[n].outs \in Seq(Topics)
  BY NodeTopics DEF NodeT
<1> QED BY <1>1 DEF SeqInv, OutsOwned, ToSet

(* What is done to the outputs of nodes leaves the sealed chunks new.      *)
LEMMA PendingKept ==
    ASSUME GraphInv, SeqInv, pending' = pending, sealedRows' = sealedRows,
           \A t \in Topics : t <= NumSources => sealed'[t] = sealed[t]
    PROVE  PendingNew'
<1>1. PICK P : P = [topic : Topics, chunk : Chunk]
  OBVIOUS
<1>2. ASSUME NEW v \in Writers, pending[v] # <<>> PROVE NewChunk(pending[v][1], sealed', sealedRows)
  <2>1. pending[v] \in Seq(P)
    BY <1>1 DEF GraphInv, TypeOK
  <2>2. pending[v][1] \in P
    BY <1>2, <2>1
  <2>3. pending[v][1].topic \in Topics /\ NewChunk(pending[v][1], sealed, sealedRows)
    BY <1>1, <1>2, <2>2 DEF SeqInv, PendingNew
  <2> QED BY <2>3 DEF NewChunk
<1>3. \A t \in 1 .. NumSources : t \in Topics /\ t <= NumSources
  BY DerivedBoundAssumption DEF Topics
<1>4. \A t \in 1 .. NumSources : \A a \in 1 .. Len(sealed'[t]) : UpTo(sealed'[t][a].rows, sealedRows)
  BY <1>3 DEF SeqInv, PendingNew
<1>5. \A w, v \in Writers : w # v /\ pending[w] # <<>> /\ pending[v] # <<>> =>
          Apart(pending[w][1].chunk.rows, pending[v][1].chunk.rows)
  BY DEF SeqInv, PendingNew
<1> QED BY <1>2, <1>4, <1>5 DEF PendingNew

(* A visit of a dirty node calls its transform in order and writes its own *)
(* outputs.                                                                *)
LEMMA VisitNodeSeq ==
    ASSUME GraphInv, SeqInv, visitNode
    PROVE  SeqInv'
<1>1. /\ replayed' = replayed /\ nextTopic' = nextTopic /\ pending' = pending /\ sealedRows' = sealedRows
  BY DEF visitNode, graph, history, source
<1>2. PICK n : n = todo[1]
  OBVIOUS
<1>3. n \in DOMAIN nodes
  <2>1. todo # <<>> /\ todo \in Seq(NodeIds)
    BY DEF visitNode, GraphInv, TypeOK
  <2>2. 1 \in 1 .. Len(todo)
    BY <2>1
  <2> QED BY <1>2, <2>2 DEF GraphInv, TodoOK
<1>4. CASE ~nodes[n].dirty
  <2>1. nodes' = nodes /\ sealed' = sealed
    BY <1>2, <1>4 DEF visitNode, engine
  <2> QED BY <1>1, <2>1, QuietSeq DEF QuietStep, SameSeen
<1>5. CASE nodes[n].dirty
  <2>1. PICK node \in NodeT : node = nodes[n]
    BY <1>3, NodeTopics
  <2>2. PICK sl \in [Topics -> Seq(Chunk)] : sl = sealed
    BY DEF GraphInv, TypeOK
  <2>3. nextChunk \in Nat \ {0} /\ node.inputs # <<>>
    BY <1>3, <2>1, NodeTopics DEF GraphInv, TypeOK
  <2>4. PICK n2 \in NodeT : n2 = runNode(node, sl).node
    BY <2>3, RunNodeType
  <2>5. PICK sl2 \in [Topics -> Seq(Chunk)] : sl2 = runNode(node, sl).sealed
    BY <2>3, RunNodeType
  <2>6. SameShape(n2, node)
    BY <2>3, <2>4, RunNodeType
  <2>7. sealed' = sl2 /\ DOMAIN nodes' = DOMAIN nodes /\ nodes'[n] = n2
    BY <1>2, <1>3, <1>5, <2>1, <2>2, <2>4, <2>5 DEF visitNode
  <2>8. ASSUME NEW m \in DOMAIN nodes, m # n PROVE SameSeen(nodes'[m], nodes[m])
    <3>1. PICK nm \in NodeT : nm = nodes[m]
      BY NodeTopics
    <3>2. PICK d : nodes'[m] = [nm EXCEPT !.dirty = d]
      BY <1>2, <1>5, <2>8, <3>1 DEF visitNode
    <3> QED BY <3>1, <3>2 DEF SameSeen, NodeT
  <2>9. \A m \in DOMAIN nodes : nodes'[m].inputs = nodes[m].inputs /\ nodes'[m].outs = nodes[m].outs
    BY <2>1, <2>6, <2>7, <2>8 DEF SameSeen, SameShape
  <2>10. /\ \A t \in Topics : Extends(sl2[t], sl[t])
         /\ \A t \in Topics \ ToSet(node.outs) : sl2[t] = sl[t]
    BY <2>3, <2>5, RunGrows
  <2>11. ASSUME n \in Undisturbed
         PROVE  NodeSeq(n2, sl2) /\ \A t \in ToSet(node.outs) : InOrder(sl2[t]) /\ Filled(sl2[t])
    <3>1. /\ NodeSeq(node, sl) /\ node.inputs[1] \in Topics \ replayed
          /\ ToSet(node.outs) \subseteq Topics \ replayed
      BY <2>1, <2>2, <2>11, UndisturbedTopics
    <3>2. node.inputs[1] \notin ToSet(node.outs)
      BY <1>3, <2>1, NodeTopics
    <3>3. \A t \in Topics \ replayed : InOrder(sl[t]) /\ Filled(sl[t])
      BY <2>2 DEF SeqInv, TopicsInOrder
    <3>4. \A t \in ToSet(node.outs) : InOrder(sl[t]) /\ Filled(sl[t])
      BY <3>1, <3>3
    <3> QED BY <2>3, <2>4, <2>5, <3>1, <3>2, <3>3, <3>4, RunSeq
  <2>12. TopicsInOrder'
    <3>1. ASSUME NEW t \in Topics \ replayed PROVE InOrder(sl2[t]) /\ Filled(sl2[t])
      <4>1. CASE t \notin ToSet(node.outs)
        BY <2>2, <2>10, <3>1, <4>1 DEF SeqInv, TopicsInOrder
      <4>2. CASE t \in ToSet(node.outs)
        <5>1. ToSet(node.outs) \cap replayed = {}
          BY <1>3, <2>1, <3>1, <4>2 DEF SeqInv, ReplayedClosed
        <5>2. n \in Undisturbed
          BY <1>3, <2>1, <5>1 DEF Undisturbed
        <5> QED BY <2>11, <4>2, <5>2
      <4> QED BY <4>1, <4>2
    <3> QED BY <1>1, <2>7, <3>1 DEF TopicsInOrder
  <2>13. TopicsEmpty'
    <3>1. ASSUME NEW t \in Topics, t >= nextTopic PROVE sl2[t] = <<>>
      <4>1. t \notin ToSet(node.outs)
        <5>1. t \in Int /\ nextTopic \in Int
          BY DEF Topics, GraphInv, TypeOK
        <5>2. ~(t < nextTopic)
          BY <3>1, <5>1
        <5> QED BY <1>3, <2>1, <5>2, NodeTopics
      <4> QED BY <2>2, <2>10, <3>1, <4>1 DEF SeqInv, TopicsEmpty
    <3> QED BY <1>1, <2>7, <3>1 DEF TopicsEmpty
  <2>14. OutsOwned' /\ ReplayedClosed'
    BY <1>1, <2>7, <2>9 DEF SeqInv, OutsOwned, ReplayedClosed
  <2>15. NodesSeq'
    <3>1. ASSUME NEW m \in Undisturbed' PROVE NodeSeq(nodes'[m], sl2)
      <4>1. m \in Undisturbed
        BY <1>1, <2>7, <2>9, <3>1 DEF Undisturbed
      <4>2. CASE m = n
        BY <2>7, <2>11, <4>1, <4>2
      <4>3. CASE m # n
        <5>1. m \in DOMAIN nodes /\ NodeSeq(nodes[m], sl) /\ nodes[m].inputs[1] \in Topics
              /\ ToSet(nodes[m].outs) \subseteq Topics
          BY <2>2, <4>1, UndisturbedTopics
        <5>2. \A t \in ToSet(nodes[m].outs) : sl2[t] = sl[t]
          <6>1. ToSet(nodes[m].outs) \cap ToSet(node.outs) = {}
            BY <1>3, <2>1, <4>3, <5>1, OutputsApart
          <6> QED BY <2>10, <5>1, <6>1
        <5>3. SameSeen(nodes'[m], nodes[m])
          BY <2>8, <4>3, <5>1
        <5> QED BY <2>10, <5>1, <5>2, <5>3, NodeSeqKept
      <4> QED BY <4>2, <4>3
    <3> QED BY <2>7, <3>1 DEF NodesSeq
  <2>16. PendingNew'
    <3>1. ASSUME NEW t \in Topics, t <= NumSources PROVE sl2[t] = sl[t]
      <4>1. t \notin ToSet(node.outs)
        <5>1. t \in Int /\ NumSources \in Int
          BY DerivedBoundAssumption DEF Topics
        <5>2. ~(t > NumSources)
          BY <3>1, <5>1
        <5> QED BY <1>3, <2>1, <5>2, NodesWriteNoSource
      <4> QED BY <2>10, <4>1
    <3> QED BY <1>1, <2>2, <2>7, <3>1, PendingKept
  <2> QED BY <2>12, <2>13, <2>14, <2>15, <2>16 DEF SeqInv
<1> QED BY <1>4, <1>5

(* The topics a recomputation disturbs are the outputs of the nodes below. *)
LEMMA RecomputeReplayed ==
    ASSUME GraphInv, SeqInv, NEW n, recompute_batch(n)
    PROVE  /\ n \in DOMAIN nodes
           /\ \A t \in Topics \ replayed' : t \notin ToSet(nodes[n].outs) => t \notin replayed
           /\ \A t \in replayed' : NumSources < t /\ t < nextTopic
           /\ \A k \in DOMAIN nodes : (ToSet(nodes[k].inputs) \cup ToSet(nodes[k].outs)) \cap replayed' # {}
                 => ToSet(nodes[k].outs) \subseteq replayed'
           /\ ToSet(nodes[n].outs) \cap replayed' # ToSet(nodes[n].outs) => ToSet(nodes[n].inputs) \cap replayed = {}
           /\ \A k \in below(n) : ToSet(nodes[k].outs) \subseteq replayed'
<1>1. n \in DOMAIN nodes
  BY DEF recompute_batch, Exists
<1>2. PICK Out : Out = ToSet(nodes[n].outs)
  OBVIOUS
<1>3. PICK In : In = ToSet(nodes[n].inputs)
  OBVIOUS
<1>4. PICK B : B = UNION {ToSet(nodes[m].outs) : m \in below(n)}
  OBVIOUS
<1>5. PICK R : R = replayed
  OBVIOUS
<1>6. PICK R2 : R2 = replayed'
  OBVIOUS
<1>7. R2 = (IF In \cap R = {} THEN R \ Out ELSE R) \cup B
  BY <1>2, <1>3, <1>4, <1>5, <1>6 DEF recompute_batch
<1>8. \A m \in below(n) : m \in DOMAIN nodes /\ ToSet(nodes[m].outs) \subseteq B
  BY <1>4 DEF below
<1>9. \A t \in Topics \ R2 : t \notin Out => t \notin R
  BY <1>7
<1>10. \A t \in R2 : NumSources < t /\ t < nextTopic
  <2>1. ASSUME NEW t \in B PROVE NumSources < t /\ t < nextTopic
    <3>1. PICK m \in below(n) : t \in ToSet(nodes[m].outs)
      BY <1>4, <2>1
    <3>2. m \in DOMAIN nodes
      BY <1>8, <3>1
    <3>3. t > NumSources /\ t < nextTopic /\ t \in Topics
      BY <3>1, <3>2, NodesWriteNoSource, NodeTopics
    <3> QED BY <3>3
  <2>2. \A t \in R : NumSources < t /\ t < nextTopic
    BY <1>5 DEF SeqInv, ReplayedClosed
  <2> QED BY <1>7, <2>1, <2>2
<1>11. Out \cap R2 # Out => In \cap R = {}
  <2>1. In \cap R # {} => Out \subseteq R
    BY <1>1, <1>2, <1>3, <1>5 DEF SeqInv, ReplayedClosed
  <2> QED BY <1>7, <2>1
<1>12. ASSUME NEW k \in DOMAIN nodes, NEW t \in ToSet(nodes[k].inputs) \cup ToSet(nodes[k].outs), t \in R2
       PROVE  ToSet(nodes[k].outs) \subseteq R2
  <2>1. CASE t \in B
    <3>1. PICK m \in below(n) : t \in ToSet(nodes[m].outs)
      BY <1>4, <2>1
    <3>2. m \in DOMAIN nodes
      BY <1>8, <3>1
    <3>3. k \in below(n)
      <4>1. CASE t \in ToSet(nodes[k].inputs)
        BY <1>1, <3>1, <3>2, <4>1, BelowReaders
      <4>2. CASE t \in ToSet(nodes[k].outs)
        BY <3>1, <3>2, <4>2, OutputsApart
      <4> QED BY <1>12, <4>1, <4>2
    <3> QED BY <1>7, <1>8, <3>3
  <2>2. CASE t \notin B
    <3>1. t \in R
      BY <1>7, <1>12, <2>2
    <3>2. ToSet(nodes[k].outs) \subseteq R
      BY <1>5, <1>12, <3>1 DEF SeqInv, ReplayedClosed
    <3>3. CASE In \cap R # {}
      BY <1>7, <3>2, <3>3
    <3>4. CASE In \cap R = {}
      <4>1. t \notin Out
        BY <1>7, <1>12, <2>2, <3>4
      <4>2. k # n
        BY <1>2, <1>3, <1>12, <3>1, <3>4, <4>1
      <4>3. ToSet(nodes[k].outs) \cap Out = {}
        BY <1>1, <1>2, <4>2, OutputsApart
      <4> QED BY <1>7, <3>2, <3>4, <4>3
    <3> QED BY <3>3, <3>4
  <2> QED BY <2>1, <2>2
<1>13. \A k \in below(n) : ToSet(nodes[k].outs) \subseteq R2
  BY <1>7, <1>8
<1>14. \A k \in DOMAIN nodes : (ToSet(nodes[k].inputs) \cup ToSet(nodes[k].outs)) \cap R2 # {}
         => ToSet(nodes[k].outs) \subseteq R2
  BY <1>12
<1> QED BY <1>1, <1>2, <1>3, <1>5, <1>6, <1>9, <1>10, <1>11, <1>13, <1>14

(* recompute_batch replays a node from its inputs: its outputs are in      *)
(* order again, and the outputs of the nodes below it count as replayed.   *)
LEMMA RecomputeSeq ==
    ASSUME GraphInv, SeqInv, NEW n, recompute_batch(n)
    PROVE  SeqInv'
<1>1. /\ nextTopic' = nextTopic /\ pending' = pending /\ sealedRows' = sealedRows /\ n \in DOMAIN nodes
  BY DEF recompute_batch, graph, source, Exists
<1>2. PICK node \in NodeT : node = nodes[n]
  BY <1>1, NodeTopics
<1>3. /\ sealed \in [Topics -> Seq(Chunk)] /\ nextChunk \in Nat \ {0} /\ node.inputs # <<>>
      /\ node.inputs[1] \in Topics /\ node.inputs[1] \in ToSet(node.inputs) /\ node.inputs[1] \notin ToSet(node.outs)
      /\ ToSet(node.outs) \subseteq Topics
  BY <1>1, <1>2, NodeTopics DEF GraphInv, TypeOK
<1>4. PICK sl : sl = [t \in Topics |-> IF t \in ToSet(node.outs) THEN <<>> ELSE sealed[t]]
  OBVIOUS
<1>5. sl \in [Topics -> Seq(Chunk)]
  BY <1>3, <1>4
<1>6. PICK reset : reset = NewNode(node.mimo, node.op, node.inputs, node.outs)
  OBVIOUS
<1>7. reset \in NodeT /\ SameShape(reset, node) /\ reset.got = <<>>
  <2>1. MinTime \in Int /\ 0 \in Int /\ <<>> \in Seq(Row)
    BY DerivedBatchAssumption
  <2> QED BY <1>2, <1>6, <2>1 DEF NewNode, NodeT, SameShape
<1>8. reset.inputs = node.inputs /\ reset.outs = node.outs
  BY <1>7 DEF SameShape
<1>9. PICK n2 \in NodeT : n2 = runNode(reset, sl).node
  BY <1>3, <1>5, <1>7, <1>8, RunNodeType
<1>10. PICK sl2 \in [Topics -> Seq(Chunk)] : sl2 = runNode(reset, sl).sealed
  BY <1>3, <1>5, <1>7, <1>8, RunNodeType
<1>11. n2.inputs = node.inputs /\ n2.outs = node.outs
  BY <1>3, <1>5, <1>7, <1>8, <1>9, RunNodeType DEF SameShape
<1>12. nodes' = [nodes EXCEPT ![n] = n2] /\ sealed' = sl2
  BY <1>2, <1>4, <1>6, <1>9, <1>10 DEF recompute_batch
<1>13. /\ DOMAIN nodes' = DOMAIN nodes /\ nodes'[n] = n2
       /\ \A m \in DOMAIN nodes : m # n => nodes'[m] = nodes[m]
  BY <1>1, <1>12
<1>14. \A m \in DOMAIN nodes : nodes'[m].inputs = nodes[m].inputs /\ nodes'[m].outs = nodes[m].outs
  BY <1>2, <1>11, <1>13
<1>15. \A t \in Topics \ ToSet(node.outs) : sl2[t] = sealed[t]
  <2>1. \A t \in Topics \ ToSet(node.outs) : sl2[t] = sl[t]
    BY <1>3, <1>5, <1>7, <1>8, <1>10, RunGrows, ZenonT(30)
  <2> QED BY <1>4, <2>1
<1>16. PICK R2 : R2 = replayed'
  OBVIOUS
<1>17. /\ \A t \in Topics \ R2 : t \notin ToSet(node.outs) => t \notin replayed
       /\ \A t \in R2 : NumSources < t /\ t < nextTopic
       /\ \A k \in DOMAIN nodes : (ToSet(nodes[k].inputs) \cup ToSet(nodes[k].outs)) \cap R2 # {}
                 => ToSet(nodes[k].outs) \subseteq R2
       /\ ToSet(node.outs) \cap R2 # ToSet(node.outs) => ToSet(node.inputs) \cap replayed = {}
       /\ \A k \in below(n) : ToSet(nodes[k].outs) \subseteq R2
  BY <1>2, <1>16, RecomputeReplayed
<1>18. ASSUME ToSet(node.inputs) \cap replayed = {}
       PROVE  NodeSeq(n2, sl2) /\ \A t \in ToSet(node.outs) : InOrder(sl2[t]) /\ Filled(sl2[t])
  <2>1. \A t \in ToSet(node.outs) : sl[t] = <<>>
    BY <1>3, <1>4
  <2>2. NodeSeq(reset, sl)
    BY <1>3, <1>5, <1>7, <1>8, <2>1, NewNodeSeq
  <2>3. InOrder(sl[node.inputs[1]]) /\ Filled(sl[node.inputs[1]])
    <3>1. sl[node.inputs[1]] = sealed[node.inputs[1]] /\ node.inputs[1] \notin replayed
      BY <1>3, <1>4, <1>18
    <3> QED BY <1>3, <3>1 DEF SeqInv, TopicsInOrder
  <2>4. \A t \in ToSet(node.outs) : InOrder(sl[t]) /\ Filled(sl[t])
    <3>1. \A a : a \notin 1 .. Len(<<>>)
      OBVIOUS
    <3> QED BY <2>1, <3>1 DEF InOrder, Filled
  <2> QED BY <1>3, <1>5, <1>7, <1>8, <1>9, <1>10, <2>2, <2>3, <2>4, RunSeq
<1>19. TopicsInOrder'
  <2>1. ASSUME NEW t \in Topics \ R2 PROVE InOrder(sl2[t]) /\ Filled(sl2[t])
    <3>1. CASE t \notin ToSet(node.outs)
      <4>1. t \in Topics \ replayed /\ sl2[t] = sealed[t]
        BY <1>15, <1>17, <2>1, <3>1
      <4> QED BY <4>1 DEF SeqInv, TopicsInOrder
    <3>2. CASE t \in ToSet(node.outs)
      BY <1>17, <1>18, <2>1, <3>2
    <3> QED BY <3>1, <3>2
  <2> QED BY <1>12, <1>16, <2>1 DEF TopicsInOrder
<1>20. TopicsEmpty'
  <2>1. ASSUME NEW t \in Topics, t >= nextTopic PROVE sl2[t] = <<>>
    <3>1. t \notin ToSet(node.outs)
      <4>1. t \in Int /\ nextTopic \in Int
        BY DEF Topics, GraphInv, TypeOK
      <4>2. ~(t < nextTopic)
        BY <2>1, <4>1
      <4> QED BY <1>1, <1>2, <4>2, NodeTopics
    <3> QED BY <1>15, <2>1, <3>1 DEF SeqInv, TopicsEmpty
  <2> QED BY <1>1, <1>12, <2>1 DEF TopicsEmpty
<1>21. OutsOwned'
  BY <1>1, <1>13, <1>14 DEF SeqInv, OutsOwned
<1>22. ReplayedClosed'
  BY <1>1, <1>13, <1>14, <1>16, <1>17 DEF ReplayedClosed
<1>23. NodesSeq'
  <2>1. ASSUME NEW k \in Undisturbed' PROVE NodeSeq(nodes'[k], sl2)
    <3>1. k \in DOMAIN nodes /\ ToSet(nodes[k].outs) \cap R2 = {}
      BY <1>13, <1>14, <1>16, <2>1 DEF Undisturbed
    <3>2. ToSet(nodes[k].outs) # {}
      <4>1. nodes[k].outs \in Seq(Topics) /\ nodes[k].outs # <<>>
        BY <3>1, NodeTopics DEF NodeT, SeqInv, OutsOwned
      <4>2. 1 \in DOMAIN nodes[k].outs
        BY <4>1
      <4> QED BY <4>2 DEF ToSet
    <3>3. CASE k = n
      <4>1. ToSet(node.inputs) \cap replayed = {}
        BY <1>2, <1>17, <3>1, <3>2, <3>3
      <4> QED BY <1>13, <1>18, <3>3, <4>1
    <3>4. CASE k # n
      <4>1. ToSet(nodes[k].outs) \cap ToSet(node.outs) = {} /\ ToSet(nodes[k].outs) \subseteq Topics
        BY <1>1, <1>2, <3>1, <3>4, OutputsApart, NodeTopics
      <4>2. k \in Undisturbed
        BY <1>17, <3>1, <4>1 DEF Undisturbed
      <4>3. NodeSeq(nodes[k], sealed) /\ nodes[k].inputs[1] \in Topics
            /\ nodes[k].inputs[1] \in ToSet(nodes[k].inputs)
        BY <3>1, <4>2, UndisturbedTopics, NodeTopics
      <4>4. nodes[k].inputs[1] \notin ToSet(node.outs)
        <5>1. SUFFICES ASSUME nodes[k].inputs[1] \in ToSet(node.outs) PROVE FALSE
          OBVIOUS
        <5>2. PICK t : t = nodes[k].inputs[1]
          OBVIOUS
        <5>3. k \in below(n)
          BY <1>1, <1>2, <3>1, <4>3, <5>1, <5>2, BelowReaders
        <5> QED BY <1>17, <3>1, <3>2, <5>3
      <4>5. sl2[nodes[k].inputs[1]] = sealed[nodes[k].inputs[1]]
        BY <1>15, <4>3, <4>4
      <4>6. Extends(sl2[nodes[k].inputs[1]], sealed[nodes[k].inputs[1]])
        <5>1. sealed[nodes[k].inputs[1]] \in Seq(Chunk)
          BY <1>3, <4>3
        <5> QED BY <4>5, <5>1 DEF Extends
      <4>7. \A t \in ToSet(nodes[k].outs) : sl2[t] = sealed[t]
        BY <1>15, <4>1
      <4>8. SameSeen(nodes'[k], nodes[k])
        BY <1>13, <3>1, <3>4 DEF SameSeen
      <4> QED BY <1>3, <4>3, <4>6, <4>7, <4>8, NodeSeqKept
    <3> QED BY <3>3, <3>4
  <2> QED BY <1>12, <2>1 DEF NodesSeq
<1>24. PendingNew'
  <2>1. ASSUME NEW t \in Topics, t <= NumSources PROVE sl2[t] = sealed[t]
    <3>1. t \notin ToSet(node.outs)
      <4>1. t \in Int /\ NumSources \in Int
        BY DerivedBoundAssumption DEF Topics
      <4>2. ~(t > NumSources)
        BY <2>1, <4>1
      <4> QED BY <1>1, <1>2, <4>2, NodesWriteNoSource
    <3> QED BY <1>15, <3>1
  <2> QED BY <1>1, <1>12, <2>1, PendingKept
<1> QED BY <1>19, <1>20, <1>21, <1>22, <1>23, <1>24 DEF SeqInv

(* A new node was not called, and nothing was written to its topics.       *)
LEMMA AddNodeSeq ==
    ASSUME GraphInv, SeqInv, NEW mimo \in BOOLEAN, NEW op \in Ops, NEW inputs \in Seq(Topics), inputs # <<>>,
           NEW names \in Seq(Names), names # <<>>,
           \A i \in DOMAIN inputs : inputs[i] < nextTopic,
           addNode(mimo, op, inputs, names)
    PROVE  SeqInv'
<1>1. /\ sealed' = sealed /\ pending' = pending /\ sealedRows' = sealedRows
      /\ nextTopic' = nextTopic + Len(names) /\ nextNode <= MaxNodes /\ nextTopic + Len(names) - 1 <= MaxTopics
  BY DEF addNode, engine, source
<1>2. PICK n : n = nextNode
  OBVIOUS
<1>3. PICK outs : outs = [k \in DOMAIN names |-> nextTopic + k - 1]
  OBVIOUS
<1>4. nextNode \in Nat \ {0} /\ nextTopic \in Nat \ {0} /\ MaxTopics \in Nat /\ NumSources \in Nat
      /\ NumSources < nextTopic /\ sealed \in [Topics -> Seq(Chunk)]
  BY DerivedBoundAssumption DEF GraphInv, TypeOK, SeqInv, OutsOwned
<1>5. Len(names) \in Nat /\ DOMAIN names = 1 .. Len(names) /\ 1 <= Len(names)
  OBVIOUS
<1>6. n \notin DOMAIN nodes
  BY <1>2, <1>4 DEF GraphInv, TypeOK
<1>7. outs \in Seq(Topics) /\ Len(outs) = Len(names) /\ \A k \in 1 .. Len(names) : outs[k] = nextTopic + k - 1
  <2>1. \A k \in 1 .. Len(names) : nextTopic + k - 1 \in Topics
    BY <1>1, <1>4, <1>5 DEF Topics
  <2> QED BY <1>3, <1>5, <2>1
<1>8. \A t \in ToSet(outs) : t \in Topics /\ t >= nextTopic /\ t < nextTopic + Len(names) /\ t > NumSources
  <2>1. \A k \in 1 .. Len(outs) : /\ outs[k] \in Topics /\ outs[k] >= nextTopic
                                  /\ outs[k] < nextTopic + Len(names) /\ outs[k] > NumSources
    BY <1>4, <1>5, <1>7
  <2> QED BY <1>7, <2>1 DEF ToSet
<1>9. \A t \in ToSet(inputs) : t \in Topics /\ t < nextTopic
  BY DEF ToSet
<1>10. /\ DOMAIN nodes' = DOMAIN nodes \cup {n} /\ nodes'[n] = NewNode(mimo, op, inputs, outs)
       /\ \A m \in DOMAIN nodes : nodes'[m] = nodes[m]
  BY <1>2, <1>3, <1>6 DEF addNode
<1>11. nodes'[n].inputs = inputs /\ nodes'[n].outs = outs /\ nodes'[n].got = <<>>
  BY <1>10 DEF NewNode
<1>12. PICK R : R = replayed
  OBVIOUS
<1>13. PICK R2 : R2 = replayed'
  OBVIOUS
<1>14. R2 = R \cup (IF ToSet(inputs) \cap R = {} THEN {} ELSE ToSet(outs))
  BY <1>3, <1>12, <1>13 DEF addNode
<1>15. \A t \in R : NumSources < t /\ t < nextTopic /\ t \in Topics
  BY <1>12 DEF SeqInv, ReplayedClosed, GraphInv, TypeOK
<1>16. \A t \in Topics : t < nextTopic => t \notin ToSet(outs)
  <2>1. \A t \in Topics : t \in Int
    BY DEF Topics
  <2> QED BY <1>4, <1>8, <2>1
<1>17. TopicsInOrder'
  BY <1>1, <1>12, <1>13, <1>14 DEF SeqInv, TopicsInOrder
<1>18. TopicsEmpty'
  <2>1. \A t \in Topics : t >= nextTopic + Len(names) => t >= nextTopic
    BY <1>4, <1>5 DEF Topics
  <2> QED BY <1>1, <2>1 DEF SeqInv, TopicsEmpty
<1>19. OutsOwned'
  <2>1. NumSources < nextTopic + Len(names)
    BY <1>4, <1>5
  <2>2. outs # <<>> /\ \A k \in 1 .. Len(outs) : outs[k] > NumSources
    BY <1>4, <1>5, <1>7
  <2>3. \A m \in DOMAIN nodes : nodes[m].outs # <<>> /\ \A k \in 1 .. Len(nodes[m].outs) : nodes[m].outs[k] > NumSources
    BY DEF SeqInv, OutsOwned
  <2> QED BY <1>1, <1>10, <1>11, <2>1, <2>2, <2>3 DEF OutsOwned
<1>20. ReplayedClosed'
  <2>1. \A t \in R2 : NumSources < t /\ t < nextTopic + Len(names)
    <3>1. \A t \in R : t < nextTopic + Len(names)
      <4>1. \A t \in Topics : t \in Int
        BY DEF Topics
      <4> QED BY <1>4, <1>5, <1>15, <4>1
    <3>2. \A t \in ToSet(outs) : NumSources < t
      BY <1>8
    <3> QED BY <1>8, <1>14, <1>15, <3>1, <3>2
  <2>2. (ToSet(inputs) \cup ToSet(outs)) \cap R2 # {} => ToSet(outs) \subseteq R2
    <3>1. CASE ToSet(inputs) \cap R = {}
      <4>1. ToSet(outs) \cap R = {}
        BY <1>15, <1>16
      <4> QED BY <1>14, <3>1, <4>1
    <3>2. CASE ToSet(inputs) \cap R # {}
      BY <1>14, <3>2
    <3> QED BY <3>1, <3>2
  <2>3. ASSUME NEW m \in DOMAIN nodes, (ToSet(nodes[m].inputs) \cup ToSet(nodes[m].outs)) \cap R2 # {}
        PROVE  ToSet(nodes[m].outs) \subseteq R2
    <3>1. \A t \in ToSet(nodes[m].inputs) \cup ToSet(nodes[m].outs) : t \notin ToSet(outs)
      BY <1>16, NodeTopics
    <3>2. (ToSet(nodes[m].inputs) \cup ToSet(nodes[m].outs)) \cap R # {}
      BY <1>14, <2>3, <3>1
    <3>3. ToSet(nodes[m].outs) \subseteq R
      BY <1>12, <3>2 DEF SeqInv, ReplayedClosed
    <3> QED BY <1>14, <3>3
  <2> QED BY <1>1, <1>10, <1>11, <1>13, <2>1, <2>2, <2>3 DEF ReplayedClosed
<1>21. NodesSeq'
  <2>1. ASSUME NEW m \in Undisturbed' PROVE NodeSeq(nodes'[m], sealed)
    <3>1. m \in DOMAIN nodes' /\ ToSet(nodes'[m].outs) \cap R2 = {}
      BY <1>13, <2>1 DEF Undisturbed
    <3>2. CASE m = n
      <4>1. \A t \in ToSet(outs) : sealed[t] = <<>>
        BY <1>8 DEF SeqInv, TopicsEmpty
      <4>2. inputs[1] \in Topics
        OBVIOUS
      <4>3. PICK node : node = nodes'[n]
        OBVIOUS
      <4>4. NodeSeq(node, sealed)
        BY <1>4, <1>11, <4>1, <4>2, <4>3, NewNodeSeq
      <4> QED BY <3>2, <4>3, <4>4
    <3>3. CASE m # n
      <4>1. m \in DOMAIN nodes /\ nodes'[m] = nodes[m]
        BY <1>10, <3>1, <3>3
      <4>2. m \in Undisturbed
        BY <1>12, <1>14, <3>1, <4>1 DEF Undisturbed
      <4> QED BY <4>1, <4>2 DEF SeqInv, NodesSeq
    <3> QED BY <3>2, <3>3
  <2> QED BY <1>1, <2>1 DEF NodesSeq
<1>22. PendingNew'
  BY <1>1 DEF SeqInv, PendingNew
<1> QED BY <1>17, <1>18, <1>19, <1>20, <1>21, <1>22 DEF SeqInv

(* addSisoTransform adds a node with one input and one output.             *)
LEMMA AddSisoSeq ==
    ASSUME GraphInv, SeqInv, NEW op \in Ops, NEW t \in Topics, NEW name \in Names, addSisoTransform(t, name, op)
    PROVE  SeqInv'
<1>1. t < nextTopic
  BY DEF addSisoTransform
<1>2. PICK inputs, names : inputs = <<t>> /\ names = <<name>>
  OBVIOUS
<1>3. addNode(FALSE, op, inputs, names)
  BY <1>2 DEF addSisoTransform
<1>4. inputs \in Seq(Topics) /\ inputs # <<>> /\ \A i \in DOMAIN inputs : inputs[i] < nextTopic
  BY <1>1, <1>2
<1>5. names \in Seq(Names) /\ names # <<>>
  BY <1>2
<1>6. FALSE \in BOOLEAN
  OBVIOUS
<1> QED BY <1>3, <1>4, <1>5, <1>6, AddNodeSeq

(* addMimoTransform adds a node with two inputs and at least one output.   *)
LEMMA AddMimoSeq ==
    ASSUME GraphInv, SeqInv, NEW op \in Ops, NEW s \in Topics, NEW t \in Topics, NEW names \in NameLists,
           addMimoTransform(<<s, t>>, names, op)
    PROVE  SeqInv'
<1>1. PICK inputs : inputs = <<s, t>>
  OBVIOUS
<1>2. /\ \A i \in DOMAIN inputs : inputs[i] < nextTopic
      /\ names # <<>> /\ addNode(TRUE, op, inputs, names)
  BY <1>1 DEF addMimoTransform
<1>3. inputs \in Seq(Topics) /\ inputs # <<>>
  BY <1>1
<1>4. names \in Seq(Names)
  BY DerivedNamesAssumption
<1>5. TRUE \in BOOLEAN
  OBVIOUS
<1> QED BY <1>2, <1>3, <1>4, <1>5, AddNodeSeq

(* An engine without rows.                                                 *)
LEMMA InitSeq ==
    ASSUME Init
    PROVE  SeqInv
<1>1. /\ sealed = [t \in Topics |-> <<>>] /\ pending = [w \in Writers |-> <<>>] /\ DOMAIN nodes = {}
      /\ nextTopic = NumSources + 1 /\ replayed = {} /\ NumSources \in Nat
  BY DerivedBoundAssumption DEF Init
<1>2. \A a : a \notin 1 .. Len(<<>>)
  OBVIOUS
<1>3. TopicsInOrder
  BY <1>1, <1>2 DEF TopicsInOrder, InOrder, Filled
<1>4. TopicsEmpty
  BY <1>1 DEF TopicsEmpty
<1>5. OutsOwned /\ ReplayedClosed
  BY <1>1 DEF OutsOwned, ReplayedClosed
<1>6. NodesSeq
  BY <1>1 DEF NodesSeq, Undisturbed
<1>7. PendingNew
  <2>1. \A t \in 1 .. NumSources : sealed[t] = <<>>
    BY <1>1, DerivedBoundAssumption DEF Topics
  <2> QED BY <1>1, <1>2, <2>1 DEF PendingNew
<1> QED BY <1>3, <1>4, <1>5, <1>6, <1>7 DEF SeqInv

(* No step breaks the invariant.                                           *)
LEMMA StepSeq ==
    ASSUME GraphInv, SeqInv, [Next]_vars
    PROVE  SeqInv'
<1>1. CASE UNCHANGED vars
  <2>1. /\ sealed' = sealed /\ replayed' = replayed /\ nextTopic' = nextTopic
        /\ pending' = pending /\ sealedRows' = sealedRows /\ nodes' = nodes
    BY <1>1 DEF vars
  <2> QED BY <2>1, QuietSeq DEF QuietStep, SameSeen
<1>2. CASE Next
  <2>1. ASSUME NEW w \in Writers, NEW t \in 1 .. NumSources, NEW ts \in Batches, sealSource(w, t, ts)
        PROVE  SeqInv'
    BY <2>1, SealSourceSeq
  <2>2. ASSUME NEW w \in Writers, commitSource(w) PROVE SeqInv'
    BY <2>2, CommitSourceSeq
  <2>3. CASE onSourceCommitted
    BY <2>3, OnSourceCommittedSeq
  <2>4. ASSUME NEW op \in Ops, NEW t \in Topics, NEW name \in Names, addSisoTransform(t, name, op)
        PROVE  SeqInv'
    BY <2>4, AddSisoSeq
  <2>5. ASSUME NEW op \in Ops, NEW s \in Topics, NEW t \in Topics, NEW names \in NameLists,
               addMimoTransform(<<s, t>>, names, op)
        PROVE  SeqInv'
    BY <2>5, AddMimoSeq
  <2>6. ASSUME NEW n \in NodeIds, removeNode(n) PROVE SeqInv'
    BY <2>6, RemoveNodeSeq
  <2>7. ASSUME NEW n \in NodeIds, recompute_batch(n) PROVE SeqInv'
    BY <2>7, RecomputeSeq
  <2>8. ASSUME NEW active \in SUBSET DOMAIN nodes, scheduleActive(active) PROVE SeqInv'
    BY <2>8, ScheduleActiveSeq
  <2>9. CASE visitNode
    BY <2>9, VisitNodeSeq
  <2> QED BY <1>2, <2>1, <2>2, <2>3, <2>4, <2>5, <2>6, <2>7, <2>8, <2>9 DEF Next
<1> QED BY <1>1, <1>2

(* The invariant is what the contract says of the samples of a node.       *)
LEMMA SeqInvContract ==
    ASSUME GraphInv, SeqInv
    PROVE  SequentialContract
<1>1. ASSUME NEW n \in Undisturbed PROVE OncePerSample(nodes[n])
  <2>1. PICK node \in NodeT : node = nodes[n]
    BY NodeTopics DEF Undisturbed
  <2>2. GotInOrder(node)
    BY <1>1, <2>1 DEF SeqInv, NodesSeq, NodeSeq
  <2>3. DOMAIN node.got = 1 .. Len(node.got)
    BY DEF NodeT
  <2>4. ASSUME NEW i \in 1 .. Len(node.got), NEW j \in 1 .. Len(node.got), i < j
        PROVE  /\ node.got[i].ts <= node.got[j].ts
               /\ node.got[i].val # node.got[j].val
               /\ node.mimo => node.got[i].ts < node.got[j].ts
    <3>1. Before(node.got[i], node.got[j])
      BY <2>2, <2>4 DEF GotInOrder, RowsInOrder
    <3>2. node.mimo => node.got[i].ts < node.got[j].ts
      BY <2>2, <2>4 DEF GotInOrder
    <3> QED BY <3>1, <3>2 DEF Before
  <2> QED BY <2>1, <2>3, <2>4 DEF OncePerSample
<1> QED BY <1>1 DEF SequentialContract

(* Between two resets a transform of the DerivedEngine is called with no   *)
(* sample twice and never back in time, a joining transform with no        *)
(* timestamp twice, however commits of the source topics, scheduleActive,  *)
(* recompute_batch, and transforms added and removed interleave: for every *)
(* transform of which no producer was recomputed under it.                 *)
THEOREM TransformsAlwaysSequential ==
    ASSUME NamesDistinct
    PROVE  Spec => []SequentialContract
<1>1. Init => GraphInv /\ SeqInv
  BY InitGraph, InitSeq
<1>2. GraphInv /\ SeqInv /\ [Next]_vars => (GraphInv /\ SeqInv)'
  BY StepGraph, StepSeq
<1>3. GraphInv /\ SeqInv => SequentialContract
  BY SeqInvContract
<1> QED BY <1>1, <1>2, <1>3, PTL DEF Spec
=============================================================================
