---------------------------- MODULE DerivedEngine ---------------------------
(***************************************************************************)
(* pj_datastore's DerivedEngine: a graph of transforms over the topics of  *)
(* a DataEngine.  A node reads committed chunks of its input topics, calls *)
(* its transform on every sample it has not seen, and commits the output.  *)
(* SISO nodes remember the greatest ChunkId they processed, MIMO nodes the *)
(* last timestamp they joined.                                             *)
(*                                                                         *)
(* Of the DataEngine only the committed chunks are kept: a chunk is its    *)
(* ChunkId and its rows, and appendSealedChunk refuses one that starts     *)
(* before the end of its topic.  Topics 1 .. NumSources are written by     *)
(* DataWriters, later ones by nodes; all have one column.  A row's value   *)
(* is the sequence of the source rows it was computed from.  Transforms    *)
(* are external: a "map" emits one row per sample, a "diff" emits none for *)
(* its first sample after a reset; both keep the sample's timestamp.       *)
(***************************************************************************)
EXTENDS Integers, Sequences, FiniteSets, SequencesExt

CONSTANTS
    NumSources,    \* topics that exist at the start
    Writers,       \* DataWriters of the source topics
    Batches,       \* timestamps of one source chunk, in order
    MinTime,       \* INT64_MIN, below every timestamp of a batch
    NameLists,     \* output_topic_names passed to addMimoTransform
    Names,         \* output topic names
    Ops,           \* transforms: subset of {"map", "diff"}
    MaxNodes,      \* bound: nodes created
    MaxTopics,     \* bound: topics created
    MaxRows,       \* bound: source rows sealed
    MaxRecomputes  \* bound: calls of recompute_batch

ASSUME DerivedBoundAssumption ==
    /\ NumSources \in Nat \ {0} /\ NumSources <= MaxTopics
    /\ MaxNodes \in Nat /\ MaxTopics \in Nat /\ MaxRows \in Nat /\ MaxRecomputes \in Nat
ASSUME DerivedBatchAssumption ==
    /\ MinTime \in Int
    /\ \A ts \in Batches : /\ ts \in Seq(Int) /\ ts # <<>>
                           /\ \A i \in DOMAIN ts : ts[i] > MinTime
                           /\ \A i, j \in DOMAIN ts : i <= j => ts[i] <= ts[j]
ASSUME DerivedNamesAssumption == NameLists \subseteq Seq(Names)

VARIABLES
    sealed,              \* sealed[t]: committed chunks of topic t
    nextChunk,           \* the shared ChunkId counter
    pending,             \* pending[w]: [topic, chunk] sealed by w, not committed
    unnotified,          \* committed topics onSourceCommitted was not called for
    nodes,               \* nodes[n]: DerivedNode, for the nodes that exist
    nextNode,            \* next_node_id_
    nextTopic,           \* the next topic id createTopic returns
    topic_to_nodes,      \* readers of a topic
    output_topic_to_node,\* producer of a topic, or 0
    downstream_of,       \* nodes that read an output of a node
    registered_output_names,  \* topic a name was given to, or 0
    todo,                \* nodes scheduleActive has still to visit
    sealedRows,          \* source rows sealed (history)
    recomputes,          \* recompute_batch calls (history)
    replayed             \* topics written from a recomputed one (history)

engine == <<sealed, nextChunk>>
source == <<pending, unnotified, sealedRows>>
history == <<recomputes, replayed>>
graph == <<nextNode, nextTopic, topic_to_nodes, output_topic_to_node, downstream_of,
           registered_output_names>>
vars == <<sealed, nextChunk, pending, unnotified, nodes, nextNode, nextTopic, topic_to_nodes,
          output_topic_to_node, downstream_of, registered_output_names, todo, sealedRows,
          recomputes, replayed>>

Topics == 1 .. MaxTopics
NodeIds == 1 .. MaxNodes

-----------------------------------------------------------------------------
(* Chunks and rows. *)

(* The elements of s that pass the test, in their order.                   *)
Selected(s, Test(_)) == FlattenSeq([i \in 1 .. Len(s) |-> IF Test(s[i]) THEN <<s[i]>> ELSE <<>>])

Rows(chunks) == FlattenSeq([i \in 1 .. Len(chunks) |-> chunks[i].rows])

(* commitChunks of one chunk; a refused chunk is dropped without a word.   *)
commitChunk(chunks, c) ==
    IF chunks = <<>> \/ c.rows[1].ts >= Last(Last(chunks).rows).ts
    THEN Append(chunks, c) ELSE chunks

-----------------------------------------------------------------------------
(* Running one node. *)

(* got: the samples calculate() was called with since the last reset.      *)
NewNode(mimo, op, inputs, outs) ==
    [mimo |-> mimo, op |-> op, inputs |-> inputs, outs |-> outs, dirty |-> TRUE,
     mark |-> IF mimo THEN MinTime ELSE 0, got |-> <<>>]

(* What the transform emits when it is called with rows after got.         *)
emitted(node, rows) ==
    IF node.op = "diff" /\ node.got = <<>> THEN Tail(rows) ELSE rows

(* Slip: the last chunk processed is processed again.                      *)
sisoChunksFrom(node, sl) == Selected(sl[node.inputs[1]], LAMBDA c : c.id >= node.mark)

(* run_siso_incremental: the samples of the chunks with an id above the    *)
(* watermark, and the watermark after them.                                *)
sisoChunks(node, sl) == Selected(sl[node.inputs[1]], LAMBDA c : c.id > node.mark)

sisoMark(node, sl) ==
    CHOOSE m \in {node.mark} \cup {c.id : c \in ToSet(sisoChunks(node, sl))} :
        \A c \in ToSet(sisoChunks(node, sl)) : c.id <= m

(* run_mimo_incremental: the timestamps after the watermark that all       *)
(* inputs have, each once; of several rows with the timestamp the last     *)
(* counts.                                                                 *)
fresh(node, sl, i) ==
    Selected(Rows(sl[node.inputs[i]]), LAMBDA r : r.ts > node.mark)

common(node, sl) ==
    Selected(fresh(node, sl, 1), LAMBDA r :
        \A i \in DOMAIN node.inputs : \E q \in ToSet(fresh(node, sl, i)) : q.ts = r.ts)

unique(s) == FlattenSeq([k \in 1 .. Len(s) |-> IF k > 1 /\ s[k - 1] = s[k] THEN <<>> ELSE <<s[k]>>])

joinedTimes(node, sl) ==
    LET rows == common(node, sl) IN unique([k \in 1 .. Len(rows) |-> rows[k].ts])

lookup(node, sl, i, ts) == Last(Selected(fresh(node, sl, i), LAMBDA r : r.ts = ts)).val

mimoRows(node, sl) ==
    LET times == joinedTimes(node, sl)
    IN  [k \in 1 .. Len(times) |->
            [ts |-> times[k],
             val |-> FlattenSeq([i \in DOMAIN node.inputs |-> lookup(node, sl, i, times[k])])]]

newSamples(node, sl) == IF node.mimo THEN mimoRows(node, sl) ELSE Rows(sisoChunks(node, sl))

newMark(node, sl) ==
    IF ~node.mimo THEN sisoMark(node, sl)
    ELSE IF joinedTimes(node, sl) = <<>> THEN node.mark ELSE Last(joinedTimes(node, sl))

(* Run node on the committed chunks sl: the node afterwards, and its       *)
(* outputs committed, one chunk per output topic.                          *)
runNode(node, sl) ==
    LET samples == newSamples(node, sl)
        rows == IF samples = <<>> THEN <<>> ELSE emitted(node, samples)
        index(t) == CHOOSE k \in DOMAIN node.outs : node.outs[k] = t
    IN  [node |-> [node EXCEPT !.dirty = FALSE, !.mark = newMark(node, sl),
                               !.got = @ \o samples],
         sealed |-> IF rows = <<>> THEN sl
                    ELSE [t \in Topics |-> IF t \in ToSet(node.outs)
                            THEN commitChunk(sl[t], [id |-> nextChunk + index(t) - 1, rows |-> rows])
                            ELSE sl[t]],
         nextChunk |-> IF rows = <<>> THEN nextChunk ELSE nextChunk + Len(node.outs)]

-----------------------------------------------------------------------------
(* The graph. *)

Exists(n) == n \in DOMAIN nodes

(* Kahn's algorithm.  The state after k nodes were taken from the queue:   *)
(* ready is the queue with the nodes already taken at its front.           *)
SortedIds(S) == Selected([n \in NodeIds |-> n], LAMBDA n : n \in S)

(* Slip: a node that reads two outputs of a node waits for it twice.       *)
in_degree_topics(m) ==
    Cardinality({i \in DOMAIN nodes[m].inputs : output_topic_to_node[nodes[m].inputs[i]] # 0})

in_degree(m) == Cardinality({u \in NodeIds : m \in downstream_of[u]})

topologicalOrder ==
    LET ids == DOMAIN nodes
        start == [ready |-> SortedIds({n \in ids : in_degree(n) = 0}),
                  in_degree |-> [n \in ids |-> in_degree(n)]]
        take(s, n) ==
            LET deg == [m \in ids |-> s.in_degree[m] - (IF m \in downstream_of[n] THEN 1 ELSE 0)]
            IN  [ready |-> s.ready \o SortedIds({m \in downstream_of[n] \cap ids : deg[m] = 0}),
                 in_degree |-> deg]
        run[k \in 0 .. Cardinality(ids)] ==
            IF k = 0 THEN start
            ELSE LET s == run[k - 1]
                 IN  IF k > Len(s.ready) THEN s ELSE take(s, s.ready[k])
    IN  run[Cardinality(ids)].ready

(* Nodes and all they depend on, through output_topic_to_node.             *)
withUpstream(active) ==
    LET producers(S) == {output_topic_to_node[t] :
                            t \in UNION {ToSet(nodes[n].inputs) : n \in S}} \ {0}
        reach[k \in 0 .. MaxNodes] ==
            IF k = 0 THEN active \cap DOMAIN nodes
            ELSE LET S == reach[k - 1] IN S \cup producers(S)
    IN  reach[MaxNodes]

(* The nodes that depend on n.                                             *)
below(n) == {m \in DOMAIN nodes \ {n} : n \in withUpstream({m})}

-----------------------------------------------------------------------------
Init ==
    /\ sealed = [t \in Topics |-> <<>>]
    /\ nextChunk = 1
    /\ pending = [w \in Writers |-> <<>>]
    /\ unnotified = {}
    /\ nodes = <<>>
    /\ nextNode = 1
    /\ nextTopic = NumSources + 1
    /\ topic_to_nodes = [t \in Topics |-> {}]
    /\ output_topic_to_node = [t \in Topics |-> 0]
    /\ downstream_of = [n \in NodeIds |-> {}]
    /\ registered_output_names = [x \in Names |-> 0]
    /\ todo = <<>>
    /\ sealedRows = 0
    /\ recomputes = 0
    /\ replayed = {}

Idle == todo = <<>>

(* A writer seals a chunk of a source topic, and commits it later.         *)
sealSource(w, t, ts) ==
    /\ Idle
    /\ pending[w] = <<>>
    /\ sealedRows + Len(ts) <= MaxRows
    /\ pending' = [pending EXCEPT ![w] = <<[topic |-> t,
           chunk |-> [id |-> nextChunk,
                      rows |-> [i \in DOMAIN ts |-> [ts |-> ts[i], val |-> <<sealedRows + i>>]]]]>>]
    /\ nextChunk' = nextChunk + 1
    /\ sealedRows' = sealedRows + Len(ts)
    /\ UNCHANGED <<sealed, unnotified, nodes, graph, todo, history>>

commitSource(w) ==
    /\ Idle
    /\ pending[w] # <<>>
    /\ sealed' = [sealed EXCEPT ![pending[w][1].topic] = commitChunk(@, pending[w][1].chunk)]
    /\ unnotified' = unnotified \cup {t \in Topics : sealed'[t] # sealed[t]}
    /\ pending' = [pending EXCEPT ![w] = <<>>]
    /\ UNCHANGED <<nextChunk, nodes, graph, todo, sealedRows, history>>

(* The caller's part of a commit cycle: onSourceCommitted with the topics  *)
(* that changed.                                                           *)
onSourceCommitted ==
    /\ Idle
    /\ unnotified # {}
    /\ nodes' = [n \in DOMAIN nodes |->
           [nodes[n] EXCEPT !.dirty = @ \/ \E t \in unnotified : n \in topic_to_nodes[t]]]
    /\ unnotified' = {}
    /\ UNCHANGED <<engine, pending, graph, todo, sealedRows, history>>

(* Registration of a node whose inputs and output names were validated.    *)
addNode(mimo, op, inputs, names) ==
    LET n == nextNode
        outs == [k \in DOMAIN names |-> nextTopic + k - 1]
    IN  /\ nextNode <= MaxNodes
        /\ nextTopic + Len(names) - 1 <= MaxTopics
        /\ nodes' = [m \in DOMAIN nodes \cup {n} |->
               IF m = n THEN NewNode(mimo, op, inputs, outs) ELSE nodes[m]]
        /\ nextNode' = nextNode + 1
        /\ nextTopic' = nextTopic + Len(names)
        /\ topic_to_nodes' = [t \in Topics |->
               topic_to_nodes[t] \cup (IF t \in ToSet(inputs) THEN {n} ELSE {})]
        /\ output_topic_to_node' = [t \in Topics |->
               IF t \in ToSet(outs) THEN n ELSE output_topic_to_node[t]]
        /\ downstream_of' = [m \in NodeIds |->
               downstream_of[m] \cup
                 (IF \E t \in ToSet(inputs) : output_topic_to_node[t] = m THEN {n} ELSE {})]
        /\ registered_output_names' = [x \in Names |->
               IF \E k \in DOMAIN names : names[k] = x
               THEN outs[Max({k \in DOMAIN names : names[k] = x})]
               ELSE registered_output_names[x]]
        /\ replayed' = replayed \cup (IF ToSet(inputs) \cap replayed = {} THEN {} ELSE ToSet(outs))
        /\ UNCHANGED <<engine, source, todo, recomputes>>

(* An input topic that does not exist and an output name in use are        *)
(* errors.  The cycle check runs against no outputs and never fails: the   *)
(* output topics do not exist yet.                                         *)
addSisoTransform(t, name, op) ==
    /\ Idle
    /\ t < nextTopic
    /\ registered_output_names[name] = 0
    /\ addNode(FALSE, op, <<t>>, <<name>>)

addMimoTransform(inputs, names, op) ==
    /\ Idle
    /\ names # <<>>
    /\ \A i \in DOMAIN inputs : inputs[i] < nextTopic
    /\ \A k \in DOMAIN names : registered_output_names[names[k]] = 0
    /\ addNode(TRUE, op, inputs, names)

(* The output topics of a removed node stay in the engine.                 *)
removeNode(n) ==
    /\ Idle
    /\ Exists(n)
    /\ nodes' = [m \in DOMAIN nodes \ {n} |-> nodes[m]]
    /\ topic_to_nodes' = [t \in Topics |-> topic_to_nodes[t] \ {n}]
    /\ output_topic_to_node' = [t \in Topics |->
           IF t \in ToSet(nodes[n].outs) THEN 0 ELSE output_topic_to_node[t]]
    /\ registered_output_names' = [x \in Names |->
           IF registered_output_names[x] \in ToSet(nodes[n].outs) THEN 0
           ELSE registered_output_names[x]]
    /\ downstream_of' = [m \in NodeIds |-> IF m = n THEN {} ELSE downstream_of[m] \ {n}]
    /\ UNCHANGED <<engine, source, nextNode, nextTopic, todo, history>>

(* scheduleActive; scheduleAll is scheduleActive of no node, which means   *)
(* every node.                                                             *)
scheduleActive(active) ==
    /\ Idle
    /\ todo' = IF active = {} THEN topologicalOrder
               ELSE Selected(topologicalOrder, LAMBDA n : n \in withUpstream(active))
    /\ UNCHANGED <<engine, source, nodes, graph, history>>

(* Slip: downstream nodes are not made dirty.                              *)
visitNodeOnly ==
    LET n == todo[1]
        r == runNode(nodes[n], sealed)
    IN  /\ todo # <<>>
        /\ todo' = Tail(todo)
        /\ IF nodes[n].dirty
           THEN /\ nodes' = [nodes EXCEPT ![n] = r.node]
                /\ sealed' = r.sealed
                /\ nextChunk' = r.nextChunk
           ELSE UNCHANGED <<nodes, engine>>
        /\ UNCHANGED <<source, graph, history>>

(* One iteration of its loop: a dirty node runs and makes the nodes that   *)
(* read its outputs dirty.                                                 *)
visitNode ==
    LET n == todo[1]
        r == runNode(nodes[n], sealed)
    IN  /\ todo # <<>>
        /\ todo' = Tail(todo)
        /\ IF nodes[n].dirty
           THEN /\ nodes' = [m \in DOMAIN nodes |->
                      IF m = n THEN r.node
                      ELSE [nodes[m] EXCEPT !.dirty = @ \/ m \in downstream_of[n]]]
                /\ sealed' = r.sealed
                /\ nextChunk' = r.nextChunk
           ELSE UNCHANGED <<nodes, engine>>
        /\ UNCHANGED <<source, graph, history>>

(* recompute_batch: clear the outputs, reset the transform and the         *)
(* watermark, run on the whole history.  Downstream nodes are not told.    *)
recompute_batch(n) ==
    LET cleared == [t \in Topics |-> IF t \in ToSet(nodes[n].outs) THEN <<>> ELSE sealed[t]]
        reset == NewNode(nodes[n].mimo, nodes[n].op, nodes[n].inputs, nodes[n].outs)
        r == runNode(reset, cleared)
    IN  /\ Idle
        /\ Exists(n)
        /\ recomputes < MaxRecomputes
        /\ recomputes' = recomputes + 1
        /\ replayed' =
             (IF ToSet(nodes[n].inputs) \cap replayed = {}
              THEN replayed \ ToSet(nodes[n].outs) ELSE replayed)
             \cup UNION {ToSet(nodes[m].outs) : m \in below(n)}
        /\ nodes' = [nodes EXCEPT ![n] = r.node]
        /\ sealed' = r.sealed
        /\ nextChunk' = r.nextChunk
        /\ UNCHANGED <<source, graph, todo>>

Next ==
    \/ \E w \in Writers : \/ \E t \in 1 .. NumSources, ts \in Batches : sealSource(w, t, ts)
                          \/ commitSource(w)
    \/ onSourceCommitted
    \/ \E op \in Ops :
          \/ \E t \in Topics, name \in Names : addSisoTransform(t, name, op)
          \/ \E s, t \in Topics, names \in NameLists : addMimoTransform(<<s, t>>, names, op)
    \/ \E n \in NodeIds : removeNode(n) \/ recompute_batch(n)
    \/ \E active \in SUBSET DOMAIN nodes : scheduleActive(active)
    \/ visitNode

Spec == Init /\ [][Next]_vars

-----------------------------------------------------------------------------
(* Properties. *)

Row == [ts : Int, val : Seq(Nat)]
Chunk == [id : Nat, rows : Seq(Row)]

(* Type invariant: every variable holds what its declaration says.         *)
TypeOK ==
    /\ sealed \in [Topics -> Seq(Chunk)]
    /\ nextChunk \in Nat \ {0}
    /\ pending \in [Writers -> Seq([topic : Topics, chunk : Chunk])]
    /\ unnotified \subseteq Topics
    /\ DOMAIN nodes \subseteq 1 .. nextNode - 1
    /\ \A n \in DOMAIN nodes :
          nodes[n] \in [mimo : BOOLEAN, op : Ops, inputs : Seq(Topics), outs : Seq(Topics),
                        dirty : BOOLEAN, mark : Int, got : Seq(Row)]
    /\ nextNode \in 1 .. MaxNodes + 1
    /\ nextTopic \in 1 .. MaxTopics + 1
    /\ topic_to_nodes \in [Topics -> SUBSET NodeIds]
    /\ output_topic_to_node \in [Topics -> 0 .. MaxNodes]
    /\ downstream_of \in [NodeIds -> SUBSET NodeIds]
    /\ registered_output_names \in [Names -> 0 .. MaxTopics]
    /\ todo \in Seq(NodeIds)
    /\ sealedRows \in 0 .. MaxRows
    /\ recomputes \in 0 .. MaxRecomputes
    /\ replayed \subseteq Topics

(* The four indexes say what the nodes say, whatever nodes were added and  *)
(* removed in whatever order: a stale entry would make a dead node dirty,  *)
(* hide a dependency or keep a name taken.                                 *)
IndexesAgree ==
    /\ \A t \in Topics :
          /\ topic_to_nodes[t] = {n \in DOMAIN nodes : t \in ToSet(nodes[n].inputs)}
          /\ {n \in DOMAIN nodes : t \in ToSet(nodes[n].outs)} = {output_topic_to_node[t]} \ {0}
    /\ \A n \in NodeIds : downstream_of[n] =
          {m \in DOMAIN nodes : Exists(n) /\ ToSet(nodes[m].inputs) \cap ToSet(nodes[n].outs) # {}}
    /\ {registered_output_names[x] : x \in Names} \ {0} = {t \in Topics : output_topic_to_node[t] # 0}

(* The order in which scheduleActive visits the nodes.                     *)
OrderIsTopological ==
    LET order == topologicalOrder
    IN  /\ ToSet(order) = DOMAIN nodes
        /\ Len(order) = Cardinality(DOMAIN nodes)
        /\ \A i, j \in DOMAIN order : order[j] \in downstream_of[order[i]] => i < j

(* Whatever nodes were added and removed in whatever order, the state is   *)
(* well typed, the four indexes say what the nodes say, and scheduleActive *)
(* visits every node once and after all it depends on.                     *)
GraphConsistent == TypeOK /\ IndexesAgree /\ OrderIsTopological

OncePerSample(node) ==
    \A i, j \in DOMAIN node.got : i < j =>
        /\ node.got[i].ts <= node.got[j].ts
        /\ node.got[i].val # node.got[j].val
        /\ node.mimo => node.got[i].ts < node.got[j].ts

(* The nodes none of whose producers was recomputed under them.            *)
Undisturbed == {n \in DOMAIN nodes : ToSet(nodes[n].outs) \cap replayed = {}}

(* "The engine calls calculate() once per sample": between two resets a    *)
(* transform sees no sample twice and never goes back in time, over chunks *)
(* that arrive while it is not scheduled, subsets that are scheduled and   *)
(* recomputations; a joining transform sees no timestamp twice.  Of every  *)
(* node of which no producer was recomputed under it.  The order is not    *)
(* the strict one that derived_engine.hpp promises: beginRow takes equal   *)
(* timestamps, and run_siso_incremental passes on every row it finds.      *)
SequentialContract == \A n \in Undisturbed : OncePerSample(nodes[n])

(* What a transform should have been called with, from the whole history   *)
(* of its inputs.                                                          *)
Expected(n) ==
    newSamples(NewNode(nodes[n].mimo, nodes[n].op, nodes[n].inputs, nodes[n].outs), sealed)

TimesOf(rows) == [i \in DOMAIN rows |-> rows[i].ts]

(* Incremental equals batch: once every commit was announced and neither a *)
(* node nor anything upstream of it is dirty, the transform was called for *)
(* every sample (every common timestamp) its inputs ever had, and what it  *)
(* emitted is what its output topics hold.  Nodes below a recomputed one   *)
(* are left out until they are recomputed too.                             *)
UpToDate ==
    Idle /\ unnotified = {} =>
    \A n \in Undisturbed : (\A m \in withUpstream({n}) : ~nodes[m].dirty) =>
        LET node == nodes[n]
            all == emitted([node EXCEPT !.got = <<>>], node.got)
        IN  /\ TimesOf(node.got) = TimesOf(Expected(n))
            /\ ~node.mimo => node.got = Expected(n)
            /\ node.got # <<>> => \A t \in ToSet(node.outs) : Rows(sealed[t]) = all
=============================================================================
