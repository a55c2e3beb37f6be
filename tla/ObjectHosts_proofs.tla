------------------------- MODULE ObjectHosts_proofs -------------------------
(***************************************************************************)
(* Proofs about module ObjectHosts, for all stores' contents, budgets,     *)
(* names, times and numbers of readers: every write through a handle of    *)
(* the store it reaches lands under the handle's topic, reads of several   *)
(* steps miss nothing, and fetch contexts are destroyed exactly once.      *)
(*                                                                         *)
(* The inductive invariant has one part per kind of fact: the shape of the *)
(* topic lists, what handles and the bound topic stand for, entries under  *)
(* their topic, what readers know, where contexts are, and the fetches in  *)
(* progress.  Each action is one lemma; those that change a store share    *)
(* the lemmas on what becomes of the contexts.                             *)
(***************************************************************************)
EXTENDS ObjectHosts, SequenceFacts, FiniteSetTheorems, TLAPS

-----------------------------------------------------------------------------
(* The topics of a store: ids, keys and series are distinct.               *)
ShapeInv ==
    /\ \A s \in Stores : \A i, j \in 1 .. Len(topics[s]) :
          topics[s][i].id = topics[s][j].id \/ topics[s][i].key = topics[s][j].key => i = j
    /\ \A s, d \in Stores : \A i \in 1 .. Len(topics[s]), j \in 1 .. Len(topics[d]) :
          topics[s][i].uid = topics[d][j].uid => s = d /\ i = j

(* A handle's id was given out, and names a topic of its key or none.      *)
HandleOK(h) ==
    /\ h.id < nextId[h.store]
    /\ \A i \in 1 .. Len(topics[h.store]) : topics[h.store][i].id = h.id => topics[h.store][i].key = h.key

(* The bound topic in a store that is the parser's target.                 *)
BoundOK(s) ==
    /\ 1 < nextId[s]
    /\ \A i \in 1 .. Len(topics[s]) : topics[s][i].id = 1 => topics[s][i].key = BoundKey

Pushing == call.op \in {"owned", "lazy"}

HandleInv ==
    /\ \A h \in handles : HandleOK(h)
    /\ BoundOK(target["parser"])
    /\ Pushing => call.ts \in Times /\ call.n >= 1
    /\ Pushing /\ call.topic.store = call.store => HandleOK(call.topic)

(* Entries pushed through a handle of their store are under its topic.     *)
EntryInv ==
    \A s \in Stores : \A i \in 1 .. Len(topics[s]) : \A j \in 1 .. Len(topics[s][i].entries) :
        topics[s][i].entries[j].own => topics[s][i].entries[j].key = topics[s][i].key

(* What the reads of several steps know of the topics they started from.   *)
Seen(r, i) == topics[Primary][i].uid \in rd[r].had
Listed(r, i) == \E k \in 1 .. Len(rd[r].ids) : rd[r].ids[k] = topics[Primary][i].id

ReadOK(r) ==
    /\ \A u \in rd[r].had : u <= uids
    /\ rd[r].at \in {"lookup", "compare"} =>
          \A i \in 1 .. Len(topics[Primary]) :
             Seen(r, i) => topics[Primary][i].key.name = rd[r].name /\ Listed(r, i)
    /\ rd[r].at = "compare" =>
          /\ rd[r].ids # <<>>
          /\ \A i \in 1 .. Len(topics[Primary]) :
                Seen(r, i) /\ topics[Primary][i].id = rd[r].ids[1] => topics[Primary][i].uid = rd[r].uid
    /\ rd[r].at = "found" /\ rd[r].ids = <<>> => \A i \in 1 .. Len(topics[Primary]) : ~Seen(r, i)
    /\ rd[r].at = "list" => \A i \in 1 .. Len(topics[Primary]) : Seen(r, i) => i <= rd[r].n
    /\ rd[r].at = "listed" => \A i \in 1 .. Len(topics[Primary]) : Seen(r, i) => Listed(r, i)

ReadInv == \A r \in Readers : ReadOK(r)

(* A fetch context is in one entry of one series, or with the push it was  *)
(* passed to; it was destroyed if and only if it is in neither.            *)
InStore(b) == \E s \in Stores : \E i \in 1 .. Len(topics[s]) : b \in Boxes(topics[s][i].entries)
Held(b) == InStore(b) \/ (call.op = "lazy" /\ call.n = b)

OneEach(entries) ==
    \A i, j \in 1 .. Len(entries) :
        entries[i].lazy /\ entries[j].lazy /\ entries[i].n = entries[j].n => i = j

StoredOnce ==
    /\ \A s \in Stores : \A i \in 1 .. Len(topics[s]) : OneEach(topics[s][i].entries)
    /\ \A s, d \in Stores : \A i \in 1 .. Len(topics[s]), j \in 1 .. Len(topics[d]) :
          \A b \in Boxes(topics[s][i].entries) : b \in Boxes(topics[d][j].entries) => s = d /\ i = j

BoxInv ==
    /\ StoredOnce
    /\ call.op = "lazy" => call.n \in boxes /\ ~InStore(call.n)
    /\ \A b \in 1 .. MaxPushes : InStore(b) => b \in boxes

FreedInv ==
    \A b \in 1 .. MaxPushes : freed[b] = IF b \in boxes /\ ~Held(b) THEN 1 ELSE 0

FetchInv ==
    \A r \in Readers : rd[r].at = "fetch" =>
        \E i \in 1 .. Len(topics[Primary]) :
            topics[Primary][i].uid = rd[r].uid /\ rd[r].n \in Boxes(topics[Primary][i].entries)

(* What the hosts promise of a context, to callers of the raw vtable.      *)
FreeInv == SdkView \/ FreedInv

IndInv == TypeOK /\ ShapeInv /\ HandleInv /\ EntryInv /\ ReadInv /\ BoxInv /\ FetchInv /\ FreeInv
-----------------------------------------------------------------------------
(* Entries and the fetch contexts in them. *)

(* A budget of a call is a window and a size.                              *)
LEMMA BudgetType == AnyBudget \subseteq [window : Nat, bytes : Nat] /\ NoBudget \in AnyBudget
BY HostsAssumption DEF AnyBudget, NoBudget

(* No entries, no contexts.                                                *)
LEMMA BoxesOfNone == Boxes(<<>>) = {} /\ OneEach(<<>>)
BY DEF Boxes, OneEach

(* The contexts of a sequence, in terms of its places.                     *)
LEMMA BoxesAt ==
    ASSUME NEW q \in Seq(Entry)
    PROVE  /\ \A b : b \in Boxes(q) <=> \E i \in 1 .. Len(q) : q[i].lazy /\ q[i].n = b
           /\ Boxes(q) \subseteq 1 .. MaxPushes
           /\ q = <<>> => Boxes(q) = {}
<1>1. DOMAIN q = 1 .. Len(q) /\ \A i \in 1 .. Len(q) : q[i] \in Entry
  OBVIOUS
<1>2. \A b : b \in Boxes(q) <=> \E i \in 1 .. Len(q) : q[i].lazy /\ q[i].n = b
  BY <1>1 DEF Boxes
<1>3. Boxes(q) \subseteq 1 .. MaxPushes
  BY <1>1, <1>2 DEF Entry
<1> QED BY <1>2, <1>3, BoxesOfNone

(* A push adds the context of its entry, if that is lazy.                  *)
LEMMA BoxesPushed ==
    ASSUME NEW q \in Seq(Entry), NEW e \in Entry
    PROVE  /\ Append(q, e) \in Seq(Entry)
           /\ Boxes(Append(q, e)) = Boxes(q) \cup (IF e.lazy THEN {e.n} ELSE {})
           /\ OneEach(q) /\ (e.lazy => e.n \notin Boxes(q)) => OneEach(Append(q, e))
<1> DEFINE r == Append(q, e)
<1>1. /\ r \in Seq(Entry) /\ Len(r) = Len(q) + 1 /\ r[Len(q) + 1] = e
      /\ \A i \in 1 .. Len(q) : r[i] = q[i]
  OBVIOUS
<1>2. Len(q) \in Nat
  OBVIOUS
<1> HIDE DEF r
<1>3. ASSUME NEW b PROVE b \in Boxes(r) <=> b \in Boxes(q) \/ (e.lazy /\ b = e.n)
  <2>1. ASSUME b \in Boxes(r) PROVE b \in Boxes(q) \/ (e.lazy /\ b = e.n)
    <3>1. PICK i \in 1 .. Len(q) + 1 : r[i].lazy /\ r[i].n = b
      BY <1>1, <2>1, BoxesAt
    <3>2. CASE i = Len(q) + 1
      BY <1>1, <3>1, <3>2
    <3>3. CASE i \in 1 .. Len(q)
      BY <1>1, <3>1, <3>3, BoxesAt
    <3> QED BY <1>2, <3>2, <3>3
  <2>2. ASSUME b \in Boxes(q) PROVE b \in Boxes(r)
    <3>1. PICK i \in 1 .. Len(q) : q[i].lazy /\ q[i].n = b
      BY <2>2, BoxesAt
    <3>2. i \in 1 .. Len(r) /\ r[i].lazy /\ r[i].n = b
      BY <1>1, <1>2, <3>1
    <3> QED BY <1>1, <3>2, BoxesAt
  <2>3. ASSUME e.lazy, b = e.n PROVE b \in Boxes(r)
    <3>1. Len(q) + 1 \in 1 .. Len(r)
      BY <1>1, <1>2
    <3> QED BY <1>1, <2>3, <3>1, BoxesAt
  <2> QED BY <2>1, <2>2, <2>3
<1>4. Boxes(r) = Boxes(q) \cup (IF e.lazy THEN {e.n} ELSE {})
  BY <1>3
<1>5. ASSUME OneEach(q), e.lazy => e.n \notin Boxes(q) PROVE OneEach(r)
  <2> SUFFICES ASSUME NEW i \in 1 .. Len(r), NEW j \in 1 .. Len(r),
                      r[i].lazy, r[j].lazy, r[i].n = r[j].n
               PROVE  i = j
    BY DEF OneEach
  <2>1. CASE i \in 1 .. Len(q) /\ j \in 1 .. Len(q)
    BY <1>1, <1>5, <2>1 DEF OneEach
  <2>2. CASE i = Len(q) + 1 /\ j \in 1 .. Len(q)
    BY <1>1, <1>5, <2>2, BoxesAt
  <2>3. CASE j = Len(q) + 1 /\ i \in 1 .. Len(q)
    BY <1>1, <1>5, <2>3, BoxesAt
  <2> QED BY <1>1, <1>2, <2>1, <2>2, <2>3
<1> QED BY <1>1, <1>4, <1>5 DEF r

(* Two sequences joined.                                                   *)
LEMMA BoxesJoined ==
    ASSUME NEW q \in Seq(Entry), NEW r \in Seq(Entry)
    PROVE  /\ q \o r \in Seq(Entry)
           /\ Boxes(q \o r) = Boxes(q) \cup Boxes(r)
           /\ OneEach(q) /\ OneEach(r) /\ Boxes(q) \cap Boxes(r) = {} => OneEach(q \o r)
           /\ OneEach(q \o r) => OneEach(q) /\ OneEach(r) /\ Boxes(q) \cap Boxes(r) = {}
<1> DEFINE t == q \o r
           l == Len(q)
           m == Len(r)
<1>1. /\ t \in Seq(Entry) /\ Len(t) = l + m /\ l \in Nat /\ m \in Nat
      /\ \A i \in 1 .. l : t[i] = q[i]
      /\ \A i \in 1 .. m : t[l + i] = r[i]
  OBVIOUS
<1>2. \A i \in 1 .. l + m : i \in 1 .. l \/ \E k \in 1 .. m : i = l + k
  <2> SUFFICES ASSUME NEW i \in 1 .. l + m, i \notin 1 .. l PROVE \E k \in 1 .. m : i = l + k
    OBVIOUS
  <2>1. i - l \in 1 .. m /\ i = l + (i - l)
    BY <1>1
  <2> QED BY <2>1
<1>3. \A i \in 1 .. l : i \in 1 .. l + m
  BY <1>1
<1>4. \A k \in 1 .. m : l + k \in 1 .. l + m
  BY <1>1
<1> HIDE DEF t, l, m
<1>5. \A b : b \in Boxes(t) <=> \E i \in 1 .. l + m : t[i].lazy /\ t[i].n = b
  BY <1>1, BoxesAt
<1>6. \A b : b \in Boxes(q) <=> \E i \in 1 .. l : q[i].lazy /\ q[i].n = b
  BY BoxesAt DEF l
<1>7. \A b : b \in Boxes(r) <=> \E i \in 1 .. m : r[i].lazy /\ r[i].n = b
  BY BoxesAt DEF m
<1>8. ASSUME NEW b PROVE b \in Boxes(t) <=> b \in Boxes(q) \/ b \in Boxes(r)
  <2>1. ASSUME b \in Boxes(t) PROVE b \in Boxes(q) \/ b \in Boxes(r)
    <3>1. PICK i \in 1 .. l + m : t[i].lazy /\ t[i].n = b
      BY <1>5, <2>1
    <3>2. CASE i \in 1 .. l
      BY <1>1, <1>6, <3>1, <3>2
    <3>3. CASE \E k \in 1 .. m : i = l + k
      BY <1>1, <1>7, <3>1, <3>3, ZenonT(30)
    <3> QED BY <1>2, <3>2, <3>3
  <2>2. ASSUME b \in Boxes(q) PROVE b \in Boxes(t)
    BY <1>1, <1>3, <1>5, <1>6, <2>2
  <2>3. ASSUME b \in Boxes(r) PROVE b \in Boxes(t)
    <3>1. PICK k \in 1 .. m : r[k].lazy /\ r[k].n = b
      BY <1>7, <2>3
    <3>2. t[l + k].lazy /\ t[l + k].n = b
      BY <1>1, <3>1
    <3> QED BY <1>4, <1>5, <3>2
  <2> QED BY <2>1, <2>2, <2>3
<1>9. Boxes(t) = Boxes(q) \cup Boxes(r)
  BY <1>8
<1>10. ASSUME OneEach(q), OneEach(r), Boxes(q) \cap Boxes(r) = {} PROVE OneEach(t)
  <2> SUFFICES ASSUME NEW i \in 1 .. l + m, NEW j \in 1 .. l + m,
                      t[i].lazy, t[j].lazy, t[i].n = t[j].n
               PROVE  i = j
    BY <1>1 DEF OneEach
  <2>1. CASE i \in 1 .. l /\ j \in 1 .. l
    BY <1>1, <1>10, <2>1 DEF OneEach, l
  <2>2. CASE i \in 1 .. l /\ \E k \in 1 .. m : j = l + k
    <3>1. PICK k \in 1 .. m : j = l + k
      BY <2>2
    <3>2. t[i] = q[i] /\ t[j] = r[k]
      BY <1>1, <2>2, <3>1
    <3>3. t[i].n \in Boxes(q) /\ t[i].n \in Boxes(r)
      BY <1>6, <1>7, <2>2, <3>2
    <3> QED BY <1>10, <3>3
  <2>3. CASE j \in 1 .. l /\ \E k \in 1 .. m : i = l + k
    <3>1. PICK k \in 1 .. m : i = l + k
      BY <2>3
    <3>2. t[j] = q[j] /\ t[i] = r[k]
      BY <1>1, <2>3, <3>1
    <3>3. t[i].n \in Boxes(q) /\ t[i].n \in Boxes(r)
      BY <1>6, <1>7, <2>3, <3>2
    <3> QED BY <1>10, <3>3
  <2>4. CASE (\E k \in 1 .. m : i = l + k) /\ (\E k \in 1 .. m : j = l + k)
    <3>1. PICK k \in 1 .. m : i = l + k
      BY <2>4
    <3>2. PICK x \in 1 .. m : j = l + x
      BY <2>4
    <3>3. t[i] = r[k] /\ t[j] = r[x]
      BY <1>1, <3>1, <3>2
    <3>4. k = x
      BY <1>10, <3>3 DEF OneEach, m
    <3> QED BY <3>1, <3>2, <3>4
  <2> QED BY <1>2, <2>1, <2>2, <2>3, <2>4
<1>11. ASSUME OneEach(t) PROVE OneEach(q) /\ OneEach(r) /\ Boxes(q) \cap Boxes(r) = {}
  <2>1. OneEach(q)
    BY <1>1, <1>3, <1>11 DEF OneEach, l
  <2>2. OneEach(r)
    <3> SUFFICES ASSUME NEW i \in 1 .. m, NEW j \in 1 .. m, r[i].lazy, r[j].lazy, r[i].n = r[j].n
                 PROVE  i = j
      BY DEF OneEach, m
    <3>1. l + i = l + j
      BY <1>1, <1>4, <1>11 DEF OneEach
    <3> QED BY <1>1, <3>1
  <2>3. ASSUME NEW b \in Boxes(q), b \in Boxes(r) PROVE FALSE
    <3>1. PICK i \in 1 .. l : q[i].lazy /\ q[i].n = b
      BY <1>6, <2>3
    <3>2. PICK k \in 1 .. m : r[k].lazy /\ r[k].n = b
      BY <1>7, <2>3
    <3>3. i = l + k
      BY <1>1, <1>3, <1>4, <1>11, <3>1, <3>2 DEF OneEach
    <3> QED BY <1>1, <3>3
  <2> QED BY <2>1, <2>2, <2>3
<1> QED BY <1>1, <1>9, <1>10, <1>11 DEF t

(* What an eviction of k entries destroys and what it leaves.              *)
LEMMA BoxesCut ==
    ASSUME NEW q \in Seq(Entry), NEW k \in 0 .. Len(q)
    PROVE  /\ Trim(q, k) \in Seq(Entry) /\ SubSeq(q, 1, k) \in Seq(Entry)
           /\ Boxes(q) = Boxes(SubSeq(q, 1, k)) \cup Boxes(Trim(q, k))
           /\ OneEach(q) => OneEach(Trim(q, k)) /\ Boxes(SubSeq(q, 1, k)) \cap Boxes(Trim(q, k)) = {}
           /\ \A i \in 1 .. Len(Trim(q, k)) : \E j \in 1 .. Len(q) : Trim(q, k)[i] = q[j]
<1> DEFINE a == SubSeq(q, 1, k)
           b == SubSeq(q, k + 1, Len(q))
<1>1. a \in Seq(Entry) /\ b \in Seq(Entry) /\ a \o b = q
  BY SuffixFacts
<1>2. Len(b) = Len(q) - k /\ \A i \in 1 .. Len(q) - k : b[i] = q[k + i]
  BY SuffixFacts
<1>3. Len(q) \in Nat
  OBVIOUS
<1> HIDE DEF a, b
<1>4. \A i \in 1 .. Len(b) : k + i \in 1 .. Len(q) /\ b[i] = q[k + i]
  BY <1>2, <1>3
<1>5. Boxes(q) = Boxes(a) \cup Boxes(b)
  BY <1>1, BoxesJoined
<1>6. OneEach(q) => OneEach(b) /\ Boxes(a) \cap Boxes(b) = {}
  BY <1>1, BoxesJoined
<1> QED BY <1>1, <1>4, <1>5, <1>6 DEF a, b, Trim

(* The least of some numbers.                                              *)
LEMMA MinOf ==
    ASSUME NEW S \in SUBSET Nat, S # {}
    PROVE  Min(S) \in S /\ \A x \in S : Min(S) <= x
<1>1. \E n \in S : \A m \in S : n <= m
  BY LeastNatural
<1> QED BY <1>1 DEF Min

(* Retention takes some of the entries.                                    *)
LEMMA RetentionRange ==
    ASSUME NEW q \in Seq(Entry), NEW budget
    PROVE  applyRetention(q, budget) \in 0 .. Len(q)
<1> DEFINE S == {k \in 0 .. Len(q) :
           k < Len(q) =>
             /\ budget.window > 0 => q[k + 1].ts >= Newest(q) - budget.window
             /\ budget.bytes > 0 => Memory(SubSeq(q, k + 1, Len(q))) <= budget.bytes}
<1>1. Len(q) \in Nat
  OBVIOUS
<1>2. Len(q) \in S
  BY <1>1
<1>3. S \subseteq 0 .. Len(q)
  OBVIOUS
<1>4. applyRetention(q, budget) = Min(S)
  BY DEF applyRetention
<1> HIDE DEF S
<1>5. S \in SUBSET Nat /\ S # {}
  BY <1>1, <1>2, <1>3
<1> QED BY <1>3, <1>4, <1>5, MinOf
-----------------------------------------------------------------------------
(* Steps of a store. *)

Topics == [Stores -> Seq(Series)]

(* Every topic the store has after the step is one it had, no further up   *)
(* the list, or a new one.                                                 *)
Evolves(s) ==
    \A i \in 1 .. Len(topics'[s]) :
        \/ \E j \in 1 .. Len(topics[s]) :
              /\ i <= j
              /\ topics'[s][i].id = topics[s][j].id /\ topics'[s][i].uid = topics[s][j].uid
              /\ topics'[s][i].key = topics[s][j].key
        \/ topics'[s][i].id = nextId[s] /\ topics'[s][i].uid > uids

(* The same topics in the same places; entries and budgets may differ.     *)
SameShape ==
    \A s \in Stores :
        /\ Len(topics'[s]) = Len(topics[s])
        /\ \A i \in 1 .. Len(topics[s]) :
              /\ topics'[s][i].id = topics[s][i].id /\ topics'[s][i].uid = topics[s][i].uid
              /\ topics'[s][i].key = topics[s][i].key

(* What is in a store, place by place.                                     *)
LEMMA TypedTopics ==
    ASSUME topics \in Topics, NEW s \in Stores
    PROVE  /\ topics[s] \in Seq(Series) /\ Len(topics[s]) \in Nat /\ DOMAIN topics[s] = 1 .. Len(topics[s])
           /\ \A i \in 1 .. Len(topics[s]) :
                 /\ topics[s][i] \in Series /\ topics[s][i].id \in Nat /\ topics[s][i].uid \in 1 .. MaxSeries
                 /\ topics[s][i].key \in Keys /\ topics[s][i].entries \in Seq(Entry)
                 /\ topics[s][i].budget \in AnyBudget
<1>1. topics[s] \in Seq(Series)
  BY DEF Topics
<1>2. Len(topics[s]) \in Nat /\ DOMAIN topics[s] = 1 .. Len(topics[s])
  BY <1>1
<1>3. \A i \in 1 .. Len(topics[s]) : topics[s][i] \in Series
  BY <1>1
<1> QED BY <1>1, <1>2, <1>3 DEF Series

(* Topics that stay in their places evolve.                                *)
LEMMA EvolvesIfSame ==
    ASSUME topics \in Topics, SameShape, NEW s \in Stores
    PROVE  Evolves(s)
<1>1. Len(topics[s]) \in Nat
  BY TypedTopics
<1> QED BY <1>1 DEF SameShape, Evolves

(* A step that leaves the stores alone.                                    *)
LEMMA SameIfUnchanged ==
    ASSUME UNCHANGED topics
    PROVE  SameShape
BY DEF SameShape

(* A handle that is good stays good.                                       *)
LEMMA HandleCarried ==
    ASSUME topics \in Topics, NEW h \in Handle, HandleOK(h), Evolves(h.store),
           nextId \in [Stores -> Nat], nextId' \in [Stores -> Nat], nextId'[h.store] >= nextId[h.store]
    PROVE  HandleOK(h)'
<1>1. h.store \in Stores /\ h.id \in Nat /\ nextId[h.store] \in Nat /\ nextId'[h.store] \in Nat
  BY DEF Handle
<1>2. h.id < nextId'[h.store]
  BY <1>1 DEF HandleOK
<1>3. ASSUME NEW i \in 1 .. Len(topics'[h.store]), topics'[h.store][i].id = h.id
      PROVE  topics'[h.store][i].key = h.key
  <2>1. CASE topics'[h.store][i].id = nextId[h.store]
    BY <1>1, <1>3, <2>1 DEF HandleOK
  <2>2. CASE \E j \in 1 .. Len(topics[h.store]) :
              topics'[h.store][i].id = topics[h.store][j].id /\ topics'[h.store][i].key = topics[h.store][j].key
    BY <1>3, <2>2 DEF HandleOK
  <2> QED BY <2>1, <2>2 DEF Evolves
<1> QED BY <1>2, <1>3 DEF HandleOK

(* The bound topic stays the bound topic.                                  *)
LEMMA BoundCarried ==
    ASSUME topics \in Topics, NEW s \in Stores, BoundOK(s), Evolves(s),
           nextId \in [Stores -> Nat], nextId' \in [Stores -> Nat], nextId'[s] >= nextId[s]
    PROVE  BoundOK(s)'
<1>1. nextId[s] \in Nat /\ nextId'[s] \in Nat
  OBVIOUS
<1>2. 1 < nextId'[s]
  BY <1>1 DEF BoundOK
<1>3. ASSUME NEW i \in 1 .. Len(topics'[s]), topics'[s][i].id = 1
      PROVE  topics'[s][i].key = BoundKey
  <2>1. CASE topics'[s][i].id = nextId[s]
    BY <1>1, <1>3, <2>1 DEF BoundOK
  <2>2. CASE \E j \in 1 .. Len(topics[s]) :
              topics'[s][i].id = topics[s][j].id /\ topics'[s][i].key = topics[s][j].key
    BY <1>3, <2>2 DEF BoundOK
  <2> QED BY <2>1, <2>2 DEF Evolves
<1> QED BY <1>2, <1>3 DEF BoundOK

(* What a reader knows stays true while the store changes.                 *)
LEMMA ReadCarried ==
    ASSUME topics \in Topics, rd \in [Readers -> ReadCall], NEW r \in Readers, ReadOK(r), Evolves(Primary),
           uids \in Nat, uids' \in Nat, uids' >= uids, rd'[r] = rd[r]
    PROVE  ReadOK(r)'
<1>1. \A u \in rd[r].had : u \in Nat /\ u <= uids
  BY DEF ReadOK, ReadCall
<1>2. \A u \in rd[r].had : u <= uids'
  BY <1>1
<1>3. ASSUME NEW i \in 1 .. Len(topics'[Primary]), topics'[Primary][i].uid \in rd[r].had
      PROVE  \E j \in 1 .. Len(topics[Primary]) :
                /\ i <= j /\ Seen(r, j)
                /\ topics'[Primary][i].id = topics[Primary][j].id
                /\ topics'[Primary][i].uid = topics[Primary][j].uid
                /\ topics'[Primary][i].key = topics[Primary][j].key
  <2>1. ~(topics'[Primary][i].uid > uids)
    BY <1>1, <1>3
  <2> QED BY <1>3, <2>1 DEF Evolves, Seen
<1>4. ASSUME rd[r].at \in {"lookup", "compare"}, NEW i \in 1 .. Len(topics'[Primary]),
             topics'[Primary][i].uid \in rd[r].had
      PROVE  /\ topics'[Primary][i].key.name = rd[r].name
             /\ \E k \in 1 .. Len(rd[r].ids) : rd[r].ids[k] = topics'[Primary][i].id
  BY <1>3, <1>4 DEF ReadOK, Listed
<1>5. ASSUME rd[r].at = "compare"
      PROVE  /\ rd[r].ids # <<>>
             /\ \A i \in 1 .. Len(topics'[Primary]) :
                   topics'[Primary][i].uid \in rd[r].had /\ topics'[Primary][i].id = rd[r].ids[1]
                   => topics'[Primary][i].uid = rd[r].uid
  BY <1>3, <1>5 DEF ReadOK
<1>6. ASSUME rd[r].at = "found", rd[r].ids = <<>>, NEW i \in 1 .. Len(topics'[Primary])
      PROVE  topics'[Primary][i].uid \notin rd[r].had
  BY <1>3, <1>6 DEF ReadOK
<1>7. ASSUME rd[r].at = "list", NEW i \in 1 .. Len(topics'[Primary]), topics'[Primary][i].uid \in rd[r].had
      PROVE  i <= rd[r].n
  <2>1. PICK j \in 1 .. Len(topics[Primary]) : i <= j /\ Seen(r, j)
    BY <1>3, <1>7
  <2>2. j <= rd[r].n /\ rd[r].n \in Nat
    BY <1>7, <2>1 DEF ReadOK, ReadCall
  <2> QED BY <2>1, <2>2
<1>8. ASSUME rd[r].at = "listed", NEW i \in 1 .. Len(topics'[Primary]), topics'[Primary][i].uid \in rd[r].had
      PROVE  \E k \in 1 .. Len(rd[r].ids) : rd[r].ids[k] = topics'[Primary][i].id
  BY <1>3, <1>8 DEF ReadOK, Listed
<1> QED BY <1>2, <1>4, <1>5, <1>6, <1>7, <1>8 DEF ReadOK, Seen, Listed

(* Ids, keys and series stay distinct.                                     *)
LEMMA ShapeIfSame ==
    ASSUME topics \in Topics, SameShape, ShapeInv
    PROVE  ShapeInv'
<1>1. \A s \in Stores : \A i, j \in 1 .. Len(topics'[s]) :
          topics'[s][i].id = topics'[s][j].id \/ topics'[s][i].key = topics'[s][j].key => i = j
  BY DEF SameShape, ShapeInv
<1>2. \A s, d \in Stores : \A i \in 1 .. Len(topics'[s]), j \in 1 .. Len(topics'[d]) :
          topics'[s][i].uid = topics'[d][j].uid => s = d /\ i = j
  BY DEF SameShape, ShapeInv
<1> QED BY <1>1, <1>2 DEF ShapeInv

(* One series has other entries, and nothing else of the stores changed.   *)
Refilled(s, i, new) ==
    /\ topics'[s][i].entries = new
    /\ \A d \in Stores : \A j \in 1 .. Len(topics[d]) : d # s \/ j # i => topics'[d][j] = topics[d][j]
    /\ \A d \in Stores : Len(topics'[d]) = Len(topics[d])

(* Entries of one series are replaced.                                     *)
LEMMA RefillFacts ==
    ASSUME topics \in Topics, NEW s \in Stores, NEW i \in 1 .. Len(topics[s]), NEW new \in Seq(Entry),
           topics' = [topics EXCEPT ![s][i].entries = new]
    PROVE  topics' \in Topics /\ SameShape /\ Refilled(s, i, new)
<1>0. Stores = {Primary, Secondary}
  BY DEF Stores
<1> DEFINE x == [topics[s][i] EXCEPT !.entries = new]
           q == [topics[s] EXCEPT ![i] = x]
<1>1. topics[s] \in Seq(Series) /\ topics[s][i] \in Series /\ DOMAIN topics[s] = 1 .. Len(topics[s])
  BY TypedTopics
<1>2. /\ x \in Series /\ x.entries = new /\ x.id = topics[s][i].id /\ x.uid = topics[s][i].uid
      /\ x.key = topics[s][i].key
  BY <1>1 DEF Series
<1> HIDE DEF x
<1>3. /\ q \in Seq(Series) /\ Len(q) = Len(topics[s]) /\ q[i] = x
      /\ \A j \in 1 .. Len(topics[s]) : j # i => q[j] = topics[s][j]
  BY <1>1, <1>2
<1>4. topics' = [topics EXCEPT ![s] = q]
  BY <1>1 DEF Topics, x, q
<1> HIDE DEF q
<1>5. topics' \in Topics /\ topics'[s] = q /\ \A d \in Stores : d # s => topics'[d] = topics[d]
  BY <1>3, <1>4 DEF Topics
<1>6. SameShape
  BY <1>2, <1>3, <1>5 DEF SameShape
<1>7. Refilled(s, i, new)
  BY <1>2, <1>3, <1>5 DEF Refilled
<1> QED BY <1>5, <1>6, <1>7

(* A topic is registered.                                                  *)
LEMMA GrownFacts ==
    ASSUME topics \in Topics, ShapeInv, NEW s \in Stores, NEW x \in Series,
           topics' = [topics EXCEPT ![s] = Append(@, x)],
           x.id = nextId[s], x.uid = uids + 1, uids \in Nat, nextId \in [Stores -> Nat],
           \A d \in Stores : \A i \in 1 .. Len(topics[d]) : topics[d][i].uid <= uids,
           \A i \in 1 .. Len(topics[s]) : topics[s][i].id < nextId[s] /\ topics[s][i].key # x.key
    PROVE  /\ topics' \in Topics /\ ShapeInv' /\ \A d \in Stores : Evolves(d)
           /\ Len(topics'[s]) = Len(topics[s]) + 1 /\ topics'[s][Len(topics[s]) + 1] = x
           /\ \A d \in Stores : \A j \in 1 .. Len(topics[d]) : topics'[d][j] = topics[d][j]
           /\ \A d \in Stores : d # s => topics'[d] = topics[d]
<1> DEFINE n == Len(topics[s])
<1>1. topics[s] \in Seq(Series) /\ n \in Nat
  BY TypedTopics
<1>2. topics' \in Topics /\ topics'[s] = Append(topics[s], x) /\ \A d \in Stores : d # s => topics'[d] = topics[d]
  BY <1>1 DEF Topics
<1>3. Len(topics'[s]) = n + 1 /\ topics'[s][n + 1] = x /\ \A j \in 1 .. n : topics'[s][j] = topics[s][j]
  BY <1>1, <1>2
<1>4. \A d \in Stores : \A j \in 1 .. Len(topics[d]) : topics'[d][j] = topics[d][j]
  BY <1>2, <1>3
<1> HIDE DEF n
<1>5. \A d \in Stores : \A j \in 1 .. Len(topics'[d]) : j \in 1 .. Len(topics[d]) \/ (d = s /\ j = n + 1)
  BY <1>1, <1>2, <1>3 DEF n
<1>6. \A d \in Stores : \A i \in 1 .. Len(topics[d]) :
         topics[d][i].uid \in Nat /\ topics[d][i].uid # x.uid /\ (d = s => topics[d][i].id # x.id)
  <2> SUFFICES ASSUME NEW d \in Stores, NEW i \in 1 .. Len(topics[d])
               PROVE  topics[d][i].uid \in Nat /\ topics[d][i].uid # x.uid /\ (d = s => topics[d][i].id # x.id)
    OBVIOUS
  <2>1. topics[d][i].uid \in 1 .. MaxSeries /\ topics[d][i].id \in Nat /\ nextId[d] \in Nat
    BY TypedTopics
  <2> QED BY <2>1
<1>7. \A d \in Stores : \A i, j \in 1 .. Len(topics'[d]) :
          topics'[d][i].id = topics'[d][j].id \/ topics'[d][i].key = topics'[d][j].key => i = j
  <2> SUFFICES ASSUME NEW d \in Stores, NEW i \in 1 .. Len(topics'[d]), NEW j \in 1 .. Len(topics'[d]),
                      topics'[d][i].id = topics'[d][j].id \/ topics'[d][i].key = topics'[d][j].key
               PROVE  i = j
    OBVIOUS
  <2>1. CASE i \in 1 .. Len(topics[d]) /\ j \in 1 .. Len(topics[d])
    BY <1>4, <2>1 DEF ShapeInv
  <2>2. CASE d = s /\ i = n + 1 /\ j \in 1 .. Len(topics[d])
    BY <1>3, <1>4, <1>6, <2>2
  <2>3. CASE d = s /\ j = n + 1 /\ i \in 1 .. Len(topics[d])
    BY <1>3, <1>4, <1>6, <2>3
  <2> QED BY <1>5, <2>1, <2>2, <2>3
<1>8. \A d, e \in Stores : \A i \in 1 .. Len(topics'[d]), j \in 1 .. Len(topics'[e]) :
          topics'[d][i].uid = topics'[e][j].uid => d = e /\ i = j
  <2> SUFFICES ASSUME NEW d \in Stores, NEW e \in Stores, NEW i \in 1 .. Len(topics'[d]),
                      NEW j \in 1 .. Len(topics'[e]), topics'[d][i].uid = topics'[e][j].uid
               PROVE  d = e /\ i = j
    OBVIOUS
  <2>1. CASE i \in 1 .. Len(topics[d]) /\ j \in 1 .. Len(topics[e])
    BY <1>4, <2>1 DEF ShapeInv
  <2>2. CASE d = s /\ i = n + 1 /\ j \in 1 .. Len(topics[e])
    BY <1>3, <1>4, <1>6, <2>2
  <2>3. CASE e = s /\ j = n + 1 /\ i \in 1 .. Len(topics[d])
    BY <1>3, <1>4, <1>6, <2>3
  <2> QED BY <1>5, <2>1, <2>2, <2>3
<1>9. ASSUME NEW d \in Stores PROVE Evolves(d)
  <2> SUFFICES ASSUME NEW i \in 1 .. Len(topics'[d])
               PROVE  \/ \E j \in 1 .. Len(topics[d]) :
                            i <= j /\ topics'[d][i].id = topics[d][j].id /\ topics'[d][i].uid = topics[d][j].uid
                            /\ topics'[d][i].key = topics[d][j].key
                      \/ topics'[d][i].id = nextId[d] /\ topics'[d][i].uid > uids
    BY DEF Evolves
  <2>1. CASE i \in 1 .. Len(topics[d])
    BY <1>4, <2>1
  <2>2. CASE d = s /\ i = n + 1
    BY <1>3, <2>2
  <2> QED BY <1>5, <2>1, <2>2
<1> QED BY <1>2, <1>3, <1>4, <1>7, <1>8, <1>9 DEF n, ShapeInv

(* A topic is removed: those behind it move up.                            *)
LEMMA RemovedFacts ==
    ASSUME topics \in Topics, ShapeInv, NEW s \in Stores, NEW k \in 1 .. Len(topics[s]),
           topics' = [topics EXCEPT ![s] = RemoveAt(@, k)]
    PROVE  /\ topics' \in Topics /\ ShapeInv' /\ \A d \in Stores : Evolves(d)
           /\ \A d \in Stores : d # s => topics'[d] = topics[d]
           /\ \A i \in 1 .. Len(topics'[s]) : \E j \in 1 .. Len(topics[s]) : j # k /\ topics'[s][i] = topics[s][j]
           /\ \A j \in 1 .. Len(topics[s]) : j # k => \E i \in 1 .. Len(topics'[s]) : topics'[s][i] = topics[s][j]
<1> DEFINE n == Len(topics[s])
           q == SubSeq(topics[s], 1, k - 1) \o SubSeq(topics[s], k + 1, n)
           at(i) == IF i < k THEN i ELSE i + 1
<1>1. topics[s] \in Seq(Series) /\ n \in Nat
  BY TypedTopics
<1>2. q \in Seq(Series) /\ Len(q) = n - 1 /\ \A i \in 1 .. n - 1 : q[i] = topics[s][at(i)]
  <2>1. k - 1 \in 0 .. n /\ k \in 0 .. n
    BY <1>1
  <2>2. /\ SubSeq(topics[s], 1, k - 1) \in Seq(Series) /\ Len(SubSeq(topics[s], 1, k - 1)) = k - 1
        /\ \A i \in 1 .. k - 1 : SubSeq(topics[s], 1, k - 1)[i] = topics[s][i]
    BY <1>1, <2>1, SuffixFacts
  <2>3. /\ SubSeq(topics[s], k + 1, n) \in Seq(Series) /\ Len(SubSeq(topics[s], k + 1, n)) = n - k
        /\ \A i \in 1 .. n - k : SubSeq(topics[s], k + 1, n)[i] = topics[s][k + i]
    BY <1>1, <2>1, SuffixFacts
  <2> DEFINE a == SubSeq(topics[s], 1, k - 1)
             b == SubSeq(topics[s], k + 1, n)
  <2> HIDE DEF a, b, n
  <2>4. a \in Seq(Series) /\ b \in Seq(Series) /\ Len(a) = k - 1 /\ Len(b) = n - k /\ q = a \o b
    BY <2>2, <2>3 DEF a, b
  <2> HIDE DEF q
  <2>7. /\ q \in Seq(Series) /\ Len(q) = Len(a) + Len(b)
        /\ \A i \in 1 .. Len(a) : q[i] = a[i]
        /\ \A i \in 1 .. Len(b) : q[Len(a) + i] = b[i]
    BY <2>4, ConcatFacts
  <2>5. q \in Seq(Series) /\ Len(q) = n - 1
    BY <1>1, <2>1, <2>4, <2>7
  <2>6. ASSUME NEW i \in 1 .. n - 1 PROVE q[i] = topics[s][at(i)]
    <3>1. CASE i < k
      <4>1. i \in 1 .. k - 1
        BY <1>1, <2>1, <3>1
      <4>2. q[i] = a[i]
        BY <2>4, <2>7, <4>1
      <4> QED BY <2>2, <3>1, <4>1, <4>2 DEF a
    <3>2. CASE ~(i < k)
      <4>1. i - (k - 1) \in 1 .. n - k /\ i \in Int
        BY <1>1, <2>1, <3>2
      <4>5. (k - 1) + (i - (k - 1)) = i
        BY <2>1, <4>1
      <4>2. q[i] = b[i - (k - 1)]
        BY <2>4, <2>7, <4>1, <4>5
      <4>3. b[i - (k - 1)] = topics[s][k + (i - (k - 1))]
        BY <2>3, <4>1 DEF b
      <4>4. k + (i - (k - 1)) = i + 1
        BY <2>1, <4>1
      <4> QED BY <3>2, <4>2, <4>3, <4>4
    <3> QED BY <3>1, <3>2
  <2> QED BY <2>5, <2>6
<1>3. topics' = [topics EXCEPT ![s] = q]
  BY DEF RemoveAt
<1> HIDE DEF q, n
<1>4. topics' \in Topics /\ topics'[s] = q /\ \A d \in Stores : d # s => topics'[d] = topics[d]
  BY <1>2, <1>3 DEF Topics
<1>5. k \in 1 .. n
  BY DEF n
<1>6. \A i \in 1 .. n - 1 : at(i) \in 1 .. n /\ at(i) # k /\ i <= at(i) /\ topics'[s][i] = topics[s][at(i)]
  BY <1>1, <1>2, <1>4, <1>5
<1>7. \A i, j \in 1 .. n - 1 : at(i) = at(j) => i = j
  BY <1>1, <1>5
<1>8. \A j \in 1 .. n : j # k => \E i \in 1 .. n - 1 : at(i) = j
  <2> SUFFICES ASSUME NEW j \in 1 .. n, j # k PROVE \E i \in 1 .. n - 1 : at(i) = j
    OBVIOUS
  <2>1. CASE j < k
    <3>1. j \in 1 .. n - 1 /\ at(j) = j
      BY <1>1, <1>5, <2>1
    <3> QED BY <3>1
  <2>2. CASE j > k
    <3>1. j - 1 \in 1 .. n - 1 /\ at(j - 1) = j
      BY <1>1, <1>5, <2>2
    <3> QED BY <3>1
  <2> QED BY <1>1, <1>5, <2>1, <2>2
<1> HIDE DEF at
<1>9. Len(topics'[s]) = n - 1
  BY <1>2, <1>4
<1>10. \A d \in Stores : \A i, j \in 1 .. Len(topics'[d]) :
          topics'[d][i].id = topics'[d][j].id \/ topics'[d][i].key = topics'[d][j].key => i = j
  <2> SUFFICES ASSUME NEW d \in Stores, NEW i \in 1 .. Len(topics'[d]), NEW j \in 1 .. Len(topics'[d]),
                      topics'[d][i].id = topics'[d][j].id \/ topics'[d][i].key = topics'[d][j].key
               PROVE  i = j
    OBVIOUS
  <2>1. CASE d # s
    BY <1>4, <2>1 DEF ShapeInv
  <2>2. CASE d = s
    <3>1. at(i) = at(j)
      BY <1>6, <1>9, <2>2 DEF ShapeInv, n
    <3> QED BY <1>7, <1>9, <2>2, <3>1
  <2> QED BY <2>1, <2>2
<1>11. \A d, e \in Stores : \A i \in 1 .. Len(topics'[d]), j \in 1 .. Len(topics'[e]) :
          topics'[d][i].uid = topics'[e][j].uid => d = e /\ i = j
  <2> SUFFICES ASSUME NEW d \in Stores, NEW e \in Stores, NEW i \in 1 .. Len(topics'[d]),
                      NEW j \in 1 .. Len(topics'[e]), topics'[d][i].uid = topics'[e][j].uid
               PROVE  d = e /\ i = j
    OBVIOUS
  <2>1. PICK x \in 1 .. Len(topics[d]) : topics'[d][i] = topics[d][x] /\ (d # s => x = i) /\ (d = s => x = at(i))
    BY <1>4, <1>6, <1>9 DEF n
  <2>2. PICK y \in 1 .. Len(topics[e]) : topics'[e][j] = topics[e][y] /\ (e # s => y = j) /\ (e = s => y = at(j))
    BY <1>4, <1>6, <1>9 DEF n
  <2>3. d = e /\ x = y
    BY <2>1, <2>2 DEF ShapeInv
  <2> QED BY <1>7, <1>9, <2>1, <2>2, <2>3
<1>12. ASSUME NEW d \in Stores PROVE Evolves(d)
  <2>1. CASE d # s
    <3>1. Len(topics[d]) \in Nat
      BY TypedTopics
    <3> QED BY <1>4, <2>1, <3>1 DEF Evolves
  <2>2. CASE d = s
    BY <1>6, <1>9, <2>2 DEF Evolves, n
  <2> QED BY <2>1, <2>2
<1>13. \A i \in 1 .. Len(topics'[s]) : \E j \in 1 .. Len(topics[s]) : j # k /\ topics'[s][i] = topics[s][j]
  BY <1>6, <1>9 DEF n
<1>14. \A j \in 1 .. Len(topics[s]) : j # k => \E i \in 1 .. Len(topics'[s]) : topics'[s][i] = topics[s][j]
  BY <1>6, <1>8, <1>9 DEF n
<1> QED BY <1>4, <1>10, <1>11, <1>12, <1>13, <1>14 DEF ShapeInv
-----------------------------------------------------------------------------
(* Fetch contexts through the steps of a store. *)

(* Each context that is in neither place any more is destroyed, once.      *)
LEMMA FreedStep ==
    ASSUME FreedInv, freed \in [1 .. MaxPushes -> Nat], UNCHANGED boxes, NEW gone, freed' = Destroy(gone),
           \A b \in gone : b \in boxes /\ Held(b) /\ ~Held(b)',
           \A b \in 1 .. MaxPushes : b \notin gone => (Held(b)' <=> Held(b))
    PROVE  FreedInv' /\ freed' \in [1 .. MaxPushes -> Nat]
<1>1. DOMAIN freed = 1 .. MaxPushes
  OBVIOUS
<1>2. freed' = [b \in 1 .. MaxPushes |-> IF b \in gone THEN freed[b] + 1 ELSE freed[b]]
  BY <1>1 DEF Destroy
<1>3. freed' \in [1 .. MaxPushes -> Nat]
  BY <1>2
<1>4. ASSUME NEW b \in 1 .. MaxPushes
      PROVE  freed'[b] = IF b \in boxes' /\ ~Held(b)' THEN 1 ELSE 0
  <2>1. freed'[b] = IF b \in gone THEN freed[b] + 1 ELSE freed[b]
    BY <1>2
  <2>2. freed[b] = IF b \in boxes /\ ~Held(b) THEN 1 ELSE 0
    BY DEF FreedInv
  <2>3. CASE b \in gone
    BY <2>1, <2>2, <2>3
  <2>4. CASE b \notin gone
    BY <2>1, <2>2, <2>4
  <2> QED BY <2>3, <2>4
<1> QED BY <1>3, <1>4 DEF FreedInv

(* Destruction counts.                                                     *)
LEMMA DestroyType ==
    ASSUME freed \in [1 .. MaxPushes -> Nat], NEW gone
    PROVE  Destroy(gone) \in [1 .. MaxPushes -> Nat]
BY DEF Destroy

(* A context is in one series.                                             *)
LEMMA OnePlace ==
    ASSUME StoredOnce, NEW s \in Stores, NEW d \in Stores, NEW i \in 1 .. Len(topics[s]),
           NEW j \in 1 .. Len(topics[d]), NEW b, b \in Boxes(topics[s][i].entries),
           b \in Boxes(topics[d][j].entries)
    PROVE  s = d /\ i = j
BY DEF StoredOnce

(* Entries of one series are replaced by some of its own and some that no  *)
(* store has.                                                              *)
LEMMA RefillBoxes ==
    ASSUME topics \in Topics, StoredOnce, NEW s \in Stores, NEW i \in 1 .. Len(topics[s]),
           NEW new \in Seq(Entry), Refilled(s, i, new), OneEach(new),
           NEW extra, \A b \in extra : ~InStore(b),
           Boxes(new) \subseteq Boxes(topics[s][i].entries) \cup extra
    PROVE  /\ StoredOnce'
           /\ \A b : InStore(b)' <=> b \in Boxes(new) \/ (InStore(b) /\ b \notin Boxes(topics[s][i].entries))
<1>1. /\ topics'[s][i].entries = new
      /\ \A d \in Stores : \A j \in 1 .. Len(topics[d]) : d # s \/ j # i => topics'[d][j] = topics[d][j]
      /\ \A d \in Stores : Len(topics'[d]) = Len(topics[d])
  BY DEF Refilled
<1>2. \A d \in Stores : \A j \in 1 .. Len(topics[d]) :
         d # s \/ j # i => Boxes(new) \cap Boxes(topics[d][j].entries) = {}
  <2> SUFFICES ASSUME NEW d \in Stores, NEW j \in 1 .. Len(topics[d]), d # s \/ j # i,
                      NEW b \in Boxes(new), b \in Boxes(topics[d][j].entries)
               PROVE  FALSE
    OBVIOUS
  <2>1. InStore(b)
    BY DEF InStore
  <2>2. b \in Boxes(topics[s][i].entries)
    BY <2>1
  <2> QED BY <2>2 DEF StoredOnce
<1>3. \A d \in Stores : \A j \in 1 .. Len(topics'[d]) : OneEach(topics'[d][j].entries)
  BY <1>1 DEF StoredOnce
<1>4. ASSUME NEW d \in Stores, NEW e \in Stores, NEW j \in 1 .. Len(topics'[d]), NEW k \in 1 .. Len(topics'[e]),
             NEW b \in Boxes(topics'[d][j].entries), b \in Boxes(topics'[e][k].entries)
      PROVE  d = e /\ j = k
  <2>1. CASE (d # s \/ j # i) /\ (e # s \/ k # i)
    <3>1. topics'[d][j] = topics[d][j] /\ j \in 1 .. Len(topics[d])
      BY <1>1, <2>1
    <3>2. topics'[e][k] = topics[e][k] /\ k \in 1 .. Len(topics[e])
      BY <1>1, <2>1
    <3>3. b \in Boxes(topics[d][j].entries) /\ b \in Boxes(topics[e][k].entries)
      BY <1>4, <3>1, <3>2
    <3>4. j \in 1 .. Len(topics[d]) /\ k \in 1 .. Len(topics[e])
      BY <3>1, <3>2
    <3> QED BY ONLY StoredOnce, d \in Stores, e \in Stores, <3>3, <3>4, OnePlace
  <2>2. CASE d = s /\ j = i /\ (e # s \/ k # i)
    BY <1>1, <1>2, <1>4, <2>2
  <2>3. CASE e = s /\ k = i /\ (d # s \/ j # i)
    BY <1>1, <1>2, <1>4, <2>3
  <2> QED BY <2>1, <2>2, <2>3
<1>5. ASSUME NEW b PROVE InStore(b)' <=> b \in Boxes(new) \/ (InStore(b) /\ b \notin Boxes(topics[s][i].entries))
  <2>1. ASSUME InStore(b)' PROVE b \in Boxes(new) \/ (InStore(b) /\ b \notin Boxes(topics[s][i].entries))
    <3>0. PICK d \in Stores : \E j \in 1 .. Len(topics'[d]) : b \in Boxes(topics'[d][j].entries)
      BY <2>1 DEF InStore
    <3>1. PICK j \in 1 .. Len(topics'[d]) : b \in Boxes(topics'[d][j].entries)
      BY <3>0
    <3>2. CASE d = s /\ j = i
      BY <1>1, <3>1, <3>2
    <3>3. CASE d # s \/ j # i
      <4>1. j \in 1 .. Len(topics[d]) /\ b \in Boxes(topics[d][j].entries)
        BY <1>1, <3>1, <3>3
      <4>2. b \notin Boxes(topics[s][i].entries)
        BY <3>3, <4>1 DEF StoredOnce
      <4> QED BY <4>1, <4>2 DEF InStore
    <3> QED BY <3>2, <3>3
  <2>2. ASSUME b \in Boxes(new) PROVE InStore(b)'
    BY <1>1, <2>2 DEF InStore
  <2>3. ASSUME InStore(b), b \notin Boxes(topics[s][i].entries) PROVE InStore(b)'
    <3>0. PICK d \in Stores : \E j \in 1 .. Len(topics[d]) : b \in Boxes(topics[d][j].entries)
      BY <2>3 DEF InStore
    <3>1. PICK j \in 1 .. Len(topics[d]) : b \in Boxes(topics[d][j].entries)
      BY <3>0
    <3>2. d # s \/ j # i
      BY <2>3, <3>1
    <3>3. j \in 1 .. Len(topics'[d]) /\ b \in Boxes(topics'[d][j].entries)
      BY <1>1, <3>1, <3>2
    <3> QED BY <3>3 DEF InStore
  <2> QED BY <2>1, <2>2, <2>3
<1> QED BY <1>3, <1>4, <1>5 DEF StoredOnce

(* An entry is appended, and retention takes k of the first.               *)
LEMMA PushBoxes ==
    ASSUME topics \in Topics, StoredOnce, NEW s \in Stores, NEW i \in 1 .. Len(topics[s]), NEW e \in Entry,
           e.lazy => ~InStore(e.n),
           NEW k \in 0 .. Len(topics[s][i].entries) + 1,
           topics' = [topics EXCEPT ![s][i].entries = Trim(Append(topics[s][i].entries, e), k)]
    PROVE  LET all == Append(topics[s][i].entries, e)
               gone == Boxes(SubSeq(all, 1, k))
           IN  /\ all \in Seq(Entry) /\ Trim(all, k) \in Seq(Entry)
               /\ StoredOnce'
               /\ \A b \in gone : (InStore(b) \/ (e.lazy /\ b = e.n)) /\ ~InStore(b)'
               /\ \A b : b \notin gone => (InStore(b)' <=> InStore(b) \/ (e.lazy /\ b = e.n))
<1> DEFINE old == topics[s][i].entries
           all == Append(old, e)
           gone == Boxes(SubSeq(all, 1, k))
           left == Boxes(Trim(all, k))
           extra == IF e.lazy THEN {e.n} ELSE {}
<1>0. old \in Seq(Entry)
  BY TypedTopics
<1>2. OneEach(old)
  BY DEF StoredOnce
<1>3. \A b \in Boxes(old) : InStore(b)
  BY DEF InStore
<1>4. all \in Seq(Entry) /\ Len(all) = Len(old) + 1 /\ Boxes(all) = Boxes(old) \cup extra /\ OneEach(all)
  BY <1>0, <1>2, <1>3, BoxesPushed
<1>5. k \in 0 .. Len(all)
  BY <1>4
<1> HIDE DEF all, old
<1>6. /\ Trim(all, k) \in Seq(Entry) /\ Boxes(all) = gone \cup left
      /\ OneEach(Trim(all, k)) /\ gone \cap left = {}
  BY <1>4, <1>5, BoxesCut
<1>7. topics' = [topics EXCEPT ![s][i].entries = Trim(all, k)]
  BY DEF all, old
<1>8. left \subseteq Boxes(old) \cup extra
  BY <1>4, <1>6
<1>9. \A b \in extra : ~InStore(b)
  OBVIOUS
<1>10. /\ StoredOnce'
       /\ \A b : InStore(b)' <=> b \in left \/ (InStore(b) /\ b \notin Boxes(old))
  <2> DEFINE new == Trim(all, k)
  <2>1. new \in Seq(Entry) /\ OneEach(new) /\ topics' = [topics EXCEPT ![s][i].entries = new]
        /\ Boxes(new) \subseteq Boxes(topics[s][i].entries) \cup extra
    BY <1>6, <1>7, <1>8 DEF old
  <2> HIDE DEF new, extra
  <2>3. Refilled(s, i, new)
    BY <2>1, RefillFacts
  <2>2. /\ StoredOnce'
        /\ \A b : InStore(b)' <=> b \in Boxes(new) \/ (InStore(b) /\ b \notin Boxes(topics[s][i].entries))
    BY <1>9, <2>1, <2>3, RefillBoxes
  <2> QED BY <2>2 DEF new, old
<1>11. \A b \in gone : (InStore(b) \/ b \in extra) /\ ~InStore(b)'
  BY <1>3, <1>4, <1>6, <1>10 DEF old
<1>12. \A b : b \notin gone => (InStore(b)' <=> InStore(b) \/ b \in extra)
  BY <1>3, <1>4, <1>6, <1>10 DEF old
<1> QED BY <1>4, <1>6, <1>10, <1>11, <1>12 DEF all, old

(* The first k entries are evicted.                                        *)
LEMMA EvictBoxes ==
    ASSUME topics \in Topics, StoredOnce, NEW s \in Stores, NEW i \in 1 .. Len(topics[s]),
           NEW k \in 0 .. Len(topics[s][i].entries),
           topics' = [topics EXCEPT ![s][i].entries = Trim(topics[s][i].entries, k)]
    PROVE  LET gone == Boxes(SubSeq(topics[s][i].entries, 1, k))
           IN  /\ Trim(topics[s][i].entries, k) \in Seq(Entry)
               /\ StoredOnce'
               /\ \A b \in gone : InStore(b) /\ ~InStore(b)'
               /\ \A b : b \notin gone => (InStore(b)' <=> InStore(b))
<1> DEFINE old == topics[s][i].entries
           gone == Boxes(SubSeq(old, 1, k))
           new == Trim(old, k)
<1>0. old \in Seq(Entry)
  BY TypedTopics
<1>1. OneEach(old)
  BY DEF StoredOnce
<1>2. \A b \in Boxes(old) : InStore(b)
  BY DEF InStore
<1>3. new \in Seq(Entry) /\ Boxes(old) = gone \cup Boxes(new) /\ OneEach(new) /\ gone \cap Boxes(new) = {}
  BY <1>0, <1>1, BoxesCut
<1>4. topics' = [topics EXCEPT ![s][i].entries = new]
  OBVIOUS
<1>5. Boxes(new) \subseteq Boxes(topics[s][i].entries) \cup {}
  BY <1>3
<1> HIDE DEF new
<1>6. /\ StoredOnce'
      /\ \A b : InStore(b)' <=> b \in Boxes(new) \/ (InStore(b) /\ b \notin Boxes(old))
  <2>1. Refilled(s, i, new)
    BY <1>3, <1>4, RefillFacts
  <2> QED BY <1>3, <1>5, <2>1, RefillBoxes
<1>7. \A b \in gone : InStore(b) /\ ~InStore(b)'
  BY <1>2, <1>3, <1>6
<1>8. \A b : b \notin gone => (InStore(b)' <=> InStore(b))
  BY <1>2, <1>3, <1>6
<1> QED BY <1>3, <1>6, <1>7, <1>8 DEF new

(* No entries move.                                                        *)
LEMMA SameBoxes ==
    ASSUME StoredOnce, \A d \in Stores : Len(topics'[d]) = Len(topics[d]),
           \A d \in Stores : \A j \in 1 .. Len(topics[d]) : topics'[d][j].entries = topics[d][j].entries
    PROVE  StoredOnce' /\ \A b : InStore(b)' <=> InStore(b)
<1>1. \A d \in Stores : \A j \in 1 .. Len(topics'[d]) : OneEach(topics'[d][j].entries)
  BY DEF StoredOnce
<1>2. ASSUME NEW d \in Stores, NEW e \in Stores, NEW j \in 1 .. Len(topics'[d]), NEW k \in 1 .. Len(topics'[e]),
             NEW b \in Boxes(topics'[d][j].entries), b \in Boxes(topics'[e][k].entries)
      PROVE  d = e /\ j = k
  <2>1. j \in 1 .. Len(topics[d]) /\ b \in Boxes(topics[d][j].entries)
    OBVIOUS
  <2>2. k \in 1 .. Len(topics[e]) /\ b \in Boxes(topics[e][k].entries)
    BY <1>2
  <2> QED BY ONLY StoredOnce, d \in Stores, e \in Stores, <2>1, <2>2, OnePlace
<1>3. \A b : InStore(b)' <=> InStore(b)
  BY DEF InStore
<1> QED BY <1>1, <1>2, <1>3 DEF StoredOnce

(* A topic without entries is added.                                       *)
LEMMA GrownBoxes ==
    ASSUME topics \in Topics, StoredOnce, NEW s \in Stores, NEW x, x.entries = <<>>,
           Len(topics'[s]) = Len(topics[s]) + 1, topics'[s][Len(topics[s]) + 1] = x,
           \A d \in Stores : \A j \in 1 .. Len(topics[d]) : topics'[d][j] = topics[d][j],
           \A d \in Stores : d # s => topics'[d] = topics[d]
    PROVE  StoredOnce' /\ \A b : InStore(b)' <=> InStore(b)
<1> DEFINE n == Len(topics[s])
<1>1. n \in Nat
  BY TypedTopics
<1>2. \A d \in Stores : \A j \in 1 .. Len(topics'[d]) :
         \/ j \in 1 .. Len(topics[d]) /\ topics'[d][j] = topics[d][j]
         \/ topics'[d][j].entries = <<>>
  <2> SUFFICES ASSUME NEW d \in Stores, NEW j \in 1 .. Len(topics'[d]), j \notin 1 .. Len(topics[d])
               PROVE  topics'[d][j].entries = <<>>
    OBVIOUS
  <2>1. d = s /\ j = n + 1
    BY <1>1
  <2> QED BY <2>1
<1>3. \A d \in Stores : Len(topics[d]) \in Nat /\ \A j \in 1 .. Len(topics[d]) : j \in 1 .. Len(topics'[d])
  <2> SUFFICES ASSUME NEW d \in Stores
               PROVE  Len(topics[d]) \in Nat /\ \A j \in 1 .. Len(topics[d]) : j \in 1 .. Len(topics'[d])
    OBVIOUS
  <2>1. Len(topics[d]) \in Nat
    BY TypedTopics
  <2> QED BY <2>1
<1> HIDE DEF n
<1>4. \A d \in Stores : \A j \in 1 .. Len(topics'[d]) : OneEach(topics'[d][j].entries)
  BY <1>2, BoxesOfNone DEF StoredOnce
<1>5. ASSUME NEW d \in Stores, NEW e \in Stores, NEW j \in 1 .. Len(topics'[d]), NEW k \in 1 .. Len(topics'[e]),
             NEW b \in Boxes(topics'[d][j].entries), b \in Boxes(topics'[e][k].entries)
      PROVE  d = e /\ j = k
  <2>1. j \in 1 .. Len(topics[d]) /\ b \in Boxes(topics[d][j].entries)
    BY <1>2, BoxesOfNone
  <2>2. k \in 1 .. Len(topics[e]) /\ b \in Boxes(topics[e][k].entries)
    BY <1>2, <1>5, BoxesOfNone
  <2> QED BY ONLY StoredOnce, d \in Stores, e \in Stores, <2>1, <2>2, OnePlace
<1>6. \A b : InStore(b)' <=> InStore(b)
  BY <1>2, <1>3, BoxesOfNone DEF InStore
<1> QED BY <1>4, <1>5, <1>6 DEF StoredOnce

(* A topic leaves with its entries.                                        *)
LEMMA RemovedBoxes ==
    ASSUME topics \in Topics, StoredOnce, ShapeInv, NEW s \in Stores, NEW k \in 1 .. Len(topics[s]),
           topics' = [topics EXCEPT ![s] = RemoveAt(@, k)]
    PROVE  LET gone == Boxes(topics[s][k].entries)
           IN  /\ StoredOnce'
               /\ \A b \in gone : InStore(b) /\ ~InStore(b)'
               /\ \A b : b \notin gone => (InStore(b)' <=> InStore(b))
<1> DEFINE gone == Boxes(topics[s][k].entries)
<1>1. /\ ShapeInv'
      /\ \A d \in Stores : d # s => topics'[d] = topics[d]
      /\ \A i \in 1 .. Len(topics'[s]) : \E j \in 1 .. Len(topics[s]) : j # k /\ topics'[s][i] = topics[s][j]
      /\ \A j \in 1 .. Len(topics[s]) : j # k => \E i \in 1 .. Len(topics'[s]) : topics'[s][i] = topics[s][j]
  BY RemovedFacts
<1>2. \A d \in Stores : \A i \in 1 .. Len(topics'[d]) : \E j \in 1 .. Len(topics[d]) :
         (d # s \/ j # k) /\ topics'[d][i] = topics[d][j]
  <2> SUFFICES ASSUME NEW d \in Stores, NEW i \in 1 .. Len(topics'[d])
               PROVE  \E j \in 1 .. Len(topics[d]) : (d # s \/ j # k) /\ topics'[d][i] = topics[d][j]
    OBVIOUS
  <2>1. CASE d = s
    <3>1. PICK j \in 1 .. Len(topics[s]) : j # k /\ topics'[s][i] = topics[s][j]
      BY <1>1, <2>1
    <3> QED BY <2>1, <3>1
  <2>2. CASE d # s
    <3>1. topics'[d] = topics[d] /\ i \in 1 .. Len(topics[d])
      BY <1>1, <2>2
    <3> QED BY <2>2, <3>1
  <2> QED BY <2>1, <2>2
<1>3. \A d \in Stores : \A j \in 1 .. Len(topics[d]) : d # s \/ j # k =>
         \E i \in 1 .. Len(topics'[d]) : topics'[d][i] = topics[d][j]
  BY <1>1
<1>4. \A d \in Stores : \A j \in 1 .. Len(topics'[d]) : OneEach(topics'[d][j].entries)
  BY <1>2 DEF StoredOnce
<1>5. ASSUME NEW d \in Stores, NEW e \in Stores, NEW i \in 1 .. Len(topics'[d]), NEW j \in 1 .. Len(topics'[e]),
             NEW b \in Boxes(topics'[d][i].entries), b \in Boxes(topics'[e][j].entries)
      PROVE  d = e /\ i = j
  <2>1. PICK x \in 1 .. Len(topics[d]) : topics'[d][i] = topics[d][x]
    BY <1>2
  <2>2. PICK y \in 1 .. Len(topics[e]) : topics'[e][j] = topics[e][y]
    BY <1>2
  <2>3. d = e /\ x = y
    <3>1. b \in Boxes(topics[d][x].entries) /\ b \in Boxes(topics[e][y].entries)
      BY <1>5, <2>1, <2>2
    <3> QED BY <3>1, OnePlace
  <2>4. topics'[d][i].uid = topics'[e][j].uid
    BY <2>1, <2>2, <2>3
  <2>5. ASSUME ShapeInv', topics'[d][i].uid = topics'[e][j].uid PROVE d = e /\ i = j
    BY <2>5 DEF ShapeInv
  <2> QED BY <1>1, <2>4, <2>5
<1>6. \A b \in gone : InStore(b)
  BY DEF InStore
<1>7. ASSUME NEW b \in gone, InStore(b)' PROVE FALSE
  <2>0. PICK d \in Stores : \E i \in 1 .. Len(topics'[d]) : b \in Boxes(topics'[d][i].entries)
    BY <1>7 DEF InStore
  <2>1. PICK i \in 1 .. Len(topics'[d]) : b \in Boxes(topics'[d][i].entries)
    BY <2>0
  <2>2. PICK j \in 1 .. Len(topics[d]) : (d # s \/ j # k) /\ topics'[d][i] = topics[d][j]
    BY <1>2
  <2>3. b \in Boxes(topics[d][j].entries) /\ b \in Boxes(topics[s][k].entries)
    BY <1>7, <2>1, <2>2
  <2> QED BY <2>2, <2>3 DEF StoredOnce
<1>8. ASSUME NEW b, b \notin gone PROVE InStore(b)' <=> InStore(b)
  <2>1. ASSUME InStore(b)' PROVE InStore(b)
    BY <1>2, <2>1 DEF InStore
  <2>2. ASSUME InStore(b) PROVE InStore(b)'
    <3>0. PICK d \in Stores : \E j \in 1 .. Len(topics[d]) : b \in Boxes(topics[d][j].entries)
      BY <2>2 DEF InStore
    <3>1. PICK j \in 1 .. Len(topics[d]) : b \in Boxes(topics[d][j].entries)
      BY <3>0
    <3>2. d # s \/ j # k
      BY <1>8, <3>1
    <3> QED BY <1>3, <3>1, <3>2 DEF InStore
  <2> QED BY <2>1, <2>2
<1> QED BY <1>4, <1>5, <1>6, <1>7, <1>8 DEF StoredOnce

(* A store is emptied.                                                     *)
LEMMA ClearedBoxes ==
    ASSUME topics \in Topics, StoredOnce, ShapeInv, NEW s \in Stores, topics' = [topics EXCEPT ![s] = <<>>]
    PROVE  /\ topics' \in Topics /\ StoredOnce' /\ ShapeInv' /\ \A d \in Stores : Evolves(d)
           /\ topics'[s] = <<>> /\ \A d \in Stores : d # s => topics'[d] = topics[d]
           /\ \A b \in BoxesOf(s) : InStore(b) /\ ~InStore(b)'
           /\ \A b : b \notin BoxesOf(s) => (InStore(b)' <=> InStore(b))
<1>1. topics' \in Topics /\ topics'[s] = <<>> /\ \A d \in Stores : d # s => topics'[d] = topics[d]
  BY DEF Topics
<1>2. \A d \in Stores : \A j \in 1 .. Len(topics'[d]) : d # s /\ j \in 1 .. Len(topics[d]) /\ topics'[d][j] = topics[d][j]
  BY <1>1
<1>3. StoredOnce'
  <2>1. \A d \in Stores : \A j \in 1 .. Len(topics'[d]) : OneEach(topics'[d][j].entries)
    BY <1>2 DEF StoredOnce
  <2>2. ASSUME NEW d \in Stores, NEW e \in Stores, NEW j \in 1 .. Len(topics'[d]), NEW k \in 1 .. Len(topics'[e]),
               NEW b \in Boxes(topics'[d][j].entries), b \in Boxes(topics'[e][k].entries)
        PROVE  d = e /\ j = k
    <3>1. j \in 1 .. Len(topics[d]) /\ b \in Boxes(topics[d][j].entries)
      BY <1>2
    <3>2. k \in 1 .. Len(topics[e]) /\ b \in Boxes(topics[e][k].entries)
      BY <1>2, <2>2
    <3> QED BY <3>1, <3>2, OnePlace
  <2> QED BY <2>1, <2>2 DEF StoredOnce
<1>4. ShapeInv'
  BY <1>2 DEF ShapeInv
<1>5. ASSUME NEW d \in Stores PROVE Evolves(d)
  <2>1. Len(topics[d]) \in Nat
    BY TypedTopics
  <2> QED BY <1>2, <2>1 DEF Evolves
<1>6. \A b : b \in BoxesOf(s) <=> \E i \in 1 .. Len(topics[s]) : b \in Boxes(topics[s][i].entries)
  <2>1. DOMAIN topics[s] = 1 .. Len(topics[s])
    BY TypedTopics
  <2> QED BY <2>1 DEF BoxesOf
<1>7. ASSUME NEW b \in BoxesOf(s) PROVE InStore(b) /\ ~InStore(b)'
  <2>1. PICK i \in 1 .. Len(topics[s]) : b \in Boxes(topics[s][i].entries)
    BY <1>6
  <2>2. InStore(b)
    BY <2>1 DEF InStore
  <2>3. ASSUME InStore(b)' PROVE FALSE
    <3>0. PICK d \in Stores : \E j \in 1 .. Len(topics'[d]) : b \in Boxes(topics'[d][j].entries)
      BY <2>3 DEF InStore
    <3>1. PICK j \in 1 .. Len(topics'[d]) : b \in Boxes(topics'[d][j].entries)
      BY <3>0
    <3>2. d # s /\ j \in 1 .. Len(topics[d]) /\ b \in Boxes(topics[d][j].entries)
      BY <1>2, <3>1
    <3>3. b \in Boxes(topics[d][j].entries) /\ b \in Boxes(topics[s][i].entries)
      BY <2>1, <3>2
    <3> QED BY <3>2, <3>3 DEF StoredOnce
  <2> QED BY <2>2, <2>3
<1>8. ASSUME NEW b, b \notin BoxesOf(s) PROVE InStore(b)' <=> InStore(b)
  <2>1. ASSUME InStore(b)' PROVE InStore(b)
    BY <1>2, <2>1 DEF InStore
  <2>2. ASSUME InStore(b) PROVE InStore(b)'
    <3>0. PICK d \in Stores : \E j \in 1 .. Len(topics[d]) : b \in Boxes(topics[d][j].entries)
      BY <2>2 DEF InStore
    <3>1. PICK j \in 1 .. Len(topics[d]) : b \in Boxes(topics[d][j].entries)
      BY <3>0
    <3>2. d # s
      BY <1>6, <1>8, <3>1
    <3> QED BY <1>1, <3>1, <3>2 DEF InStore
  <2> QED BY <2>1, <2>2
<1> QED BY <1>1, <1>3, <1>4, <1>5, <1>7, <1>8
-----------------------------------------------------------------------------
(* A flush of one store into the other. *)

(* What a series of the destination holds before retention: its own        *)
(* entries, and after them those of the topic of its key.                  *)
LEMMA MovedFacts ==
    ASSUME topics \in Topics, ShapeInv, StoredOnce, NEW s \in Stores, NEW d \in Stores, s # d,
           NEW j \in 1 .. Len(topics[d])
    PROVE  LET m == MovedTo(s, d, j)
           IN  /\ m \in Seq(Entry) /\ OneEach(m)
               /\ Boxes(topics[d][j].entries) \subseteq Boxes(m)
               /\ \A i \in Filled(s) : topics[s][i].key = topics[d][j].key =>
                     Boxes(topics[s][i].entries) \subseteq Boxes(m)
               /\ \A b \in Boxes(m) : \E t \in Stores : \E i \in 1 .. Len(topics[t]) :
                     b \in Boxes(topics[t][i].entries) /\ topics[t][i].key = topics[d][j].key
               /\ \A x \in 1 .. Len(m) : \E t \in Stores : \E i \in 1 .. Len(topics[t]) :
                     /\ topics[t][i].key = topics[d][j].key
                     /\ \E y \in 1 .. Len(topics[t][i].entries) : m[x] = topics[t][i].entries[y]
<1> DEFINE own == topics[d][j].entries
           from == {i \in Filled(s) : topics[s][i].key = topics[d][j].key}
           m == MovedTo(s, d, j)
<1>1. own \in Seq(Entry) /\ OneEach(own)
  BY TypedTopics DEF StoredOnce
<1>2. DOMAIN topics[s] = 1 .. Len(topics[s])
  BY TypedTopics
<1>3. \A i \in from : i \in 1 .. Len(topics[s]) /\ topics[s][i].key = topics[d][j].key
  BY <1>2 DEF Filled
<1>4. CASE from = {}
  <2>1. m = own
    BY <1>4 DEF MovedTo
  <2>2. \A i \in Filled(s) : topics[s][i].key # topics[d][j].key
    BY <1>4
  <2> HIDE DEF m, from
  <2>3. \A b \in Boxes(own) : \E t \in Stores : \E i \in 1 .. Len(topics[t]) :
           b \in Boxes(topics[t][i].entries) /\ topics[t][i].key = topics[d][j].key
    OBVIOUS
  <2>4. \A x \in 1 .. Len(own) : \E t \in Stores : \E i \in 1 .. Len(topics[t]) :
           /\ topics[t][i].key = topics[d][j].key
           /\ \E y \in 1 .. Len(topics[t][i].entries) : own[x] = topics[t][i].entries[y]
    OBVIOUS
  <2> HIDE DEF own
  <2>5. /\ m \in Seq(Entry) /\ OneEach(m) /\ Boxes(own) \subseteq Boxes(m)
        /\ \A b \in Boxes(m) : \E t \in Stores : \E i \in 1 .. Len(topics[t]) :
             b \in Boxes(topics[t][i].entries) /\ topics[t][i].key = topics[d][j].key
        /\ \A x \in 1 .. Len(m) : \E t \in Stores : \E i \in 1 .. Len(topics[t]) :
             /\ topics[t][i].key = topics[d][j].key
             /\ \E y \in 1 .. Len(topics[t][i].entries) : m[x] = topics[t][i].entries[y]
    BY <1>1, <2>1, <2>3, <2>4
  <2> QED BY <2>2, <2>5 DEF own, m
<1>5. CASE from # {}
  <2> DEFINE i == CHOOSE x \in from : TRUE
             got == topics[s][i].entries
  <2>1. i \in from
    BY <1>5
  <2>2. m = own \o got
    BY <1>5 DEF MovedTo
  <2> HIDE DEF i, m, from
  <2>3. i \in 1 .. Len(topics[s]) /\ topics[s][i].key = topics[d][j].key
    BY <1>3, <2>1
  <2>4. got \in Seq(Entry) /\ OneEach(got)
    BY <2>3, TypedTopics DEF StoredOnce
  <2>5. Boxes(own) \cap Boxes(got) = {}
    <3> SUFFICES ASSUME NEW b, b \in Boxes(own), b \in Boxes(got) PROVE FALSE
      OBVIOUS
    <3>1. s = d
      BY <2>3, OnePlace
    <3> QED BY <3>1
  <2>6. \A x \in from : x = i
    <3> SUFFICES ASSUME NEW x \in from PROVE x = i
      OBVIOUS
    <3>1. x \in 1 .. Len(topics[s]) /\ topics[s][x].key = topics[s][i].key
      BY <1>3, <2>3
    <3> QED BY <2>3, <3>1 DEF ShapeInv
  <2>7. \A b \in Boxes(own) : \E t \in Stores : \E x \in 1 .. Len(topics[t]) :
           b \in Boxes(topics[t][x].entries) /\ topics[t][x].key = topics[d][j].key
    OBVIOUS
  <2>8. \A b \in Boxes(got) : \E t \in Stores : \E x \in 1 .. Len(topics[t]) :
           b \in Boxes(topics[t][x].entries) /\ topics[t][x].key = topics[d][j].key
    BY <2>3
  <2>9. \A x \in 1 .. Len(own) : \E t \in Stores : \E z \in 1 .. Len(topics[t]) :
           /\ topics[t][z].key = topics[d][j].key
           /\ \E y \in 1 .. Len(topics[t][z].entries) : own[x] = topics[t][z].entries[y]
    OBVIOUS
  <2>10. \A x \in 1 .. Len(got) : \E t \in Stores : \E z \in 1 .. Len(topics[t]) :
           /\ topics[t][z].key = topics[d][j].key
           /\ \E y \in 1 .. Len(topics[t][z].entries) : got[x] = topics[t][z].entries[y]
    BY <2>3
  <2>14. \A x \in Filled(s) : topics[s][x].key = topics[d][j].key => topics[s][x].entries = got
    BY <2>6 DEF from
  <2> HIDE DEF own, got
  <2>11. m \in Seq(Entry) /\ Boxes(m) = Boxes(own) \cup Boxes(got) /\ OneEach(m)
    BY <1>1, <2>2, <2>4, <2>5, BoxesJoined
  <2>12. \A x \in 1 .. Len(m) : (\E y \in 1 .. Len(own) : m[x] = own[y]) \/ (\E y \in 1 .. Len(got) : m[x] = got[y])
    <3>1. /\ Len(m) = Len(own) + Len(got) /\ Len(own) \in Nat /\ Len(got) \in Nat
          /\ \A x \in 1 .. Len(own) : m[x] = own[x]
          /\ \A x \in 1 .. Len(got) : m[Len(own) + x] = got[x]
      BY <1>1, <2>2, <2>4, ConcatFacts
    <3> SUFFICES ASSUME NEW x \in 1 .. Len(m), x \notin 1 .. Len(own) PROVE \E y \in 1 .. Len(got) : m[x] = got[y]
      BY <3>1
    <3>2. x - Len(own) \in 1 .. Len(got) /\ Len(own) + (x - Len(own)) = x
      BY <3>1
    <3>3. m[x] = got[x - Len(own)]
      BY <3>1, <3>2
    <3> QED BY <3>2, <3>3
  <2>13. \A x \in 1 .. Len(m) : \E t \in Stores : \E z \in 1 .. Len(topics[t]) :
             /\ topics[t][z].key = topics[d][j].key
             /\ \E y \in 1 .. Len(topics[t][z].entries) : m[x] = topics[t][z].entries[y]
    <3> SUFFICES ASSUME NEW x \in 1 .. Len(m)
                 PROVE  \E t \in Stores : \E z \in 1 .. Len(topics[t]) :
                           /\ topics[t][z].key = topics[d][j].key
                           /\ \E y \in 1 .. Len(topics[t][z].entries) : m[x] = topics[t][z].entries[y]
      OBVIOUS
    <3>1. CASE \E y \in 1 .. Len(own) : m[x] = own[y]
      <4>1. PICK y \in 1 .. Len(own) : m[x] = own[y]
        BY <3>1
      <4> QED BY <2>9, <4>1
    <3>2. CASE \E y \in 1 .. Len(got) : m[x] = got[y]
      <4>1. PICK y \in 1 .. Len(got) : m[x] = got[y]
        BY <3>2
      <4> QED BY <2>10, <4>1
    <3> QED BY <2>12, <3>1, <3>2
  <2>15. \A b \in Boxes(m) : \E t \in Stores : \E x \in 1 .. Len(topics[t]) :
             b \in Boxes(topics[t][x].entries) /\ topics[t][x].key = topics[d][j].key
    BY <2>7, <2>8, <2>11
  <2>16. \A x \in Filled(s) : topics[s][x].key = topics[d][j].key => Boxes(topics[s][x].entries) \subseteq Boxes(m)
    BY <2>11, <2>14
  <2>17. Boxes(topics[d][j].entries) \subseteq Boxes(m)
    BY <2>11 DEF own
  <2> QED BY <2>11, <2>13, <2>15, <2>16, <2>17 DEF m
<1> QED BY <1>4, <1>5

(* A function on 1 .. n is a sequence.                                     *)
LEMMA ListOf ==
    ASSUME NEW T, NEW n \in Nat, NEW f \in [1 .. n -> T]
    PROVE  f \in Seq(T) /\ Len(f) = n
OBVIOUS

(* A flush empties the source's series and refills the destination's.      *)
LEMMA FlushTopics ==
    ASSUME topics \in Topics, ShapeInv, StoredOnce, NEW s \in Stores, NEW d \in Stores, s # d,
           NEW f \in [1 .. Len(topics[d]) -> Seq(Entry)],
           topics' = [topics EXCEPT
               ![s] = [i \in DOMAIN @ |-> MovedFrom(@[i])],
               ![d] = [j \in DOMAIN @ |-> [@[j] EXCEPT !.entries = f[j]]]]
    PROVE  /\ topics' \in Topics /\ SameShape
           /\ \A i \in 1 .. Len(topics[s]) : topics'[s][i].entries = <<>>
           /\ \A j \in 1 .. Len(topics[d]) : topics'[d][j].entries = f[j]
<1> DEFINE p == [i \in DOMAIN topics[s] |-> MovedFrom(topics[s][i])]
           q == [j \in DOMAIN topics[d] |-> [topics[d][j] EXCEPT !.entries = f[j]]]
<1>0. Stores = {s, d}
  BY DEF Stores
<1>1. /\ DOMAIN topics[s] = 1 .. Len(topics[s]) /\ DOMAIN topics[d] = 1 .. Len(topics[d])
      /\ Len(topics[s]) \in Nat /\ Len(topics[d]) \in Nat
  BY TypedTopics
<1>2. \A i \in 1 .. Len(topics[s]) : topics[s][i] \in Series
  BY TypedTopics
<1>3. \A j \in 1 .. Len(topics[d]) : topics[d][j] \in Series
  BY TypedTopics
<1>4. ASSUME NEW i \in 1 .. Len(topics[s])
      PROVE  /\ p[i] \in Series /\ p[i].entries = <<>>
             /\ p[i].id = topics[s][i].id /\ p[i].uid = topics[s][i].uid /\ p[i].key = topics[s][i].key
  <2>1. p[i] = [topics[s][i] EXCEPT !.entries = <<>>]
    BY <1>1 DEF MovedFrom
  <2>2. topics[s][i] \in Series /\ <<>> \in Seq(Entry)
    BY <1>2
  <2> QED BY <2>1, <2>2 DEF Series
<1>5. ASSUME NEW j \in 1 .. Len(topics[d])
      PROVE  /\ q[j] \in Series /\ q[j].entries = f[j]
             /\ q[j].id = topics[d][j].id /\ q[j].uid = topics[d][j].uid /\ q[j].key = topics[d][j].key
  <2>1. q[j] = [topics[d][j] EXCEPT !.entries = f[j]]
    BY <1>1
  <2>2. topics[d][j] \in Series /\ f[j] \in Seq(Entry)
    BY <1>3
  <2> QED BY <2>1, <2>2 DEF Series
<1>6. DOMAIN p = 1 .. Len(topics[s]) /\ DOMAIN q = 1 .. Len(topics[d])
  BY <1>1
<1>7. DOMAIN topics = Stores
  BY DEF Topics
<1>8. topics' = [topics EXCEPT ![s] = p, ![d] = q]
  BY <1>7
<1>11. p \in [1 .. Len(topics[s]) -> Series] /\ q \in [1 .. Len(topics[d]) -> Series]
  BY <1>1, <1>4, <1>5
<1> HIDE DEF p, q
<1>9. p \in Seq(Series) /\ Len(p) = Len(topics[s]) /\ q \in Seq(Series) /\ Len(q) = Len(topics[d])
  BY <1>1, <1>11, ListOf
<1>10. topics' \in Topics /\ topics'[s] = p /\ topics'[d] = q
  BY <1>0, <1>7, <1>8, <1>9 DEF Topics
<1>12. SameShape
  <2> SUFFICES ASSUME NEW t \in Stores
               PROVE  /\ Len(topics'[t]) = Len(topics[t])
                      /\ \A i \in 1 .. Len(topics[t]) :
                            /\ topics'[t][i].id = topics[t][i].id /\ topics'[t][i].uid = topics[t][i].uid
                            /\ topics'[t][i].key = topics[t][i].key
    BY DEF SameShape
  <2>1. CASE t = s
    BY <1>4, <1>9, <1>10, <2>1
  <2>2. CASE t = d
    BY <1>5, <1>9, <1>10, <2>2
  <2> QED BY <1>0, <2>1, <2>2
<1> QED BY <1>4, <1>5, <1>10, <1>12

(* A flush: the contexts move, and the ones retention then takes are gone. *)
LEMMA FlushFacts ==
    ASSUME topics \in Topics, ShapeInv, StoredOnce, EntryInv, NEW s \in Stores, NEW d \in Stores, flushTo(s, d)
    PROVE  /\ topics' \in Topics /\ SameShape /\ StoredOnce' /\ EntryInv'
           /\ \E gone : /\ freed' = Destroy(gone)
                        /\ \A b \in gone : InStore(b) /\ ~InStore(b)'
                        /\ \A b : b \notin gone => (InStore(b)' <=> InStore(b))
<1> DEFINE n == Len(topics[d])
           m(j) == MovedTo(s, d, j)
           k(j) == IF m(j) = topics[d][j].entries THEN 0 ELSE applyRetention(m(j), topics[d][j].budget)
           f == [j \in 1 .. n |-> Trim(m(j), k(j))]
           cut(j) == Boxes(SubSeq(m(j), 1, k(j)))
           gone == UNION {cut(j) : j \in DOMAIN topics[d]}
<1>0. s # d /\ Stores = {s, d}
  BY DEF flushTo, Stores
<1>1. DOMAIN topics[d] = 1 .. n /\ DOMAIN topics[s] = 1 .. Len(topics[s]) /\ n \in Nat
  BY TypedTopics
<1>2. ASSUME NEW j \in 1 .. n
      PROVE  /\ m(j) \in Seq(Entry) /\ OneEach(m(j))
             /\ Boxes(topics[d][j].entries) \subseteq Boxes(m(j))
             /\ \A i \in Filled(s) : topics[s][i].key = topics[d][j].key =>
                   Boxes(topics[s][i].entries) \subseteq Boxes(m(j))
  BY <1>0, MovedFacts
<1>3. ASSUME NEW j \in 1 .. n, NEW b \in Boxes(m(j))
      PROVE  \E t \in Stores : \E i \in 1 .. Len(topics[t]) :
                 b \in Boxes(topics[t][i].entries) /\ topics[t][i].key = topics[d][j].key
  BY <1>0, MovedFacts
<1>4. ASSUME NEW j \in 1 .. n, NEW x \in 1 .. Len(m(j))
      PROVE  \E t \in Stores : \E i \in 1 .. Len(topics[t]) :
                 /\ topics[t][i].key = topics[d][j].key
                 /\ \E y \in 1 .. Len(topics[t][i].entries) : m(j)[x] = topics[t][i].entries[y]
  BY <1>0, MovedFacts
<1>5. /\ topics' = [topics EXCEPT
               ![s] = [i \in DOMAIN @ |-> MovedFrom(@[i])],
               ![d] = [j \in DOMAIN @ |-> [@[j] EXCEPT !.entries = Trim(m(j), k(j))]]]
      /\ freed' = Destroy(gone)
  BY Zenon DEF flushTo
<1>6. \A i \in Filled(s) : \E j \in 1 .. n : topics[d][j].key = topics[s][i].key
  <2>1. \A i \in Filled(s) : \E j \in findTopic(d, topics[s][i].key) : TRUE
    BY DEF flushTo
  <2> QED BY <1>1, <2>1 DEF findTopic
<1> HIDE DEF m
<1>7. ASSUME NEW j \in 1 .. n PROVE k(j) \in 0 .. Len(m(j))
  <2>1. m(j) \in Seq(Entry)
    BY <1>2
  <2>2. Len(m(j)) \in Nat
    BY <2>1
  <2> QED BY <2>1, <2>2, RetentionRange
<1> HIDE DEF k
<1>8. ASSUME NEW j \in 1 .. n
      PROVE  /\ f[j] = Trim(m(j), k(j)) /\ f[j] \in Seq(Entry) /\ OneEach(f[j])
             /\ Boxes(m(j)) = cut(j) \cup Boxes(f[j]) /\ cut(j) \cap Boxes(f[j]) = {}
             /\ \A x \in 1 .. Len(f[j]) : \E y \in 1 .. Len(m(j)) : f[j][x] = m(j)[y]
  <2>1. m(j) \in Seq(Entry) /\ OneEach(m(j)) /\ k(j) \in 0 .. Len(m(j))
    BY <1>2, <1>7
  <2>2. f[j] = Trim(m(j), k(j))
    OBVIOUS
  <2> HIDE DEF f
  <2> QED BY <2>1, <2>2, BoxesCut
<1>9. f \in [1 .. n -> Seq(Entry)]
  BY <1>8
<1>10. topics' = [topics EXCEPT
               ![s] = [i \in DOMAIN @ |-> MovedFrom(@[i])],
               ![d] = [j \in DOMAIN @ |-> [@[j] EXCEPT !.entries = f[j]]]]
  <2>1. [j \in DOMAIN topics[d] |-> [topics[d][j] EXCEPT !.entries = Trim(m(j), k(j))]]
        = [j \in DOMAIN topics[d] |-> [topics[d][j] EXCEPT !.entries = f[j]]]
    BY <1>1
  <2>2. topics \in [Stores -> Seq(Series)]
    BY DEF Topics
  <2> HIDE DEF f
  <2> QED BY <1>0, <1>5, <2>1, <2>2
<1>11. \A b : b \in gone <=> \E j \in 1 .. n : b \in cut(j)
  BY <1>1
<1> HIDE DEF f, cut, gone
<1>12. /\ topics' \in Topics /\ SameShape
       /\ \A i \in 1 .. Len(topics[s]) : topics'[s][i].entries = <<>>
       /\ \A j \in 1 .. n : topics'[d][j].entries = f[j]
  BY <1>0, <1>9, <1>10, FlushTopics
<1>13. Len(topics'[s]) = Len(topics[s]) /\ Len(topics'[d]) = n
  BY <1>12 DEF SameShape
<1>14. ASSUME NEW b, NEW j \in 1 .. n, NEW l \in 1 .. n, b \in Boxes(m(j)), b \in Boxes(m(l)) PROVE j = l
  <2>0. PICK t \in Stores : \E i \in 1 .. Len(topics[t]) :
            b \in Boxes(topics[t][i].entries) /\ topics[t][i].key = topics[d][j].key
    BY <1>3, <1>14
  <2>1. PICK i \in 1 .. Len(topics[t]) : b \in Boxes(topics[t][i].entries) /\ topics[t][i].key = topics[d][j].key
    BY <2>0
  <2>2. PICK u \in Stores : \E x \in 1 .. Len(topics[u]) :
            b \in Boxes(topics[u][x].entries) /\ topics[u][x].key = topics[d][l].key
    BY <1>3, <1>14
  <2>3. PICK x \in 1 .. Len(topics[u]) : b \in Boxes(topics[u][x].entries) /\ topics[u][x].key = topics[d][l].key
    BY <2>2
  <2>4. t = u /\ i = x
    BY <2>1, <2>3, OnePlace, ZenonT(30)
  <2>5. topics[d][j].key = topics[d][l].key
    BY <2>1, <2>3, <2>4
  <2> QED BY <2>5 DEF ShapeInv
<1>15. ASSUME NEW b PROVE InStore(b) <=> \E j \in 1 .. n : b \in Boxes(m(j))
  <2>1. ASSUME InStore(b) PROVE \E j \in 1 .. n : b \in Boxes(m(j))
    <3>0. PICK t \in Stores : \E i \in 1 .. Len(topics[t]) : b \in Boxes(topics[t][i].entries)
      BY <2>1 DEF InStore
    <3>1. PICK i \in 1 .. Len(topics[t]) : b \in Boxes(topics[t][i].entries)
      BY <3>0
    <3>2. CASE t = d
      BY <1>2, <3>1, <3>2
    <3>3. CASE t = s
      <4>1. i \in Filled(s)
        BY <1>1, <3>1, <3>3, BoxesOfNone DEF Filled
      <4>2. PICK j \in 1 .. n : topics[d][j].key = topics[s][i].key
        BY <1>6, <4>1
      <4> QED BY <1>2, <3>1, <3>3, <4>1, <4>2
    <3> QED BY <1>0, <3>2, <3>3
  <2>2. ASSUME NEW j \in 1 .. n, b \in Boxes(m(j)) PROVE InStore(b)
    BY <1>3, <2>2 DEF InStore
  <2> QED BY <2>1, <2>2
<1>16. ASSUME NEW b PROVE InStore(b)' <=> \E j \in 1 .. n : b \in Boxes(f[j])
  <2>1. ASSUME InStore(b)' PROVE \E j \in 1 .. n : b \in Boxes(f[j])
    <3>0. PICK t \in Stores : \E i \in 1 .. Len(topics'[t]) : b \in Boxes(topics'[t][i].entries)
      BY <2>1 DEF InStore
    <3>1. PICK i \in 1 .. Len(topics'[t]) : b \in Boxes(topics'[t][i].entries)
      BY <3>0
    <3>2. CASE t = d
      BY <1>12, <1>13, <3>1, <3>2
    <3>3. CASE t = s
      BY <1>12, <1>13, <3>1, <3>3, BoxesOfNone
    <3> QED BY <1>0, <3>2, <3>3
  <2>2. ASSUME NEW j \in 1 .. n, b \in Boxes(f[j]) PROVE InStore(b)'
    BY <1>12, <1>13, <2>2 DEF InStore
  <2> QED BY <2>1, <2>2
<1>17. \A b \in gone : InStore(b) /\ ~InStore(b)'
  <2> SUFFICES ASSUME NEW b \in gone PROVE InStore(b) /\ ~InStore(b)'
    OBVIOUS
  <2>1. PICK j \in 1 .. n : b \in cut(j)
    BY <1>11
  <2>2. b \in Boxes(m(j)) /\ b \notin Boxes(f[j])
    BY <1>8, <2>1
  <2>3. ASSUME NEW l \in 1 .. n, b \in Boxes(f[l]) PROVE FALSE
    <3>1. b \in Boxes(m(l))
      BY <1>8, <2>3
    <3>2. j = l
      BY <1>14, <2>2, <3>1
    <3> QED BY <2>2, <2>3, <3>2
  <2> QED BY <1>15, <1>16, <2>2, <2>3
<1>18. \A b : b \notin gone => (InStore(b)' <=> InStore(b))
  <2> SUFFICES ASSUME NEW b, b \notin gone PROVE InStore(b)' <=> InStore(b)
    OBVIOUS
  <2>1. \A j \in 1 .. n : b \in Boxes(m(j)) <=> b \in Boxes(f[j])
    BY <1>8, <1>11
  <2> QED BY <1>15, <1>16, <2>1
<1>19. StoredOnce'
  <2>1. \A t \in Stores : \A i \in 1 .. Len(topics'[t]) : OneEach(topics'[t][i].entries)
    BY <1>0, <1>8, <1>12, <1>13, BoxesOfNone
  <2>2. \A t \in Stores : \A i \in 1 .. Len(topics'[t]) : \A b \in Boxes(topics'[t][i].entries) :
           t = d /\ i \in 1 .. n /\ b \in Boxes(m(i))
    <3> SUFFICES ASSUME NEW t \in Stores, NEW i \in 1 .. Len(topics'[t]), NEW b \in Boxes(topics'[t][i].entries)
                 PROVE  t = d /\ i \in 1 .. n /\ b \in Boxes(m(i))
      OBVIOUS
    <3>1. CASE t = s
      BY <1>12, <1>13, <3>1, BoxesOfNone
    <3>2. CASE t = d
      <4>1. i \in 1 .. n /\ b \in Boxes(f[i])
        BY <1>12, <1>13, <3>2
      <4> QED BY <1>8, <3>2, <4>1
    <3> QED BY <1>0, <3>1, <3>2
  <2>3. ASSUME NEW t \in Stores, NEW u \in Stores, NEW i \in 1 .. Len(topics'[t]), NEW j \in 1 .. Len(topics'[u]),
               NEW b \in Boxes(topics'[t][i].entries), b \in Boxes(topics'[u][j].entries)
        PROVE  t = u /\ i = j
    <3>1. t = d /\ i \in 1 .. n /\ b \in Boxes(m(i))
      BY <2>2
    <3>2. u = d /\ j \in 1 .. n /\ b \in Boxes(m(j))
      BY <2>2, <2>3
    <3> QED BY <1>14, <3>1, <3>2
  <2> QED BY <2>1, <2>3 DEF StoredOnce
<1>20. EntryInv'
  <2> SUFFICES ASSUME NEW t \in Stores, NEW i \in 1 .. Len(topics'[t]), NEW x \in 1 .. Len(topics'[t][i].entries),
                      topics'[t][i].entries[x].own
               PROVE  topics'[t][i].entries[x].key = topics'[t][i].key
    BY DEF EntryInv
  <2>1. CASE t = s
    <3>1. topics'[t][i].entries = <<>>
      BY <1>12, <1>13, <2>1
    <3> QED BY <3>1
  <2>2. CASE t = d
    <3>1. i \in 1 .. n /\ topics'[t][i].entries = f[i] /\ topics'[t][i].key = topics[d][i].key
      BY <1>12, <1>13, <2>2 DEF SameShape
    <3>2. PICK y \in 1 .. Len(m(i)) : f[i][x] = m(i)[y]
      BY <1>8, <3>1
    <3>3. PICK u \in Stores : \E z \in 1 .. Len(topics[u]) :
              /\ topics[u][z].key = topics[d][i].key
              /\ \E w \in 1 .. Len(topics[u][z].entries) : m(i)[y] = topics[u][z].entries[w]
      BY <1>4, <3>1
    <3>4. PICK z \in 1 .. Len(topics[u]) :
              /\ topics[u][z].key = topics[d][i].key
              /\ \E w \in 1 .. Len(topics[u][z].entries) : m(i)[y] = topics[u][z].entries[w]
      BY <3>3
    <3>5. PICK w \in 1 .. Len(topics[u][z].entries) : m(i)[y] = topics[u][z].entries[w]
      BY <3>4
    <3>6. topics[u][z].entries[w].own => topics[u][z].entries[w].key = topics[u][z].key
      BY DEF EntryInv
    <3> QED BY <3>1, <3>2, <3>4, <3>5, <3>6
  <2> QED BY <1>0, <2>1, <2>2
<1> QED BY <1>5, <1>12, <1>17, <1>18, <1>19, <1>20
-----------------------------------------------------------------------------
(* What the steps have in common. *)

TopicsOK ==
    /\ topics \in Topics
    /\ \A s \in Stores : \A i \in 1 .. Len(topics[s]) :
          topics[s][i].id \in 1 .. nextId[s] - 1 /\ topics[s][i].uid <= uids

RestOK ==
    /\ nextId \in [Stores -> Nat \ {0}]
    /\ target \in [WriteHosts -> Stores]
    /\ call \in WriteCall /\ call.n <= pushes
    /\ handles \subseteq Handle
    /\ boxes \subseteq 1 .. pushes
    /\ freed \in [1 .. MaxPushes -> Nat]
    /\ rd \in [Readers -> ReadCall]
    /\ views \subseteq 1 .. MaxPushes
    /\ uids \in 0 .. MaxSeries /\ pushes \in 0 .. MaxPushes /\ calls \in 0 .. MaxCalls

(* The type invariant in two parts.                                        *)
LEMMA TypeSplit ==
    ASSUME TypeOK
    PROVE  TopicsOK /\ RestOK
<1>1. topics \in Topics /\ RestOK
  BY DEF TypeOK, Topics, RestOK
<1>2. \A s \in Stores : DOMAIN topics[s] = 1 .. Len(topics[s])
  BY <1>1, TypedTopics
<1> QED BY <1>1, <1>2 DEF TypeOK, TopicsOK

(* The two parts give the type invariant of the next state.                *)
LEMMA TypeBuilt ==
    ASSUME TopicsOK', RestOK'
    PROVE  TypeOK'
<1>1. \A s \in Stores : DOMAIN topics'[s] = 1 .. Len(topics'[s])
  BY DEF TopicsOK, Topics
<1> QED BY <1>1 DEF TypeOK, Topics, RestOK, TopicsOK

(* Ids and series numbers while no topic comes or goes.                    *)
LEMMA TopicsIfSame ==
    ASSUME TopicsOK, topics' \in Topics, SameShape, UNCHANGED <<nextId, uids>>
    PROVE  TopicsOK'
BY DEF TopicsOK, SameShape

(* Handles stay good.                                                      *)
LEMMA CarryHandles ==
    ASSUME TypeOK, HandleInv, \A d \in Stores : Evolves(d), nextId' \in [Stores -> Nat],
           \A d \in Stores : nextId'[d] >= nextId[d], UNCHANGED target,
           call' = call \/ call' = NoCall, \A h \in handles' : h \in handles \/ HandleOK(h)'
    PROVE  HandleInv'
<1>0. topics \in Topics /\ RestOK
  BY TypeSplit DEF TopicsOK
<1>1. nextId \in [Stores -> Nat] /\ handles \subseteq Handle /\ call \in WriteCall /\ target \in [WriteHosts -> Stores]
  BY <1>0 DEF RestOK
<1>2. ASSUME NEW h \in Handle, HandleOK(h) PROVE HandleOK(h)'
  <2>1. h.store \in Stores
    BY DEF Handle
  <2> QED BY <1>0, <1>1, <1>2, <2>1, HandleCarried
<1>3. \A h \in handles' : HandleOK(h)'
  BY <1>1, <1>2 DEF HandleInv
<1>4. BoundOK(target["parser"])'
  <2>1. target["parser"] \in Stores
    BY <1>1 DEF WriteHosts
  <2>2. BoundOK(target["parser"])
    BY DEF HandleInv
  <2>3. PICK t \in Stores : t = target["parser"] /\ BoundOK(t)
    BY <2>1, <2>2
  <2>4. BoundOK(t)'
    BY <1>0, <1>1, <2>3, BoundCarried
  <2> QED BY <2>3, <2>4
<1>5. CASE call' = NoCall
  BY <1>3, <1>4, <1>5 DEF HandleInv, Pushing, NoCall
<1>6. CASE call' = call
  <2>1. call.topic \in Handle
    BY <1>1 DEF WriteCall
  <2>2. Pushing => call.ts \in Times /\ call.n >= 1
    BY DEF HandleInv
  <2>3. ASSUME Pushing, call.topic.store = call.store PROVE HandleOK(call.topic)'
    <3>1. HandleOK(call.topic)
      BY <2>3 DEF HandleInv
    <3>2. PICK h \in Handle : h = call.topic /\ HandleOK(h)
      BY <2>1, <3>1
    <3>3. HandleOK(h)'
      BY <1>2, <3>2
    <3> QED BY <1>6, <3>2, <3>3
  <2> QED BY <1>3, <1>4, <1>6, <2>2, <2>3 DEF HandleInv, Pushing
<1> QED BY <1>5, <1>6

(* Readers' knowledge stays true.                                          *)
LEMMA CarryReads ==
    ASSUME TypeOK, ReadInv, Evolves(Primary), UNCHANGED rd, uids' \in Nat, uids' >= uids
    PROVE  ReadInv'
<1>1. topics \in Topics /\ RestOK
  BY TypeSplit DEF TopicsOK
<1>2. rd \in [Readers -> ReadCall] /\ uids \in Nat
  BY <1>1 DEF RestOK
<1>3. ASSUME NEW r \in Readers PROVE ReadOK(r)'
  BY <1>1, <1>2, ReadCarried DEF ReadInv
<1> QED BY <1>3 DEF ReadInv

(* A fetch is not disturbed: nobody fetches, or its series is as it was.   *)
LEMMA FetchIfFree ==
    ASSUME Fetching = {}, UNCHANGED rd
    PROVE  FetchInv'
BY DEF FetchInv, Fetching

(* A fetched series that is as it was.                                     *)
LEMMA FetchIfSame ==
    ASSUME FetchInv, UNCHANGED rd, Len(topics'[Primary]) = Len(topics[Primary]),
           \A i \in 1 .. Len(topics[Primary]) : (\E r \in Fetching : rd[r].uid = topics[Primary][i].uid) =>
               topics'[Primary][i].uid = topics[Primary][i].uid /\ topics'[Primary][i].entries = topics[Primary][i].entries
    PROVE  FetchInv'
<1> SUFFICES ASSUME NEW r \in Readers, rd[r].at = "fetch"
             PROVE  \E i \in 1 .. Len(topics'[Primary]) :
                       topics'[Primary][i].uid = rd[r].uid /\ rd[r].n \in Boxes(topics'[Primary][i].entries)
  BY DEF FetchInv
<1>1. PICK i \in 1 .. Len(topics[Primary]) :
          topics[Primary][i].uid = rd[r].uid /\ rd[r].n \in Boxes(topics[Primary][i].entries)
  BY DEF FetchInv
<1>2. r \in Fetching
  BY DEF Fetching
<1>3. topics'[Primary][i].uid = topics[Primary][i].uid /\ topics'[Primary][i].entries = topics[Primary][i].entries
  BY <1>1, <1>2
<1> QED BY <1>1, <1>3

(* Nothing is destroyed.                                                   *)
LEMMA DestroyNone ==
    ASSUME freed \in [1 .. MaxPushes -> Nat]
    PROVE  Destroy({}) = freed
BY DEF Destroy

(* Contexts leave the stores, and are destroyed.                           *)
LEMMA CarryBoxes ==
    ASSUME TypeOK, BoxInv, FreeInv, StoredOnce', UNCHANGED boxes, NEW gone, freed' = Destroy(gone),
           call' = call \/ (call.op # "lazy" /\ call' = NoCall),
           \A b \in gone : InStore(b) /\ ~InStore(b)',
           \A b : b \notin gone => (InStore(b)' <=> InStore(b)),
           gone \subseteq 1 .. MaxPushes
    PROVE  BoxInv' /\ FreeInv' /\ freed' \in [1 .. MaxPushes -> Nat]
<1>0. RestOK
  BY TypeSplit
<1>1. freed \in [1 .. MaxPushes -> Nat]
  BY <1>0 DEF RestOK
<1>2. \A b : (call'.op = "lazy" /\ call'.n = b) <=> (call.op = "lazy" /\ call.n = b)
  BY DEF NoCall
<1>3. \A b \in gone : b \in boxes /\ Held(b) /\ ~(call.op = "lazy" /\ call.n = b)
  BY DEF BoxInv, Held
<1>4. \A b \in gone : ~Held(b)'
  BY <1>2, <1>3 DEF Held
<1>5. \A b \in 1 .. MaxPushes : b \notin gone => (Held(b)' <=> Held(b))
  BY <1>2 DEF Held
<1>6. freed' \in [1 .. MaxPushes -> Nat]
  BY <1>1, DestroyType
<1>7. FreeInv'
  <2>1. CASE SdkView
    BY <2>1 DEF FreeInv
  <2>2. CASE FreedInv
    <3>1. FreedInv'
      BY <1>1, <1>3, <1>4, <1>5, <2>2, FreedStep
    <3> QED BY <3>1 DEF FreeInv
  <2> QED BY <2>1, <2>2 DEF FreeInv
<1>8. \A b : InStore(b)' => InStore(b)
  OBVIOUS
<1>9. call'.op = "lazy" => call'.n \in boxes' /\ ~InStore(call.n)'
  BY <1>8 DEF BoxInv, NoCall
<1>10. \A b \in 1 .. MaxPushes : InStore(b)' => b \in boxes'
  BY <1>8 DEF BoxInv
<1> QED BY <1>6, <1>7, <1>9, <1>10 DEF BoxInv
-----------------------------------------------------------------------------
(* The steps that change a store. *)

(* The parts of the invariant that a step of one series keeps.             *)
LEMMA InStoreRange ==
    ASSUME topics \in Topics, NEW b, InStore(b)
    PROVE  b \in 1 .. MaxPushes
<1>1. PICK s \in Stores : \E i \in 1 .. Len(topics[s]) : b \in Boxes(topics[s][i].entries)
  BY DEF InStore
<1>2. PICK i \in 1 .. Len(topics[s]) : b \in Boxes(topics[s][i].entries)
  BY <1>1
<1>3. topics[s][i].entries \in Seq(Entry)
  BY TypedTopics
<1> QED BY <1>2, <1>3, BoxesAt

(* A step of an unlocked series leaves fetches alone.                      *)
LEMMA FetchIfUnlocked ==
    ASSUME TypeOK, FetchInv, UNCHANGED rd, NEW s \in Stores, NEW id, Unlocked(s, id),
           NEW i \in findSeries(s, id), NEW new, Refilled(s, i, new), SameShape
    PROVE  FetchInv'
<1>1. Primary \in Stores
  BY DEF Stores
<1>2. \A j \in 1 .. Len(topics[Primary]) : (\E r \in Fetching : rd[r].uid = topics[Primary][j].uid) => Primary # s \/ j # i
  BY DEF Unlocked
<1>3. \A j \in 1 .. Len(topics[Primary]) : Primary # s \/ j # i => topics'[Primary][j] = topics[Primary][j]
  BY <1>1 DEF Refilled
<1>4. Len(topics'[Primary]) = Len(topics[Primary])
  BY <1>1 DEF SameShape
<1> QED BY <1>2, <1>3, <1>4, FetchIfSame

(* Eviction at the front keeps entries under their topic.                  *)
LEMMA EntriesKept ==
    ASSUME TypeOK, EntryInv, NEW s \in Stores, NEW i \in 1 .. Len(topics[s]), NEW new, Refilled(s, i, new), SameShape,
           \A x \in 1 .. Len(new) : new[x].own => new[x].key = topics[s][i].key
    PROVE  EntryInv'
<1> SUFFICES ASSUME NEW d \in Stores, NEW j \in 1 .. Len(topics'[d]), NEW x \in 1 .. Len(topics'[d][j].entries),
                    topics'[d][j].entries[x].own
             PROVE  topics'[d][j].entries[x].key = topics'[d][j].key
  BY DEF EntryInv
<1>1. j \in 1 .. Len(topics[d]) /\ topics'[d][j].key = topics[d][j].key
  BY DEF SameShape
<1>2. CASE d = s /\ j = i
  <2>1. topics'[d][j].entries = new
    BY <1>2 DEF Refilled
  <2> QED BY <1>1, <1>2, <2>1
<1>3. CASE d # s \/ j # i
  <2>1. topics'[d][j] = topics[d][j]
    BY <1>1, <1>3 DEF Refilled
  <2> QED BY <1>1, <2>1 DEF EntryInv
<1> QED BY <1>2, <1>3

(* pushOwned and pushLazy on a series that accepts the entry.              *)
LEMMA PushStep ==
    ASSUME TypeOK, ShapeInv, EntryInv, FetchInv, StoredOnce, NEW s \in Stores, NEW handle \in Handle,
           NEW ts \in Times, NEW n \in 1 .. MaxPushes, NEW lazy \in BOOLEAN,
           Unlocked(s, handle.id), Accepts(s, handle, ts), push(s, handle, ts, n, lazy),
           handle.store = s => HandleOK(handle), lazy => ~InStore(n), UNCHANGED rd
    PROVE  /\ topics' \in Topics /\ SameShape /\ EntryInv' /\ StoredOnce' /\ FetchInv'
           /\ \E gone : /\ freed' = Destroy(gone) /\ gone \subseteq 1 .. MaxPushes
                        /\ \A b \in gone : (InStore(b) \/ (lazy /\ b = n)) /\ ~InStore(b)'
                        /\ \A b : b \notin gone => (InStore(b)' <=> InStore(b) \/ (lazy /\ b = n))
<1> DEFINE i == CHOOSE j \in findSeries(s, handle.id) : TRUE
           entry == [n |-> n, ts |-> ts, lazy |-> lazy, own |-> handle.store = s, key |-> handle.key]
           old == topics[s][i].entries
           all == Append(old, entry)
           k == applyRetention(all, topics[s][i].budget)
           gone == Boxes(SubSeq(all, 1, k))
           new == Trim(all, k)
<1>1. topics \in Topics
  BY TypeSplit DEF TopicsOK
<1>2. i \in findSeries(s, handle.id)
  BY DEF Accepts
<1>3. topics' = [topics EXCEPT ![s][i].entries = new] /\ freed' = Destroy(gone)
  BY Zenon DEF push
<1>4. entry \in Entry /\ entry.lazy = lazy /\ entry.n = n /\ entry.own = (handle.store = s) /\ entry.key = handle.key
  BY DEF Entry, Handle
<1> HIDE DEF i, entry
<1>5. i \in 1 .. Len(topics[s]) /\ topics[s][i].id = handle.id
  BY <1>1, <1>2, TypedTopics DEF findSeries
<1>6. old \in Seq(Entry)
  BY <1>1, <1>5, TypedTopics
<1>7. all \in Seq(Entry) /\ Len(all) = Len(old) + 1
  BY <1>4, <1>6
<1>8. k \in 0 .. Len(old) + 1
  BY <1>7, RetentionRange
<1>14. \A x \in 1 .. Len(all) : all[x].own => all[x].key = topics[s][i].key
  <2> SUFFICES ASSUME NEW x \in 1 .. Len(all), all[x].own PROVE all[x].key = topics[s][i].key
    OBVIOUS
  <2>1. CASE x \in 1 .. Len(old)
    <3>1. all[x] = old[x]
      BY <1>4, <1>6, <2>1
    <3>2. topics[s][i].entries[x].own => topics[s][i].entries[x].key = topics[s][i].key
      BY <1>5, <2>1 DEF EntryInv
    <3> HIDE DEF all
    <3> QED BY <3>1, <3>2
  <2>2. CASE x = Len(old) + 1
    <3>1. all[x] = entry
      BY <1>4, <1>6, <2>2
    <3>2. HandleOK(handle) /\ handle.store = s
      BY <1>4, <3>1
    <3> QED BY <1>4, <1>5, <3>1, <3>2 DEF HandleOK
  <2>3. Len(old) \in Nat
    BY <1>6
  <2> QED BY <1>7, <2>1, <2>2, <2>3
<1> HIDE DEF k
<1>9. topics' = [topics EXCEPT ![s][i].entries = Trim(Append(topics[s][i].entries, entry), k)]
  BY <1>3
<1>10. /\ new \in Seq(Entry) /\ StoredOnce'
       /\ \A b \in gone : (InStore(b) \/ (entry.lazy /\ b = entry.n)) /\ ~InStore(b)'
       /\ \A b : b \notin gone => (InStore(b)' <=> InStore(b) \/ (entry.lazy /\ b = entry.n))
  BY <1>1, <1>4, <1>5, <1>8, <1>9, PushBoxes
<1>15. \A x \in 1 .. Len(new) : new[x].own => new[x].key = topics[s][i].key
  <2>1. k \in 0 .. Len(all)
    BY <1>7, <1>8
  <2> HIDE DEF all
  <2>2. \A x \in 1 .. Len(Trim(all, k)) : \E y \in 1 .. Len(all) : Trim(all, k)[x] = all[y]
    BY <1>7, <2>1, BoxesCut
  <2> QED BY <1>14, <2>2
<1> HIDE DEF all, new, gone
<1>11. topics' \in Topics /\ SameShape /\ Refilled(s, i, new)
  BY <1>1, <1>3, <1>5, <1>10, RefillFacts
<1>12. FetchInv'
  BY <1>2, <1>11, FetchIfUnlocked
<1>13. EntryInv'
  BY <1>5, <1>11, <1>15, EntriesKept
<1>16. gone \subseteq 1 .. MaxPushes
  <2> SUFFICES ASSUME NEW b \in gone PROVE b \in 1 .. MaxPushes
    OBVIOUS
  <2> QED BY <1>1, <1>4, <1>10, InStoreRange
<1>17. /\ \A b \in gone : (InStore(b) \/ (lazy /\ b = n)) /\ ~InStore(b)'
       /\ \A b : b \notin gone => (InStore(b)' <=> InStore(b) \/ (lazy /\ b = n))
  BY <1>4, <1>10
<1>18. freed' = Destroy(gone)
  BY <1>3
<1> QED BY <1>10, <1>11, <1>12, <1>13, <1>16, <1>17, <1>18

(* No context moves while the stores do not change.                        *)
LEMMA BoxesIfUnchanged ==
    ASSUME StoredOnce, UNCHANGED topics
    PROVE  StoredOnce' /\ \A b : InStore(b)' <=> InStore(b)
<1>1. StoredOnce'
  BY ONLY StoredOnce, UNCHANGED topics DEF StoredOnce
<1> QED BY <1>1 DEF InStore

(* No entry moves while the stores do not change.                          *)
LEMMA EntriesIfUnchanged ==
    ASSUME EntryInv, UNCHANGED topics
    PROVE  EntryInv'
<1> SUFFICES ASSUME NEW d \in Stores, NEW j \in 1 .. Len(topics'[d]), NEW x \in 1 .. Len(topics'[d][j].entries),
                    topics'[d][j].entries[x].own
             PROVE  topics'[d][j].entries[x].key = topics'[d][j].key
  BY DEF EntryInv
<1>1. j \in 1 .. Len(topics[d]) /\ x \in 1 .. Len(topics[d][j].entries) /\ topics[d][j].entries[x].own
  OBVIOUS
<1>2. topics[d][j].entries[x].key = topics[d][j].key
  BY <1>1 DEF EntryInv
<1> QED BY <1>2

(* The idle call.                                                          *)
LEMMA NoCallType ==
    /\ BoundTopic \in Handle /\ BoundTopic.store = Primary /\ BoundTopic.id = 1 /\ BoundTopic.key = BoundKey
    /\ NoCall \in WriteCall /\ NoCall.op = "none" /\ NoCall.n = 0
<1>1. BoundKey \in Keys /\ Primary \in Stores
  BY HostsAssumption DEF BoundKey, Keys, Stores
<1>2. BoundTopic \in Handle /\ BoundTopic.store = Primary /\ BoundTopic.id = 1 /\ BoundTopic.key = BoundKey
  BY <1>1 DEF BoundTopic, Handle
<1>3. NoBudget \in AnyBudget /\ 0 \in 0 .. MaxPushes
  BY HostsAssumption, BudgetType
<1>4. NoCall \in WriteCall /\ NoCall.op = "none" /\ NoCall.n = 0
  BY <1>1, <1>2, <1>3 DEF NoCall, WriteCall, WriteHosts
<1> QED BY <1>2, <1>4

(* A step of entries and budgets, with the topics as they were.            *)
LEMMA SeriesStep ==
    ASSUME IndInv, topics' \in Topics, SameShape, EntryInv', BoxInv', FetchInv', FreeInv', RestOK',
           UNCHANGED <<nextId, target, handles, rd, uids>>, call' = call \/ call' = NoCall
    PROVE  IndInv'
<1>1. TypeOK /\ TopicsOK /\ RestOK
  BY TypeSplit DEF IndInv
<1>2. topics \in Topics
  BY <1>1 DEF TopicsOK
<1>3. TopicsOK'
  BY <1>1, TopicsIfSame
<1>4. ShapeInv'
  BY <1>2, ShapeIfSame DEF IndInv
<1>5. \A d \in Stores : Evolves(d)
  BY <1>2, EvolvesIfSame
<1>6. \A d \in Stores : nextId[d] \in Nat /\ nextId'[d] >= nextId[d]
  BY <1>1 DEF RestOK
<1>7. HandleInv'
  <2>1. nextId' \in [Stores -> Nat] /\ \A h \in handles' : h \in handles \/ HandleOK(h)'
    BY DEF RestOK
  <2>2. HandleInv /\ UNCHANGED target
    BY DEF IndInv
  <2> QED BY <1>1, <1>5, <1>6, <2>1, <2>2, CarryHandles
<1>8. ReadInv'
  <2>1. Evolves(Primary)
    BY <1>5 DEF Stores
  <2>2. uids' \in Nat /\ uids' >= uids
    BY <1>1 DEF RestOK
  <2> QED BY <1>1, <2>1, <2>2, CarryReads DEF IndInv
<1>9. TypeOK'
  BY <1>3, TypeBuilt
<1> QED BY <1>4, <1>7, <1>8, <1>9 DEF IndInv

(* push_owned: the store operation of an eager push.                       *)
LEMMA PushOwnedKept ==
    ASSUME IndInv, pushOwnedReturns
    PROVE  IndInv'
<1>1. TypeOK /\ TopicsOK /\ RestOK
  BY TypeSplit DEF IndInv
<1>2. topics \in Topics /\ freed \in [1 .. MaxPushes -> Nat] /\ call \in WriteCall /\ call.op = "owned"
  BY <1>1 DEF TopicsOK, RestOK, pushOwnedReturns
<1>3. call' = NoCall /\ UNCHANGED <<target, boxes, rd, views, pushes, calls, nextId, handles, uids>>
  BY DEF pushOwnedReturns, Returned
<1>4. /\ call.store \in Stores /\ call.topic \in Handle /\ call.ts \in Times /\ call.n \in 1 .. MaxPushes
      /\ call.topic.store = call.store => HandleOK(call.topic)
  BY <1>2 DEF IndInv, HandleInv, Pushing, WriteCall
<1>5. /\ topics' \in Topics /\ SameShape /\ EntryInv' /\ StoredOnce' /\ FetchInv'
      /\ \E gone : /\ freed' = Destroy(gone) /\ gone \subseteq 1 .. MaxPushes
                   /\ \A b \in gone : InStore(b) /\ ~InStore(b)'
                   /\ \A b : b \notin gone => (InStore(b)' <=> InStore(b))
  <2>1. CASE Accepts(call.store, call.topic, call.ts)
    <3>1. push(call.store, call.topic, call.ts, call.n, FALSE) /\ Unlocked(call.store, call.topic.id)
      BY <2>1 DEF pushOwnedReturns
    <3>2. PICK s \in Stores, h \in Handle, ts \in Times, n \in 1 .. MaxPushes :
             s = call.store /\ h = call.topic /\ ts = call.ts /\ n = call.n
      BY <1>4
    <3>3. /\ Unlocked(s, h.id) /\ Accepts(s, h, ts) /\ push(s, h, ts, n, FALSE)
          /\ h.store = s => HandleOK(h)
      BY <1>4, <2>1, <3>1, <3>2
    <3>4. ShapeInv /\ EntryInv /\ FetchInv /\ StoredOnce /\ UNCHANGED rd
      BY <1>3 DEF IndInv, BoxInv
    <3>5. /\ topics' \in Topics /\ SameShape /\ EntryInv' /\ StoredOnce' /\ FetchInv'
          /\ \E gone : /\ freed' = Destroy(gone) /\ gone \subseteq 1 .. MaxPushes
                       /\ \A b \in gone : (InStore(b) \/ (FALSE /\ b = n)) /\ ~InStore(b)'
                       /\ \A b : b \notin gone => (InStore(b)' <=> InStore(b) \/ (FALSE /\ b = n))
      BY ONLY <1>1, <3>3, <3>4, PushStep, FALSE \in BOOLEAN, s \in Stores, h \in Handle, ts \in Times,
              n \in 1 .. MaxPushes
    <3> QED BY <3>5
  <2>2. CASE ~Accepts(call.store, call.topic, call.ts)
    <3>1. UNCHANGED <<topics, freed>>
      BY <2>2 DEF pushOwnedReturns
    <3>2. SameShape
      BY <3>1, SameIfUnchanged
    <3>3. EntryInv' /\ StoredOnce' /\ FetchInv'
      BY <1>3, <3>1 DEF IndInv, EntryInv, BoxInv, StoredOnce, FetchInv
    <3>4. freed' = Destroy({}) /\ \A b : InStore(b)' <=> InStore(b)
      BY <1>2, <3>1, DestroyNone DEF InStore
    <3> QED BY <1>2, <3>1, <3>2, <3>3, <3>4
  <2> QED BY <2>1, <2>2
<1>6. BoxInv' /\ FreeInv' /\ freed' \in [1 .. MaxPushes -> Nat]
  BY <1>1, <1>2, <1>3, <1>5, CarryBoxes DEF IndInv
<1>7. RestOK'
  BY <1>1, <1>3, <1>6, NoCallType DEF RestOK
<1> QED BY <1>3, <1>5, <1>6, <1>7, SeriesStep

(* push_owned of the toolbox, at the primary store.                        *)
LEMMA ToolboxPushKept ==
    ASSUME IndInv, NEW topic \in handles, NEW ts \in Times, toolboxPushOwnedObject(topic, ts)
    PROVE  IndInv'
<1>1. TypeOK /\ TopicsOK /\ RestOK
  BY TypeSplit DEF IndInv
<1>2. /\ topics \in Topics /\ freed \in [1 .. MaxPushes -> Nat] /\ topic \in Handle
      /\ pushes + 1 \in 1 .. MaxPushes /\ pushes' = pushes + 1 /\ pushes \in Nat /\ HandleOK(topic)
  BY <1>1, HostsAssumption DEF TopicsOK, RestOK, toolboxPushOwnedObject, IndInv, HandleInv
<1>3. UNCHANGED <<nextId, target, call, handles, boxes, rd, views, uids>>
  BY DEF toolboxPushOwnedObject
<1>4. Primary \in Stores
  BY DEF Stores
<1>5. /\ topics' \in Topics /\ SameShape /\ EntryInv' /\ StoredOnce' /\ FetchInv'
      /\ \E gone : /\ freed' = Destroy(gone) /\ gone \subseteq 1 .. MaxPushes
                   /\ \A b \in gone : InStore(b) /\ ~InStore(b)'
                   /\ \A b : b \notin gone => (InStore(b)' <=> InStore(b))
  <2>1. PICK n \in 1 .. MaxPushes : n = pushes + 1
    BY <1>2
  <2>2. Unlocked(Primary, topic.id) /\ Accepts(Primary, topic, ts) /\ push(Primary, topic, ts, n, FALSE)
    BY <2>1 DEF toolboxPushOwnedObject
  <2>3. ShapeInv /\ EntryInv /\ FetchInv /\ StoredOnce /\ UNCHANGED rd
    BY <1>3 DEF IndInv, BoxInv
  <2>4. /\ topics' \in Topics /\ SameShape /\ EntryInv' /\ StoredOnce' /\ FetchInv'
        /\ \E gone : /\ freed' = Destroy(gone) /\ gone \subseteq 1 .. MaxPushes
                     /\ \A b \in gone : (InStore(b) \/ (FALSE /\ b = n)) /\ ~InStore(b)'
                     /\ \A b : b \notin gone => (InStore(b)' <=> InStore(b) \/ (FALSE /\ b = n))
    BY ONLY <1>1, <1>2, <1>4, <2>2, <2>3, PushStep, FALSE \in BOOLEAN, ts \in Times, n \in 1 .. MaxPushes
  <2> QED BY <2>4
<1>6. BoxInv' /\ FreeInv' /\ freed' \in [1 .. MaxPushes -> Nat]
  BY <1>1, <1>2, <1>3, <1>5, CarryBoxes DEF IndInv
<1>7. RestOK'
  <2>1. calls' \in 0 .. MaxCalls
    BY <1>1, HostsAssumption DEF RestOK, toolboxPushOwnedObject, Called
  <2>2. call.n <= pushes + 1 /\ boxes \subseteq 1 .. pushes + 1
    BY <1>1, <1>2 DEF RestOK, WriteCall
  <2> QED BY <1>1, <1>2, <1>3, <1>6, <2>1, <2>2 DEF RestOK
<1> QED BY <1>3, <1>5, <1>6, <1>7, SeriesStep

(* push_lazy: the store takes the context, or the holder destroys it.      *)
LEMMA PushLazyKept ==
    ASSUME IndInv, pushLazyReturns
    PROVE  IndInv'
<1>1. TypeOK /\ TopicsOK /\ RestOK
  BY TypeSplit DEF IndInv
<1>2. topics \in Topics /\ freed \in [1 .. MaxPushes -> Nat] /\ call \in WriteCall /\ call.op = "lazy"
  BY <1>1 DEF TopicsOK, RestOK, pushLazyReturns
<1>3. call' = NoCall /\ UNCHANGED <<target, boxes, rd, views, pushes, calls, nextId, handles, uids>>
  BY DEF pushLazyReturns, Returned
<1>4. /\ call.store \in Stores /\ call.topic \in Handle /\ call.ts \in Times /\ call.n \in 1 .. MaxPushes
      /\ call.topic.store = call.store => HandleOK(call.topic)
      /\ call.n \in boxes /\ ~InStore(call.n)
  BY <1>2 DEF IndInv, HandleInv, Pushing, WriteCall, BoxInv
<1>5. PICK s \in Stores, h \in Handle, ts \in Times, n \in 1 .. MaxPushes :
             s = call.store /\ h = call.topic /\ ts = call.ts /\ n = call.n
  BY <1>4
<1>6. \A b : Held(b) <=> InStore(b) \/ b = n
  BY <1>2, <1>5 DEF Held
<1>7. \A b : Held(b)' <=> InStore(b)'
  BY <1>3, NoCallType DEF Held
<1>8. CASE Accepts(call.store, call.topic, call.ts)
  <2>1. push(call.store, call.topic, call.ts, call.n, TRUE) /\ Unlocked(call.store, call.topic.id)
    BY <1>8 DEF pushLazyReturns
  <2>2. /\ Unlocked(s, h.id) /\ Accepts(s, h, ts) /\ push(s, h, ts, n, TRUE)
        /\ h.store = s => HandleOK(h)
        /\ ~InStore(n)
    BY <1>4, <1>5, <1>8, <2>1
  <2>3. ShapeInv /\ EntryInv /\ FetchInv /\ StoredOnce /\ UNCHANGED rd
    BY <1>3 DEF IndInv, BoxInv
  <2>4. /\ topics' \in Topics /\ SameShape /\ EntryInv' /\ StoredOnce' /\ FetchInv'
        /\ \E gone : /\ freed' = Destroy(gone) /\ gone \subseteq 1 .. MaxPushes
                     /\ \A b \in gone : (InStore(b) \/ (TRUE /\ b = n)) /\ ~InStore(b)'
                     /\ \A b : b \notin gone => (InStore(b)' <=> InStore(b) \/ (TRUE /\ b = n))
    BY ONLY <1>1, <2>2, <2>3, PushStep, TRUE \in BOOLEAN, s \in Stores, h \in Handle, ts \in Times,
            n \in 1 .. MaxPushes
  <2>5. PICK gone : /\ freed' = Destroy(gone) /\ gone \subseteq 1 .. MaxPushes
                    /\ \A b \in gone : (InStore(b) \/ b = n) /\ ~InStore(b)'
                    /\ \A b : b \notin gone => (InStore(b)' <=> InStore(b) \/ b = n)
    BY <2>4
  <2>6. \A b : InStore(b)' => InStore(b) \/ b = n
    BY <2>5
  <2>7. \A b \in 1 .. MaxPushes : InStore(b) \/ b = n => b \in boxes
    BY <1>4, <1>5 DEF IndInv, BoxInv
  <2>8. BoxInv'
    BY <1>3, <2>4, <2>6, <2>7, NoCallType DEF BoxInv
  <2>9. FreeInv'
    <3>1. CASE SdkView
      BY <3>1 DEF FreeInv
    <3>2. CASE FreedInv
      <4>1. \A b \in gone : b \in boxes /\ Held(b) /\ ~Held(b)'
        BY <1>6, <1>7, <2>5, <2>7
      <4>2. \A b \in 1 .. MaxPushes : b \notin gone => (Held(b)' <=> Held(b))
        BY <1>6, <1>7, <2>5
      <4>3. FreedInv'
        BY <1>2, <1>3, <2>5, <3>2, <4>1, <4>2, FreedStep
      <4> QED BY <4>3 DEF FreeInv
    <3> QED BY <3>1, <3>2 DEF IndInv, FreeInv
  <2>10. freed' \in [1 .. MaxPushes -> Nat]
    BY <1>2, <2>5, DestroyType
  <2>11. RestOK'
    BY <1>1, <1>3, <2>10, NoCallType DEF RestOK
  <2> QED BY <1>3, <2>4, <2>8, <2>9, <2>11, SeriesStep
<1>9. CASE ~Accepts(call.store, call.topic, call.ts)
  <2>1. UNCHANGED topics
    BY <1>9 DEF pushLazyReturns
  <2>2. SameShape
    BY <2>1, SameIfUnchanged
  <2>3. EntryInv' /\ StoredOnce' /\ FetchInv'
    <3>1. EntryInv /\ StoredOnce /\ FetchInv /\ UNCHANGED rd
      BY <1>3 DEF IndInv, BoxInv
    <3>2. EntryInv'
      BY <2>1, <3>1, EntriesIfUnchanged
    <3>3. StoredOnce'
      BY <2>1, <3>1, BoxesIfUnchanged
    <3>4. FetchInv'
      BY ONLY <2>1, <3>1 DEF FetchInv
    <3> QED BY <3>2, <3>3, <3>4
  <2>4. \A b : InStore(b)' <=> InStore(b)
    BY <2>1 DEF InStore
  <2>5. BoxInv'
    BY <1>3, <2>3, <2>4, NoCallType DEF IndInv, BoxInv
  <2>6. PICK g \in [1 .. MaxPushes -> Nat], x \in Nat : g = Destroy({n}) /\ x = sdkDrop(n)
    <3>1. Destroy({n}) \in [1 .. MaxPushes -> Nat] /\ sdkDrop(n) \in Nat
      BY <1>2, DestroyType DEF sdkDrop
    <3> QED BY <3>1
  <2>10. freed' = [g EXCEPT ![n] = @ + x]
    BY <1>5, <1>9, <2>6 DEF pushLazyReturns
  <2>7. freed' \in [1 .. MaxPushes -> Nat]
    BY <2>10
  <2>8. FreeInv'
    <3>1. CASE SdkView
      BY <3>1 DEF FreeInv
    <3>2. CASE ~SdkView /\ FreedInv
      <4>1. sdkDrop(n) = 0
        BY <3>2 DEF sdkDrop
      <4>2. freed' = Destroy({n})
        <5>1. x = 0
          BY <2>6, <4>1
        <5>2. freed' = g
          BY <2>10, <5>1
        <5> QED BY <2>6, <5>2
      <4>3. \A b \in {n} : b \in boxes /\ Held(b) /\ ~Held(b)'
        BY <1>4, <1>5, <1>6, <1>7, <2>4
      <4>4. \A b \in 1 .. MaxPushes : b \notin {n} => (Held(b)' <=> Held(b))
        BY <1>6, <1>7, <2>4
      <4>5. FreedInv'
        BY <1>2, <1>3, <3>2, <4>2, <4>3, <4>4, FreedStep
      <4> QED BY <4>5 DEF FreeInv
    <3> QED BY <3>1, <3>2 DEF IndInv, FreeInv
  <2>9. RestOK'
    BY <1>1, <1>3, <2>7, NoCallType DEF RestOK
  <2> QED BY <1>2, <1>3, <2>1, <2>2, <2>3, <2>5, <2>8, <2>9, SeriesStep
<1> QED BY <1>8, <1>9

(* set_retention_budget moves no entry.                                    *)
LEMMA BudgetKept ==
    ASSUME IndInv, budgetReturns
    PROVE  IndInv'
<1>1. TypeOK /\ TopicsOK /\ RestOK
  BY TypeSplit DEF IndInv
<1>2. topics \in Topics /\ freed \in [1 .. MaxPushes -> Nat] /\ call \in WriteCall /\ call.op = "budget"
  BY <1>1 DEF TopicsOK, RestOK, budgetReturns
<1>3. call' = NoCall /\ UNCHANGED <<target, boxes, rd, views, pushes, calls, nextId, handles, uids, freed>>
  BY DEF budgetReturns, Returned
<1>4. PICK s \in Stores, id \in Nat, budget \in AnyBudget :
         s = call.store /\ id = call.topic.id /\ budget = call.budget
  <2>1. call.store \in Stores /\ call.topic.id \in Nat /\ call.budget \in AnyBudget
    BY <1>2 DEF WriteCall, Handle
  <2> QED BY <2>1
<1> DEFINE q == [i \in DOMAIN topics[s] |-> IF i \in findSeries(s, id)
                               THEN [topics[s][i] EXCEPT !.budget = budget] ELSE topics[s][i]]
<1>5. topics' = [topics EXCEPT ![s] = q]
  BY <1>2, <1>4 DEF budgetReturns, Topics
<1>6. /\ DOMAIN topics[s] = 1 .. Len(topics[s]) /\ Len(topics[s]) \in Nat
      /\ \A i \in 1 .. Len(topics[s]) : topics[s][i] \in Series
  BY <1>2, TypedTopics
<1>7. ASSUME NEW i \in 1 .. Len(topics[s])
      PROVE  /\ q[i] \in Series /\ q[i].id = topics[s][i].id /\ q[i].uid = topics[s][i].uid
             /\ q[i].key = topics[s][i].key /\ q[i].entries = topics[s][i].entries
  <2>1. topics[s][i] \in Series
    BY <1>6
  <2>2. q[i] = topics[s][i] \/ q[i] = [topics[s][i] EXCEPT !.budget = budget]
    BY <1>6
  <2> HIDE DEF q
  <2>3. CASE q[i] = topics[s][i]
    BY <2>1, <2>3
  <2>4. CASE q[i] = [topics[s][i] EXCEPT !.budget = budget]
    BY <2>1, <2>4 DEF Series
  <2> QED BY <2>2, <2>3, <2>4
<1>8. q \in [1 .. Len(topics[s]) -> Series]
  BY <1>6, <1>7
<1> HIDE DEF q
<1>9. q \in Seq(Series) /\ Len(q) = Len(topics[s])
  BY <1>6, <1>8, ListOf
<1>10. topics' \in Topics /\ topics'[s] = q /\ \A d \in Stores : d # s => topics'[d] = topics[d]
  BY <1>2, <1>5, <1>9 DEF Topics
<1>11. \A d \in Stores : Len(topics'[d]) = Len(topics[d])
  BY <1>9, <1>10
<1>12. \A d \in Stores : \A i \in 1 .. Len(topics[d]) :
          /\ topics'[d][i].id = topics[d][i].id /\ topics'[d][i].uid = topics[d][i].uid
          /\ topics'[d][i].key = topics[d][i].key /\ topics'[d][i].entries = topics[d][i].entries
  <2> SUFFICES ASSUME NEW d \in Stores, NEW i \in 1 .. Len(topics[d])
               PROVE  /\ topics'[d][i].id = topics[d][i].id /\ topics'[d][i].uid = topics[d][i].uid
                      /\ topics'[d][i].key = topics[d][i].key /\ topics'[d][i].entries = topics[d][i].entries
    OBVIOUS
  <2>1. CASE d = s
    BY <1>7, <1>10, <2>1
  <2>2. CASE d # s
    BY <1>10, <2>2
  <2> QED BY <2>1, <2>2
<1>13. SameShape
  BY <1>11, <1>12 DEF SameShape
<1>14. StoredOnce' /\ \A b : InStore(b)' <=> InStore(b)
  BY <1>11, <1>12, SameBoxes DEF IndInv, BoxInv
<1>15. freed' = Destroy({})
  BY <1>2, <1>3, DestroyNone
<1>16. BoxInv' /\ FreeInv' /\ freed' \in [1 .. MaxPushes -> Nat]
  <2> DEFINE gone == {}
  <2>1. /\ \A b \in gone : InStore(b) /\ ~InStore(b)'
        /\ \A b : b \notin gone => (InStore(b)' <=> InStore(b))
        /\ gone \subseteq 1 .. MaxPushes /\ freed' = Destroy(gone)
    BY <1>14, <1>15
  <2>2. call.op # "lazy" /\ call' = NoCall /\ UNCHANGED boxes
    BY <1>2, <1>3
  <2> HIDE DEF gone
  <2> QED BY <1>1, <1>14, <2>1, <2>2, CarryBoxes DEF IndInv
<1>17. Primary \in Stores
  BY DEF Stores
<1>18. FetchInv'
  BY <1>3, <1>11, <1>12, <1>17, FetchIfSame DEF IndInv
<1>19. EntryInv'
  <2> SUFFICES ASSUME NEW d \in Stores, NEW j \in 1 .. Len(topics'[d]), NEW x \in 1 .. Len(topics'[d][j].entries),
                      topics'[d][j].entries[x].own
               PROVE  topics'[d][j].entries[x].key = topics'[d][j].key
    BY DEF EntryInv
  <2>1. /\ j \in 1 .. Len(topics[d]) /\ topics'[d][j].entries = topics[d][j].entries
        /\ topics'[d][j].key = topics[d][j].key
    BY <1>11, <1>12
  <2>2. topics[d][j].entries[x].own => topics[d][j].entries[x].key = topics[d][j].key
    BY <2>1 DEF IndInv, EntryInv
  <2> QED BY <2>1, <2>2
<1>20. RestOK'
  BY <1>1, <1>3, <1>16, NoCallType DEF RestOK
<1> QED BY <1>3, <1>10, <1>13, <1>16, <1>18, <1>19, <1>20, SeriesStep

(* evictBefore.                                                            *)
LEMMA EvictKept ==
    ASSUME IndInv, NEW s \in Stores, NEW id, NEW ts, evictBefore(s, id, ts)
    PROVE  IndInv'
<1>1. TypeOK /\ TopicsOK /\ RestOK
  BY TypeSplit DEF IndInv
<1>2. topics \in Topics /\ freed \in [1 .. MaxPushes -> Nat]
  BY <1>1 DEF TopicsOK, RestOK
<1>3. UNCHANGED <<nextId, target, call, handles, boxes, rd, views, uids, pushes>> /\ Called /\ Unlocked(s, id)
  BY DEF evictBefore
<1>4. PICK i \in findSeries(s, id) : \E k :
         /\ k = Min({j \in 0 .. Len(topics[s][i].entries) :
                       j < Len(topics[s][i].entries) => topics[s][i].entries[j + 1].ts >= ts})
         /\ topics' = [topics EXCEPT ![s][i].entries = Trim(topics[s][i].entries, k)]
         /\ freed' = Destroy(Boxes(SubSeq(topics[s][i].entries, 1, k)))
  BY DEF evictBefore
<1> DEFINE old == topics[s][i].entries
           S == {j \in 0 .. Len(old) : j < Len(old) => old[j + 1].ts >= ts}
           k == Min(S)
           new == Trim(old, k)
           gone == Boxes(SubSeq(old, 1, k))
<1>5. topics' = [topics EXCEPT ![s][i].entries = new] /\ freed' = Destroy(gone)
  BY <1>4
<1>6. i \in 1 .. Len(topics[s])
  BY <1>2, <1>4, TypedTopics DEF findSeries
<1>7. old \in Seq(Entry)
  BY <1>2, <1>6, TypedTopics
<1>8. k \in 0 .. Len(old)
  <2>1. Len(old) \in Nat
    BY <1>7
  <2>2. Len(old) \in S /\ S \subseteq 0 .. Len(old) /\ S \in SUBSET Nat
    BY <2>1
  <2> HIDE DEF S
  <2>3. Min(S) \in S
    BY <2>2, MinOf
  <2> QED BY <2>2, <2>3
<1> HIDE DEF k
<1>9. \A x \in 1 .. Len(new) : \E y \in 1 .. Len(old) : new[x] = old[y]
  BY <1>7, <1>8, BoxesCut
<1>10. /\ new \in Seq(Entry) /\ StoredOnce'
       /\ \A b \in gone : InStore(b) /\ ~InStore(b)'
       /\ \A b : b \notin gone => (InStore(b)' <=> InStore(b))
  BY <1>2, <1>5, <1>6, <1>8, EvictBoxes DEF IndInv, BoxInv
<1>11. \A x \in 1 .. Len(new) : new[x].own => new[x].key = topics[s][i].key
  <2> SUFFICES ASSUME NEW x \in 1 .. Len(new), new[x].own PROVE new[x].key = topics[s][i].key
    OBVIOUS
  <2>1. PICK y \in 1 .. Len(old) : new[x] = old[y]
    BY <1>9
  <2>2. topics[s][i].entries[y].own => topics[s][i].entries[y].key = topics[s][i].key
    BY <1>6 DEF IndInv, EntryInv
  <2> HIDE DEF new
  <2> QED BY <2>1, <2>2
<1> HIDE DEF new, gone
<1>12. topics' \in Topics /\ SameShape /\ Refilled(s, i, new)
  BY <1>2, <1>5, <1>6, <1>10, RefillFacts
<1>13. FetchInv'
  BY <1>1, <1>3, <1>4, <1>12, FetchIfUnlocked DEF IndInv
<1>14. EntryInv'
  BY <1>1, <1>6, <1>11, <1>12, EntriesKept DEF IndInv
<1>15. gone \subseteq 1 .. MaxPushes
  BY <1>2, <1>10, InStoreRange
<1>16. BoxInv' /\ FreeInv' /\ freed' \in [1 .. MaxPushes -> Nat]
  BY <1>1, <1>3, <1>5, <1>10, <1>15, CarryBoxes DEF IndInv
<1>17. RestOK'
  <2>1. calls' \in 0 .. MaxCalls
    BY <1>1, <1>3, HostsAssumption DEF RestOK, Called
  <2> QED BY <1>1, <1>3, <1>16, <2>1 DEF RestOK
<1> QED BY <1>3, <1>12, <1>13, <1>14, <1>16, <1>17, SeriesStep

(* flushTo.                                                                *)
LEMMA FlushKept ==
    ASSUME IndInv, NEW s \in Stores, NEW d \in Stores, flushTo(s, d)
    PROVE  IndInv'
<1>1. TypeOK /\ TopicsOK /\ RestOK
  BY TypeSplit DEF IndInv
<1>2. topics \in Topics /\ freed \in [1 .. MaxPushes -> Nat]
  BY <1>1 DEF TopicsOK, RestOK
<1>3. /\ UNCHANGED <<nextId, target, call, handles, boxes, rd, views, uids, pushes>> /\ Called
      /\ s # d /\ ListFree(s) /\ ListFree(d)
  BY DEF flushTo
<1>4. /\ topics' \in Topics /\ SameShape /\ StoredOnce' /\ EntryInv'
      /\ \E gone : /\ freed' = Destroy(gone)
                   /\ \A b \in gone : InStore(b) /\ ~InStore(b)'
                   /\ \A b : b \notin gone => (InStore(b)' <=> InStore(b))
  BY <1>2, FlushFacts DEF IndInv, BoxInv
<1>5. PICK gone : /\ freed' = Destroy(gone)
                  /\ \A b \in gone : InStore(b) /\ ~InStore(b)'
                  /\ \A b : b \notin gone => (InStore(b)' <=> InStore(b))
  BY <1>4
<1>6. gone \subseteq 1 .. MaxPushes
  BY <1>2, <1>5, InStoreRange
<1>7. BoxInv' /\ FreeInv' /\ freed' \in [1 .. MaxPushes -> Nat]
  BY <1>1, <1>3, <1>4, <1>5, <1>6, CarryBoxes DEF IndInv
<1>8. FetchInv'
  <2>1. Fetching = {}
    BY <1>3 DEF ListFree, Stores
  <2> QED BY <1>3, <2>1, FetchIfFree
<1>9. RestOK'
  <2>1. calls' \in 0 .. MaxCalls
    BY <1>1, <1>3, HostsAssumption DEF RestOK, Called
  <2> QED BY <1>1, <1>3, <1>7, <2>1 DEF RestOK
<1> QED BY <1>3, <1>4, <1>7, <1>8, <1>9, SeriesStep

(* removeTopic.                                                            *)
LEMMA RemoveKept ==
    ASSUME IndInv, NEW s \in Stores, NEW id, removeTopic(s, id)
    PROVE  IndInv'
<1>1. TypeOK /\ TopicsOK /\ RestOK
  BY TypeSplit DEF IndInv
<1>2. topics \in Topics /\ freed \in [1 .. MaxPushes -> Nat] /\ nextId \in [Stores -> Nat] /\ uids \in Nat
  BY <1>1 DEF TopicsOK, RestOK
<1>3. UNCHANGED <<nextId, target, call, handles, boxes, rd, views, uids, pushes>> /\ Called /\ ListFree(s)
  BY DEF removeTopic
<1>4. PICK k \in findSeries(s, id) :
         /\ topics' = [topics EXCEPT ![s] = RemoveAt(@, k)]
         /\ freed' = Destroy(Boxes(topics[s][k].entries))
  BY DEF removeTopic
<1>5. k \in 1 .. Len(topics[s])
  BY <1>2, <1>4, TypedTopics DEF findSeries
<1>6. /\ topics' \in Topics /\ ShapeInv' /\ \A d \in Stores : Evolves(d)
      /\ \A d \in Stores : d # s => topics'[d] = topics[d]
      /\ \A i \in 1 .. Len(topics'[s]) : \E j \in 1 .. Len(topics[s]) : j # k /\ topics'[s][i] = topics[s][j]
  BY <1>2, <1>4, <1>5, RemovedFacts DEF IndInv
<1>7. \A d \in Stores : \A i \in 1 .. Len(topics'[d]) : \E j \in 1 .. Len(topics[d]) : topics'[d][i] = topics[d][j]
  <2> SUFFICES ASSUME NEW d \in Stores, NEW i \in 1 .. Len(topics'[d])
               PROVE  \E j \in 1 .. Len(topics[d]) : topics'[d][i] = topics[d][j]
    OBVIOUS
  <2>1. CASE d = s
    BY <1>6, <2>1
  <2>2. CASE d # s
    BY <1>6, <2>2
  <2> QED BY <2>1, <2>2
<1> DEFINE gone == Boxes(topics[s][k].entries)
<1>8. /\ StoredOnce'
      /\ \A b \in gone : InStore(b) /\ ~InStore(b)'
      /\ \A b : b \notin gone => (InStore(b)' <=> InStore(b))
  BY <1>2, <1>4, <1>5, RemovedBoxes DEF IndInv, BoxInv
<1>9. freed' = Destroy(gone)
  BY <1>4
<1> HIDE DEF gone
<1>10. gone \subseteq 1 .. MaxPushes
  BY <1>2, <1>8, InStoreRange
<1>11. BoxInv' /\ FreeInv' /\ freed' \in [1 .. MaxPushes -> Nat]
  BY <1>1, <1>3, <1>8, <1>9, <1>10, CarryBoxes DEF IndInv
<1>12. TopicsOK'
  <2> SUFFICES ASSUME NEW d \in Stores, NEW i \in 1 .. Len(topics'[d])
               PROVE  topics'[d][i].id \in 1 .. nextId[d] - 1 /\ topics'[d][i].uid <= uids
    BY <1>3, <1>6 DEF TopicsOK
  <2>1. PICK j \in 1 .. Len(topics[d]) : topics'[d][i] = topics[d][j]
    BY <1>7
  <2> QED BY <1>1, <2>1 DEF TopicsOK
<1>13. RestOK'
  <2>1. calls' \in 0 .. MaxCalls
    BY <1>1, <1>3, HostsAssumption DEF RestOK, Called
  <2> QED BY <1>1, <1>3, <1>11, <2>1 DEF RestOK
<1>14. HandleInv'
  <2>1. nextId' \in [Stores -> Nat] /\ (\A d \in Stores : nextId'[d] >= nextId[d])
        /\ call' = call /\ UNCHANGED target /\ \A h \in handles' : h \in handles \/ HandleOK(h)'
    BY <1>2, <1>3
  <2> QED BY <1>1, <1>6, <2>1, CarryHandles DEF IndInv
<1>15. ReadInv'
  <2>1. Evolves(Primary) /\ UNCHANGED rd /\ uids' \in Nat /\ uids' >= uids
    BY <1>2, <1>3, <1>6 DEF Stores
  <2> QED BY <1>1, <2>1, CarryReads DEF IndInv
<1>16. EntryInv'
  <2> SUFFICES ASSUME NEW d \in Stores, NEW j \in 1 .. Len(topics'[d]), NEW x \in 1 .. Len(topics'[d][j].entries),
                      topics'[d][j].entries[x].own
               PROVE  topics'[d][j].entries[x].key = topics'[d][j].key
    BY DEF EntryInv
  <2>1. PICK i \in 1 .. Len(topics[d]) : topics'[d][j] = topics[d][i]
    BY <1>7
  <2>2. \A z \in 1 .. Len(topics[d][i].entries) :
           topics[d][i].entries[z].own => topics[d][i].entries[z].key = topics[d][i].key
    BY <2>1 DEF IndInv, EntryInv
  <2> QED BY <2>1, <2>2
<1>17. FetchInv'
  <2>1. CASE s = Primary
    <3>1. Fetching = {}
      BY <1>3, <2>1 DEF ListFree
    <3> QED BY <1>3, <3>1, FetchIfFree
  <2>2. CASE s # Primary
    <3>1. topics'[Primary] = topics[Primary]
      BY <1>6, <2>2 DEF Stores
    <3> QED BY <1>3, <3>1, FetchIfSame DEF IndInv
  <2> QED BY <2>1, <2>2
<1>18. TypeOK'
  BY <1>12, <1>13, TypeBuilt
<1> QED BY <1>6, <1>11, <1>14, <1>15, <1>16, <1>17, <1>18 DEF IndInv

(* clear, between sessions.                                                *)
LEMMA ClearKept ==
    ASSUME IndInv, NEW s \in Stores, clear(s)
    PROVE  IndInv'
<1>1. TypeOK /\ TopicsOK /\ RestOK
  BY TypeSplit DEF IndInv
<1>2. topics \in Topics /\ freed \in [1 .. MaxPushes -> Nat] /\ nextId \in [Stores -> Nat] /\ uids \in Nat
  BY <1>1 DEF TopicsOK, RestOK
<1>3. /\ UNCHANGED <<target, call, boxes, rd, views, uids, pushes>> /\ Called /\ ListFree(s)
      /\ call = NoCall /\ target["parser"] # s /\ freed' = Destroy(BoxesOf(s))
      /\ topics' = [topics EXCEPT ![s] = <<>>] /\ nextId' = [nextId EXCEPT ![s] = 1]
      /\ handles' = {h \in handles : h.store # s}
  BY DEF clear
<1>4. /\ topics' \in Topics /\ StoredOnce' /\ ShapeInv' /\ \A d \in Stores : Evolves(d)
      /\ topics'[s] = <<>> /\ \A d \in Stores : d # s => topics'[d] = topics[d]
      /\ \A b \in BoxesOf(s) : InStore(b) /\ ~InStore(b)'
      /\ \A b : b \notin BoxesOf(s) => (InStore(b)' <=> InStore(b))
  BY <1>2, <1>3, ClearedBoxes DEF IndInv, BoxInv
<1>5. \A d \in Stores : \A i \in 1 .. Len(topics'[d]) : d # s /\ i \in 1 .. Len(topics[d]) /\ topics'[d] = topics[d]
  BY <1>4
<1>6. nextId' \in [Stores -> Nat] /\ \A d \in Stores : d # s => nextId'[d] = nextId[d]
  BY <1>2, <1>3
<1>7. BoxesOf(s) \subseteq 1 .. MaxPushes
  BY <1>2, <1>4, InStoreRange
<1>8. BoxInv' /\ FreeInv' /\ freed' \in [1 .. MaxPushes -> Nat]
  BY <1>1, <1>3, <1>4, <1>7, CarryBoxes DEF IndInv
<1>9. TopicsOK'
  BY <1>1, <1>3, <1>4, <1>5, <1>6 DEF TopicsOK
<1>10. RestOK'
  <2>1. calls' \in 0 .. MaxCalls
    BY <1>1, <1>3, HostsAssumption DEF RestOK, Called
  <2> QED BY <1>1, <1>3, <1>6, <1>8, <2>1 DEF RestOK
<1>11. HandleInv'
  <2>1. ASSUME NEW h \in handles' PROVE HandleOK(h)'
    <3>1. h \in handles /\ h.store # s /\ h.store \in Stores
      BY <1>1, <1>3, <2>1 DEF RestOK, Handle
    <3>2. HandleOK(h)
      BY <3>1 DEF IndInv, HandleInv
    <3>3. topics'[h.store] = topics[h.store] /\ nextId'[h.store] = nextId[h.store]
      BY <1>4, <1>6, <3>1
    <3> QED BY <3>2, <3>3 DEF HandleOK
  <2>2. BoundOK(target["parser"])'
    <3>1. target["parser"] \in Stores /\ target["parser"] # s /\ BoundOK(target["parser"])
      BY <1>1, <1>3 DEF RestOK, IndInv, HandleInv, WriteHosts
    <3>2. PICK t \in Stores : t = target["parser"] /\ t # s /\ BoundOK(t)
      BY <3>1
    <3>3. topics'[t] = topics[t] /\ nextId'[t] = nextId[t]
      BY <1>4, <1>6, <3>2
    <3>4. BoundOK(t)'
      BY <3>2, <3>3 DEF BoundOK
    <3> QED BY <1>3, <3>2, <3>4
  <2>3. ~Pushing'
    BY <1>3, NoCallType DEF Pushing
  <2> QED BY <2>1, <2>2, <2>3 DEF HandleInv
<1>12. ReadInv'
  <2>1. Evolves(Primary) /\ UNCHANGED rd /\ uids' \in Nat /\ uids' >= uids
    BY <1>2, <1>3, <1>4 DEF Stores
  <2> QED BY <1>1, <2>1, CarryReads DEF IndInv
<1>13. EntryInv'
  <2> SUFFICES ASSUME NEW d \in Stores, NEW j \in 1 .. Len(topics'[d]), NEW x \in 1 .. Len(topics'[d][j].entries),
                      topics'[d][j].entries[x].own
               PROVE  topics'[d][j].entries[x].key = topics'[d][j].key
    BY DEF EntryInv
  <2>1. j \in 1 .. Len(topics[d]) /\ topics'[d][j] = topics[d][j]
    BY <1>5
  <2>2. \A z \in 1 .. Len(topics[d][j].entries) :
           topics[d][j].entries[z].own => topics[d][j].entries[z].key = topics[d][j].key
    BY <2>1 DEF IndInv, EntryInv
  <2> QED BY <2>1, <2>2
<1>14. FetchInv'
  <2>1. CASE s = Primary
    <3>1. Fetching = {}
      BY <1>3, <2>1 DEF ListFree
    <3> QED BY <1>3, <3>1, FetchIfFree
  <2>2. CASE s # Primary
    <3>1. topics'[Primary] = topics[Primary]
      BY <1>4, <2>2 DEF Stores
    <3> QED BY <1>3, <3>1, FetchIfSame DEF IndInv
  <2> QED BY <2>1, <2>2
<1>15. TypeOK'
  BY <1>9, <1>10, TypeBuilt
<1> QED BY <1>4, <1>8, <1>11, <1>12, <1>13, <1>14, <1>15 DEF IndInv

(* registerTopic, for the source's host and for the toolbox.               *)
LEMMA RegisterKept ==
    ASSUME IndInv, NEW s \in Stores, NEW key \in Keys, ListFree(s), registerTopic(s, key),
           UNCHANGED <<target, boxes, freed, rd, views, pushes>>,
           call' = call \/ (call.op # "lazy" /\ call' = NoCall), calls' \in 0 .. MaxCalls
    PROVE  IndInv'
<1>1. TypeOK /\ TopicsOK /\ RestOK
  BY TypeSplit DEF IndInv
<1>2. /\ topics \in Topics /\ freed \in [1 .. MaxPushes -> Nat] /\ nextId \in [Stores -> Nat] /\ uids \in Nat
      /\ uids \in 0 .. MaxSeries /\ MaxSeries \in Nat /\ call \in WriteCall
  BY <1>1, HostsAssumption DEF TopicsOK, RestOK
<1>3. call'.n <= pushes /\ call' \in WriteCall
  BY <1>1, <1>2, NoCallType DEF RestOK
<1>5. CASE findTopic(s, key) # {}
  <2>1. UNCHANGED <<topics, nextId, uids, handles>>
    BY <1>5 DEF registerTopic
  <2>2. SameShape
    BY <2>1, SameIfUnchanged
  <2>3. EntryInv' /\ FetchInv'
    BY <2>1, EntriesIfUnchanged DEF IndInv, FetchInv
  <2>4. StoredOnce' /\ \A b : InStore(b)' <=> InStore(b)
    <3>1. StoredOnce
      BY DEF IndInv, BoxInv
    <3>2. StoredOnce'
      BY <2>1, <3>1, BoxesIfUnchanged
    <3> QED BY <2>1, <3>2 DEF InStore
  <2>5. BoxInv' /\ FreeInv'
    <3> DEFINE gone == {}
    <3>1. /\ \A b \in gone : InStore(b) /\ ~InStore(b)'
          /\ \A b : b \notin gone => (InStore(b)' <=> InStore(b))
          /\ gone \subseteq 1 .. MaxPushes /\ freed' = Destroy(gone)
      BY <1>2, <2>4, DestroyNone
    <3> HIDE DEF gone
    <3> QED BY <1>1, <2>4, <3>1, CarryBoxes DEF IndInv
  <2>6. RestOK'
    BY <1>1, <1>3, <2>1 DEF RestOK
  <2> QED BY <1>2, <2>1, <2>2, <2>3, <2>5, <2>6, SeriesStep
<1>6. CASE findTopic(s, key) = {}
  <2> DEFINE n == Len(topics[s])
  <2>1. /\ topics' = [topics EXCEPT ![s] = Append(@, NewSeries(nextId[s], uids + 1, key))]
        /\ nextId' = [nextId EXCEPT ![s] = @ + 1] /\ uids' = uids + 1 /\ uids < MaxSeries
        /\ handles' = handles \cup {[store |-> s, id |-> nextId[s], key |-> key]}
    BY <1>6 DEF registerTopic, idOfNewTopic
  <2>2. nextId[s] \in Nat /\ uids + 1 \in 1 .. MaxSeries
    BY <1>2, <2>1
  <2>3. PICK x \in Series :
           /\ x.entries = <<>> /\ x.id = nextId[s] /\ x.uid = uids + 1 /\ x.key = key
           /\ topics' = [topics EXCEPT ![s] = Append(@, x)]
    <3>1. NewSeries(nextId[s], uids + 1, key) \in Series
      BY <2>2, BudgetType DEF NewSeries, Series
    <3>2. /\ NewSeries(nextId[s], uids + 1, key).entries = <<>>
          /\ NewSeries(nextId[s], uids + 1, key).id = nextId[s]
          /\ NewSeries(nextId[s], uids + 1, key).uid = uids + 1
          /\ NewSeries(nextId[s], uids + 1, key).key = key
      BY DEF NewSeries
    <3> QED BY <2>1, <3>1, <3>2
  <2>4. PICK new \in Handle :
           new.store = s /\ new.id = nextId[s] /\ new.key = key /\ handles' = handles \cup {new}
    <3>1. [store |-> s, id |-> nextId[s], key |-> key] \in Handle
      BY <2>2 DEF Handle
    <3> QED BY <2>1, <3>1
  <2>5. \A d \in Stores : \A i \in 1 .. Len(topics[d]) : topics[d][i].uid <= uids
    BY <1>1 DEF TopicsOK
  <2>6. \A i \in 1 .. Len(topics[s]) : topics[s][i].id < nextId[s] /\ topics[s][i].key # x.key
    <3>1. DOMAIN topics[s] = 1 .. Len(topics[s])
      BY <1>2, TypedTopics
    <3>2. \A i \in 1 .. Len(topics[s]) : topics[s][i].id < nextId[s]
      BY <1>1, <1>2 DEF TopicsOK
    <3> QED BY <1>6, <2>3, <3>1, <3>2 DEF findTopic
  <2>7. /\ topics' \in Topics /\ ShapeInv' /\ \A d \in Stores : Evolves(d)
        /\ Len(topics'[s]) = n + 1 /\ topics'[s][n + 1] = x
        /\ \A d \in Stores : \A j \in 1 .. Len(topics[d]) : topics'[d][j] = topics[d][j]
        /\ \A d \in Stores : d # s => topics'[d] = topics[d]
    BY <1>2, <2>3, <2>5, <2>6, GrownFacts DEF IndInv
  <2>8. n \in Nat
    BY <1>2, TypedTopics
  <2>9. StoredOnce' /\ \A b : InStore(b)' <=> InStore(b)
    BY <1>2, <2>3, <2>7, GrownBoxes DEF IndInv, BoxInv
  <2>10. BoxInv' /\ FreeInv'
    <3> DEFINE gone == {}
    <3>1. /\ \A b \in gone : InStore(b) /\ ~InStore(b)'
          /\ \A b : b \notin gone => (InStore(b)' <=> InStore(b))
          /\ gone \subseteq 1 .. MaxPushes /\ freed' = Destroy(gone)
      BY <1>2, <2>9, DestroyNone
    <3> HIDE DEF gone
    <3> QED BY <1>1, <2>9, <3>1, CarryBoxes DEF IndInv
  <2>11. \A d \in Stores : \A i \in 1 .. Len(topics'[d]) :
            (i \in 1 .. Len(topics[d]) /\ topics'[d][i] = topics[d][i]) \/ (d = s /\ i = n + 1 /\ topics'[d][i] = x)
    <3> SUFFICES ASSUME NEW d \in Stores, NEW i \in 1 .. Len(topics'[d]), i \notin 1 .. Len(topics[d])
                 PROVE  d = s /\ i = n + 1 /\ topics'[d][i] = x
      BY <2>7
    <3>1. d = s
      BY <2>7
    <3> QED BY <2>7, <2>8, <3>1
  <2>12. nextId' \in [Stores -> Nat] /\ nextId'[s] = nextId[s] + 1 /\ \A d \in Stores : nextId'[d] >= nextId[d]
    BY <1>2, <2>1
  <2> HIDE DEF n
  <2>13. TopicsOK'
    <3> SUFFICES ASSUME NEW d \in Stores, NEW i \in 1 .. Len(topics'[d])
                 PROVE  topics'[d][i].id \in 1 .. nextId'[d] - 1 /\ topics'[d][i].uid <= uids'
      BY <2>7 DEF TopicsOK
    <3>1. CASE i \in 1 .. Len(topics[d]) /\ topics'[d][i] = topics[d][i]
      <4>1. topics[d][i].id \in 1 .. nextId[d] - 1 /\ topics[d][i].uid <= uids
        BY <1>1, <3>1 DEF TopicsOK
      <4>2. topics[d][i].uid \in Nat /\ nextId[d] \in Nat /\ nextId'[d] \in Nat /\ nextId'[d] >= nextId[d]
        BY <1>2, <2>12, <3>1, TypedTopics
      <4> QED BY <1>2, <2>1, <3>1, <4>1, <4>2, SMTT(30)
    <3>2. CASE d = s /\ topics'[d][i] = x
      <4>1. nextId[s] >= 1
        BY <1>1 DEF RestOK
      <4> QED BY <2>1, <2>2, <2>3, <2>12, <3>2, <4>1
    <3> QED BY <2>11, <3>1, <3>2
  <2>14. RestOK'
    BY <1>1, <1>2, <1>3, <2>1, <2>2, <2>4, <2>12 DEF RestOK
  <2>15. HandleInv'
    <3>1. HandleOK(new)'
      <4>1. new.id < nextId'[new.store]
        BY <2>2, <2>4, <2>12
      <4>2. ASSUME NEW i \in 1 .. Len(topics'[s]), topics'[s][i].id = nextId[s] PROVE topics'[s][i].key = key
        <5>1. CASE i \in 1 .. Len(topics[s]) /\ topics'[s][i] = topics[s][i]
          <6>1. topics[s][i].id < nextId[s] /\ topics[s][i].id \in Nat
            BY <1>2, <2>6, <5>1, TypedTopics
          <6> QED BY <2>2, <4>2, <5>1, <6>1
        <5>2. CASE topics'[s][i] = x
          BY <2>3, <5>2
        <5> QED BY <2>11, <5>1, <5>2
      <4> QED BY <2>4, <4>1, <4>2 DEF HandleOK
    <3>2. \A h \in handles' : h \in handles \/ HandleOK(h)'
      BY <2>4, <3>1
    <3> QED BY <1>1, <2>7, <2>12, <3>2, CarryHandles DEF IndInv
  <2>16. ReadInv'
    <3>1. Evolves(Primary) /\ UNCHANGED rd /\ uids' \in Nat /\ uids' >= uids
      BY <1>2, <2>1, <2>7 DEF Stores
    <3> QED BY <1>1, <3>1, CarryReads DEF IndInv
  <2>17. EntryInv'
    <3> SUFFICES ASSUME NEW d \in Stores, NEW j \in 1 .. Len(topics'[d]), NEW z \in 1 .. Len(topics'[d][j].entries),
                        topics'[d][j].entries[z].own
                 PROVE  topics'[d][j].entries[z].key = topics'[d][j].key
      BY DEF EntryInv
    <3>1. CASE j \in 1 .. Len(topics[d]) /\ topics'[d][j] = topics[d][j]
      <4>1. \A y \in 1 .. Len(topics[d][j].entries) :
               topics[d][j].entries[y].own => topics[d][j].entries[y].key = topics[d][j].key
        BY <3>1 DEF IndInv, EntryInv
      <4> QED BY <3>1, <4>1
    <3>2. CASE topics'[d][j] = x
      <4>1. topics'[d][j].entries = <<>>
        BY <2>3, <3>2
      <4> QED BY <4>1
    <3> QED BY <2>11, <3>1, <3>2
  <2>18. FetchInv'
    <3>1. CASE s = Primary
      <4>1. Fetching = {}
        BY <3>1 DEF ListFree
      <4> QED BY <4>1, FetchIfFree
    <3>2. CASE s # Primary
      <4>1. topics'[Primary] = topics[Primary]
        BY <2>7, <3>2 DEF Stores
      <4> QED BY <4>1, FetchIfSame DEF IndInv
    <3> QED BY <3>1, <3>2
  <2>19. TypeOK'
    BY <2>13, <2>14, TypeBuilt
  <2> QED BY <2>7, <2>10, <2>15, <2>16, <2>17, <2>18, <2>19 DEF IndInv
<1> QED BY <1>5, <1>6

(* The store operation of register_topic.                                  *)
LEMMA RegisterReturnsKept ==
    ASSUME IndInv, registerReturns
    PROVE  IndInv'
<1>1. RestOK
  BY TypeSplit DEF IndInv
<1>2. PICK s \in Stores, key \in Keys : s = call.store /\ key = call.topic.key
  <2>1. call.store \in Stores /\ call.topic.key \in Keys
    BY <1>1 DEF RestOK, WriteCall, Handle
  <2> QED BY <2>1
<1>3. /\ ListFree(s) /\ registerTopic(s, key) /\ UNCHANGED <<target, boxes, freed, rd, views, pushes>>
      /\ call.op # "lazy" /\ call' = NoCall /\ calls' \in 0 .. MaxCalls
  BY <1>1, <1>2 DEF registerReturns, Returned, RestOK
<1> QED BY <1>3, RegisterKept

(* register_object_topic of the toolbox, at the primary store.             *)
LEMMA ToolboxRegisterKept ==
    ASSUME IndInv, NEW key \in Keys, toolboxRegisterObjectTopic(key)
    PROVE  IndInv'
<1>1. RestOK
  BY TypeSplit DEF IndInv
<1>2. /\ Primary \in Stores /\ ListFree(Primary) /\ registerTopic(Primary, key)
      /\ UNCHANGED <<target, boxes, freed, rd, views, pushes>> /\ call' = call
  BY DEF toolboxRegisterObjectTopic, Stores
<1>3. calls' \in 0 .. MaxCalls
  BY <1>1, HostsAssumption DEF toolboxRegisterObjectTopic, Called, RestOK
<1> QED BY <1>2, <1>3, RegisterKept
-----------------------------------------------------------------------------
(* The steps that leave the stores alone. *)

(* Neither a store nor a reader changes.                                   *)
LEMMA QuietStep ==
    ASSUME IndInv, UNCHANGED <<topics, nextId, rd, uids>>, RestOK', HandleInv', BoxInv', FreeInv'
    PROVE  IndInv'
<1>1. TypeOK /\ TopicsOK /\ RestOK
  BY TypeSplit DEF IndInv
<1>2. topics \in Topics /\ uids \in Nat
  BY <1>1 DEF TopicsOK, RestOK
<1>3. SameShape /\ EntryInv'
  BY SameIfUnchanged, EntriesIfUnchanged DEF IndInv
<1>4. TopicsOK'
  BY <1>1, <1>2, <1>3, TopicsIfSame
<1>5. ShapeInv'
  BY <1>2, <1>3, ShapeIfSame DEF IndInv
<1>6. Evolves(Primary) /\ uids' \in Nat /\ uids' >= uids
  BY <1>2, <1>3, EvolvesIfSame DEF Stores
<1>7. ReadInv'
  BY <1>1, <1>6, CarryReads DEF IndInv
<1>8. FetchInv'
  BY FetchIfSame DEF IndInv
<1>9. TypeOK'
  BY <1>4, TypeBuilt
<1> QED BY <1>3, <1>5, <1>7, <1>8, <1>9 DEF IndInv

(* setTarget.                                                              *)
LEMMA SetTargetKept ==
    ASSUME IndInv, NEW h \in WriteHosts, NEW s \in Stores, setTarget(h, s)
    PROVE  IndInv'
<1>1. TypeOK /\ TopicsOK /\ RestOK
  BY TypeSplit DEF IndInv
<1>2. /\ UNCHANGED <<topics, nextId, call, handles, boxes, freed, rd, views, uids, pushes>>
      /\ target' = [target EXCEPT ![h] = s]
      /\ h = "parser" => \E i \in findSeries(s, BoundTopic.id) : topics[s][i].key = BoundKey
  BY DEF setTarget
<1>3. calls' \in 0 .. MaxCalls
  BY <1>1, HostsAssumption DEF setTarget, Called, RestOK
<1>4. target' \in [WriteHosts -> Stores]
  BY <1>1, <1>2 DEF RestOK
<1>5. RestOK'
  BY <1>1, <1>2, <1>3, <1>4 DEF RestOK
<1>6. BoundOK(target["parser"])'
  <2>1. CASE h = "parser"
    <3>1. target'["parser"] = s
      BY <1>1, <1>2, <2>1 DEF RestOK
    <3>2. PICK i \in 1 .. Len(topics[s]) : topics[s][i].id = 1 /\ topics[s][i].key = BoundKey
      <4>1. DOMAIN topics[s] = 1 .. Len(topics[s])
        BY <1>1, TypedTopics DEF TopicsOK
      <4> QED BY <1>2, <2>1, <4>1, NoCallType DEF findSeries
    <3>3. 1 < nextId[s]
      <4>1. topics[s][i].id \in 1 .. nextId[s] - 1 /\ nextId[s] \in Nat
        BY <1>1, <3>2 DEF TopicsOK, RestOK
      <4> QED BY <3>2, <4>1
    <3>4. \A j \in 1 .. Len(topics[s]) : topics[s][j].id = 1 => j = i
      BY <3>2 DEF IndInv, ShapeInv
    <3>5. BoundOK(s)
      BY <3>2, <3>3, <3>4 DEF BoundOK
    <3> QED BY <1>2, <3>1, <3>5 DEF BoundOK
  <2>2. CASE h # "parser"
    <3>1. target'["parser"] = target["parser"]
      BY <1>1, <1>2, <2>2 DEF RestOK, WriteHosts
    <3>2. BoundOK(target["parser"])
      BY DEF IndInv, HandleInv
    <3> QED BY <1>2, <3>1, <3>2 DEF BoundOK
  <2> QED BY <2>1, <2>2
<1>7. HandleInv'
  <2>1. \A x \in handles' : HandleOK(x)'
    BY <1>2 DEF IndInv, HandleInv, HandleOK
  <2>2. Pushing' => call'.ts \in Times /\ call'.n >= 1
    BY <1>2 DEF IndInv, HandleInv, Pushing
  <2>3. Pushing' /\ call'.topic.store = call'.store => HandleOK(call.topic)'
    BY <1>2 DEF IndInv, HandleInv, Pushing, HandleOK
  <2> QED BY <1>6, <2>1, <2>2, <2>3 DEF HandleInv
<1>8. BoxInv'
  <2>1. StoredOnce' /\ \A b : InStore(b)' <=> InStore(b)
    BY <1>2, BoxesIfUnchanged DEF IndInv, BoxInv
  <2> QED BY <1>2, <2>1 DEF IndInv, BoxInv
<1>9. FreeInv'
  BY <1>2 DEF IndInv, FreeInv, FreedInv, Held, InStore
<1> QED BY <1>2, <1>5, <1>7, <1>8, <1>9, QuietStep

(* The first step of a write call.                                         *)
LEMMA LoadKept ==
    ASSUME IndInv, NEW h \in WriteHosts, NEW op \in {"register", "owned", "lazy", "budget"},
           NEW topic \in Handle, NEW ts \in Times \cup {0}, NEW n \in 0 .. MaxPushes, NEW budget \in AnyBudget,
           Load(h, op, topic, ts, n, budget), UNCHANGED freed,
           op \in {"owned", "lazy"} => ts \in Times /\ n >= 1 /\ (topic.store = target[h] => HandleOK(topic)),
           \/ UNCHANGED <<boxes, pushes>> /\ op # "lazy" /\ n = 0
           \/ pushes < MaxPushes /\ pushes' = pushes + 1 /\ n = pushes + 1
              /\ boxes' = IF op = "lazy" THEN boxes \cup {pushes + 1} ELSE boxes
    PROVE  IndInv'
<1>1. TypeOK /\ TopicsOK /\ RestOK
  BY TypeSplit DEF IndInv
<1>2. /\ topics \in Topics /\ target \in [WriteHosts -> Stores] /\ pushes \in 0 .. MaxPushes
      /\ boxes \subseteq 1 .. pushes /\ pushes \in Nat /\ MaxPushes \in Nat
  BY <1>1, HostsAssumption DEF TopicsOK, RestOK
<1>3. /\ UNCHANGED <<topics, nextId, target, handles, rd, views, uids>> /\ call = NoCall
      /\ call' = [host |-> h, op |-> op, store |-> target[h], topic |-> topic, ts |-> ts, n |-> n, budget |-> budget]
  BY DEF Load
<1>4. /\ call' \in WriteCall /\ call'.op = op /\ call'.store = target[h] /\ call'.topic = topic
      /\ call'.ts = ts /\ call'.n = n
  BY <1>2, <1>3 DEF WriteCall
<1>5. calls' \in 0 .. MaxCalls
  BY <1>1, HostsAssumption DEF Load, RestOK
<1>6. pushes' \in 0 .. MaxPushes /\ n <= pushes' /\ boxes' \subseteq 1 .. pushes' /\ boxes \subseteq boxes'
  <2>1. CASE UNCHANGED <<boxes, pushes>> /\ n = 0
    BY <1>2, <2>1
  <2>2. CASE /\ pushes < MaxPushes /\ pushes' = pushes + 1 /\ n = pushes + 1
             /\ boxes' = IF op = "lazy" THEN boxes \cup {pushes + 1} ELSE boxes
    <3>1. boxes' = boxes \/ boxes' = boxes \cup {pushes + 1}
      BY <2>2
    <3> QED BY <1>2, <2>2, <3>1
  <2> QED BY <2>1, <2>2
<1>7. RestOK'
  BY <1>1, <1>3, <1>4, <1>5, <1>6 DEF RestOK
<1>8. HandleInv'
  <2>1. \A x \in handles' : HandleOK(x)'
    BY <1>3 DEF IndInv, HandleInv, HandleOK
  <2>2. BoundOK(target["parser"])'
    BY <1>3 DEF IndInv, HandleInv, BoundOK
  <2>3. ASSUME Pushing' PROVE call'.ts \in Times /\ call'.n >= 1
    BY <1>4, <2>3 DEF Pushing
  <2>4. ASSUME Pushing', call'.topic.store = call'.store PROVE HandleOK(call.topic)'
    <3>1. HandleOK(topic)
      BY <1>4, <2>4 DEF Pushing
    <3> QED BY <1>3, <1>4, <3>1 DEF HandleOK
  <2> QED BY <2>1, <2>2, <2>3, <2>4 DEF HandleInv
<1>9. \A b : InStore(b)' <=> InStore(b)
  BY <1>3 DEF InStore
<1>10. \A b : InStore(b) => b \in boxes
  BY <1>2, InStoreRange DEF IndInv, BoxInv
<1>11. op = "lazy" => n = pushes + 1 /\ n \notin boxes /\ n \in boxes' /\ ~InStore(n)
  BY <1>2, <1>10
<1>12. BoxInv'
  <2>1. StoredOnce'
    BY <1>3, BoxesIfUnchanged DEF IndInv, BoxInv
  <2>2. call'.op = "lazy" => call'.n \in boxes' /\ ~InStore(call.n)'
    <3> SUFFICES ASSUME op = "lazy" PROVE call'.n \in boxes' /\ ~InStore(call.n)'
      BY <1>4
    <3>1. ~InStore(n)'
      BY <1>9, <1>11
    <3> QED BY <1>4, <1>11, <3>1
  <2>3. \A b \in 1 .. MaxPushes : InStore(b)' => b \in boxes'
    BY <1>6, <1>9, <1>10
  <2> QED BY <2>1, <2>2, <2>3 DEF BoxInv
<1>13. FreeInv'
  <2>1. CASE SdkView
    BY <2>1 DEF FreeInv
  <2>2. CASE FreedInv
    <3>1. ASSUME NEW b \in 1 .. MaxPushes PROVE freed'[b] = IF b \in boxes' /\ ~Held(b)' THEN 1 ELSE 0
      <4>1. freed'[b] = IF b \in boxes /\ ~InStore(b) THEN 1 ELSE 0
        BY <1>3, <2>2, NoCallType DEF FreedInv, Held
      <4>2. Held(b)' <=> InStore(b) \/ (op = "lazy" /\ n = b)
        BY <1>4, <1>9 DEF Held
      <4>3. b \in boxes' <=> b \in boxes \/ (op = "lazy" /\ n = b)
        BY <1>11
      <4> QED BY <1>11, <4>1, <4>2, <4>3
    <3> QED BY <3>1 DEF FreeInv, FreedInv
  <2> QED BY <2>1, <2>2 DEF IndInv, FreeInv
<1> QED BY <1>3, <1>7, <1>8, <1>12, <1>13, QuietStep

(* The calls of the source's and of the parser's host.                     *)
LEMMA CallsKept ==
    ASSUME IndInv,
           \/ \E name \in Names : sourceObjectRegisterTopic(name)
           \/ \E topic \in handles, ts \in Times : sourceObjectPushOwned(topic, ts)
           \/ \E topic \in handles, ts \in Times : sourceObjectPushLazy(topic, ts)
           \/ \E topic \in handles, budget \in Budgets : sourceObjectSetRetentionBudget(topic, budget)
           \/ \E ts \in Times : parserObjectPushOwned(ts)
           \/ \E ts \in Times : parserObjectPushLazy(ts)
    PROVE  IndInv'
<1>1. RestOK
  BY TypeSplit DEF IndInv
<1>2. /\ handles \subseteq Handle /\ target \in [WriteHosts -> Stores] /\ pushes \in Nat /\ 0 \in 0 .. MaxPushes
      /\ NoBudget \in AnyBudget /\ "source" \in WriteHosts /\ "parser" \in WriteHosts /\ MaxPushes \in Nat
  BY <1>1, BudgetType, HostsAssumption DEF RestOK, WriteHosts
<1>3. \A topic \in handles : HandleOK(topic) /\ topic \in Handle
  BY <1>2 DEF IndInv, HandleInv
<1>4. target["parser"] = Primary => HandleOK(BoundTopic)
  BY NoCallType DEF IndInv, HandleInv, BoundOK, HandleOK
<1>5. CASE \E name \in Names : sourceObjectRegisterTopic(name)
  <2>1. PICK name \in Names : sourceObjectRegisterTopic(name)
    BY <1>5
  <2>2. PICK topic \in Handle :
           topic = [store |-> target["source"], id |-> 0, key |-> [dataset |-> SourceDataset, name |-> name]]
    <3>1. [store |-> target["source"], id |-> 0, key |-> [dataset |-> SourceDataset, name |-> name]] \in Handle
      BY <1>2, HostsAssumption DEF Handle, Keys
    <3> QED BY <3>1
  <2>3. Load("source", "register", topic, 0, 0, NoBudget) /\ UNCHANGED <<boxes, freed, pushes>>
    BY <2>1, <2>2 DEF sourceObjectRegisterTopic
  <2> QED BY <1>2, <2>3, LoadKept
<1>6. CASE \E topic \in handles, ts \in Times : sourceObjectPushOwned(topic, ts)
  <2>1. PICK topic \in handles, ts \in Times : sourceObjectPushOwned(topic, ts)
    BY <1>6
  <2>2. Load("source", "owned", topic, ts, pushes + 1, NoBudget) /\ Numbered(FALSE)
    BY <2>1 DEF sourceObjectPushOwned
  <2>3. PICK n \in 0 .. MaxPushes : n = pushes + 1 /\ n >= 1
    BY <1>2, <2>2 DEF Numbered
  <2>4. /\ Load("source", "owned", topic, ts, n, NoBudget) /\ UNCHANGED freed
        /\ pushes < MaxPushes /\ pushes' = pushes + 1 /\ boxes' = boxes
    BY <2>2, <2>3 DEF Numbered
  <2> QED BY <1>2, <1>3, <2>3, <2>4, LoadKept
<1>7. CASE \E topic \in handles, ts \in Times : sourceObjectPushLazy(topic, ts)
  <2>1. PICK topic \in handles, ts \in Times : sourceObjectPushLazy(topic, ts)
    BY <1>7
  <2>2. Load("source", "lazy", topic, ts, pushes + 1, NoBudget) /\ Numbered(TRUE)
    BY <2>1 DEF sourceObjectPushLazy
  <2>3. PICK n \in 0 .. MaxPushes : n = pushes + 1 /\ n >= 1
    BY <1>2, <2>2 DEF Numbered
  <2>4. /\ Load("source", "lazy", topic, ts, n, NoBudget) /\ UNCHANGED freed
        /\ pushes < MaxPushes /\ pushes' = pushes + 1 /\ boxes' = boxes \cup {pushes + 1}
    BY <2>2, <2>3 DEF Numbered
  <2> QED BY <1>2, <1>3, <2>3, <2>4, LoadKept
<1>8. CASE \E topic \in handles, budget \in Budgets : sourceObjectSetRetentionBudget(topic, budget)
  <2>1. PICK topic \in handles, budget \in Budgets : sourceObjectSetRetentionBudget(topic, budget)
    BY <1>8
  <2>2. Load("source", "budget", topic, 0, 0, budget) /\ UNCHANGED <<boxes, freed, pushes>>
    BY <2>1 DEF sourceObjectSetRetentionBudget
  <2>3. budget \in AnyBudget
    BY DEF AnyBudget
  <2> QED BY <1>2, <1>3, <2>2, <2>3, LoadKept
<1>9. CASE \E ts \in Times : parserObjectPushOwned(ts)
  <2>1. PICK ts \in Times : parserObjectPushOwned(ts)
    BY <1>9
  <2>2. Load("parser", "owned", BoundTopic, ts, pushes + 1, NoBudget) /\ Numbered(FALSE)
    BY <2>1 DEF parserObjectPushOwned
  <2>3. PICK n \in 0 .. MaxPushes, topic \in Handle : n = pushes + 1 /\ n >= 1 /\ topic = BoundTopic
    BY <1>2, <2>2, NoCallType DEF Numbered
  <2>4. /\ Load("parser", "owned", topic, ts, n, NoBudget) /\ UNCHANGED freed
        /\ pushes < MaxPushes /\ pushes' = pushes + 1 /\ boxes' = boxes
    BY <2>2, <2>3 DEF Numbered
  <2>5. topic.store = target["parser"] => HandleOK(topic)
    BY <1>4, <2>3, NoCallType
  <2> QED BY <1>2, <2>3, <2>4, <2>5, LoadKept
<1>10. CASE \E ts \in Times : parserObjectPushLazy(ts)
  <2>1. PICK ts \in Times : parserObjectPushLazy(ts)
    BY <1>10
  <2>2. Load("parser", "lazy", BoundTopic, ts, pushes + 1, NoBudget) /\ Numbered(TRUE)
    BY <2>1 DEF parserObjectPushLazy
  <2>3. PICK n \in 0 .. MaxPushes, topic \in Handle : n = pushes + 1 /\ n >= 1 /\ topic = BoundTopic
    BY <1>2, <2>2, NoCallType DEF Numbered
  <2>4. /\ Load("parser", "lazy", topic, ts, n, NoBudget) /\ UNCHANGED freed
        /\ pushes < MaxPushes /\ pushes' = pushes + 1 /\ boxes' = boxes \cup {pushes + 1}
    BY <2>2, <2>3 DEF Numbered
  <2>5. topic.store = target["parser"] => HandleOK(topic)
    BY <1>4, <2>3, NoCallType
  <2> QED BY <1>2, <2>3, <2>4, <2>5, LoadKept
<1> QED BY <1>5, <1>6, <1>7, <1>8, <1>9, <1>10

(* push_lazy with a null fetch_fn.                                         *)
LEMMA WithoutFetchKept ==
    ASSUME IndInv, pushLazyWithoutFetch
    PROVE  IndInv'
<1>1. TypeOK /\ TopicsOK /\ RestOK
  BY TypeSplit DEF IndInv
<1>2. /\ topics \in Topics /\ pushes \in 0 .. MaxPushes /\ freed \in [1 .. MaxPushes -> Nat]
      /\ boxes \subseteq 1 .. pushes /\ pushes \in Nat /\ MaxPushes \in Nat
  BY <1>1, HostsAssumption DEF TopicsOK, RestOK
<1>3. /\ UNCHANGED <<topics, nextId, target, call, handles, rd, views, uids>> /\ call = NoCall
      /\ pushes < MaxPushes /\ pushes' = pushes + 1 /\ boxes' = boxes \cup {pushes + 1}
      /\ freed' = [freed EXCEPT ![pushes + 1] = 1] /\ ~SdkView
  BY DEF pushLazyWithoutFetch
<1>4. calls' \in 0 .. MaxCalls
  BY <1>1, HostsAssumption DEF pushLazyWithoutFetch, RestOK
<1>5. freed' \in [1 .. MaxPushes -> Nat] /\ call.n <= pushes + 1 /\ boxes' \subseteq 1 .. pushes + 1
  BY <1>1, <1>2, <1>3 DEF RestOK, WriteCall
<1>6. RestOK'
  BY <1>1, <1>2, <1>3, <1>4, <1>5 DEF RestOK
<1>7. HandleInv'
  <2>1. \A x \in handles' : HandleOK(x)'
    BY <1>3 DEF IndInv, HandleInv, HandleOK
  <2>2. BoundOK(target["parser"])'
    BY <1>3 DEF IndInv, HandleInv, BoundOK
  <2>3. ~Pushing'
    BY <1>3, NoCallType DEF Pushing
  <2> QED BY <2>1, <2>2, <2>3 DEF HandleInv
<1>8. \A b : InStore(b)' <=> InStore(b)
  BY <1>3 DEF InStore
<1>9. \A b : InStore(b) => b \in boxes
  BY <1>2, InStoreRange DEF IndInv, BoxInv
<1>10. \A b : (Held(b)' <=> InStore(b)) /\ (Held(b) <=> InStore(b))
  BY <1>3, <1>8, NoCallType DEF Held
<1>11. BoxInv'
  <2>1. StoredOnce'
    BY <1>3, BoxesIfUnchanged DEF IndInv, BoxInv
  <2>2. call'.op # "lazy"
    BY <1>3, NoCallType
  <2>3. \A b \in 1 .. MaxPushes : InStore(b)' => b \in boxes'
    BY <1>3, <1>8, <1>9
  <2> QED BY <2>1, <2>2, <2>3 DEF BoxInv
<1>12. FreedInv'
  <2> SUFFICES ASSUME NEW b \in 1 .. MaxPushes PROVE freed'[b] = IF b \in boxes' /\ ~Held(b)' THEN 1 ELSE 0
    BY DEF FreedInv
  <2>1. freed[b] = IF b \in boxes /\ ~Held(b) THEN 1 ELSE 0
    BY <1>3 DEF IndInv, FreeInv, FreedInv
  <2>2. CASE b = pushes + 1
    <3>1. b \notin boxes /\ ~InStore(b) /\ b \in boxes'
      BY <1>2, <1>3, <1>9, <2>2
    <3>2. freed'[b] = 1
      BY <1>2, <1>3, <2>2
    <3> QED BY <1>10, <3>1, <3>2
  <2>3. CASE b # pushes + 1
    <3>1. freed'[b] = freed[b] /\ (b \in boxes' <=> b \in boxes)
      BY <1>2, <1>3, <2>3
    <3> QED BY <1>10, <2>1, <3>1
  <2> QED BY <2>2, <2>3
<1> QED BY <1>3, <1>6, <1>7, <1>11, <1>12, QuietStep DEF FreeInv
-----------------------------------------------------------------------------
(* The read host. *)

(* A reader outside a call.                                                *)
LEMMA IdleType ==
    Idle \in ReadCall /\ Idle.at = "idle" /\ Idle.had = {} /\ Idle.ids = <<>>
<1>1. BoundName \in Names /\ MaxSeries \in Nat
  BY HostsAssumption
<1>2. <<>> \in Seq(Nat) /\ 0 \in 0 .. MaxSeries /\ {} \in SUBSET (1 .. MaxSeries)
  BY <1>1
<1> QED BY <1>1, <1>2 DEF Idle, ReadCall

(* One reader moves.                                                       *)
LEMMA ReaderStep ==
    ASSUME IndInv, NEW r \in Readers, NEW x \in ReadCall, rd' = [rd EXCEPT ![r] = x], ReadsOnly,
           views' \subseteq 1 .. MaxPushes, calls' \in 0 .. MaxCalls, ReadOK(r)',
           x.at = "fetch" => \E i \in 1 .. Len(topics[Primary]) :
               topics[Primary][i].uid = x.uid /\ x.n \in Boxes(topics[Primary][i].entries)
    PROVE  IndInv'
<1>1. TypeOK /\ TopicsOK /\ RestOK
  BY TypeSplit DEF IndInv
<1>2. topics \in Topics /\ uids \in Nat /\ rd \in [Readers -> ReadCall]
  BY <1>1 DEF TopicsOK, RestOK
<1>3. UNCHANGED <<topics, nextId, target, call, handles, boxes, freed, uids, pushes>>
  BY DEF ReadsOnly
<1>4. rd' \in [Readers -> ReadCall] /\ rd'[r] = x /\ \A q \in Readers : q # r => rd'[q] = rd[q]
  BY <1>2
<1>5. SameShape /\ EntryInv'
  BY <1>3, SameIfUnchanged, EntriesIfUnchanged DEF IndInv
<1>6. TopicsOK'
  BY <1>1, <1>2, <1>3, <1>5, TopicsIfSame
<1>7. ShapeInv'
  BY <1>2, <1>5, ShapeIfSame DEF IndInv
<1>8. RestOK'
  BY <1>1, <1>3, <1>4 DEF RestOK
<1>9. Evolves(Primary)
  BY <1>2, <1>5, EvolvesIfSame DEF Stores
<1>10. ReadInv'
  <2> SUFFICES ASSUME NEW q \in Readers PROVE ReadOK(q)'
    BY DEF ReadInv
  <2>1. CASE q = r
    BY <2>1
  <2>2. CASE q # r
    BY <1>2, <1>3, <1>4, <1>9, <2>2, ReadCarried DEF IndInv, ReadInv
  <2> QED BY <2>1, <2>2
<1>11. HandleInv'
  <2>1. \A h \in handles' : HandleOK(h)'
    BY <1>3 DEF IndInv, HandleInv, HandleOK
  <2>2. BoundOK(target["parser"])'
    BY <1>3 DEF IndInv, HandleInv, BoundOK
  <2>3. Pushing' => call'.ts \in Times /\ call'.n >= 1
    BY <1>3 DEF IndInv, HandleInv, Pushing
  <2>4. Pushing' /\ call'.topic.store = call'.store => HandleOK(call.topic)'
    BY <1>3 DEF IndInv, HandleInv, Pushing, HandleOK
  <2> QED BY <2>1, <2>2, <2>3, <2>4 DEF HandleInv
<1>12. StoredOnce' /\ \A b : InStore(b)' <=> InStore(b)
  BY <1>3, BoxesIfUnchanged DEF IndInv, BoxInv
<1>13. BoxInv'
  BY <1>3, <1>12 DEF IndInv, BoxInv
<1>14. FreeInv'
  BY <1>3, <1>12 DEF IndInv, FreeInv, FreedInv, Held
<1>15. FetchInv'
  <2> SUFFICES ASSUME NEW q \in Readers, rd'[q].at = "fetch"
               PROVE  \E i \in 1 .. Len(topics[Primary]) :
                         topics[Primary][i].uid = rd'[q].uid /\ rd'[q].n \in Boxes(topics[Primary][i].entries)
    BY <1>3 DEF FetchInv
  <2>1. CASE q = r
    BY <1>4, <2>1
  <2>2. CASE q # r
    BY <1>4, <2>2 DEF IndInv, FetchInv
  <2> QED BY <2>1, <2>2
<1>16. TypeOK'
  BY <1>6, <1>8, TypeBuilt
<1> QED BY <1>5, <1>7, <1>10, <1>11, <1>13, <1>14, <1>15, <1>16 DEF IndInv

(* What a reader is to know, of a call it is in.                           *)
Knows(x) ==
    /\ \A u \in x.had : u <= uids
    /\ x.at \in {"lookup", "compare"} =>
          \A i \in 1 .. Len(topics[Primary]) : topics[Primary][i].uid \in x.had =>
             topics[Primary][i].key.name = x.name /\ \E k \in 1 .. Len(x.ids) : x.ids[k] = topics[Primary][i].id
    /\ x.at = "compare" =>
          /\ x.ids # <<>>
          /\ \A i \in 1 .. Len(topics[Primary]) :
                topics[Primary][i].uid \in x.had /\ topics[Primary][i].id = x.ids[1] => topics[Primary][i].uid = x.uid
    /\ x.at = "found" /\ x.ids = <<>> => \A i \in 1 .. Len(topics[Primary]) : topics[Primary][i].uid \notin x.had
    /\ x.at = "list" => \A i \in 1 .. Len(topics[Primary]) : topics[Primary][i].uid \in x.had => i <= x.n
    /\ x.at = "listed" => \A i \in 1 .. Len(topics[Primary]) : topics[Primary][i].uid \in x.had =>
          \E k \in 1 .. Len(x.ids) : x.ids[k] = topics[Primary][i].id

(* A reader knows what its call lets it know.                              *)
LEMMA KnowsRead ==
    ASSUME NEW r \in Readers, ReadOK(r)
    PROVE  Knows(rd[r])
BY DEF ReadOK, Knows, Seen, Listed

(* The same, of the call a reader moves to.                                *)
LEMMA KnowsMoved ==
    ASSUME rd \in [Readers -> ReadCall], NEW r \in Readers, NEW x \in ReadCall, rd' = [rd EXCEPT ![r] = x],
           UNCHANGED <<topics, uids>>, Knows(x)
    PROVE  ReadOK(r)'
<1>1. rd'[r] = x
  OBVIOUS
<1> QED BY <1>1 DEF ReadOK, Knows, Seen, Listed

(* A read call moves on to a state in which the reader knows what it       *)
(* should.                                                                 *)
LEMMA ReadMoves ==
    ASSUME IndInv, NEW r \in Readers, NEW x \in ReadCall, rd' = [rd EXCEPT ![r] = x], ReadsOnly,
           UNCHANGED views, calls' \in 0 .. MaxCalls, Knows(x), x.at # "fetch"
    PROVE  IndInv'
<1>1. RestOK
  BY TypeSplit DEF IndInv
<1>2. ReadOK(r)'
  BY <1>1, KnowsMoved DEF RestOK, ReadsOnly
<1>3. views' \subseteq 1 .. MaxPushes
  BY <1>1 DEF RestOK
<1> QED BY <1>2, <1>3, ReaderStep

(* What list_topics returns.                                               *)
LEMMA ListFacts ==
    ASSUME IndInv
    PROVE  /\ listTopics \in Seq(Nat) /\ Len(listTopics) = Len(topics[Primary])
           /\ \A i \in 1 .. Len(topics[Primary]) : listTopics[i] = topics[Primary][i].id
           /\ DOMAIN topics[Primary] = 1 .. Len(topics[Primary]) /\ Len(topics[Primary]) \in Nat
           /\ \A i \in 1 .. Len(topics[Primary]) :
                 /\ topics[Primary][i].uid \in 1 .. MaxSeries /\ topics[Primary][i].uid <= uids
                 /\ topics[Primary][i].id \in Nat
<1>1. TopicsOK /\ topics \in Topics /\ Primary \in Stores
  BY TypeSplit DEF IndInv, TopicsOK, Stores
<1>2. /\ DOMAIN topics[Primary] = 1 .. Len(topics[Primary]) /\ Len(topics[Primary]) \in Nat
      /\ \A i \in 1 .. Len(topics[Primary]) : topics[Primary][i].uid \in 1 .. MaxSeries /\ topics[Primary][i].id \in Nat
  BY <1>1, TypedTopics
<1>3. /\ listTopics \in [1 .. Len(topics[Primary]) -> Nat]
      /\ \A i \in 1 .. Len(topics[Primary]) : listTopics[i] = topics[Primary][i].id
  BY <1>2 DEF listTopics
<1>4. listTopics \in Seq(Nat) /\ Len(listTopics) = Len(topics[Primary])
  BY <1>2, <1>3, ListOf
<1> QED BY <1>1, <1>2, <1>3, <1>4 DEF TopicsOK

(* lookup_topic takes the list of ids.                                     *)
LEMMA LookupKept ==
    ASSUME IndInv, NEW r \in Readers, NEW name \in Names, lookupTopic(r, name)
    PROVE  IndInv'
<1> DEFINE had == {topics[Primary][i].uid : i \in {j \in DOMAIN topics[Primary] : topics[Primary][j].key.name = name}}
<1>1. RestOK
  BY TypeSplit DEF IndInv
<1>2. had \in SUBSET (1 .. MaxSeries) /\ \A u \in had : u <= uids
  BY ListFacts
<1>3. \A i \in 1 .. Len(topics[Primary]) : topics[Primary][i].uid \in had => topics[Primary][i].key.name = name
  <2> SUFFICES ASSUME NEW i \in 1 .. Len(topics[Primary]), topics[Primary][i].uid \in had
               PROVE  topics[Primary][i].key.name = name
    OBVIOUS
  <2>1. PICK j \in 1 .. Len(topics[Primary]) :
           topics[Primary][j].uid = topics[Primary][i].uid /\ topics[Primary][j].key.name = name
    BY ListFacts
  <2>2. i = j
    BY <2>1 DEF IndInv, ShapeInv, Stores
  <2> QED BY <2>1, <2>2
<1>4. rd' = [rd EXCEPT ![r] = [Idle EXCEPT !.at = "lookup", !.name = name, !.ids = listTopics, !.had = had]]
  BY DEF lookupTopic, Enter
<1> HIDE DEF had
<1>5. PICK x \in ReadCall :
         /\ x = [Idle EXCEPT !.at = "lookup", !.name = name, !.ids = listTopics, !.had = had]
         /\ x.at = "lookup" /\ x.name = name /\ x.ids = listTopics /\ x.had = had
  <2>1. listTopics \in Seq(Nat)
    BY ListFacts
  <2>2. [Idle EXCEPT !.at = "lookup", !.name = name, !.ids = listTopics, !.had = had] \in ReadCall
    BY <1>2, <2>1, IdleType DEF ReadCall
  <2> QED BY <2>2, IdleType DEF ReadCall
<1>6. Knows(x)
  BY <1>2, <1>3, <1>5, ListFacts DEF Knows
<1>7. rd' = [rd EXCEPT ![r] = x] /\ ReadsOnly /\ UNCHANGED views
  BY <1>4, <1>5 DEF lookupTopic
<1>8. calls' \in 0 .. MaxCalls
  BY <1>1, HostsAssumption DEF RestOK, lookupTopic, Enter, Called
<1> QED BY <1>5, <1>6, <1>7, <1>8, ReadMoves

(* lookup_topic takes the next descriptor, or gives up.                    *)
LEMMA LookupNextKept ==
    ASSUME IndInv, NEW r \in Readers, lookupNext(r)
    PROVE  IndInv'
<1>1. RestOK
  BY TypeSplit DEF IndInv
<1>2. /\ rd[r] \in ReadCall /\ rd[r].at = "lookup" /\ Knows(rd[r]) /\ calls' \in 0 .. MaxCalls
      /\ ReadsOnly /\ UNCHANGED views /\ rd[r].ids \in Seq(Nat)
  BY <1>1, KnowsRead DEF RestOK, IndInv, ReadInv, lookupNext, Continue, ReadCall
<1>3. PICK y \in ReadCall : y = rd[r]
  BY <1>2
<1>4. CASE rd[r].ids = <<>>
  <2>1. rd' = [rd EXCEPT ![r] = [y EXCEPT !.at = "found"]]
    BY <1>3, <1>4 DEF lookupNext, Continue
  <2>2. PICK x \in ReadCall : /\ x = [y EXCEPT !.at = "found"]
                              /\ x.at = "found" /\ x.had = y.had
    <3>1. [y EXCEPT !.at = "found"] \in ReadCall
      BY DEF ReadCall
    <3> QED BY <3>1 DEF ReadCall
  <2>3. \A i \in 1 .. Len(topics[Primary]) : topics[Primary][i].uid \notin y.had
    BY <1>2, <1>3, <1>4 DEF Knows
  <2>4. Knows(x)
    BY <1>2, <1>3, <2>2, <2>3 DEF Knows
  <2>5. rd' = [rd EXCEPT ![r] = x] /\ x.at # "fetch"
    BY <2>1, <2>2
  <2> QED BY <1>2, <2>4, <2>5, ReadMoves
<1>5. CASE rd[r].ids # <<>>
  <2> DEFINE hit == findSeries(Primary, Head(y.ids))
             uid == IF hit = {} THEN 0 ELSE topics[Primary][CHOOSE z \in hit : TRUE].uid
  <2>1. rd' = [rd EXCEPT ![r] = [y EXCEPT !.at = "compare", !.uid = uid]]
    BY <1>3, <1>5 DEF lookupNext, Continue
  <2>2. Head(y.ids) = y.ids[1]
    BY <1>2, <1>3, <1>5
  <2>3. \A i : i \in hit <=> i \in 1 .. Len(topics[Primary]) /\ topics[Primary][i].id = y.ids[1]
    BY <2>2, ListFacts DEF findSeries
  <2> HIDE DEF hit
  <2>4. uid \in 0 .. MaxSeries
    BY <2>3, ListFacts, HostsAssumption
  <2>5. \A i \in 1 .. Len(topics[Primary]) : topics[Primary][i].id = y.ids[1] => topics[Primary][i].uid = uid
    <3> SUFFICES ASSUME NEW i \in 1 .. Len(topics[Primary]), topics[Primary][i].id = y.ids[1]
                 PROVE  topics[Primary][i].uid = uid
      OBVIOUS
    <3>1. \A j \in hit : j = i
      BY <2>3 DEF IndInv, ShapeInv, Stores
    <3>2. i \in hit
      BY <2>3
    <3>3. (CHOOSE z \in hit : TRUE) \in hit
      BY <3>2
    <3>4. (CHOOSE z \in hit : TRUE) = i
      BY <3>1, <3>3
    <3>5. uid = topics[Primary][CHOOSE z \in hit : TRUE].uid
      BY <3>2
    <3> QED BY <3>4, <3>5
  <2> HIDE DEF uid
  <2>6. PICK x \in ReadCall : /\ x = [y EXCEPT !.at = "compare", !.uid = uid]
                              /\ x.at = "compare" /\ x.had = y.had /\ x.ids = y.ids /\ x.uid = uid /\ x.name = y.name
    <3>1. [y EXCEPT !.at = "compare", !.uid = uid] \in ReadCall
      BY <2>4 DEF ReadCall
    <3> QED BY <3>1 DEF ReadCall
  <2>7. Knows(x)
    BY <1>2, <1>3, <1>5, <2>5, <2>6 DEF Knows
  <2>8. rd' = [rd EXCEPT ![r] = x] /\ x.at # "fetch"
    BY <2>1, <2>6
  <2> QED BY <1>2, <2>7, <2>8, ReadMoves
<1> QED BY <1>4, <1>5

(* lookup_topic compares the name.                                         *)
LEMMA LookupCompareKept ==
    ASSUME IndInv, NEW r \in Readers, lookupCompare(r)
    PROVE  IndInv'
<1>1. RestOK
  BY TypeSplit DEF IndInv
<1>2. /\ rd[r] \in ReadCall /\ rd[r].at = "compare" /\ Knows(rd[r]) /\ calls' \in 0 .. MaxCalls
      /\ ReadsOnly /\ UNCHANGED views
  BY <1>1, KnowsRead DEF RestOK, IndInv, ReadInv, lookupCompare, Continue
<1>3. PICK y \in ReadCall : y = rd[r]
  BY <1>2
<1>4. PICK equal \in BOOLEAN :
         /\ \A i \in DOMAIN topics[Primary] : topics[Primary][i].uid = y.uid =>
               equal = (topics[Primary][i].key.name = y.name)
         /\ rd' = [rd EXCEPT ![r] = IF equal THEN [y EXCEPT !.at = "found", !.ids = <<Head(@)>>]
                                    ELSE [y EXCEPT !.at = "lookup", !.ids = Tail(@)]]
  BY <1>3 DEF lookupCompare, Continue
<1>5. y.ids \in Seq(Nat) /\ y.ids # <<>>
  BY <1>2, <1>3 DEF Knows, ReadCall
<1>6. CASE equal
  <2>1. PICK x \in ReadCall : /\ x = [y EXCEPT !.at = "found", !.ids = <<Head(y.ids)>>]
                              /\ x.at = "found" /\ x.had = y.had /\ x.ids = <<Head(y.ids)>>
    <3>1. <<Head(y.ids)>> \in Seq(Nat)
      BY <1>5
    <3>2. [y EXCEPT !.at = "found", !.ids = <<Head(y.ids)>>] \in ReadCall
      BY <3>1 DEF ReadCall
    <3> QED BY <3>2 DEF ReadCall
  <2>2. Knows(x)
    BY <1>2, <1>3, <2>1 DEF Knows
  <2>3. rd' = [rd EXCEPT ![r] = x] /\ x.at # "fetch"
    BY <1>4, <1>6, <2>1 DEF ReadCall
  <2> QED BY <1>2, <2>2, <2>3, ReadMoves
<1>7. CASE ~equal
  <2>1. PICK x \in ReadCall : /\ x = [y EXCEPT !.at = "lookup", !.ids = Tail(y.ids)]
                              /\ x.at = "lookup" /\ x.had = y.had /\ x.ids = Tail(y.ids) /\ x.name = y.name
    <3>1. Tail(y.ids) \in Seq(Nat)
      BY <1>5
    <3>2. [y EXCEPT !.at = "lookup", !.ids = Tail(y.ids)] \in ReadCall
      BY <3>1 DEF ReadCall
    <3> QED BY <3>2 DEF ReadCall
  <2>2. ASSUME NEW i \in 1 .. Len(topics[Primary]), topics[Primary][i].uid \in y.had
        PROVE  topics[Primary][i].key.name = y.name /\ \E k \in 1 .. Len(x.ids) : x.ids[k] = topics[Primary][i].id
    <3>1. topics[Primary][i].key.name = y.name
      BY <1>2, <1>3, <2>2 DEF Knows
    <3>2. PICK k \in 1 .. Len(y.ids) : y.ids[k] = topics[Primary][i].id
      BY <1>2, <1>3, <2>2 DEF Knows
    <3>3. topics[Primary][i].id # y.ids[1]
      <4> SUFFICES ASSUME topics[Primary][i].id = y.ids[1] PROVE FALSE
        OBVIOUS
      <4>1. topics[Primary][i].uid = y.uid
        BY <1>2, <1>3, <2>2 DEF Knows
      <4> QED BY <1>4, <1>7, <3>1, <4>1, ListFacts
    <3>4. k - 1 \in 1 .. Len(Tail(y.ids)) /\ Tail(y.ids)[k - 1] = y.ids[k]
      <4>1. k # 1
        BY <3>2, <3>3
      <4>2. Len(Tail(y.ids)) = Len(y.ids) - 1 /\ k - 1 \in 1 .. Len(y.ids) - 1 /\ (k - 1) + 1 = k
        BY <1>5, <4>1
      <4>3. \A z \in 1 .. Len(y.ids) - 1 : Tail(y.ids)[z] = y.ids[z + 1]
        BY <1>5
      <4> QED BY <4>2, <4>3
    <3> QED BY <2>1, <3>1, <3>2, <3>4
  <2>3. Knows(x)
    BY <1>2, <1>3, <2>1, <2>2 DEF Knows
  <2>4. rd' = [rd EXCEPT ![r] = x] /\ x.at # "fetch"
    BY <1>4, <1>7, <2>1 DEF ReadCall
  <2> QED BY <1>2, <2>3, <2>4, ReadMoves
<1> QED BY <1>6, <1>7

(* The SDK's listTopics, first for the count, then for the list.           *)
LEMMA ListCountKept ==
    ASSUME IndInv, NEW r \in Readers, listTopicsCount(r)
    PROVE  IndInv'
<1>1. RestOK
  BY TypeSplit DEF IndInv
<1>2. PICK at \in {"list", "listed"} : at = IF listTopics = <<>> THEN "listed" ELSE "list"
  OBVIOUS
<1>3. Live(Primary) \in SUBSET (1 .. MaxSeries) /\ \A u \in Live(Primary) : u <= uids
  BY ListFacts DEF Live
<1>4. rd' = [rd EXCEPT ![r] = [Idle EXCEPT !.at = at, !.n = Len(listTopics), !.had = Live(Primary)]]
  BY <1>2 DEF listTopicsCount, Enter
<1>5. PICK x \in ReadCall : /\ x = [Idle EXCEPT !.at = at, !.n = Len(listTopics), !.had = Live(Primary)]
                            /\ x.at = at /\ x.n = Len(topics[Primary]) /\ x.had = Live(Primary)
  <2>1. Len(listTopics) \in Nat /\ Len(listTopics) = Len(topics[Primary])
    BY ListFacts
  <2>2. [Idle EXCEPT !.at = at, !.n = Len(listTopics), !.had = Live(Primary)] \in ReadCall
    BY <1>3, <2>1, IdleType DEF ReadCall
  <2> QED BY <2>1, <2>2, IdleType DEF ReadCall
<1>6. at = "listed" => Len(topics[Primary]) = 0
  BY <1>2, ListFacts
<1>7. Knows(x)
  BY <1>3, <1>5, <1>6, ListFacts DEF Knows
<1>8. rd' = [rd EXCEPT ![r] = x] /\ ReadsOnly /\ UNCHANGED views /\ x.at # "fetch"
  BY <1>4, <1>5 DEF listTopicsCount
<1>9. calls' \in 0 .. MaxCalls
  BY <1>1, HostsAssumption DEF RestOK, listTopicsCount, Enter, Called
<1> QED BY <1>7, <1>8, <1>9, ReadMoves

(* The second call, with a buffer of the first count.                      *)
LEMMA ListFillKept ==
    ASSUME IndInv, NEW r \in Readers, listTopicsFill(r)
    PROVE  IndInv'
<1>1. RestOK
  BY TypeSplit DEF IndInv
<1>2. /\ rd[r] \in ReadCall /\ rd[r].at = "list" /\ Knows(rd[r]) /\ calls' \in 0 .. MaxCalls
      /\ ReadsOnly /\ UNCHANGED views
  BY <1>1, KnowsRead DEF RestOK, IndInv, ReadInv, listTopicsFill, Continue
<1>3. PICK y \in ReadCall : y = rd[r]
  BY <1>2
<1> DEFINE ids == toolboxObjectListTopics(y.n)
<1>4. rd' = [rd EXCEPT ![r] = [y EXCEPT !.at = "listed", !.ids = ids]]
  BY <1>3 DEF listTopicsFill, Continue
<1>5. /\ DOMAIN listTopics = 1 .. Len(topics[Primary]) /\ Len(topics[Primary]) \in Nat
      /\ \A i \in 1 .. Len(topics[Primary]) : listTopics[i] = topics[Primary][i].id /\ listTopics[i] \in Nat
  BY ListFacts
<1>6. ids = [i \in 1 .. Len(topics[Primary]) |-> IF i > y.n THEN 0 ELSE listTopics[i]]
  BY <1>5 DEF toolboxObjectListTopics
<1>7. ids \in [1 .. Len(topics[Primary]) -> Nat]
  BY <1>5, <1>6
<1> HIDE DEF ids
<1>8. ids \in Seq(Nat) /\ Len(ids) = Len(topics[Primary])
  BY <1>5, <1>7, ListOf
<1>9. ASSUME NEW i \in 1 .. Len(topics[Primary]), topics[Primary][i].uid \in y.had
      PROVE  ids[i] = topics[Primary][i].id
  <2>1. i <= y.n /\ y.n \in Nat
    BY <1>2, <1>3, <1>9 DEF Knows, ReadCall
  <2>2. ids[i] = listTopics[i]
    BY <1>6, <2>1
  <2> QED BY <1>5, <2>2
<1>10. PICK x \in ReadCall : /\ x = [y EXCEPT !.at = "listed", !.ids = ids]
                             /\ x.at = "listed" /\ x.ids = ids /\ x.had = y.had
  <2>1. [y EXCEPT !.at = "listed", !.ids = ids] \in ReadCall
    BY <1>8 DEF ReadCall
  <2> QED BY <2>1 DEF ReadCall
<1>11. Knows(x)
  BY <1>2, <1>3, <1>8, <1>9, <1>10 DEF Knows
<1>12. rd' = [rd EXCEPT ![r] = x] /\ x.at # "fetch"
  BY <1>4, <1>10
<1> QED BY <1>2, <1>11, <1>12, ReadMoves

(* A call that knows nothing.                                              *)
LEMMA KnowsNothing ==
    ASSUME NEW x, x.had = {}, x.at \in {"idle", "fetch"}
    PROVE  Knows(x)
BY DEF Knows

(* read_latest_at and the return of a fetch.                               *)
LEMMA ReadLatestKept ==
    ASSUME IndInv, NEW r \in Readers, NEW id, NEW ts, toolboxObjectReadLatestAt(r, id, ts)
    PROVE  IndInv'
<1>1. RestOK /\ TopicsOK
  BY TypeSplit DEF IndInv
<1>2. Primary \in Stores /\ topics \in Topics /\ rd \in [Readers -> ReadCall] /\ views \subseteq 1 .. MaxPushes
  BY <1>1 DEF Stores, TopicsOK, RestOK
<1>3. ReadsOnly
  BY DEF toolboxObjectReadLatestAt
<1>4. PICK i \in findSeries(Primary, id) :
         LET entries == topics[Primary][i].entries
             k == LatestAt(entries, ts)
         IN  /\ k > 0
             /\ IF entries[k].lazy
                THEN /\ Enter(r, [Idle EXCEPT !.at = "fetch", !.uid = topics[Primary][i].uid,
                                              !.n = entries[k].n])
                     /\ UNCHANGED views
                ELSE Enter(r, Idle) /\ views' = views \cup {entries[k].n}
  BY DEF toolboxObjectReadLatestAt
<1>5. PICK entries \in Seq(Entry) : entries = topics[Primary][i].entries
  BY <1>2, <1>4, TypedTopics DEF findSeries
<1>6. i \in 1 .. Len(topics[Primary]) /\ topics[Primary][i].uid \in 0 .. MaxSeries
  BY <1>2, <1>4, TypedTopics DEF findSeries
<1>7. PICK k \in 1 .. Len(entries) : k = LatestAt(entries, ts)
  <2> DEFINE S == {j \in DOMAIN entries : entries[j].ts <= ts}
             n == Len(entries)
  <2>1. n \in Nat /\ DOMAIN entries = 1 .. n
    OBVIOUS
  <2>2. IsFiniteSet(1 .. n) /\ Cardinality(1 .. n) = n
    BY <2>1, FS_Interval
  <2>3. S \subseteq 1 .. n
    BY <2>1
  <2> HIDE DEF S, n
  <2>4. IsFiniteSet(S) /\ Cardinality(S) <= Cardinality(1 .. n)
    BY <2>2, <2>3, FS_Subset
  <2>5. Cardinality(S) \in Nat
    BY <2>4, FS_CardinalityType
  <2>6. LatestAt(entries, ts) = Cardinality(S) /\ LatestAt(entries, ts) > 0
    BY <1>4, <1>5 DEF LatestAt, S
  <2>7. LatestAt(entries, ts) \in 1 .. n
    BY <2>1, <2>2, <2>4, <2>5, <2>6
  <2> QED BY <2>7 DEF n
<1>8. PICK e \in Entry : e = entries[k]
  OBVIOUS
<1>9. e.n \in 1 .. MaxPushes /\ e.n \in Nat
  BY HostsAssumption DEF Entry
<1>10. CASE e.lazy
  <2>1. /\ Enter(r, [Idle EXCEPT !.at = "fetch", !.uid = topics[Primary][i].uid, !.n = e.n])
        /\ UNCHANGED views
    BY <1>4, <1>5, <1>7, <1>8, <1>10
  <2>2. PICK x \in ReadCall : /\ x = [Idle EXCEPT !.at = "fetch", !.uid = topics[Primary][i].uid, !.n = e.n]
                              /\ x.at = "fetch" /\ x.had = {} /\ x.uid = topics[Primary][i].uid /\ x.n = e.n
    <3>1. [Idle EXCEPT !.at = "fetch", !.uid = topics[Primary][i].uid, !.n = e.n] \in ReadCall
      BY <1>6, <1>9, IdleType DEF ReadCall
    <3> QED BY <3>1, IdleType DEF ReadCall
  <2>3. rd' = [rd EXCEPT ![r] = x] /\ Called
    BY <2>1, <2>2 DEF Enter
  <2>4. calls' \in 0 .. MaxCalls
    BY <1>1, <2>3, HostsAssumption DEF RestOK, Called
  <2>5. ReadOK(r)'
    BY <1>2, <1>3, <2>2, <2>3, KnowsNothing, KnowsMoved DEF ReadsOnly
  <2>6. x.n \in Boxes(topics[Primary][i].entries)
    BY <1>5, <1>8, <1>10, <2>2, BoxesAt
  <2>7. views' \subseteq 1 .. MaxPushes
    BY <1>2, <2>1
  <2> QED BY <1>3, <1>6, <2>2, <2>3, <2>4, <2>5, <2>6, <2>7, ReaderStep
<1>11. CASE ~e.lazy
  <2>1. Enter(r, Idle) /\ views' = views \cup {e.n}
    BY <1>4, <1>5, <1>7, <1>8, <1>11
  <2>2. rd' = [rd EXCEPT ![r] = Idle] /\ Called
    BY <2>1 DEF Enter
  <2>3. calls' \in 0 .. MaxCalls
    BY <1>1, <2>2, HostsAssumption DEF RestOK, Called
  <2>4. PICK x \in ReadCall : x = Idle /\ x.at = "idle" /\ x.had = {}
    BY IdleType
  <2>5. ReadOK(r)'
    BY <1>2, <1>3, <2>2, <2>4, KnowsNothing, KnowsMoved DEF ReadsOnly
  <2>6. views' \subseteq 1 .. MaxPushes
    BY <1>2, <1>9, <2>1
  <2> QED BY <1>3, <2>2, <2>3, <2>4, <2>5, <2>6, ReaderStep
<1> QED BY <1>10, <1>11

(* The fetch returned.                                                     *)
LEMMA FetchReturnsKept ==
    ASSUME IndInv, NEW r \in Readers, fetchReturns(r)
    PROVE  IndInv'
<1>1. RestOK /\ TopicsOK
  BY TypeSplit DEF IndInv
<1>2. Primary \in Stores /\ topics \in Topics /\ rd \in [Readers -> ReadCall] /\ views \subseteq 1 .. MaxPushes
  BY <1>1 DEF Stores, TopicsOK, RestOK
<1>3. ReadsOnly /\ rd' = [rd EXCEPT ![r] = Idle] /\ views' = views \cup {rd[r].n} /\ rd[r].at = "fetch"
  BY DEF fetchReturns, Continue
<1>4. PICK i \in 1 .. Len(topics[Primary]) : rd[r].n \in Boxes(topics[Primary][i].entries)
  BY <1>3 DEF IndInv, FetchInv
<1>5. rd[r].n \in 1 .. MaxPushes
  <2>1. topics[Primary][i].entries \in Seq(Entry)
    BY <1>2, <1>4, TypedTopics
  <2> QED BY <1>4, <2>1, BoxesAt
<1>6. calls' \in 0 .. MaxCalls
  BY <1>1 DEF RestOK, fetchReturns, Continue
<1>7. PICK x \in ReadCall : x = Idle /\ x.at = "idle" /\ x.had = {}
  BY IdleType
<1>8. ReadOK(r)'
  BY <1>2, <1>3, <1>7, KnowsNothing, KnowsMoved DEF ReadsOnly
<1>9. views' \subseteq 1 .. MaxPushes
  BY <1>2, <1>3, <1>5
<1> QED BY <1>3, <1>6, <1>7, <1>8, <1>9, ReaderStep

(* release_bytes.                                                          *)
LEMMA ReleaseKept ==
    ASSUME IndInv, NEW n \in views, toolboxObjectReleaseBytes(n)
    PROVE  IndInv'
<1>1. RestOK /\ TopicsOK
  BY TypeSplit DEF IndInv
<1>2. /\ UNCHANGED <<topics, nextId, target, call, handles, boxes, freed, uids, pushes, rd, calls>>
      /\ views' = views \ {n}
  BY DEF toolboxObjectReleaseBytes, ReadsOnly
<1>3. RestOK'
  BY <1>1, <1>2 DEF RestOK
<1>4. HandleInv'
  <2>1. \A h \in handles' : HandleOK(h)'
    BY <1>2 DEF IndInv, HandleInv, HandleOK
  <2>2. BoundOK(target["parser"])'
    BY <1>2 DEF IndInv, HandleInv, BoundOK
  <2>3. Pushing' => call'.ts \in Times /\ call'.n >= 1
    BY <1>2 DEF IndInv, HandleInv, Pushing
  <2>4. Pushing' /\ call'.topic.store = call'.store => HandleOK(call.topic)'
    BY <1>2 DEF IndInv, HandleInv, Pushing, HandleOK
  <2> QED BY <2>1, <2>2, <2>3, <2>4 DEF HandleInv
<1>5. StoredOnce' /\ \A b : InStore(b)' <=> InStore(b)
  BY <1>2, BoxesIfUnchanged DEF IndInv, BoxInv
<1>6. BoxInv'
  BY <1>2, <1>5 DEF IndInv, BoxInv
<1>7. FreeInv'
  BY <1>2, <1>5 DEF IndInv, FreeInv, FreedInv, Held
<1> QED BY <1>2, <1>3, <1>4, <1>6, <1>7, QuietStep
-----------------------------------------------------------------------------
(* The theorems. *)

(* The first state: the bound topic in both stores, and nothing else.      *)
LEMMA InitHolds == Init => IndInv
<1> SUFFICES ASSUME Init PROVE IndInv
  OBVIOUS
<1>1. /\ Primary # Secondary /\ Stores = {Primary, Secondary}
      /\ MaxSeries \in Nat \ {0, 1} /\ MaxPushes \in Nat /\ MaxCalls \in Nat
  BY HostsAssumption DEF Stores
<1> DEFINE a == NewSeries(1, 1, BoundKey)
           c == NewSeries(1, 2, BoundKey)
<1>2. /\ a \in Series /\ a.id = 1 /\ a.uid = 1 /\ a.key = BoundKey /\ a.entries = <<>>
      /\ c \in Series /\ c.id = 1 /\ c.uid = 2 /\ c.key = BoundKey /\ c.entries = <<>>
  <2>1. BoundKey \in Keys /\ 1 \in 1 .. MaxSeries /\ 2 \in 1 .. MaxSeries /\ <<>> \in Seq(Entry)
    BY <1>1, HostsAssumption DEF BoundKey, Keys
  <2> QED BY <2>1, BudgetType DEF NewSeries, Series
<1>3. topics = [s \in Stores |-> IF s = Primary THEN <<a>> ELSE <<c>>]
  <2>1. \A s : <<NewSeries(1, IF s = Primary THEN 1 ELSE 2, BoundKey)>> = IF s = Primary THEN <<a>> ELSE <<c>>
    OBVIOUS
  <2> QED BY <2>1 DEF Init
<1> HIDE DEF a, c
<1>4. topics[Primary] = <<a>> /\ topics[Secondary] = <<c>>
  BY <1>1, <1>3
<1>5. <<a>> \in Seq(Series) /\ <<c>> \in Seq(Series) /\ Len(<<a>>) = 1 /\ Len(<<c>>) = 1 /\ <<a>>[1] = a /\ <<c>>[1] = c
  BY <1>2
<1>6. topics \in Topics
  BY <1>1, <1>3, <1>5 DEF Topics
<1>7. \A s \in Stores : /\ Len(topics[s]) = 1 /\ topics[s][1].id = 1 /\ topics[s][1].key = BoundKey
                        /\ topics[s][1].entries = <<>> /\ topics[s][1].uid = IF s = Primary THEN 1 ELSE 2
  BY <1>1, <1>2, <1>4, <1>5
<1>8. ASSUME NEW s \in Stores, NEW i \in 1 .. Len(topics[s]) PROVE i = 1
  <2>1. Len(topics[s]) = 1
    BY <1>7
  <2> QED BY <2>1
<1>9. /\ nextId = [s \in Stores |-> 2] /\ target = [h \in WriteHosts |-> Primary] /\ call = NoCall /\ handles = {}
      /\ boxes = {} /\ freed = [b \in 1 .. MaxPushes |-> 0] /\ rd = [r \in Readers |-> Idle] /\ views = {}
      /\ uids = 2 /\ pushes = 0 /\ calls = 0
  BY DEF Init
<1>10. TypeOK
  <2>1. \A s \in Stores : DOMAIN topics[s] = 1 .. Len(topics[s])
    BY <1>6, TypedTopics
  <2>2. \A s \in Stores : \A i \in DOMAIN topics[s] : topics[s][i].id \in 1 .. nextId[s] - 1 /\ topics[s][i].uid <= uids
    BY <1>7, <1>8, <1>9, <2>1
  <2>3. freed \in [1 .. MaxPushes -> Nat] /\ rd \in [Readers -> ReadCall] /\ nextId \in [Stores -> Nat \ {0}]
    BY <1>9, IdleType
  <2>4. target \in [WriteHosts -> Stores] /\ call \in WriteCall /\ call.n <= pushes /\ uids \in 0 .. MaxSeries
    BY <1>1, <1>9, NoCallType
  <2> QED BY <1>1, <1>6, <1>9, <2>2, <2>3, <2>4 DEF TypeOK, Topics
<1>11. ShapeInv
  <2>1. ASSUME NEW s \in Stores, NEW d \in Stores, topics[s][1].uid = topics[d][1].uid PROVE s = d
    BY <1>1, <1>7, <2>1
  <2> QED BY <1>8, <2>1 DEF ShapeInv
<1>12. HandleInv
  <2>1. target["parser"] = Primary /\ Primary \in Stores
    BY <1>1, <1>9 DEF WriteHosts
  <2>2. BoundOK(target["parser"])
    BY <1>7, <1>8, <1>9, <2>1 DEF BoundOK
  <2>3. ~Pushing
    BY <1>9, NoCallType DEF Pushing
  <2> QED BY <1>9, <2>2, <2>3 DEF HandleInv
<1>13. EntryInv
  <2>1. \A s \in Stores : \A i \in 1 .. Len(topics[s]) : Len(topics[s][i].entries) = 0
    BY <1>7, <1>8
  <2> QED BY <2>1 DEF EntryInv
<1>14. ReadInv
  BY <1>9, IdleType DEF ReadInv, ReadOK
<1>15. \A s \in Stores : \A i \in 1 .. Len(topics[s]) : Boxes(topics[s][i].entries) = {} /\ OneEach(topics[s][i].entries)
  BY <1>7, <1>8, BoxesOfNone
<1>16. \A b : ~InStore(b)
  BY <1>15 DEF InStore
<1>17. BoxInv
  <2>1. StoredOnce
    BY <1>15 DEF StoredOnce
  <2> QED BY <1>9, <1>16, <2>1, NoCallType DEF BoxInv
<1>18. FetchInv
  BY <1>9, IdleType DEF FetchInv
<1>19. FreeInv
  BY <1>9 DEF FreeInv, FreedInv
<1> QED BY <1>10, <1>11, <1>12, <1>13, <1>14, <1>17, <1>18, <1>19 DEF IndInv

(* No step at all.                                                         *)
LEMMA StutterKept ==
    ASSUME IndInv, UNCHANGED vars
    PROVE  IndInv'
<1>1. RestOK
  BY TypeSplit DEF IndInv
<1>2. UNCHANGED <<topics, nextId, target, call, handles, boxes, freed, uids, pushes, rd, calls, views>>
  BY DEF vars
<1>3. RestOK'
  BY <1>1, <1>2 DEF RestOK
<1>4. HandleInv'
  <2>1. \A h \in handles' : HandleOK(h)'
    BY <1>2 DEF IndInv, HandleInv, HandleOK
  <2>2. BoundOK(target["parser"])'
    BY <1>2 DEF IndInv, HandleInv, BoundOK
  <2>3. Pushing' => call'.ts \in Times /\ call'.n >= 1
    BY <1>2 DEF IndInv, HandleInv, Pushing
  <2>4. Pushing' /\ call'.topic.store = call'.store => HandleOK(call.topic)'
    BY <1>2 DEF IndInv, HandleInv, Pushing, HandleOK
  <2> QED BY <2>1, <2>2, <2>3, <2>4 DEF HandleInv
<1>5. StoredOnce' /\ \A b : InStore(b)' <=> InStore(b)
  BY <1>2, BoxesIfUnchanged DEF IndInv, BoxInv
<1>6. BoxInv'
  BY <1>2, <1>5 DEF IndInv, BoxInv
<1>7. FreeInv'
  BY <1>2, <1>5 DEF IndInv, FreeInv, FreedInv, Held
<1> QED BY <1>2, <1>3, <1>4, <1>6, <1>7, QuietStep

(* Every step keeps the invariant.                                         *)
LEMMA StepKept == IndInv /\ [Next]_vars => IndInv'
<1> SUFFICES ASSUME IndInv, [Next]_vars PROVE IndInv'
  OBVIOUS
<1>1. CASE UNCHANGED vars
  BY <1>1, StutterKept
<1>2. CASE \/ \E name \in Names : sourceObjectRegisterTopic(name)
           \/ \E topic \in handles, ts \in Times : sourceObjectPushOwned(topic, ts)
           \/ \E topic \in handles, ts \in Times : sourceObjectPushLazy(topic, ts)
           \/ \E topic \in handles, budget \in Budgets : sourceObjectSetRetentionBudget(topic, budget)
           \/ \E ts \in Times : parserObjectPushOwned(ts)
           \/ \E ts \in Times : parserObjectPushLazy(ts)
  BY <1>2, CallsKept
<1>3. CASE pushLazyWithoutFetch
  BY <1>3, WithoutFetchKept
<1>4. CASE registerReturns
  BY <1>4, RegisterReturnsKept
<1>5. CASE pushOwnedReturns
  BY <1>5, PushOwnedKept
<1>6. CASE pushLazyReturns
  BY <1>6, PushLazyKept
<1>7. CASE budgetReturns
  BY <1>7, BudgetKept
<1>8. CASE \E h \in WriteHosts, s \in Stores : setTarget(h, s)
  BY <1>8, SetTargetKept
<1>9. CASE \E s \in Stores, id \in 1 .. MaxSeries, ts \in Times : evictBefore(s, id, ts)
  BY <1>9, EvictKept
<1>10. CASE \E s \in Stores, id \in 1 .. MaxSeries : removeTopic(s, id)
  BY <1>10, RemoveKept
<1>11. CASE \E s \in Stores : clear(s)
  BY <1>11, ClearKept
<1>12. CASE \E s, d \in Stores : flushTo(s, d)
  BY <1>12, FlushKept
<1>13. CASE \E key \in Keys : toolboxRegisterObjectTopic(key)
  BY <1>13, ToolboxRegisterKept
<1>14. CASE \E topic \in handles, ts \in Times : toolboxPushOwnedObject(topic, ts)
  BY <1>14, ToolboxPushKept
<1>15. CASE \E r \in Readers, name \in Names : lookupTopic(r, name)
  BY <1>15, LookupKept
<1>16. CASE \E r \in Readers : lookupNext(r)
  BY <1>16, LookupNextKept
<1>17. CASE \E r \in Readers : lookupCompare(r)
  BY <1>17, LookupCompareKept
<1>18. CASE \E r \in Readers : listTopicsCount(r)
  BY <1>18, ListCountKept
<1>19. CASE \E r \in Readers : listTopicsFill(r)
  BY <1>19, ListFillKept
<1>20. CASE \E r \in Readers, id \in 1 .. MaxSeries, ts \in Times : toolboxObjectReadLatestAt(r, id, ts)
  BY <1>20, ReadLatestKept
<1>21. CASE \E r \in Readers : fetchReturns(r)
  BY <1>21, FetchReturnsKept
<1>22. CASE \E n \in views : toolboxObjectReleaseBytes(n)
  BY <1>22, ReleaseKept
<1> QED BY <1>1, <1>2, <1>3, <1>4, <1>5, <1>6, <1>7, <1>8, <1>9, <1>10, <1>11, <1>12, <1>13, <1>14, <1>15,
           <1>16, <1>17, <1>18, <1>19, <1>20, <1>21, <1>22 DEF Next

(* The invariant holds in every state of every behaviour.                  *)
LEMMA Inductive == Spec => []IndInv
BY InitHolds, StepKept, PTL DEF Spec

(* A push through a handle of the store it goes to lands under the topic   *)
(* the handle was returned for, or nowhere; flushTo keeps it so.           *)
THEOREM HandlesAlwaysNameTheirTopic == Spec => []HandlesNameTheirTopic
<1>1. IndInv => HandlesNameTheirTopic
  <2> SUFFICES ASSUME IndInv, NEW s \in Stores, NEW i \in DOMAIN topics[s], NEW j \in DOMAIN topics[s][i].entries,
                      topics[s][i].entries[j].own
               PROVE  topics[s][i].entries[j].key = topics[s][i].key
    BY DEF HandlesNameTheirTopic, IndInv
  <2>1. topics \in Topics
    BY TypeSplit DEF IndInv, TopicsOK
  <2>2. i \in 1 .. Len(topics[s])
    BY <2>1, TypedTopics
  <2>3. topics[s][i].entries \in Seq(Entry)
    BY <2>1, <2>2, TypedTopics
  <2>4. j \in 1 .. Len(topics[s][i].entries)
    BY <2>3
  <2> QED BY <2>2, <2>4 DEF IndInv, EntryInv
<1> QED BY <1>1, Inductive, PTL

(* lookup_topic and listTopics miss no topic that was there throughout.    *)
THEOREM ReadsAlwaysMissNothing == Spec => []ReadsMissNothing
<1>1. IndInv => ReadsMissNothing
  <2> SUFFICES ASSUME IndInv, NEW r \in Readers
               PROVE  /\ rd[r].at = "found" /\ rd[r].ids = <<>> => rd[r].had \cap Live(Primary) = {}
                      /\ rd[r].at = "listed" =>
                            \A i \in DOMAIN topics[Primary] : topics[Primary][i].uid \in rd[r].had =>
                               \E k \in DOMAIN rd[r].ids : rd[r].ids[k] = topics[Primary][i].id
    BY DEF ReadsMissNothing
  <2>1. DOMAIN topics[Primary] = 1 .. Len(topics[Primary])
    BY ListFacts
  <2>2. rd[r].ids \in Seq(Nat)
    BY TypeSplit DEF IndInv, RestOK, ReadCall
  <2>3. DOMAIN rd[r].ids = 1 .. Len(rd[r].ids)
    BY <2>2
  <2>4. Knows(rd[r])
    BY KnowsRead DEF IndInv, ReadInv
  <2>5. ASSUME rd[r].at = "found", rd[r].ids = <<>> PROVE rd[r].had \cap Live(Primary) = {}
    BY <2>1, <2>4, <2>5 DEF Knows, Live
  <2>6. ASSUME rd[r].at = "listed", NEW i \in DOMAIN topics[Primary], topics[Primary][i].uid \in rd[r].had
        PROVE  \E k \in DOMAIN rd[r].ids : rd[r].ids[k] = topics[Primary][i].id
    BY <2>1, <2>3, <2>4, <2>6 DEF Knows
  <2> QED BY <2>5, <2>6
<1> QED BY <1>1, Inductive, PTL

(* A context has at most one owner, and none if and only if no store and   *)
(* no push holds it.                                                       *)
LEMMA OwnersFacts ==
    ASSUME IndInv, NEW b
    PROVE  (Owners(b) = {} <=> ~Held(b)) /\ Cardinality(Owners(b)) <= 1
<1>1. topics \in Topics
  BY TypeSplit DEF IndInv, TopicsOK
<1>2. \A s \in Stores : DOMAIN topics[s] = 1 .. Len(topics[s])
  BY <1>1, TypedTopics
<1>3. \A o : o \in Owners(b) <=>
         \/ call.op = "lazy" /\ call.n = b /\ o = call
         \/ \E s \in Stores : \E i \in 1 .. Len(topics[s]) :
               b \in Boxes(topics[s][i].entries) /\ o = <<s, topics[s][i].uid>>
  BY <1>2 DEF Owners
<1>4. Owners(b) = {} <=> ~Held(b)
  BY <1>3 DEF Held, InStore
<1>5. ASSUME NEW o \in Owners(b), NEW p \in Owners(b) PROVE o = p
  <2>1. CASE call.op = "lazy" /\ call.n = b
    <3>1. ~InStore(b)
      BY <2>1 DEF IndInv, BoxInv
    <3>2. o = call /\ p = call
      BY <1>3, <3>1 DEF InStore
    <3> QED BY <3>2
  <2>2. CASE ~(call.op = "lazy" /\ call.n = b)
    <3>1. PICK s \in Stores : \E i \in 1 .. Len(topics[s]) :
              b \in Boxes(topics[s][i].entries) /\ o = <<s, topics[s][i].uid>>
      BY <1>3, <2>2
    <3>2. PICK i \in 1 .. Len(topics[s]) : b \in Boxes(topics[s][i].entries) /\ o = <<s, topics[s][i].uid>>
      BY <3>1
    <3>3. PICK d \in Stores : \E j \in 1 .. Len(topics[d]) :
              b \in Boxes(topics[d][j].entries) /\ p = <<d, topics[d][j].uid>>
      BY <1>3, <2>2
    <3>4. PICK j \in 1 .. Len(topics[d]) : b \in Boxes(topics[d][j].entries) /\ p = <<d, topics[d][j].uid>>
      BY <3>3
    <3>5. s = d /\ i = j
      BY <3>2, <3>4, OnePlace DEF IndInv, BoxInv
    <3> QED BY <3>2, <3>4, <3>5
  <2> QED BY <2>1, <2>2
<1>6. Cardinality(Owners(b)) <= 1
  <2>1. CASE Owners(b) = {}
    <3>1. Cardinality(Owners(b)) = 0
      BY <2>1, FS_EmptySet
    <3> QED BY <3>1
  <2>2. CASE Owners(b) # {}
    <3>1. PICK o : o \in Owners(b)
      BY <2>2
    <3>2. Owners(b) = {o}
      BY <1>5, <3>1
    <3>3. Cardinality({o}) = 1
      BY FS_Singleton
    <3> QED BY <3>2, <3>3
  <2> QED BY <2>1, <2>2
<1> QED BY <1>4, <1>6

(* fetch_ctx_destroy runs exactly once for each context, when its owner    *)
(* lets go of it and never under a reader that fetches from it, for        *)
(* callers of the raw vtable.  (Those of the SDK's views destroy the       *)
(* context of a refused push a second time.)                               *)
THEOREM AlwaysDestroyedExactlyOnce ==
    ASSUME SdkView = FALSE
    PROVE  Spec => []DestroyedExactlyOnce
<1>1. IndInv => DestroyedExactlyOnce
  <2> SUFFICES ASSUME IndInv PROVE DestroyedExactlyOnce
    OBVIOUS
  <2>1. FreedInv
    BY DEF IndInv, FreeInv
  <2>2. RestOK /\ TopicsOK
    BY TypeSplit DEF IndInv
  <2>3. ASSUME NEW b \in boxes
        PROVE  freed[b] = (IF Owners(b) = {} THEN 1 ELSE 0) /\ Cardinality(Owners(b)) <= 1
    <3>1. b \in 1 .. MaxPushes
      BY <2>2, HostsAssumption DEF RestOK
    <3>2. freed[b] = IF b \in boxes /\ ~Held(b) THEN 1 ELSE 0
      BY <2>1, <3>1 DEF FreedInv
    <3>3. (Owners(b) = {} <=> ~Held(b)) /\ Cardinality(Owners(b)) <= 1
      BY OwnersFacts
    <3> QED BY <3>2, <3>3
  <2>4. ASSUME NEW r \in Fetching PROVE freed[rd[r].n] = 0
    <3>1. PICK i \in 1 .. Len(topics[Primary]) : rd[r].n \in Boxes(topics[Primary][i].entries)
      BY DEF IndInv, FetchInv, Fetching
    <3>2. InStore(rd[r].n)
      BY <3>1 DEF InStore, Stores
    <3>3. rd[r].n \in 1 .. MaxPushes
      BY <2>2, <3>2, InStoreRange DEF TopicsOK
    <3> QED BY <2>1, <3>2, <3>3 DEF FreedInv, Held
  <2> QED BY <2>3, <2>4 DEF DestroyedExactlyOnce
<1> QED BY <1>1, Inductive, PTL
=============================================================================
