------------------------- MODULE ObjectStore_proofs -------------------------
(***************************************************************************)
(* Theorems about ObjectStore for any threads, stores, topics and bounds.  *)
(* The inductive invariant IndInv ties the mutexes to where the threads    *)
(* are: that is what lets a call keep series pointers between two locks,   *)
(* and what the consistency of the series and the absence of races rest    *)
(* on.  The first lemmas are about one series: what evictFront, the        *)
(* eviction loops, applyRetention, a push and a merge do to the parallel   *)
(* deques and to memory_bytes, for every sequence of entries and budget.   *)
(***************************************************************************)
EXTENDS ObjectStore, SequenceFacts, SequenceTheorems, FiniteSetTheorems, TLAPS

(* One series. *)

(* f holds the sums of the sizes of the first entries.                     *)
Sums(f, s) ==
    /\ f \in [0 .. Len(s) -> Nat]
    /\ f[0] = 0
    /\ \A i \in 1 .. Len(s) : f[i] = f[i - 1] + s[i].size

(* The running sums of the payload sizes of a sequence of entries exist,   *)
(* one per prefix: what memory_bytes is incremented by, entry after entry. *)
LEMMA SumsExist ==
    ASSUME NEW s \in Seq(Entry)
    PROVE  \E f : Sums(f, s)
<1> DEFINE Upto(f, n) == /\ f \in [0 .. n -> Nat]
                         /\ f[0] = 0
                         /\ \A i \in 1 .. n : f[i] = f[i - 1] + s[i].size
           S == {n \in 0 .. Len(s) : \E f : Upto(f, n)}
<1>0. Len(s) \in Nat /\ \A i \in 1 .. Len(s) : s[i].size \in Nat
  <2>1. \A i \in 1 .. Len(s) : s[i] \in Entry
    OBVIOUS
  <2> QED BY <2>1 DEF Entry
<1>1. 0 \in S
  <2>1. Upto([i \in 0 .. 0 |-> 0], 0)
    OBVIOUS
  <2>2. \E f : Upto(f, 0)
    BY <2>1
  <2> HIDE DEF Upto
  <2> QED BY <2>2, <1>0
<1>2. ASSUME NEW n \in 0 .. Len(s) - 1, n \in S
      PROVE  n + 1 \in S
  <2>1. PICK f : Upto(f, n)
    BY <1>2
  <2> DEFINE g == [i \in 0 .. n + 1 |-> IF i = n + 1 THEN f[n] + s[n + 1].size ELSE f[i]]
  <2>2. g \in [0 .. n + 1 -> Nat] /\ g[0] = 0
    BY <1>0, <2>1
  <2>3. ASSUME NEW i \in 1 .. n + 1
        PROVE  g[i] = g[i - 1] + s[i].size
    BY <1>0, <2>1
  <2>4. Upto(g, n + 1)
    BY <2>2, <2>3
  <2>5. \E h : Upto(h, n + 1)
    BY <2>4
  <2> HIDE DEF Upto
  <2> QED BY <2>5, <1>0
<1>3. 0 .. Len(s) \subseteq S
  <2> HIDE DEF S
  <2> QED BY <1>0, <1>1, <1>2, IntervalInduction
<1>4. Len(s) \in S
  BY <1>0, <1>3
<1> QED BY <1>4 DEF Sums

(* Bytes is the last of the sums.                                          *)
LEMMA BytesAreSums ==
    ASSUME NEW s \in Seq(Entry), NEW f, Sums(f, s)
    PROVE  Bytes(s) = f[Len(s)] /\ Bytes(s) \in Nat
<1>0. Len(s) \in Nat
  OBVIOUS
<1> DEFINE Eq(h) == h = [i \in 0 .. Len(s) |-> IF i = 0 THEN 0 ELSE h[i - 1] + s[i].size]
           g == CHOOSE h : Eq(h)
<1>1. Eq(f)
  BY <1>0 DEF Sums
<1>2. Eq(g)
  BY <1>1
<1>3. Bytes(s) = g[Len(s)]
  BY DEF Bytes
<1> HIDE DEF g
<1>4. g[0] = 0 /\ \A i \in 1 .. Len(s) : g[i] = g[i - 1] + s[i].size
  <2>1. g[0] = 0
    BY <1>0, <1>2
  <2>2. ASSUME NEW i \in 1 .. Len(s) PROVE g[i] = g[i - 1] + s[i].size
    BY <1>0, <1>2
  <2> QED BY <2>1, <2>2
<1> DEFINE S == {i \in 0 .. Len(s) : f[i] = g[i]}
<1>5. 0 \in S
  BY <1>0, <1>4 DEF Sums
<1>6. ASSUME NEW i \in 0 .. Len(s) - 1, i \in S
      PROVE  i + 1 \in S
  <2>1. i + 1 \in 1 .. Len(s) /\ i + 1 - 1 = i
    BY <1>0
  <2>2. f[i + 1] = f[i] + s[i + 1].size /\ g[i + 1] = g[i] + s[i + 1].size
    BY <1>4, <2>1 DEF Sums
  <2> QED BY <1>6, <2>1, <2>2
<1>7. 0 .. Len(s) \subseteq S
  <2> HIDE DEF S
  <2> QED BY <1>0, <1>5, <1>6, IntervalInduction
<1>8. f[Len(s)] = g[Len(s)]
  BY <1>0, <1>7
<1> QED BY <1>0, <1>3, <1>8 DEF Sums

(* The bytes of two runs of entries behind each other add up: the line of  *)
(* flushTo that adds the source's memory_bytes to the destination's.       *)
LEMMA BytesConcat ==
    ASSUME NEW s \in Seq(Entry), NEW t \in Seq(Entry)
    PROVE  Bytes(s \o t) = Bytes(s) + Bytes(t)
<1>0. /\ Len(s) \in Nat /\ Len(t) \in Nat /\ s \o t \in Seq(Entry) 
      /\ Len(s \o t) = Len(s) + Len(t)
  OBVIOUS
<1>1. PICK f : Sums(f, s)
  BY SumsExist
<1>2. PICK g : Sums(g, t)
  BY SumsExist
<1> DEFINE h == [i \in 0 .. Len(s \o t) |-> IF i <= Len(s) THEN f[i] ELSE f[Len(s)] + g[i - Len(s)]]
<1>3. Sums(h, s \o t)
  <2>1. h \in [0 .. Len(s \o t) -> Nat] /\ h[0] = 0
    <3>1. /\ \A i \in 0 .. Len(s) : f[i] \in Nat
          /\ \A i \in 0 .. Len(t) : g[i] \in Nat
          /\ f[0] = 0
      BY <1>1, <1>2 DEF Sums
    <3>2. \A i \in 0 .. Len(s \o t) :
            (IF i <= Len(s) THEN f[i] ELSE f[Len(s)] + g[i - Len(s)]) \in Nat
      BY <1>0, <3>1
    <3> QED BY <1>0, <3>1, <3>2
  <2>2. ASSUME NEW i \in 1 .. Len(s \o t), i <= Len(s)
        PROVE  h[i] = h[i - 1] + (s \o t)[i].size
    BY <1>0, <1>1, <2>2 DEF Sums
  <2>3. ASSUME NEW i \in 1 .. Len(s \o t), i > Len(s)
        PROVE  h[i] = h[i - 1] + (s \o t)[i].size
    <3>1. (s \o t)[i] = t[i - Len(s)] /\ i - Len(s) \in 1 .. Len(t)
      BY <1>0, <2>3
    <3>2. g[i - Len(s)] = g[i - Len(s) - 1] + t[i - Len(s)].size
      BY <1>2, <3>1 DEF Sums
    <3>3. t[i - Len(s)].size \in Nat /\ g[i - Len(s) - 1] \in Nat /\ f[Len(s)] \in Nat
      <4>1. t[i - Len(s)] \in Entry
        BY <3>1
      <4>2. t[i - Len(s)].size \in Nat
        BY <4>1 DEF Entry
      <4>3. i - Len(s) - 1 \in 0 .. Len(t) /\ Len(s) \in 0 .. Len(s)
        BY <1>0, <3>1
      <4> QED BY <1>1, <1>2, <4>2, <4>3 DEF Sums
    <3>4. h[i] = f[Len(s)] + g[i - Len(s)]
      BY <1>0, <2>3
    <3>5. h[i - 1] = f[Len(s)] + g[i - Len(s) - 1]
      <4>1. CASE i - 1 = Len(s)
        BY <1>0, <1>1, <1>2, <4>1 DEF Sums
      <4>2. CASE i - 1 # Len(s)
        BY <1>0, <2>3, <4>2
      <4> QED BY <4>1, <4>2
    <3> HIDE DEF h
    <3> QED BY <3>1, <3>2, <3>3, <3>4, <3>5
  <2>4. \A i \in 1 .. Len(s \o t) : h[i] = h[i - 1] + (s \o t)[i].size
    <3> HIDE DEF h
    <3> QED BY <2>2, <2>3, <1>0, SMTT(30)
  <2> HIDE DEF h
  <2> QED BY <2>1, <2>4 DEF Sums
<1>4. h[Len(s \o t)] = f[Len(s)] + g[Len(t)]
  BY <1>0, <1>1, <1>2 DEF Sums
<1> HIDE DEF h
<1> QED BY <1>0, <1>1, <1>2, <1>3, <1>4, BytesAreSums

(* A byte count is a natural number: memory_bytes never wraps below zero.  *)
LEMMA BytesType ==
    ASSUME NEW s \in Seq(Entry)
    PROVE  Bytes(s) \in Nat
BY SumsExist, BytesAreSums

(* No entries, no bytes: the count of a new or emptied series.             *)
LEMMA BytesEmpty == Bytes(<<>>) = 0
<1>0. <<>> \in Seq(Entry) /\ Len(<<>>) = 0
  OBVIOUS
<1>1. PICK f : Sums(f, <<>>)
  BY <1>0, SumsExist
<1>2. Bytes(<<>>) = f[Len(<<>>)]
  BY <1>0, <1>1, BytesAreSums
<1> QED BY <1>0, <1>1, <1>2 DEF Sums

(* One entry counts the bytes it owns: what a push adds.                   *)
LEMMA BytesOne ==
    ASSUME NEW e \in Entry
    PROVE  Bytes(<<e>>) = e.size
<1>0. <<e>> \in Seq(Entry) /\ Len(<<e>>) = 1 /\ <<e>>[1] = e
  OBVIOUS
<1>1. PICK f : Sums(f, <<e>>)
  BY <1>0, SumsExist
<1>2. Bytes(<<e>>) = f[1]
  <2>1. Bytes(<<e>>) = f[Len(<<e>>)]
    BY <1>0, <1>1, BytesAreSums
  <2> QED BY <1>0, <2>1
<1>3. f[1] = f[0] + e.size
  BY <1>0, <1>1 DEF Sums
<1> QED BY <1>0, <1>1, <1>2, <1>3 DEF Sums, Entry

-----------------------------------------------------------------------------
(* Series contents. *)

Stored == [key : Keys, entries : Seq(Entry), stamps : Seq(Times),
           mem : Nat, budget : [window : Nat, bytes : Nat]]

(* What SeriesConsistent says of one series, whether it is live or not.    *)
SeriesOK(o) ==
    /\ o \in Stored
    /\ Len(o.stamps) = Len(o.entries)
    /\ \A i \in 1 .. Len(o.entries) : o.stamps[i] = o.entries[i].ts
    /\ \A i, j \in 1 .. Len(o.stamps) : i <= j => o.stamps[i] <= o.stamps[j]
    /\ o.mem = Bytes(o.entries)
    /\ \A i, j \in 1 .. Len(o.entries) : o.entries[i].n = o.entries[j].n => i = j

(* p is o without its first k entries.                                     *)
Trimmed(p, o, k) ==
    /\ SeriesOK(p)
    /\ p.entries = SubSeq(o.entries, k + 1, Len(o.entries))
    /\ p.stamps = SubSeq(o.stamps, k + 1, Len(o.stamps))
    /\ p.key = o.key /\ p.budget = o.budget

(* Timestamps compare as integers.                                         *)
LEMMA StampsAreInts ==
    ASSUME NEW s \in Seq(Times), NEW i \in 1 .. Len(s)
    PROVE  s[i] \in Int
<1>1. s[i] \in Times
  OBVIOUS
<1> QED BY <1>1, ValueAssumption

(* What evictFront does to each member of a series.                        *)
LEMMA EvictFields ==
    ASSUME NEW o \in Stored, NEW k
    PROVE  /\ evictFront(o, k).entries = SubSeq(o.entries, k + 1, Len(o.entries))
           /\ evictFront(o, k).stamps = SubSeq(o.stamps, k + 1, Len(o.stamps))
           /\ evictFront(o, k).mem = o.mem - Bytes(SubSeq(o.entries, 1, k))
           /\ evictFront(o, k).key = o.key
           /\ evictFront(o, k).budget = o.budget
BY DEF evictFront, Stored

(* Evicting any number of front entries leaves a consistent series: the    *)
(* deques stay parallel and in order, and memory_bytes is what is left.    *)
LEMMA EvictFrontOK ==
    ASSUME NEW o, SeriesOK(o), NEW k \in 0 .. Len(o.entries)
    PROVE  Trimmed(evictFront(o, k), o, k)
<1> DEFINE p == evictFront(o, k)
           e == SubSeq(o.entries, k + 1, Len(o.entries))
           t == SubSeq(o.stamps, k + 1, Len(o.stamps))
           x == o.mem - Bytes(SubSeq(o.entries, 1, k))
<1>0. o \in Stored /\ o.entries \in Seq(Entry) /\ o.stamps \in Seq(Times) /\ k \in 0 .. Len(o.stamps)
  BY DEF SeriesOK, Stored
<1>1. p.entries = e /\ p.stamps = t /\ p.mem = x /\ p.key = o.key /\ p.budget = o.budget
  BY <1>0, EvictFields
<1>2. /\ e \in Seq(Entry) /\ Len(e) = Len(o.entries) - k
      /\ \A i \in 1 .. Len(o.entries) - k : e[i] = o.entries[k + i]
      /\ SubSeq(o.entries, 1, k) \in Seq(Entry)
  BY <1>0, SuffixFacts
<1>2a. o.entries = SubSeq(o.entries, 1, k) \o e
  BY <1>0, SuffixFacts
<1>3. /\ t \in Seq(Times) /\ Len(t) = Len(o.stamps) - k
      /\ \A i \in 1 .. Len(o.stamps) - k : t[i] = o.stamps[k + i]
  BY <1>0, SuffixFacts
<1>4. x = Bytes(e) /\ x \in Nat
  <2>1. Bytes(o.entries) = Bytes(SubSeq(o.entries, 1, k)) + Bytes(e)
    BY <1>2, <1>2a, BytesConcat
  <2>2. Bytes(SubSeq(o.entries, 1, k)) \in Nat /\ Bytes(e) \in Nat
    BY <1>2, BytesType
  <2> HIDE DEF e
  <2> QED BY <2>1, <2>2 DEF SeriesOK
<1>5. p \in Stored
  <2> HIDE DEF e, t, x
  <2>1. [o EXCEPT !.entries = e, !.stamps = t, !.mem = x] \in Stored
    BY <1>0, <1>2, <1>3, <1>4 DEF Stored
  <2>2. p = [o EXCEPT !.entries = e, !.stamps = t, !.mem = x]
    BY DEF evictFront, e, t, x
  <2> QED BY <2>1, <2>2
<1> HIDE DEF p, e, t, x
<1>6. SeriesOK(p)
  <2>0. Len(o.entries) \in Nat /\ Len(o.stamps) = Len(o.entries)
    BY <1>0 DEF SeriesOK
  <2>1. Len(t) = Len(e) /\ \A i \in 1 .. Len(e) : t[i] = e[i].ts
    <3>1. ASSUME NEW i \in 1 .. Len(e) PROVE t[i] = e[i].ts
      <4>1. k + i \in 1 .. Len(o.entries) /\ i \in 1 .. Len(o.entries) - k
        BY <2>0, <1>2
      <4>2. o.stamps[k + i] = o.entries[k + i].ts
        BY <4>1 DEF SeriesOK
      <4> QED BY <2>0, <1>2, <1>3, <4>1, <4>2
    <3> QED BY <2>0, <1>2, <1>3, <3>1
  <2>2. \A i, j \in 1 .. Len(t) : i <= j => t[i] <= t[j]
    BY <2>0, <1>2, <1>3 DEF SeriesOK
  <2>3. \A i, j \in 1 .. Len(e) : e[i].n = e[j].n => i = j
    <3>1. ASSUME NEW i \in 1 .. Len(e), NEW j \in 1 .. Len(e), e[i].n = e[j].n
          PROVE  i = j
      <4>1. /\ k + i \in 1 .. Len(o.entries) /\ i \in 1 .. Len(o.entries) - k
            /\ k + j \in 1 .. Len(o.entries) /\ j \in 1 .. Len(o.entries) - k
        BY <2>0, <1>2
      <4>2. o.entries[k + i].n = o.entries[k + j].n
        BY <1>2, <3>1, <4>1
      <4>3. k + i = k + j
        BY <4>1, <4>2 DEF SeriesOK
      <4> QED BY <4>3
    <3> QED BY <3>1
  <2> QED BY <1>1, <1>4, <1>5, <2>1, <2>2, <2>3 DEF SeriesOK
<1> QED BY <1>1, <1>6 DEF Trimmed, p, e, t

(* Where a loop over the front entries stops: at the first index at which  *)
(* its condition fails.                                                    *)
LEMMA MinFacts ==
    ASSUME NEW S \in SUBSET Nat, S # {}
    PROVE  Min(S) \in S /\ \A x \in S : Min(S) <= x
<1>1. \E n \in S : \A m \in S : n <= m
  BY LeastNatural
<1> QED BY <1>1 DEF Min

(* A loop that evicts nothing leaves a consistent series as it is.         *)
LEMMA TrimmedNone ==
    ASSUME NEW o, SeriesOK(o)
    PROVE  Trimmed(o, o, 0)
<1>1. o.entries \in Seq(Entry) /\ o.stamps \in Seq(Times)
  BY DEF SeriesOK, Stored
<1> QED BY <1>1, SubSeqFull DEF Trimmed

(* Two eviction loops after each other evict from the front.               *)
LEMMA TrimmedTwice ==
    ASSUME NEW o, NEW p, NEW q, NEW k \in 0 .. Len(o.entries), NEW l \in 0 .. Len(p.entries),
           SeriesOK(o), Trimmed(p, o, k), Trimmed(q, p, l)
    PROVE  k + l \in 0 .. Len(o.entries) /\ Trimmed(q, o, k + l)
<1>0. /\ o.entries \in Seq(Entry) /\ o.stamps \in Seq(Times) /\ Len(o.stamps) = Len(o.entries)
      /\ p.entries \in Seq(Entry) /\ p.stamps \in Seq(Times) /\ Len(p.stamps) = Len(p.entries)
      /\ q.entries \in Seq(Entry) /\ q.stamps \in Seq(Times)
      /\ Len(o.entries) \in Nat /\ Len(p.entries) \in Nat
  <2>1. SeriesOK(p) /\ SeriesOK(q)
    BY DEF Trimmed
  <2>2. ASSUME NEW x, SeriesOK(x)
        PROVE  /\ x.entries \in Seq(Entry) /\ x.stamps \in Seq(Times)
               /\ Len(x.stamps) = Len(x.entries) /\ Len(x.entries) \in Nat
    BY <2>2 DEF SeriesOK, Stored
  <2> QED BY <2>1, <2>2
<1>1. /\ Len(p.entries) = Len(o.entries) - k /\ Len(p.stamps) = Len(o.stamps) - k
      /\ \A i \in 1 .. Len(o.entries) - k : p.entries[i] = o.entries[k + i]
      /\ \A i \in 1 .. Len(o.stamps) - k : p.stamps[i] = o.stamps[k + i]
  BY <1>0, SuffixFacts DEF Trimmed
<1>2. /\ Len(q.entries) = Len(p.entries) - l /\ Len(q.stamps) = Len(p.stamps) - l
      /\ \A i \in 1 .. Len(p.entries) - l : q.entries[i] = p.entries[l + i]
      /\ \A i \in 1 .. Len(p.stamps) - l : q.stamps[i] = p.stamps[l + i]
  <2>1. l \in 0 .. Len(p.stamps)
    BY <1>0
  <2>2. /\ q.entries = SubSeq(p.entries, l + 1, Len(p.entries))
        /\ q.stamps = SubSeq(p.stamps, l + 1, Len(p.stamps))
    BY DEF Trimmed
  <2>3. /\ Len(q.entries) = Len(p.entries) - l
        /\ \A i \in 1 .. Len(p.entries) - l : q.entries[i] = p.entries[l + i]
    BY <1>0, <2>2, SuffixFacts
  <2>4. /\ Len(q.stamps) = Len(p.stamps) - l
        /\ \A i \in 1 .. Len(p.stamps) - l : q.stamps[i] = p.stamps[l + i]
    BY <1>0, <2>1, <2>2, SuffixFacts
  <2> QED BY <2>3, <2>4
<1>3. k + l \in 0 .. Len(o.entries)
  BY <1>0, <1>1
<1> DEFINE e == SubSeq(o.entries, k + l + 1, Len(o.entries))
           t == SubSeq(o.stamps, k + l + 1, Len(o.stamps))
<1>4. /\ e \in Seq(Entry) /\ Len(e) = Len(o.entries) - (k + l)
      /\ \A i \in 1 .. Len(o.entries) - (k + l) : e[i] = o.entries[k + l + i]
      /\ t \in Seq(Times) /\ Len(t) = Len(o.stamps) - (k + l)
      /\ \A i \in 1 .. Len(o.stamps) - (k + l) : t[i] = o.stamps[k + l + i]
  <2> DEFINE m == k + l
  <2>1. m \in 0 .. Len(o.entries) /\ m \in 0 .. Len(o.stamps)
    BY <1>0, <1>3
  <2>2. e = SubSeq(o.entries, m + 1, Len(o.entries)) /\ t = SubSeq(o.stamps, m + 1, Len(o.stamps))
    OBVIOUS
  <2> HIDE DEF m, e, t
  <2>3. /\ e \in Seq(Entry) /\ Len(e) = Len(o.entries) - m
        /\ \A i \in 1 .. Len(o.entries) - m : e[i] = o.entries[m + i]
    BY <1>0, <2>1, <2>2, SuffixFacts
  <2>4. /\ t \in Seq(Times) /\ Len(t) = Len(o.stamps) - m
        /\ \A i \in 1 .. Len(o.stamps) - m : t[i] = o.stamps[m + i]
    BY <1>0, <2>1, <2>2, SuffixFacts
  <2> QED BY <2>3, <2>4 DEF m
<1> HIDE DEF e, t
<1>5. q.entries = e
  <2>1. Len(q.entries) = Len(e)
    BY <1>0, <1>1, <1>2, <1>4
  <2>2. \A i \in 1 .. Len(q.entries) : q.entries[i] = e[i]
    BY <1>0, <1>1, <1>2, <1>4
  <2> QED BY <1>0, <1>4, <2>1, <2>2, SeqEqual
<1>6. q.stamps = t
  <2>1. Len(q.stamps) = Len(t)
    BY <1>0, <1>1, <1>2, <1>4
  <2>2. \A i \in 1 .. Len(q.stamps) : q.stamps[i] = t[i]
    BY <1>0, <1>1, <1>2, <1>4
  <2> QED BY <1>0, <1>4, <2>1, <2>2, SeqEqual
<1> QED BY <1>3, <1>5, <1>6 DEF Trimmed, e, t

(* The loop of evictBefore and of the time window evicts from the front and*)
(* leaves a consistent series.                                             *)
LEMMA EvictOlderOK ==
    ASSUME NEW o, SeriesOK(o), NEW threshold \in Int
    PROVE  \E k \in 0 .. Len(o.entries) : Trimmed(evictOlder(o, threshold), o, k)
<1> DEFINE S == {k \in 0 .. Len(o.entries) : k < Len(o.entries) => o.stamps[k + 1] >= threshold}
<1>1. Len(o.entries) \in Nat
  BY DEF SeriesOK, Stored
<1>2. S \in SUBSET Nat /\ Len(o.entries) \in S
  BY <1>1
<1>3. Min(S) \in S
  BY <1>2, MinFacts
<1>4. Min(S) \in 0 .. Len(o.entries) /\ evictOlder(o, threshold) = evictFront(o, Min(S))
  BY <1>3 DEF evictOlder
<1> HIDE DEF S
<1> QED BY <1>4, EvictFrontOK

(* The loop of the memory cap evicts from the front and leaves a consistent*)
(* series.                                                                 *)
LEMMA EvictOverCapOK ==
    ASSUME NEW o, SeriesOK(o)
    PROVE  \E k \in 0 .. Len(o.entries) : Trimmed(evictOverCap(o), o, k)
<1> DEFINE S == {k \in 0 .. Len(o.entries) : k < Len(o.entries) => evictFront(o, k).mem <= o.budget.bytes}
<1>1. Len(o.entries) \in Nat
  BY DEF SeriesOK, Stored
<1>2. S \in SUBSET Nat /\ Len(o.entries) \in S
  BY <1>1
<1>3. Min(S) \in S
  BY <1>2, MinFacts
<1>4. Min(S) \in 0 .. Len(o.entries) /\ evictOverCap(o) = evictFront(o, Min(S))
  BY <1>3 DEF evictOverCap
<1> HIDE DEF S
<1> QED BY <1>4, EvictFrontOK

(* Retention drops a number of oldest entries and leaves a series that is  *)
(* consistent.                                                             *)
LEMMA ApplyRetentionOK ==
    ASSUME NEW o, SeriesOK(o), NEW newest \in Int
    PROVE  \E k \in 0 .. Len(o.entries) : Trimmed(applyRetention(o, newest), o, k)
<1> DEFINE w == IF o.budget.window > 0 THEN evictOlder(o, newest - o.budget.window) ELSE o
<1>0. o.budget.window \in Nat /\ o.budget.bytes \in Nat /\ Len(o.entries) \in Nat
  BY DEF SeriesOK, Stored
<1>1. PICK k \in 0 .. Len(o.entries) : Trimmed(w, o, k)
  <2>1. CASE o.budget.window > 0
    <3>1. newest - o.budget.window \in Int /\ w = evictOlder(o, newest - o.budget.window)
      BY <1>0, <2>1
    <3> QED BY <3>1, EvictOlderOK
  <2>2. CASE ~(o.budget.window > 0)
    BY <1>0, <2>2, TrimmedNone
  <2> QED BY <2>1, <2>2
<1>2. applyRetention(o, newest) = IF o.budget.bytes > 0 THEN evictOverCap(w) ELSE w
  BY DEF applyRetention
<1> HIDE DEF w
<1>3. SeriesOK(w)
  BY <1>1 DEF Trimmed
<1>4. CASE o.budget.bytes > 0
  <2>1. PICK l \in 0 .. Len(w.entries) : Trimmed(evictOverCap(w), w, l)
    BY <1>3, EvictOverCapOK
  <2>2. k + l \in 0 .. Len(o.entries) /\ Trimmed(evictOverCap(w), o, k + l)
    BY <1>1, <2>1, TrimmedTwice
  <2> QED BY <1>2, <1>4, <2>2
<1>5. CASE ~(o.budget.bytes > 0)
  BY <1>1, <1>2, <1>5
<1> QED BY <1>4, <1>5

(* A push that is in order keeps a series consistent; what it leaves is    *)
(* the end of what it had with the new entry behind.                       *)
LEMMA RetentionIsExact ==
    ASSUME NEW o, SeriesOK(o), o.stamps # <<>>, NEW newest, newest = o.stamps[Len(o.stamps)],
           applyRetention(o, newest).entries # <<>>
    PROVE  Kept(o.entries, applyRetention(o, newest).entries, o.budget)
<1> DEFINE w == IF o.budget.window > 0 THEN evictOlder(o, newest - o.budget.window) ELSE o
           q == applyRetention(o, newest)
           win == o.budget.window
           cap == o.budget.bytes
           l == Len(o.entries)
<1>0. /\ o.entries \in Seq(Entry) /\ o.stamps \in Seq(Times) /\ Len(o.stamps) = l /\ l \in Nat
      /\ win \in Nat /\ cap \in Nat /\ l # 0
      /\ \A i \in 1 .. l : o.stamps[i] \in Int /\ o.entries[i].ts = o.stamps[i]
      /\ \A i, j \in 1 .. l : i <= j => o.stamps[i] <= o.stamps[j]
  <2>1. o.entries \in Seq(Entry) /\ o.stamps \in Seq(Times) /\ Len(o.stamps) = l /\ win \in Nat /\ cap \in Nat
    BY DEF SeriesOK, Stored
  <2>2. l \in Nat /\ l # 0
    BY <2>1
  <2>3. \A i \in 1 .. l : o.stamps[i] \in Int
    BY <2>1, StampsAreInts
  <2> QED BY <2>1, <2>2, <2>3 DEF SeriesOK
<1>1. newest \in Int /\ newest = o.stamps[l] /\ l \in 1 .. l
  BY <1>0
(* The time window takes a = 0 or the entries before the threshold.        *)
<1>2. \E a \in 0 .. l :
         /\ Trimmed(w, o, a)
         /\ win > 0 /\ a < l => o.stamps[a + 1] >= newest - win
         /\ a > 0 => win > 0 /\ o.stamps[a] < newest - win
  <2>1. CASE win > 0
    <3> DEFINE th == newest - win
               S == {k \in 0 .. l : k < l => o.stamps[k + 1] >= th}
    <3>1. S \in SUBSET Nat /\ l \in S /\ th \in Int
      BY <1>0, <1>1
    <3>2. Min(S) \in S /\ \A x \in S : Min(S) <= x
      BY <3>1, MinFacts
    <3>3. w = evictFront(o, Min(S))
      BY <2>1 DEF evictOlder
    <3> DEFINE a == Min(S)
    <3>4. a \in 0 .. l /\ (a < l => o.stamps[a + 1] >= th)
      BY <3>2
    <3>5. a > 0 => o.stamps[a] < th
      <4>1. ASSUME a > 0, ~(o.stamps[a] < th) PROVE FALSE
        <5>1. a - 1 \in 0 .. l /\ a - 1 + 1 = a /\ a \in 1 .. l
          BY <1>0, <3>4, <4>1
        <5>2. o.stamps[a] >= th
          <6>1. o.stamps[a] \in Int
            BY <1>0, <5>1
          <6>2. \A x, y \in Int : ~(x < y) => x >= y
            OBVIOUS
          <6> HIDE DEF a, th
          <6> QED BY <3>1, <4>1, <6>1, <6>2
        <5>3. a - 1 \in S
          BY <5>1, <5>2
        <5>4. a <= a - 1
          BY <3>2, <5>3
        <5> HIDE DEF a
        <5> QED BY <5>1, <5>4, <1>0
      <4> QED BY <4>1
    <3>6. Trimmed(w, o, a)
      <4> HIDE DEF a, S, w
      <4> QED BY <3>3, <3>4, EvictFrontOK DEF a
    <3> HIDE DEF a, w
    <3> QED BY <2>1, <3>4, <3>5, <3>6
  <2>2. CASE ~(win > 0)
    <3>1. w = o /\ 0 \in 0 .. l /\ Trimmed(o, o, 0)
      BY <1>0, <2>2, TrimmedNone
    <3>2. Trimmed(w, o, 0)
      BY <3>1
    <3> HIDE DEF w
    <3> QED BY <2>2, <3>1, <3>2
  <2> QED BY <2>1, <2>2
<1>3. q = IF cap > 0 THEN evictOverCap(w) ELSE w
  BY DEF applyRetention
<1> HIDE DEF w
<1>4. PICK a \in 0 .. l :
         /\ Trimmed(w, o, a)
         /\ win > 0 /\ a < l => o.stamps[a + 1] >= newest - win
         /\ a > 0 => win > 0 /\ o.stamps[a] < newest - win
  BY <1>2
<1>5. /\ SeriesOK(w) /\ w.entries = SubSeq(o.entries, a + 1, Len(o.entries)) /\ w.budget = o.budget
      /\ w.entries \in Seq(Entry) /\ Len(w.entries) = l - a /\ w.mem = Bytes(w.entries)
  <2>1. SeriesOK(w) /\ w.entries = SubSeq(o.entries, a + 1, Len(o.entries)) /\ w.budget = o.budget
    BY <1>4 DEF Trimmed
  <2>2. w.entries \in Seq(Entry) /\ w.mem = Bytes(w.entries)
    BY <2>1 DEF SeriesOK, Stored
  <2>3. a \in 0 .. Len(o.entries)
    OBVIOUS
  <2>4. Len(w.entries) = l - a
    <3> DEFINE s == o.entries
    <3>1. s \in Seq(Entry) /\ a \in 0 .. Len(s)
      BY <1>0, <2>3
    <3> HIDE DEF s
    <3>2. Len(SubSeq(s, a + 1, Len(s))) = Len(s) - a
      BY <3>1, SuffixFacts
    <3> QED BY <2>1, <3>2 DEF s
  <2> QED BY <2>1, <2>2, <2>4
(* The cap takes b = 0 or the entries that keep the rest over the cap.     *)
<1>6. \E b \in 0 .. l - a :
         /\ Trimmed(q, w, b)
         /\ cap > 0 /\ b < l - a => Bytes(SubSeq(w.entries, b + 1, Len(w.entries))) <= cap
         /\ b > 0 => cap > 0 /\ ~(Bytes(SubSeq(w.entries, b, Len(w.entries))) <= cap)
  <2>0. \A k \in 0 .. l - a : evictFront(w, k).mem = Bytes(SubSeq(w.entries, k + 1, Len(w.entries)))
    <3>1. ASSUME NEW k \in 0 .. l - a
          PROVE  evictFront(w, k).mem = Bytes(SubSeq(w.entries, k + 1, Len(w.entries)))
      <4>1. k \in 0 .. Len(w.entries)
        BY <1>5
      <4>2. Trimmed(evictFront(w, k), w, k)
        BY <1>5, <4>1, EvictFrontOK
      <4> QED BY <4>2 DEF Trimmed, SeriesOK
    <3> QED BY <3>1
  <2>1. CASE cap > 0
    <3> DEFINE S == {k \in 0 .. Len(w.entries) : k < Len(w.entries) => evictFront(w, k).mem <= w.budget.bytes}
               b == Min(S)
    <3>1. S \in SUBSET Nat /\ Len(w.entries) \in S
      <4>1. Len(w.entries) \in Nat
        BY <1>5
      <4> QED BY <4>1
    <3>2. b \in S /\ \A x \in S : b <= x
      BY <3>1, MinFacts
    <3>3. q = evictFront(w, b)
      BY <1>3, <2>1 DEF evictOverCap
    <3>4. b \in 0 .. l - a /\ (b < l - a => evictFront(w, b).mem <= cap)
      BY <1>5, <3>2
    <3>5. ASSUME b > 0 PROVE ~(evictFront(w, b - 1).mem <= cap)
      <4>1. b - 1 \in 0 .. Len(w.entries)
        BY <1>0, <1>5, <3>4, <3>5
      <4>2. ~(b - 1 \in S)
        <5>1. ~(b <= b - 1)
          BY <3>4
        <5> HIDE DEF S
        <5> QED BY <3>2, <5>1
      <4> QED BY <1>5, <4>1, <4>2
    <3> HIDE DEF b, S
    <3>6. ASSUME b > 0 PROVE ~(Bytes(SubSeq(w.entries, b, Len(w.entries))) <= cap)
      <4>1. b - 1 \in 0 .. l - a /\ b - 1 + 1 = b
        BY <1>0, <3>4, <3>6
      <4>2. evictFront(w, b - 1).mem = Bytes(SubSeq(w.entries, b - 1 + 1, Len(w.entries)))
        BY <2>0, <4>1
      <4>3. evictFront(w, b - 1).mem = Bytes(SubSeq(w.entries, b, Len(w.entries)))
        BY <4>1, <4>2, Zenon
      <4> QED BY <3>5, <3>6, <4>3
    <3>7. Trimmed(q, w, b)
      <4>1. b \in 0 .. Len(w.entries)
        BY <1>5, <3>4
      <4> HIDE DEF q
      <4> QED BY <1>5, <3>3, <4>1, EvictFrontOK
    <3> HIDE DEF q
    <3> QED BY <2>0, <2>1, <3>4, <3>6, <3>7
  <2>2. CASE ~(cap > 0)
    <3>1. q = w /\ 0 \in 0 .. l - a /\ Trimmed(w, w, 0)
      BY <1>0, <1>3, <1>5, <2>2, TrimmedNone
    <3> HIDE DEF q
    <3> QED BY <2>2, <3>1
  <2> QED BY <2>1, <2>2
<1> HIDE DEF q
<1>7. PICK b \in 0 .. l - a :
         /\ Trimmed(q, w, b)
         /\ cap > 0 /\ b < l - a => Bytes(SubSeq(w.entries, b + 1, Len(w.entries))) <= cap
         /\ b > 0 => cap > 0 /\ ~(Bytes(SubSeq(w.entries, b, Len(w.entries))) <= cap)
  BY <1>6
<1> DEFINE k == a + b
<1>8. k \in 0 .. l /\ Trimmed(q, o, k)
  <2>1. b \in 0 .. Len(w.entries) /\ a \in 0 .. Len(o.entries)
    BY <1>5, <1>7
  <2>2. a + b \in 0 .. Len(o.entries) /\ Trimmed(q, o, a + b)
    BY <1>4, <1>7, <2>1, TrimmedTwice
  <2> QED BY <2>2
<1> DEFINE s == o.entries
<1>9. s \in Seq(Entry) /\ Len(s) = l
  BY <1>0
<1> HIDE DEF s, k, l
<1>10. q.entries = SubSeq(s, k + 1, Len(s))
  BY <1>8 DEF Trimmed, s
<1>11. k < l /\ k \in 0 .. l - 1
  <2>1. Len(SubSeq(s, k + 1, Len(s))) = Len(s) - k /\ SubSeq(s, k + 1, Len(s)) \in Seq(Entry)
    BY <1>8, <1>9, SuffixFacts
  <2>2. SubSeq(s, k + 1, Len(s)) # <<>>
    BY <1>10 DEF q
  <2>3. Len(s) - k # 0
    BY <2>1, <2>2, EmptySeq
  <2> QED BY <1>0, <1>8, <1>9, <2>3
<1> DEFINE new == SubSeq(s, k + 1, Len(s))
           r == SubSeq(s, k, Len(s))
<1>12. /\ Len(new) = l - k /\ new[1].ts = o.stamps[k + 1] /\ new[Len(new)].ts = newest
  <2>1. Len(new) = l - k /\ \A i \in 1 .. l - k : new[i] = s[k + i]
    BY <1>8, <1>9, SuffixFacts
  <2>2. 1 \in 1 .. l - k /\ l - k \in 1 .. l - k /\ k + (l - k) = l /\ k + 1 \in 1 .. l
    BY <1>0, <1>11
  <2>3. new[1] = s[k + 1] /\ new[Len(new)] = s[l]
    <3> HIDE DEF new
    <3> QED BY <2>1, <2>2
  <2> HIDE DEF new
  <2> QED BY <1>0, <1>1, <2>1, <2>2, <2>3 DEF s
<1>13. WithinBudget(new, o.budget)
  <2>1. ASSUME win > 0 PROVE new[1].ts >= new[Len(new)].ts - win
    <3>1. a + 1 \in 1 .. l /\ k + 1 \in 1 .. l /\ a + 1 <= k + 1 /\ a < l
      BY <1>0, <1>7, <1>11 DEF k
    <3>2. o.stamps[a + 1] >= newest - win /\ o.stamps[a + 1] <= o.stamps[k + 1]
      BY <1>0, <1>4, <2>1, <3>1
    <3>3. o.stamps[a + 1] \in Int /\ o.stamps[k + 1] \in Int
      BY <1>0, <3>1
    <3> HIDE DEF new
    <3> QED BY <1>0, <1>1, <1>12, <3>2, <3>3
  <2>2. ASSUME cap > 0 PROVE Bytes(new) <= cap
    <3>1. b < l - a
      BY <1>0, <1>11 DEF k
    <3>2. q.entries = SubSeq(w.entries, b + 1, Len(w.entries))
      BY <1>7 DEF Trimmed
    <3> QED BY <1>7, <1>10, <2>2, <3>1, <3>2
  <2> HIDE DEF new
  <2> QED BY <2>1, <2>2 DEF WithinBudget
<1>14. ASSUME k > 0 PROVE ~WithinBudget(r, o.budget)
  <2>1. CASE b > 0
    <3> DEFINE h == b - 1
               x == evictFront(w, h)
    <3>1. h \in 0 .. Len(w.entries) /\ a \in 0 .. Len(o.entries) /\ a + h + 1 = k /\ h + 1 = b
      BY <1>0, <1>5, <1>7, <2>1 DEF k, l
    <3> HIDE DEF h
    <3>2. Trimmed(x, w, h)
      BY <1>5, <3>1, EvictFrontOK
    <3> HIDE DEF x
    <3>3. Trimmed(x, o, a + h)
      BY <1>4, <3>1, <3>2, TrimmedTwice
    <3>4. x.entries = SubSeq(w.entries, h + 1, Len(w.entries)) /\ x.entries = SubSeq(o.entries, a + h + 1, Len(o.entries))
      BY <3>2, <3>3 DEF Trimmed
    <3>5. r = SubSeq(w.entries, b, Len(w.entries))
      BY <3>1, <3>4, Zenon DEF s
    <3>6. cap > 0 /\ ~(Bytes(r) <= cap)
      BY <1>7, <2>1, <3>5
    <3> HIDE DEF r
    <3> QED BY <3>6 DEF WithinBudget
  <2>2. CASE b = 0
    <3>1. a = k /\ win > 0 /\ o.stamps[k] < newest - win
      BY <1>4, <1>14, <2>2 DEF k
    <3> DEFINE h == k - 1
    <3>2. h \in 0 .. Len(s) /\ h + 1 = k /\ l - h \in 1 .. l - h /\ 1 \in 1 .. l - h /\ h + (l - h) = l /\ k \in 1 .. l
      BY <1>0, <1>9, <1>11, <1>14
    <3> HIDE DEF h
    <3>3. Len(SubSeq(s, h + 1, Len(s))) = Len(s) - h /\ \A i \in 1 .. Len(s) - h : SubSeq(s, h + 1, Len(s))[i] = s[h + i]
      BY <1>9, <3>2, SuffixFacts
    <3>4. r = SubSeq(s, h + 1, Len(s))
      BY <3>2
    <3> HIDE DEF r
    <3>5. r[1] = s[k] /\ r[Len(r)] = s[l]
      BY <1>9, <3>2, <3>3, <3>4
    <3>6. r[1].ts = o.stamps[k] /\ r[Len(r)].ts = newest
      BY <1>0, <1>1, <3>2, <3>5 DEF s
    <3>7. ~(r[1].ts >= r[Len(r)].ts - win)
      <4>1. o.stamps[k] \in Int
        BY <1>0, <3>2
      <4> QED BY <1>0, <1>1, <3>1, <3>6, <4>1
    <3> QED BY <3>1, <3>7 DEF WithinBudget
  <2> QED BY <1>7, <2>1, <2>2
<1>15. Kept(s, q.entries, o.budget)
  <2>1. k \in 0 .. Len(s) - 1
    BY <1>9, <1>11
  <2> HIDE DEF new, r
  <2>2. /\ q.entries = SubSeq(s, k + 1, Len(s)) /\ WithinBudget(q.entries, o.budget)
        /\ k > 0 => ~WithinBudget(SubSeq(s, k, Len(s)), o.budget)
    BY <1>10, <1>13, <1>14 DEF new, r
  <2> QED BY <2>1, <2>2 DEF Kept
<1> QED BY <1>15 DEF s, q

(* A push the store accepts leaves a consistent series: the end of what it *)
(* had with the new entry behind, and as much of it as the budget allows.  *)
LEMMA PushOK ==
    ASSUME NEW o, SeriesOK(o), NEW ts \in Times, InOrder(o, ts), NEW size \in Nat,
           pushed \in Nat, \A i \in 1 .. Len(o.entries) : o.entries[i].n <= pushed
    PROVE  /\ SeriesOK(push(o, ts, size))
           /\ push(o, ts, size).key = o.key /\ push(o, ts, size).budget = o.budget
           /\ \E k \in 0 .. Len(o.entries) + 1 :
                 push(o, ts, size).entries =
                     SubSeq(Append(o.entries, [ts |-> ts, size |-> size, n |-> pushed + 1]),
                            k + 1, Len(o.entries) + 1)
           /\ push(o, ts, size).entries # <<>> =>
                 Kept(Append(o.entries, [ts |-> ts, size |-> size, n |-> pushed + 1]),
                      push(o, ts, size).entries, o.budget)
<1> DEFINE new == [ts |-> ts, size |-> size, n |-> pushed + 1]
           e == Append(o.entries, new)
           t == Append(o.stamps, ts)
           p == [o EXCEPT !.entries = e, !.stamps = t, !.mem = o.mem + size]
<1>0. /\ o \in Stored /\ o.entries \in Seq(Entry) /\ o.stamps \in Seq(Times)
      /\ Len(o.stamps) = Len(o.entries) /\ Len(o.entries) \in Nat
      /\ o.mem = Bytes(o.entries) /\ o.mem \in Nat
  BY DEF SeriesOK, Stored
<1>1. new \in Entry /\ new.ts = ts /\ new.size = size /\ new.n = pushed + 1
  BY DEF Entry
<1> HIDE DEF new
<1>2. /\ e \in Seq(Entry) /\ Len(e) = Len(o.entries) + 1 /\ e[Len(o.entries) + 1] = new
      /\ \A i \in 1 .. Len(o.entries) : e[i] = o.entries[i]
  BY <1>0, <1>1
<1>3. /\ t \in Seq(Times) /\ Len(t) = Len(o.entries) + 1 /\ t[Len(o.entries) + 1] = ts
      /\ \A i \in 1 .. Len(o.entries) : t[i] = o.stamps[i]
  BY <1>0
<1>4. Bytes(e) = o.mem + size
  <2>1. e = o.entries \o <<new>> /\ <<new>> \in Seq(Entry)
    BY <1>0, <1>1, AppendIsConcat
  <2> HIDE DEF e
  <2> QED BY <1>0, <1>1, <2>1, BytesConcat, BytesOne
<1> HIDE DEF e, t
<1>5. /\ p \in Stored
      /\ p.entries = e /\ p.stamps = t /\ p.mem = o.mem + size
      /\ p.key = o.key /\ p.budget = o.budget
  <2>1. o.mem + size \in Nat
    BY <1>0
  <2>2. p \in Stored
    BY <1>0, <1>2, <1>3, <2>1 DEF Stored
  <2>3. /\ p.entries = e /\ p.stamps = t /\ p.mem = o.mem + size
        /\ p.key = o.key /\ p.budget = o.budget
    BY <1>0 DEF Stored
  <2> QED BY <2>2, <2>3
<1>6. push(o, ts, size) = applyRetention(p, ts)
  BY DEF push, p, e, t, new
<1> HIDE DEF p
<1>7. SeriesOK(p)
  <2>1. ASSUME NEW i \in 1 .. Len(e) PROVE t[i] = e[i].ts
    <3>1. i \in 1 .. Len(o.entries) \/ i = Len(o.entries) + 1
      BY <1>0, <1>2
    <3> QED BY <1>1, <1>2, <1>3, <3>1 DEF SeriesOK
  <2>2. ASSUME NEW i \in 1 .. Len(t), NEW j \in 1 .. Len(t), i <= j PROVE t[i] <= t[j]
    <3>0. (i \in 1 .. Len(o.entries) \/ i = Len(o.entries) + 1) /\ (j \in 1 .. Len(o.entries) \/ j = Len(o.entries) + 1)
      BY <1>0, <1>3
    <3>1. CASE j \in 1 .. Len(o.entries)
      <4>1. i \in 1 .. Len(o.entries) /\ j \in 1 .. Len(o.stamps) /\ i \in 1 .. Len(o.stamps)
        BY <1>0, <2>2, <3>1
      <4> QED BY <1>3, <2>2, <4>1 DEF SeriesOK
    <3>2. CASE j = Len(o.entries) + 1 /\ i \in 1 .. Len(o.entries)
      <4>1. o.stamps[i] <= o.stamps[Len(o.stamps)] /\ o.stamps # <<>> /\ o.stamps[i] \in Int /\ o.stamps[Len(o.stamps)] \in Int
        <5>1. i \in 1 .. Len(o.stamps) /\ Len(o.stamps) \in 1 .. Len(o.stamps) /\ i <= Len(o.stamps)
          BY <1>0, <3>2
        <5>2. o.stamps[i] <= o.stamps[Len(o.stamps)]
          BY <5>1 DEF SeriesOK
        <5>3. o.stamps # <<>>
          BY <1>0, <5>1
        <5> QED BY <1>0, <5>1, <5>2, <5>3, StampsAreInts
      <4>2. ts >= o.stamps[Len(o.stamps)] /\ ts \in Int
        BY <4>1, ValueAssumption DEF InOrder
      <4> QED BY <1>3, <3>2, <4>1, <4>2
    <3>3. CASE j = Len(o.entries) + 1 /\ i = Len(o.entries) + 1
      BY <1>3, <3>3, ValueAssumption
    <3> QED BY <1>0, <3>0, <3>1, <3>2, <3>3
  <2>3. ASSUME NEW i \in 1 .. Len(e), NEW j \in 1 .. Len(e), e[i].n = e[j].n PROVE i = j
    <3>0. \A x \in 1 .. Len(o.entries) : o.entries[x].n \in Nat /\ o.entries[x].n # pushed + 1
      <4>1. ASSUME NEW x \in 1 .. Len(o.entries)
            PROVE  o.entries[x].n \in Nat /\ o.entries[x].n # pushed + 1
        <5>1. o.entries[x] \in Entry
          BY <1>0
        <5> QED BY <5>1 DEF Entry
      <4> QED BY <4>1
    <3>1. (i \in 1 .. Len(o.entries) \/ i = Len(o.entries) + 1) /\ (j \in 1 .. Len(o.entries) \/ j = Len(o.entries) + 1)
      BY <1>0, <1>2
    <3> QED BY <1>1, <1>2, <2>3, <3>0, <3>1 DEF SeriesOK
  <2>4. Len(t) = Len(e)
    BY <1>2, <1>3
  <2> QED BY <1>4, <1>5, <2>1, <2>2, <2>3, <2>4 DEF SeriesOK
<1>8. ts \in Int
  BY ValueAssumption
<1>9. PICK k \in 0 .. Len(p.entries) : Trimmed(applyRetention(p, ts), p, k)
  BY <1>7, <1>8, ApplyRetentionOK
<1>10. applyRetention(p, ts).entries # <<>> => Kept(p.entries, applyRetention(p, ts).entries, p.budget)
  <2>1. p.stamps # <<>> /\ ts = p.stamps[Len(p.stamps)]
    <3>1. t # <<>> /\ ts = t[Len(t)]
      BY <1>0, <1>3
    <3> QED BY <1>5, <3>1
  <2> QED BY <1>7, <2>1, RetentionIsExact
<1> QED BY <1>2, <1>5, <1>6, <1>9, <1>10 DEF Trimmed, e, new

(* Two series behind each other.                                           *)
LEMMA JoinOK ==
    ASSUME NEW a, NEW b, SeriesOK(a), SeriesOK(b),
           b.stamps # <<>>, InOrder(a, b.stamps[1]),
           Numbers(a.entries) \cap Numbers(b.entries) = {}
    PROVE  LET e == a.entries \o b.entries
               p == applyRetention([a EXCEPT !.entries = e, !.stamps = a.stamps \o b.stamps,
                                             !.mem = a.mem + b.mem],
                                   b.stamps[Len(b.stamps)])
           IN  /\ SeriesOK(p) /\ p.key = a.key /\ p.budget = a.budget
               /\ \E k \in 0 .. Len(e) : /\ p.entries = SubSeq(e, k + 1, Len(e))
                                         /\ a.budget = NoBudget => k = 0
               /\ p.entries # <<>> => Kept(e, p.entries, a.budget)
<1> DEFINE e == a.entries \o b.entries
           t == a.stamps \o b.stamps
           p == [a EXCEPT !.entries = e, !.stamps = t, !.mem = a.mem + b.mem]
           newest == b.stamps[Len(b.stamps)]
<1> SUFFICES /\ SeriesOK(applyRetention(p, newest))
             /\ applyRetention(p, newest).key = a.key /\ applyRetention(p, newest).budget = a.budget
             /\ \E k \in 0 .. Len(e) :
                   /\ applyRetention(p, newest).entries = SubSeq(e, k + 1, Len(e))
                   /\ a.budget = NoBudget => k = 0
             /\ applyRetention(p, newest).entries # <<>> => Kept(e, applyRetention(p, newest).entries, a.budget)
  OBVIOUS
<1>0. SeriesOK(a) /\ SeriesOK(b) /\ b.stamps # <<>> /\ InOrder(a, b.stamps[1])
      /\ Numbers(a.entries) \cap Numbers(b.entries) = {}
  OBVIOUS
<1>1. /\ a \in Stored /\ a.entries \in Seq(Entry) /\ a.stamps \in Seq(Times)
      /\ Len(a.stamps) = Len(a.entries) /\ Len(a.entries) \in Nat
      /\ a.mem = Bytes(a.entries) /\ a.mem \in Nat
  BY <1>0 DEF SeriesOK, Stored
<1>2. /\ b \in Stored /\ b.entries \in Seq(Entry) /\ b.stamps \in Seq(Times)
      /\ Len(b.stamps) = Len(b.entries) /\ Len(b.entries) \in Nat
      /\ b.mem = Bytes(b.entries) /\ b.mem \in Nat
  BY <1>0 DEF SeriesOK, Stored
<1> DEFINE la == Len(a.entries)
           lb == Len(b.entries)
<1>n. la \in Nat /\ lb \in Nat
  BY <1>1, <1>2
<1>3. /\ e \in Seq(Entry) /\ Len(e) = la + lb
      /\ \A i \in 1 .. la : e[i] = a.entries[i]
      /\ \A i \in 1 .. lb : e[la + i] = b.entries[i]
  <2> DEFINE s == a.entries
             u == b.entries
  <2>1. s \in Seq(Entry) /\ u \in Seq(Entry)
    BY <1>1, <1>2
  <2> HIDE DEF s, u
  <2>2. /\ s \o u \in Seq(Entry) /\ Len(s \o u) = Len(s) + Len(u)
        /\ \A i \in 1 .. Len(s) : (s \o u)[i] = s[i]
        /\ \A i \in 1 .. Len(u) : (s \o u)[Len(s) + i] = u[i]
    BY <2>1, ConcatFacts
  <2> QED BY <2>2 DEF s, u
<1>4. /\ t \in Seq(Times) /\ Len(t) = la + lb
      /\ \A i \in 1 .. la : t[i] = a.stamps[i]
      /\ \A i \in 1 .. lb : t[la + i] = b.stamps[i]
  <2> DEFINE s == a.stamps
             u == b.stamps
  <2>0. Len(s) = la /\ Len(u) = lb
    BY <1>1, <1>2
  <2>1. s \in Seq(Times) /\ u \in Seq(Times)
    BY <1>1, <1>2
  <2> HIDE DEF s, u, la, lb
  <2>2. /\ s \o u \in Seq(Times) /\ Len(s \o u) = Len(s) + Len(u)
        /\ \A i \in 1 .. Len(s) : (s \o u)[i] = s[i]
        /\ \A i \in 1 .. Len(u) : (s \o u)[Len(s) + i] = u[i]
    BY <2>1, ConcatFacts
  <2>3. /\ s \o u \in Seq(Times) /\ Len(s \o u) = la + lb
        /\ \A i \in 1 .. la : (s \o u)[i] = s[i]
        /\ \A i \in 1 .. lb : (s \o u)[la + i] = u[i]
    BY <2>0, <2>2
  <2> QED BY <2>3 DEF s, u
<1>5. Bytes(e) = a.mem + b.mem
  BY <1>1, <1>2, BytesConcat
<1>l. Len(a.entries) = la /\ Len(b.entries) = lb /\ Len(a.stamps) = la /\ Len(b.stamps) = lb
  BY <1>1, <1>2
<1> HIDE DEF e, t, la, lb
<1>6. /\ p \in Stored
      /\ p.entries = e /\ p.stamps = t /\ p.mem = a.mem + b.mem
      /\ p.key = a.key /\ p.budget = a.budget
  <2>1. a.mem + b.mem \in Nat
    BY <1>1, <1>2
  <2>2. p \in Stored
    BY <1>1, <1>3, <1>4, <2>1 DEF Stored
  <2>3. /\ p.entries = e /\ p.stamps = t /\ p.mem = a.mem + b.mem
        /\ p.key = a.key /\ p.budget = a.budget
    BY <1>1 DEF Stored
  <2> QED BY <2>2, <2>3
<1> HIDE DEF p
<1>7. SeriesOK(p)
  <2>0. \A i \in 1 .. Len(e) : i \in 1 .. la
                               \/ \E j \in 1 .. lb : i = la + j
    <3> SUFFICES ASSUME NEW i \in 1 .. Len(e), i \notin 1 .. la
                 PROVE  \E j \in 1 .. lb : i = la + j
      OBVIOUS
    <3>1. i > la
      BY <1>n
    <3>2. i - la \in 1 .. lb
      <4>1. Len(e) = la + lb
        BY <1>3
      <4> QED BY <1>n, <3>1, <4>1
    <3>3. i = la + (i - la)
      BY <1>n
    <3> QED BY <3>2, <3>3
  <2>1. ASSUME NEW i \in 1 .. Len(e) PROVE t[i] = e[i].ts
    <3>1. CASE i \in 1 .. la
      <4>1. a.stamps[i] = a.entries[i].ts
        BY <1>0, <1>l, <3>1 DEF SeriesOK
      <4> QED BY <1>3, <1>4, <3>1, <4>1
    <3>2. ASSUME NEW j \in 1 .. lb, i = la + j PROVE t[i] = e[i].ts
      <4>1. b.stamps[j] = b.entries[j].ts
        BY <1>0, <1>l DEF SeriesOK
      <4> QED BY <1>3, <1>4, <3>2, <4>1
    <3> QED BY <2>0, <3>1, <3>2
  <2>s. \A x \in 1 .. la, y \in 1 .. lb : a.stamps[x] <= b.stamps[y]
    <3> SUFFICES ASSUME NEW x \in 1 .. la, NEW y \in 1 .. lb
                 PROVE  a.stamps[x] <= b.stamps[y]
      OBVIOUS
    <3>0. /\ x \in 1 .. Len(a.stamps) /\ Len(a.stamps) \in 1 .. Len(a.stamps) /\ x <= Len(a.stamps)
          /\ y \in 1 .. Len(b.stamps) /\ 1 \in 1 .. Len(b.stamps) /\ 1 <= y
      BY <1>l, <1>n
    <3>00. a.stamps # <<>>
      BY <1>1, <3>0
    <3>1. a.stamps[x] <= a.stamps[Len(a.stamps)]
      BY <1>0, <3>0 DEF SeriesOK
    <3>2. b.stamps[1] <= b.stamps[y]
      BY <1>0, <3>0 DEF SeriesOK
    <3>3. a.stamps[Len(a.stamps)] <= b.stamps[1]
      <4>1. b.stamps[1] >= a.stamps[Len(a.stamps)]
        BY <1>0, <3>00 DEF InOrder
      <4>2. b.stamps[1] \in Int /\ a.stamps[Len(a.stamps)] \in Int
        BY <1>1, <1>2, <3>0, StampsAreInts
      <4> QED BY <4>1, <4>2
    <3>4. /\ a.stamps[x] \in Int /\ a.stamps[Len(a.stamps)] \in Int
          /\ b.stamps[1] \in Int /\ b.stamps[y] \in Int
      BY <1>1, <1>2, <3>0, StampsAreInts
    <3> QED BY <3>1, <3>2, <3>3, <3>4
  <2>2. ASSUME NEW i \in 1 .. Len(t), NEW j \in 1 .. Len(t), i <= j PROVE t[i] <= t[j]
    <3>0. i \in 1 .. Len(e) /\ j \in 1 .. Len(e)
      BY <1>3, <1>4
    <3>1. CASE i \in 1 .. la /\ j \in 1 .. la
      <4>1. i \in 1 .. Len(a.stamps) /\ j \in 1 .. Len(a.stamps)
        BY <1>l, <3>1
      <4> QED BY <1>0, <1>4, <2>2, <3>1, <4>1 DEF SeriesOK
    <3>2. ASSUME i \in 1 .. la, NEW y \in 1 .. lb, j = la + y
          PROVE  t[i] <= t[j]
      BY <1>4, <2>s, <3>2
    <3>3. ASSUME NEW x \in 1 .. lb, NEW y \in 1 .. lb,
                 i = la + x, j = la + y
          PROVE  t[i] <= t[j]
      <4>1. x \in 1 .. Len(b.stamps) /\ y \in 1 .. Len(b.stamps) /\ x <= y
        BY <1>n, <1>l, <2>2, <3>3
      <4> QED BY <1>0, <1>4, <3>3, <4>1 DEF SeriesOK
    <3>4. ASSUME NEW x \in 1 .. lb, i = la + x, j \in 1 .. la
          PROVE  FALSE
      BY <1>n, <2>2, <3>4
    <3> QED BY <2>0, <3>0, <3>1, <3>2, <3>3, <3>4
  <2>3. ASSUME NEW i \in 1 .. Len(e), NEW j \in 1 .. Len(e), e[i].n = e[j].n PROVE i = j
    <3>d. \A x \in 1 .. la, y \in 1 .. lb : a.entries[x].n # b.entries[y].n
      <4> SUFFICES ASSUME NEW x \in 1 .. la, NEW y \in 1 .. lb,
                          a.entries[x].n = b.entries[y].n
                   PROVE  FALSE
        OBVIOUS
      <4>1. a.entries[x].n \in Numbers(a.entries) /\ b.entries[y].n \in Numbers(b.entries)
        BY <1>1, <1>2, <1>l DEF Numbers
      <4> QED BY <1>0, <4>1
    <3>1. CASE i \in 1 .. la /\ j \in 1 .. la
      <4>1. a.entries[i].n = a.entries[j].n
        BY <1>3, <2>3, <3>1
      <4> QED BY <1>0, <1>l, <3>1, <4>1 DEF SeriesOK
    <3>2. ASSUME i \in 1 .. la, NEW y \in 1 .. lb, j = la + y
          PROVE  FALSE
      BY <1>3, <2>3, <3>d, <3>2
    <3>3. ASSUME NEW x \in 1 .. lb, NEW y \in 1 .. lb,
                 i = la + x, j = la + y
          PROVE  i = j
      <4>1. b.entries[x].n = b.entries[y].n
        BY <1>3, <2>3, <3>3
      <4>2. x = y
        BY <1>0, <1>l, <4>1 DEF SeriesOK
      <4> QED BY <3>3, <4>2
    <3>4. ASSUME NEW x \in 1 .. lb, i = la + x, j \in 1 .. la
          PROVE  FALSE
      BY <1>3, <2>3, <3>d, <3>4
    <3> QED BY <2>0, <3>1, <3>2, <3>3, <3>4
  <2>4. Len(t) = Len(e)
    BY <1>3, <1>4
  <2> QED BY <1>5, <1>6, <2>1, <2>2, <2>3, <2>4 DEF SeriesOK
<1>8. newest \in Int
  <2>1. Len(b.stamps) \in 1 .. Len(b.stamps)
    BY <1>0, <1>2
  <2> QED BY <1>2, <2>1, StampsAreInts
<1> HIDE DEF newest
<1>9. PICK k \in 0 .. Len(p.entries) : Trimmed(applyRetention(p, newest), p, k)
  BY <1>7, <1>8, ApplyRetentionOK
<1>10. a.budget = NoBudget => applyRetention(p, newest) = p
  BY <1>6 DEF applyRetention, NoBudget
<1>11. e = SubSeq(e, 0 + 1, Len(e)) /\ 0 \in 0 .. Len(e)
  <2>1. e = SubSeq(e, 1, Len(e))
    BY <1>3, SubSeqFull
  <2>2. 0 \in 0 .. Len(e)
    BY <1>n
  <2>3. 0 + 1 = 1
    OBVIOUS
  <2> QED BY <2>1, <2>2, <2>3
<1>k. applyRetention(p, newest).entries # <<>> => Kept(e, applyRetention(p, newest).entries, a.budget)
  <2>1. p.stamps # <<>> /\ newest = p.stamps[Len(p.stamps)]
    <3>1. lb \in 1 .. lb /\ Len(b.stamps) = lb
      <4>1. Len(b.stamps) = lb
        BY <1>2 DEF lb
      <4>2. lb # 0
        BY <1>0, <1>2, <4>1
      <4> QED BY <1>n, <4>1, <4>2
    <3>2. t[la + lb] = b.stamps[lb]
      BY <1>4, <3>1
    <3>3. Len(t) # 0
      BY <1>4, <1>n, <3>1
    <3>4. t # <<>>
      BY <1>4, <3>3, EmptySeq
    <3> QED BY <1>4, <1>6, <3>1, <3>2, <3>4 DEF newest
  <2>2. applyRetention(p, newest).entries # <<>> => Kept(p.entries, applyRetention(p, newest).entries, p.budget)
    BY <1>7, <2>1, RetentionIsExact
  <2> QED BY <1>6, <2>2
<1>12. CASE a.budget = NoBudget
  BY <1>6, <1>7, <1>10, <1>11, <1>12, <1>k
<1>13. CASE a.budget # NoBudget
  BY <1>6, <1>9, <1>13, <1>k DEF Trimmed
<1> QED BY <1>12, <1>13

(* A flush that was validated keeps the destination consistent; what it    *)
(* leaves is the end of what both series had.                              *)
LEMMA MergeOK ==
    ASSUME NEW m, NEW n, SeriesOK(obj[m]), SeriesOK(obj[n]),
           obj[n].stamps # <<>>, InOrder(obj[m], obj[n].stamps[1]),
           Numbers(obj[m].entries) \cap Numbers(obj[n].entries) = {}
    PROVE  /\ SeriesOK(Merge(m, n))
           /\ Merge(m, n).key = obj[m].key /\ Merge(m, n).budget = obj[m].budget
           /\ \E k \in 0 .. Len(obj[m].entries \o obj[n].entries) :
                 /\ Merge(m, n).entries = SubSeq(obj[m].entries \o obj[n].entries, k + 1,
                                              Len(obj[m].entries \o obj[n].entries))
                 /\ obj[m].budget = NoBudget => k = 0
           /\ Merge(m, n).entries # <<>> =>
                 Kept(obj[m].entries \o obj[n].entries, Merge(m, n).entries, obj[m].budget)
BY JoinOK DEF Merge

-----------------------------------------------------------------------------
(* The inductive invariant, and what it gives. *)

(* The mutexes a thread holds exclusively and shared, from where it is.    *)
Exclusive(th) ==
    IF pc[th] = "second" THEN {FirstStore(call[th])}
    ELSE IF pc[th] # "body" THEN {}
    ELSE IF call[th].op \in Writers THEN {found[th][1]}
    ELSE IF call[th].op \in Owners THEN {call[th].store, call[th].to}
    ELSE {}

SharedBy(th) ==
    (IF pc[th] \in {"series", "body"} /\ call[th].op \in Writers \cup Readers
     THEN {call[th].store} ELSE {})
    \cup (IF pc[th] = "body" /\ call[th].op \in Readers THEN {found[th][1]} ELSE {})
    \cup ({view[th]} \ {0})

(* The mutexes are held as the stages of the threads say, and a mutex that *)
(* is held exclusively is held by no other thread.                         *)
LockInv ==
    /\ \A th \in Threads, m \in Mutexes :
          /\ th \in held[m] <=> m \in Exclusive(th)
          /\ th \in shared[m] <=> m \in SharedBy(th)
    /\ \A th, u \in Threads, m \in Mutexes :
          th \in held[m] /\ u # th => u \notin held[m] /\ u \notin shared[m]

(* What a thread knows where it is: it owns no view in a call, and the     *)
(* series pointers it found are in the list of its store.                  *)
StageOK(th) ==
    /\ pc[th] # "idle" => view[th] = 0
    /\ pc[th] # "idle" /\ call[th].op = "flushTo" => call[th].store # call[th].to
    /\ pc[th] = "second" => call[th].op = "flushTo"
    /\ pc[th] = "series" => call[th].op \in Writers \cup Readers
    /\ pc[th] \in {"series", "body"} /\ call[th].op \in Writers \cup Readers =>
          /\ found[th] # <<>>
          /\ \A i \in 1 .. Len(found[th]) : found[th][i] \in SeriesIn(call[th].store)
    /\ "entryTimestamps" \notin Ops => view[th] = 0

StageInv == \A th \in Threads : StageOK(th)

(* A series belongs to one topic of one store; a key names one topic of a  *)
(* store; there is room for the series that are being registered.          *)
TopicInv ==
    /\ \A s, d \in Stores : \A i \in 1 .. Len(topics[s]), j \in 1 .. Len(topics[d]) :
          topics[s][i].series = topics[d][j].series => s = d /\ i = j
    /\ \A s \in Stores : \A n \in SeriesIn(s) : n <= created
    /\ \A s \in Stores : \A n, m \in SeriesIn(s) : obj[n].key = obj[m].key => n = m
    /\ created + Cardinality({u \in Threads : Registering(u)}) <= MaxSeries

ContentInv ==
    /\ \A n \in Series : SeriesOK(obj[n])
    /\ \A n \in Series : \A x \in Numbers(obj[n].entries) : x <= pushed
    /\ \A n, m \in Series : n # m => Numbers(obj[n].entries) \cap Numbers(obj[m].entries) = {}

IndInv == TypeOK /\ LockInv /\ StageInv /\ TopicInv /\ ContentInv

-----------------------------------------------------------------------------
(* The arguments of a call.                                                *)
LEMMA CallFacts ==
    ASSUME NEW c \in Calls
    PROVE  /\ c.op \in Ops /\ c.op \in Writers \cup Readers \cup Owners
           /\ c.store \in Stores /\ c.to \in Stores
           /\ c.ts \in Times /\ c.ts \in Int /\ c.size \in Nat /\ c.key \in Keys
           /\ c.budget \in [window : Nat, bytes : Nat]
           /\ c.op # "flushTo" => c.to = c.store
<1>1. /\ c.op \in Ops /\ c.store \in Stores /\ c.to \in Stores /\ c.ts \in Times
      /\ c.size \in Sizes /\ c.key \in Keys /\ c.budget \in Budgets \cup {NoBudget}
  BY DEF Calls, Call
<1>2. c.op \in Writers \cup Readers \cup Owners
  BY <1>1, CallAssumption
<1>3. c.budget \in [window : Nat, bytes : Nat]
  <2>1. NoBudget \in [window : Nat, bytes : Nat]
    BY DEF NoBudget
  <2> QED BY <1>1, <2>1, BudgetAssumption
<1>4. c.op # "flushTo" => c.to = c.store
  <2>1. c.op # "flushTo" => "to" \notin Fields(c.op)
    BY <1>2 DEF Fields, Writers, Readers, Owners
  <2> QED BY <2>1 DEF Calls, Uses
<1> QED BY <1>1, <1>2, <1>3, <1>4, ValueAssumption

(* The call of an idle thread is one of the calls.                         *)
LEMMA NoCallType == NoCall \in Calls
BY CallAssumption DEF NoCall, SomeOf

(* The two stores flushTo locks, in the order of their addresses, are the  *)
(* source and the destination; the other owners lock their own.            *)
LEMMA StoreFacts ==
    ASSUME NEW c \in Calls
    PROVE  /\ FirstStore(c) \in Stores /\ SecondStore(c) \in Stores
           /\ {FirstStore(c), SecondStore(c)} = {c.store, c.to}
           /\ c.op # "flushTo" => FirstStore(c) = c.store
BY CallFacts DEF FirstStore, SecondStore

(* Store mutexes and series mutexes are different mutexes.                 *)
LEMMA Disjoint ==
    /\ Stores \cap Series = {} /\ 0 \notin Mutexes
    /\ Stores \subseteq Mutexes /\ Series \subseteq Mutexes
BY ValueAssumption, ObjectBoundAssumption DEF Series, Mutexes

(* The series of a store are the ones its topics name.                     *)
LEMMA SeriesInFacts ==
    ASSUME TypeOK, NEW s \in Stores
    PROVE  /\ SeriesIn(s) \subseteq Series
           /\ \A n \in SeriesIn(s) : \E i \in 1 .. Len(topics[s]) : topics[s][i].series = n
           /\ \A i \in 1 .. Len(topics[s]) : topics[s][i].series \in SeriesIn(s)
<1>1. topics[s] \in Seq([id : Nat, series : Series])
  BY DEF TypeOK
<1>2. DOMAIN topics[s] = 1 .. Len(topics[s])
  BY <1>1
<1>3. ASSUME NEW i \in 1 .. Len(topics[s]) PROVE topics[s][i].series \in Series
  <2> DEFINE t == topics[s]
             R == [id : Nat, series : Series]
  <2>0. t \in Seq(R) /\ i \in 1 .. Len(t)
    BY <1>1
  <2> HIDE DEF t, R
  <2>1. t[i] \in R
    BY <2>0
  <2> QED BY <2>1 DEF t, R
<1> QED BY <1>2, <1>3 DEF SeriesIn

(* findSeries returns series of the list.                                  *)
LEMMA FindFacts ==
    ASSUME TypeOK, NEW s \in Stores, NEW id
    PROVE  /\ findSeries(s, id) \in Seq(Series)
           /\ Range(findSeries(s, id)) \subseteq SeriesIn(s)
           /\ \A i \in 1 .. Len(findSeries(s, id)) : findSeries(s, id)[i] \in SeriesIn(s)
           /\ IdAt(s, id) # {} => Min(IdAt(s, id)) \in 1 .. Len(topics[s])
                                   /\ findSeries(s, id) = <<topics[s][Min(IdAt(s, id))].series>>
<1>0. DOMAIN topics[s] = 1 .. Len(topics[s]) /\ Len(topics[s]) \in Nat
  <2>1. topics[s] \in Seq([id : Nat, series : Series])
    BY DEF TypeOK
  <2> QED BY <2>1
<1>1. IdAt(s, id) \in SUBSET Nat /\ IdAt(s, id) \subseteq 1 .. Len(topics[s])
  BY <1>0 DEF IdAt
<1>2. CASE IdAt(s, id) = {}
  <2>1. findSeries(s, id) = <<>>
    BY <1>2 DEF findSeries
  <2> QED BY <1>2, <2>1 DEF Range
<1>3. CASE IdAt(s, id) # {}
  <2> DEFINE n == topics[s][Min(IdAt(s, id))].series
  <2>1. Min(IdAt(s, id)) \in 1 .. Len(topics[s])
    BY <1>1, <1>3, MinFacts
  <2>2. n \in SeriesIn(s) /\ n \in Series
    BY <2>1, SeriesInFacts
  <2>3. findSeries(s, id) = <<n>>
    BY <1>3 DEF findSeries
  <2> HIDE DEF n
  <2>4. <<n>> \in Seq(Series) /\ Len(<<n>>) = 1 /\ <<n>>[1] = n /\ DOMAIN <<n>> = {1}
    BY <2>2
  <2> QED BY <2>1, <2>2, <2>3, <2>4 DEF Range, n
<1> QED BY <1>2, <1>3

-----------------------------------------------------------------------------
(* What the locks keep apart. *)

(* The thread holds the mutex of store s, shared or exclusively.           *)
Holds(th, s) == th \in held[s] \cup shared[s]

(* What a thread touches it holds a mutex for: the list of a store, its    *)
(* own; a series, that of the store the series is in, unless it reads it   *)
(* through a view.                                                         *)
LEMMA WriteCover ==
    ASSUME IndInv, NEW th \in Threads, NEW x \in WritesTo(th)
    PROVE  \/ x \in Stores /\ th \in held[x]
           \/ /\ x \in Series
              /\ \E s \in Stores :
                   /\ x \in SeriesIn(s)
                   /\ \/ th \in held[s] /\ call[th].op \in {"flushTo", "removeTopic", "clear"}
                      \/ th \in held[x] /\ th \in shared[s]
<1> DEFINE c == call[th]
<1>0. /\ c \in Calls /\ c.store \in Stores /\ c.to \in Stores
      /\ pc[th] = "body" /\ c.op \in Writers \cup Owners /\ TypeOK
  BY CallFacts DEF IndInv, TypeOK, WritesTo, Writers, Owners
<1>1. CASE c.op \in Writers
  <2>1. x = found[th][1]
    BY <1>0, <1>1 DEF WritesTo
  <2>2. x \in SeriesIn(c.store)
    <3>1. found[th] # <<>> /\ found[th] \in Seq(Series) /\ StageOK(th)
      BY <1>0, <1>1 DEF IndInv, TypeOK, StageInv, StageOK
    <3>2. 1 \in 1 .. Len(found[th])
      BY <3>1
    <3> QED BY <1>0, <1>1, <2>1, <3>1, <3>2 DEF StageOK
  <2>3. x \in Series /\ x \in Mutexes /\ c.store \in Mutexes
    BY <1>0, <2>2, SeriesInFacts, Disjoint
  <2>4. th \in held[x]
    BY <1>0, <1>1, <2>1, <2>3 DEF IndInv, LockInv, Exclusive
  <2>5. th \in shared[c.store]
    BY <1>0, <1>1, <2>3 DEF IndInv, LockInv, SharedBy
  <2> QED BY <1>0, <2>2, <2>3, <2>4, <2>5
<1>2. CASE c.op \in Owners
  <2>1. c.op \notin Writers
    BY <1>2 DEF Owners, Writers
  <2>2. th \in held[c.store] /\ th \in held[c.to]
    <3>1. c.store \in Mutexes /\ c.to \in Mutexes
      BY <1>0, Disjoint
    <3> QED BY <1>0, <1>2, <2>1, <3>1 DEF IndInv, LockInv, Exclusive
  <2>3. CASE c.op = "registerTopic"
    BY <1>0, <2>1, <2>2, <2>3 DEF WritesTo
  <2>4. CASE c.op = "flushTo"
    <3>1. x \in Filled(c.store) \/ \E n \in Filled(c.store) : x \in Match(c.to, n)
      BY <1>0, <2>1, <2>4 DEF WritesTo
    <3>2. x \in SeriesIn(c.store) \/ x \in SeriesIn(c.to)
      BY <3>1 DEF Filled, Match
    <3> QED BY <1>0, <2>2, <2>4, <3>2, SeriesInFacts
  <2>5. CASE c.op = "removeTopic"
    <3>1. x = c.store \/ x \in Range(findSeries(c.store, c.id))
      BY <1>0, <2>1, <2>5 DEF WritesTo
    <3>2. x = c.store \/ x \in SeriesIn(c.store)
      BY <1>0, <3>1, FindFacts
    <3> QED BY <1>0, <2>2, <2>5, <3>2, SeriesInFacts
  <2>6. CASE c.op = "clear"
    <3>1. x = c.store \/ x \in SeriesIn(c.store)
      BY <1>0, <2>1, <2>6 DEF WritesTo
    <3> QED BY <1>0, <2>2, <2>6, <3>1, SeriesInFacts
  <2> QED BY <1>2, <2>3, <2>4, <2>5, <2>6 DEF Owners
<1> QED BY <1>0, <1>1, <1>2

(* What a thread reads it reads under the store mutex, or under the series *)
(* mutex of a series of a store it shares, or through a view.              *)
LEMMA ReadCover ==
    ASSUME IndInv, NEW u \in Threads, NEW x \in ReadsFrom(u)
    PROVE  \/ x \in Stores /\ Holds(u, x)
           \/ x \in Series /\ u \in shared[x] /\ \E s \in Stores : x \in SeriesIn(s) /\ u \in shared[s]
           \/ x \in Series /\ u \in shared[x] /\ view[u] # 0
<1> DEFINE c == call[u]
<1>0. c \in Calls /\ c.store \in Stores /\ c.to \in Stores /\ TypeOK
  BY CallFacts DEF IndInv, TypeOK
<1>1. CASE x = c.store /\ pc[u] \in {"series", "body"} /\ c.op \in Writers \cup Readers
  <2>1. c.store \in Mutexes
    BY <1>0, Disjoint
  <2>2. u \in shared[c.store]
    BY <1>1, <2>1 DEF IndInv, LockInv, SharedBy
  <2> QED BY <1>0, <1>1, <2>2 DEF Holds
<1>2. CASE x = found[u][1] /\ pc[u] = "body" /\ c.op \in Readers
  <2>2. x \in SeriesIn(c.store)
    <3>1. found[u] # <<>> /\ found[u] \in Seq(Series) /\ StageOK(u)
      BY <1>0, <1>2 DEF IndInv, TypeOK, StageInv, StageOK
    <3>2. 1 \in 1 .. Len(found[u])
      BY <3>1
    <3> QED BY <1>0, <1>2, <3>1, <3>2 DEF StageOK
  <2>3. x \in Series /\ x \in Mutexes /\ c.store \in Mutexes
    BY <1>0, <2>2, SeriesInFacts, Disjoint
  <2>4. u \in shared[x] /\ u \in shared[c.store]
    BY <1>2, <2>3 DEF IndInv, LockInv, SharedBy
  <2> QED BY <1>0, <2>2, <2>3, <2>4
<1>3. CASE x \in {c.store, c.to} /\ pc[u] = "body" /\ c.op = "flushTo"
  <2>1. x \in Mutexes /\ x \in Stores
    BY <1>0, <1>3, Disjoint
  <2>2. c.op \in Owners /\ c.op \notin Writers
    BY <1>3 DEF Owners, Writers
  <2>3. u \in held[x]
    BY <1>3, <2>1, <2>2 DEF IndInv, LockInv, Exclusive
  <2> QED BY <2>1, <2>3 DEF Holds
<1>4. CASE x = view[u] /\ x # 0
  <2>1. x \in Series /\ x \in Mutexes
    BY <1>0, <1>4, Disjoint, ObjectBoundAssumption DEF TypeOK, Series
  <2>2. u \in shared[x]
    BY <1>4, <2>1 DEF IndInv, LockInv, SharedBy
  <2> QED BY <1>4, <2>1, <2>2
<1> QED BY <1>1, <1>2, <1>3, <1>4 DEF ReadsFrom

(* A series is in the topic list of one store.                             *)
LEMMA SeriesHome ==
    ASSUME IndInv, NEW s \in Stores, NEW d \in Stores, NEW n \in SeriesIn(s), n \in SeriesIn(d)
    PROVE  s = d
<1>1. PICK i \in 1 .. Len(topics[s]) : topics[s][i].series = n
  BY SeriesInFacts DEF IndInv
<1>2. PICK j \in 1 .. Len(topics[d]) : topics[d][j].series = n
  BY SeriesInFacts DEF IndInv
<1> QED BY <1>1, <1>2 DEF IndInv, TopicInv

(* Views and the operations that destroy or move series do not mix.        *)
ViewsApart == "entryTimestamps" \notin Ops \/ Ops \cap {"removeTopic", "clear", "flushTo"} = {}

(* Under the locking invariant no two threads conflict: the two-level locks*)
(* of ObjectStore exclude each other wherever reads and writes overlap.    *)
LEMMA LocksExcludeRaces ==
    ASSUME IndInv, ViewsApart
    PROVE  NoRace
<1> SUFFICES ASSUME NEW th \in Threads, NEW u \in Threads, th # u,
                    NEW x \in WritesTo(th), x \in WritesTo(u) \/ x \in ReadsFrom(u)
             PROVE  FALSE
  BY DEF NoRace
<1>0. Stores \subseteq Mutexes /\ Series \subseteq Mutexes /\ Stores \cap Series = {}
  BY Disjoint
<1>e. ASSUME NEW m \in Mutexes, NEW v \in Threads, NEW w \in Threads, v # w, v \in held[m]
      PROVE  w \notin held[m] /\ w \notin shared[m]
  BY <1>e DEF IndInv, LockInv
<1>1. CASE x \in Stores
  <2>1. th \in held[x]
    BY <1>0, <1>1, WriteCover
  <2>2. u \in held[x] \/ u \in shared[x]
    BY <1>0, <1>1, WriteCover, ReadCover DEF Holds
  <2> QED BY <1>0, <1>1, <1>e, <2>1, <2>2
<1>2. CASE x \in Series
  <2>1. PICK s \in Stores : /\ x \in SeriesIn(s)
                            /\ \/ th \in held[s] /\ call[th].op \in {"flushTo", "removeTopic", "clear"}
                               \/ th \in held[x] /\ th \in shared[s]
    BY <1>0, <1>2, WriteCover
  <2>2. \/ \E d \in Stores : x \in SeriesIn(d) /\ u \in held[d]
        \/ (u \in held[x] \/ u \in shared[x]) /\ \E d \in Stores : x \in SeriesIn(d) /\ u \in shared[d]
        \/ u \in shared[x] /\ view[u] # 0
    BY <1>0, <1>2, WriteCover, ReadCover
  <2>3. CASE th \in held[s] /\ call[th].op \in {"flushTo", "removeTopic", "clear"}
    <3>1. view[u] = 0
      <4>1. call[th].op \in Ops
        BY CallFacts DEF IndInv, TypeOK
      <4>2. "entryTimestamps" \notin Ops
        BY <2>3, <4>1 DEF ViewsApart
      <4> QED BY <4>2 DEF IndInv, StageInv, StageOK
    <3>2. PICK d \in Stores : x \in SeriesIn(d) /\ (u \in held[d] \/ u \in shared[d])
      BY <2>2, <3>1
    <3>3. d = s
      BY <2>1, <3>2, SeriesHome
    <3> QED BY <1>0, <1>e, <2>3, <3>2, <3>3
  <2>4. CASE th \in held[x] /\ th \in shared[s]
    <3>1. u \notin held[x] /\ u \notin shared[x]
      BY <1>0, <1>2, <1>e, <2>4
    <3>2. PICK d \in Stores : x \in SeriesIn(d) /\ u \in held[d]
      BY <2>2, <3>1
    <3>3. d = s
      BY <2>1, <3>2, SeriesHome
    <3> QED BY <1>0, <1>e, <2>4, <3>2, <3>3
  <2> QED BY <2>1, <2>3, <2>4
<1>3. x \in Stores \/ x \in Series
  BY WriteCover
<1> QED BY <1>1, <1>2, <1>3

(* SeriesConsistent from the invariant: the numbers of a series are as     *)
(* many as its entries.                                                    *)
LEMMA NumbersCount ==
    ASSUME NEW o, SeriesOK(o)
    PROVE  Cardinality(Numbers(o.entries)) = Len(o.entries)
<1> DEFINE s == o.entries
           f == [i \in 1 .. Len(s) |-> s[i].n]
<1>0. s \in Seq(Entry) /\ Len(s) \in Nat /\ DOMAIN s = 1 .. Len(s)
  BY DEF SeriesOK, Stored
<1>1. \A i, j \in 1 .. Len(s) : s[i].n = s[j].n => i = j
  BY DEF SeriesOK
<1> HIDE DEF s
<1>2. f \in [1 .. Len(s) -> Numbers(s)]
  BY <1>0 DEF Numbers
<1>3. \A y \in Numbers(s) : \E i \in 1 .. Len(s) : f[i] = y
  BY <1>0 DEF Numbers
<1>4. \A i, j \in 1 .. Len(s) : f[i] = f[j] => i = j
  BY <1>1
<1> HIDE DEF f
<1>5. f \in Bijection(1 .. Len(s), Numbers(s))
  <2>1. f \in Injection(1 .. Len(s), Numbers(s))
    BY <1>2, <1>4 DEF Injection, IsInjective
  <2>2. f \in Surjection(1 .. Len(s), Numbers(s))
    BY <1>2, <1>3 DEF Surjection
  <2> QED BY <2>1, <2>2 DEF Bijection
<1>6. ExistsBijection(1 .. Len(s), Numbers(s))
  BY <1>5 DEF ExistsBijection
<1>7. Cardinality(Numbers(s)) = Len(s)
  BY <1>0, <1>6, FS_CountingElements
<1> QED BY <1>7 DEF s

(* The inductive invariant gives the consistency of the series.            *)
LEMMA InvGivesConsistency == IndInv => SeriesConsistent
<1> SUFFICES ASSUME IndInv PROVE SeriesConsistent
  OBVIOUS
<1>0. Live \subseteq Series /\ \A n \in Series : SeriesOK(obj[n])
  BY SeriesInFacts DEF IndInv, ContentInv, Live
<1>1. ASSUME NEW n \in Live
      PROVE  /\ Len(obj[n].stamps) = Len(obj[n].entries)
             /\ \A i \in DOMAIN obj[n].entries : obj[n].stamps[i] = obj[n].entries[i].ts
             /\ \A i, j \in DOMAIN obj[n].stamps : i <= j => obj[n].stamps[i] <= obj[n].stamps[j]
             /\ obj[n].mem = Bytes(obj[n].entries)
             /\ Cardinality(Numbers(obj[n].entries)) = Len(obj[n].entries)
  <2>1. SeriesOK(obj[n])
    BY <1>0
  <2>2. DOMAIN obj[n].entries = 1 .. Len(obj[n].entries) /\ DOMAIN obj[n].stamps = 1 .. Len(obj[n].stamps)
    BY <2>1 DEF SeriesOK, Stored
  <2> QED BY <2>1, <2>2, NumbersCount DEF SeriesOK
<1>2. \A n, m \in Live : Numbers(obj[n].entries) \cap Numbers(obj[m].entries) # {} => n = m
  BY <1>0 DEF IndInv, ContentInv
<1> QED BY <1>1, <1>2 DEF SeriesConsistent, IndInv

-----------------------------------------------------------------------------
(* Steps of one thread. *)

Others(th) ==
    \A u \in Threads \ {th} : /\ pc'[u] = pc[u] /\ call'[u] = call[u]
                              /\ found'[u] = found[u] /\ view'[u] = view[u]

ThreadTypes ==
    /\ shared \in [Mutexes -> SUBSET Threads]
    /\ held \in [Mutexes -> SUBSET Threads]
    /\ pc \in [Threads -> {"idle", "store", "second", "series", "body"}]
    /\ call \in [Threads -> Calls]
    /\ found \in [Threads -> Seq(Series)]
    /\ view \in [Threads -> 0 .. MaxSeries]

DataTypes ==
    /\ topics \in [Stores -> Seq([id : Nat, series : Series])]
    /\ nextId \in [Stores -> Nat \ {0}]
    /\ obj \in [Series -> Stored]
    /\ created \in 0 .. MaxSeries
    /\ calls \in 0 .. MaxCalls
    /\ pushed \in Nat

(* The type invariant in two parts.                                        *)
LEMMA TypeParts == TypeOK <=> ThreadTypes /\ DataTypes
BY DEF TypeOK, ThreadTypes, DataTypes, Stored

(* The same after a step.                                                  *)
LEMMA TypePartsNext == TypeOK' <=> ThreadTypes' /\ DataTypes'
BY TypeParts, PTL

Busy == {u \in Threads : Registering(u)}

(* Evicting adds no entry.                                                 *)
LEMMA NumbersOfSuffix ==
    ASSUME NEW T, NEW s \in Seq(T), NEW k \in 0 .. Len(s)
    PROVE  Numbers(SubSeq(s, k + 1, Len(s))) \subseteq Numbers(s)
<1> DEFINE q == SubSeq(s, k + 1, Len(s))
<1>1. q \in Seq(T) /\ Len(q) = Len(s) - k /\ \A i \in 1 .. Len(s) - k : q[i] = s[k + i]
  BY SuffixFacts
<1> HIDE DEF q
<1>2. ASSUME NEW x \in Numbers(q) PROVE x \in Numbers(s)
  <2>1. PICK i \in 1 .. Len(s) - k : x = q[i].n
    BY <1>1 DEF Numbers
  <2>2. k + i \in DOMAIN s /\ x = s[k + i].n
    BY <1>1, <2>1
  <2> QED BY <2>2 DEF Numbers
<1> QED BY <1>2 DEF q

(* A thread that stays where it is holds what it held.                     *)
LEMMA OthersKeepLocks ==
    ASSUME NEW th \in Threads, Others(th), NEW u \in Threads \ {th}
    PROVE  Exclusive(u)' = Exclusive(u) /\ SharedBy(u)' = SharedBy(u)
BY DEF Others, Exclusive, SharedBy, FirstStore

(* A step of one thread keeps the locking invariant when it takes and      *)
(* releases exactly what its new stage says and takes nothing that is in   *)
(* another's way.                                                          *)
LEMMA LockStep ==
    ASSUME NEW th \in Threads, LockInv, Others(th),
           \A m \in Mutexes : \A u \in Threads \ {th} :
              (u \in held'[m] <=> u \in held[m]) /\ (u \in shared'[m] <=> u \in shared[m]),
           \A m \in Mutexes : (th \in held'[m] <=> m \in Exclusive(th)')
                              /\ (th \in shared'[m] <=> m \in SharedBy(th)'),
           \A m \in Mutexes : th \in held'[m] =>
              th \in held[m] \/ \A u \in Threads \ {th} : u \notin held[m] /\ u \notin shared[m],
           \A m \in Mutexes : th \in shared'[m] =>
              th \in shared[m] \/ \A u \in Threads \ {th} : u \notin held[m]
    PROVE  LockInv'
<1>1. ASSUME NEW u \in Threads, NEW m \in Mutexes
      PROVE  (u \in held'[m] <=> m \in Exclusive(u)') /\ (u \in shared'[m] <=> m \in SharedBy(u)')
  <2>1. CASE u = th
    BY <2>1
  <2>2. CASE u # th
    <3>1. Exclusive(u)' = Exclusive(u) /\ SharedBy(u)' = SharedBy(u)
      BY <2>2, OthersKeepLocks
    <3>2. (u \in held[m] <=> m \in Exclusive(u)) /\ (u \in shared[m] <=> m \in SharedBy(u))
      BY DEF LockInv
    <3> QED BY <2>2, <3>1, <3>2
  <2> QED BY <2>1, <2>2
<1>2. ASSUME NEW v \in Threads, NEW u \in Threads, NEW m \in Mutexes, v \in held'[m], u # v
      PROVE  u \notin held'[m] /\ u \notin shared'[m]
  <2>0. v \in held[m] => u \notin held[m] /\ u \notin shared[m]
    BY <1>2 DEF LockInv
  <2>3. u \in held[m] => v \notin held[m] /\ v \notin shared[m]
    BY <1>2 DEF LockInv
  <2>1. CASE v = th
    BY <1>2, <2>0, <2>1
  <2>2. CASE u = th
    BY <1>2, <2>0, <2>2, <2>3
  <2>4. CASE u # th /\ v # th
    BY <1>2, <2>0, <2>4
  <2> QED BY <2>1, <2>2, <2>4
<1> QED BY <1>1, <1>2 DEF LockInv

(* A step of one thread keeps what the others know, when the series they   *)
(* point to stay in their stores.                                          *)
LEMMA StageStep ==
    ASSUME NEW th \in Threads, StageInv, Others(th), StageOK(th)',
           \A u \in Threads \ {th} :
              pc[u] \in {"series", "body"} /\ call[u].op \in Writers \cup Readers =>
                 SeriesIn(call[u].store) \subseteq SeriesIn(call[u].store)'
    PROVE  StageInv'
<1> SUFFICES ASSUME NEW u \in Threads PROVE StageOK(u)'
  BY DEF StageInv
<1>1. CASE u = th
  BY <1>1
<1>2. CASE u # th
  <2>1. StageOK(u)
    BY DEF StageInv
  <2>2. pc'[u] = pc[u] /\ call'[u] = call[u] /\ found'[u] = found[u] /\ view'[u] = view[u]
    BY <1>2 DEF Others
  <2>3. pc[u] \in {"series", "body"} /\ call[u].op \in Writers \cup Readers =>
                 SeriesIn(call[u].store) \subseteq SeriesIn(call[u].store)'
    BY <1>2
  <2>4. (pc[u] \in {"series", "body"} /\ call[u].op \in Writers \cup Readers =>
          /\ found[u] # <<>>
          /\ \A i \in 1 .. Len(found[u]) : found[u][i] \in SeriesIn(call[u].store)')
    BY <2>1, <2>3 DEF StageOK
  <2> QED BY <2>1, <2>2, <2>4 DEF StageOK
<1> QED BY <1>1, <1>2

(* A step that leaves the topic lists and the keys alone keeps the topic   *)
(* invariant.                                                              *)
LEMMA TopicStep ==
    ASSUME TopicInv, TypeOK, topics' = topics, created' = created, Busy' \subseteq Busy,
           \A n \in Series : obj'[n].key = obj[n].key
    PROVE  TopicInv'
<1>1. \A s \in Stores : SeriesIn(s)' = SeriesIn(s) /\ SeriesIn(s) \subseteq Series
  BY SeriesInFacts DEF SeriesIn
<1>2. created' + Cardinality(Busy') <= MaxSeries
  <2>1. IsFiniteSet(Busy)
    BY FS_Subset, ObjectBoundAssumption DEF Busy
  <2>2. IsFiniteSet(Busy') /\ Cardinality(Busy') <= Cardinality(Busy)
    BY <2>1, FS_Subset
  <2>3. Cardinality(Busy) \in Nat /\ Cardinality(Busy') \in Nat
    BY <2>1, <2>2, FS_CardinalityType
  <2>4. created + Cardinality(Busy) <= MaxSeries
    BY DEF TopicInv, Busy
  <2> HIDE DEF Busy
  <2> QED BY <2>2, <2>3, <2>4, ObjectBoundAssumption DEF TypeOK
<1>3. ASSUME NEW s \in Stores, NEW n \in SeriesIn(s)', NEW m \in SeriesIn(s)', obj'[n].key = obj'[m].key
      PROVE n = m
  BY <1>1, <1>3 DEF TopicInv
<1>4. \A s, d \in Stores : \A i \in 1 .. Len(topics'[s]), j \in 1 .. Len(topics'[d]) :
          topics'[s][i].series = topics'[d][j].series => s = d /\ i = j
  BY DEF TopicInv
<1>5. \A s \in Stores : \A n \in SeriesIn(s)' : n <= created'
  BY <1>1 DEF TopicInv
<1> QED BY <1>2, <1>3, <1>4, <1>5 DEF TopicInv, Busy

(* A step that adds no entry and leaves every series consistent keeps the  *)
(* content invariant.                                                      *)
LEMMA ContentStep ==
    ASSUME ContentInv, DataTypes, DataTypes', pushed' = pushed,
           \A n \in Series : SeriesOK(obj'[n]) /\ Numbers(obj'[n].entries) \subseteq Numbers(obj[n].entries)
    PROVE  ContentInv'
<1>1. ASSUME NEW n \in Series, NEW x \in Numbers(obj'[n].entries) PROVE x <= pushed'
  BY DEF ContentInv
<1>2. ASSUME NEW n \in Series, NEW m \in Series, n # m
      PROVE  Numbers(obj'[n].entries) \cap Numbers(obj'[m].entries) = {}
  BY <1>2 DEF ContentInv
<1>3. \A n \in Series : SeriesOK(obj[n])'
  BY DEF SeriesOK, Stored
<1> QED BY <1>1, <1>2, <1>3 DEF ContentInv

(* The end of a call: the thread forgets its call and lets go of its       *)
(* mutexes.                                                                *)
LEMMA ReturnFacts ==
    ASSUME TypeOK, NEW th \in Threads, Return(th), view' = view
    PROVE  /\ pc' \in [Threads -> {"idle", "store", "second", "series", "body"}]
           /\ call' \in [Threads -> Calls]
           /\ found' \in [Threads -> Seq(Series)]
           /\ pc'[th] = "idle" /\ Others(th) /\ Busy' \subseteq Busy \ {th}
<1>1. pc \in [Threads -> {"idle", "store", "second", "series", "body"}]
      /\ call \in [Threads -> Calls] /\ found \in [Threads -> Seq(Series)]
  BY DEF TypeOK
<1>2. pc' \in [Threads -> {"idle", "store", "second", "series", "body"}]
  BY <1>1 DEF Return
<1>3. call' \in [Threads -> Calls]
  BY <1>1, NoCallType DEF Return
<1>4. found' \in [Threads -> Seq(Series)]
  <2>1. <<>> \in Seq(Series)
    OBVIOUS
  <2> QED BY <1>1, <2>1 DEF Return
<1>5. pc'[th] = "idle" /\ Others(th)
  BY <1>1 DEF Return, Others
<1>6. Busy' \subseteq Busy \ {th}
  BY <1>5 DEF Busy, Registering, Others
<1> QED BY <1>2, <1>3, <1>4, <1>5, <1>6

(* A call that returns and lets go of everything.                          *)
LEMMA FinishFacts ==
    ASSUME IndInv, NEW th \in Threads, pc[th] = "body", Return(th), Release(th), view' = view
    PROVE  /\ ThreadTypes' /\ LockInv' /\ StageOK(th)'
           /\ Others(th) /\ Busy' \subseteq Busy \ {th}
<1>0. TypeOK /\ LockInv /\ StageOK(th)
  BY DEF IndInv, StageInv
<1>1. /\ pc' \in [Threads -> {"idle", "store", "second", "series", "body"}]
      /\ call' \in [Threads -> Calls]
      /\ found' \in [Threads -> Seq(Series)]
      /\ pc'[th] = "idle" /\ Others(th) /\ Busy' \subseteq Busy \ {th}
  BY <1>0, ReturnFacts
<1>2. held' \in [Mutexes -> SUBSET Threads] /\ shared' \in [Mutexes -> SUBSET Threads]
  BY <1>0 DEF Release, TypeOK
<1>3. view' \in [Threads -> 0 .. MaxSeries]
  BY <1>0 DEF TypeOK
<1>4. \A m \in Mutexes : held'[m] = held[m] \ {th} /\ shared'[m] = shared[m] \ {th}
  BY DEF Release
<1>5. view'[th] = 0
  BY <1>0 DEF StageOK
<1>6. StageOK(th)'
  BY <1>1, <1>5 DEF StageOK
<1>7. Exclusive(th)' = {} /\ SharedBy(th)' = {}
  BY <1>1, <1>5 DEF Exclusive, SharedBy
<1>8. LockInv'
  <2>1. \A m \in Mutexes : \A u \in Threads \ {th} :
              (u \in held'[m] <=> u \in held[m]) /\ (u \in shared'[m] <=> u \in shared[m])
    BY <1>4
  <2>2. \A m \in Mutexes : th \notin held'[m] /\ th \notin shared'[m]
    BY <1>4
  <2> QED BY <1>0, <1>1, <1>7, <2>1, <2>2, LockStep
<1> QED BY <1>1, <1>2, <1>3, <1>6, <1>8 DEF ThreadTypes

(* The stores as they were set up satisfy the inductive invariant.         *)
LEMMA InitInv == Init => IndInv
<1> SUFFICES ASSUME Init PROVE IndInv
  OBVIOUS
<1> DEFINE k(n) == IF n <= Len(SetupKeys) THEN SetupKeys[n] ELSE SomeOf(Keys)
<1>0. /\ SetupKeys \in Seq(Keys) /\ Len(SetupKeys) <= MaxSeries /\ Len(SetupKeys) \in Nat
      /\ Setup \in [Stores -> Seq(DOMAIN SetupKeys)] /\ MaxSeries \in Nat
      /\ DOMAIN SetupKeys = 1 .. Len(SetupKeys)
  BY SetupAssumption, ObjectBoundAssumption
<1>1. \A n \in Series : k(n) \in Keys
  <2>1. NoCall.key \in Keys
    BY NoCallType, CallFacts
  <2>2. SomeOf(Keys) \in Keys
    BY <2>1 DEF SomeOf
  <2> QED BY <1>0, <2>2 DEF Series
<1> HIDE DEF k
<1>2. obj = [n \in Series |-> NewSeries(k(n))]
  BY DEF Init, k
<1>3. ASSUME NEW s \in Stores
      PROVE  /\ topics[s] \in Seq([id : Nat, series : Series])
             /\ Len(topics[s]) = Len(Setup[s])
             /\ \A i \in 1 .. Len(topics[s]) :
                   /\ topics[s][i].series = Setup[s][i]
                   /\ Setup[s][i] \in 1 .. Len(SetupKeys)
             /\ Len(Setup[s]) \in Nat /\ DOMAIN Setup[s] = 1 .. Len(Setup[s])
  <2> DEFINE t == Setup[s]
             D == 1 .. Len(SetupKeys)
             R == [id : Nat, series : Series]
             l == Len(t)
  <2>1. t \in Seq(D)
    BY <1>0
  <2>2. topics[s] = [j \in 1 .. l |-> [id |-> j, series |-> t[j]]]
    BY DEF Init
  <2>3. D \subseteq Series
    BY <1>0 DEF Series
  <2> HIDE DEF t, D
  <2>4. l \in Nat /\ \A j \in 1 .. l : t[j] \in D
    BY <2>1
  <2>5. \A j \in 1 .. l : [id |-> j, series |-> t[j]] \in R /\ [id |-> j, series |-> t[j]].series = t[j]
    BY <2>3, <2>4
  <2>6. DOMAIN t = 1 .. l
    BY <2>1
  <2> HIDE DEF R, l
  <2> DEFINE e(j) == [id |-> j, series |-> t[j]]
  <2> HIDE DEF e
  <2>7. [j \in 1 .. l |-> e(j)] \in Seq(R) /\ Len([j \in 1 .. l |-> e(j)]) = l
    <3>1. \A j \in 1 .. l : e(j) \in R
      BY <2>5 DEF e
    <3>2. [j \in 1 .. l |-> e(j)] \in [1 .. l -> R] /\ l \in Nat
      BY <2>4, <3>1
    <3> QED BY <3>2, SeqDef
  <2>8. topics[s] = [j \in 1 .. l |-> e(j)]
    BY <2>2 DEF e
  <2>9. topics[s] \in Seq(R) /\ Len(topics[s]) = l
    BY <2>7, <2>8
  <2>10. \A i \in 1 .. l : topics[s][i].series = t[i] /\ t[i] \in D
    BY <2>2, <2>4, <2>5
  <2> QED BY <2>4, <2>6, <2>9, <2>10 DEF R, l, t, D
<1>4. TypeOK
  <2>1. topics \in [Stores -> Seq([id : Nat, series : Series])]
    <3>1. DOMAIN topics = Stores /\ topics = [s \in Stores |-> topics[s]]
      BY DEF Init
    <3> QED BY <1>3, <3>1
  <2>2. nextId \in [Stores -> Nat \ {0}]
    <3>1. \A s \in Stores : Len(Setup[s]) + 1 \in Nat \ {0}
      BY <1>3
    <3> QED BY <3>1 DEF Init
  <2>3. obj \in [Series -> Stored]
    <3>1. ASSUME NEW key \in Keys PROVE NewSeries(key) \in Stored
      <4>1. NoBudget \in [window : Nat, bytes : Nat] /\ <<>> \in Seq(Entry) /\ <<>> \in Seq(Times)
        BY DEF NoBudget
      <4> QED BY <4>1 DEF NewSeries, Stored
    <3> QED BY <1>1, <1>2, <3>1
  <2>4. created \in 0 .. MaxSeries /\ calls \in 0 .. MaxCalls /\ pushed \in Nat
    BY <1>0, ObjectBoundAssumption DEF Init
  <2>5. ThreadTypes
    <3>1. <<>> \in Seq(Series)
      OBVIOUS
    <3> QED BY <1>0, <3>1, NoCallType DEF Init, ThreadTypes
  <2> QED BY <2>1, <2>2, <2>3, <2>4, <2>5, TypeParts DEF DataTypes
<1>5. LockInv
  <2>1. \A th \in Threads : Exclusive(th) = {} /\ SharedBy(th) = {}
    BY DEF Init, Exclusive, SharedBy
  <2>2. \A m \in Mutexes : held[m] = {} /\ shared[m] = {}
    BY DEF Init
  <2> QED BY <2>1, <2>2 DEF LockInv
<1>6. StageInv
  BY DEF Init, StageInv, StageOK
<1>7. TopicInv
  <2>1. ASSUME NEW s \in Stores, NEW d \in Stores, NEW i \in 1 .. Len(topics[s]), NEW j \in 1 .. Len(topics[d])
        PROVE  /\ Setup[s][i] = Setup[d][j] => s = d /\ i = j
               /\ s = d /\ SetupKeys[Setup[s][i]] = SetupKeys[Setup[d][j]] => i = j
    <3>1. i \in DOMAIN Setup[s] /\ j \in DOMAIN Setup[d]
      BY <1>3
    <3> QED BY <3>1, SetupAssumption
  <2>2. \A s, d \in Stores : \A i \in 1 .. Len(topics[s]), j \in 1 .. Len(topics[d]) :
          topics[s][i].series = topics[d][j].series => s = d /\ i = j
    BY <1>3, <2>1
  <2>3. ASSUME NEW s \in Stores, NEW n \in SeriesIn(s)
        PROVE  \E i \in 1 .. Len(topics[s]) : n = Setup[s][i] /\ n \in 1 .. Len(SetupKeys)
                 /\ obj[n].key = SetupKeys[Setup[s][i]]
    <3>1. PICK i \in 1 .. Len(topics[s]) : topics[s][i].series = n
      BY <1>4, SeriesInFacts
    <3>2. n = Setup[s][i] /\ n \in 1 .. Len(SetupKeys)
      BY <1>3, <3>1
    <3>3. n \in Series /\ k(n) = SetupKeys[n]
      BY <1>0, <3>2 DEF k, Series
    <3>4. obj[n].key = SetupKeys[n]
      BY <1>2, <3>3 DEF NewSeries
    <3> QED BY <3>2, <3>4
  <2>4. \A s \in Stores : \A n \in SeriesIn(s) : n <= created
    BY <1>0, <2>3 DEF Init
  <2>5. \A s \in Stores : \A n, m \in SeriesIn(s) : obj[n].key = obj[m].key => n = m
    BY <2>1, <2>3
  <2>6. created + Cardinality({u \in Threads : Registering(u)}) <= MaxSeries
    <3>1. {u \in Threads : Registering(u)} = {}
      BY DEF Init, Registering
    <3>2. Cardinality({u \in Threads : Registering(u)}) = 0
      BY <3>1, FS_EmptySet
    <3>3. created = Len(SetupKeys)
      BY DEF Init
    <3> QED BY <1>0, <3>2, <3>3
  <2> QED BY <2>2, <2>4, <2>5, <2>6 DEF TopicInv
<1>8. ContentInv
  <2>1. ASSUME NEW n \in Series PROVE SeriesOK(obj[n]) /\ obj[n].entries = <<>>
    <3>1. obj[n] \in Stored
      BY <1>4 DEF TypeOK, Stored
    <3>2. obj[n].entries = <<>> /\ obj[n].stamps = <<>> /\ obj[n].mem = 0
      BY <1>2 DEF NewSeries
    <3> QED BY <3>1, <3>2, BytesEmpty DEF SeriesOK
  <2>2. Numbers(<<>>) = {}
    BY DEF Numbers
  <2> QED BY <2>1, <2>2 DEF ContentInv
<1> QED BY <1>4, <1>5, <1>6, <1>7, <1>8 DEF IndInv

-----------------------------------------------------------------------------
(* Starting a call and taking its locks. *)

(* A step that leaves the topics and the series alone.                     *)
LEMMA QuietData ==
    ASSUME IndInv, UNCHANGED data, calls' \in 0 .. MaxCalls, Busy' \subseteq Busy
    PROVE  DataTypes' /\ TopicInv' /\ ContentInv'
<1>0. TypeOK /\ DataTypes /\ TopicInv /\ ContentInv
  BY TypeParts DEF IndInv
<1>1. topics' = topics /\ nextId' = nextId /\ obj' = obj /\ created' = created /\ pushed' = pushed
  BY DEF data
<1>2. DataTypes'
  BY <1>0, <1>1 DEF DataTypes
<1>3. TopicInv'
  BY <1>0, <1>1, TopicStep
<1>4. ContentInv'
  <2>1. \A n \in Series : SeriesOK(obj'[n]) /\ Numbers(obj'[n].entries) \subseteq Numbers(obj[n].entries)
    BY <1>0, <1>1 DEF ContentInv
  <2> QED BY <1>0, <1>1, <1>2, <2>1, ContentStep
<1> QED BY <1>2, <1>3, <1>4

(* A step of one thread that leaves the topic lists alone keeps what the   *)
(* others know.                                                            *)
LEMMA QuietStage ==
    ASSUME IndInv, NEW th \in Threads, topics' = topics, Others(th), StageOK(th)'
    PROVE  StageInv'
<1>1. ASSUME NEW u \in Threads \ {th} PROVE SeriesIn(call[u].store) \subseteq SeriesIn(call[u].store)'
  BY DEF Others, SeriesIn
<1>2. StageInv
  BY DEF IndInv
<1> QED BY <1>1, <1>2, StageStep

(* The parts make up the invariant.                                        *)
LEMMA Assemble ==
    ASSUME ThreadTypes', DataTypes', LockInv', StageInv', TopicInv', ContentInv'
    PROVE  IndInv'
BY TypePartsNext DEF IndInv

(* Starting a call keeps the invariant.                                    *)
LEMMA StartStep ==
    ASSUME IndInv, NEW th \in Threads, NEW c \in Calls, Start(th, c)
    PROVE  IndInv'
<1>0. TypeOK /\ DataTypes /\ ThreadTypes /\ LockInv /\ StageInv /\ TopicInv /\ ContentInv /\ StageOK(th)
  BY TypeParts DEF IndInv, StageInv
<1>1. /\ pc[th] = "idle" /\ view[th] = 0 /\ UNCHANGED <<data, shared, held, found, view>>
      /\ pc' = [pc EXCEPT ![th] = "store"] /\ call' = [call EXCEPT ![th] = c]
      /\ calls' = calls + 1 /\ calls < MaxCalls
      /\ c.op = "flushTo" => c.store # c.to
      /\ c.op = "registerTopic" => created + Cardinality(Busy) < MaxSeries
  BY DEF Start, Busy
<1>2. ThreadTypes'
  BY <1>0, <1>1 DEF ThreadTypes
<1>3. pc'[th] = "store" /\ call'[th] = c /\ Others(th)
  BY <1>0, <1>1 DEF ThreadTypes, Others
<1>4. StageOK(th)'
  BY <1>0, <1>1, <1>3 DEF StageOK
<1>5. LockInv'
  <2>1. Exclusive(th) = {} /\ SharedBy(th) = {} /\ Exclusive(th)' = {} /\ SharedBy(th)' = {}
    BY <1>1, <1>3 DEF Exclusive, SharedBy
  <2>2. \A m \in Mutexes : th \notin held[m] /\ th \notin shared[m]
    BY <1>0, <2>1 DEF LockInv
  <2> QED BY <1>0, <1>1, <1>3, <2>1, <2>2, LockStep
<1>6. topics' = topics /\ nextId' = nextId /\ obj' = obj /\ created' = created /\ pushed' = pushed
  BY <1>1 DEF data
<1>7. StageInv'
  BY <1>3, <1>4, <1>6, QuietStage
<1>8. calls' \in 0 .. MaxCalls
  BY <1>0, <1>1, ObjectBoundAssumption DEF DataTypes
<1>9. CASE c.op # "registerTopic"
  <2>1. Busy' \subseteq Busy
    BY <1>3, <1>9 DEF Busy, Registering, Others
  <2> QED BY <1>1, <1>2, <1>5, <1>7, <1>8, <2>1, QuietData, Assemble
<1>10. CASE c.op = "registerTopic"
  <2>1. DataTypes'
    BY <1>0, <1>6, <1>8 DEF DataTypes
  <2>2. ContentInv'
    <3>1. \A n \in Series : SeriesOK(obj'[n]) /\ Numbers(obj'[n].entries) \subseteq Numbers(obj[n].entries)
      BY <1>0, <1>6 DEF ContentInv
    <3> QED BY <1>0, <1>6, <2>1, <3>1, ContentStep
  <2>3. Busy' = Busy \cup {th} /\ th \notin Busy
    BY <1>1, <1>3, <1>10 DEF Busy, Registering, Others
  <2>4. IsFiniteSet(Busy)
    BY FS_Subset, ObjectBoundAssumption DEF Busy
  <2>5. Cardinality(Busy') = Cardinality(Busy) + 1 /\ Cardinality(Busy) \in Nat
    BY <2>3, <2>4, FS_AddElement, FS_CardinalityType
  <2>6. created' + Cardinality(Busy') <= MaxSeries
    <3>1. created + Cardinality(Busy) < MaxSeries /\ created \in Nat /\ MaxSeries \in Nat
      BY <1>0, <1>1, <1>10, ObjectBoundAssumption DEF DataTypes
    <3> HIDE DEF Busy
    <3> QED BY <1>6, <2>5, <3>1
  <2>7. \A s \in Stores : SeriesIn(s)' = SeriesIn(s)
    BY <1>6 DEF SeriesIn
  <2>8. TopicInv'
    <3>1. \A s, d \in Stores : \A i \in 1 .. Len(topics'[s]), j \in 1 .. Len(topics'[d]) :
             topics'[s][i].series = topics'[d][j].series => s = d /\ i = j
      BY <1>0, <1>6 DEF TopicInv
    <3>2. \A s \in Stores : \A n \in SeriesIn(s)' : n <= created'
      BY <1>0, <1>6, <2>7 DEF TopicInv
    <3>3. \A s \in Stores : \A n, m \in SeriesIn(s)' : obj'[n].key = obj'[m].key => n = m
      BY <1>0, <1>6, <2>7 DEF TopicInv
    <3> QED BY <2>6, <3>1, <3>2, <3>3 DEF TopicInv, Busy
  <2> QED BY <1>2, <1>5, <1>7, <2>1, <2>2, <2>8, Assemble
<1> QED BY <1>9, <1>10

(* Taking a mutex m: no other thread holds it in the way.                  *)
LEMMA TakeShared ==
    ASSUME TypeOK, NEW th \in Threads, NEW m \in Mutexes, LockShared(th, m)
    PROVE  /\ shared' \in [Mutexes -> SUBSET Threads] /\ held' = held
           /\ \A x \in Mutexes : th \in shared'[x] <=> x = m \/ th \in shared[x]
           /\ \A x \in Mutexes : \A u \in Threads \ {th} : u \in shared'[x] <=> u \in shared[x]
           /\ \A u \in Threads : u \notin held[m]
BY DEF TypeOK, LockShared

(* Taking a mutex exclusively: nobody else holds it.                       *)
LEMMA TakeExclusive ==
    ASSUME TypeOK, NEW th \in Threads, NEW m \in Mutexes, Lock(th, m)
    PROVE  /\ held' \in [Mutexes -> SUBSET Threads] /\ shared' = shared
           /\ \A x \in Mutexes : th \in held'[x] <=> x = m \/ th \in held[x]
           /\ \A x \in Mutexes : \A u \in Threads \ {th} : u \in held'[x] <=> u \in held[x]
           /\ \A u \in Threads : u \notin held[m] /\ u \notin shared[m]
BY DEF TypeOK, Lock

(* The series an evictAllBefore goes through.                              *)
LEMMA AllSeries ==
    ASSUME TypeOK, NEW s \in Stores
    PROVE  LET a == [i \in DOMAIN topics[s] |-> topics[s][i].series]
           IN  a \in Seq(Series) /\ \A i \in 1 .. Len(a) : a[i] \in SeriesIn(s)
<1> DEFINE l == Len(topics[s])
           e(i) == topics[s][i].series
           a == [i \in 1 .. l |-> e(i)]
<1>1. l \in Nat /\ DOMAIN topics[s] = 1 .. l
  <2>1. topics[s] \in Seq([id : Nat, series : Series])
    BY DEF TypeOK
  <2> QED BY <2>1
<1>2. \A i \in 1 .. l : e(i) \in Series /\ e(i) \in SeriesIn(s)
  BY SeriesInFacts
<1> HIDE DEF e, l
<1>3. a \in [1 .. l -> Series] /\ \A i \in 1 .. l : a[i] \in SeriesIn(s)
  BY <1>2
<1>4. a \in Seq(Series) /\ Len(a) = l
  BY <1>1, <1>3, SeqDef
<1> QED BY <1>1, <1>3, <1>4 DEF e

(* The shared store lock with the lookup under it keeps the invariant,     *)
(* whether the id is found or not.                                         *)
LEMMA ShareStoreStep ==
    ASSUME IndInv, NEW th \in Threads, ShareStore(th)
    PROVE  IndInv'
<1> DEFINE c == call[th]
           target == IF c.op = "evictAllBefore"
                     THEN [i \in DOMAIN topics[c.store] |-> topics[c.store][i].series]
                     ELSE findSeries(c.store, c.id)
<1>0. TypeOK /\ DataTypes /\ ThreadTypes /\ LockInv /\ StageInv /\ TopicInv /\ ContentInv /\ StageOK(th)
  BY TypeParts DEF IndInv, StageInv
<1>1. /\ c \in Calls /\ c.store \in Stores /\ c.store \in Mutexes
      /\ c.op \in Writers \cup Readers /\ pc[th] = "store" /\ view[th] = 0
  BY <1>0, CallFacts, Disjoint DEF ThreadTypes, ShareStore, StageOK
<1>2. target \in Seq(Series) /\ \A i \in 1 .. Len(target) : target[i] \in SeriesIn(c.store)
  BY <1>0, <1>1, AllSeries, FindFacts
<1>3. \/ target = <<>> /\ Return(th) /\ UNCHANGED <<shared, held>>
      \/ /\ target # <<>> /\ LockShared(th, c.store)
         /\ found' = [found EXCEPT ![th] = target]
         /\ pc' = [pc EXCEPT ![th] = "series"]
         /\ UNCHANGED call
  BY DEF ShareStore
<1>4. UNCHANGED data /\ view' = view /\ calls' = calls
  BY DEF ShareStore
<1>5. topics' = topics /\ calls' \in 0 .. MaxCalls
  BY <1>0, <1>4 DEF data, DataTypes
<1>6. \A m \in Mutexes : th \notin held[m] /\ th \notin shared[m]
  <2>1. Exclusive(th) = {} /\ SharedBy(th) = {}
    BY <1>1 DEF Exclusive, SharedBy
  <2> QED BY <1>0, <2>1 DEF LockInv
<1> HIDE DEF target
<1>7. CASE target = <<>> /\ Return(th) /\ UNCHANGED <<shared, held>>
  <2>1. /\ ThreadTypes' /\ pc'[th] = "idle" /\ Others(th) /\ Busy' \subseteq Busy
    BY <1>0, <1>4, <1>7, ReturnFacts DEF ThreadTypes
  <2>2. StageOK(th)'
    BY <1>0, <1>1, <1>4, <2>1 DEF StageOK
  <2>3. Exclusive(th)' = {} /\ SharedBy(th)' = {}
    BY <1>1, <1>4, <2>1 DEF Exclusive, SharedBy
  <2>4. LockInv'
    BY <1>0, <1>6, <1>7, <2>1, <2>3, LockStep
  <2> QED BY <1>4, <1>5, <2>1, <2>2, <2>4, QuietData, QuietStage, Assemble
<1>8. CASE /\ target # <<>> /\ LockShared(th, c.store)
           /\ found' = [found EXCEPT ![th] = target]
           /\ pc' = [pc EXCEPT ![th] = "series"]
           /\ UNCHANGED call
  <2>1. pc'[th] = "series" /\ found'[th] = target /\ call' = call /\ Others(th)
    BY <1>0, <1>4, <1>8 DEF ThreadTypes, Others
  <2>2. Busy' \subseteq Busy
    BY <1>1, <2>1 DEF Busy, Registering, Others
  <2>3. /\ shared' \in [Mutexes -> SUBSET Threads] /\ held' = held
        /\ \A x \in Mutexes : th \in shared'[x] <=> x = c.store \/ th \in shared[x]
        /\ \A x \in Mutexes : \A u \in Threads \ {th} : u \in shared'[x] <=> u \in shared[x]
        /\ \A u \in Threads : u \notin held[c.store]
    BY <1>0, <1>1, <1>8, TakeShared
  <2>4. ThreadTypes'
    BY <1>0, <1>2, <1>4, <1>8, <2>3 DEF ThreadTypes
  <2>5. StageOK(th)'
    <3>1. SeriesIn(c.store)' = SeriesIn(c.store)
      BY <1>5, <2>1 DEF SeriesIn
    <3> QED BY <1>0, <1>1, <1>2, <1>4, <1>8, <2>1, <3>1 DEF StageOK
  <2>6. Exclusive(th)' = {} /\ SharedBy(th)' = {c.store}
    BY <1>1, <1>4, <2>1 DEF Exclusive, SharedBy
  <2>7. LockInv'
    BY <1>0, <1>6, <2>1, <2>3, <2>6, LockStep
  <2> QED BY <1>4, <1>5, <2>1, <2>2, <2>4, <2>5, <2>7, QuietData, QuietStage, Assemble
<1> QED BY <1>3, <1>7, <1>8

(* An owner taking a store mutex, the first or flushTo's second, keeps the *)
(* invariant.                                                              *)
LEMMA OwnStoreStep ==
    ASSUME IndInv, NEW th \in Threads, OwnStore(th)
    PROVE  IndInv'
<1> DEFINE c == call[th]
<1>0. TypeOK /\ DataTypes /\ ThreadTypes /\ LockInv /\ StageInv /\ TopicInv /\ ContentInv /\ StageOK(th)
  BY TypeParts DEF IndInv, StageInv
<1>1. /\ c \in Calls /\ c.store \in Stores /\ c.to \in Stores /\ c.op \in Owners
      /\ c.op \notin Writers \cup Readers /\ pc[th] \in {"store", "second"} /\ view[th] = 0
      /\ (pc[th] = "second" => c.op = "flushTo") /\ (c.op # "flushTo" => c.to = c.store)
      /\ (c.op = "flushTo" => c.store # c.to)
  BY <1>0, CallFacts DEF ThreadTypes, OwnStore, StageOK, Owners, Writers, Readers
<1>2. /\ FirstStore(c) \in Mutexes /\ SecondStore(c) \in Mutexes
      /\ {FirstStore(c), SecondStore(c)} = {c.store, c.to}
      /\ c.op # "flushTo" => FirstStore(c) = c.store
  BY <1>1, StoreFacts, Disjoint
<1>3. UNCHANGED data /\ call' = call /\ found' = found /\ view' = view /\ calls' = calls
  BY DEF OwnStore
<1>4. topics' = topics /\ calls' \in 0 .. MaxCalls
  BY <1>0, <1>3 DEF data, DataTypes
<1>5. ASSUME NEW m \in Mutexes, Lock(th, m), pc' \in [Threads -> {"idle", "store", "second", "series", "body"}],
             pc' = [pc EXCEPT ![th] = pc'[th]], StageOK(th)',
             pc'[th] # "idle", Exclusive(th)' = Exclusive(th) \cup {m}, SharedBy(th)' = SharedBy(th)
      PROVE  IndInv'
  <2>1. /\ held' \in [Mutexes -> SUBSET Threads] /\ shared' = shared
        /\ \A x \in Mutexes : th \in held'[x] <=> x = m \/ th \in held[x]
        /\ \A x \in Mutexes : \A u \in Threads \ {th} : u \in held'[x] <=> u \in held[x]
        /\ \A u \in Threads : u \notin held[m] /\ u \notin shared[m]
    BY <1>0, <1>5, TakeExclusive
  <2>2. ThreadTypes'
    BY <1>0, <1>3, <1>5, <2>1 DEF ThreadTypes
  <2>3. Others(th)
    BY <1>0, <1>3, <1>5 DEF ThreadTypes, Others
  <2>4. Busy' \subseteq Busy
    BY <1>1, <1>3, <2>3 DEF Busy, Registering, Others
  <2>5. \A x \in Mutexes : (th \in held[x] <=> x \in Exclusive(th)) /\ (th \in shared[x] <=> x \in SharedBy(th))
    BY <1>0 DEF LockInv
  <2>6. LockInv'
    BY <1>0, <1>5, <2>1, <2>3, <2>5, LockStep
  <2> QED BY <1>3, <1>4, <1>5, <2>2, <2>3, <2>4, <2>6, QuietData, QuietStage, Assemble
<1>6. CASE pc[th] = "store" /\ Lock(th, FirstStore(c)) /\ pc' = [pc EXCEPT ![th] = IF c.op = "flushTo" THEN "second" ELSE "body"]
  <2>1. /\ pc' \in [Threads -> {"idle", "store", "second", "series", "body"}]
        /\ pc'[th] = IF c.op = "flushTo" THEN "second" ELSE "body"
        /\ pc' = [pc EXCEPT ![th] = pc'[th]]
    BY <1>0, <1>6 DEF ThreadTypes
  <2>2. StageOK(th)'
    BY <1>0, <1>1, <1>3, <2>1 DEF StageOK
  <2>3. SharedBy(th) = {} /\ SharedBy(th)' = {} /\ Exclusive(th) = {}
    BY <1>1, <1>3, <1>6, <2>1 DEF SharedBy, Exclusive
  <2>4. Exclusive(th)' = {FirstStore(c)}
    <3>1. FirstStore(c)' = FirstStore(c)
      BY <1>3 DEF FirstStore
    <3>2. c' = c
      BY <1>3
    <3> QED BY <1>1, <1>2, <2>1, <3>1, <3>2 DEF Exclusive
  <2> QED BY <1>2, <1>5, <1>6, <2>1, <2>2, <2>3, <2>4
<1>7. CASE pc[th] = "second" /\ Lock(th, SecondStore(c)) /\ pc' = [pc EXCEPT ![th] = "body"]
  <2>1. /\ pc' \in [Threads -> {"idle", "store", "second", "series", "body"}]
        /\ pc'[th] = "body"
        /\ pc' = [pc EXCEPT ![th] = pc'[th]]
    BY <1>0, <1>7 DEF ThreadTypes
  <2>2. StageOK(th)'
    BY <1>0, <1>1, <1>3, <2>1 DEF StageOK
  <2>3. SharedBy(th) = {} /\ SharedBy(th)' = {} /\ Exclusive(th) = {FirstStore(c)}
    BY <1>1, <1>3, <1>7, <2>1 DEF SharedBy, Exclusive
  <2>4. Exclusive(th)' = {FirstStore(c)} \cup {SecondStore(c)}
    <3>2. c' = c
      BY <1>3
    <3>3. Exclusive(th)' = {c.store, c.to}
      BY <1>1, <2>1, <3>2 DEF Exclusive
    <3> QED BY <1>2, <3>3
  <2> QED BY <1>2, <1>5, <1>7, <2>1, <2>2, <2>3, <2>4
<1>8. \/ pc[th] = "store" /\ Lock(th, FirstStore(c)) /\ pc' = [pc EXCEPT ![th] = IF c.op = "flushTo" THEN "second" ELSE "body"]
      \/ pc[th] = "second" /\ Lock(th, SecondStore(c)) /\ pc' = [pc EXCEPT ![th] = "body"]
  BY DEF OwnStore
<1> QED BY <1>6, <1>7, <1>8

(* Taking the mutex of the next series keeps the invariant.                *)
LEMMA LockSeriesStep ==
    ASSUME IndInv, NEW th \in Threads, LockSeries(th)
    PROVE  IndInv'
<1> DEFINE c == call[th]
           n == found[th][1]
<1>0. TypeOK /\ DataTypes /\ ThreadTypes /\ LockInv /\ StageInv /\ TopicInv /\ ContentInv /\ StageOK(th)
  BY TypeParts DEF IndInv, StageInv
<1>1. /\ c \in Calls /\ c.store \in Stores /\ c.op \in Writers \cup Readers
      /\ pc[th] = "series" /\ view[th] = 0 /\ found[th] # <<>>
      /\ \A i \in 1 .. Len(found[th]) : found[th][i] \in SeriesIn(c.store)
      /\ c.op \notin Owners /\ ~(c.op \in Readers /\ c.op \in Writers)
  BY <1>0, CallFacts DEF ThreadTypes, LockSeries, StageOK, Owners, Writers, Readers
<1>2. n \in SeriesIn(c.store) /\ n \in Mutexes
  <2>1. found[th] \in Seq(Series)
    BY <1>0 DEF ThreadTypes
  <2>2. 1 \in 1 .. Len(found[th])
    BY <1>1, <2>1
  <2>3. SeriesIn(c.store) \subseteq Mutexes
    BY <1>0, <1>1, SeriesInFacts, Disjoint
  <2> QED BY <1>1, <2>2, <2>3
<1>3. UNCHANGED data /\ call' = call /\ found' = found /\ view' = view /\ calls' = calls
      /\ pc' = [pc EXCEPT ![th] = "body"]
  BY DEF LockSeries
<1>4. topics' = topics /\ calls' \in 0 .. MaxCalls
  BY <1>0, <1>3 DEF data, DataTypes
<1>5. pc' \in [Threads -> {"idle", "store", "second", "series", "body"}] /\ pc'[th] = "body" /\ Others(th)
  BY <1>0, <1>3 DEF ThreadTypes, Others
<1>6. Busy' \subseteq Busy
  BY <1>1, <1>3, <1>5 DEF Busy, Registering, Others
<1>7. StageOK(th)'
  <2>1. SeriesIn(c.store)' = SeriesIn(c.store)
    BY <1>3, <1>4 DEF SeriesIn
  <2> QED BY <1>0, <1>1, <1>3, <1>5, <2>1 DEF StageOK
<1>8. \A x \in Mutexes : (th \in held[x] <=> x \in Exclusive(th)) /\ (th \in shared[x] <=> x \in SharedBy(th))
  BY <1>0 DEF LockInv
<1>9. Exclusive(th) = {} /\ SharedBy(th) = {c.store}
  BY <1>1 DEF Exclusive, SharedBy
<1>10. CASE c.op \in Readers
  <2>0. LockShared(th, n)
    BY <1>10 DEF LockSeries
  <2>1. /\ shared' \in [Mutexes -> SUBSET Threads] /\ held' = held
        /\ \A x \in Mutexes : th \in shared'[x] <=> x = n \/ th \in shared[x]
        /\ \A x \in Mutexes : \A u \in Threads \ {th} : u \in shared'[x] <=> u \in shared[x]
        /\ \A u \in Threads : u \notin held[n]
    BY <1>0, <1>2, <2>0, TakeShared
  <2>2. ThreadTypes'
    BY <1>0, <1>3, <1>5, <2>1 DEF ThreadTypes
  <2>3. Exclusive(th)' = {} /\ SharedBy(th)' = {c.store} \cup {n}
    BY <1>1, <1>3, <1>5, <1>10 DEF Exclusive, SharedBy
  <2>4. LockInv'
    BY <1>0, <1>5, <1>8, <1>9, <2>1, <2>3, LockStep
  <2> QED BY <1>3, <1>4, <1>5, <1>6, <1>7, <2>2, <2>4, QuietData, QuietStage, Assemble
<1>11. CASE c.op \notin Readers
  <2>0. Lock(th, n)
    BY <1>11 DEF LockSeries
  <2>1. /\ held' \in [Mutexes -> SUBSET Threads] /\ shared' = shared
        /\ \A x \in Mutexes : th \in held'[x] <=> x = n \/ th \in held[x]
        /\ \A x \in Mutexes : \A u \in Threads \ {th} : u \in held'[x] <=> u \in held[x]
        /\ \A u \in Threads : u \notin held[n] /\ u \notin shared[n]
    BY <1>0, <1>2, <2>0, TakeExclusive
  <2>2. ThreadTypes'
    BY <1>0, <1>3, <1>5, <2>1 DEF ThreadTypes
  <2>3. Exclusive(th)' = {n} /\ SharedBy(th)' = {c.store}
    BY <1>1, <1>3, <1>5, <1>11 DEF Exclusive, SharedBy
  <2>4. LockInv'
    BY <1>0, <1>5, <1>8, <1>9, <2>1, <2>3, LockStep
  <2> QED BY <1>3, <1>4, <1>5, <1>6, <1>7, <2>2, <2>4, QuietData, QuietStage, Assemble
<1> QED BY <1>10, <1>11

-----------------------------------------------------------------------------
(* Bodies that change one series. *)

Parts(th) ==
    /\ TypeOK /\ DataTypes /\ ThreadTypes /\ LockInv /\ StageInv
    /\ TopicInv /\ ContentInv /\ StageOK(th)

(* The parts of the invariant, for the proofs of the bodies.               *)
LEMMA InvParts ==
    ASSUME IndInv, NEW th \in Threads
    PROVE  Parts(th)
BY TypeParts DEF IndInv, StageInv, Parts

(* A writer or reader at work has a series of its store.                   *)
LEMMA FoundSeries ==
    ASSUME IndInv, NEW th \in Threads, pc[th] = "body", call[th].op \in Writers \cup Readers
    PROVE  /\ found[th] \in Seq(Series) /\ found[th] # <<>>
           /\ found[th][1] \in SeriesIn(call[th].store) /\ found[th][1] \in Series
           /\ \A i \in 1 .. Len(found[th]) : found[th][i] \in SeriesIn(call[th].store)
           /\ call[th].store \in Stores /\ call[th] \in Calls
<1>1. /\ found[th] \in Seq(Series) /\ found[th] # <<>> /\ TypeOK
      /\ \A i \in 1 .. Len(found[th]) : found[th][i] \in SeriesIn(call[th].store)
      /\ call[th].store \in Stores /\ call[th] \in Calls
  BY CallFacts DEF IndInv, StageInv, StageOK, TypeOK
<1>2. 1 \in 1 .. Len(found[th])
  BY <1>1
<1>3. found[th][1] \in SeriesIn(call[th].store)
  BY <1>1, <1>2
<1> QED BY <1>1, <1>3, SeriesInFacts

(* A step that changes the contents of one series, and adds no entry.      *)
LEMMA OneSeries ==
    ASSUME IndInv, NEW n \in Series, NEW p, SeriesOK(p), p.key = obj[n].key,
           Numbers(p.entries) \subseteq Numbers(obj[n].entries),
           obj' = [obj EXCEPT ![n] = p], UNCHANGED <<topics, nextId, created, pushed, calls>>,
           Busy' \subseteq Busy
    PROVE  DataTypes' /\ TopicInv' /\ ContentInv'
<1>0. TypeOK /\ DataTypes /\ TopicInv /\ ContentInv
  BY TypeParts DEF IndInv
<1>1. p \in Stored
  BY DEF SeriesOK
<1>2. obj \in [Series -> Stored]
  BY <1>0 DEF DataTypes
<1>3. DataTypes'
  BY <1>0, <1>1 DEF DataTypes
<1>4. \A x \in Series : obj'[x] = IF x = n THEN p ELSE obj[x]
  BY <1>2
<1>5. \A x \in Series : SeriesOK(obj'[x]) /\ Numbers(obj'[x].entries) \subseteq Numbers(obj[x].entries)
  BY <1>0, <1>4 DEF ContentInv
<1>6. \A x \in Series : obj'[x].key = obj[x].key
  BY <1>4
<1> QED BY <1>0, <1>3, <1>5, <1>6, ContentStep, TopicStep

(* The same when the call ends with the step.                              *)
LEMMA FinishOneSeries ==
    ASSUME IndInv, NEW th \in Threads, pc[th] = "body", Return(th), Release(th), view' = view,
           DataTypes', TopicInv', ContentInv', topics' = topics
    PROVE  IndInv'
<1>1. ThreadTypes' /\ LockInv' /\ StageOK(th)' /\ Others(th)
  BY FinishFacts
<1>2. StageInv'
  BY <1>1, QuietStage
<1> QED BY <1>1, <1>2, Assemble

(* A trimmed series has fewer numbers.                                     *)
LEMMA TrimmedNumbers ==
    ASSUME NEW o, SeriesOK(o), NEW p, NEW k \in 0 .. Len(o.entries), Trimmed(p, o, k)
    PROVE  SeriesOK(p) /\ p.key = o.key /\ Numbers(p.entries) \subseteq Numbers(o.entries)
<1> DEFINE s == o.entries
<1>1. s \in Seq(Entry) /\ p.entries = SubSeq(s, k + 1, Len(s)) /\ k \in 0 .. Len(s)
  BY DEF SeriesOK, Stored, Trimmed
<1> HIDE DEF s
<1>2. Numbers(SubSeq(s, k + 1, Len(s))) \subseteq Numbers(s)
  BY <1>1, NumbersOfSuffix
<1> QED BY <1>1, <1>2 DEF s, Trimmed

(* latestAt changes nothing but its locks.                                 *)
LEMMA ReadBodyStep ==
    ASSUME IndInv, NEW th \in Threads, pc[th] = "body", ReadBody(th), calls' = calls
    PROVE  IndInv'
<1>1. Return(th) /\ Release(th) /\ UNCHANGED data /\ view' = view
  BY DEF ReadBody
<1>2. Busy' \subseteq Busy
  BY <1>1, FinishFacts
<1>3. calls' \in 0 .. MaxCalls /\ topics' = topics
  BY <1>1 DEF IndInv, TypeOK, data
<1> QED BY <1>1, <1>2, <1>3, QuietData, FinishOneSeries

(* evictBefore and setRetentionBudget keep the invariant.                  *)
LEMMA TrimBodyStep ==
    ASSUME IndInv, NEW th \in Threads, pc[th] = "body", TrimBody(th), calls' = calls
    PROVE  IndInv'
<1> DEFINE c == call[th]
           n == found[th][1]
           o == obj[n]
           p == IF c.op = "evictBefore" THEN evictOlder(o, c.ts) ELSE [o EXCEPT !.budget = c.budget]
<1>1. /\ Return(th) /\ Release(th) /\ view' = view /\ UNCHANGED <<topics, nextId, created, pushed>>
      /\ c.op \in {"evictBefore", "setRetentionBudget"} /\ obj' = [obj EXCEPT ![n] = p]
  BY DEF TrimBody
<1>2. n \in Series /\ c \in Calls
  BY <1>1, FoundSeries DEF Writers
<1>3. SeriesOK(o)
  BY <1>2 DEF IndInv, ContentInv
<1>4. SeriesOK(p) /\ p.key = o.key /\ Numbers(p.entries) \subseteq Numbers(o.entries)
  <2> HIDE DEF o
  <2>1. CASE c.op = "evictBefore"
    <3>1. c.ts \in Int
      BY <1>2, CallFacts
    <3>2. PICK k \in 0 .. Len(o.entries) : Trimmed(evictOlder(o, c.ts), o, k)
      BY <1>3, <3>1, EvictOlderOK
    <3> QED BY <1>3, <2>1, <3>2, TrimmedNumbers
  <2>2. CASE c.op # "evictBefore"
    <3>1. o \in Stored /\ c.budget \in [window : Nat, bytes : Nat]
      BY <1>2, <1>3, CallFacts DEF SeriesOK
    <3>2. [o EXCEPT !.budget = c.budget] \in Stored
      BY <3>1 DEF Stored
    <3>3. p \in Stored /\ p.entries = o.entries /\ p.stamps = o.stamps /\ p.mem = o.mem /\ p.key = o.key
      BY <2>2, <3>1, <3>2 DEF Stored
    <3> HIDE DEF p
    <3> QED BY <1>3, <3>3 DEF SeriesOK
  <2> QED BY <2>1, <2>2
<1>5. Busy' \subseteq Busy
  BY <1>1, FinishFacts
<1> HIDE DEF p
<1>6. DataTypes' /\ TopicInv' /\ ContentInv'
  BY <1>1, <1>2, <1>4, <1>5, OneSeries
<1> QED BY <1>1, <1>6, FinishOneSeries

(* One series of evictAllBefore: the series mutex is released, the store   *)
(* mutex is kept for the next one.                                         *)
LEMMA EvictAllBodyStep ==
    ASSUME IndInv, NEW th \in Threads, pc[th] = "body", EvictAllBody(th), calls' = calls
    PROVE  IndInv'
<1> DEFINE c == call[th]
           n == found[th][1]
           o == obj[n]
           p == evictOlder(o, c.ts)
<1>0. Parts(th)
  BY InvParts
<1>1. /\ view' = view /\ UNCHANGED <<topics, nextId, created, pushed>>
      /\ c.op = "evictAllBefore" /\ obj' = [obj EXCEPT ![n] = p]
      /\ c.op \in Writers /\ c.op \notin Readers /\ c.op \notin Owners
  BY DEF EvictAllBody, Writers, Readers, Owners
<1>2. /\ n \in Series /\ c \in Calls /\ c.store \in Stores /\ found[th] \in Seq(Series) /\ found[th] # <<>>
      /\ \A i \in 1 .. Len(found[th]) : found[th][i] \in SeriesIn(c.store)
  BY <1>1, FoundSeries
<1>3. SeriesOK(o)
  BY <1>2 DEF IndInv, ContentInv
<1>4. SeriesOK(p) /\ p.key = o.key /\ Numbers(p.entries) \subseteq Numbers(o.entries)
  <2> HIDE DEF o
  <2>1. c.ts \in Int
    BY <1>2, CallFacts
  <2>2. PICK k \in 0 .. Len(o.entries) : Trimmed(evictOlder(o, c.ts), o, k)
    BY <1>3, <2>1, EvictOlderOK
  <2> QED BY <1>3, <2>2, TrimmedNumbers
<1> HIDE DEF p
<1>5. CASE Return(th) /\ Release(th)
  <2>1. Busy' \subseteq Busy
    BY <1>1, <1>5, FinishFacts
  <2>2. DataTypes' /\ TopicInv' /\ ContentInv'
    BY <1>1, <1>2, <1>4, <2>1, OneSeries
  <2> QED BY <1>1, <1>5, <2>2, FinishOneSeries
<1>6. CASE /\ Len(found[th]) # 1
           /\ found' = [found EXCEPT ![th] = Tail(@)]
           /\ pc' = [pc EXCEPT ![th] = "series"]
           /\ held' = [held EXCEPT ![n] = {}]
           /\ UNCHANGED <<shared, call>>
  <2>1. /\ Tail(found[th]) \in Seq(Series) /\ Tail(found[th]) # <<>>
        /\ \A i \in 1 .. Len(Tail(found[th])) : Tail(found[th])[i] \in SeriesIn(c.store)
    <3> DEFINE f == found[th]
               S == SeriesIn(c.store)
    <3>1. f \in Seq(Series) /\ f # <<>> /\ Len(f) # 1 /\ \A i \in 1 .. Len(f) : f[i] \in S
      BY <1>2, <1>6
    <3> HIDE DEF f, S
    <3>2. /\ Len(f) \in Nat /\ Len(f) > 1 /\ Tail(f) \in Seq(Series) /\ Len(Tail(f)) = Len(f) - 1
          /\ \A i \in 1 .. Len(f) - 1 : Tail(f)[i] = f[i + 1]
      <4>1. Len(f) \in Nat /\ Len(f) # 0
        BY <3>1
      <4>2. Len(f) > 1
        <5>1. \A l \in Nat : l # 0 /\ l # 1 => l > 1
          OBVIOUS
        <5>2. Len(f) # 1
          BY <3>1
        <5> QED BY <4>1, <5>1, <5>2
      <4>3. Tail(f) \in Seq(Series) /\ Len(Tail(f)) = Len(f) - 1
        BY <3>1
      <4>4. ASSUME NEW i \in 1 .. Len(f) - 1 PROVE Tail(f)[i] = f[i + 1]
        BY <3>1, <4>1
      <4> QED BY <4>1, <4>2, <4>3, <4>4
    <3>3. \A i \in 1 .. Len(f) - 1 : i + 1 \in 1 .. Len(f)
      BY <3>2
    <3>4. \A i \in 1 .. Len(Tail(f)) : Tail(f)[i] \in S
      BY <3>1, <3>2, <3>3
    <3>5. Tail(f) # <<>>
      <4>1. Len(Tail(f)) # 0
        <5>1. \A l \in Nat : l > 1 => l - 1 # 0
          OBVIOUS
        <5> QED BY <3>2, <5>1
      <4> QED BY <3>2, <4>1, EmptySeq
    <3> QED BY <3>2, <3>4, <3>5 DEF f, S
  <2>2. /\ pc'[th] = "series" /\ found'[th] = Tail(found[th]) /\ call' = call /\ Others(th)
    BY <1>0, <1>1, <1>6 DEF Parts, ThreadTypes, Others
  <2>3. Busy' \subseteq Busy
    BY <1>1, <2>2 DEF Busy, Registering, Others
  <2>4. ThreadTypes'
    BY <1>0, <1>1, <1>6, <2>1 DEF Parts, ThreadTypes
  <2>5. StageOK(th)'
    <3>1. SeriesIn(c.store)' = SeriesIn(c.store) /\ view[th] = 0
      BY <1>0, <1>1, <2>2 DEF SeriesIn, Parts, StageOK
    <3> QED BY <1>0, <1>1, <2>1, <2>2, <3>1 DEF Parts, StageOK
  <2>6. LockInv'
    <3>1. /\ Exclusive(th) = {n} /\ SharedBy(th) = {c.store}
          /\ Exclusive(th)' = {} /\ SharedBy(th)' = {c.store}
      <4>1. view[th] = 0
        BY <1>0 DEF Parts, StageOK
      <4> QED BY <1>1, <2>2, <4>1 DEF Exclusive, SharedBy
    <3>2. \A m \in Mutexes : (th \in held[m] <=> m = n) /\ (th \in shared[m] <=> m = c.store)
      BY <1>0, <3>1 DEF Parts, LockInv
    <3>3. n \in Mutexes
      BY <1>2, Disjoint
    <3>4. \A u \in Threads \ {th} : u \notin held[n]
      BY <1>0, <3>2, <3>3 DEF Parts, LockInv
    <3>5. \A m \in Mutexes : held'[m] = IF m = n THEN {} ELSE held[m]
      BY <1>0, <1>6 DEF Parts, ThreadTypes
    <3>6. shared' = shared
      BY <1>6
    <3>7. \A m \in Mutexes : \A u \in Threads \ {th} :
              (u \in held'[m] <=> u \in held[m]) /\ (u \in shared'[m] <=> u \in shared[m])
      BY <3>4, <3>5, <3>6
    <3>8. \A m \in Mutexes : th \notin held'[m] /\ (th \in shared'[m] <=> th \in shared[m])
      BY <3>2, <3>5, <3>6
    <3>9. LockInv
      BY <1>0 DEF Parts
    <3> QED BY <2>2, <3>1, <3>2, <3>7, <3>8, <3>9, LockStep
  <2>7. DataTypes' /\ TopicInv' /\ ContentInv'
    BY <1>1, <1>2, <1>4, <2>3, OneSeries
  <2> QED BY <1>1, <2>2, <2>4, <2>5, <2>6, <2>7, QuietStage, Assemble
<1>7. \/ Return(th) /\ Release(th)
      \/ /\ Len(found[th]) # 1
         /\ found' = [found EXCEPT ![th] = Tail(@)]
         /\ pc' = [pc EXCEPT ![th] = "series"]
         /\ held' = [held EXCEPT ![n] = {}]
         /\ UNCHANGED <<shared, call>>
  BY DEF EvictAllBody
<1> QED BY <1>5, <1>6, <1>7

(* entryTimestamps hands the series mutex to the view.                     *)
LEMMA ViewBodyStep ==
    ASSUME IndInv, NEW th \in Threads, pc[th] = "body", ViewBody(th), calls' = calls
    PROVE  IndInv'
<1> DEFINE c == call[th]
           n == found[th][1]
<1>0. Parts(th)
  BY InvParts
<1>1. /\ c.op = "entryTimestamps" /\ UNCHANGED data /\ held' = held
      /\ shared' = [shared EXCEPT ![c.store] = @ \ {th}] /\ view' = [view EXCEPT ![th] = n]
      /\ c.op \in Readers /\ c.op \notin Writers /\ c.op \notin Owners
      /\ pc' = [pc EXCEPT ![th] = "idle"]
      /\ found' = [found EXCEPT ![th] = <<>>]
      /\ call' = [call EXCEPT ![th] = NoCall]
  BY DEF ViewBody, Return, Writers, Readers, Owners
<1>2. n \in Series /\ n \in SeriesIn(c.store) /\ c \in Calls /\ c.store \in Stores /\ c.op \in Ops
  BY <1>1, FoundSeries, CallFacts
<1>3. pc'[th] = "idle" /\ view'[th] = n /\ Others(th)
  BY <1>0, <1>1 DEF Parts, ThreadTypes, Others
<1>4. Busy' \subseteq Busy
  BY <1>3 DEF Busy, Registering, Others
<1>5. n \in 0 .. MaxSeries /\ n # 0 /\ n # c.store /\ n \in Mutexes /\ c.store \in Mutexes
  BY <1>2, Disjoint, ObjectBoundAssumption DEF Series
<1>6. ThreadTypes'
  <2>1. <<>> \in Seq(Series)
    OBVIOUS
  <2>2. shared' \in [Mutexes -> SUBSET Threads] /\ held' \in [Mutexes -> SUBSET Threads]
    BY <1>0, <1>1 DEF Parts, ThreadTypes
  <2>3. pc' \in [Threads -> {"idle", "store", "second", "series", "body"}]
        /\ call' \in [Threads -> Calls]
    BY <1>0, <1>1, NoCallType DEF Parts, ThreadTypes
  <2>4. found' \in [Threads -> Seq(Series)]
    BY <1>0, <1>1, <2>1 DEF Parts, ThreadTypes
  <2>5. view' \in [Threads -> 0 .. MaxSeries]
    BY <1>0, <1>1, <1>5 DEF Parts, ThreadTypes
  <2> QED BY <2>2, <2>3, <2>4, <2>5 DEF ThreadTypes
<1>7. StageOK(th)'
  BY <1>1, <1>2, <1>3 DEF StageOK
<1>8. LockInv'
  <2>0. view[th] = 0 /\ LockInv
    BY <1>0 DEF Parts, StageOK
  <2>1. /\ Exclusive(th) = {} /\ SharedBy(th) = {c.store, n}
        /\ Exclusive(th)' = {} /\ SharedBy(th)' = {n}
    BY <1>1, <1>3, <1>5, <2>0 DEF Exclusive, SharedBy
  <2>2. \A m \in Mutexes : th \notin held[m] /\ (th \in shared[m] <=> m \in {c.store, n})
    BY <2>0, <2>1 DEF LockInv
  <2>3. \A m \in Mutexes : shared'[m] = IF m = c.store THEN shared[m] \ {th} ELSE shared[m]
    BY <1>0, <1>1 DEF Parts, ThreadTypes
  <2>4. \A m \in Mutexes : th \in shared'[m] <=> m = n
    BY <1>5, <2>2, <2>3
  <2>5. \A m \in Mutexes : \A u \in Threads \ {th} :
              (u \in held'[m] <=> u \in held[m]) /\ (u \in shared'[m] <=> u \in shared[m])
    BY <1>1, <2>3
  <2> QED BY <1>1, <1>3, <2>0, <2>1, <2>2, <2>4, <2>5, LockStep
<1>9. calls' \in 0 .. MaxCalls /\ topics' = topics
  BY <1>0, <1>1 DEF Parts, DataTypes, data
<1> QED BY <1>1, <1>3, <1>4, <1>6, <1>7, <1>8, <1>9, QuietData, QuietStage, Assemble

(* ~EntryTimestampsView releases the mutex its thread holds.               *)
LEMMA DropViewStep ==
    ASSUME IndInv, NEW th \in Threads, DropView(th)
    PROVE  IndInv'
<1> DEFINE n == view[th]
<1>0. Parts(th)
  BY InvParts
<1>1. /\ UNCHANGED data /\ held' = held /\ pc' = pc /\ call' = call /\ found' = found /\ calls' = calls
      /\ shared' = [shared EXCEPT ![n] = @ \ {th}] /\ view' = [view EXCEPT ![th] = 0]
      /\ pc[th] = "idle" /\ n # 0
  BY DEF DropView
<1>2. view'[th] = 0 /\ Others(th)
  BY <1>0, <1>1 DEF Parts, ThreadTypes, Others
<1>3. Busy' \subseteq Busy
  BY <1>1 DEF Busy, Registering
<1>4. n \in Mutexes
  BY <1>0, <1>1, Disjoint, ObjectBoundAssumption DEF Parts, ThreadTypes, Series
<1>5. ThreadTypes'
  <2>1. 0 \in 0 .. MaxSeries
    BY ObjectBoundAssumption
  <2>2. view' \in [Threads -> 0 .. MaxSeries]
    BY <1>0, <1>1, <2>1 DEF Parts, ThreadTypes
  <2>3. shared' \in [Mutexes -> SUBSET Threads]
    BY <1>0, <1>1 DEF Parts, ThreadTypes
  <2> QED BY <1>0, <1>1, <2>2, <2>3 DEF Parts, ThreadTypes
<1>6. StageOK(th)'
  BY <1>1, <1>2 DEF StageOK
<1>7. LockInv'
  <2>0. LockInv
    BY <1>0 DEF Parts
  <2>1. /\ Exclusive(th) = {} /\ SharedBy(th) = {n}
        /\ Exclusive(th)' = {} /\ SharedBy(th)' = {}
    BY <1>1, <1>2 DEF Exclusive, SharedBy
  <2>2. \A m \in Mutexes : th \notin held[m] /\ (th \in shared[m] <=> m = n)
    BY <2>0, <2>1 DEF LockInv
  <2>3. \A m \in Mutexes : shared'[m] = IF m = n THEN shared[m] \ {th} ELSE shared[m]
    BY <1>0, <1>1 DEF Parts, ThreadTypes
  <2>4. \A m \in Mutexes : th \notin shared'[m]
    BY <2>2, <2>3
  <2>5. \A m \in Mutexes : \A u \in Threads \ {th} :
              (u \in held'[m] <=> u \in held[m]) /\ (u \in shared'[m] <=> u \in shared[m])
    BY <1>1, <2>3
  <2> QED BY <1>1, <1>2, <2>0, <2>1, <2>2, <2>4, <2>5, LockStep
<1>8. calls' \in 0 .. MaxCalls /\ topics' = topics
  BY <1>0, <1>1 DEF Parts, DataTypes, data
<1> QED BY <1>1, <1>2, <1>3, <1>5, <1>6, <1>7, <1>8, QuietData, QuietStage, Assemble

(* A push keeps the invariant, refused or accepted; the number of the new  *)
(* entry is new to every series.                                           *)
LEMMA PushBodyStep ==
    ASSUME IndInv, NEW th \in Threads, pc[th] = "body", PushBody(th), calls' = calls
    PROVE  IndInv'
<1> DEFINE c == call[th]
           n == found[th][1]
           o == obj[n]
           size == IF c.op = "pushOwned" THEN c.size ELSE 0
           p == push(o, c.ts, size)
<1>0. Parts(th)
  BY InvParts
<1>1. /\ Return(th) /\ Release(th) /\ view' = view /\ UNCHANGED <<topics, nextId, created>>
      /\ c.op \in {"pushOwned", "pushLazy"}
      /\ \/ InOrder(o, c.ts) /\ obj' = [obj EXCEPT ![n] = p] /\ pushed' = pushed + 1
         \/ UNCHANGED <<obj, pushed>>
  BY DEF PushBody
<1>2. n \in Series /\ c \in Calls
  BY <1>1, FoundSeries DEF Writers
<1>3. SeriesOK(o) /\ c.ts \in Times /\ size \in Nat /\ pushed \in Nat
  BY <1>0, <1>2, CallFacts DEF Parts, ContentInv, DataTypes
<1>4. Busy' \subseteq Busy
  BY <1>1, FinishFacts
<1> HIDE DEF size
<1>5. CASE UNCHANGED <<obj, pushed>>
  <2>1. UNCHANGED data /\ calls' \in 0 .. MaxCalls /\ topics' = topics
    BY <1>0, <1>1, <1>5 DEF data, Parts, DataTypes
  <2> QED BY <1>1, <1>4, <2>1, QuietData, FinishOneSeries
<1>6. CASE InOrder(o, c.ts) /\ obj' = [obj EXCEPT ![n] = p] /\ pushed' = pushed + 1
  <2>1. \A x \in Numbers(o.entries) : x <= pushed
    BY <1>0, <1>2 DEF Parts, ContentInv
  <2>2. \A i \in 1 .. Len(o.entries) : o.entries[i].n <= pushed
    <3>1. DOMAIN o.entries = 1 .. Len(o.entries)
      BY <1>3 DEF SeriesOK, Stored
    <3> QED BY <2>1, <3>1 DEF Numbers
  <2>3. /\ SeriesOK(p) /\ p.key = o.key
        /\ Numbers(p.entries) \subseteq Numbers(o.entries) \cup {pushed + 1}
    <3> DEFINE s == o.entries
               e == [ts |-> c.ts, size |-> size, n |-> pushed + 1]
               t == Append(s, e)
    <3>0. s \in Seq(Entry) /\ e \in Entry /\ e.n = pushed + 1
      BY <1>3 DEF SeriesOK, Stored, Entry
    <3> HIDE DEF o
    <3>1. /\ SeriesOK(p) /\ p.key = o.key
          /\ \E k \in 0 .. Len(s) + 1 : p.entries = SubSeq(t, k + 1, Len(s) + 1)
      BY <1>3, <1>6, <2>2, PushOK
    <3>2. PICK k \in 0 .. Len(s) + 1 : p.entries = SubSeq(t, k + 1, Len(s) + 1)
      BY <3>1
    <3> HIDE DEF s, e, p
    <3>3. /\ t \in Seq(Entry) /\ Len(t) = Len(s) + 1 /\ Len(s) \in Nat /\ t[Len(s) + 1] = e
          /\ \A i \in 1 .. Len(s) : t[i] = s[i]
          /\ DOMAIN t = 1 .. Len(s) + 1 /\ DOMAIN s = 1 .. Len(s)
      BY <3>0
    <3>4. Numbers(t) \subseteq Numbers(s) \cup {pushed + 1}
      <4>1. ASSUME NEW i \in 1 .. Len(s) + 1 PROVE t[i].n \in Numbers(s) \cup {pushed + 1}
        <5>1. CASE i = Len(s) + 1
          BY <3>0, <3>3, <5>1
        <5>2. CASE i # Len(s) + 1
          <6>1. i \in 1 .. Len(s)
            BY <3>3, <5>2
          <6> QED BY <3>3, <6>1 DEF Numbers
        <5> QED BY <5>1, <5>2
      <4> HIDE DEF t
      <4> QED BY <3>3, <4>1 DEF Numbers
    <3> HIDE DEF t
    <3>5. Numbers(SubSeq(t, k + 1, Len(t))) \subseteq Numbers(t)
      BY <3>3, NumbersOfSuffix
    <3> QED BY <3>1, <3>2, <3>3, <3>4, <3>5 DEF s
  <2> HIDE DEF p
  <2>4. \A x \in Series : obj'[x] = IF x = n THEN p ELSE obj[x]
    BY <1>0, <1>6 DEF Parts, DataTypes
  <2>5. DataTypes'
    <3>1. p \in Stored
      BY <2>3 DEF SeriesOK
    <3>2. obj' \in [Series -> Stored]
      BY <1>0, <1>6, <3>1 DEF Parts, DataTypes
    <3>3. pushed' \in Nat
      BY <1>3, <1>6
    <3> QED BY <1>0, <1>1, <3>2, <3>3 DEF Parts, DataTypes
  <2>6. TopicInv'
    <3>1. \A x \in Series : obj'[x].key = obj[x].key
      BY <2>3, <2>4
    <3> QED BY <1>0, <1>1, <1>4, <3>1, TopicStep DEF Parts
  <2>7. \A x \in Series : Numbers(obj'[x].entries) \subseteq
                              Numbers(obj[x].entries) \cup (IF x = n THEN {pushed + 1} ELSE {})
    BY <2>3, <2>4
  <2>8. \A x \in Series : \A y \in Numbers(obj[x].entries) : y <= pushed /\ y \in Nat
    <3>1. ASSUME NEW x \in Series, NEW y \in Numbers(obj[x].entries) PROVE y \in Nat
      <4>1. obj[x].entries \in Seq(Entry)
        BY <1>0 DEF Parts, DataTypes, Stored
      <4>2. PICK i \in DOMAIN obj[x].entries : y = obj[x].entries[i].n
        BY DEF Numbers
      <4> DEFINE s == obj[x].entries
      <4>3. s \in Seq(Entry) /\ i \in DOMAIN s /\ y = s[i].n
        BY <4>1, <4>2
      <4> HIDE DEF s
      <4>4. s[i] \in Entry
        BY <4>3
      <4> QED BY <4>3, <4>4 DEF Entry
    <3> QED BY <1>0, <3>1 DEF Parts, ContentInv
  <2>9. ContentInv'
    <3>1. \A x \in Series : SeriesOK(obj'[x])
      BY <1>0, <2>3, <2>4 DEF Parts, ContentInv
    <3>2. ASSUME NEW x \in Series, NEW y \in Numbers(obj'[x].entries) PROVE y <= pushed'
      BY <1>3, <1>6, <2>7, <2>8
    <3>3. ASSUME NEW x \in Series, NEW y \in Series, x # y,
                 NEW z \in Numbers(obj'[x].entries), z \in Numbers(obj'[y].entries)
          PROVE  FALSE
      <4>1. z = pushed + 1 => z \notin Numbers(obj[x].entries) /\ z \notin Numbers(obj[y].entries)
        BY <1>3, <2>8
      <4>2. ~(z \in Numbers(obj[x].entries) /\ z \in Numbers(obj[y].entries))
        BY <1>0, <3>3 DEF Parts, ContentInv
      <4> QED BY <2>7, <3>3, <4>1, <4>2
    <3> QED BY <3>1, <3>2, <3>3 DEF ContentInv
  <2> QED BY <1>1, <2>5, <2>6, <2>9, FinishOneSeries
<1> QED BY <1>1, <1>5, <1>6

(* A new series is consistent and empty.                                   *)
LEMMA NewSeriesOK ==
    ASSUME NEW key \in Keys
    PROVE  /\ SeriesOK(NewSeries(key)) /\ NewSeries(key).key = key
           /\ Numbers(NewSeries(key).entries) = {}
<1> DEFINE p == NewSeries(key)
<1>1. p \in Stored
  <2>1. NoBudget \in [window : Nat, bytes : Nat] /\ <<>> \in Seq(Entry) /\ <<>> \in Seq(Times)
    BY DEF NoBudget
  <2> QED BY <2>1 DEF NewSeries, Stored
<1>2. p.entries = <<>> /\ p.stamps = <<>> /\ p.mem = 0 /\ p.key = key
  BY DEF NewSeries
<1> HIDE DEF p
<1>3. SeriesOK(p) /\ Numbers(p.entries) = {}
  BY <1>1, <1>2, BytesEmpty DEF SeriesOK, Numbers
<1> QED BY <1>2, <1>3 DEF p

(* registerTopic keeps the invariant: the new series is in no other list   *)
(* and its key is new to the store.                                        *)
LEMMA RegisterBodyStep ==
    ASSUME IndInv, NEW th \in Threads, pc[th] = "body", RegisterBody(th), calls' = calls
    PROVE  IndInv'
<1> DEFINE c == call[th]
           d == c.store
           new == [id |-> nextId[d], series |-> created + 1]
           p == NewSeries(c.key)
<1>0. Parts(th) /\ TypeOK
  BY InvParts DEF Parts
<1>1. /\ Return(th) /\ Release(th) /\ view' = view /\ pushed' = pushed
      /\ c.op = "registerTopic"
      /\ \/ UNCHANGED <<topics, nextId, obj, created>>
         \/ /\ ~Registered(d, c.key)
            /\ topics' = [topics EXCEPT ![d] = Append(@, new)]
            /\ nextId' = [nextId EXCEPT ![d] = @ + 1]
            /\ obj' = [obj EXCEPT ![created + 1] = p]
            /\ created' = created + 1
  BY DEF RegisterBody
<1>2. c \in Calls /\ d \in Stores /\ c.key \in Keys
  BY <1>0, CallFacts DEF Parts, ThreadTypes
<1>3. /\ ThreadTypes' /\ LockInv' /\ StageOK(th)' /\ Others(th)
      /\ Busy' \subseteq Busy \ {th} /\ Busy' \subseteq Busy
  BY <1>1, FinishFacts
<1>4. CASE UNCHANGED <<topics, nextId, obj, created>>
  <2>1. UNCHANGED data /\ calls' \in 0 .. MaxCalls /\ topics' = topics
    BY <1>0, <1>1, <1>4 DEF data, Parts, DataTypes
  <2> QED BY <1>1, <1>3, <2>1, QuietData, FinishOneSeries
<1>5. CASE /\ ~Registered(d, c.key)
           /\ topics' = [topics EXCEPT ![d] = Append(@, new)]
           /\ nextId' = [nextId EXCEPT ![d] = @ + 1]
           /\ obj' = [obj EXCEPT ![created + 1] = p]
           /\ created' = created + 1
  <2>1. /\ created \in Nat /\ created + 1 + Cardinality(Busy') <= MaxSeries /\ Cardinality(Busy') \in Nat
    <3>1. th \in Busy
      BY <1>1 DEF Busy, Registering
    <3>2. IsFiniteSet(Busy)
      BY FS_Subset, ObjectBoundAssumption DEF Busy
    <3>3. /\ IsFiniteSet(Busy \ {th}) /\ Cardinality(Busy \ {th}) = Cardinality(Busy) - 1
          /\ Cardinality(Busy) \in Nat
      BY <3>1, <3>2, FS_RemoveElement, FS_CardinalityType
    <3>4. IsFiniteSet(Busy') /\ Cardinality(Busy') <= Cardinality(Busy \ {th}) /\ Cardinality(Busy') \in Nat
      BY <1>3, <3>3, FS_Subset, FS_CardinalityType
    <3>5. created + Cardinality(Busy) <= MaxSeries /\ created \in Nat /\ MaxSeries \in Nat
      BY <1>0, ObjectBoundAssumption DEF Parts, TopicInv, Busy, DataTypes
    <3> HIDE DEF Busy
    <3> QED BY <3>3, <3>4, <3>5
  <2>2. created + 1 \in Series /\ created + 1 \in 0 .. MaxSeries
    BY <2>1, ObjectBoundAssumption DEF Series
  <2>3. SeriesOK(p) /\ p.key = c.key /\ Numbers(p.entries) = {}
    BY <1>2, NewSeriesOK
  <2> HIDE DEF p
  <2>4. /\ topics'[d] \in Seq([id : Nat, series : Series])
        /\ Len(topics[d]) \in Nat /\ Len(topics'[d]) = Len(topics[d]) + 1
        /\ \A i \in 1 .. Len(topics[d]) : topics'[d][i] = topics[d][i]
        /\ topics'[d][Len(topics[d]) + 1].series = created + 1
        /\ \A s \in Stores : s # d => topics'[s] = topics[s]
        /\ topics' \in [Stores -> Seq([id : Nat, series : Series])]
    <3> DEFINE t == topics[d]
               R == [id : Nat, series : Series]
    <3>1. t \in Seq(R) /\ topics \in [Stores -> Seq(R)] /\ nextId[d] \in Nat
      BY <1>0, <1>2 DEF Parts, DataTypes
    <3>2. new \in R /\ new.series = created + 1
      BY <2>2, <3>1
    <3>3. topics' = [topics EXCEPT ![d] = Append(t, new)]
      BY <1>5
    <3> HIDE DEF t, R, new
    <3>4. /\ Append(t, new) \in Seq(R) /\ Len(t) \in Nat /\ Len(Append(t, new)) = Len(t) + 1
          /\ \A i \in 1 .. Len(t) : Append(t, new)[i] = t[i]
          /\ Append(t, new)[Len(t) + 1] = new
      BY <3>1, <3>2
    <3>5. topics'[d] = Append(t, new) /\ \A s \in Stores : s # d => topics'[s] = topics[s]
      BY <1>2, <3>1, <3>3
    <3>6. topics' \in [Stores -> Seq(R)]
      BY <1>2, <3>1, <3>3, <3>4
    <3> QED BY <3>2, <3>4, <3>5, <3>6 DEF t, R
  <2>5. DataTypes'
    <3>1. p \in Stored
      BY <2>3 DEF SeriesOK
    <3>2. obj' \in [Series -> Stored]
      BY <1>0, <1>5, <3>1 DEF Parts, DataTypes
    <3>3. nextId' \in [Stores -> Nat \ {0}]
      BY <1>0, <1>2, <1>5 DEF Parts, DataTypes
    <3> QED BY <1>0, <1>1, <1>5, <2>2, <2>4, <3>2, <3>3 DEF Parts, DataTypes
  <2>6. TypeOK'
    BY <1>3, <2>5, TypePartsNext
  <2>7. \A x \in Series : obj'[x] = IF x = created + 1 THEN p ELSE obj[x]
    BY <1>0, <1>5 DEF Parts, DataTypes
  <2>8. ContentInv'
    <3>1. ASSUME NEW x \in Series
          PROVE SeriesOK(obj'[x]) /\ Numbers(obj'[x].entries) \subseteq Numbers(obj[x].entries)
      BY <1>0, <2>3, <2>7 DEF Parts, ContentInv
    <3> QED BY <1>0, <1>1, <2>5, <3>1, ContentStep DEF Parts
  <2>9. ASSUME NEW s \in Stores
        PROVE  /\ SeriesIn(s) \subseteq SeriesIn(s)'
               /\ SeriesIn(s)' \subseteq SeriesIn(s) \cup (IF s = d THEN {created + 1} ELSE {})
    <3>0. topics[s] \in Seq([id : Nat, series : Series]) /\ topics'[s] \in Seq([id : Nat, series : Series])
      BY <1>0, <2>4 DEF Parts, DataTypes
    <3>1. DOMAIN topics[s] = 1 .. Len(topics[s]) /\ DOMAIN topics'[s] = 1 .. Len(topics'[s])
      BY <3>0
    <3>2. CASE s # d
      BY <2>4, <3>2 DEF SeriesIn
    <3>3. CASE s = d
      <4>1. /\ Len(topics[s]) \in Nat /\ Len(topics'[s]) = Len(topics[s]) + 1
            /\ \A i \in 1 .. Len(topics[s]) : topics'[s][i] = topics[s][i]
            /\ topics'[s][Len(topics[s]) + 1].series = created + 1
        BY <2>4, <3>3
      <4>2. \A i \in 1 .. Len(topics[s]) : i \in 1 .. Len(topics'[s])
        BY <4>1
      <4>3. \A i \in 1 .. Len(topics'[s]) : i \in 1 .. Len(topics[s]) \/ i = Len(topics[s]) + 1
        BY <4>1
      <4>4. SeriesIn(s) \subseteq SeriesIn(s)'
        BY <3>1, <4>1, <4>2 DEF SeriesIn
      <4>5. SeriesIn(s)' \subseteq SeriesIn(s) \cup {created + 1}
        BY <3>1, <4>1, <4>3 DEF SeriesIn
      <4> QED BY <3>3, <4>4, <4>5
    <3> QED BY <3>2, <3>3
  <2>10. \A s \in Stores : \A n \in SeriesIn(s) : n <= created /\ n \in Series /\ n \in Nat
    BY <1>0, SeriesInFacts DEF Parts, TopicInv, Series
  <2>11. TopicInv'
    <3>1. ASSUME NEW s \in Stores, NEW e \in Stores, NEW i \in 1 .. Len(topics'[s]), NEW j \in 1 .. Len(topics'[e]),
                 topics'[s][i].series = topics'[e][j].series
          PROVE  s = e /\ i = j
      <4>1. ASSUME NEW f \in Stores, NEW l \in 1 .. Len(topics'[f])
            PROVE  \/ /\ l \in 1 .. Len(topics[f]) /\ topics'[f][l].series = topics[f][l].series
                      /\ topics[f][l].series # created + 1
                   \/ f = d /\ l = Len(topics[d]) + 1 /\ topics'[f][l].series = created + 1
        <5>1. l \in 1 .. Len(topics[f]) => topics[f][l].series # created + 1
          <6>1. l \in 1 .. Len(topics[f]) => topics[f][l].series <= created /\ topics[f][l].series \in Nat
            BY <1>0, <2>10, SeriesInFacts
          <6> QED BY <2>1, <6>1
        <5>2. CASE f # d
          BY <2>4, <5>1, <5>2
        <5>3. CASE f = d
          <6>1. l \in 1 .. Len(topics[f]) \/ l = Len(topics[f]) + 1
            <7>1. \A k \in Nat : \A x \in 1 .. k + 1 : x \in 1 .. k \/ x = k + 1
              OBVIOUS
            <7>2. Len(topics[f]) \in Nat /\ l \in 1 .. Len(topics[f]) + 1
              BY <2>4, <5>3
            <7> QED BY <7>1, <7>2
          <6> QED BY <2>4, <5>1, <5>3, <6>1
        <5> QED BY <5>2, <5>3
      <4>2. \/ /\ i \in 1 .. Len(topics[s]) /\ topics'[s][i].series = topics[s][i].series
               /\ topics[s][i].series # created + 1
            \/ s = d /\ i = Len(topics[d]) + 1 /\ topics'[s][i].series = created + 1
        BY <4>1
      <4>3. \/ /\ j \in 1 .. Len(topics[e]) /\ topics'[e][j].series = topics[e][j].series
               /\ topics[e][j].series # created + 1
            \/ e = d /\ j = Len(topics[d]) + 1 /\ topics'[e][j].series = created + 1
        BY <4>1
      <4>4. i \in 1 .. Len(topics[s]) /\ j \in 1 .. Len(topics[e]) /\ topics[s][i].series = topics[e][j].series
              => s = e /\ i = j
        BY <1>0 DEF Parts, TopicInv
      <4> QED BY <3>1, <4>2, <4>3, <4>4
    <3>2. ASSUME NEW s \in Stores, NEW n \in SeriesIn(s)' PROVE n <= created'
      BY <1>5, <2>1, <2>9, <2>10
    <3>3. ASSUME NEW s \in Stores, NEW n \in SeriesIn(s)', NEW m \in SeriesIn(s)', obj'[n].key = obj'[m].key
          PROVE  n = m
      <4>1. /\ n \in SeriesIn(s) \/ (s = d /\ n = created + 1)
            /\ m \in SeriesIn(s) \/ (s = d /\ m = created + 1)
        BY <2>9
      <4>2. ASSUME NEW x \in SeriesIn(s) PROVE obj'[x] = obj[x]
        <5>1. x \in Series /\ x # created + 1
          BY <2>1, <2>10
        <5> QED BY <2>7, <5>1
      <4>3. s = d => \A x \in SeriesIn(s) : obj[x].key # c.key
        BY <1>5 DEF Registered
      <4>4. obj'[created + 1].key = c.key
        BY <2>2, <2>3, <2>7
      <4>5. n \in SeriesIn(s) /\ m \in SeriesIn(s) /\ obj[n].key = obj[m].key => n = m
        BY <1>0 DEF Parts, TopicInv
      <4> QED BY <3>3, <4>1, <4>2, <4>3, <4>4, <4>5
    <3>4. created' + Cardinality(Busy') <= MaxSeries
      BY <1>5, <2>1
    <3> QED BY <3>1, <3>2, <3>3, <3>4 DEF TopicInv, Busy
  <2>12. StageInv'
    <3>1. ASSUME NEW u \in Threads \ {th} PROVE SeriesIn(call[u].store) \subseteq SeriesIn(call[u].store)'
      <4>1. call'[u] = call[u] /\ call[u].store \in Stores
        BY <1>0, <1>3, CallFacts DEF Parts, ThreadTypes, Others
      <4>2. PICK s \in Stores : s = call[u].store
        BY <4>1
      <4>3. SeriesIn(call[u].store)' = SeriesIn(s)'
        BY <4>1, <4>2 DEF SeriesIn
      <4> QED BY <2>9, <4>2, <4>3
    <3> QED BY <1>0, <1>3, <3>1, StageStep DEF Parts
  <2> QED BY <1>3, <2>5, <2>8, <2>11, <2>12, Assemble
<1> QED BY <1>1, <1>4, <1>5

-----------------------------------------------------------------------------
(* Removing topics, and flushing. *)

(* q keeps the topics of t, each once, except those of the series gone.    *)
Thinned(q, t, gone) ==
    \E g \in [1 .. Len(q) -> 1 .. Len(t)] :
        /\ \A i \in 1 .. Len(q) : q[i] = t[g[i]] /\ q[i].series \notin gone
        /\ \A i, j \in 1 .. Len(q) : g[i] = g[j] => i = j

(* A topic list without its k-th topic.                                    *)
LEMMA ErasedFacts ==
    ASSUME NEW R, NEW t \in Seq(R), NEW k \in 1 .. Len(t),
           \A i, j \in 1 .. Len(t) : t[i].series = t[j].series => i = j,
           NEW q, q = SubSeq(t, 1, k - 1) \o SubSeq(t, k + 1, Len(t))
    PROVE  q \in Seq(R) /\ Thinned(q, t, {t[k].series})
<1> DEFINE l == Len(t)
           a == SubSeq(t, 1, k - 1)
           b == SubSeq(t, k + 1, Len(t))
<1>1. l \in Nat /\ k \in 1 .. l /\ k - 1 \in 0 .. l /\ k \in 0 .. l /\ q = a \o b
  OBVIOUS
<1>2. a \in Seq(R) /\ Len(a) = k - 1 /\ \A i \in 1 .. k - 1 : a[i] = t[i]
  <2> DEFINE h == k - 1
  <2>1. h \in 0 .. Len(t)
    BY <1>1
  <2> HIDE DEF h
  <2>2. /\ SubSeq(t, 1, h) \in Seq(R) /\ Len(SubSeq(t, 1, h)) = h
        /\ \A i \in 1 .. h : SubSeq(t, 1, h)[i] = t[i]
    BY <2>1, SuffixFacts
  <2> QED BY <2>2 DEF h
<1>3. b \in Seq(R) /\ Len(b) = l - k /\ \A i \in 1 .. l - k : b[i] = t[k + i]
  <2>1. k \in 0 .. Len(t)
    BY <1>1
  <2> QED BY <2>1, SuffixFacts
<1> HIDE DEF a, b, l
<1>4. /\ q \in Seq(R) /\ Len(q) = l - 1
      /\ \A i \in 1 .. k - 1 : q[i] = a[i]
      /\ \A i \in 1 .. l - k : q[k - 1 + i] = b[i]
  <2>0. a \in Seq(R) /\ b \in Seq(R)
    BY <1>2, <1>3
  <2>1. a \o b \in Seq(R) /\ Len(a \o b) = Len(a) + Len(b)
    BY <2>0, ConcatFacts
  <2>2. \A i \in 1 .. Len(a) : (a \o b)[i] = a[i]
    BY <2>0, ConcatFacts
  <2>3. \A i \in 1 .. Len(b) : (a \o b)[Len(a) + i] = b[i]
    BY <2>0, ConcatFacts
  <2>4. Len(a) = k - 1 /\ Len(b) = l - k
    BY <1>2, <1>3
  <2>5. Len(q) = l - 1
    <3>1. Len(q) = (k - 1) + (l - k)
      BY <1>1, <2>1, <2>4, Zenon
    <3>2. \A x, y \in Int : (x - 1) + (y - x) = y - 1
      OBVIOUS
    <3>3. k \in Int /\ l \in Int
      BY <1>1
    <3> QED BY <3>1, <3>2, <3>3, Zenon
  <2>6. \A i \in 1 .. k - 1 : q[i] = a[i]
    BY <1>1, <2>2, <2>4
  <2>7. \A i \in 1 .. l - k : q[k - 1 + i] = b[i]
    BY <1>1, <2>3, <2>4
  <2> QED BY <1>1, <2>1, <2>5, <2>6, <2>7
<1> DEFINE g == [i \in 1 .. Len(q) |-> IF i < k THEN i ELSE i + 1]
<1>5. ASSUME NEW i \in 1 .. Len(q) PROVE g[i] \in 1 .. l /\ g[i] # k
  <2>1. g[i] = IF i < k THEN i ELSE i + 1
    OBVIOUS
  <2>2. i \in 1 .. l - 1 /\ k \in 1 .. l /\ l \in Nat
    BY <1>1, <1>4
  <2> HIDE DEF g, l
  <2> QED BY <2>1, <2>2
<1>6. ASSUME NEW i \in 1 .. Len(q) PROVE q[i] = t[g[i]]
  <2>1. CASE i < k
    <3>1. i \in 1 .. k - 1 /\ g[i] = i
      BY <1>1, <2>1
    <3> QED BY <1>2, <1>4, <3>1
  <2>2. CASE ~(i < k)
    <3>1. i - k + 1 \in 1 .. l - k /\ k - 1 + (i - k + 1) = i /\ k + (i - k + 1) = i + 1 /\ g[i] = i + 1
      <4>1. i \in 1 .. l - 1 /\ Len(q) = l - 1
        BY <1>4
      <4>2. g[i] = i + 1
        BY <2>2
      <4> HIDE DEF g
      <4> QED BY <1>1, <2>2, <4>1, <4>2
    <3>2. q[i] = b[i - k + 1]
      BY <1>4, <3>1
    <3>3. b[i - k + 1] = t[i + 1]
      BY <1>3, <3>1
    <3> QED BY <3>1, <3>2, <3>3
  <2> QED BY <2>1, <2>2
<1>7. ASSUME NEW i \in 1 .. Len(q), NEW j \in 1 .. Len(q), g[i] = g[j] PROVE i = j
  <2>1. /\ g[i] = IF i < k THEN i ELSE i + 1
        /\ g[j] = IF j < k THEN j ELSE j + 1
    OBVIOUS
  <2>2. i \in Nat /\ j \in Nat /\ k \in Nat
    BY <1>1, <1>4
  <2>3. (IF i < k THEN i ELSE i + 1) = IF j < k THEN j ELSE j + 1
    BY <1>7, <2>1, Zenon
  <2>4. \A x, y, z \in Nat :
           (IF x < z THEN x ELSE x + 1) = (IF y < z THEN y ELSE y + 1) => x = y
    OBVIOUS
  <2> QED BY <2>2, <2>3, <2>4, Zenon
<1>8. g \in [1 .. Len(q) -> 1 .. Len(t)]
  <2>1. g = [i \in 1 .. Len(q) |-> g[i]] /\ \A i \in 1 .. Len(q) : g[i] \in 1 .. Len(t)
    BY <1>5 DEF l
  <2> HIDE DEF g
  <2> QED BY <2>1
<1> HIDE DEF g
<1>9. ASSUME NEW i \in 1 .. Len(q) PROVE q[i].series \notin {t[k].series}
  <2>1. g[i] \in 1 .. Len(t) /\ g[i] # k /\ q[i] = t[g[i]]
    BY <1>5, <1>6 DEF l
  <2>2. t[g[i]].series # t[k].series
    BY <2>1
  <2> QED BY <2>1, <2>2
<1> QED BY <1>4, <1>6, <1>7, <1>8, <1>9 DEF Thinned

(* What removeTopic and clear leave of the list of a store, and the series *)
(* they destroy.                                                           *)
Left(s, id, all) == IF all THEN <<>> ELSE Erased(s, id)
Gone(s, id, all) == IF all THEN SeriesIn(s) ELSE Range(findSeries(s, id))

(* What removeTopic and clear leave of the topic list, and which series    *)
(* they destroy.                                                           *)
LEMMA LeftFacts ==
    ASSUME IndInv, NEW s \in Stores, NEW id, NEW all \in BOOLEAN
    PROVE  /\ Left(s, id, all) \in Seq([id : Nat, series : Series])
           /\ Thinned(Left(s, id, all), topics[s], Gone(s, id, all))
           /\ Gone(s, id, all) \subseteq SeriesIn(s)
<1> DEFINE R == [id : Nat, series : Series]
           t == topics[s]
<1>0. TypeOK /\ TopicInv
  BY DEF IndInv
<1>1. t \in Seq(R) /\ Len(t) \in Nat
  <2>1. t \in Seq(R)
    BY <1>0 DEF TypeOK
  <2> QED BY <2>1
<1>2. CASE all
  <2> DEFINE q == <<>>
             g == [i \in 1 .. Len(q) |-> 0]
  <2>1. q \in Seq(R) /\ Len(q) = 0
    OBVIOUS
  <2>2. g \in [1 .. Len(q) -> 1 .. Len(t)]
    BY <2>1
  <2>3. \A i \in 1 .. Len(q) : FALSE
    BY <2>1
  <2>4. Left(s, id, all) = q /\ Gone(s, id, all) = SeriesIn(s)
    BY <1>2 DEF Left, Gone
  <2> HIDE DEF q, g, t, R
  <2>5. Thinned(q, t, SeriesIn(s))
    BY <2>2, <2>3 DEF Thinned
  <2> QED BY <2>1, <2>4, <2>5 DEF t, R
<1>3. CASE ~all /\ IdAt(s, id) = {}
  <2> DEFINE g == [i \in 1 .. Len(t) |-> i]
  <2>1. Erased(s, id) = t /\ findSeries(s, id) = <<>>
    BY <1>3 DEF Erased, findSeries
  <2>2. Range(<<>>) = {}
    BY DEF Range
  <2>3. Left(s, id, all) = t /\ Gone(s, id, all) = {}
    BY <1>3, <2>1, <2>2 DEF Left, Gone
  <2>4. g \in [1 .. Len(t) -> 1 .. Len(t)] /\ \A i \in 1 .. Len(t) : g[i] = i
    OBVIOUS
  <2> HIDE DEF t, g, R
  <2>5. Thinned(t, t, {})
    BY <2>4 DEF Thinned
  <2> QED BY <1>1, <2>3, <2>5 DEF t, R
<1>4. CASE ~all /\ IdAt(s, id) # {}
  <2> DEFINE k == Min(IdAt(s, id))
             q == SubSeq(t, 1, k - 1) \o SubSeq(t, k + 1, Len(t))
  <2>1. /\ k \in 1 .. Len(t) /\ findSeries(s, id) = <<t[k].series>>
        /\ Range(findSeries(s, id)) \subseteq SeriesIn(s)
    BY <1>0, <1>4, FindFacts
  <2>2. Erased(s, id) = q
    BY <1>4 DEF Erased
  <2>3. Range(findSeries(s, id)) = {t[k].series}
    <3> DEFINE n == t[k].series
    <3> HIDE DEF n
    <3>1. DOMAIN <<n>> = {1} /\ <<n>>[1] = n
      OBVIOUS
    <3>2. Range(<<n>>) = {n}
      BY <3>1 DEF Range
    <3> QED BY <2>1, <3>2 DEF n
  <2>4. Left(s, id, all) = q /\ Gone(s, id, all) = {t[k].series}
    BY <1>4, <2>2, <2>3 DEF Left, Gone
  <2>5. \A i, j \in 1 .. Len(t) : t[i].series = t[j].series => i = j
    BY <1>0 DEF TopicInv
  <2> HIDE DEF k, t, R
  <2>6. q \in Seq(R) /\ Thinned(q, t, {t[k].series})
    BY <1>1, <2>1, <2>5, ErasedFacts
  <2> HIDE DEF q
  <2> QED BY <2>1, <2>3, <2>4, <2>6 DEF t, R
<1> QED BY <1>2, <1>3, <1>4

(* removeTopic and clear keep the invariant: the series they destroy are   *)
(* pointed to by no call, for every other call in the store would hold its *)
(* mutex shared.                                                           *)
LEMMA RemoveBodyStep ==
    ASSUME IndInv, NEW th \in Threads, pc[th] = "body", RemoveBody(th), calls' = calls
    PROVE  IndInv'
<1> DEFINE c == call[th]
<1>0. Parts(th) /\ TypeOK
  BY InvParts DEF Parts
<1>1. c \in Calls /\ c.store \in Stores /\ c.op \in {"removeTopic", "clear"}
  BY <1>0, CallFacts DEF Parts, ThreadTypes, RemoveBody
<1>2. PICK d \in Stores : d = c.store
  BY <1>1
<1> DEFINE all == c.op = "clear"
           q == Left(d, c.id, all)
           gone == Gone(d, c.id, all)
           R == [id : Nat, series : Series]
           new == NewSeries(SomeOf(Keys))
<1>3. /\ Return(th) /\ Release(th) /\ view' = view /\ pushed' = pushed /\ created' = created
      /\ topics' = [topics EXCEPT ![d] = q]
      /\ nextId' = [nextId EXCEPT ![d] = IF all THEN 1 ELSE @]
      /\ obj' = [n \in Series |-> IF n \in gone THEN new ELSE obj[n]]
  BY <1>2 DEF RemoveBody, Left, Gone
<1>4. /\ ThreadTypes' /\ LockInv' /\ StageOK(th)' /\ Others(th) /\ Busy' \subseteq Busy
  BY <1>3, FinishFacts
<1>5. q \in Seq(R) /\ Thinned(q, topics[d], gone)
  BY LeftFacts
<1>6. gone \subseteq SeriesIn(d)
  BY LeftFacts
<1>7. SeriesOK(new) /\ Numbers(new.entries) = {} /\ new \in Stored
  <2>1. SomeOf(Keys) \in Keys
    BY <1>1, CallFacts DEF SomeOf
  <2> QED BY <2>1, NewSeriesOK DEF SeriesOK
<1> HIDE DEF q, gone, new, all, R
<1>8. topics'[d] = q /\ \A s \in Stores : s # d => topics'[s] = topics[s]
  BY <1>0, <1>3 DEF TypeOK
<1>9. \A n \in Series : obj'[n] = IF n \in gone THEN new ELSE obj[n]
  BY <1>3
<1>10. DataTypes'
  <2>1. topics' \in [Stores -> Seq(R)]
    BY <1>0, <1>3, <1>5 DEF TypeOK, R
  <2>2. nextId' \in [Stores -> Nat \ {0}]
    BY <1>0, <1>3 DEF TypeOK
  <2>3. obj' \in [Series -> Stored]
    BY <1>0, <1>3, <1>7 DEF Parts, DataTypes
  <2> QED BY <1>0, <1>3, <2>1, <2>2, <2>3 DEF Parts, DataTypes, R
<1>11. ContentInv'
  <2>1. ASSUME NEW x \in Series
        PROVE  SeriesOK(obj'[x]) /\ Numbers(obj'[x].entries) \subseteq Numbers(obj[x].entries)
    BY <1>0, <1>7, <1>9 DEF Parts, ContentInv
  <2> QED BY <1>0, <1>3, <1>10, <2>1, ContentStep DEF Parts
<1>12. PICK g \in [1 .. Len(q) -> 1 .. Len(topics[d])] :
            /\ \A i \in 1 .. Len(q) : q[i] = topics[d][g[i]] /\ q[i].series \notin gone
            /\ \A i, j \in 1 .. Len(q) : g[i] = g[j] => i = j
  BY <1>5 DEF Thinned
<1>13. ASSUME NEW s \in Stores, NEW i \in 1 .. Len(topics'[s])
       PROVE  \E j \in 1 .. Len(topics[s]) : topics'[s][i] = topics[s][j] /\ topics'[s][i].series \notin gone
  <2>1. CASE s = d
    BY <1>8, <1>12, <2>1
  <2>2. CASE s # d
    <3>1. topics'[s] = topics[s] /\ i \in 1 .. Len(topics[s])
      BY <1>8, <2>2
    <3>2. topics[s][i].series \notin SeriesIn(d)
      <4>1. topics[s][i].series \in SeriesIn(s)
        BY <1>0, <3>1, SeriesInFacts
      <4> QED BY <2>2, <4>1, SeriesHome
    <3> QED BY <1>6, <3>1, <3>2
  <2> QED BY <2>1, <2>2
<1>14. ASSUME NEW s \in Stores, NEW n \in SeriesIn(s)'
       PROVE  n \in SeriesIn(s) /\ n \notin gone /\ n \in Series /\ obj'[n] = obj[n]
  <2>1. topics'[s] \in Seq(R) /\ DOMAIN topics'[s] = 1 .. Len(topics'[s])
    <3>1. topics'[s] \in Seq(R)
      BY <1>10 DEF DataTypes, R
    <3> QED BY <3>1
  <2>2. PICK i \in 1 .. Len(topics'[s]) : n = topics'[s][i].series
    BY <2>1 DEF SeriesIn
  <2>3. PICK j \in 1 .. Len(topics[s]) : topics'[s][i] = topics[s][j] /\ topics'[s][i].series \notin gone
    BY <1>13
  <2>4. n \in SeriesIn(s) /\ n \in Series
    BY <1>0, <2>2, <2>3, SeriesInFacts
  <2> QED BY <1>9, <2>2, <2>3, <2>4
<1>15. TopicInv'
  <2>1. ASSUME NEW s \in Stores, NEW e \in Stores, NEW i \in 1 .. Len(topics'[s]), NEW j \in 1 .. Len(topics'[e]),
               topics'[s][i].series = topics'[e][j].series
        PROVE  s = e /\ i = j
    <3>1. PICK x \in 1 .. Len(topics[s]) : topics'[s][i] = topics[s][x]
      BY <1>13
    <3>2. PICK y \in 1 .. Len(topics[e]) : topics'[e][j] = topics[e][y]
      BY <1>13
    <3>3. s = e
      BY <1>0, <2>1, <3>1, <3>2 DEF Parts, TopicInv
    <3>4. CASE s = d
      <4>1. i \in 1 .. Len(q) /\ j \in 1 .. Len(q) /\ q[i].series = q[j].series
        BY <1>8, <2>1, <3>3, <3>4
      <4>2. g[i] \in 1 .. Len(topics[d]) /\ g[j] \in 1 .. Len(topics[d])
            /\ topics[d][g[i]].series = topics[d][g[j]].series
        BY <1>12, <4>1
      <4>3. g[i] = g[j]
        <5>1. \A v, w \in 1 .. Len(topics[d]) : topics[d][v].series = topics[d][w].series => v = w
          BY <1>0 DEF Parts, TopicInv
        <5> QED BY <4>2, <5>1
      <4> QED BY <1>12, <3>3, <4>1, <4>3
    <3>5. CASE s # d
      BY <1>0, <1>8, <2>1, <3>3, <3>5 DEF Parts, TopicInv
    <3> QED BY <3>3, <3>4, <3>5
  <2>2. ASSUME NEW s \in Stores, NEW n \in SeriesIn(s)' PROVE n <= created'
    BY <1>0, <1>3, <1>14 DEF Parts, TopicInv
  <2>3. ASSUME NEW s \in Stores, NEW n \in SeriesIn(s)', NEW m \in SeriesIn(s)', obj'[n].key = obj'[m].key
        PROVE  n = m
    <3>1. n \in SeriesIn(s) /\ m \in SeriesIn(s) /\ obj[n].key = obj[m].key
      BY <1>14, <2>3
    <3> QED BY <1>0, <3>1 DEF Parts, TopicInv
  <2>4. created' + Cardinality(Busy') <= MaxSeries
    <3>1. IsFiniteSet(Busy)
      BY FS_Subset, ObjectBoundAssumption DEF Busy
    <3>2. IsFiniteSet(Busy') /\ Cardinality(Busy') <= Cardinality(Busy)
      BY <1>4, <3>1, FS_Subset
    <3>3. Cardinality(Busy) \in Nat /\ Cardinality(Busy') \in Nat
      BY <3>1, <3>2, FS_CardinalityType
    <3>4. created + Cardinality(Busy) <= MaxSeries
      BY <1>0 DEF Parts, TopicInv, Busy
    <3> HIDE DEF Busy
    <3> QED BY <1>0, <1>3, <3>2, <3>3, <3>4, ObjectBoundAssumption DEF TypeOK
  <2> QED BY <2>1, <2>2, <2>3, <2>4 DEF TopicInv, Busy
<1>16. StageInv'
  <2>1. ASSUME NEW u \in Threads \ {th}, pc[u] \in {"series", "body"}, call[u].op \in Writers \cup Readers
        PROVE  SeriesIn(call[u].store) \subseteq SeriesIn(call[u].store)'
    <3>1. call'[u] = call[u] /\ call[u].store \in Stores /\ call[u].store \in Mutexes /\ d \in Mutexes
      BY <1>0, <1>4, CallFacts, Disjoint DEF Parts, ThreadTypes, Others
    <3>2. u \in shared[call[u].store]
      BY <1>0, <2>1, <3>1 DEF Parts, LockInv, SharedBy
    <3>3. th \in held[d]
      <4>1. c.op \in Owners /\ c.op \notin Writers
        BY <1>1 DEF Owners, Writers
      <4>2. d \in Exclusive(th)
        BY <1>2, <4>1 DEF Exclusive
      <4> QED BY <1>0, <3>1, <4>2 DEF Parts, LockInv
    <3>4. call[u].store # d
      BY <1>0, <3>1, <3>2, <3>3 DEF Parts, LockInv
    <3>5. topics'[call[u].store] = topics[call[u].store]
      BY <1>8, <3>1, <3>4
    <3> QED BY <3>1, <3>5 DEF SeriesIn
  <2> QED BY <1>0, <1>4, <2>1, StageStep DEF Parts
<1> QED BY <1>4, <1>10, <1>11, <1>15, <1>16, Assemble

(* What a flush makes of the series: the ones it moves are emptied, the    *)
(* ones it moves them into get the entries of one source series each.      *)
LEMMA FlushCases ==
    ASSUME IndInv, NEW s \in Stores, NEW d \in Stores, s # d, FlushValid(s, d), NEW x \in Series
    PROVE  \/ /\ x \in Filled(s) /\ flushTo(s, d)[x] = Emptied(x)
           \/ /\ x \notin Filled(s) /\ x \in SeriesIn(d) /\ x \notin SeriesIn(s)
              /\ \E n \in Filled(s) : /\ x \in Match(d, n) /\ flushTo(s, d)[x] = Merge(x, n)
                                      /\ \A m \in Filled(s) : x \in Match(d, m) => m = n
           \/ /\ x \notin Filled(s) /\ flushTo(s, d)[x] = obj[x]
              /\ \A n \in Filled(s) : x \notin Match(d, n)
<1>1. CASE x \in Filled(s)
  BY <1>1 DEF flushTo
<1>2. CASE x \notin Filled(s) /\ \E n \in Filled(s) : x \in Match(d, n)
  <2> DEFINE n == CHOOSE n \in Filled(s) : x \in Match(d, n)
  <2>1. n \in Filled(s) /\ x \in Match(d, n)
    BY <1>2
  <2>2. flushTo(s, d)[x] = Merge(x, n)
    BY <1>2 DEF flushTo
  <2> HIDE DEF n
  <2>3. x \in SeriesIn(d)
    BY <2>1 DEF Match
  <2>4. x \notin SeriesIn(s)
    BY <2>3, SeriesHome
  <2>5. ASSUME NEW m \in Filled(s), x \in Match(d, m) PROVE m = n
    <3>1. obj[m].key = obj[n].key /\ m \in SeriesIn(s) /\ n \in SeriesIn(s)
      BY <2>1, <2>5 DEF Match, Filled
    <3> QED BY <3>1 DEF IndInv, TopicInv
  <2> QED BY <1>2, <2>1, <2>2, <2>3, <2>4, <2>5
<1>3. CASE x \notin Filled(s) /\ ~\E n \in Filled(s) : x \in Match(d, n)
  BY <1>3 DEF flushTo
<1> QED BY <1>1, <1>2, <1>3

(* A flushed source series is consistent and empty.                        *)
LEMMA EmptiedOK ==
    ASSUME NEW x, SeriesOK(obj[x])
    PROVE  /\ SeriesOK(Emptied(x)) /\ Emptied(x).key = obj[x].key
           /\ Emptied(x).entries = <<>> /\ Numbers(Emptied(x).entries) = {}
<1> DEFINE o == obj[x]
           p == Emptied(x)
<1>1. o \in Stored
  BY DEF SeriesOK
<1>2. <<>> \in Seq(Entry) /\ <<>> \in Seq(Times)
  OBVIOUS
<1>3. p.entries = <<>> /\ p.stamps = <<>> /\ p.mem = 0 /\ p.key = o.key
  BY <1>1 DEF Emptied, Stored
<1>4. p \in Stored
  BY <1>1, <1>2 DEF Emptied, Stored
<1> HIDE DEF o, p
<1>5. SeriesOK(p) /\ Numbers(p.entries) = {}
  BY <1>3, <1>4, BytesEmpty DEF SeriesOK, Numbers
<1> QED BY <1>3, <1>5 DEF p, o

(* Everything a validated flush does to one series.                        *)
LEMMA FlushedOK ==
    ASSUME IndInv, NEW s \in Stores, NEW d \in Stores, s # d, FlushValid(s, d), NEW x \in Series
    PROVE  /\ SeriesOK(flushTo(s, d)[x]) /\ flushTo(s, d)[x].key = obj[x].key
           /\ \A z \in Numbers(flushTo(s, d)[x].entries) :
                \/ x \notin Filled(s) /\ z \in Numbers(obj[x].entries)
                \/ \E n \in Filled(s) : x \in Match(d, n) /\ z \in Numbers(obj[n].entries)
<1>0. /\ \A n \in Series : SeriesOK(obj[n])
      /\ \A n, m \in Series : n # m => Numbers(obj[n].entries) \cap Numbers(obj[m].entries) = {}
      /\ TypeOK
  BY DEF IndInv, ContentInv
<1>1. CASE x \in Filled(s) /\ flushTo(s, d)[x] = Emptied(x)
  BY <1>0, <1>1, EmptiedOK
<1>2. CASE /\ x \notin Filled(s) /\ x \in SeriesIn(d) /\ x \notin SeriesIn(s)
           /\ \E n \in Filled(s) : x \in Match(d, n) /\ flushTo(s, d)[x] = Merge(x, n)
  <2>1. PICK n \in Filled(s) : x \in Match(d, n) /\ flushTo(s, d)[x] = Merge(x, n)
    BY <1>2
  <2>2. n \in SeriesIn(s) /\ n \in Series /\ obj[n].stamps # <<>> /\ n # x
    BY <1>0, <1>2, SeriesInFacts DEF Filled
  <2>3. InOrder(obj[x], obj[n].stamps[1])
    BY <2>1 DEF FlushValid
  <2>4. SeriesOK(obj[x]) /\ SeriesOK(obj[n])
    BY <1>0, <2>2
  <2>5. Numbers(obj[x].entries) \cap Numbers(obj[n].entries) = {}
    BY <1>0, <2>2
  <2> DEFINE a == obj[x].entries
             b == obj[n].entries
  <2>6. /\ SeriesOK(Merge(x, n)) /\ Merge(x, n).key = obj[x].key
        /\ \E k \in 0 .. Len(a \o b) : Merge(x, n).entries = SubSeq(a \o b, k + 1, Len(a \o b))
    BY <2>2, <2>3, <2>4, <2>5, MergeOK
  <2>7. a \in Seq(Entry) /\ b \in Seq(Entry)
    BY <2>4 DEF SeriesOK, Stored
  <2> HIDE DEF a, b
  <2>8. a \o b \in Seq(Entry)
    BY <2>7, ConcatFacts
  <2>9. Numbers(Merge(x, n).entries) \subseteq Numbers(a \o b)
    BY <2>6, <2>8, NumbersOfSuffix
  <2>10. Numbers(a \o b) \subseteq Numbers(a) \cup Numbers(b)
    <3>1. /\ Len(a) \in Nat /\ Len(b) \in Nat /\ DOMAIN a = 1 .. Len(a) /\ DOMAIN b = 1 .. Len(b)
          /\ DOMAIN (a \o b) = 1 .. Len(a) + Len(b)
          /\ \A i \in 1 .. Len(a) : (a \o b)[i] = a[i]
          /\ \A i \in 1 .. Len(b) : (a \o b)[Len(a) + i] = b[i]
      <4>1. Len(a) \in Nat /\ Len(b) \in Nat /\ DOMAIN a = 1 .. Len(a) /\ DOMAIN b = 1 .. Len(b)
        BY <2>7
      <4>2. Len(a \o b) = Len(a) + Len(b) /\ DOMAIN (a \o b) = 1 .. Len(a \o b)
        BY <2>7, <2>8, ConcatFacts
      <4>3. \A i \in 1 .. Len(a) : (a \o b)[i] = a[i]
        BY <2>7, ConcatFacts
      <4>4. \A i \in 1 .. Len(b) : (a \o b)[Len(a) + i] = b[i]
        BY <2>7, ConcatFacts
      <4> QED BY <4>1, <4>2, <4>3, <4>4
    <3> DEFINE q == a \o b
    <3> HIDE DEF q
    <3>2. ASSUME NEW i \in 1 .. Len(a) + Len(b) PROVE q[i].n \in Numbers(a) \cup Numbers(b)
      <4>1. CASE i \in 1 .. Len(a)
        BY <3>1, <4>1 DEF Numbers, q
      <4>2. CASE i \notin 1 .. Len(a)
        <5>1. i - Len(a) \in 1 .. Len(b) /\ Len(a) + (i - Len(a)) = i
          BY <3>1, <4>2
        <5>2. q[i] = b[i - Len(a)]
          BY <3>1, <5>1 DEF q
        <5> QED BY <3>1, <5>1, <5>2 DEF Numbers
      <4> QED BY <4>1, <4>2
    <3> QED BY <3>1, <3>2 DEF Numbers, q
  <2> QED BY <1>2, <2>1, <2>6, <2>9, <2>10 DEF a, b
<1>3. CASE x \notin Filled(s) /\ flushTo(s, d)[x] = obj[x]
  BY <1>0, <1>3
<1> QED BY <1>1, <1>2, <1>3, FlushCases

(* flushTo keeps the invariant: entries move, none is in two series.       *)
LEMMA FlushBodyStep ==
    ASSUME IndInv, NEW th \in Threads, pc[th] = "body", FlushBody(th), calls' = calls
    PROVE  IndInv'
<1> DEFINE c == call[th]
<1>0. Parts(th) /\ TypeOK
  BY InvParts DEF Parts
<1>1. c \in Calls /\ c.store \in Stores /\ c.to \in Stores /\ c.op = "flushTo" /\ c.store # c.to
  BY <1>0, CallFacts DEF Parts, ThreadTypes, StageOK, FlushBody
<1>2. /\ Return(th) /\ Release(th) /\ view' = view /\ UNCHANGED <<topics, nextId, created, pushed>>
      /\ \/ FlushValid(c.store, c.to) /\ obj' = flushTo(c.store, c.to)
         \/ obj' = obj
  BY DEF FlushBody
<1>3. Busy' \subseteq Busy
  BY <1>2, FinishFacts
<1>4. CASE obj' = obj
  <2>1. UNCHANGED data /\ calls' \in 0 .. MaxCalls /\ topics' = topics
    BY <1>0, <1>2, <1>4 DEF data, Parts, DataTypes
  <2> QED BY <1>2, <1>3, <2>1, QuietData, FinishOneSeries
<1>5. CASE FlushValid(c.store, c.to) /\ obj' = flushTo(c.store, c.to)
  <2>0. PICK s \in Stores, d \in Stores : s = c.store /\ d = c.to
    BY <1>1
  <2>1. FlushValid(s, d) /\ obj' = flushTo(s, d) /\ s # d
    BY <1>1, <1>5, <2>0
  <2>2. ASSUME NEW x \in Series
        PROVE  /\ SeriesOK(obj'[x]) /\ obj'[x].key = obj[x].key
               /\ \A z \in Numbers(obj'[x].entries) :
                    \/ x \notin Filled(s) /\ z \in Numbers(obj[x].entries)
                    \/ \E n \in Filled(s) : x \in Match(d, n) /\ z \in Numbers(obj[n].entries)
    BY <2>1, FlushedOK
  <2>3. DataTypes'
    <3>1. obj' = [x \in Series |-> obj'[x]]
      BY <2>1 DEF flushTo
    <3>2. \A x \in Series : obj'[x] \in Stored
      BY <2>2 DEF SeriesOK
    <3>3. obj' \in [Series -> Stored]
      BY <3>1, <3>2
    <3> QED BY <1>0, <1>2, <3>3 DEF Parts, DataTypes
  <2>4. TopicInv'
    BY <1>0, <1>2, <1>3, <2>2, TopicStep DEF Parts
  <2>5. \A n \in Filled(s) : n \in Series /\ n \in SeriesIn(s)
    BY <1>0, SeriesInFacts DEF Filled
  <2>6. ContentInv'
    <3>1. ASSUME NEW x \in Series, NEW z \in Numbers(obj'[x].entries) PROVE z <= pushed'
      BY <1>0, <1>2, <2>2, <2>5 DEF Parts, ContentInv
    <3>2. ASSUME NEW x \in Series, NEW y \in Series, x # y,
                 NEW z \in Numbers(obj'[x].entries), z \in Numbers(obj'[y].entries)
          PROVE  FALSE
      <4>1. \A v, w \in Series : z \in Numbers(obj[v].entries) /\ z \in Numbers(obj[w].entries) => v = w
        BY <1>0 DEF Parts, ContentInv
      <4>2. \/ x \notin Filled(s) /\ z \in Numbers(obj[x].entries)
            \/ \E n \in Filled(s) : x \in Match(d, n) /\ z \in Numbers(obj[n].entries)
        BY <2>2
      <4>3. \/ y \notin Filled(s) /\ z \in Numbers(obj[y].entries)
            \/ \E n \in Filled(s) : y \in Match(d, n) /\ z \in Numbers(obj[n].entries)
        BY <2>2, <3>2
      <4>4. ASSUME NEW n \in Filled(s), x \in Match(d, n), y \in Match(d, n) PROVE FALSE
        <5>1. x \in SeriesIn(d) /\ y \in SeriesIn(d) /\ obj[x].key = obj[y].key
          BY <4>4 DEF Match
        <5> QED BY <1>0, <3>2, <5>1 DEF Parts, TopicInv
      <4> QED BY <2>5, <3>2, <4>1, <4>2, <4>3, <4>4
    <3>3. \A x \in Series : SeriesOK(obj[x])'
      BY <2>2
    <3> QED BY <3>1, <3>2, <3>3 DEF ContentInv
  <2> QED BY <1>2, <2>3, <2>4, <2>6, FinishOneSeries
<1> QED BY <1>2, <1>4, <1>5

(* Every step of every thread keeps the invariant.                         *)
LEMMA InvStep == IndInv /\ [Next]_vars => IndInv'
<1> SUFFICES ASSUME IndInv, [Next]_vars PROVE IndInv'
  OBVIOUS
<1>1. CASE UNCHANGED vars
  <2>0. /\ ThreadTypes /\ LockInv /\ StageInv /\ calls \in 0 .. MaxCalls
        /\ pc' = pc /\ call' = call /\ found' = found /\ view' = view /\ held' = held /\ shared' = shared
        /\ topics' = topics /\ calls' = calls /\ UNCHANGED data
    BY <1>1, TypeParts DEF vars, data, IndInv, TypeOK
  <2>1. ThreadTypes'
    BY <2>0 DEF ThreadTypes
  <2>2. \A th \in Threads : Exclusive(th)' = Exclusive(th) /\ SharedBy(th)' = SharedBy(th)
    BY <2>0 DEF Exclusive, SharedBy, FirstStore
  <2>3. LockInv'
    BY <2>0, <2>2 DEF LockInv
  <2>4. StageInv'
    BY <2>0 DEF StageInv, StageOK, SeriesIn
  <2>5. Busy' \subseteq Busy
    BY <2>0 DEF Busy, Registering
  <2> QED BY <2>0, <2>1, <2>3, <2>4, <2>5, QuietData, Assemble
<1>2. ASSUME NEW th \in Threads, NEW c \in Calls, Start(th, c) PROVE IndInv'
  BY <1>2, StartStep
<1>3. ASSUME NEW th \in Threads, Progress(th) PROVE IndInv'
  <2>1. CASE ShareStore(th)
    BY <2>1, ShareStoreStep
  <2>2. CASE OwnStore(th)
    BY <2>2, OwnStoreStep
  <2>3. CASE LockSeries(th)
    BY <2>3, LockSeriesStep
  <2>4. CASE DropView(th)
    BY <2>4, DropViewStep
  <2>5. CASE Body(th)
    <3>1. pc[th] = "body" /\ calls' = calls
      BY <2>5 DEF Body
    <3>2. CASE PushBody(th)
      BY <3>1, <3>2, PushBodyStep
    <3>3. CASE TrimBody(th)
      BY <3>1, <3>3, TrimBodyStep
    <3>4. CASE EvictAllBody(th)
      BY <3>1, <3>4, EvictAllBodyStep
    <3>5. CASE ReadBody(th)
      BY <3>1, <3>5, ReadBodyStep
    <3>6. CASE ViewBody(th)
      BY <3>1, <3>6, ViewBodyStep
    <3>7. CASE RegisterBody(th)
      BY <3>1, <3>7, RegisterBodyStep
    <3>8. CASE RemoveBody(th)
      BY <3>1, <3>8, RemoveBodyStep
    <3>9. CASE FlushBody(th)
      BY <3>1, <3>9, FlushBodyStep
    <3> QED BY <2>5, <3>2, <3>3, <3>4, <3>5, <3>6, <3>7, <3>8, <3>9 DEF Body
  <2> QED BY <1>3, <2>1, <2>2, <2>3, <2>4, <2>5 DEF Progress
<1> QED BY <1>1, <1>2, <1>3 DEF Next

(* For any number of threads, stores, topics and calls: the threads hold   *)
(* exactly the mutexes their stage calls for, the series pointers they kept*)
(* are still in their store, a series has one home, and every series is    *)
(* consistent.                                                             *)
THEOREM Inductive == Spec => []IndInv
<1>1. IndInv /\ [Next]_vars => IndInv'
  BY InvStep
<1> QED BY InitInv, <1>1, PTL DEF Spec

(* The indexes and the byte count of every series agree with its entries,  *)
(* and no entry is in two series, whatever pushes, evictions, removals and *)
(* flushes of whatever number of threads touched them.                     *)
THEOREM StoresConsistent == Spec => []SeriesConsistent
BY Inductive, InvGivesConsistency, PTL

(* No thread reads or writes a topic list or a series another one is       *)
(* writing, for any number of threads and stores, as long as timestamp     *)
(* views are not used together with the operations that destroy or move    *)
(* series under the store mutex alone: the one combination that does race  *)
(* (see "A view and a flush" in the README).                               *)
THEOREM RaceFree == ViewsApart => (Spec => []NoRace)
<1> SUFFICES ASSUME ViewsApart PROVE Spec => []NoRace
  OBVIOUS
<1>1. IndInv => NoRace
  BY LocksExcludeRaces
<1> QED BY <1>1, Inductive, PTL

-----------------------------------------------------------------------------
(* What a step may do to the entries of a series. *)

(* q is the end of s.                                                      *)
Suffix(q, s) == \E k \in 0 .. Len(s) : q = SubSeq(s, k + 1, Len(s))

(* A sequence and the empty one are ends of it.                            *)
LEMMA SuffixWhole ==
    ASSUME NEW s \in Seq(Entry)
    PROVE  Suffix(s, s) /\ Suffix(<<>>, s)
<1>1. s = SubSeq(s, 0 + 1, Len(s)) /\ 0 \in 0 .. Len(s)
  <2>1. s = SubSeq(s, 1, Len(s))
    BY SubSeqFull
  <2>2. 0 + 1 = 1 /\ 0 \in 0 .. Len(s)
    OBVIOUS
  <2> QED BY <2>1, <2>2
<1>2. SubSeq(s, Len(s) + 1, Len(s)) = <<>> /\ Len(s) \in 0 .. Len(s)
  <2>1. Len(s) \in 0 .. Len(s) /\ Len(s) - Len(s) = 0
    OBVIOUS
  <2>2. Len(SubSeq(s, Len(s) + 1, Len(s))) = 0 /\ SubSeq(s, Len(s) + 1, Len(s)) \in Seq(Entry)
    BY <2>1, SuffixFacts
  <2>3. SubSeq(s, Len(s) + 1, Len(s)) = <<>>
    BY <2>2, EmptySeq
  <2> QED BY <2>1, <2>3
<1> QED BY <1>1, <1>2 DEF Suffix

(* The entries n has after a step: the end of what it had, or what push or *)
(* Merge makes of them.                                                    *)
Pushes(n) ==
    \E ts \in Times, size \in Nat :
        /\ InOrder(obj[n], ts) /\ obj'[n] = push(obj[n], ts, size)
Receives(n) ==
    \E th \in Threads :
        /\ pc[th] = "body" /\ call[th].op = "flushTo"
        /\ FlushValid(call[th].store, call[th].to)
        /\ \E m \in Filled(call[th].store) : n \in Match(call[th].to, m) /\ obj'[n] = Merge(n, m)

(* What a step can do to the entries of a series: evict from the front,    *)
(* push one, or receive those of a flushed series.                         *)
LEMMA EntriesStep ==
    ASSUME IndInv, [Next]_vars, NEW n \in Series
    PROVE  Suffix(obj'[n].entries, obj[n].entries) \/ Pushes(n) \/ Receives(n)
<1>0. /\ SeriesOK(obj[n]) /\ obj[n].entries \in Seq(Entry) /\ TypeOK
      /\ Suffix(obj[n].entries, obj[n].entries) /\ Suffix(<<>>, obj[n].entries)
  BY SuffixWhole DEF IndInv, ContentInv, SeriesOK, Stored
<1>1. CASE obj' = obj
  BY <1>0, <1>1
<1>2. ASSUME NEW th \in Threads, pc[th] = "body", obj' # obj,
             PushBody(th) \/ TrimBody(th) \/ EvictAllBody(th) \/ RegisterBody(th) \/ RemoveBody(th) \/ FlushBody(th)
      PROVE  Suffix(obj'[n].entries, obj[n].entries) \/ Pushes(n) \/ Receives(n)
  <2> DEFINE c == call[th]
             f == found[th][1]
  <2>0. c \in Calls /\ c.ts \in Times /\ c.ts \in Int /\ c.size \in Nat /\ obj \in [Series -> Stored]
    BY <1>0, CallFacts DEF TypeOK, Stored
  <2>t. ASSUME NEW ts \in Int PROVE Suffix(evictOlder(obj[n], ts).entries, obj[n].entries)
    BY <1>0, EvictOlderOK DEF Suffix, Trimmed
  <2>1. CASE PushBody(th)
    <3> DEFINE size == IF c.op = "pushOwned" THEN c.size ELSE 0
    <3>1. InOrder(obj[f], c.ts) /\ obj' = [obj EXCEPT ![f] = push(obj[f], c.ts, size)]
      BY <1>2, <2>1 DEF PushBody
    <3>2. size \in Nat
      BY <2>0
    <3> HIDE DEF size
    <3>3. CASE n = f
      BY <2>0, <3>1, <3>2, <3>3 DEF Pushes
    <3>4. CASE n # f
      BY <1>0, <2>0, <3>1, <3>4
    <3> QED BY <3>3, <3>4
  <2>2. CASE TrimBody(th)
    <3>1. obj' = [obj EXCEPT ![f] = IF c.op = "evictBefore" THEN evictOlder(obj[f], c.ts)
                                    ELSE [obj[f] EXCEPT !.budget = c.budget]]
      BY <2>2 DEF TrimBody
    <3>2. CASE n = f /\ c.op = "evictBefore"
      BY <2>0, <2>t, <3>1, <3>2
    <3>3. CASE n = f /\ c.op # "evictBefore"
      <4>1. obj'[n] = [obj[n] EXCEPT !.budget = c.budget] /\ obj[n] \in Stored
        BY <2>0, <3>1, <3>3
      <4>2. obj'[n].entries = obj[n].entries
        BY <4>1 DEF Stored
      <4> QED BY <1>0, <4>2
    <3>4. CASE n # f
      BY <1>0, <2>0, <3>1, <3>4
    <3> QED BY <3>2, <3>3, <3>4
  <2>3. CASE EvictAllBody(th)
    <3>1. obj' = [obj EXCEPT ![f] = evictOlder(obj[f], c.ts)]
      BY <2>3 DEF EvictAllBody
    <3>2. CASE n = f
      BY <2>0, <2>t, <3>1, <3>2
    <3>3. CASE n # f
      BY <1>0, <2>0, <3>1, <3>3
    <3> QED BY <3>2, <3>3
  <2>4. CASE RegisterBody(th)
    <3>1. obj' = [obj EXCEPT ![created + 1] = NewSeries(c.key)]
      BY <1>2, <2>4 DEF RegisterBody
    <3>2. CASE n = created + 1
      BY <1>0, <2>0, <3>1, <3>2 DEF NewSeries
    <3>3. CASE n # created + 1
      BY <1>0, <2>0, <3>1, <3>3
    <3> QED BY <3>2, <3>3
  <2>5. CASE RemoveBody(th)
    <3>1. obj'[n] = obj[n] \/ obj'[n] = NewSeries(SomeOf(Keys))
      BY <2>5 DEF RemoveBody
    <3> QED BY <1>0, <3>1 DEF NewSeries
  <2>6. CASE FlushBody(th)
    <3>1. /\ c.op = "flushTo" /\ FlushValid(c.store, c.to) /\ obj' = flushTo(c.store, c.to)
          /\ c.store \in Stores /\ c.to \in Stores /\ c.store # c.to
      BY <1>2, <2>0, <2>6, CallFacts DEF FlushBody, IndInv, StageInv, StageOK
    <3>2. PICK s \in Stores, d \in Stores : s = c.store /\ d = c.to
      BY <3>1
    <3>3. FlushValid(s, d) /\ obj' = flushTo(s, d) /\ s # d
      BY <3>1, <3>2
    <3>4. CASE obj'[n] = Emptied(n)
      BY <1>0, <3>4, EmptiedOK
    <3>5. CASE \E m \in Filled(s) : n \in Match(d, m) /\ obj'[n] = Merge(n, m)
      BY <1>2, <3>1, <3>2, <3>5 DEF Receives
    <3>6. CASE obj'[n] = obj[n]
      BY <1>0, <3>6
    <3> QED BY <3>3, <3>4, <3>5, <3>6, FlushCases
  <2> QED BY <1>2, <2>1, <2>2, <2>3, <2>4, <2>5, <2>6
<1>3. \/ obj' = obj
      \/ \E th \in Threads :
            /\ pc[th] = "body"
            /\ PushBody(th) \/ TrimBody(th) \/ EvictAllBody(th) \/ RegisterBody(th) \/ RemoveBody(th) \/ FlushBody(th)
  <2>1. CASE UNCHANGED vars
    BY <2>1 DEF vars
  <2>2. ASSUME NEW th \in Threads, NEW c \in Calls, Start(th, c) PROVE obj' = obj
    BY <2>2 DEF Start, data
  <2>3. ASSUME NEW th \in Threads, ShareStore(th) \/ OwnStore(th) \/ LockSeries(th) \/ DropView(th) PROVE obj' = obj
    BY <2>3 DEF ShareStore, OwnStore, LockSeries, DropView, data
  <2>4. ASSUME NEW th \in Threads, ReadBody(th) \/ ViewBody(th) PROVE obj' = obj
    BY <2>4 DEF ReadBody, ViewBody, data
  <2> QED BY <2>1, <2>2, <2>3, <2>4 DEF Next, Progress, Body
<1> QED BY <1>1, <1>2, <1>3

-----------------------------------------------------------------------------
(* A step that adds entries to a series leaves exactly what its budget     *)
(* allows.                                                                 *)
LEMMA RetainedStep ==
    ASSUME IndInv, [Next]_vars, NEW n \in Series
    PROVE  RetainedExactly(n)
<1> DEFINE old == obj[n].entries
           new == obj'[n].entries
<1> SUFFICES ASSUME ~(Numbers(new) \subseteq Numbers(old))
             PROVE  \E added \in {<<new[Len(new)]>>} \cup {obj[m].entries : m \in Series} :
                       Kept(old \o added, new, obj'[n].budget)
  BY DEF RetainedExactly
<1>0. /\ SeriesOK(obj[n]) /\ old \in Seq(Entry) /\ TypeOK /\ pushed \in Nat
      /\ \A x \in Numbers(old) : x <= pushed
  BY DEF IndInv, ContentInv, SeriesOK, Stored, TypeOK
<1>1. new # <<>>
  BY DEF Numbers
<1>2. ~Suffix(new, old)
  <2>1. ASSUME Suffix(new, old) PROVE FALSE
    <3>1. PICK k \in 0 .. Len(old) : new = SubSeq(old, k + 1, Len(old))
      BY <2>1 DEF Suffix
    <3> HIDE DEF old
    <3>2. Numbers(SubSeq(old, k + 1, Len(old))) \subseteq Numbers(old)
      BY <1>0, NumbersOfSuffix
    <3> QED BY <3>1, <3>2
  <2> QED BY <2>1
<1>3. CASE Pushes(n)
  <2>1. PICK ts \in Times, size \in Nat : InOrder(obj[n], ts) /\ obj'[n] = push(obj[n], ts, size)
    BY <1>3 DEF Pushes
  <2> DEFINE o == obj[n]
             e == [ts |-> ts, size |-> size, n |-> pushed + 1]
             all == Append(old, e)
  <2>2. \A i \in 1 .. Len(old) : old[i].n <= pushed
    <3>1. DOMAIN old = 1 .. Len(old)
      BY <1>0
    <3> QED BY <1>0, <3>1 DEF Numbers
  <2>3. obj'[n].budget = o.budget /\ Kept(all, new, o.budget)
    <3>1. push(o, ts, size).budget = o.budget
      BY <1>0, <2>1, <2>2, PushOK
    <3>2. push(o, ts, size).entries # <<>> => Kept(all, push(o, ts, size).entries, o.budget)
      BY <1>0, <2>1, <2>2, PushOK
    <3> QED BY <1>1, <2>1, <3>1, <3>2
  <2>4. e \in Entry
    BY <1>0 DEF Entry
  <2> HIDE DEF e, old, new
  <2>5. all = old \o <<e>> /\ Len(all) = Len(old) + 1 /\ all[Len(old) + 1] = e /\ Len(old) \in Nat /\ all \in Seq(Entry)
    BY <1>0, <2>4, AppendIsConcat
  <2>6. new[Len(new)] = e
    <3>1. PICK k \in 0 .. Len(all) - 1 : new = SubSeq(all, k + 1, Len(all))
      BY <2>3 DEF Kept
    <3> HIDE DEF all
    <3>2. k \in 0 .. Len(all) /\ Len(all) - k \in 1 .. Len(all) - k /\ k + (Len(all) - k) = Len(all)
      BY <2>5, <3>1
    <3>3. Len(new) = Len(all) - k /\ \A i \in 1 .. Len(all) - k : new[i] = all[k + i]
      BY <2>5, <3>1, <3>2, SuffixFacts
    <3>4. new[Len(new)] = all[Len(all)]
      BY <3>2, <3>3
    <3> QED BY <2>5, <3>4
  <2>7. Kept(old \o <<new[Len(new)]>>, new, obj'[n].budget)
    BY <2>3, <2>5, <2>6
  <2> QED BY <2>7
<1>4. CASE Receives(n)
  <2>1. PICK th \in Threads :
        /\ pc[th] = "body" /\ call[th].op = "flushTo"
        /\ FlushValid(call[th].store, call[th].to)
        /\ \E m \in Filled(call[th].store) : n \in Match(call[th].to, m) /\ obj'[n] = Merge(n, m)
    BY <1>4 DEF Receives
  <2>2. PICK m \in Filled(call[th].store) : n \in Match(call[th].to, m) /\ obj'[n] = Merge(n, m)
    BY <2>1
  <2>3. /\ call[th].store \in Stores /\ call[th].to \in Stores /\ call[th].store # call[th].to
    BY <1>0, <2>1, CallFacts DEF TypeOK, IndInv, StageInv, StageOK
  <2>4. /\ m \in SeriesIn(call[th].store) /\ obj[m].stamps # <<>> /\ n \in SeriesIn(call[th].to)
        /\ InOrder(obj[n], obj[m].stamps[1])
    BY <2>1, <2>2 DEF Filled, Match, FlushValid
  <2>5. m # n /\ m \in Series
    BY <1>0, <2>3, <2>4, SeriesHome, SeriesInFacts
  <2>6. SeriesOK(obj[m]) /\ Numbers(obj[n].entries) \cap Numbers(obj[m].entries) = {}
    BY <2>5 DEF IndInv, ContentInv
  <2>7. /\ Merge(n, m).budget = obj[n].budget
        /\ Merge(n, m).entries # <<>> => Kept(obj[n].entries \o obj[m].entries, Merge(n, m).entries, obj[n].budget)
    BY <1>0, <2>4, <2>6, MergeOK
  <2>8. Kept(old \o obj[m].entries, new, obj'[n].budget)
    BY <1>1, <2>2, <2>7
  <2> HIDE DEF old, new
  <2> QED BY <2>5, <2>8
<1> QED BY <1>2, <1>3, <1>4, EntriesStep

(* A flushTo that changed anything has moved everything.                   *)
LEMMA FlushStep ==
    ASSUME IndInv, [Next]_vars, NEW th \in Threads
    PROVE  FlushOutcome(th)
<1> DEFINE c == call[th]
<1> SUFFICES ASSUME pc[th] = "body", c.op = "flushTo", pc'[th] = "idle", obj' # obj
             PROVE  /\ \A n \in SeriesIn(c.store) : obj'[n].entries = <<>>
                    /\ \A n \in Filled(c.store) : \E m \in SeriesIn(c.to) :
                          /\ obj[m].key = obj[n].key
                          /\ obj[m].budget = NoBudget =>
                               obj'[m].entries = obj[m].entries \o obj[n].entries
  BY DEF FlushOutcome
<1>0. TypeOK /\ c \in Calls /\ c.store \in Stores /\ c.to \in Stores /\ c.store # c.to
  BY CallFacts DEF IndInv, TypeOK, StageInv, StageOK
(* Only the thread itself ends its call.                                   *)
<1>1. FlushBody(th)
  <2>1. UNCHANGED vars => FALSE
    BY DEF vars
  <2>2. ASSUME NEW u \in Threads, NEW k \in Calls, Start(u, k) PROVE FALSE
    BY <1>0, <2>2 DEF Start, TypeOK
  <2>3. ASSUME NEW u \in Threads, ShareStore(u) \/ OwnStore(u) \/ LockSeries(u) \/ DropView(u) PROVE FALSE
    BY <2>3 DEF ShareStore, OwnStore, LockSeries, DropView, data
  <2>4. ASSUME NEW u \in Threads, Body(u), u # th PROVE FALSE
    <3>1. pc'[th] = pc[th]
      BY <1>0, <2>4 DEF Body, PushBody, TrimBody, EvictAllBody, ReadBody, ViewBody, RegisterBody,
                        RemoveBody, FlushBody, Return, TypeOK
    <3> QED BY <3>1
  <2>5. Body(th) => FlushBody(th)
    BY DEF Body, PushBody, TrimBody, EvictAllBody, ReadBody, ViewBody, RegisterBody, RemoveBody
  <2> QED BY <2>1, <2>2, <2>3, <2>4, <2>5 DEF Next, Progress
<1>2. FlushValid(c.store, c.to) /\ obj' = flushTo(c.store, c.to)
  BY <1>1 DEF FlushBody
<1>3. PICK s \in Stores, d \in Stores : s = c.store /\ d = c.to
  BY <1>0
<1>4. s # d /\ FlushValid(s, d) /\ obj' = flushTo(s, d)
  BY <1>0, <1>2, <1>3
<1>5. \A n \in Series : SeriesOK(obj[n])
  BY DEF IndInv, ContentInv
<1>6. ASSUME NEW n \in SeriesIn(s) PROVE obj'[n].entries = <<>>
  <2>1. n \in Series /\ n \notin SeriesIn(d)
    BY <1>0, <1>4, SeriesInFacts, SeriesHome
  <2>2. CASE n \in Filled(s)
    <3>1. obj'[n] = Emptied(n)
      BY <1>4, <2>1, <2>2 DEF flushTo
    <3> QED BY <1>5, <2>1, <3>1, EmptiedOK
  <2>3. CASE n \notin Filled(s)
    <3>1. obj'[n] = obj[n] /\ obj[n].stamps = <<>>
      <4>1. ~\E k \in Filled(s) : n \in Match(d, k)
        BY <2>1 DEF Match
      <4>2. obj'[n] = obj[n]
        BY <1>4, <2>1, <2>3, <4>1 DEF flushTo
      <4> QED BY <2>3, <4>2 DEF Filled
    <3>2. obj[n].entries \in Seq(Entry) /\ Len(obj[n].entries) = Len(obj[n].stamps)
      BY <1>5, <2>1 DEF SeriesOK, Stored
    <3>3. Len(obj[n].entries) = 0
      BY <3>1, <3>2
    <3> QED BY <3>1, <3>2, <3>3, EmptySeq
  <2> QED BY <2>2, <2>3
<1>7. ASSUME NEW n \in Filled(s)
      PROVE  \E m \in SeriesIn(d) : /\ obj[m].key = obj[n].key
                                    /\ obj[m].budget = NoBudget =>
                                         obj'[m].entries = obj[m].entries \o obj[n].entries
  <2>1. PICK m \in Match(d, n) : TRUE
    BY <1>4 DEF FlushValid
  <2>2. m \in SeriesIn(d) /\ obj[m].key = obj[n].key /\ n \in SeriesIn(s) /\ obj[n].stamps # <<>>
    BY <2>1 DEF Match, Filled
  <2>3. m \in Series /\ n \in Series /\ m \notin SeriesIn(s) /\ m \notin Filled(s) /\ m # n
    BY <1>0, <1>4, <2>2, SeriesInFacts, SeriesHome DEF Filled
  <2>4. obj'[m] = Merge(m, n)
    <3>1. \E k \in Filled(s) : /\ m \in Match(d, k) /\ flushTo(s, d)[m] = Merge(m, k)
                               /\ \A j \in Filled(s) : m \in Match(d, j) => j = k
      BY <1>4, <2>1, <2>3, FlushCases
    <3> QED BY <1>4, <2>1, <3>1
  <2>5. InOrder(obj[m], obj[n].stamps[1])
    BY <1>4, <2>1 DEF FlushValid
  <2>6. Numbers(obj[m].entries) \cap Numbers(obj[n].entries) = {}
    BY <2>3 DEF IndInv, ContentInv
  <2> DEFINE q == obj[m].entries \o obj[n].entries
  <2>7. \E k \in 0 .. Len(q) : /\ Merge(m, n).entries = SubSeq(q, k + 1, Len(q))
                               /\ obj[m].budget = NoBudget => k = 0
    BY <1>5, <2>2, <2>3, <2>5, <2>6, MergeOK
  <2>8. q \in Seq(Entry)
    <3> DEFINE a == obj[m].entries
               b == obj[n].entries
    <3>1. a \in Seq(Entry) /\ b \in Seq(Entry)
      BY <1>5, <2>3 DEF SeriesOK, Stored
    <3> HIDE DEF a, b
    <3>2. a \o b \in Seq(Entry)
      BY <3>1
    <3> QED BY <3>2 DEF a, b
  <2> HIDE DEF q
  <2>9. SubSeq(q, 0 + 1, Len(q)) = q
    <3>1. SubSeq(q, 1, Len(q)) = q
      BY <2>8, SubSeqFull
    <3> QED BY <3>1
  <2>10. obj[m].budget = NoBudget => obj'[m].entries = q
    BY <2>4, <2>7, <2>9
  <2> QED BY <2>2, <2>10 DEF q
<1> QED BY <1>3, <1>6, <1>7

(* applyRetention evicts from the front, within the budget afterwards and  *)
(* never an entry more, for any budget, in pushes and in flushes.          *)
THEOREM RetentionIsExactAlways == Spec => RetentionExact
<1>1. IndInv /\ [Next]_vars => [\A n \in Live \cap Live' : RetainedExactly(n)]_vars
  <2>1. ASSUME IndInv, [Next]_vars, NEW n \in Live PROVE RetainedExactly(n)
    <3>1. n \in Series
      BY <2>1, SeriesInFacts DEF Live, IndInv
    <3> QED BY <2>1, <3>1, RetainedStep
  <2> QED BY <2>1
<1> QED BY <1>1, Inductive, PTL DEF RetentionExact, Spec

(* flushTo moves everything or nothing, for any number of topics and any   *)
(* contents of the two stores.                                             *)
THEOREM FlushesAllOrNothing == Spec => FlushAllOrNothing
<1>1. IndInv /\ [Next]_vars => [\A th \in Threads : FlushOutcome(th)]_vars
  BY FlushStep
<1> QED BY <1>1, Inductive, PTL DEF FlushAllOrNothing, Spec

-----------------------------------------------------------------------------
(* Lookups. *)

(* Entries are in the order they were pushed in.                           *)
PushOrder(s) == \A i, j \in 1 .. Len(s) : i < j => s[i].n < s[j].n

OrderInv == \A n \in Series : PushOrder(obj[n].entries)

(* The index latestAt looks up: the last stamp not after ts.               *)
LEMMA IndexAtFacts ==
    ASSUME NEW o, SeriesOK(o), NEW ts \in Int
    PROVE  /\ indexAt(o, ts) \in 0 .. Len(o.entries)
           /\ \A i \in 1 .. Len(o.entries) : o.stamps[i] <= ts <=> i <= indexAt(o, ts)
<1> DEFINE l == Len(o.stamps)
           S == {k \in 0 .. l : k < l => o.stamps[k + 1] > ts}
           k == Min(S)
<1>0. /\ l \in Nat /\ Len(o.entries) = l
      /\ \A i \in 1 .. l : o.stamps[i] \in Int
      /\ \A i, j \in 1 .. l : i <= j => o.stamps[i] <= o.stamps[j]
  <2>1. o.stamps \in Seq(Times) /\ Len(o.entries) = l
    BY DEF SeriesOK, Stored
  <2>2. l \in Nat /\ \A i \in 1 .. l : o.stamps[i] \in Int
    BY <2>1, StampsAreInts
  <2> QED BY <2>1, <2>2 DEF SeriesOK
<1>1. S \in SUBSET Nat /\ l \in S
  BY <1>0
<1>2. k \in S /\ \A x \in S : k <= x
  BY <1>1, MinFacts
<1>3. indexAt(o, ts) = k
  BY DEF indexAt
<1>4. k \in 0 .. l /\ (k < l => o.stamps[k + 1] > ts)
  BY <1>2
<1>5. ASSUME k > 0 PROVE o.stamps[k] <= ts
  <2>1. k - 1 \in 0 .. l /\ k - 1 + 1 = k /\ k \in 1 .. l /\ k - 1 < l /\ ~(k <= k - 1)
    BY <1>0, <1>4, <1>5
  <2>2. k - 1 \notin S
    <3> HIDE DEF S
    <3> QED BY <1>2, <2>1
  <2>3. ~(o.stamps[k] > ts)
    <3>1. ~(o.stamps[k - 1 + 1] > ts)
      BY <2>1, <2>2
    <3> QED BY <2>1, <3>1, Zenon
  <2>4. o.stamps[k] \in Int
    BY <1>0, <2>1
  <2> HIDE DEF k
  <2> QED BY <2>3, <2>4
<1> HIDE DEF k, S
<1>6. ASSUME NEW i \in 1 .. l PROVE o.stamps[i] <= ts <=> i <= k
  <2>1. CASE i <= k
    <3>1. k > 0 /\ k \in 1 .. l
      BY <1>0, <1>4, <2>1
    <3>2. o.stamps[i] <= o.stamps[k] /\ o.stamps[k] <= ts /\ o.stamps[i] \in Int /\ o.stamps[k] \in Int
      BY <1>0, <1>5, <2>1, <3>1
    <3> QED BY <2>1, <3>2
  <2>2. CASE ~(i <= k)
    <3>1. k < l /\ k + 1 \in 1 .. l /\ k + 1 <= i
      BY <1>0, <1>4, <2>2
    <3>2. o.stamps[k + 1] <= o.stamps[i] /\ o.stamps[k + 1] > ts /\ o.stamps[i] \in Int /\ o.stamps[k + 1] \in Int
      BY <1>0, <1>4, <3>1
    <3> QED BY <2>2, <3>2
  <2> QED BY <2>1, <2>2
<1> QED BY <1>0, <1>3, <1>4, <1>6

(* latestAt finds the last pushed of the entries with the greatest         *)
(* timestamp not after ts.                                                 *)
LEMMA NewestFound ==
    ASSUME NEW o, SeriesOK(o), PushOrder(o.entries), NEW ts \in Times
    PROVE  LET upTo == {e \in Range(o.entries) : e.ts <= ts}
           IN  latestAt(o, ts) = {e \in upTo : \A f \in upTo : f.ts < e.ts \/ (f.ts = e.ts /\ f.n <= e.n)}
<1> DEFINE s == o.entries
           k == indexAt(o, ts)
           upTo == {e \in Range(s) : e.ts <= ts}
           best == {e \in upTo : \A f \in upTo : f.ts < e.ts \/ (f.ts = e.ts /\ f.n <= e.n)}
<1>0. /\ s \in Seq(Entry) /\ Len(s) \in Nat /\ DOMAIN s = 1 .. Len(s) /\ ts \in Int
      /\ k \in 0 .. Len(s)
      /\ \A i \in 1 .. Len(s) : s[i].ts <= ts <=> i <= k
      /\ \A i \in 1 .. Len(s) : s[i].ts \in Int /\ s[i].n \in Nat
      /\ \A i, j \in 1 .. Len(s) : i <= j => s[i].ts <= s[j].ts
  <2>1. s \in Seq(Entry) /\ ts \in Int
    BY ValueAssumption DEF SeriesOK, Stored
  <2>2. Len(s) \in Nat /\ DOMAIN s = 1 .. Len(s)
    BY <2>1
  <2>3. /\ k \in 0 .. Len(s)
        /\ \A i \in 1 .. Len(s) : o.stamps[i] <= ts <=> i <= k
    BY <2>1, IndexAtFacts
  <2>4. \A i \in 1 .. Len(s) : o.stamps[i] = s[i].ts
    BY DEF SeriesOK
  <2>5. \A i \in 1 .. Len(s) : s[i].ts \in Int /\ s[i].n \in Nat
    <3>1. \A i \in 1 .. Len(s) : s[i] \in Entry
      BY <2>1
    <3> HIDE DEF s
    <3> QED BY <3>1, ValueAssumption DEF Entry
  <2>6. \A i, j \in 1 .. Len(s) : i <= j => o.stamps[i] <= o.stamps[j]
    BY DEF SeriesOK
  <2> HIDE DEF k, s
  <2> QED BY <2>1, <2>2, <2>3, <2>4, <2>5, <2>6
<1>1. \A i, j \in 1 .. Len(s) : i < j => s[i].n < s[j].n
  BY DEF PushOrder
<1>2. latestAt(o, ts) = IF k = 0 THEN {} ELSE {s[k]}
  BY DEF latestAt
<1> HIDE DEF s, k
<1>3. Range(s) = {s[i] : i \in 1 .. Len(s)}
  BY <1>0 DEF Range
<1>4. upTo = {s[i] : i \in 1 .. k}
  <2>1. ASSUME NEW e \in upTo PROVE e \in {s[i] : i \in 1 .. k}
    <3>1. PICK i \in 1 .. Len(s) : e = s[i]
      BY <1>3
    <3>2. i <= k
      BY <1>0, <3>1
    <3>3. i \in 1 .. k
      BY <1>0, <3>2
    <3> QED BY <3>1, <3>3
  <2>2. ASSUME NEW i \in 1 .. k PROVE s[i] \in upTo
    <3>1. i \in 1 .. Len(s) /\ i <= k
      BY <1>0
    <3> QED BY <1>0, <1>3, <3>1
  <2> QED BY <2>1, <2>2
<1> HIDE DEF upTo
<1>5. CASE k = 0
  <2>1. upTo = {}
    BY <1>4, <1>5
  <2> QED BY <1>2, <1>5, <2>1 DEF s, upTo
<1>6. CASE k # 0
  <2>0. k \in 1 .. Len(s) /\ k \in 1 .. k
    BY <1>0, <1>6
  <2>1. ASSUME NEW f \in upTo PROVE f.ts < s[k].ts \/ (f.ts = s[k].ts /\ f.n <= s[k].n)
    <3>1. PICK i \in 1 .. k : f = s[i]
      BY <1>4
    <3>2. i \in 1 .. Len(s) /\ i <= k
      BY <1>0
    <3>3. s[i].ts <= s[k].ts /\ s[i].ts \in Int /\ s[k].ts \in Int /\ s[i].n \in Nat /\ s[k].n \in Nat
      BY <1>0, <2>0, <3>2
    <3>4. s[i].n <= s[k].n
      <4>1. CASE i = k
        BY <3>3, <4>1
      <4>2. CASE i # k
        <5>1. i < k
          BY <3>2, <4>2, <2>0
        <5> QED BY <1>1, <2>0, <3>2, <3>3, <5>1
      <4> QED BY <4>1, <4>2
    <3> QED BY <3>1, <3>3, <3>4
  <2>2. s[k] \in best
    BY <1>4, <2>0, <2>1
  <2>3. ASSUME NEW e \in best PROVE e = s[k]
    <3>1. PICK i \in 1 .. k : e = s[i]
      BY <1>4
    <3>2. i \in 1 .. Len(s) /\ i <= k
      BY <1>0
    <3>3. s[k].ts < e.ts \/ (s[k].ts = e.ts /\ s[k].n <= e.n)
      BY <1>4, <2>0
    <3>4. s[i].ts <= s[k].ts /\ s[i].ts \in Int /\ s[k].ts \in Int /\ s[i].n \in Nat /\ s[k].n \in Nat
      BY <1>0, <2>0, <3>2
    <3>5. s[k].n <= s[i].n
      BY <3>1, <3>3, <3>4
    <3>6. i = k
      <4>1. ASSUME i # k PROVE FALSE
        <5>1. i < k
          BY <2>0, <3>2, <4>1
        <5>2. s[i].n < s[k].n
          BY <1>1, <2>0, <3>2, <5>1
        <5> QED BY <3>4, <3>5, <5>2
      <4> QED BY <4>1
    <3> QED BY <3>1, <3>6
  <2>4. best = {s[k]}
    <3> HIDE DEF best
    <3> QED BY <2>2, <2>3
  <2> QED BY <1>2, <1>6, <2>4 DEF s, upTo
<1> QED BY <1>5, <1>6

(* Without flushes the entries of a series stay in the order they were     *)
(* pushed in.                                                              *)
LEMMA OrderKept ==
    ASSUME IndInv, OrderInv, [Next]_vars, "flushTo" \notin Ops
    PROVE  OrderInv'
<1> SUFFICES ASSUME NEW n \in Series PROVE PushOrder(obj'[n].entries)
  BY DEF OrderInv, PushOrder
<1> DEFINE old == obj[n].entries
<1>0. /\ SeriesOK(obj[n]) /\ old \in Seq(Entry) /\ TypeOK /\ pushed \in Nat
      /\ PushOrder(old) /\ \A x \in Numbers(old) : x <= pushed
  BY DEF IndInv, ContentInv, SeriesOK, Stored, TypeOK, OrderInv
<1>a. ASSUME NEW s \in Seq(Entry), PushOrder(s), NEW q, Suffix(q, s) PROVE PushOrder(q)
  <2>1. PICK k \in 0 .. Len(s) : q = SubSeq(s, k + 1, Len(s))
    BY <1>a DEF Suffix
  <2>2. Len(q) = Len(s) - k /\ Len(s) \in Nat /\ \A i \in 1 .. Len(s) - k : q[i] = s[k + i]
    BY <2>1, SuffixFacts
  <2>3. ASSUME NEW i \in 1 .. Len(q), NEW j \in 1 .. Len(q), i < j PROVE q[i].n < q[j].n
    <3>1. k + i \in 1 .. Len(s) /\ k + j \in 1 .. Len(s) /\ k + i < k + j
      BY <2>2, <2>3
    <3> QED BY <1>a, <2>2, <3>1 DEF PushOrder
  <2> QED BY <2>3 DEF PushOrder
<1>1. CASE Suffix(obj'[n].entries, old)
  BY <1>0, <1>1, <1>a
<1>2. CASE Pushes(n)
  <2>1. PICK ts \in Times, size \in Nat : InOrder(obj[n], ts) /\ obj'[n] = push(obj[n], ts, size)
    BY <1>2 DEF Pushes
  <2> DEFINE e == [ts |-> ts, size |-> size, n |-> pushed + 1]
             all == Append(old, e)
  <2>2. DOMAIN old = 1 .. Len(old) /\ \A i \in 1 .. Len(old) : old[i].n <= pushed /\ old[i].n \in Nat
    <3>1. DOMAIN old = 1 .. Len(old)
      BY <1>0
    <3>2. ASSUME NEW i \in 1 .. Len(old) PROVE old[i].n \in Nat
      <4>1. old[i] \in Entry
        BY <1>0
      <4> QED BY <4>1 DEF Entry
    <3>3. ASSUME NEW i \in 1 .. Len(old) PROVE old[i].n <= pushed
      BY <1>0, <3>1 DEF Numbers
    <3> QED BY <3>1, <3>2, <3>3
  <2>3. PICK k \in 0 .. Len(old) + 1 : obj'[n].entries = SubSeq(all, k + 1, Len(old) + 1)
    <3>1. \A i \in 1 .. Len(old) : old[i].n <= pushed
      BY <2>2
    <3>2. \E k \in 0 .. Len(old) + 1 : push(obj[n], ts, size).entries = SubSeq(all, k + 1, Len(old) + 1)
      BY <1>0, <2>1, <3>1, PushOK
    <3> QED BY <2>1, <3>2
  <2>4. e \in Entry /\ e.n = pushed + 1
    BY <1>0 DEF Entry
  <2> HIDE DEF e, old
  <2>5. /\ all \in Seq(Entry) /\ Len(all) = Len(old) + 1 /\ Len(old) \in Nat /\ all[Len(old) + 1] = e
        /\ \A i \in 1 .. Len(old) : all[i] = old[i]
    BY <1>0, <2>4
  <2> HIDE DEF all
  <2>6. PushOrder(all)
    <3>1. ASSUME NEW i \in 1 .. Len(all), NEW j \in 1 .. Len(all), i < j PROVE all[i].n < all[j].n
      <4>1. i \in 1 .. Len(old) /\ (j \in 1 .. Len(old) \/ j = Len(old) + 1)
        BY <2>5, <3>1
      <4>2. CASE j \in 1 .. Len(old)
        BY <1>0, <2>5, <3>1, <4>1, <4>2 DEF PushOrder
      <4>3. CASE j = Len(old) + 1
        <5>1. all[i].n <= pushed /\ all[i].n \in Nat /\ all[j].n = pushed + 1
          BY <2>2, <2>4, <2>5, <4>1, <4>3
        <5> QED BY <1>0, <5>1
      <4> QED BY <4>1, <4>2, <4>3
    <3> QED BY <3>1 DEF PushOrder
  <2>7. Suffix(obj'[n].entries, all)
    BY <2>3, <2>5 DEF Suffix
  <2> QED BY <1>a, <2>5, <2>6, <2>7
<1>3. ~Receives(n)
  BY <1>0, CallFacts DEF Receives, TypeOK
<1> QED BY <1>1, <1>2, <1>3, EntriesStep

(* latestAt answers with the newest entry after any pushes, evictions and  *)
(* budget changes of any number of threads. A flush is left out on purpose:*)
(* it puts entries of another series behind, so that of two entries with   *)
(* the same timestamp the one behind need not be the one pushed last.      *)
THEOREM LookupsAreConsistent == "flushTo" \notin Ops => (Spec => []LookupsConsistent)
<1> SUFFICES ASSUME "flushTo" \notin Ops PROVE Spec => []LookupsConsistent
  OBVIOUS
<1>1. Init => OrderInv
  <2> SUFFICES ASSUME Init, NEW n \in Series PROVE PushOrder(obj[n].entries)
    BY DEF OrderInv
  <2>1. obj[n].entries = <<>>
    BY DEF Init, NewSeries
  <2> QED BY <2>1 DEF PushOrder
<1>2. IndInv /\ OrderInv /\ [Next]_vars => OrderInv'
  BY OrderKept
<1>3. IndInv /\ OrderInv => LookupsConsistent
  <2> SUFFICES ASSUME IndInv, OrderInv PROVE LookupsConsistent
    OBVIOUS
  <2>1. ASSUME NEW n \in Live, NEW ts \in Times
        PROVE  LET upTo == {e \in Range(obj[n].entries) : e.ts <= ts}
               IN  latestAt(obj[n], ts) =
                     {e \in upTo : \A f \in upTo : f.ts < e.ts \/ (f.ts = e.ts /\ f.n <= e.n)}
    <3>1. n \in Series
      BY SeriesInFacts DEF Live, IndInv
    <3>2. SeriesOK(obj[n]) /\ PushOrder(obj[n].entries)
      BY <3>1 DEF IndInv, ContentInv, OrderInv
    <3> QED BY <3>2, NewestFound
  <2> QED BY <2>1, InvGivesConsistency DEF LookupsConsistent, LatestAtIsNewest
<1> QED BY <1>1, <1>2, <1>3, Inductive, PTL DEF Spec
=============================================================================
