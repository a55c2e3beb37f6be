---------------------------- MODULE SequenceFacts --------------------------
(***************************************************************************)
(* Facts that the proofs share: induction in a form the provers can apply  *)
(* (a set of natural numbers that is not empty has a least element, so a   *)
(* proof by induction takes the least counterexample), and cutting and     *)
(* joining sequences.                                                      *)
(***************************************************************************)
EXTENDS Integers, Sequences, SequencesExt, SequenceTheorems, WellFoundedInduction, TLAPS

(* The least-number principle, for sets.                                   *)
LEMMA LeastNatural ==
    ASSUME NEW S \in SUBSET Nat, S # {}
    PROVE  \E n \in S : \A m \in S : n <= m
<1>1. IsWellFoundedOn(OpToRel(<, Nat), Nat)
  BY NatLessThanWellFounded
<1>2. \A R : IsWellFoundedOn(R, Nat) => \E x \in S : \A y \in S : ~(<<y, x>> \in R)
  BY WFMin
<1>3. PICK x \in S : \A y \in S : ~(<<y, x>> \in OpToRel(<, Nat))
  BY <1>1, <1>2
<1>4. \A y \in S : ~(y < x)
  BY <1>3 DEF OpToRel
<1> QED BY <1>4

(* Induction over an interval 0 .. n: a subset that holds 0 and, with i,   *)
(* also i + 1 is all of it.                                                *)
LEMMA IntervalInduction ==
    ASSUME NEW n \in Nat, NEW S, 0 \in S, \A i \in 0 .. n - 1 : i \in S => i + 1 \in S
    PROVE  0 .. n \subseteq S
<1> SUFFICES ASSUME ~(0 .. n \subseteq S) PROVE FALSE
  OBVIOUS
<1> DEFINE Bad == {i \in 0 .. n : i \notin S}
<1>1. Bad \in SUBSET Nat /\ Bad # {}
  OBVIOUS
<1>2. PICK m \in Bad : \A k \in Bad : m <= k
  BY <1>1, LeastNatural
<1>3. m # 0
  OBVIOUS
<1>4. m - 1 \in 0 .. n - 1 /\ m - 1 \notin Bad
  BY <1>2, <1>3
<1>5. m - 1 \in S
  BY <1>4
<1> QED BY <1>4, <1>5

-----------------------------------------------------------------------------
(* Sequences. *)

(* A sequence cut in two: what a loop over its front drops and what it     *)
(* leaves.                                                                 *)
LEMMA SuffixFacts ==
    ASSUME NEW T, NEW s \in Seq(T), NEW k \in 0 .. Len(s)
    PROVE  /\ SubSeq(s, k + 1, Len(s)) \in Seq(T)
           /\ Len(SubSeq(s, k + 1, Len(s))) = Len(s) - k
           /\ \A i \in 1 .. Len(s) - k : SubSeq(s, k + 1, Len(s))[i] = s[k + i]
           /\ SubSeq(s, 1, k) \in Seq(T)
           /\ Len(SubSeq(s, 1, k)) = k
           /\ \A i \in 1 .. k : SubSeq(s, 1, k)[i] = s[i]
           /\ s = SubSeq(s, 1, k) \o SubSeq(s, k + 1, Len(s))
<1>0. Len(s) \in Nat /\ \A i \in 1 .. Len(s) : s[i] \in T
  OBVIOUS
<1>1. /\ SubSeq(s, k + 1, Len(s)) \in Seq(T)
      /\ Len(SubSeq(s, k + 1, Len(s))) = Len(s) - k
      /\ \A i \in 1 .. Len(s) - k : SubSeq(s, k + 1, Len(s))[i] = s[k + i]
  BY <1>0
<1>2. /\ SubSeq(s, 1, k) \in Seq(T)
      /\ Len(SubSeq(s, 1, k)) = k
      /\ \A i \in 1 .. k : SubSeq(s, 1, k)[i] = s[i]
  BY <1>0
<1>3. s = SubSeq(s, 1, k) \o SubSeq(s, k + 1, Len(s))
  <2> DEFINE p == SubSeq(s, 1, k)
             q == SubSeq(s, k + 1, Len(s))
  <2>0. /\ p \in Seq(T) /\ q \in Seq(T) /\ Len(p) = k /\ Len(q) = Len(s) - k
        /\ \A i \in 1 .. Len(s) - k : q[i] = s[k + i]
        /\ \A i \in 1 .. k : p[i] = s[i]
    BY <1>1, <1>2
  <2> HIDE DEF p, q
  <2>1. Len(p \o q) = Len(s) /\ p \o q \in Seq(T)
    BY <1>0, <2>0
  <2>2. ASSUME NEW i \in 1 .. Len(s) PROVE (p \o q)[i] = s[i]
    <3>1. CASE i <= k
      BY <1>0, <2>0, <3>1
    <3>2. CASE i > k
      <4>1. (p \o q)[i] = q[i - k] /\ i - k \in 1 .. Len(s) - k
        BY <1>0, <2>0, <3>2
      <4> QED BY <1>0, <2>0, <4>1
    <3>3. i <= k \/ i > k
      BY <1>0
    <3> QED BY <3>1, <3>2, <3>3
  <2>3. s = p \o q
    BY <2>1, <2>2, SeqEqual
  <2> QED BY <2>3 DEF p, q
<1> QED BY <1>1, <1>2, <1>3

(* Two sequences behind each other.                                        *)
LEMMA ConcatFacts ==
    ASSUME NEW T, NEW s \in Seq(T), NEW t \in Seq(T)
    PROVE  /\ s \o t \in Seq(T) /\ Len(s \o t) = Len(s) + Len(t)
           /\ \A i \in 1 .. Len(s) : (s \o t)[i] = s[i]
           /\ \A i \in 1 .. Len(t) : (s \o t)[Len(s) + i] = t[i]
<1>1. s \o t \in Seq(T) /\ Len(s \o t) = Len(s) + Len(t)
  OBVIOUS
<1>2. ASSUME NEW i \in 1 .. Len(s) PROVE (s \o t)[i] = s[i]
  OBVIOUS
<1>3. ASSUME NEW i \in 1 .. Len(t) PROVE (s \o t)[Len(s) + i] = t[i]
  OBVIOUS
<1> QED BY <1>1, <1>2, <1>3
-----------------------------------------------------------------------------
(* Flattening a sequence of sequences. *)

(* f holds what the first sequences of ss give one after the other.        *)
Joined(f, ss, T) ==
    /\ f \in [0 .. Len(ss) -> Seq(T)]
    /\ f[0] = <<>>
    /\ \A i \in 1 .. Len(ss) : f[i] = f[i - 1] \o ss[i]

(* The prefixes of a concatenation of sequences exist.                     *)
LEMMA JoinsExist ==
    ASSUME NEW T, NEW ss \in Seq(Seq(T))
    PROVE  \E f : Joined(f, ss, T)
<1> DEFINE Upto(f, n) == /\ f \in [0 .. n -> Seq(T)]
                         /\ f[0] = <<>>
                         /\ \A i \in 1 .. n : f[i] = f[i - 1] \o ss[i]
           S == {n \in 0 .. Len(ss) : \E f : Upto(f, n)}
<1>0. Len(ss) \in Nat /\ \A i \in 1 .. Len(ss) : ss[i] \in Seq(T)
  OBVIOUS
<1>1. 0 \in S
  <2>1. Upto([i \in 0 .. 0 |-> <<>>], 0)
    OBVIOUS
  <2>2. \E f : Upto(f, 0)
    BY <2>1
  <2> HIDE DEF Upto
  <2> QED BY <2>2, <1>0
<1>2. ASSUME NEW n \in 0 .. Len(ss) - 1, n \in S
      PROVE  n + 1 \in S
  <2>1. PICK f : Upto(f, n)
    BY <1>2
  <2> DEFINE v == f[n] \o ss[n + 1]
             g == [i \in 0 .. n + 1 |-> IF i = n + 1 THEN v ELSE f[i]]
  <2>2. v \in Seq(T)
    <3>1. f[n] \in Seq(T) /\ ss[n + 1] \in Seq(T)
      BY <1>0, <2>1
    <3> QED BY <3>1
  <2>3. \A i \in 0 .. n + 1 : (IF i = n + 1 THEN v ELSE f[i]) \in Seq(T)
    <3> HIDE DEF v
    <3> QED BY <2>1, <2>2
  <2>4. g \in [0 .. n + 1 -> Seq(T)] /\ g[0] = <<>>
    BY <2>1, <2>3
  <2>5. ASSUME NEW i \in 1 .. n + 1 PROVE g[i] = g[i - 1] \o ss[i]
    <3>1. CASE i = n + 1
      <4>0. i \in 0 .. n + 1 /\ i - 1 \in 0 .. n + 1 /\ i - 1 = n /\ i - 1 # n + 1
        BY <3>1
      <4> HIDE DEF v
      <4>1. g[i] = v /\ g[i - 1] = f[n]
        BY <3>1, <4>0
      <4> USE DEF v
      <4> QED BY <3>1, <4>1
    <3>2. CASE i # n + 1
      <4>1. i \in 1 .. n /\ i \in 0 .. n + 1 /\ i - 1 \in 0 .. n + 1 /\ i - 1 # n + 1
        BY <3>2
      <4>2. g[i] = f[i] /\ g[i - 1] = f[i - 1]
        BY <3>2, <4>1
      <4> QED BY <2>1, <4>1, <4>2
    <3> QED BY <3>1, <3>2
  <2> HIDE DEF g
  <2>6. Upto(g, n + 1)
    BY <2>4, <2>5
  <2>7. \E h : Upto(h, n + 1)
    BY <2>6
  <2> HIDE DEF Upto
  <2> QED BY <2>7, <1>0
<1>3. 0 .. Len(ss) \subseteq S
  <2> HIDE DEF S
  <2> QED BY <1>0, <1>1, <1>2, IntervalInduction
<1>4. Len(ss) \in S
  <2> HIDE DEF S
  <2>1. Len(ss) \in 0 .. Len(ss)
    BY <1>0
  <2> QED BY <1>3, <2>1
<1>5. PICK f : Upto(f, Len(ss))
  BY <1>4
<1> QED BY <1>5 DEF Joined

(* FlattenSeq gives the last of the prefixes: its recursive definition is  *)
(* unfolded for a function that satisfies it.                              *)
LEMMA FlattenIsJoin ==
    ASSUME NEW T, NEW ss \in Seq(Seq(T)), NEW f, Joined(f, ss, T)
    PROVE  FlattenSeq(ss) = f[Len(ss)] /\ FlattenSeq(ss) \in Seq(T)
<1> DEFINE n == Len(ss)
           Eq(h) == h = [i \in 1 .. n |-> IF i = 1 THEN ss[i] ELSE h[i - 1] \o ss[i]]
           g == CHOOSE h : Eq(h)
<1>0. n \in Nat /\ (\A i \in 1 .. n : ss[i] \in Seq(T)) /\ f[n] \in Seq(T)
  BY DEF Joined
<1>1. CASE n = 0
  <2>1. ss = <<>>
    BY <1>1
  <2>2. FlattenSeq(ss) = ss
    BY <1>1 DEF FlattenSeq
  <2> QED BY <1>0, <1>1, <2>1, <2>2 DEF Joined
<1>2. CASE n # 0
  <2> DEFINE e == [i \in 1 .. n |-> f[i]]
  <2>1. Eq(e)
    <3>1. ASSUME NEW i \in 1 .. n PROVE f[i] = IF i = 1 THEN ss[i] ELSE e[i - 1] \o ss[i]
      <4>1. f[i] = f[i - 1] \o ss[i] /\ ss[i] \in Seq(T)
        BY <1>0 DEF Joined
      <4>2. CASE i = 1
        <5>1. f[i - 1] = <<>>
          BY <4>2 DEF Joined
        <5> QED BY <4>1, <4>2, <5>1
      <4>3. CASE i # 1
        <5>1. i - 1 \in 1 .. n
          BY <1>0, <4>3
        <5>2. e[i - 1] = f[i - 1]
          BY <5>1
        <5> QED BY <4>1, <4>3, <5>2
      <4> QED BY <4>2, <4>3
    <3> QED BY <3>1
  <2>2. Eq(g)
    BY <2>1
  <2>3. FlattenSeq(ss) = g[n]
    BY <1>2 DEF FlattenSeq
  <2> HIDE DEF g, e
  <2>4. \A i \in 1 .. n : g[i] = IF i = 1 THEN ss[i] ELSE g[i - 1] \o ss[i]
    BY <2>2
  <2> DEFINE S == {i \in 0 .. n : i = 0 \/ f[i] = g[i]}
  <2>5. 0 \in S
    BY <1>0
  <2>6. ASSUME NEW i \in 0 .. n - 1, i \in S PROVE i + 1 \in S
    <3>1. PICK k \in 1 .. n : k = i + 1 /\ k - 1 = i /\ k \in 0 .. n
      BY <1>0
    <3>2. f[k] = f[i] \o ss[k] /\ ss[k] \in Seq(T)
      <4>1. f[k] = f[k - 1] \o ss[k]
        BY DEF Joined
      <4>2. ss[k] \in Seq(T)
        BY <1>0
      <4> QED BY <3>1, <4>1, <4>2, Zenon
    <3>3. CASE i = 0
      <4>1. f[i] = <<>> /\ k = 1
        BY <3>1, <3>3 DEF Joined
      <4>2. g[k] = ss[k]
        BY <2>4, <4>1
      <4>3. f[k] = ss[k]
        BY <3>2, <4>1
      <4> QED BY <3>1, <4>2, <4>3
    <3>4. CASE i # 0
      <4>1. f[i] = g[i] /\ k # 1
        BY <2>6, <3>1, <3>4
      <4>2. g[k] = g[k - 1] \o ss[k]
        BY <2>4, <4>1
      <4>3. f[k] = g[k]
        BY <3>1, <3>2, <4>1, <4>2, Zenon
      <4> QED BY <3>1, <4>3
    <3> QED BY <3>3, <3>4
  <2>7. 0 .. n \subseteq S
    <3> HIDE DEF S
    <3> QED BY <1>0, <2>5, <2>6, IntervalInduction
  <2>8. f[n] = g[n]
    BY <1>0, <1>2, <2>7
  <2> QED BY <1>0, <2>3, <2>8
<1> QED BY <1>1, <1>2

(* Sequences of one element or none, flattened: h says where each element  *)
(* of the result comes from, in order; every nonempty one is the source of *)
(* one.                                                                    *)
PickedBy(h, q, ss, n) ==
    /\ h \in [1 .. Len(q) -> 1 .. n]
    /\ \A k \in 1 .. Len(q) : ss[h[k]] = <<q[k]>>
    /\ \A k, m \in 1 .. Len(q) : h[k] = h[m] => k = m
    /\ \A k, m \in 1 .. Len(q) : k < m => h[k] < h[m]
    /\ \A i \in 1 .. n : ss[i] # <<>> => \E k \in 1 .. Len(q) : h[k] = i

(* One more sequence with an element.                                      *)
LEMMA PickedMore ==
    ASSUME NEW T, NEW ss \in Seq(Seq(T)), NEW n \in 1 .. Len(ss), NEW a \in Seq(T), NEW t \in T,
           ss[n] = <<t>>, NEW h, PickedBy(h, a, ss, n - 1)
    PROVE  \E g : PickedBy(g, a \o <<t>>, ss, n)
<1> DEFINE l == Len(a)
           q == a \o <<t>>
           g == [k \in 1 .. l + 1 |-> IF k = l + 1 THEN n ELSE h[k]]
<1>0. l \in Nat /\ n \in Nat
  OBVIOUS
<1>1. Len(q) = l + 1 /\ (\A k \in 1 .. l : q[k] = a[k]) /\ q[l + 1] = t
  <2>1. <<t>> \in Seq(T) /\ Len(<<t>>) = 1 /\ <<t>>[1] = t
    OBVIOUS
  <2> HIDE DEF q
  <2>2. Len(q) = l + 1 /\ (\A k \in 1 .. l : q[k] = a[k]) /\ \A k \in 1 .. 1 : q[l + k] = <<t>>[k]
    BY <2>1, ConcatFacts DEF q
  <2> QED BY <2>1, <2>2
<1>2. /\ h \in [1 .. l -> 1 .. n - 1]
      /\ \A k \in 1 .. l : ss[h[k]] = <<a[k]>>
      /\ \A k, m \in 1 .. l : h[k] = h[m] => k = m
      /\ \A k, m \in 1 .. l : k < m => h[k] < h[m]
      /\ \A i \in 1 .. n - 1 : ss[i] # <<>> => \E k \in 1 .. l : h[k] = i
  BY DEF PickedBy
<1> HIDE DEF l, q
<1>3. \A k \in 1 .. l : k \in 1 .. l + 1 /\ k # l + 1 /\ h[k] \in 1 .. n /\ h[k] # n
  BY <1>0, <1>2
<1>4. g \in [1 .. l + 1 -> 1 .. n]
  BY <1>0, <1>3
<1>5. g[l + 1] = n /\ \A k \in 1 .. l : g[k] = h[k]
  BY <1>0, <1>3
<1> HIDE DEF g
<1>6. \A k \in 1 .. l + 1 : k = l + 1 \/ k \in 1 .. l
  BY <1>0
<1>7. ASSUME NEW k \in 1 .. l + 1 PROVE ss[g[k]] = <<q[k]>>
  BY <1>1, <1>2, <1>5, <1>6
<1>8. ASSUME NEW k \in 1 .. l + 1, NEW m \in 1 .. l + 1, g[k] = g[m] PROVE k = m
  BY <1>2, <1>3, <1>5, <1>6, <1>8
<1>9. ASSUME NEW k \in 1 .. l + 1, NEW m \in 1 .. l + 1, k < m PROVE g[k] < g[m]
  <2>1. k \in 1 .. l
    BY <1>0, <1>6, <1>9
  <2>2. CASE m = l + 1
    <3>1. g[m] = n /\ g[k] \in 1 .. n - 1
      BY <1>2, <1>5, <2>1, <2>2
    <3> QED BY <1>0, <3>1
  <2>3. CASE m \in 1 .. l
    BY <1>2, <1>5, <1>9, <2>1, <2>3
  <2> QED BY <1>6, <2>2, <2>3
<1>10. ASSUME NEW i \in 1 .. n, ss[i] # <<>> PROVE \E k \in 1 .. l + 1 : g[k] = i
  <2>1. CASE i = n
    <3>1. l + 1 \in 1 .. l + 1
      BY <1>0
    <3> QED BY <1>5, <2>1, <3>1
  <2>2. CASE i # n
    <3>1. i \in 1 .. n - 1
      BY <1>0, <2>2
    <3>2. PICK k \in 1 .. l : h[k] = i
      BY <1>2, <1>10, <3>1
    <3> QED BY <1>3, <1>5, <3>2
  <2> QED BY <2>1, <2>2
<1>11. PickedBy(g, q, ss, n)
  BY <1>1, <1>4, <1>7, <1>8, <1>10, <1>9 DEF PickedBy
<1> QED BY <1>11 DEF q

(* What FlattenSeq picks.                                                  *)
LEMMA Picked ==
    ASSUME NEW T, NEW ss \in Seq(Seq(T)),
           \A i \in 1 .. Len(ss) : ss[i] = <<>> \/ \E t \in T : ss[i] = <<t>>
    PROVE  FlattenSeq(ss) \in Seq(T) /\ \E h : PickedBy(h, FlattenSeq(ss), ss, Len(ss))
<1> DEFINE n == Len(ss)
<1>0. n \in Nat /\ \A i \in 1 .. n : ss[i] \in Seq(T)
  OBVIOUS
<1>1. PICK f : Joined(f, ss, T)
  BY JoinsExist
<1>2. FlattenSeq(ss) = f[n] /\ FlattenSeq(ss) \in Seq(T)
  BY <1>1, FlattenIsJoin
<1>3. /\ f \in [0 .. n -> Seq(T)] /\ f[0] = <<>>
      /\ \A i \in 1 .. n : f[i] = f[i - 1] \o ss[i]
  BY <1>1 DEF Joined
<1> DEFINE P(i) == \E h : PickedBy(h, f[i], ss, i)
           S == {i \in 0 .. n : P(i)}
<1>4. 0 \in S
  <2>1. PickedBy(<<>>, <<>>, ss, 0)
    BY DEF PickedBy
  <2>2. 0 \in 0 .. n
    BY <1>0
  <2> QED BY <1>3, <2>1, <2>2
<1>5. ASSUME NEW i \in 0 .. n - 1, i \in S PROVE i + 1 \in S
  <2>0. i + 1 \in 1 .. n /\ (i + 1) - 1 = i /\ i + 1 \in 0 .. n /\ i \in 0 .. n
    BY ONLY <1>0, i \in 0 .. n - 1
  <2>1. PICK k \in 1 .. n : k = i + 1 /\ k - 1 = i /\ k \in 0 .. n /\ i \in 0 .. n
    BY ONLY <2>0
  <2>2. PICK h : PickedBy(h, f[i], ss, i)
    BY <1>5
  <2>3. f[k] = f[i] \o ss[k] /\ f[i] \in Seq(T)
    <3>1. f[k] = f[k - 1] \o ss[k]
      BY <1>3
    <3>2. f[k] = f[i] \o ss[k]
      BY <2>1, <3>1, Zenon
    <3> QED BY <1>3, <2>1, <3>2
  <2>4. CASE ss[k] = <<>>
    <3>1. f[k] = f[i]
      BY <2>3, <2>4
    <3>2. \A j \in 1 .. k : ss[j] # <<>> => j \in 1 .. i
      BY <1>0, <2>1, <2>4
    <3>3. \A j \in 1 .. i : j \in 1 .. k
      BY <1>0, <2>1
    <3>4. PickedBy(h, f[k], ss, k)
      BY <2>2, <3>1, <3>2, <3>3 DEF PickedBy
    <3> QED BY <2>1, <3>4
  <2>5. CASE \E t \in T : ss[k] = <<t>>
    <3>1. PICK t \in T : ss[k] = <<t>>
      BY <2>5
    <3>2. PickedBy(h, f[i], ss, k - 1)
      BY <2>1, <2>2
    <3>3. \E g : PickedBy(g, f[i] \o <<t>>, ss, k)
      BY <2>3, <3>1, <3>2, PickedMore
    <3>4. P(k)
      BY <2>3, <3>1, <3>3
    <3> HIDE DEF P
    <3> QED BY <2>1, <3>4
  <2> QED BY <2>4, <2>5
<1>6. 0 .. n \subseteq S
  <2> HIDE DEF S
  <2> QED BY <1>0, <1>4, <1>5, IntervalInduction
<1>7. n \in S
  <2> HIDE DEF S
  <2>1. n \in 0 .. n
    BY <1>0
  <2> QED BY <1>6, <2>1
<1>8. P(n)
  <2> HIDE DEF P
  <2> QED BY <1>7
<1> QED BY <1>2, <1>8

(* Sequences of one element each, flattened, are these elements.           *)
LEMMA PickedAll ==
    ASSUME NEW T, NEW s \in Seq(T)
    PROVE  FlattenSeq([i \in 1 .. Len(s) |-> <<s[i]>>]) = s
<1> DEFINE n == Len(s)
           ss == [i \in 1 .. n |-> <<s[i]>>]
           f == [i \in 0 .. n |-> SubSeq(s, 1, i)]
<1>0. n \in Nat /\ \A i \in 1 .. n : s[i] \in T
  OBVIOUS
<1>1. ss \in Seq(Seq(T)) /\ Len(ss) = n /\ \A i \in 1 .. n : ss[i] = <<s[i]>>
  <2>1. \A i \in 1 .. n : <<s[i]>> \in Seq(T)
    BY <1>0
  <2> HIDE DEF n
  <2> QED BY <1>0, <2>1
<1>2. \A i \in 0 .. n : SubSeq(s, 1, i) \in Seq(T) /\ Len(SubSeq(s, 1, i)) = i
                        /\ \A j \in 1 .. i : SubSeq(s, 1, i)[j] = s[j]
  BY SuffixFacts
<1>3. f \in [0 .. n -> Seq(T)] /\ \A i \in 0 .. n : f[i] = SubSeq(s, 1, i)
  BY <1>2
<1> HIDE DEF f, ss
<1>4. ASSUME NEW k \in 1 .. n PROVE f[k] = f[k - 1] \o ss[k]
  <2>1. PICK i \in 0 .. n : k = i + 1 /\ k - 1 = i /\ k \in 0 .. n
    BY <1>0
  <2> DEFINE a == f[i]
             b == f[k]
             u == <<s[k]>>
  <2>2. /\ a \in Seq(T) /\ Len(a) = i /\ (\A j \in 1 .. i : a[j] = s[j])
        /\ b \in Seq(T) /\ Len(b) = k /\ (\A j \in 1 .. k : b[j] = s[j])
        /\ u \in Seq(T) /\ Len(u) = 1 /\ u[1] = s[k]
    <3>1. a \in Seq(T) /\ Len(a) = i /\ (\A j \in 1 .. i : a[j] = s[j])
      BY <1>2, <1>3
    <3>2. b \in Seq(T) /\ Len(b) = k /\ (\A j \in 1 .. k : b[j] = s[j])
      BY <1>2, <1>3, <2>1
    <3>3. u \in Seq(T) /\ Len(u) = 1 /\ u[1] = s[k]
      BY <1>0
    <3> QED BY <3>1, <3>2, <3>3
  <2> HIDE DEF a, b, u, n
  <2>c. /\ a \o u \in Seq(T) /\ Len(a \o u) = Len(a) + Len(u)
        /\ \A x \in 1 .. Len(a) : (a \o u)[x] = a[x]
        /\ \A x \in 1 .. Len(u) : (a \o u)[Len(a) + x] = u[x]
    <3>1. a \in Seq(T) /\ u \in Seq(T)
      BY <2>2
    <3> QED BY <3>1, ConcatFacts
  <2>3. a \o u \in Seq(T) /\ Len(a \o u) = k
    BY <2>1, <2>2, <2>c
  <2>4. ASSUME NEW j \in 1 .. k PROVE (a \o u)[j] = b[j]
    <3>1. CASE j \in 1 .. i
      BY <2>1, <2>2, <2>c, <3>1
    <3>2. CASE j = k
      <4>1. (a \o u)[i + 1] = u[1]
        <5>1. \A x \in 1 .. Len(u) : (a \o u)[Len(a) + x] = u[x]
          BY <2>c
        <5>2. 1 \in 1 .. Len(u) /\ Len(a) = i
          BY <2>2
        <5> QED BY <5>1, <5>2
      <4> QED BY <2>1, <2>2, <3>2, <4>1
    <3>3. j \in 1 .. i \/ j = k
      BY <1>0, <2>1
    <3> QED BY <3>1, <3>2, <3>3
  <2>5. b = a \o u
    BY <2>2, <2>3, <2>4, SeqEqual
  <2>6. ss[k] = u
    BY <1>1 DEF u
  <2>7. f[k] = f[i] \o ss[k]
    BY <2>5, <2>6 DEF a, b
  <2> QED BY <2>1, <2>7, Zenon
<1>5. f[0] = <<>> /\ f[n] = s
  <2>1. 0 \in 0 .. n /\ n \in 0 .. n
    BY <1>0
  <2>2. f[0] \in Seq(T) /\ Len(f[0]) = 0
    BY <1>2, <1>3, <2>1
  <2>3. f[n] \in Seq(T) /\ Len(f[n]) = n /\ \A j \in 1 .. n : f[n][j] = s[j]
    BY <1>2, <1>3, <2>1
  <2>4. f[n] = s
    BY <2>3, SeqEqual
  <2> QED BY <2>2, <2>4
<1>6. Joined(f, ss, T)
  BY <1>1, <1>3, <1>4, <1>5 DEF Joined
<1>7. FlattenSeq(ss) = f[Len(ss)]
  BY <1>1, <1>6, FlattenIsJoin
<1> QED BY <1>1, <1>5, <1>7 DEF ss

(* f goes from x0 by the steps of g.                                       *)
Iterated(f, X, n, x0, g) ==
    f \in [0 .. n -> X] /\ f[0] = x0 /\ \A k \in 1 .. n : f[k] = g[k][f[k - 1]]

(* A recursive function over an interval exists, and its values are where  *)
(* its steps lead.                                                         *)
LEMMA Iterates ==
    ASSUME NEW X, NEW n \in Nat, NEW x0 \in X, NEW g \in [1 .. n -> [X -> X]]
    PROVE  \E f : Iterated(f, X, n, x0, g)
<1> DEFINE Upto(f, m) == f \in [0 .. m -> X] /\ f[0] = x0 /\ \A k \in 1 .. m : f[k] = g[k][f[k - 1]]
           S == {m \in 0 .. n : \E f : Upto(f, m)}
<1>1. 0 \in S
  <2>1. Upto([i \in 0 .. 0 |-> x0], 0)
    OBVIOUS
  <2>2. \E f : Upto(f, 0)
    BY <2>1
  <2> HIDE DEF Upto
  <2> QED BY <2>2
<1>2. ASSUME NEW m \in 0 .. n - 1, m \in S PROVE m + 1 \in S
  <2>1. PICK f : Upto(f, m)
    BY <1>2
  <2> DEFINE e == [k \in 0 .. m + 1 |-> IF k = m + 1 THEN g[m + 1][f[m]] ELSE f[k]]
  <2>2. m \in Nat /\ m + 1 \in 1 .. n /\ m \in 0 .. m /\ f[m] \in X /\ g[m + 1] \in [X -> X]
    BY <2>1
  <2>3. g[m + 1][f[m]] \in X
    BY <2>2
  <2>4. e \in [0 .. m + 1 -> X] /\ e[m + 1] = g[m + 1][f[m]] /\ \A k \in 0 .. m : e[k] = f[k]
    BY <2>1, <2>2, <2>3
  <2> HIDE DEF e
  <2>5. ASSUME NEW k \in 1 .. m + 1 PROVE e[k] = g[k][e[k - 1]]
    <3>1. CASE k = m + 1
      <4>1. k - 1 = m
        BY <2>2, <3>1
      <4> QED BY <2>2, <2>4, <3>1, <4>1
    <3>2. CASE k # m + 1
      <4>1. k \in 1 .. m /\ k \in 0 .. m /\ k - 1 \in 0 .. m
        BY <2>2, <3>2
      <4> QED BY <2>1, <2>4, <4>1
    <3> QED BY <3>1, <3>2
  <2>6. Upto(e, m + 1)
    BY <2>1, <2>2, <2>4, <2>5
  <2> HIDE DEF Upto
  <2>7. m + 1 \in 0 .. n
    BY <2>2
  <2> QED BY <2>6, <2>7
<1>3. 0 .. n \subseteq S
  <2> HIDE DEF S
  <2> QED BY <1>1, <1>2, IntervalInduction
<1>4. n \in 0 .. n
  OBVIOUS
<1>5. \E f : Upto(f, n)
  <2> HIDE DEF Upto
  <2> QED BY <1>3, <1>4
<1> QED BY <1>5 DEF Iterated

(* q has the elements of s with an index in K, in their order: the k-th is *)
(* the h[k]-th of s.                                                       *)
KeptBy(h, q, s, K) ==
    /\ h \in [1 .. Len(q) -> K]
    /\ \A k \in 1 .. Len(q) : q[k] = s[h[k]]
    /\ \A k, m \in 1 .. Len(q) : k < m => h[k] < h[m]
    /\ \A i \in K : \E k \in 1 .. Len(q) : h[k] = i

(* The elements of a sequence that are kept, in their order.               *)
LEMMA SelectSeqKeeps ==
    ASSUME NEW T, NEW s \in Seq(T), NEW K \in SUBSET (1 .. Len(s)), NEW q,
           q = FlattenSeq([i \in 1 .. Len(s) |-> IF i \in K THEN <<s[i]>> ELSE <<>>])
    PROVE  q \in Seq(T) /\ \E h : KeptBy(h, q, s, K)
<1> DEFINE n == Len(s)
           ss == [i \in 1 .. n |-> IF i \in K THEN <<s[i]>> ELSE <<>>]
<1>0. n \in Nat /\ \A i \in 1 .. n : s[i] \in T
  OBVIOUS
<1>1. \A i \in 1 .. n : <<s[i]>> \in Seq(T) /\ <<>> \in Seq(T) /\ <<s[i]>> # <<>>
  BY <1>0
<1>2. ss \in [1 .. n -> Seq(T)] /\ \A i \in 1 .. n : ss[i] = IF i \in K THEN <<s[i]>> ELSE <<>>
  BY <1>1
<1>3. q = FlattenSeq(ss)
  OBVIOUS
<1> HIDE DEF ss, n
<1>4. ss \in Seq(Seq(T)) /\ Len(ss) = n
  BY <1>0, <1>2
<1>5. \A i \in 1 .. Len(ss) : ss[i] = <<>> \/ \E t \in T : ss[i] = <<t>>
  BY <1>0, <1>2, <1>4
<1>6. q \in Seq(T) /\ \E h : PickedBy(h, q, ss, n)
  BY <1>3, <1>4, <1>5, Picked
<1>7. PICK h : PickedBy(h, q, ss, n)
  BY <1>6
<1>8. /\ h \in [1 .. Len(q) -> 1 .. n]
      /\ \A k \in 1 .. Len(q) : ss[h[k]] = <<q[k]>>
      /\ \A k, m \in 1 .. Len(q) : k < m => h[k] < h[m]
      /\ \A i \in 1 .. n : ss[i] # <<>> => \E k \in 1 .. Len(q) : h[k] = i
  BY <1>7 DEF PickedBy
<1>9. ASSUME NEW k \in 1 .. Len(q) PROVE h[k] \in K /\ q[k] = s[h[k]]
  <2>1. h[k] \in 1 .. n /\ ss[h[k]] = <<q[k]>>
    BY <1>8
  <2>2. <<q[k]>> # <<>>
    OBVIOUS
  <2>3. h[k] \in K /\ <<q[k]>> = <<s[h[k]]>>
    BY <1>2, <2>1, <2>2
  <2> QED BY <2>3
<1>10. h \in [1 .. Len(q) -> K]
  BY <1>8, <1>9
<1>11. \A i \in K : i \in 1 .. n /\ ss[i] # <<>>
  BY <1>1, <1>2 DEF n
<1>12. \A i \in K : \E k \in 1 .. Len(q) : h[k] = i
  BY <1>8, <1>11
<1>13. KeptBy(h, q, s, K)
  BY <1>8, <1>9, <1>10, <1>12 DEF KeptBy
<1> QED BY <1>6, <1>13

(* The elements of s \o t.                                                 *)
LEMMA ConcatIndex ==
    ASSUME NEW T, NEW s \in Seq(T), NEW t \in Seq(T), NEW x \in 1 .. Len(s \o t)
    PROVE  \/ x \in 1 .. Len(s) /\ (s \o t)[x] = s[x]
           \/ x > Len(s) /\ x - Len(s) \in 1 .. Len(t) /\ (s \o t)[x] = t[x - Len(s)]
<1>1. PICK u : u = s \o t
  OBVIOUS
<1>2. /\ Len(u) = Len(s) + Len(t)
      /\ \A i \in 1 .. Len(s) : u[i] = s[i]
      /\ \A i \in 1 .. Len(t) : u[Len(s) + i] = t[i]
  BY <1>1, ConcatFacts
<1>3. Len(s) \in Nat /\ Len(t) \in Nat
  OBVIOUS
<1>4. CASE x \in 1 .. Len(s)
  BY <1>1, <1>2, <1>4
<1>5. CASE x \notin 1 .. Len(s)
  <2>1. x > Len(s) /\ x - Len(s) \in 1 .. Len(t) /\ Len(s) + (x - Len(s)) = x
    BY <1>1, <1>2, <1>3, <1>5
  <2>2. u[Len(s) + (x - Len(s))] = t[x - Len(s)]
    BY <1>2, <2>1
  <2> QED BY <1>1, <2>1, <2>2
<1> QED BY <1>4, <1>5

(* The elements of s, any two in their order, are related by R.            *)
Pairwise(s, R) == \A i, j \in 1 .. Len(s) : i < j => <<s[i], s[j]>> \in R

(* So are those of two sequences one after the other.                      *)
LEMMA PairwiseConcat ==
    ASSUME NEW T, NEW s \in Seq(T), NEW t \in Seq(T), NEW R, Pairwise(s, R), Pairwise(t, R),
           \A i \in 1 .. Len(s) : \A j \in 1 .. Len(t) : <<s[i], t[j]>> \in R
    PROVE  Pairwise(s \o t, R)
<1>1. PICK u : u = s \o t
  OBVIOUS
<1>2. \A x \in 1 .. Len(u) : \/ x \in 1 .. Len(s) /\ u[x] = s[x]
                             \/ x > Len(s) /\ x - Len(s) \in 1 .. Len(t) /\ u[x] = t[x - Len(s)]
  BY <1>1, ConcatIndex
<1>3. Len(s) \in Nat /\ Len(u) \in Nat
  BY <1>1
<1>4. ASSUME NEW x \in 1 .. Len(u), NEW y \in 1 .. Len(u), x < y PROVE <<u[x], u[y]>> \in R
  <2>1. CASE x \in 1 .. Len(s) /\ y \in 1 .. Len(s)
    <3>1. u[x] = s[x] /\ u[y] = s[y]
      BY <1>2, <1>3, <2>1
    <3> QED BY <1>4, <2>1, <3>1 DEF Pairwise
  <2>2. CASE x \in 1 .. Len(s) /\ y \notin 1 .. Len(s)
    <3>1. u[x] = s[x] /\ y - Len(s) \in 1 .. Len(t) /\ u[y] = t[y - Len(s)]
      BY <1>2, <1>3, <2>2
    <3> QED BY <2>2, <3>1
  <2>3. CASE x \notin 1 .. Len(s)
    <3>1. y \notin 1 .. Len(s)
      BY <1>3, <1>4, <2>3
    <3>2. /\ x - Len(s) \in 1 .. Len(t) /\ u[x] = t[x - Len(s)]
          /\ y - Len(s) \in 1 .. Len(t) /\ u[y] = t[y - Len(s)]
      BY <1>2, <2>3, <3>1
    <3>3. x - Len(s) < y - Len(s)
      BY <1>3, <1>4
    <3> QED BY <3>2, <3>3 DEF Pairwise
  <2> QED BY <2>1, <2>2, <2>3
<1> QED BY <1>1, <1>4 DEF Pairwise

(* And those of a concatenation of sequences.                              *)
LEMMA PairwiseFlatten ==
    ASSUME NEW T, NEW ss \in Seq(Seq(T)), NEW R,
           \A a \in 1 .. Len(ss) : Pairwise(ss[a], R),
           \A a, b \in 1 .. Len(ss) : a < b =>
               \A i \in 1 .. Len(ss[a]) : \A j \in 1 .. Len(ss[b]) : <<ss[a][i], ss[b][j]>> \in R
    PROVE  /\ FlattenSeq(ss) \in Seq(T) /\ Pairwise(FlattenSeq(ss), R)
           /\ \A x \in 1 .. Len(FlattenSeq(ss)) :
                 \E a \in 1 .. Len(ss) : \E i \in 1 .. Len(ss[a]) : FlattenSeq(ss)[x] = ss[a][i]
<1>0. PICK n \in Nat : n = Len(ss)
  OBVIOUS
<1>1. PICK f : Joined(f, ss, T)
  BY JoinsExist
<1>2. FlattenSeq(ss) = f[n] /\ FlattenSeq(ss) \in Seq(T)
  BY <1>0, <1>1, FlattenIsJoin
<1>3. /\ f \in [0 .. n -> Seq(T)] /\ f[0] = <<>> /\ (\A i \in 1 .. n : f[i] = f[i - 1] \o ss[i])
  BY <1>0, <1>1 DEF Joined
<1> DEFINE From(k, x) == \E a \in 1 .. k : \E i \in 1 .. Len(ss[a]) : f[k][x] = ss[a][i]
           P(k) == Pairwise(f[k], R) /\ \A x \in 1 .. Len(f[k]) : From(k, x)
           S == {k \in 0 .. n : P(k)}
<1>4. 0 \in S
  <2>1. Len(f[0]) = 0
    BY <1>3
  <2>2. P(0)
    BY <2>1 DEF Pairwise
  <2> HIDE DEF P
  <2> QED BY <1>0, <2>2
<1>5. ASSUME NEW k \in 0 .. n - 1, k \in S PROVE k + 1 \in S
  <2>1. P(k) /\ k \in Nat /\ k \in 0 .. n /\ k + 1 \in 0 .. n /\ k + 1 \in 1 .. n /\ (k + 1) - 1 = k
    BY <1>0, <1>5
  <2>2. PICK s \in Seq(T) : s = f[k]
    BY <1>3, <2>1
  <2>3. PICK t \in Seq(T) : t = ss[k + 1]
    BY <1>0, <2>1
  <2>4. f[k + 1] = s \o t
    BY <1>3, <2>1, <2>2, <2>3
  <2>5. ASSUME NEW i \in 1 .. Len(s), NEW j \in 1 .. Len(t) PROVE <<s[i], t[j]>> \in R
    <3>1. PICK a \in 1 .. k : \E x \in 1 .. Len(ss[a]) : s[i] = ss[a][x]
      BY <2>1, <2>2
    <3>2. PICK x \in 1 .. Len(ss[a]) : s[i] = ss[a][x]
      BY <3>1
    <3>3. a \in 1 .. Len(ss) /\ k + 1 \in 1 .. Len(ss) /\ a < k + 1
      BY <1>0, <2>1
    <3> QED BY <2>3, <3>2, <3>3
  <2>6. Pairwise(s, R) /\ Pairwise(t, R)
    BY <1>0, <2>1, <2>2, <2>3
  <2>7. Pairwise(s \o t, R)
    BY <2>5, <2>6, PairwiseConcat
  <2>8. ASSUME NEW x \in 1 .. Len(s \o t) PROVE From(k + 1, x)
    <3>1. CASE x \in 1 .. Len(s) /\ (s \o t)[x] = s[x]
      <4>1. PICK a \in 1 .. k : \E i \in 1 .. Len(ss[a]) : s[x] = ss[a][i]
        BY <2>1, <2>2, <3>1
      <4>2. a \in 1 .. k + 1
        BY <2>1
      <4> QED BY <2>4, <3>1, <4>1, <4>2
    <3>2. CASE x - Len(s) \in 1 .. Len(t) /\ (s \o t)[x] = t[x - Len(s)]
      <4>1. k + 1 \in 1 .. k + 1
        BY <2>1
      <4> QED BY <2>3, <2>4, <3>2, <4>1
    <3> QED BY <3>1, <3>2, ConcatIndex
  <2>9. P(k + 1)
    <3> HIDE DEF From
    <3> QED BY <2>4, <2>7, <2>8
  <2> HIDE DEF P
  <2> QED BY <2>1, <2>9
<1>6. 0 .. n \subseteq S
  <2> HIDE DEF S
  <2> QED BY <1>0, <1>4, <1>5, IntervalInduction
<1>7. P(n)
  <2>1. n \in 0 .. n
    BY <1>0
  <2> HIDE DEF P
  <2> QED BY <1>6, <2>1
<1> QED BY <1>0, <1>2, <1>7

(* A concatenation starts as its first sequence, unless that is empty.     *)
LEMMA FlattenHead ==
    ASSUME NEW T, NEW ss \in Seq(Seq(T)), ss # <<>>, ss[1] # <<>>
    PROVE  FlattenSeq(ss) \in Seq(T) /\ FlattenSeq(ss) # <<>> /\ FlattenSeq(ss)[1] = ss[1][1]
<1>0. PICK n \in Nat \ {0} : n = Len(ss)
  OBVIOUS
<1>1. PICK f : Joined(f, ss, T)
  BY JoinsExist
<1>2. FlattenSeq(ss) = f[n] /\ FlattenSeq(ss) \in Seq(T)
  BY <1>0, <1>1, FlattenIsJoin
<1>3. /\ f \in [0 .. n -> Seq(T)] /\ f[0] = <<>> /\ (\A i \in 1 .. n : f[i] = f[i - 1] \o ss[i])
  BY <1>0, <1>1 DEF Joined
<1>4. \A i \in 1 .. n : ss[i] \in Seq(T)
  BY <1>0
<1> DEFINE S == {k \in 0 .. n : k = 0 \/ (Len(f[k]) > 0 /\ f[k][1] = ss[1][1])}
<1>5. 0 \in S
  BY <1>0
<1>6. ASSUME NEW k \in 0 .. n - 1, k \in S PROVE k + 1 \in S
  <2>1. k \in Nat /\ k \in 0 .. n /\ k + 1 \in 0 .. n /\ k + 1 \in 1 .. n /\ (k + 1) - 1 = k
    BY <1>0
  <2>2. PICK s \in Seq(T) : s = f[k]
    BY <1>3, <2>1
  <2>3. PICK t \in Seq(T) : t = ss[k + 1]
    BY <1>4, <2>1
  <2>4. f[k + 1] = s \o t
    BY <1>3, <2>1, <2>2, <2>3
  <2>5. /\ Len(s \o t) = Len(s) + Len(t) /\ Len(s) \in Nat /\ Len(t) \in Nat
        /\ (\A i \in 1 .. Len(s) : (s \o t)[i] = s[i])
        /\ \A i \in 1 .. Len(t) : (s \o t)[Len(s) + i] = t[i]
    BY ConcatFacts
  <2>6. CASE k = 0
    <3>1. s = <<>> /\ Len(s) = 0 /\ t = ss[1] /\ Len(t) > 0
      BY <1>3, <2>2, <2>3, <2>6
    <3>2. (s \o t)[0 + 1] = t[1]
      BY <2>5, <3>1
    <3> QED BY <2>1, <2>4, <2>5, <3>1, <3>2
  <2>7. CASE k # 0
    <3>1. Len(s) > 0 /\ s[1] = ss[1][1]
      BY <1>6, <2>2, <2>7
    <3> QED BY <2>1, <2>4, <2>5, <3>1
  <2> QED BY <2>6, <2>7
<1>7. 0 .. n \subseteq S
  <2> HIDE DEF S
  <2> QED BY <1>0, <1>5, <1>6, IntervalInduction
<1>8. n \in 0 .. n /\ n # 0
  BY <1>0
<1>9. Len(f[n]) > 0 /\ f[n][1] = ss[1][1]
  BY <1>7, <1>8
<1>10. f[n] # <<>>
  BY <1>9
<1> QED BY <1>2, <1>9, <1>10
=============================================================================
