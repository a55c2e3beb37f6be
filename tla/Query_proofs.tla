---------------------------- MODULE Query_proofs ----------------------------
(***************************************************************************)
(* The read side of a topic, for any chunks and any requests: the lookups  *)
(* find what a scan would find, and a cursor delivers exactly the rows it  *)
(* was asked for.                                                          *)
(***************************************************************************)
EXTENDS Query, SequenceFacts

Positions == Nat \X Nat

Before(p, q) == p[1] < q[1] \/ (p[1] = q[1] /\ p[2] < q[2])

Earlier == {z \in Positions \X Positions : Before(z[1], z[2])}

(* s has the positions of S, each once, in order.                          *)
Enumerates(s, S) ==
    /\ s \in Seq(Positions)
    /\ Pairwise(s, Earlier)
    /\ \A i \in 1 .. Len(s) : s[i] \in S
    /\ \A p \in S : \E i \in 1 .. Len(s) : s[i] = p

(* Positions are totally ordered.                                          *)
LEMMA PositionOrder ==
    /\ \A p \in Positions : ~Before(p, p)
    /\ \A p, q \in Positions : Before(p, q) => ~Before(q, p)
    /\ \A p, q, r \in Positions : Before(p, q) /\ Before(q, r) => Before(p, r)
    /\ \A p, q \in Positions : Before(p, q) \/ p = q \/ Before(q, p)
<1>1. \A p \in Positions : p[1] \in Nat /\ p[2] \in Nat /\ p = <<p[1], p[2]>>
  BY DEF Positions
<1>2. \A p \in Positions : ~Before(p, p)
  BY <1>1 DEF Before
<1>3. \A p, q \in Positions : Before(p, q) => ~Before(q, p)
  BY <1>1 DEF Before
<1>4. \A p, q, r \in Positions : Before(p, q) /\ Before(q, r) => Before(p, r)
  BY <1>1 DEF Before
<1>5. ASSUME NEW p \in Positions, NEW q \in Positions PROVE Before(p, q) \/ p = q \/ Before(q, p)
  <2>1. p[1] = q[1] /\ p[2] = q[2] => p = q
    BY <1>1
  <2>2. p[1] \in Nat /\ p[2] \in Nat /\ q[1] \in Nat /\ q[2] \in Nat
    BY <1>1
  <2> QED BY <2>1, <2>2 DEF Before
<1> QED BY <1>2, <1>3, <1>4, <1>5

(* The definition in the form the proofs use.                              *)
LEMMA EnumeratedInOrder ==
    ASSUME NEW s, NEW S, Enumerates(s, S)
    PROVE  /\ s \in Seq(Positions) /\ Len(s) \in Nat
           /\ \A i \in 1 .. Len(s) : s[i] \in S /\ s[i] \in Positions
           /\ \A i, j \in 1 .. Len(s) : i < j => Before(s[i], s[j])
           /\ \A p \in S : p \in Positions /\ \E i \in 1 .. Len(s) : s[i] = p
<1>1. s \in Seq(Positions) /\ Len(s) \in Nat /\ \A i \in 1 .. Len(s) : s[i] \in Positions
  BY DEF Enumerates
<1>2. ASSUME NEW i \in 1 .. Len(s), NEW j \in 1 .. Len(s), i < j PROVE Before(s[i], s[j])
  <2>1. <<s[i], s[j]>> \in Earlier
    BY <1>2 DEF Enumerates, Pairwise
  <2> QED BY <2>1 DEF Earlier
<1> QED BY <1>1, <1>2 DEF Enumerates

LEMMA EnumeratesIntro ==
    ASSUME NEW s \in Seq(Positions), NEW S,
           \A i, j \in 1 .. Len(s) : i < j => Before(s[i], s[j]),
           \A i \in 1 .. Len(s) : s[i] \in S,
           \A p \in S : \E i \in 1 .. Len(s) : s[i] = p
    PROVE  Enumerates(s, S)
<1>1. \A i \in 1 .. Len(s) : s[i] \in Positions
  OBVIOUS
<1>2. Pairwise(s, Earlier)
  BY <1>1 DEF Pairwise, Earlier
<1> QED BY <1>2 DEF Enumerates

(* An enumeration of the first positions of a set is a prefix of the       *)
(* enumeration of the set.                                                 *)
LEMMA EnumeratesPrefix ==
    ASSUME NEW u, NEW U, NEW s, NEW S, Enumerates(u, U), Enumerates(s, S),
           U \subseteq S, \A p \in S, q \in U : Before(p, q) => p \in U
    PROVE  Len(u) <= Len(s) /\ \A i \in 1 .. Len(u) : u[i] = s[i]
<1>1. /\ Len(u) \in Nat
      /\ \A i \in 1 .. Len(u) : u[i] \in U /\ u[i] \in Positions
      /\ \A i, j \in 1 .. Len(u) : i < j => Before(u[i], u[j])
      /\ \A p \in U : p \in Positions /\ \E i \in 1 .. Len(u) : u[i] = p
  BY EnumeratedInOrder
<1>2. /\ Len(s) \in Nat
      /\ \A i \in 1 .. Len(s) : s[i] \in S /\ s[i] \in Positions
      /\ \A i, j \in 1 .. Len(s) : i < j => Before(s[i], s[j])
      /\ \A p \in S : p \in Positions /\ \E i \in 1 .. Len(s) : s[i] = p
  BY EnumeratedInOrder
<1> DEFINE M == {k \in 0 .. Len(u) : k <= Len(s) /\ \A i \in 1 .. k : u[i] = s[i]}
<1>3. 0 \in M
  BY <1>1, <1>2
<1>4. ASSUME NEW k \in 0 .. Len(u) - 1, k \in M PROVE k + 1 \in M
  <2>0. /\ k \in Nat /\ k + 1 \in 1 .. Len(u) /\ k + 1 \in 0 .. Len(u) /\ k <= Len(s)
        /\ (\A i \in 1 .. k : u[i] = s[i] /\ i \in 1 .. Len(u) /\ i \in 1 .. Len(s) /\ i < k + 1)
        /\ \A i \in 1 .. k + 1 : i \in 1 .. k \/ i = k + 1
    BY <1>1, <1>2, <1>4
  <2>1. u[k + 1] \in U /\ u[k + 1] \in S /\ u[k + 1] \in Positions
    BY <1>1, <2>0
  <2>2. PICK j \in 1 .. Len(s) : s[j] = u[k + 1]
    BY <1>2, <2>1
  <2>3. j \notin 1 .. k
    <3> SUFFICES ASSUME j \in 1 .. k PROVE FALSE
      OBVIOUS
    <3>1. u[j] = u[k + 1] /\ Before(u[j], u[k + 1])
      BY <1>1, <2>0, <2>2
    <3> QED BY <2>1, <3>1, PositionOrder
  <2>4. k + 1 <= j /\ k + 1 \in 1 .. Len(s)
    BY <1>2, <2>0, <2>3
  <2>5. j = k + 1
    <3> SUFFICES ASSUME j # k + 1 PROVE FALSE
      OBVIOUS
    <3>1. Before(s[k + 1], u[k + 1]) /\ s[k + 1] \in S /\ s[k + 1] \in Positions
      BY <1>2, <2>0, <2>2, <2>4
    <3>2. s[k + 1] \in U
      BY <2>1, <3>1
    <3>3. PICK m \in 1 .. Len(u) : u[m] = s[k + 1]
      BY <1>1, <3>2
    <3>4. CASE m \in 1 .. k
      <4>1. s[m] = s[k + 1] /\ Before(s[m], s[k + 1])
        BY <1>2, <2>0, <2>4, <3>3, <3>4
      <4> QED BY <3>1, <4>1, PositionOrder
    <3>5. CASE m = k + 1
      BY <2>1, <3>1, <3>3, <3>5, PositionOrder
    <3>6. CASE m > k + 1
      <4>1. Before(u[k + 1], s[k + 1])
        BY <1>1, <2>0, <3>3, <3>6
      <4> QED BY <2>1, <3>1, <4>1, PositionOrder
    <3> QED BY <1>1, <2>0, <3>4, <3>5, <3>6
  <2> QED BY <2>0, <2>2, <2>4, <2>5
<1>5. 0 .. Len(u) \subseteq M
  <2> HIDE DEF M
  <2> QED BY <1>1, <1>3, <1>4, IntervalInduction
<1>6. Len(u) \in 0 .. Len(u)
  BY <1>1
<1> QED BY <1>5, <1>6

(* The next one after it is the least position that is left.               *)
LEMMA EnumeratesNext ==
    ASSUME NEW u, NEW U, NEW s, NEW S, Enumerates(u, U), Enumerates(s, S),
           U \subseteq S, \A p \in S, q \in U : Before(p, q) => p \in U,
           NEW c \in S, c \notin U, \A p \in S : Before(p, c) => p \in U
    PROVE  Len(u) < Len(s) /\ s[Len(u) + 1] = c
<1>1. /\ Len(u) \in Nat
      /\ \A i \in 1 .. Len(u) : u[i] \in U /\ u[i] \in Positions
      /\ \A p \in U : p \in Positions /\ \E i \in 1 .. Len(u) : u[i] = p
  BY EnumeratedInOrder
<1>2. /\ Len(s) \in Nat
      /\ \A i \in 1 .. Len(s) : s[i] \in S /\ s[i] \in Positions
      /\ \A i, j \in 1 .. Len(s) : i < j => Before(s[i], s[j])
      /\ \A p \in S : p \in Positions /\ \E i \in 1 .. Len(s) : s[i] = p
  BY EnumeratedInOrder
<1>3. Len(u) <= Len(s) /\ \A i \in 1 .. Len(u) : u[i] = s[i]
  BY EnumeratesPrefix
<1>4. PICK j \in 1 .. Len(s) : s[j] = c
  BY <1>2
<1>5. j \notin 1 .. Len(u)
  BY <1>1, <1>3, <1>4
<1>6. Len(u) + 1 <= j /\ Len(u) + 1 \in 1 .. Len(s) /\ Len(u) < Len(s)
  BY <1>1, <1>2, <1>5
<1>7. j = Len(u) + 1
  <2> SUFFICES ASSUME j # Len(u) + 1 PROVE FALSE
    OBVIOUS
  <2>1. Before(s[Len(u) + 1], c) /\ s[Len(u) + 1] \in S
    BY <1>1, <1>2, <1>4, <1>6
  <2>2. PICK m \in 1 .. Len(u) : u[m] = s[Len(u) + 1]
    BY <1>1, <2>1
  <2>3. s[m] = s[Len(u) + 1] /\ m < Len(u) + 1 /\ m \in 1 .. Len(s)
    BY <1>1, <1>3, <1>6, <2>2
  <2>4. Before(s[m], s[Len(u) + 1]) /\ s[m] \in Positions
    BY <1>2, <1>6, <2>3
  <2> QED BY <2>3, <2>4, PositionOrder
<1> QED BY <1>4, <1>6, <1>7

(* What Selected leaves of an enumeration.                                 *)
LEMMA EnumeratesSelected ==
    ASSUME NEW s, NEW S, Enumerates(s, S), NEW T \in SUBSET S, NEW q,
           q = FlattenSeq([i \in 1 .. Len(s) |-> IF s[i] \in T THEN <<s[i]>> ELSE <<>>])
    PROVE  Enumerates(q, T)
<1>1. /\ s \in Seq(Positions) /\ Len(s) \in Nat
      /\ \A i \in 1 .. Len(s) : s[i] \in S /\ s[i] \in Positions
      /\ \A i, j \in 1 .. Len(s) : i < j => Before(s[i], s[j])
      /\ \A p \in S : p \in Positions /\ \E i \in 1 .. Len(s) : s[i] = p
  BY EnumeratedInOrder
<1> DEFINE K == {i \in 1 .. Len(s) : s[i] \in T}
<1>2. q = FlattenSeq([i \in 1 .. Len(s) |-> IF i \in K THEN <<s[i]>> ELSE <<>>])
  <2>1. [i \in 1 .. Len(s) |-> IF s[i] \in T THEN <<s[i]>> ELSE <<>>]
          = [i \in 1 .. Len(s) |-> IF i \in K THEN <<s[i]>> ELSE <<>>]
    OBVIOUS
  <2> HIDE DEF K
  <2> QED BY <2>1
<1>3. K \in SUBSET (1 .. Len(s)) /\ (\A i \in K : s[i] \in T)
      /\ \A i \in 1 .. Len(s) : s[i] \in T => i \in K
  OBVIOUS
<1> HIDE DEF K
<1>4. q \in Seq(Positions) /\ \E h : KeptBy(h, q, s, K)
  BY ONLY <1>1, <1>2, <1>3, SelectSeqKeeps
<1>5. PICK h : KeptBy(h, q, s, K)
  BY <1>4
<1>6. /\ h \in [1 .. Len(q) -> K]
      /\ \A k \in 1 .. Len(q) : q[k] = s[h[k]]
      /\ \A k, m \in 1 .. Len(q) : k < m => h[k] < h[m]
      /\ \A i \in K : \E k \in 1 .. Len(q) : h[k] = i
  BY <1>5 DEF KeptBy
<1>7. \A k \in 1 .. Len(q) : h[k] \in K /\ h[k] \in 1 .. Len(s)
  BY <1>3, <1>6
<1>8. ASSUME NEW k \in 1 .. Len(q), NEW m \in 1 .. Len(q), k < m PROVE Before(q[k], q[m])
  <2>1. h[k] \in 1 .. Len(s) /\ h[m] \in 1 .. Len(s) /\ h[k] < h[m]
    BY <1>6, <1>7, <1>8
  <2>2. q[k] = s[h[k]] /\ q[m] = s[h[m]]
    BY <1>6
  <2> QED BY <1>1, <2>1, <2>2
<1>9. \A k \in 1 .. Len(q) : q[k] \in T
  BY <1>3, <1>6, <1>7
<1>10. ASSUME NEW p \in T PROVE \E k \in 1 .. Len(q) : q[k] = p
  <2>1. PICK i \in 1 .. Len(s) : s[i] = p
    BY <1>1
  <2>2. i \in K
    BY <1>3, <2>1
  <2>3. PICK k \in 1 .. Len(q) : h[k] = i
    BY <1>6, <2>2
  <2> QED BY <1>6, <2>1, <2>3
<1> QED BY <1>4, <1>8, <1>9, <1>10, EnumeratesIntro

(* One enumeration after another.                                          *)
LEMMA EnumeratesConcat ==
    ASSUME NEW a, NEW A, NEW b, NEW B, Enumerates(a, A), Enumerates(b, B),
           \A p \in A, q \in B : Before(p, q)
    PROVE  Enumerates(a \o b, A \cup B)
<1>1. /\ a \in Seq(Positions) /\ Len(a) \in Nat
      /\ \A i \in 1 .. Len(a) : a[i] \in A /\ a[i] \in Positions
      /\ \A p \in A : p \in Positions /\ \E i \in 1 .. Len(a) : a[i] = p
  BY EnumeratedInOrder
<1>2. /\ b \in Seq(Positions) /\ Len(b) \in Nat
      /\ \A i \in 1 .. Len(b) : b[i] \in B /\ b[i] \in Positions
      /\ \A p \in B : p \in Positions /\ \E i \in 1 .. Len(b) : b[i] = p
  BY EnumeratedInOrder
<1>3. PICK u : u = a \o b
  OBVIOUS
<1>4. /\ u \in Seq(Positions) /\ Len(u) = Len(a) + Len(b)
      /\ \A i \in 1 .. Len(a) : u[i] = a[i]
      /\ \A i \in 1 .. Len(b) : u[Len(a) + i] = b[i]
  BY <1>1, <1>2, <1>3, ConcatFacts
<1>5. \A x \in 1 .. Len(u) : \/ x \in 1 .. Len(a) /\ u[x] = a[x]
                             \/ x - Len(a) \in 1 .. Len(b) /\ u[x] = b[x - Len(a)]
  BY ONLY <1>1, <1>2, <1>3, ConcatIndex
<1>6. \A i \in 1 .. Len(a) : \A j \in 1 .. Len(b) : <<a[i], b[j]>> \in Earlier
  BY <1>1, <1>2 DEF Earlier
<1>7. Pairwise(u, Earlier)
  <2>1. Pairwise(a, Earlier) /\ Pairwise(b, Earlier)
    BY DEF Enumerates
  <2> QED BY ONLY <1>1, <1>2, <1>3, <1>6, <2>1, PairwiseConcat
<1>8. \A x \in 1 .. Len(u) : u[x] \in A \cup B
  BY <1>1, <1>2, <1>5
<1>9. ASSUME NEW p \in A \cup B PROVE \E x \in 1 .. Len(u) : u[x] = p
  <2>1. CASE p \in A
    <3>1. PICK i \in 1 .. Len(a) : a[i] = p
      BY <1>1, <2>1
    <3>2. i \in 1 .. Len(u)
      BY <1>1, <1>2, <1>4
    <3> QED BY <1>4, <3>1, <3>2
  <2>2. CASE p \in B
    <3>1. PICK i \in 1 .. Len(b) : b[i] = p
      BY <1>2, <2>2
    <3>2. Len(a) + i \in 1 .. Len(u)
      BY <1>1, <1>2, <1>4
    <3> QED BY <1>4, <3>1, <3>2
  <2> QED BY <2>1, <2>2
<1> QED BY <1>3, <1>4, <1>7, <1>8, <1>9 DEF Enumerates

LEMMA EnumeratesNothing == Enumerates(<<>>, {})
  BY DEF Enumerates, Pairwise

LEMMA EnumeratesOne ==
    ASSUME NEW p \in Positions
    PROVE  Enumerates(<<p>>, {p})
<1>1. <<p>> \in Seq(Positions) /\ Len(<<p>>) = 1 /\ <<p>>[1] = p
  OBVIOUS
<1>2. Pairwise(<<p>>, Earlier)
  BY <1>1 DEF Pairwise
<1>3. \A i \in 1 .. Len(<<p>>) : <<p>>[i] \in {p}
  BY <1>1
<1>4. \A q \in {p} : \E i \in 1 .. Len(<<p>>) : <<p>>[i] = q
  <2>1. 1 \in 1 .. Len(<<p>>) /\ <<p>>[1] = p
    BY <1>1
  <2> QED BY <2>1
<1> QED BY <1>1, <1>2, <1>3, <1>4 DEF Enumerates

(* One after another, for a sequence of them.                              *)
LEMMA EnumeratesFlatten ==
    ASSUME NEW ss \in Seq(Seq(Positions)), NEW SS,
           \A i \in 1 .. Len(ss) : Enumerates(ss[i], SS[i]),
           \A i, j \in 1 .. Len(ss) : i < j => \A p \in SS[i], q \in SS[j] : Before(p, q)
    PROVE  Enumerates(FlattenSeq(ss), UNION {SS[i] : i \in 1 .. Len(ss)})
<1>0. PICK n \in Nat : n = Len(ss)
  OBVIOUS
<1>1. PICK f : Joined(f, ss, Positions)
  BY JoinsExist
<1>2. FlattenSeq(ss) = f[n]
  BY <1>0, <1>1, FlattenIsJoin
<1>3. f[0] = <<>> /\ \A i \in 1 .. n : f[i] = f[i - 1] \o ss[i]
  BY <1>0, <1>1 DEF Joined
<1> DEFINE U(k) == UNION {SS[i] : i \in 1 .. k}
           M == {k \in 0 .. n : Enumerates(f[k], U(k))}
<1>4. 0 \in M
  <2>1. U(0) = {}
    OBVIOUS
  <2> HIDE DEF U
  <2>2. Enumerates(f[0], U(0))
    BY <1>3, <2>1, EnumeratesNothing
  <2> QED BY <1>0, <2>2
<1>5. ASSUME NEW k \in 0 .. n - 1, k \in M PROVE k + 1 \in M
  <2>1. k \in Nat /\ k + 1 \in 1 .. n /\ k + 1 \in 0 .. n /\ (k + 1) - 1 = k /\ \A i \in 1 .. k : i \in 1 .. n /\ i < k + 1
    BY <1>0
  <2>2. f[k + 1] = f[k] \o ss[k + 1]
    BY <1>3, <2>1
  <2>3. U(k + 1) = U(k) \cup SS[k + 1]
    <3>1. 1 .. k + 1 = (1 .. k) \cup {k + 1}
      BY <2>1
    <3> QED BY <3>1
  <2>4. \A p \in U(k), q \in SS[k + 1] : Before(p, q)
    BY <1>0, <2>1
  <2>5. Enumerates(f[k], U(k)) /\ Enumerates(ss[k + 1], SS[k + 1])
    BY <1>0, <1>5, <2>1
  <2> HIDE DEF U
  <2>6. Enumerates(f[k + 1], U(k + 1))
    <3>1. PICK a, A, b, A2 : a = f[k] /\ A = U(k) /\ b = ss[k + 1] /\ A2 = SS[k + 1]
      OBVIOUS
    <3>2. Enumerates(a \o b, A \cup A2)
      BY ONLY <2>4, <2>5, <3>1, EnumeratesConcat
    <3> QED BY <2>2, <2>3, <3>1, <3>2
  <2> QED BY <2>1, <2>6
<1>6. 0 .. n \subseteq M
  <2> HIDE DEF M
  <2> QED BY <1>0, <1>4, <1>5, IntervalInduction
<1>7. n \in 0 .. n
  BY <1>0
<1>8. Enumerates(f[n], U(n))
  <2> HIDE DEF U
  <2> QED BY <1>6, <1>7
<1> QED BY <1>0, <1>2, <1>8

-----------------------------------------------------------------------------
(* Binary search. *)

SearchRange(n) == [first : 1 .. n + 1, len : 0 .. n]

(* Between the indices before and the others there are len undecided ones  *)
(* from first on.                                                          *)
Narrowed(r, n, B) ==
    /\ r \in SearchRange(n)
    /\ r.first + r.len <= n + 1
    /\ \A i \in 1 .. n : i < r.first => i \in B
    /\ \A i \in 1 .. n : i >= r.first + r.len => i \notin B

DownClosed(n, B) == \A i, j \in 1 .. n : i <= j /\ j \in B => i \in B

(* A round of the search.                                                  *)
LEMMA HalveNarrows ==
    ASSUME NEW n \in Nat, NEW B, DownClosed(n, B), NEW r, Narrowed(r, n, B)
    PROVE  /\ Narrowed(halve(r, B), n, B)
           /\ r.len # 0 => halve(r, B).len < r.len
           /\ r.len = 0 => halve(r, B).len = 0
<1>1. /\ r.first \in 1 .. n + 1 /\ r.len \in 0 .. n /\ r.first + r.len <= n + 1
      /\ r = [first |-> r.first, len |-> r.len]
  BY DEF Narrowed, SearchRange
<1>2. CASE r.len = 0
  BY <1>2 DEF halve
<1>3. CASE r.len # 0
  <2>1. PICK half \in Int : half = r.len \div 2
    BY <1>1
  <2>2. half >= 0 /\ half < r.len
    BY <1>1, <1>3, <2>1
  <2>3. r.first + half \in 1 .. n
    BY <1>1, <2>2
  <2>4. CASE r.first + half \in B
    <3>1. PICK q : q = [first |-> r.first + half + 1, len |-> r.len - half - 1]
      OBVIOUS
    <3>2. halve(r, B) = q
      BY <1>3, <2>1, <2>4, <3>1 DEF halve
    <3>3. q.first = r.first + half + 1 /\ q.len = r.len - half - 1
      BY <3>1
    <3>4. q \in SearchRange(n) /\ q.first + q.len <= n + 1 /\ q.len < r.len
      BY <1>1, <2>2, <3>1, <3>3 DEF SearchRange
    <3>5. \A i \in 1 .. n : i < q.first => i \in B
      BY <1>1, <2>2, <2>3, <2>4, <3>3 DEF DownClosed
    <3>6. \A i \in 1 .. n : i >= q.first + q.len => i \notin B
      BY <1>1, <2>2, <3>3 DEF Narrowed
    <3> QED BY <1>3, <3>2, <3>4, <3>5, <3>6 DEF Narrowed
  <2>5. CASE r.first + half \notin B
    <3>1. PICK q : q = [first |-> r.first, len |-> half]
      OBVIOUS
    <3>2. halve(r, B) = q
      BY <1>3, <2>1, <2>5, <3>1 DEF halve
    <3>3. q.first = r.first /\ q.len = half
      BY <3>1
    <3>4. q \in SearchRange(n) /\ q.first + q.len <= n + 1 /\ q.len < r.len
      BY <1>1, <2>2, <3>1, <3>3 DEF SearchRange
    <3>5. \A i \in 1 .. n : i < q.first => i \in B
      BY <3>3 DEF Narrowed
    <3>6. \A i \in 1 .. n : i >= q.first + q.len => i \notin B
      BY <1>1, <2>2, <2>3, <2>5, <3>3 DEF DownClosed
    <3> QED BY <1>3, <3>2, <3>4, <3>5, <3>6 DEF Narrowed
  <2> QED BY <2>4, <2>5
<1> QED BY <1>2, <1>3

(* The recursive function of lower_bound exists: any function with its     *)
(* equations is the one it defines.                                        *)
LEMMA SearchUnfolds ==
    ASSUME NEW n \in Nat, NEW B, DownClosed(n, B)
    PROVE  \E f : /\ DOMAIN f = 0 .. n /\ f[0] = [first |-> 1, len |-> n]
                  /\ \A k \in 1 .. n : f[k] = halve(f[k - 1], B)
                  /\ lower_bound(n, B) = f[n].first
<1> DEFINE X == {r \in SearchRange(n) : Narrowed(r, n, B)}
           x0 == [first |-> 1, len |-> n]
           Body(h) == [k \in 0 .. n |-> IF k = 0 THEN x0 ELSE halve(h[k - 1], B)]
           run == CHOOSE h : h = Body(h)
<1>1. lower_bound(n, B) = run[n].first
  BY DEF lower_bound
<1>2. x0 \in X
  <2>1. x0.first = 1 /\ x0.len = n /\ x0 \in SearchRange(n)
    BY DEF SearchRange
  <2> HIDE DEF x0
  <2> QED BY <2>1 DEF Narrowed
<1>3. \A r \in X : halve(r, B) \in X
  BY HalveNarrows DEF Narrowed
<1> HIDE DEF X, x0
<1>4. PICK g : g = [k \in 1 .. n |-> [r \in X |-> halve(r, B)]]
  OBVIOUS
<1>5. g \in [1 .. n -> [X -> X]]
  BY <1>3, <1>4
<1>6. PICK f : Iterated(f, X, n, x0, g)
  BY ONLY <1>2, <1>5, n \in Nat, Iterates
<1>7. f \in [0 .. n -> X] /\ f[0] = x0 /\ \A k \in 1 .. n : f[k] = g[k][f[k - 1]]
  BY <1>6 DEF Iterated
<1>8. ASSUME NEW k \in 1 .. n PROVE f[k] = halve(f[k - 1], B)
  <2>1. k - 1 \in 0 .. n /\ f[k - 1] \in X
    BY <1>7
  <2> QED BY <1>4, <1>7, <2>1
<1>9. f = Body(f)
  <2>1. \A k \in 0 .. n : f[k] = IF k = 0 THEN x0 ELSE halve(f[k - 1], B)
    <3>1. \A k \in 0 .. n : k = 0 \/ k \in 1 .. n
      OBVIOUS
    <3> QED BY <1>7, <1>8, <3>1
  <2> QED BY <1>7, <2>1
<1>10. run = Body(run)
  <2> HIDE DEF Body
  <2> QED BY <1>9
<1> HIDE DEF run
<1>11. DOMAIN run = 0 .. n /\ run[0] = x0
  BY <1>10
<1>12. \A k \in 1 .. n : run[k] = halve(run[k - 1], B)
  BY <1>10
<1> QED BY <1>1, <1>11, <1>12 DEF x0

(* lower_bound finds the first index that is not before the one sought.    *)
LEMMA LowerBoundExact ==
    ASSUME NEW n \in Nat, NEW B, DownClosed(n, B)
    PROVE  /\ lower_bound(n, B) \in 1 .. n + 1
           /\ \A i \in 1 .. n : i \in B <=> i < lower_bound(n, B)
<1>1. PICK f : /\ DOMAIN f = 0 .. n /\ f[0] = [first |-> 1, len |-> n]
               /\ \A k \in 1 .. n : f[k] = halve(f[k - 1], B)
               /\ lower_bound(n, B) = f[n].first
  BY SearchUnfolds
<1> DEFINE M == {k \in 0 .. n : Narrowed(f[k], n, B) /\ f[k].len <= n - k}
<1>2. 0 \in M
  <2>1. f[0].first = 1 /\ f[0].len = n /\ f[0] \in SearchRange(n)
    BY <1>1 DEF SearchRange
  <2> QED BY <2>1 DEF Narrowed
<1>3. ASSUME NEW k \in 0 .. n - 1, k \in M PROVE k + 1 \in M
  <2>1. k + 1 \in 1 .. n /\ k + 1 \in 0 .. n /\ (k + 1) - 1 = k /\ k + 1 <= n
    OBVIOUS
  <2>2. f[k + 1] = halve(f[k], B)
    BY <1>1, <2>1
  <2>3. PICK r : r = f[k]
    OBVIOUS
  <2>4. Narrowed(r, n, B) /\ r.len <= n - k /\ r.len \in Nat
    BY <1>3, <2>3 DEF Narrowed, SearchRange
  <2>5. PICK q : q = halve(r, B)
    OBVIOUS
  <2>6. Narrowed(q, n, B) /\ (r.len # 0 => q.len < r.len) /\ (r.len = 0 => q.len = 0)
    BY ONLY <2>4, <2>5, HalveNarrows, n \in Nat, DownClosed(n, B)
  <2>7. q.len \in Nat
    BY <2>6 DEF Narrowed, SearchRange
  <2>8. q.len <= n - (k + 1)
    BY <2>1, <2>4, <2>6, <2>7
  <2> QED BY <2>1, <2>2, <2>3, <2>5, <2>6, <2>8
<1>4. 0 .. n \subseteq M
  <2> HIDE DEF M
  <2> QED BY <1>2, <1>3, IntervalInduction
<1>5. Narrowed(f[n], n, B) /\ f[n].len <= n - n
  <2>1. n \in 0 .. n
    OBVIOUS
  <2> QED BY <1>4, <2>1
<1>6. f[n].len = 0 /\ f[n].first \in 1 .. n + 1
  BY <1>5 DEF Narrowed, SearchRange
<1> QED BY <1>1, <1>5, <1>6 DEF Narrowed

-----------------------------------------------------------------------------
(* The rows of the topic. *)

At == {p \in Positions : p[1] \in 1 .. Len(chunks) /\ p[2] \in 1 .. row_count(chunks[p[1]])}

(* What the writers commit: chunks with rows, in time order.               *)
ChunksInOrder ==
    /\ chunks \in Seq(Chunk)
    /\ \A k \in 1 .. Len(chunks) : Sorted(chunks[k].rows)
    /\ \A k, m \in 1 .. Len(chunks) : k < m => tMax(chunks[k]) <= tMin(chunks[m])

LEMMA ChunkFacts ==
    ASSUME NEW c \in Chunk
    PROVE  /\ row_count(c) \in Nat /\ 1 <= row_count(c) /\ row_count(c) <= ChunkRows
           /\ DOMAIN c.rows = 1 .. row_count(c) /\ tMax(c) = c.rows[row_count(c)].ts
           /\ \A i \in 1 .. row_count(c) : c.rows[i].ts \in Int
<1>1. PICK n \in 1 .. ChunkRows :
          c \in [rows : [1 .. n -> [ts : Times, val : Values \cup {Null}]], hasColumn : BOOLEAN]
  BY DEF Chunk
<1>2. c.rows \in [1 .. n -> [ts : Times, val : Values \cup {Null}]] /\ n \in Nat
  BY <1>1, QueryAssumption
<1>3. Len(c.rows) = n /\ DOMAIN c.rows = 1 .. n
  BY <1>2
<1>4. \A i \in 1 .. n : c.rows[i].ts \in Int
  BY <1>2, QueryAssumption
<1> QED BY <1>1, <1>2, <1>3, <1>4, QueryAssumption DEF row_count, tMax, Last

(* Timestamps within a chunk and from chunk to chunk.                      *)
LEMMA TimeFacts ==
    ASSUME ChunksInOrder
    PROVE  /\ Len(chunks) \in Nat
           /\ \A k \in 1 .. Len(chunks) :
                 /\ row_count(chunks[k]) \in Nat /\ 1 <= row_count(chunks[k])
                 /\ row_count(chunks[k]) <= ChunkRows
                 /\ tMin(chunks[k]) \in Int /\ tMax(chunks[k]) \in Int
                 /\ tMin(chunks[k]) <= tMax(chunks[k])
                 /\ tMin(chunks[k]) = chunks[k].rows[1].ts
                 /\ tMax(chunks[k]) = chunks[k].rows[row_count(chunks[k])].ts
           /\ \A k \in 1 .. Len(chunks) : \A r \in 1 .. row_count(chunks[k]) :
                 /\ chunks[k].rows[r].ts \in Int
                 /\ tMin(chunks[k]) <= chunks[k].rows[r].ts
                 /\ chunks[k].rows[r].ts <= tMax(chunks[k])
           /\ \A k \in 1 .. Len(chunks) : \A r, q \in 1 .. row_count(chunks[k]) :
                 r <= q => chunks[k].rows[r].ts <= chunks[k].rows[q].ts
           /\ \A k, m \in 1 .. Len(chunks) : k < m => tMax(chunks[k]) <= tMin(chunks[m])
<1>1. Len(chunks) \in Nat /\ \A k \in 1 .. Len(chunks) : chunks[k] \in Chunk
  BY DEF ChunksInOrder
<1>2. ASSUME NEW k \in 1 .. Len(chunks)
      PROVE  /\ row_count(chunks[k]) \in Nat /\ 1 <= row_count(chunks[k])
             /\ row_count(chunks[k]) <= ChunkRows
             /\ tMin(chunks[k]) = chunks[k].rows[1].ts
             /\ tMax(chunks[k]) = chunks[k].rows[row_count(chunks[k])].ts
             /\ \A r \in 1 .. row_count(chunks[k]) : chunks[k].rows[r].ts \in Int
             /\ \A r, q \in 1 .. row_count(chunks[k]) :
                   r <= q => chunks[k].rows[r].ts <= chunks[k].rows[q].ts
  <2>1. PICK c \in Chunk : c = chunks[k]
    BY <1>1
  <2>2. /\ row_count(c) \in Nat /\ 1 <= row_count(c) /\ row_count(c) <= ChunkRows
        /\ DOMAIN c.rows = 1 .. row_count(c) /\ tMax(c) = c.rows[row_count(c)].ts
        /\ \A i \in 1 .. row_count(c) : c.rows[i].ts \in Int
    BY ChunkFacts
  <2>3. Sorted(c.rows)
    BY <2>1 DEF ChunksInOrder
  <2>4. \A r, q \in 1 .. row_count(c) : r <= q => c.rows[r].ts <= c.rows[q].ts
    BY <2>2, <2>3 DEF Sorted
  <2>5. tMin(c) = c.rows[1].ts
    BY DEF tMin
  <2> QED BY <2>1, <2>2, <2>4, <2>5
<1>3. ASSUME NEW k \in 1 .. Len(chunks)
      PROVE  /\ tMin(chunks[k]) \in Int /\ tMax(chunks[k]) \in Int
             /\ tMin(chunks[k]) <= tMax(chunks[k])
             /\ \A r \in 1 .. row_count(chunks[k]) :
                   tMin(chunks[k]) <= chunks[k].rows[r].ts /\ chunks[k].rows[r].ts <= tMax(chunks[k])
  <2>1. 1 \in 1 .. row_count(chunks[k]) /\ row_count(chunks[k]) \in 1 .. row_count(chunks[k])
    BY <1>2
  <2> QED BY <1>2, <2>1
<1>4. \A k, m \in 1 .. Len(chunks) : k < m => tMax(chunks[k]) <= tMin(chunks[m])
  BY DEF ChunksInOrder
<1> QED BY <1>1, <1>2, <1>3, <1>4

(* Timestamps do not decrease with the position.                           *)
LEMMA AtInOrder ==
    ASSUME ChunksInOrder
    PROVE  /\ \A p \in At : p \in Positions /\ p = <<p[1], p[2]>> /\ tsAt(p) \in Int
           /\ \A p \in At : p[1] \in 1 .. Len(chunks) /\ p[2] \in 1 .. row_count(chunks[p[1]])
           /\ \A p, q \in At : Before(p, q) => tsAt(p) <= tsAt(q)
           /\ \A k \in 1 .. Len(chunks) : \A r \in 1 .. row_count(chunks[k]) : <<k, r>> \in At
<1>1. \A p \in At : p \in Positions /\ p = <<p[1], p[2]>>
  BY DEF At, Positions
<1>2. \A p \in At : p[1] \in 1 .. Len(chunks) /\ p[2] \in 1 .. row_count(chunks[p[1]])
  BY DEF At
<1>3. \A p \in At : tsAt(p) \in Int
  BY <1>2, TimeFacts DEF tsAt
<1>4. ASSUME NEW p \in At, NEW q \in At, Before(p, q) PROVE tsAt(p) <= tsAt(q)
  <2>1. /\ p[1] \in 1 .. Len(chunks) /\ p[2] \in 1 .. row_count(chunks[p[1]])
        /\ q[1] \in 1 .. Len(chunks) /\ q[2] \in 1 .. row_count(chunks[q[1]])
    BY <1>2
  <2>2. CASE p[1] < q[1]
    <3>1. tsAt(p) <= tMax(chunks[p[1]]) /\ tMin(chunks[q[1]]) <= tsAt(q)
      BY <2>1, TimeFacts DEF tsAt
    <3>2. tMax(chunks[p[1]]) <= tMin(chunks[q[1]])
      BY <2>1, <2>2, TimeFacts
    <3>3. tMax(chunks[p[1]]) \in Int /\ tMin(chunks[q[1]]) \in Int /\ tsAt(p) \in Int /\ tsAt(q) \in Int
      BY <1>3, <2>1, TimeFacts
    <3> QED BY <3>1, <3>2, <3>3
  <2>3. CASE p[1] = q[1] /\ p[2] < q[2]
    <3>1. p[2] <= q[2] /\ p[2] \in 1 .. row_count(chunks[q[1]])
      BY <2>1, <2>3, TimeFacts
    <3> QED BY <2>1, <2>3, <3>1, TimeFacts DEF tsAt
  <2> QED BY <1>4, <2>2, <2>3 DEF Before
<1>5. ASSUME NEW k \in 1 .. Len(chunks), NEW r \in 1 .. row_count(chunks[k]) PROVE <<k, r>> \in At
  <2>1. k \in Nat /\ r \in Nat
    BY TimeFacts
  <2>2. <<k, r>> \in Positions /\ <<k, r>>[1] = k /\ <<k, r>>[2] = r
    BY <2>1 DEF Positions
  <2> QED BY <2>2 DEF At
<1> QED BY <1>1, <1>2, <1>3, <1>4, <1>5

(* The part of a chunk from one row to another.                            *)
LEMMA SliceEnumerated ==
    ASSUME NEW k \in Nat, NEW first \in Nat, NEW end \in Nat, 1 <= first, first <= end, NEW q,
           q = [i \in 1 .. end - first |-> <<k, first + i - 1>>]
    PROVE  Enumerates(q, {p \in Positions : p[1] = k /\ first <= p[2] /\ p[2] < end})
<1> DEFINE T == {p \in Positions : p[1] = k /\ first <= p[2] /\ p[2] < end}
<1>1. end - first \in Nat
  OBVIOUS
<1>2. \A i \in 1 .. end - first : first + i - 1 \in Nat /\ <<k, first + i - 1>> \in Positions
  BY <1>1 DEF Positions
<1>3. q \in Seq(Positions) /\ Len(q) = end - first
  <2>1. PICK m \in Nat : m = end - first
    BY <1>1
  <2>2. q \in [1 .. m -> Positions]
    BY <1>2, <2>1
  <2>3. q \in Seq(Positions) /\ Len(q) = m
    BY ONLY <2>2, m \in Nat
  <2> QED BY ONLY <2>1, <2>3
<1>4. \A i \in 1 .. Len(q) : q[i] = <<k, first + i - 1>>
  BY <1>3
<1>5. ASSUME NEW i \in 1 .. Len(q), NEW j \in 1 .. Len(q), i < j PROVE Before(q[i], q[j])
  <2>1. q[i][1] = k /\ q[j][1] = k /\ q[i][2] = first + i - 1 /\ q[j][2] = first + j - 1
    BY <1>4
  <2> QED BY <1>3, <1>5, <2>1 DEF Before
<1>6. ASSUME NEW i \in 1 .. Len(q) PROVE q[i] \in T
  <2>1. q[i][1] = k /\ q[i][2] = first + i - 1 /\ q[i] \in Positions
    BY <1>2, <1>3, <1>4
  <2> QED BY <1>3, <2>1
<1>7. ASSUME NEW p \in T PROVE \E i \in 1 .. Len(q) : q[i] = p
  <2>1. p = <<p[1], p[2]>> /\ p[1] = k /\ p[2] \in Nat /\ first <= p[2] /\ p[2] < end
    BY DEF Positions
  <2>2. p[2] - first + 1 \in 1 .. Len(q) /\ first + (p[2] - first + 1) - 1 = p[2]
    BY <1>3, <2>1
  <2>3. q[p[2] - first + 1] = <<k, first + (p[2] - first + 1) - 1>>
    BY <1>4, <2>2
  <2>4. q[p[2] - first + 1] = p
    BY <2>1, <2>2, <2>3
  <2> QED BY <2>2, <2>4
<1> HIDE DEF T
<1>8. Enumerates(q, T)
  BY <1>3, <1>5, <1>6, <1>7, EnumeratesIntro
<1> QED BY <1>8 DEF T

(* positions has every row of every chunk, in order.                       *)
LEMMA PositionsEnumerated ==
    ASSUME ChunksInOrder
    PROVE  Enumerates(positions, At)
<1>1. PICK n \in Nat : n = Len(chunks)
  BY TimeFacts
<1> DEFINE ss == [k \in 1 .. n |-> [r \in 1 .. row_count(chunks[k]) |-> <<k, r>>]]
           SS == [k \in 1 .. n |-> {p \in Positions : p[1] = k /\ 1 <= p[2] /\ p[2] < row_count(chunks[k]) + 1}]
<1>2. ASSUME NEW k \in 1 .. n PROVE Enumerates(ss[k], SS[k])
  <2>1. PICK m \in Nat : m = row_count(chunks[k])
    BY <1>1, TimeFacts
  <2>2. k \in Nat /\ 1 \in Nat /\ m + 1 \in Nat /\ 1 <= m + 1
    BY <1>1, <2>1
  <2>3. (m + 1) - 1 = m /\ \A r \in 1 .. m : 1 + r - 1 = r
    BY <2>1
  <2>4. ss[k] = [r \in 1 .. (m + 1) - 1 |-> <<k, 1 + r - 1>>]
    BY <2>1, <2>3
  <2>5. SS[k] = {p \in Positions : p[1] = k /\ 1 <= p[2] /\ p[2] < m + 1}
    BY <2>1
  <2> HIDE DEF ss, SS
  <2>6. PICK q, e : q = ss[k] /\ e = m + 1
    OBVIOUS
  <2>7. k \in Nat /\ 1 \in Nat /\ e \in Nat /\ 1 <= 1 /\ 1 <= e
    BY <2>2, <2>6
  <2>8. q = [r \in 1 .. e - 1 |-> <<k, 1 + r - 1>>]
    BY <2>4, <2>6
  <2>9. Enumerates(q, {p \in Positions : p[1] = k /\ 1 <= p[2] /\ p[2] < e})
    BY ONLY <2>7, <2>8, SliceEnumerated
  <2> QED BY <2>5, <2>6, <2>9
<1>3. ss \in Seq(Seq(Positions)) /\ Len(ss) = n
  <2>1. \A k \in 1 .. n : ss[k] \in Seq(Positions)
    <3> HIDE DEF ss, SS
    <3> QED BY <1>2 DEF Enumerates
  <2>2. ss = [k \in 1 .. n |-> ss[k]]
    OBVIOUS
  <2> HIDE DEF ss
  <2> QED BY <1>1, <2>1, <2>2
<1>4. \A i, j \in 1 .. n : i < j => \A p \in SS[i], q \in SS[j] : Before(p, q)
  BY DEF Before
<1>5. positions = FlattenSeq(ss)
  BY <1>1 DEF positions
<1>6. UNION {SS[k] : k \in 1 .. n} = At
  <2>1. ASSUME NEW p \in At PROVE p \in UNION {SS[k] : k \in 1 .. n}
    <3>1. p[1] \in 1 .. n /\ p \in Positions /\ p[2] \in 1 .. row_count(chunks[p[1]])
      BY <1>1 DEF At
    <3>2. row_count(chunks[p[1]]) \in Nat
      BY <1>1, <3>1, TimeFacts
    <3>3. p \in SS[p[1]]
      BY <3>1, <3>2
    <3> HIDE DEF SS
    <3> QED BY <3>1, <3>3
  <2>2. ASSUME NEW k \in 1 .. n, NEW p \in SS[k] PROVE p \in At
    <3>1. p \in Positions /\ p[1] = k /\ 1 <= p[2] /\ p[2] < row_count(chunks[k]) + 1
      OBVIOUS
    <3>2. p[2] \in Nat /\ row_count(chunks[k]) \in Nat
      BY <1>1, <3>1, TimeFacts DEF Positions
    <3>3. p[2] \in 1 .. row_count(chunks[k])
      BY <3>1, <3>2
    <3> QED BY <1>1, <3>1, <3>3 DEF At
  <2> HIDE DEF SS
  <2> QED BY <2>1, <2>2
<1> HIDE DEF ss, SS
<1>7. PICK zz, ZZ : zz = ss /\ ZZ = SS
  OBVIOUS
<1>8. Enumerates(FlattenSeq(zz), UNION {ZZ[k] : k \in 1 .. Len(zz)})
  <2>1. zz \in Seq(Seq(Positions)) /\ \A k \in 1 .. Len(zz) : Enumerates(zz[k], ZZ[k])
    BY <1>2, <1>3, <1>7
  <2>2. \A i, j \in 1 .. Len(zz) : i < j => \A p \in ZZ[i], q \in ZZ[j] : Before(p, q)
    BY <1>3, <1>4, <1>7
  <2> QED BY ONLY <2>1, <2>2, EnumeratesFlatten
<1> QED BY <1>3, <1>5, <1>6, <1>7, <1>8

-----------------------------------------------------------------------------
(* Lookups. *)

LEMMA MinIsLeast ==
    ASSUME NEW S \in SUBSET Nat, S # {}
    PROVE  Min(S) \in S /\ \A x \in S : Min(S) <= x
<1>1. \E n \in S : \A m \in S : n <= m
  BY LeastNatural
<1> QED BY <1>1 DEF Min

(* The last of the positions enumerated.                                   *)
LEMMA LastEnumerated ==
    ASSUME NEW u, NEW T, Enumerates(u, T), NEW c \in T, \A p \in T : ~Before(c, p)
    PROVE  u # <<>> /\ Last(u) = c
<1>1. /\ Len(u) \in Nat
      /\ \A i \in 1 .. Len(u) : u[i] \in T /\ u[i] \in Positions
      /\ \A i, j \in 1 .. Len(u) : i < j => Before(u[i], u[j])
      /\ \A p \in T : p \in Positions /\ \E i \in 1 .. Len(u) : u[i] = p
  BY EnumeratedInOrder
<1>2. PICK j \in 1 .. Len(u) : u[j] = c
  BY <1>1
<1>3. Len(u) \in 1 .. Len(u)
  BY <1>1, <1>2
<1>4. j = Len(u)
  <2> SUFFICES ASSUME j # Len(u) PROVE FALSE
    OBVIOUS
  <2>1. j < Len(u)
    BY <1>1, <1>2
  <2>2. Before(u[j], u[Len(u)])
    BY <1>1, <1>2, <1>3, <2>1
  <2> QED BY <1>1, <1>2, <1>3, <2>2
<1>5. u # <<>>
  BY <1>1, <1>3
<1> QED BY <1>2, <1>4, <1>5 DEF Last

(* latestAt finds the last position that is not after t.                   *)
LEMMA LatestAtExact ==
    ASSUME ChunksInOrder, NEW t \in Int, NEW T, T = {p \in At : tsAt(p) <= t}
    PROVE  IF T = {} THEN latestAt(t) = <<0, 0>>
           ELSE latestAt(t) \in T /\ \A p \in T : ~Before(latestAt(t), p)
<1>1. PICK n \in Nat : n = Len(chunks)
  BY TimeFacts
<1>2. PICK B : B = {i \in 1 .. n : tMin(chunks[i]) <= t}
  OBVIOUS
<1>3. ASSUME NEW i \in 1 .. n, NEW j \in 1 .. n, i <= j, j \in B PROVE i \in B
  <2>1. CASE i = j
    BY <1>3, <2>1
  <2>2. CASE i < j
    <3>1. tMin(chunks[i]) <= tMax(chunks[i])
      BY <1>1, TimeFacts
    <3>2. tMax(chunks[i]) <= tMin(chunks[j])
      BY <1>1, <2>2, TimeFacts
    <3>3. tMin(chunks[i]) \in Int /\ tMax(chunks[i]) \in Int /\ tMin(chunks[j]) \in Int
      BY <1>1, TimeFacts
    <3> QED BY <1>2, <1>3, <3>1, <3>2, <3>3
  <2> QED BY <1>3, <2>1, <2>2
<1>4. DownClosed(n, B)
  BY <1>3 DEF DownClosed
<1>5. PICK after : after = lower_bound(n, B)
  OBVIOUS
<1>6. after \in 1 .. n + 1 /\ \A i \in 1 .. n : i \in B <=> i < after
  BY <1>4, <1>5, LowerBoundExact
<1>7. ASSUME NEW p \in T PROVE p[1] \in 1 .. n /\ p[1] < after
  <2>1. p \in At /\ tsAt(p) <= t
    OBVIOUS
  <2>2. p[1] \in 1 .. n /\ p[2] \in 1 .. row_count(chunks[p[1]])
    BY <1>1, <2>1, AtInOrder
  <2>3. tMin(chunks[p[1]]) <= tsAt(p) /\ tMin(chunks[p[1]]) \in Int /\ tsAt(p) \in Int
    BY <1>1, <2>2, TimeFacts DEF tsAt
  <2>4. p[1] \in B
    BY <1>2, <2>1, <2>2, <2>3
  <2> QED BY <1>6, <2>2, <2>4
<1>8. CASE after = 1
  <2>1. T = {}
    BY <1>1, <1>7, <1>8
  <2>2. latestAt(t) = <<0, 0>>
    BY <1>1, <1>2, <1>5, <1>8 DEF latestAt
  <2> QED BY <2>1, <2>2
<1>9. CASE after # 1
  <2>1. PICK k \in 1 .. n : k = after - 1
    BY <1>1, <1>6, <1>9
  <2>2. k \in B /\ tMin(chunks[k]) <= t
    BY <1>2, <1>6, <2>1
  <2>3. PICK c, m : c = chunks[k] /\ m = row_count(chunks[k])
    OBVIOUS
  <2>4. /\ m \in Nat /\ 1 <= m /\ tMin(c) = c.rows[1].ts
        /\ \A r \in 1 .. m : c.rows[r].ts \in Int
        /\ \A r, q \in 1 .. m : r <= q => c.rows[r].ts <= c.rows[q].ts
    BY <1>1, <2>1, <2>3, TimeFacts
  <2>5. PICK R : R = {i \in 1 .. m : c.rows[i].ts <= t}
    OBVIOUS
  <2>6. DownClosed(m, R)
    <3> SUFFICES ASSUME NEW i \in 1 .. m, NEW j \in 1 .. m, i <= j, j \in R PROVE i \in R
      BY DEF DownClosed
    <3>1. c.rows[i].ts <= c.rows[j].ts /\ c.rows[j].ts <= t /\ c.rows[i].ts \in Int /\ c.rows[j].ts \in Int
      BY <2>4, <2>5
    <3> QED BY <2>5, <3>1
  <2>7. PICK row : row = lower_bound(m, R)
    OBVIOUS
  <2>8. row \in 1 .. m + 1 /\ \A i \in 1 .. m : i \in R <=> i < row
    BY <2>4, <2>6, <2>7, LowerBoundExact
  <2>9. 1 \in R
    BY <2>2, <2>3, <2>4, <2>5
  <2>10. row # 1 /\ row - 1 \in 1 .. m /\ row - 1 \in R
    BY <2>4, <2>8, <2>9
  <2>11. latestAt(t) = <<k, row - 1>>
    <3>1. latestAt(t) = IF after = 1 THEN <<0, 0>>
                        ELSE IF row = 1 THEN <<0, 0>> ELSE <<after - 1, row - 1>>
      BY <1>1, <1>2, <1>5, <2>1, <2>3, <2>5, <2>7 DEF latestAt, row_count
    <3> QED BY <1>9, <2>1, <2>10, <3>1
  <2>12. PICK z : z = <<k, row - 1>>
    OBVIOUS
  <2>13. z[1] = k /\ z[2] = row - 1
    BY <2>12
  <2>14. z \in At
    BY <1>1, <2>1, <2>3, <2>10, <2>12, AtInOrder
  <2>15. z \in T
    BY <2>3, <2>5, <2>10, <2>13, <2>14 DEF tsAt
  <2>16. ASSUME NEW p \in T PROVE ~Before(z, p)
    <3>1. p[1] \in 1 .. n /\ p[1] <= k
      BY <1>1, <1>6, <1>7, <2>1
    <3>2. CASE p[1] = k
      <4>1. p \in At /\ tsAt(p) <= t /\ p[2] \in 1 .. m
        BY <2>3, <3>2, AtInOrder
      <4>2. p[2] \in R
        BY <2>3, <2>5, <3>2, <4>1 DEF tsAt
      <4>3. p[2] <= row - 1
        BY <2>4, <2>8, <4>1, <4>2
      <4> QED BY <2>4, <2>8, <2>13, <3>2, <4>1, <4>3, <1>1 DEF Before
    <3>3. CASE p[1] # k
      BY <1>1, <2>1, <2>13, <3>1, <3>3 DEF Before
    <3> QED BY <3>2, <3>3
  <2>17. T # {}
    BY <2>15
  <2> QED BY <2>11, <2>12, <2>15, <2>16, <2>17
<1> QED BY <1>8, <1>9

(* The lookup of a row by time is exact.                                   *)
LEMMA LatestAtOK ==
    ASSUME ChunksInOrder
    PROVE  LatestAtIsLast
<1> SUFFICES ASSUME NEW t \in Times
             PROVE  LET upTo == Selected(positions, LAMBDA p : tsAt(p) <= t)
                    IN  latestAt(t) = IF upTo = <<>> THEN <<0, 0>> ELSE Last(upTo)
  BY DEF LatestAtIsLast
<1>1. t \in Int
  BY QueryAssumption
<1>2. PICK s : s = positions
  OBVIOUS
<1>3. Enumerates(s, At)
  BY <1>2, PositionsEnumerated
<1>4. \A i \in 1 .. Len(s) : s[i] \in At
  BY <1>3, EnumeratedInOrder
<1>5. PICK T : T = {p \in At : tsAt(p) <= t}
  OBVIOUS
<1>6. PICK u : u = FlattenSeq([i \in 1 .. Len(s) |-> IF tsAt(s[i]) <= t THEN <<s[i]>> ELSE <<>>])
  OBVIOUS
<1>7. Selected(positions, LAMBDA p : tsAt(p) <= t) = u
  BY <1>2, <1>6 DEF Selected
<1>8. [i \in 1 .. Len(s) |-> IF tsAt(s[i]) <= t THEN <<s[i]>> ELSE <<>>]
        = [i \in 1 .. Len(s) |-> IF s[i] \in T THEN <<s[i]>> ELSE <<>>]
  BY <1>4, <1>5
<1>9. Enumerates(u, T)
  <2>1. u = FlattenSeq([i \in 1 .. Len(s) |-> IF s[i] \in T THEN <<s[i]>> ELSE <<>>])
    BY <1>6, <1>8
  <2>2. T \in SUBSET At
    BY <1>5
  <2> QED BY ONLY <1>3, <2>1, <2>2, EnumeratesSelected
<1>10. PICK z : z = latestAt(t)
  OBVIOUS
<1>11. IF T = {} THEN z = <<0, 0>> ELSE z \in T /\ \A p \in T : ~Before(z, p)
  BY <1>1, <1>5, <1>10, LatestAtExact
<1>12. CASE T = {}
  <2>1. Len(u) = 0 /\ u \in Seq(Positions)
    BY <1>9, <1>12, EnumeratedInOrder
  <2>2. u = <<>>
    BY <2>1
  <2> QED BY <1>7, <1>10, <1>11, <1>12, <2>2
<1>13. CASE T # {}
  <2>1. u # <<>> /\ Last(u) = z
    BY ONLY <1>9, <1>11, <1>13, LastEnumerated
  <2> QED BY <1>7, <1>10, <2>1
<1> QED BY <1>12, <1>13

(* The positions with a value.                                             *)
Valued == {p \in At : hasValue(p[1], p[2])}

LEMMA SamplesEnumerated ==
    ASSUME ChunksInOrder
    PROVE  Enumerates(samplesAll, Valued)
<1>1. PICK s : s = positions
  OBVIOUS
<1>2. Enumerates(s, At)
  BY <1>1, PositionsEnumerated
<1>3. \A i \in 1 .. Len(s) : s[i] \in At
  BY <1>2, EnumeratedInOrder
<1>4. PICK u : u = FlattenSeq([i \in 1 .. Len(s) |-> IF hasValue(s[i][1], s[i][2]) THEN <<s[i]>> ELSE <<>>])
  OBVIOUS
<1>5. samplesAll = u
  BY <1>1, <1>4 DEF samplesAll, Selected
<1>6. PICK T : T = Valued
  OBVIOUS
<1>7. \A p \in At : p \in T <=> hasValue(p[1], p[2])
  BY <1>6 DEF Valued
<1>8. [i \in 1 .. Len(s) |-> IF hasValue(s[i][1], s[i][2]) THEN <<s[i]>> ELSE <<>>]
        = [i \in 1 .. Len(s) |-> IF s[i] \in T THEN <<s[i]>> ELSE <<>>]
  BY <1>3, <1>7
<1>9. u = FlattenSeq([i \in 1 .. Len(s) |-> IF s[i] \in T THEN <<s[i]>> ELSE <<>>])
  BY <1>4, <1>8
<1>10. T \in SUBSET At
  BY <1>6 DEF Valued
<1>11. Enumerates(u, T)
  BY ONLY <1>2, <1>9, <1>10, EnumeratesSelected
<1> QED BY <1>5, <1>6, <1>11

(* The beginning of an enumeration.                                        *)
LEMMA EnumeratesFront ==
    ASSUME NEW s, NEW S, Enumerates(s, S), NEW n \in 0 .. Len(s)
    PROVE  /\ Len(SubSeq(s, 1, n)) = n /\ \A i \in 1 .. n : SubSeq(s, 1, n)[i] = s[i]
           /\ Enumerates(SubSeq(s, 1, n), {s[i] : i \in 1 .. n})
<1>1. /\ s \in Seq(Positions) /\ Len(s) \in Nat
      /\ \A i \in 1 .. Len(s) : s[i] \in S /\ s[i] \in Positions
      /\ \A i, j \in 1 .. Len(s) : i < j => Before(s[i], s[j])
  BY EnumeratedInOrder
<1>2. PICK u : u = SubSeq(s, 1, n)
  OBVIOUS
<1>3. n \in Nat /\ \A i \in 1 .. n : i \in 1 .. Len(s)
  BY <1>1
<1>4. u \in Seq(Positions) /\ Len(u) = n /\ \A i \in 1 .. n : u[i] = s[i]
  BY <1>1, <1>2, <1>3
<1>5. \A i, j \in 1 .. Len(u) : i < j => Before(u[i], u[j])
  BY <1>1, <1>3, <1>4
<1>6. PICK T : T = {s[i] : i \in 1 .. n}
  OBVIOUS
<1>7. \A i \in 1 .. Len(u) : u[i] \in T
  BY <1>4, <1>6
<1>8. \A p \in T : \E i \in 1 .. Len(u) : u[i] = p
  BY <1>4, <1>6
<1>9. Enumerates(u, T)
  BY ONLY <1>4, <1>5, <1>7, <1>8, EnumeratesIntro
<1> QED BY <1>2, <1>4, <1>6, <1>9

(* indexAtOrBeforeTime counts the samples up to t.                         *)
LEMMA IndexAtOrBefore ==
    ASSUME ChunksInOrder, NEW t \in Int
    PROVE  /\ indexAtOrBeforeTime(t) \in 0 .. Len(samplesAll)
           /\ \A i \in 1 .. Len(samplesAll) :
                 tsAt(samplesAll[i]) <= t <=> i <= indexAtOrBeforeTime(t)
<1>1. PICK s, v, V : s = positions /\ v = samplesAll /\ V = Valued
  OBVIOUS
<1>2. Enumerates(s, At) /\ Enumerates(v, V)
  BY <1>1, PositionsEnumerated, SamplesEnumerated
<1>3. /\ s \in Seq(Positions) /\ Len(s) \in Nat
      /\ \A i \in 1 .. Len(s) : s[i] \in At /\ s[i] \in Positions
      /\ \A i, j \in 1 .. Len(s) : i < j => Before(s[i], s[j])
      /\ \A p \in At : p \in Positions /\ \E i \in 1 .. Len(s) : s[i] = p
  BY <1>2, EnumeratedInOrder
<1>4. /\ Len(v) \in Nat
      /\ \A i \in 1 .. Len(v) : v[i] \in V /\ v[i] \in Positions
      /\ \A i, j \in 1 .. Len(v) : i < j => Before(v[i], v[j])
  BY <1>2, EnumeratedInOrder
<1>5. PICK D : D = {i \in 1 .. Len(s) : \/ tsAt(s[i]) > t /\ chunks[s[i][1]].hasColumn
                                        \/ tMin(chunks[s[i][1]]) > t /\ chunks[s[i][1]].hasColumn}
  OBVIOUS
<1>6. PICK stop : stop = Min(D \cup {Len(s) + 1})
  OBVIOUS
<1>7. stop \in D \cup {Len(s) + 1} /\ \A x \in D \cup {Len(s) + 1} : stop <= x
  <2>1. D \cup {Len(s) + 1} \in SUBSET Nat /\ D \cup {Len(s) + 1} # {}
    BY <1>3, <1>5
  <2> QED BY <1>6, <2>1, MinIsLeast
<1>8. stop \in 1 .. Len(s) + 1 /\ stop - 1 \in 0 .. Len(s)
  BY <1>3, <1>5, <1>7
<1>9. PICK pre : pre = SubSeq(s, 1, stop - 1)
  OBVIOUS
<1>10. PICK F : F = {s[i] : i \in 1 .. stop - 1}
  OBVIOUS
<1>11. Len(pre) = stop - 1 /\ (\A i \in 1 .. stop - 1 : pre[i] = s[i]) /\ Enumerates(pre, F)
  <2>1. PICK n : n = stop - 1
    OBVIOUS
  <2>2. n \in 0 .. Len(s)
    BY <1>8, <2>1
  <2>3. /\ Len(SubSeq(s, 1, n)) = n /\ (\A i \in 1 .. n : SubSeq(s, 1, n)[i] = s[i])
        /\ Enumerates(SubSeq(s, 1, n), {s[i] : i \in 1 .. n})
    BY ONLY <1>2, <2>2, EnumeratesFront
  <2> QED BY <1>9, <1>10, <2>1, <2>3
<1>12. PICK u : u = FlattenSeq([i \in 1 .. Len(pre) |->
                                   IF hasValue(pre[i][1], pre[i][2]) THEN <<pre[i]>> ELSE <<>>])
  OBVIOUS
<1>13. indexAtOrBeforeTime(t) = Len(u)
  <2>1. DOMAIN s = 1 .. Len(s)
    BY <1>3
  <2> QED BY <1>1, <1>5, <1>6, <1>9, <1>12, <2>1 DEF indexAtOrBeforeTime, Selected
<1>14. PICK U : U = {p \in F : hasValue(p[1], p[2])}
  OBVIOUS
<1>15. Enumerates(u, U)
  <2>1. \A i \in 1 .. Len(pre) : pre[i] \in F
    BY <1>11, EnumeratedInOrder
  <2>2. [i \in 1 .. Len(pre) |-> IF hasValue(pre[i][1], pre[i][2]) THEN <<pre[i]>> ELSE <<>>]
          = [i \in 1 .. Len(pre) |-> IF pre[i] \in U THEN <<pre[i]>> ELSE <<>>]
    BY <1>14, <2>1
  <2>3. u = FlattenSeq([i \in 1 .. Len(pre) |-> IF pre[i] \in U THEN <<pre[i]>> ELSE <<>>])
    BY <1>12, <2>2
  <2>4. U \in SUBSET F
    BY <1>14
  <2> QED BY ONLY <1>11, <2>3, <2>4, EnumeratesSelected
<1>16. \A i \in 1 .. stop - 1 : i \in 1 .. Len(s) /\ i < stop /\ i \notin D
  BY <1>3, <1>7, <1>8
<1>17. U \subseteq V
  BY <1>1, <1>3, <1>10, <1>14, <1>16 DEF Valued
<1>18. ASSUME NEW p \in V, NEW q \in U, Before(p, q) PROVE p \in U
  <2>1. PICK j \in 1 .. stop - 1 : q = s[j]
    BY <1>10, <1>14
  <2>2. p \in At /\ hasValue(p[1], p[2])
    BY <1>1 DEF Valued
  <2>3. PICK i \in 1 .. Len(s) : s[i] = p
    BY <1>3, <2>2
  <2>4. i < j
    <3> SUFFICES ASSUME ~(i < j) PROVE FALSE
      OBVIOUS
    <3>1. j \in 1 .. Len(s) /\ (i = j \/ j < i)
      BY <1>3, <1>16
    <3>2. p = q \/ Before(q, p)
      BY <1>3, <2>1, <2>3, <3>1
    <3>3. p \in Positions /\ q \in Positions
      BY <1>3, <2>1, <2>3, <3>1
    <3> QED BY <1>18, <3>2, <3>3, PositionOrder
  <2>5. i \in 1 .. stop - 1
    BY <1>3, <1>8, <2>4
  <2> QED BY <1>10, <1>14, <2>2, <2>3, <2>5
<1>19. Len(u) <= Len(v) /\ \A i \in 1 .. Len(u) : u[i] = v[i]
  BY ONLY <1>2, <1>15, <1>17, <1>18, EnumeratesPrefix
<1>20. Len(u) \in Nat /\ \A i \in 1 .. Len(u) : u[i] \in U
  BY <1>15, EnumeratedInOrder
<1>21. ASSUME NEW i \in 1 .. Len(v), i <= Len(u) PROVE tsAt(v[i]) <= t
  <2>1. v[i] \in U
    BY <1>4, <1>19, <1>20, <1>21
  <2>2. PICK j \in 1 .. stop - 1 : v[i] = s[j]
    BY <1>10, <1>14, <2>1
  <2>3. chunks[s[j][1]].hasColumn
    BY <1>14, <2>1, <2>2 DEF hasValue
  <2>4. j \in 1 .. Len(s) /\ ~(tsAt(s[j]) > t)
    BY <1>5, <1>16, <2>3
  <2>5. tsAt(s[j]) \in Int
    BY <1>3, <2>4, AtInOrder
  <2> QED BY <2>2, <2>4, <2>5
<1>22. ASSUME NEW i \in 1 .. Len(v), Len(u) < i PROVE ~(tsAt(v[i]) <= t)
  <2>1. v[i] \notin U
    <3> SUFFICES ASSUME v[i] \in U PROVE FALSE
      OBVIOUS
    <3>1. PICK m \in 1 .. Len(u) : u[m] = v[i]
      BY <1>15, EnumeratedInOrder
    <3>2. m \in 1 .. Len(v) /\ m < i /\ v[m] = v[i]
      BY <1>4, <1>19, <1>20, <1>22, <3>1
    <3>3. Before(v[m], v[i]) /\ v[i] \in Positions
      BY <1>4, <3>2
    <3> QED BY <3>2, <3>3, PositionOrder
  <2>2. v[i] \in At /\ hasValue(v[i][1], v[i][2])
    BY <1>1, <1>4 DEF Valued
  <2>3. PICK j \in 1 .. Len(s) : s[j] = v[i]
    BY <1>3, <2>2
  <2>4. j \notin 1 .. stop - 1
    BY <1>10, <1>14, <2>1, <2>2, <2>3
  <2>5. stop <= j /\ stop \in 1 .. Len(s) /\ stop \in D
    BY <1>3, <1>7, <1>8, <2>4
  <2>6. tsAt(s[stop]) > t
    <3>1. s[stop] \in At
      BY <1>3, <2>5
    <3>2. /\ tMin(chunks[s[stop][1]]) <= tsAt(s[stop])
          /\ tMin(chunks[s[stop][1]]) \in Int /\ tsAt(s[stop]) \in Int
      BY <3>1, AtInOrder, TimeFacts DEF tsAt
    <3>3. tsAt(s[stop]) > t \/ tMin(chunks[s[stop][1]]) > t
      BY <1>5, <2>5
    <3> QED BY <3>2, <3>3
  <2>7. tsAt(s[stop]) <= tsAt(s[j]) /\ tsAt(s[stop]) \in Int /\ tsAt(s[j]) \in Int
    <3>1. s[stop] \in At /\ s[j] \in At
      BY <1>3, <2>5
    <3>2. stop = j \/ Before(s[stop], s[j])
      BY <1>3, <2>5
    <3>3. tsAt(s[stop]) \in Int /\ tsAt(s[j]) \in Int
      BY <3>1, AtInOrder
    <3>4. Before(s[stop], s[j]) => tsAt(s[stop]) <= tsAt(s[j])
      BY <3>1, AtInOrder
    <3> QED BY <3>2, <3>3, <3>4
  <2> QED BY <2>3, <2>6, <2>7
<1>23. Len(u) \in 0 .. Len(v)
  BY <1>4, <1>19, <1>20
<1>24. \A i \in 1 .. Len(v) : tsAt(v[i]) <= t <=> i <= Len(u)
  BY <1>4, <1>20, <1>21, <1>22
<1> QED BY <1>1, <1>13, <1>23, <1>24

(* The lookups of a sample by time are exact.                              *)
LEMMA SeriesLookupsOK ==
    ASSUME ChunksInOrder
    PROVE  SeriesLookups
<1>1. PICK v : v = samplesAll
  OBVIOUS
<1>2. /\ Len(v) \in Nat /\ DOMAIN v = 1 .. Len(v)
      /\ \A i \in 1 .. Len(v) : v[i] \in Valued
  BY <1>1, SamplesEnumerated, EnumeratedInOrder
<1>3. ASSUME NEW t \in Times
      PROVE  indexAtOrBeforeTime(t) = IF {i \in DOMAIN v : tsAt(v[i]) <= t} = {} THEN 0
                                      ELSE Max({i \in DOMAIN v : tsAt(v[i]) <= t})
  <2>1. t \in Int
    BY QueryAssumption
  <2>2. PICK n : n = indexAtOrBeforeTime(t)
    OBVIOUS
  <2>3. n \in 0 .. Len(v) /\ \A i \in 1 .. Len(v) : tsAt(v[i]) <= t <=> i <= n
    BY <1>1, <2>1, <2>2, IndexAtOrBefore
  <2>4. PICK S : S = {i \in DOMAIN v : tsAt(v[i]) <= t}
    OBVIOUS
  <2>5. S = 1 .. n
    BY <1>2, <2>3, <2>4
  <2>6. CASE n = 0
    <3>1. S = {}
      BY <2>5, <2>6
    <3> QED BY <2>2, <2>4, <2>6, <3>1
  <2>7. CASE n # 0
    <3>1. n \in S /\ \A y \in S : n >= y
      BY <1>2, <2>3, <2>5, <2>7
    <3>2. \A x \in S : (\A y \in S : x >= y) => x = n
      BY <1>2, <2>3, <2>5, <3>1
    <3>3. Max(S) = n
      BY <3>1, <3>2 DEF Max
    <3> QED BY <2>2, <2>4, <3>1, <3>3
  <2> QED BY <2>6, <2>7
<1>4. ASSUME NEW t \in Times
      PROVE  indexAtOrAfterTime(t) = IF {i \in DOMAIN v : tsAt(v[i]) >= t} = {} THEN 0
                                     ELSE Min({i \in DOMAIN v : tsAt(v[i]) >= t})
  <2>1. t \in Int
    BY QueryAssumption
  <2>2. \A i \in DOMAIN v : tsAt(v[i]) \in Int /\ tMax(chunks[v[i][1]]) \in Int
                            /\ tsAt(v[i]) <= tMax(chunks[v[i][1]])
    BY <1>2, AtInOrder, TimeFacts DEF tsAt, Valued
  <2>3. {i \in DOMAIN v : tMax(chunks[v[i][1]]) >= t /\ tsAt(v[i]) >= t} = {i \in DOMAIN v : tsAt(v[i]) >= t}
    BY <2>1, <2>2
  <2> QED BY <1>1, <2>3 DEF indexAtOrAfterTime
<1> QED BY <1>1, <1>3, <1>4 DEF SeriesLookups

-----------------------------------------------------------------------------
(* Cursors. *)

CursorT == [kind : {"none", "range", "series"}, min : Int, max : Int,
            chunk : 1 .. MaxChunks + 1, row : 1 .. ChunkRows + 1]

Pt(cur) == <<cur.chunk, cur.row>>

(* The positions a cursor is asked for.                                    *)
WantedOf(cur) ==
    {p \in At : /\ cur.min <= tsAt(p) /\ tsAt(p) <= cur.max
                /\ cur.kind = "series" => hasValue(p[1], p[2])}

(* r is a later state of cur, at the first position of G or at the end.    *)
Lands(r, cur, G) ==
    /\ r \in CursorT /\ r.kind = cur.kind /\ r.min = cur.min /\ r.max = cur.max
    /\ IF G = {} THEN r.chunk = End
       ELSE Pt(r) \in G /\ \A p \in G : ~Before(p, Pt(r))

(* A cursor of which one field changes.                                    *)
LEMMA MovedInPart ==
    ASSUME NEW cur \in CursorT, NEW k, NEW r
    PROVE  /\ [cur EXCEPT !.chunk = k] = [cur EXCEPT !.chunk = k, !.row = cur.row]
           /\ [cur EXCEPT !.row = r] = [cur EXCEPT !.chunk = cur.chunk, !.row = r]
  BY DEF CursorT

(* A cursor set to the end, and one set to a position.                     *)
LEMMA LandsAtEnd ==
    ASSUME NEW cur \in CursorT, NEW G, G = {}, NEW r \in 1 .. ChunkRows + 1,
           Len(chunks) \in Nat, Len(chunks) <= MaxChunks, NEW q,
           q = [cur EXCEPT !.chunk = End, !.row = r]
    PROVE  Lands(q, cur, G)
<1>1. PICK e : e = End
  OBVIOUS
<1>2. e \in 1 .. MaxChunks + 1
  BY <1>1, QueryAssumption DEF End
<1>3. q = [cur EXCEPT !.chunk = e, !.row = r]
  BY <1>1
<1>4. q \in CursorT /\ q.kind = cur.kind /\ q.min = cur.min /\ q.max = cur.max /\ q.chunk = e
  BY <1>2, <1>3 DEF CursorT
<1> QED BY <1>1, <1>4 DEF Lands

LEMMA LandsAt ==
    ASSUME NEW cur \in CursorT, NEW G, NEW k \in 1 .. MaxChunks, NEW r \in 1 .. ChunkRows,
           NEW z, z = <<k, r>>, z \in G, \A p \in G : ~Before(p, z), NEW q,
           q = [cur EXCEPT !.chunk = k, !.row = r]
    PROVE  Lands(q, cur, G)
<1>1. k \in 1 .. MaxChunks + 1 /\ r \in 1 .. ChunkRows + 1
  BY QueryAssumption
<1>2. G # {}
  OBVIOUS
<1>3. q \in CursorT /\ q.kind = cur.kind /\ q.min = cur.min /\ q.max = cur.max /\ Pt(q) = z
  BY <1>1 DEF CursorT, Pt
<1> QED BY <1>2, <1>3 DEF Lands

(* Where a position of the topic lies, as the cursors compare it.          *)
LEMMA WantedFacts ==
    ASSUME ChunksInOrder, NEW cur \in CursorT, NEW p \in WantedOf(cur)
    PROVE  /\ p \in At /\ p \in Positions /\ p = <<p[1], p[2]>>
           /\ p[1] \in 1 .. Len(chunks) /\ p[2] \in 1 .. row_count(chunks[p[1]])
           /\ tsAt(p) = chunks[p[1]].rows[p[2]].ts
           /\ tsAt(p) \in Int /\ cur.min \in Int /\ cur.max \in Int
           /\ cur.min <= tsAt(p) /\ tsAt(p) <= cur.max
           /\ tMin(chunks[p[1]]) <= tsAt(p) /\ tsAt(p) <= tMax(chunks[p[1]])
           /\ tMin(chunks[p[1]]) \in Int /\ tMax(chunks[p[1]]) \in Int
           /\ cur.kind = "series" => hasValue(p[1], p[2])
<1>1. p \in At /\ cur.min <= tsAt(p) /\ tsAt(p) <= cur.max /\ (cur.kind = "series" => hasValue(p[1], p[2]))
  BY DEF WantedOf
<1>2. /\ p \in Positions /\ p = <<p[1], p[2]>> /\ tsAt(p) \in Int
      /\ p[1] \in 1 .. Len(chunks) /\ p[2] \in 1 .. row_count(chunks[p[1]])
  BY <1>1, AtInOrder
<1>3. /\ tMin(chunks[p[1]]) <= tsAt(p) /\ tsAt(p) <= tMax(chunks[p[1]])
      /\ tMin(chunks[p[1]]) \in Int /\ tMax(chunks[p[1]]) \in Int
  BY <1>2, TimeFacts DEF tsAt
<1>4. cur.min \in Int /\ cur.max \in Int
  BY DEF CursorT
<1> QED BY <1>1, <1>2, <1>3, <1>4 DEF tsAt

(* RangeCursor::findFirstValid goes to the first row of the range.         *)
LEMMA FindFirstValidLands ==
    ASSUME ChunksInOrder, Len(chunks) <= MaxChunks, NEW cur \in CursorT, cur.kind = "range"
    PROVE  Lands(findFirstValid(cur), cur, WantedOf(cur))
<1>1. PICK n \in Nat : n = Len(chunks)
  BY TimeFacts
<1>2. cur.min \in Int /\ cur.max \in Int /\ 1 \in 1 .. ChunkRows + 1
  BY QueryAssumption DEF CursorT
<1>3. PICK B : B = {i \in 1 .. n : tMax(chunks[i]) < cur.min}
  OBVIOUS
<1>4. DownClosed(n, B)
  <2> SUFFICES ASSUME NEW i \in 1 .. n, NEW j \in 1 .. n, i <= j, j \in B PROVE i \in B
    BY DEF DownClosed
  <2>1. CASE i = j
    BY <2>1
  <2>2. CASE i < j
    <3>1. tMax(chunks[i]) <= tMin(chunks[j])
      BY <1>1, <2>2, TimeFacts
    <3>2. tMin(chunks[j]) <= tMax(chunks[j]) /\ tMax(chunks[j]) < cur.min
      BY <1>1, <1>3, TimeFacts
    <3>3. tMax(chunks[i]) \in Int /\ tMax(chunks[j]) \in Int /\ tMin(chunks[j]) \in Int
      BY <1>1, TimeFacts
    <3> QED BY <1>2, <1>3, <3>1, <3>2, <3>3
  <2> QED BY <2>1, <2>2
<1>5. PICK k : k = lower_bound(n, B)
  OBVIOUS
<1>6. k \in 1 .. n + 1 /\ \A i \in 1 .. n : i \in B <=> i < k
  BY <1>4, <1>5, LowerBoundExact
<1>7. ASSUME NEW p \in WantedOf(cur) PROVE p[1] \in 1 .. n /\ k <= p[1]
  <2>1. p[1] \in 1 .. n /\ p[1] \notin B
    BY <1>1, <1>2, <1>3, WantedFacts
  <2> QED BY <1>6, <2>1
<1>8. CASE k = End
  <2>1. findFirstValid(cur) = [cur EXCEPT !.chunk = End, !.row = 1]
    BY <1>1, <1>3, <1>5, <1>8 DEF findFirstValid
  <2>2. WantedOf(cur) = {}
    BY <1>1, <1>7, <1>8 DEF End
  <2>3. PICK q, G : q = findFirstValid(cur) /\ G = WantedOf(cur)
    OBVIOUS
  <2>4. Lands(q, cur, G)
    BY <1>1, <1>2, <2>1, <2>2, <2>3, LandsAtEnd
  <2> QED BY <2>3, <2>4
<1>9. CASE k # End
  <2>1. k \in 1 .. n /\ k \notin B
    BY <1>1, <1>6, <1>9 DEF End
  <2>2. PICK c, m : c = chunks[k] /\ m = row_count(chunks[k])
    OBVIOUS
  <2>3. /\ m \in Nat /\ 1 <= m /\ m <= ChunkRows /\ tMax(c) = c.rows[m].ts /\ tMax(c) \in Int
        /\ \A r \in 1 .. m : c.rows[r].ts \in Int
        /\ \A r, q \in 1 .. m : r <= q => c.rows[r].ts <= c.rows[q].ts
    BY <1>1, <2>1, <2>2, TimeFacts
  <2>4. PICK R : R = {i \in 1 .. m : c.rows[i].ts < cur.min}
    OBVIOUS
  <2>5. DownClosed(m, R)
    <3> SUFFICES ASSUME NEW i \in 1 .. m, NEW j \in 1 .. m, i <= j, j \in R PROVE i \in R
      BY DEF DownClosed
    <3>1. c.rows[i].ts <= c.rows[j].ts /\ c.rows[j].ts < cur.min /\ c.rows[i].ts \in Int /\ c.rows[j].ts \in Int
      BY <2>3, <2>4
    <3> QED BY <1>2, <2>4, <3>1
  <2>6. PICK row : row = lower_bound(m, R)
    OBVIOUS
  <2>7. row \in 1 .. m + 1 /\ \A i \in 1 .. m : i \in R <=> i < row
    BY <2>3, <2>5, <2>6, LowerBoundExact
  <2>8. m \in 1 .. m /\ m \notin R
    BY <1>2, <1>3, <2>1, <2>2, <2>3, <2>4
  <2>9. row \in 1 .. m /\ row \notin R
    BY <2>3, <2>7, <2>8
  <2>10. findFirstValid(cur) = IF k = End THEN [cur EXCEPT !.chunk = End, !.row = 1]
            ELSE IF row > m THEN [cur EXCEPT !.chunk = End, !.row = 1]
            ELSE IF c.rows[row].ts > cur.max THEN [cur EXCEPT !.chunk = End, !.row = 1]
            ELSE [cur EXCEPT !.chunk = k, !.row = row]
    BY <1>1, <1>3, <1>5, <2>2, <2>4, <2>6 DEF findFirstValid, row_count
  <2>11. ~(row > m)
    BY <2>3, <2>9
  <2>12. PICK z : z = <<k, row>>
    OBVIOUS
  <2>13. z[1] = k /\ z[2] = row /\ z \in At /\ tsAt(z) = c.rows[row].ts /\ tsAt(z) \in Int /\ z \in Positions
    <3>1. z[1] = k /\ z[2] = row /\ z \in At
      BY <1>1, <2>1, <2>2, <2>9, <2>12, AtInOrder
    <3> QED BY <2>2, <3>1, AtInOrder DEF tsAt
  <2>14. cur.min <= tsAt(z)
    BY <1>2, <2>4, <2>9, <2>13
  <2>15. ASSUME NEW p \in WantedOf(cur) PROVE ~Before(p, z)
    <3>1. p[1] \in 1 .. n /\ k <= p[1]
      BY <1>7
    <3>2. CASE p[1] = k
      <4>1. p[2] \in 1 .. m /\ p[2] \notin R
        BY <1>2, <2>2, <2>4, <3>2, WantedFacts
      <4>2. row <= p[2]
        BY <2>3, <2>7, <4>1
      <4> QED BY <1>1, <2>1, <2>3, <2>9, <2>13, <3>2, <4>1, <4>2 DEF Before
    <3>3. CASE p[1] # k
      BY <1>1, <2>1, <2>13, <3>1, <3>3 DEF Before
    <3> QED BY <3>2, <3>3
  <2>16. CASE c.rows[row].ts > cur.max
    <3>1. findFirstValid(cur) = [cur EXCEPT !.chunk = End, !.row = 1]
      BY <1>9, <2>10, <2>11, <2>16
    <3>2. WantedOf(cur) = {}
      <4> SUFFICES ASSUME NEW p \in WantedOf(cur) PROVE FALSE
        OBVIOUS
      <4>1. p \in At /\ p \in Positions /\ tsAt(p) \in Int /\ tsAt(p) <= cur.max
        BY WantedFacts
      <4>2. p = z \/ Before(z, p)
        BY <2>13, <2>15, <4>1, PositionOrder
      <4>3. tsAt(z) <= tsAt(p)
        BY <2>13, <4>1, <4>2, AtInOrder
      <4> QED BY <1>2, <2>13, <2>16, <4>1, <4>3
    <3>3. PICK q, G : q = findFirstValid(cur) /\ G = WantedOf(cur)
      OBVIOUS
    <3>4. Lands(q, cur, G)
      BY <1>1, <1>2, <3>1, <3>2, <3>3, LandsAtEnd
    <3> QED BY <3>3, <3>4
  <2>17. CASE ~(c.rows[row].ts > cur.max)
    <3>1. findFirstValid(cur) = [cur EXCEPT !.chunk = k, !.row = row]
      BY <1>9, <2>10, <2>11, <2>17
    <3>2. z \in WantedOf(cur)
      BY <1>2, <2>13, <2>14, <2>17 DEF WantedOf
    <3>3. k \in 1 .. MaxChunks /\ row \in 1 .. ChunkRows
      BY <1>1, <2>1, <2>3, <2>9, QueryAssumption
    <3>4. PICK q, G : q = findFirstValid(cur) /\ G = WantedOf(cur)
      OBVIOUS
    <3>5. Lands(q, cur, G)
      BY <2>12, <2>15, <3>1, <3>2, <3>3, <3>4, LandsAt
    <3> QED BY <3>4, <3>5
  <2> QED BY <2>16, <2>17
<1> QED BY <1>8, <1>9

(* A set of positions has a first one.                                     *)
LEMMA LeastPosition ==
    ASSUME NEW S \in SUBSET Positions, S # {}
    PROVE  \E p \in S : \A q \in S : p[1] < q[1] \/ (p[1] = q[1] /\ p[2] <= q[2])
<1>1. \A p \in S : p[1] \in Nat /\ p[2] \in Nat
  BY DEF Positions
<1> DEFINE K == {p[1] : p \in S}
<1>2. K \in SUBSET Nat /\ K # {}
  BY <1>1
<1>3. PICK k \in K : \A m \in K : k <= m
  BY <1>2, LeastNatural
<1> DEFINE R == {p[2] : p \in {q \in S : q[1] = k}}
<1>4. R \in SUBSET Nat /\ R # {}
  BY <1>1
<1>5. PICK r \in R : \A m \in R : r <= m
  BY <1>4, LeastNatural
<1>6. PICK p \in S : p[1] = k /\ p[2] = r
  OBVIOUS
<1>7. ASSUME NEW q \in S PROVE p[1] < q[1] \/ (p[1] = q[1] /\ p[2] <= q[2])
  <2>1. q[1] \in Nat /\ k \in Nat /\ k <= q[1]
    BY <1>1, <1>3, <1>6
  <2>2. q[1] = k => r <= q[2]
    BY <1>5
  <2> QED BY <1>6, <2>1, <2>2
<1> QED BY <1>7

(* RangeCursor::advance goes to the next row of the range.                 *)
LEMMA AdvanceLands ==
    ASSUME ChunksInOrder, Len(chunks) <= MaxChunks, NEW cur \in CursorT, cur.kind = "range",
           Pt(cur) \in WantedOf(cur)
    PROVE  Lands(skipToValid(nextRow(cur)), cur, {p \in WantedOf(cur) : Before(Pt(cur), p)})
<1>1. PICK n \in Nat : n = Len(chunks)
  BY TimeFacts
<1>2. PICK c : c = Pt(cur)
  OBVIOUS
<1>3. c[1] = cur.chunk /\ c[2] = cur.row
  BY <1>2 DEF Pt
<1>4. /\ c \in At /\ c \in Positions /\ c[1] \in 1 .. n /\ c[2] \in 1 .. row_count(chunks[c[1]])
      /\ tsAt(c) \in Int /\ cur.min \in Int /\ cur.max \in Int /\ cur.min <= tsAt(c)
  BY <1>1, <1>2, WantedFacts
<1>5. PICK m \in Nat : m = row_count(chunks[cur.chunk]) /\ m <= ChunkRows
  BY <1>1, <1>3, <1>4, TimeFacts
<1>6. PICK G : G = {p \in WantedOf(cur) : Before(c, p)}
  OBVIOUS
<1>7. PICK k, r : IF cur.row + 1 > m THEN k = cur.chunk + 1 /\ r = 1 ELSE k = cur.chunk /\ r = cur.row + 1
  OBVIOUS
<1>8. k \in 1 .. n + 1 /\ k \in 1 .. MaxChunks + 1 /\ r \in 1 .. ChunkRows + 1
  BY <1>1, <1>3, <1>4, <1>5, <1>7, QueryAssumption, SMTT(30)
<1>9. PICK q : q = [cur EXCEPT !.chunk = k, !.row = r]
  OBVIOUS
<1>10. /\ q \in CursorT /\ q.kind = cur.kind /\ q.min = cur.min /\ q.max = cur.max
       /\ q.chunk = k /\ q.row = r
  BY <1>8, <1>9 DEF CursorT
<1>11. nextRow(cur) = q
  <2>1. CASE cur.row + 1 > m
    BY <1>5, <1>7, <1>9, <2>1 DEF nextRow, CursorT
  <2>2. CASE ~(cur.row + 1 > m)
    BY <1>5, <1>7, <1>9, <2>2 DEF nextRow, CursorT
  <2> QED BY <2>1, <2>2
<1>12. skipToValid(q) = IF k <= n /\ chunks[k].rows[r].ts > cur.max THEN [q EXCEPT !.chunk = End] ELSE q
  BY <1>1, <1>10 DEF skipToValid, valid
<1>13. PICK z : z = <<k, r>>
  OBVIOUS
<1>14. z[1] = k /\ z[2] = r /\ z \in Positions
  BY <1>8, <1>13, QueryAssumption DEF Positions
<1>15. ASSUME NEW p \in WantedOf(cur), Before(c, p) PROVE k <= n /\ ~Before(p, z)
  <2>1. p[1] \in 1 .. n /\ p[2] \in 1 .. row_count(chunks[p[1]])
    BY <1>1, WantedFacts
  <2>2. row_count(chunks[p[1]]) \in Nat
    BY <1>1, <2>1, TimeFacts
  <2>3. CASE cur.row + 1 > m
    <3>1. cur.chunk < p[1]
      BY <1>3, <1>4, <1>5, <1>15, <2>1, <2>2, <2>3 DEF Before
    <3> QED BY <1>1, <1>3, <1>4, <1>7, <1>14, <2>1, <2>2, <2>3, <3>1 DEF Before
  <2>4. CASE ~(cur.row + 1 > m)
    BY <1>1, <1>3, <1>4, <1>5, <1>7, <1>14, <1>15, <2>1, <2>2, <2>4 DEF Before
  <2> QED BY <2>3, <2>4
<1>16. CASE ~(k <= n)
  <2>1. G = {}
    BY <1>6, <1>15, <1>16
  <2>2. k = End
    BY <1>1, <1>8, <1>16 DEF End
  <2>3. skipToValid(q) = q
    BY <1>12, <1>16
  <2>4. Lands(q, cur, G)
    BY <1>10, <2>1, <2>2 DEF Lands
  <2> QED BY <1>2, <1>6, <1>11, <2>3, <2>4
<1>17. CASE k <= n
  <2>1. k \in 1 .. n /\ r \in 1 .. row_count(chunks[k])
    <3>1. k \in 1 .. n
      BY <1>1, <1>8, <1>17
    <3>2. row_count(chunks[k]) \in Nat /\ 1 <= row_count(chunks[k])
      BY <1>1, <3>1, TimeFacts
    <3> QED BY <1>3, <1>4, <1>5, <1>7, <3>1, <3>2
  <2>2. z \in At /\ tsAt(z) \in Int /\ tsAt(z) = chunks[k].rows[r].ts
    BY <1>1, <1>13, <1>14, <2>1, AtInOrder DEF tsAt
  <2>3. Before(c, z)
    BY <1>1, <1>3, <1>4, <1>5, <1>7, <1>14 DEF Before
  <2>4. tsAt(c) <= tsAt(z)
    BY <1>4, <2>2, <2>3, AtInOrder
  <2>5. CASE chunks[k].rows[r].ts > cur.max
    <3>1. skipToValid(q) = [q EXCEPT !.chunk = End]
      BY <1>12, <1>17, <2>5
    <3>2. G = {}
      <4> SUFFICES ASSUME NEW p \in G PROVE FALSE
        OBVIOUS
      <4>1. p \in WantedOf(cur) /\ Before(c, p)
        BY <1>6
      <4>2. p \in At /\ p \in Positions /\ tsAt(p) \in Int /\ tsAt(p) <= cur.max
        BY <4>1, WantedFacts
      <4>3. p = z \/ Before(z, p)
        BY <1>14, <1>15, <4>1, <4>2, PositionOrder
      <4>4. tsAt(z) <= tsAt(p)
        BY <2>2, <4>2, <4>3, AtInOrder
      <4> QED BY <1>4, <2>2, <2>5, <4>2, <4>4
    <3>3. PICK w : w = [q EXCEPT !.chunk = End]
      OBVIOUS
    <3>4. End \in 1 .. MaxChunks + 1
      BY <1>1, QueryAssumption DEF End
    <3>5. w \in CursorT /\ w.kind = cur.kind /\ w.min = cur.min /\ w.max = cur.max /\ w.chunk = End
      BY <1>10, <3>3, <3>4 DEF CursorT
    <3>6. Lands(w, cur, G)
      BY <3>2, <3>5 DEF Lands
    <3> QED BY <1>2, <1>6, <1>11, <3>1, <3>3, <3>6
  <2>6. CASE ~(chunks[k].rows[r].ts > cur.max)
    <3>1. skipToValid(q) = q
      BY <1>12, <2>6
    <3>2. z \in WantedOf(cur)
      BY <1>4, <2>2, <2>4, <2>6 DEF WantedOf
    <3>3. z \in G
      BY <1>6, <2>3, <3>2
    <3>4. \A p \in G : ~Before(p, z)
      BY <1>6, <1>15
    <3>5. Pt(q) = z
      BY <1>10, <1>13 DEF Pt
    <3>6. G # {}
      BY <3>3
    <3>7. Lands(q, cur, G)
      BY <1>10, <3>3, <3>4, <3>5, <3>6 DEF Lands
    <3> QED BY <1>2, <1>6, <1>11, <3>1, <3>7
  <2> QED BY <2>5, <2>6
<1> QED BY <1>16, <1>17

(* SeriesCursor::skipToSample goes to the first sample of the range that   *)
(* is not before the cursor.                                               *)
LEMMA SkipToSampleLands ==
    ASSUME ChunksInOrder, Len(chunks) <= MaxChunks, NEW cur \in CursorT, cur.kind = "series"
    PROVE  Lands(skipToSample(cur), cur, {p \in WantedOf(cur) : ~Before(p, Pt(cur))})
<1>1. PICK n \in Nat : n = Len(chunks)
  BY TimeFacts
<1>2. PICK c : c = Pt(cur)
  OBVIOUS
<1>3. c[1] = cur.chunk /\ c[2] = cur.row
  BY <1>2 DEF Pt
<1>4. /\ cur.chunk \in 1 .. MaxChunks + 1 /\ cur.row \in 1 .. ChunkRows + 1
      /\ cur.chunk \in Nat /\ cur.row \in Nat /\ 1 <= cur.chunk /\ 1 <= cur.row
      /\ cur.min \in Int /\ cur.max \in Int /\ 1 \in 1 .. ChunkRows + 1
  BY QueryAssumption DEF CursorT
<1>5. PICK G : G = {p \in WantedOf(cur) : ~Before(p, c)}
  OBVIOUS
<1> DEFINE from(k) == IF k = cur.chunk THEN cur.row ELSE 1
           usable(k) == tMax(chunks[k]) >= cur.min /\ chunks[k].hasColumn
           stopChunk(k) == usable(k) /\ tMin(chunks[k]) > cur.max
           rowsOf(k) == {r \in from(k) .. row_count(chunks[k]) : chunks[k].rows[r].ts >= cur.min}
           whole == {<<k, 0>> : k \in {j \in cur.chunk .. Len(chunks) : stopChunk(j)}}
           single == UNION {{<<k, r>> : r \in {q \in rowsOf(k) :
                              chunks[k].rows[q].ts > cur.max \/ hasValue(k, q)}} :
                                k \in {j \in cur.chunk .. Len(chunks) : usable(j)}}
           stops == whole \cup single
           least == CHOOSE p \in stops : \A q \in stops : p[1] < q[1] \/ (p[1] = q[1] /\ p[2] <= q[2])
<1>6. skipToSample(cur) =
          IF stops = {} THEN [cur EXCEPT !.chunk = End, !.row = 1]
          ELSE IF least[2] = 0 THEN [cur EXCEPT !.chunk = End]
          ELSE IF chunks[least[1]].rows[least[2]].ts > cur.max THEN [cur EXCEPT !.chunk = End]
          ELSE [cur EXCEPT !.chunk = least[1], !.row = least[2]]
  BY DEF skipToSample
<1>7. ASSUME NEW p \in whole
      PROVE  /\ p \in Positions /\ p[1] \in 1 .. n /\ p[2] = 0 /\ tMin(chunks[p[1]]) > cur.max
  <2>1. PICK k \in {j \in cur.chunk .. Len(chunks) : stopChunk(j)} : p = <<k, 0>>
    OBVIOUS
  <2>2. k \in 1 .. n /\ k \in Nat /\ stopChunk(k)
    BY <1>1, <1>4
  <2> QED BY <2>1, <2>2 DEF Positions
<1>8. ASSUME NEW p \in single
      PROVE  /\ p \in Positions /\ p \in At /\ p[2] # 0 /\ ~Before(p, c) /\ tsAt(p) >= cur.min
             /\ tsAt(p) > cur.max \/ hasValue(p[1], p[2])
             /\ p[1] \in 1 .. n /\ p[2] \in 1 .. row_count(chunks[p[1]])
  <2>1. PICK k \in {j \in cur.chunk .. Len(chunks) : usable(j)} :
             p \in {<<k, r>> : r \in {q \in rowsOf(k) : chunks[k].rows[q].ts > cur.max \/ hasValue(k, q)}}
    OBVIOUS
  <2>2. PICK r \in rowsOf(k) : p = <<k, r>> /\ (chunks[k].rows[r].ts > cur.max \/ hasValue(k, r))
    BY <2>1
  <2>3. k \in 1 .. n /\ cur.chunk <= k
    BY <1>1, <1>4
  <2>4. row_count(chunks[k]) \in Nat
    BY <1>1, <2>3, TimeFacts
  <2>5. r \in 1 .. row_count(chunks[k]) /\ (k = cur.chunk => cur.row <= r) /\ chunks[k].rows[r].ts >= cur.min
    BY <1>4, <2>4
  <2>6. p \in At /\ p[1] = k /\ p[2] = r
    BY <1>1, <2>2, <2>3, <2>5, AtInOrder
  <2>7. p \in Positions
    BY <2>6, AtInOrder
  <2>8. ~Before(p, c)
    BY <1>1, <1>3, <1>4, <2>3, <2>4, <2>5, <2>6 DEF Before
  <2> QED BY <2>2, <2>3, <2>4, <2>5, <2>6, <2>7, <2>8 DEF tsAt
<1>9. ASSUME NEW p \in G PROVE p \in single
  <2>1. p \in WantedOf(cur) /\ ~Before(p, c)
    BY <1>5
  <2>2. /\ p = <<p[1], p[2]>> /\ p[1] \in 1 .. n /\ p[2] \in 1 .. row_count(chunks[p[1]])
        /\ tsAt(p) = chunks[p[1]].rows[p[2]].ts /\ tsAt(p) \in Int
        /\ cur.min <= tsAt(p) /\ tsAt(p) <= tMax(chunks[p[1]]) /\ tMax(chunks[p[1]]) \in Int
        /\ hasValue(p[1], p[2])
    BY <1>1, <2>1, WantedFacts
  <2>3. row_count(chunks[p[1]]) \in Nat
    BY <1>1, <2>2, TimeFacts
  <2>4. p[1] \in cur.chunk .. Len(chunks)
    BY <1>1, <1>3, <1>4, <2>1, <2>2 DEF Before
  <2>5. usable(p[1])
    BY <1>4, <2>2 DEF hasValue
  <2>6. p[2] \in rowsOf(p[1])
    BY <1>3, <1>4, <2>1, <2>2, <2>3 DEF Before
  <2> HIDE DEF usable, rowsOf
  <2> QED BY <2>2, <2>4, <2>5, <2>6
<1> HIDE DEF whole, single
<1>10. CASE stops = {}
  <2>1. G = {}
    BY <1>9, <1>10
  <2>2. PICK q : q = skipToSample(cur)
    OBVIOUS
  <2>3. q = [cur EXCEPT !.chunk = End, !.row = 1]
    BY <1>6, <1>10, <2>2
  <2>4. Lands(q, cur, G)
    BY <1>1, <1>4, <2>1, <2>3, LandsAtEnd
  <2> QED BY <1>2, <1>5, <2>2, <2>4
<1>11. CASE stops # {}
  <2>1. PICK z : z = least
    OBVIOUS
  <2>2. z \in stops /\ \A q \in stops : z[1] < q[1] \/ (z[1] = q[1] /\ z[2] <= q[2])
    <3>1. stops \in SUBSET Positions
      BY <1>7, <1>8
    <3>2. PICK S : S = stops
      OBVIOUS
    <3>3. \E p \in S : \A q \in S : p[1] < q[1] \/ (p[1] = q[1] /\ p[2] <= q[2])
      BY <1>11, <3>1, <3>2, LeastPosition
    <3> QED BY <2>1, <3>2, <3>3
  <2>3. skipToSample(cur) =
            IF z[2] = 0 THEN [cur EXCEPT !.chunk = End]
            ELSE IF chunks[z[1]].rows[z[2]].ts > cur.max THEN [cur EXCEPT !.chunk = End]
            ELSE [cur EXCEPT !.chunk = z[1], !.row = z[2]]
    BY <1>6, <1>11, <2>1
  <2> HIDE DEF least
  <2>4. ASSUME G = {}, skipToSample(cur) = [cur EXCEPT !.chunk = End]
        PROVE  Lands(skipToSample(cur), cur, G)
    <3>1. PICK q : q = skipToSample(cur)
      OBVIOUS
    <3>2. q = [cur EXCEPT !.chunk = End, !.row = cur.row]
      BY <2>4, <3>1, MovedInPart
    <3>3. Lands(q, cur, G)
      BY <1>1, <1>4, <2>4, <3>2, LandsAtEnd
    <3> QED BY <3>1, <3>3
  <2>5. CASE z \in whole
    <3>1. z[1] \in 1 .. n /\ z[2] = 0 /\ tMin(chunks[z[1]]) > cur.max
      BY <1>7, <2>5
    <3>2. G = {}
      <4> SUFFICES ASSUME NEW p \in G PROVE FALSE
        OBVIOUS
      <4>1. z[1] <= p[1] /\ p[1] \in 1 .. n
        BY <1>1, <1>8, <1>9, <2>2, <3>1
      <4>2. /\ tsAt(p) <= cur.max /\ tMin(chunks[p[1]]) <= tsAt(p)
            /\ tsAt(p) \in Int /\ tMin(chunks[p[1]]) \in Int
        BY <1>5, WantedFacts
      <4>3. tMin(chunks[z[1]]) \in Int /\ tMax(chunks[z[1]]) \in Int /\ tMin(chunks[z[1]]) <= tMax(chunks[z[1]])
        BY <1>1, <3>1, TimeFacts
      <4>4. z[1] = p[1] \/ tMax(chunks[z[1]]) <= tMin(chunks[p[1]])
        BY <1>1, <3>1, <4>1, TimeFacts
      <4> QED BY <1>4, <3>1, <4>2, <4>3, <4>4
    <3>3. skipToSample(cur) = [cur EXCEPT !.chunk = End]
      BY <2>3, <3>1
    <3> QED BY <1>2, <1>5, <2>4, <3>2, <3>3
  <2>6. CASE z \in single
    <3>1. /\ z \in Positions /\ z \in At /\ z[2] # 0 /\ ~Before(z, c) /\ tsAt(z) >= cur.min
          /\ tsAt(z) > cur.max \/ hasValue(z[1], z[2])
          /\ z[1] \in 1 .. n /\ z[2] \in 1 .. row_count(chunks[z[1]])
      BY <1>8, <2>6
    <3>2. tsAt(z) = chunks[z[1]].rows[z[2]].ts /\ tsAt(z) \in Int
      BY <3>1, AtInOrder DEF tsAt
    <3>3. ASSUME NEW p \in G PROVE ~Before(p, z) /\ p \in Positions
      <4>1. z[1] < p[1] \/ (z[1] = p[1] /\ z[2] <= p[2])
        BY <1>9, <2>2
      <4>2. p \in Positions
        BY <1>8, <1>9
      <4>3. p[1] \in Nat /\ p[2] \in Nat /\ z[1] \in Nat /\ z[2] \in Nat
        BY <3>1, <4>2 DEF Positions
      <4> QED BY <4>1, <4>2, <4>3 DEF Before
    <3>4. CASE chunks[z[1]].rows[z[2]].ts > cur.max
      <4>1. G = {}
        <5> SUFFICES ASSUME NEW p \in G PROVE FALSE
          OBVIOUS
        <5>1. p \in At /\ tsAt(p) \in Int /\ tsAt(p) <= cur.max
          BY <1>5, WantedFacts
        <5>2. p = z \/ Before(z, p)
          BY <3>1, <3>3, PositionOrder
        <5>3. tsAt(z) <= tsAt(p)
          BY <3>1, <3>2, <5>1, <5>2, AtInOrder
        <5> QED BY <1>4, <3>2, <3>4, <5>1, <5>3
      <4>2. skipToSample(cur) = [cur EXCEPT !.chunk = End]
        BY <2>3, <3>1, <3>4
      <4> QED BY <1>2, <1>5, <2>4, <4>1, <4>2
    <3>5. CASE ~(chunks[z[1]].rows[z[2]].ts > cur.max)
      <4>1. PICK q : q = skipToSample(cur)
        OBVIOUS
      <4>2. q = [cur EXCEPT !.chunk = z[1], !.row = z[2]]
        BY <2>3, <3>1, <3>5, <4>1
      <4>3. z \in WantedOf(cur)
        BY <1>4, <3>1, <3>2, <3>5 DEF WantedOf
      <4>4. z \in G
        BY <1>5, <3>1, <4>3
      <4>5. z = <<z[1], z[2]>>
        BY <3>1 DEF Positions
      <4>6. row_count(chunks[z[1]]) \in Nat /\ row_count(chunks[z[1]]) <= ChunkRows
        BY <1>1, <3>1, TimeFacts
      <4>7. z[1] \in 1 .. MaxChunks /\ z[2] \in 1 .. ChunkRows
        BY <1>1, <3>1, <4>6, QueryAssumption
      <4>8. Lands(q, cur, G)
        BY <3>3, <4>2, <4>4, <4>5, <4>7, LandsAt
      <4> QED BY <1>2, <1>5, <4>1, <4>8
    <3> QED BY <3>4, <3>5
  <2> QED BY <2>2, <2>5, <2>6
<1> QED BY <1>10, <1>11

(* The rows forEachChunk takes of one chunk.                               *)
LEMMA ChunkRangeEnumerated ==
    ASSUME ChunksInOrder, NEW cur \in CursorT, cur.kind = "range",
           NEW k \in 1 .. Len(chunks), NEW from \in 1 .. row_count(chunks[k])
    PROVE  Enumerates(chunkRange(cur, k, from), {p \in WantedOf(cur) : p[1] = k /\ from <= p[2]})
<1>1. PICK n \in Nat : n = Len(chunks)
  BY TimeFacts
<1>2. PICK c, m : c = chunks[k] /\ m = row_count(chunks[k])
  OBVIOUS
<1>3. /\ m \in Nat /\ 1 <= m /\ (\A r \in 1 .. m : c.rows[r].ts \in Int)
      /\ \A r, q \in 1 .. m : r <= q => c.rows[r].ts <= c.rows[q].ts
  BY <1>2, TimeFacts
<1>4. cur.min \in Int /\ cur.max \in Int /\ k \in Nat /\ from \in Nat /\ 1 <= from /\ from <= m
  BY <1>1, <1>2, <1>3 DEF CursorT
<1>5. PICK F : F = {i \in from .. m : c.rows[i].ts >= cur.min} \cup {m + 1}
  OBVIOUS
<1>6. PICK first : first = Min(F)
  OBVIOUS
<1>7. first \in F /\ \A x \in F : first <= x
  <2>1. F \in SUBSET Nat /\ F # {}
    BY <1>3, <1>4, <1>5
  <2> QED BY <1>6, <2>1, MinIsLeast
<1>8. first \in Nat /\ 1 <= first /\ first <= m + 1 /\ from <= first
  BY <1>3, <1>4, <1>5, <1>7
<1>9. PICK E : E = {i \in first .. m : c.rows[i].ts > cur.max} \cup {m + 1}
  OBVIOUS
<1>10. PICK end : end = Min(E)
  OBVIOUS
<1>11. end \in E /\ \A x \in E : end <= x
  <2>1. E \in SUBSET Nat /\ E # {}
    BY <1>3, <1>8, <1>9
  <2> QED BY <1>10, <2>1, MinIsLeast
<1>12. end \in Nat /\ first <= end /\ end <= m + 1
  BY <1>3, <1>8, <1>9, <1>11
<1>13. PICK q : q = [i \in 1 .. end - first |-> <<k, first + i - 1>>]
  OBVIOUS
<1>14. chunkRange(cur, k, from) = q
  BY <1>2, <1>5, <1>6, <1>9, <1>10, <1>13 DEF chunkRange, row_count
<1>15. Enumerates(q, {p \in Positions : p[1] = k /\ first <= p[2] /\ p[2] < end})
  BY ONLY <1>4, <1>8, <1>12, <1>13, SliceEnumerated
<1>16. ASSUME NEW p \in Positions, p[1] = k, first <= p[2], p[2] < end
       PROVE  p \in WantedOf(cur) /\ from <= p[2]
  <2>1. p[2] \in Nat /\ p = <<k, p[2]>> /\ p[2] \in 1 .. m /\ from <= p[2]
    BY <1>3, <1>4, <1>8, <1>12, <1>16 DEF Positions
  <2>2. p \in At /\ tsAt(p) = c.rows[p[2]].ts /\ tsAt(p) \in Int
    BY <1>2, <1>16, <2>1, AtInOrder DEF tsAt
  <2>3. first \in 1 .. m /\ c.rows[first].ts >= cur.min
    BY <1>3, <1>4, <1>5, <1>7, <1>8, <1>16, <2>1
  <2>4. c.rows[first].ts <= c.rows[p[2]].ts
    BY <1>3, <1>16, <2>1, <2>3
  <2>5. p[2] \in first .. m /\ p[2] \notin E
    BY <1>3, <1>8, <1>11, <1>12, <1>16, <2>1
  <2>6. ~(c.rows[p[2]].ts > cur.max)
    BY <1>9, <2>5
  <2>7. cur.min <= tsAt(p) /\ tsAt(p) <= cur.max
    BY <1>3, <1>4, <2>1, <2>2, <2>3, <2>4, <2>6
  <2> QED BY <2>1, <2>2, <2>7 DEF WantedOf
<1>17. ASSUME NEW p \in WantedOf(cur), p[1] = k, from <= p[2]
       PROVE  p \in Positions /\ first <= p[2] /\ p[2] < end
  <2>1. /\ p \in Positions /\ p[2] \in 1 .. m /\ tsAt(p) = c.rows[p[2]].ts /\ tsAt(p) \in Int
        /\ cur.min <= tsAt(p) /\ tsAt(p) <= cur.max
    BY <1>2, <1>17, WantedFacts
  <2>2. p[2] \in F
    BY <1>3, <1>4, <1>5, <1>17, <2>1
  <2>3. first <= p[2]
    BY <1>7, <2>2
  <2>4. p[2] < end
    <3> SUFFICES ASSUME ~(p[2] < end) PROVE FALSE
      OBVIOUS
    <3>1. end <= p[2] /\ end \in 1 .. m /\ end # m + 1
      BY <1>3, <1>8, <1>12, <2>1
    <3>2. c.rows[end].ts > cur.max
      BY <1>9, <1>11, <3>1
    <3>3. c.rows[end].ts <= c.rows[p[2]].ts /\ c.rows[end].ts \in Int
      BY <1>3, <2>1, <3>1
    <3> QED BY <1>4, <2>1, <3>2, <3>3
  <2> QED BY <2>1, <2>3, <2>4
<1>18. {p \in Positions : p[1] = k /\ first <= p[2] /\ p[2] < end}
         = {p \in WantedOf(cur) : p[1] = k /\ from <= p[2]}
  BY <1>16, <1>17
<1> QED BY <1>14, <1>15, <1>18

(* forEachChunk delivers what is left of the range.                        *)
LEMMA ForEachEnumerates ==
    ASSUME ChunksInOrder, NEW cur \in CursorT, cur.kind = "range", Pt(cur) \in WantedOf(cur)
    PROVE  Enumerates(forEachChunkRows(cur), {p \in WantedOf(cur) : ~Before(p, Pt(cur))})
<1>1. PICK n \in Nat : n = Len(chunks)
  BY TimeFacts
<1>2. PICK c : c = Pt(cur)
  OBVIOUS
<1>3. c[1] = cur.chunk /\ c[2] = cur.row
  BY <1>2 DEF Pt
<1>4. /\ c \in Positions /\ cur.chunk \in 1 .. n /\ cur.row \in 1 .. row_count(chunks[cur.chunk])
      /\ cur.chunk \in Nat /\ cur.row \in Nat
      /\ cur.min \in Int /\ cur.max \in Int
  BY <1>1, <1>2, <1>3, WantedFacts DEF Positions
<1>5. PICK D : D = {k \in cur.chunk .. n : tMin(chunks[k]) > cur.max} \cup {n + 1}
  OBVIOUS
<1>6. PICK stop : stop = Min(D)
  OBVIOUS
<1>7. stop \in D /\ \A x \in D : stop <= x
  <2>1. D \in SUBSET Nat /\ D # {}
    BY <1>1, <1>4, <1>5
  <2> QED BY <1>6, <2>1, MinIsLeast
<1>8. stop \in Nat /\ cur.chunk <= stop /\ stop <= n + 1
  BY <1>1, <1>4, <1>5, <1>7
<1>9. PICK l \in Nat : l = stop - cur.chunk
  BY <1>4, <1>8
<1>10. PICK G : G = {p \in WantedOf(cur) : ~Before(p, c)}
  OBVIOUS
<1> DEFINE at(i) == cur.chunk + i - 1
           rows(i) == IF tMax(chunks[at(i)]) < cur.min THEN <<>>
                      ELSE chunkRange(cur, at(i), IF i = 1 THEN cur.row ELSE 1)
           ss == [i \in 1 .. l |-> rows(i)]
           SS == [i \in 1 .. l |-> {p \in WantedOf(cur) : p[1] = at(i) /\ (i = 1 => cur.row <= p[2])}]
<1>11. forEachChunkRows(cur) = FlattenSeq(ss)
  <2>1. forEachChunkRows(cur) = FlattenSeq([i \in 1 .. stop - cur.chunk |-> rows(i)])
    BY <1>1, <1>5, <1>6 DEF forEachChunkRows, End
  <2> HIDE DEF rows
  <2> QED BY <1>9, <2>1
<1>12. \A i \in 1 .. l : at(i) \in 1 .. n /\ at(i) < stop /\ cur.chunk <= at(i) /\ (i = 1 => at(i) = cur.chunk)
  BY <1>1, <1>4, <1>8, <1>9
<1>13. ASSUME NEW i \in 1 .. l PROVE Enumerates(ss[i], SS[i])
  <2>1. PICK k \in 1 .. n : k = at(i)
    BY <1>12
  <2>2. PICK from : from = IF i = 1 THEN cur.row ELSE 1
    OBVIOUS
  <2>3. ss[i] = IF tMax(chunks[k]) < cur.min THEN <<>> ELSE chunkRange(cur, k, from)
    BY <2>1, <2>2
  <2>4. row_count(chunks[k]) \in Nat /\ 1 <= row_count(chunks[k])
    BY <1>1, TimeFacts
  <2>5. from \in 1 .. row_count(chunks[k])
    <3>1. i = 1 => k = cur.chunk
      BY <1>12, <2>1
    <3> QED BY <1>4, <2>2, <2>4, <3>1
  <2>6. SS[i] = {p \in WantedOf(cur) : p[1] = k /\ from <= p[2]}
    <3>1. SS[i] = {p \in WantedOf(cur) : p[1] = k /\ (i = 1 => cur.row <= p[2])}
      BY <2>1
    <3>2. \A p \in WantedOf(cur) : 1 <= p[2]
      BY WantedFacts, TimeFacts
    <3>3. \A p \in WantedOf(cur) : from <= p[2] <=> (i = 1 => cur.row <= p[2])
      BY <2>2, <3>2
    <3> HIDE DEF SS
    <3> QED BY <3>1, <3>3
  <2> HIDE DEF ss, SS
  <2>7. CASE tMax(chunks[k]) < cur.min
    <3>1. ss[i] = <<>>
      BY <2>3, <2>7
    <3>2. SS[i] = {}
      <4> SUFFICES ASSUME NEW p \in WantedOf(cur), p[1] = k PROVE FALSE
        BY <2>6
      <4>1. cur.min <= tsAt(p) /\ tsAt(p) <= tMax(chunks[k]) /\ tsAt(p) \in Int /\ tMax(chunks[k]) \in Int
        BY WantedFacts
      <4> QED BY <1>4, <2>7, <4>1
    <3> QED BY <3>1, <3>2, EnumeratesNothing
  <2>8. CASE ~(tMax(chunks[k]) < cur.min)
    <3>1. ss[i] = chunkRange(cur, k, from)
      BY <2>3, <2>8
    <3>2. Enumerates(chunkRange(cur, k, from), {p \in WantedOf(cur) : p[1] = k /\ from <= p[2]})
      BY <1>1, <2>5, ChunkRangeEnumerated
    <3> QED BY <2>6, <3>1, <3>2
  <2> QED BY <2>7, <2>8
<1>14. ss \in Seq(Seq(Positions)) /\ Len(ss) = l
  <2>1. \A i \in 1 .. l : ss[i] \in Seq(Positions)
    <3> HIDE DEF ss, SS
    <3> QED BY <1>13 DEF Enumerates
  <2>2. ss = [i \in 1 .. l |-> ss[i]]
    OBVIOUS
  <2> HIDE DEF ss
  <2> QED BY <1>9, <2>1, <2>2
<1>15. \A i, j \in 1 .. l : i < j => \A p \in SS[i], q \in SS[j] : Before(p, q)
  <2>1. \A i \in 1 .. l : \A p \in SS[i] : p[1] = at(i)
    OBVIOUS
  <2>2. \A i, j \in 1 .. l : i < j => at(i) < at(j)
    BY <1>4, <1>9
  <2> HIDE DEF SS, at
  <2> QED BY <2>1, <2>2 DEF Before
<1>16. UNION {SS[i] : i \in 1 .. l} = G
  <2>1. ASSUME NEW i \in 1 .. l, NEW p \in SS[i] PROVE p \in G
    <3>1. p \in WantedOf(cur) /\ p[1] = at(i) /\ (i = 1 => cur.row <= p[2])
      OBVIOUS
    <3>2. p[1] \in Nat /\ p[2] \in Nat
      BY <3>1, WantedFacts DEF Positions
    <3>3. ~Before(p, c)
      BY <1>3, <1>4, <1>9, <3>1, <3>2 DEF Before
    <3> QED BY <1>10, <3>1, <3>3
  <2>2. ASSUME NEW p \in G PROVE \E i \in 1 .. l : p \in SS[i]
    <3>1. p \in WantedOf(cur) /\ ~Before(p, c)
      BY <1>10
    <3>2. /\ p[1] \in 1 .. n /\ p[2] \in Nat /\ tsAt(p) <= cur.max /\ tsAt(p) \in Int
          /\ tMin(chunks[p[1]]) <= tsAt(p) /\ tMin(chunks[p[1]]) \in Int
      BY <1>1, <3>1, WantedFacts DEF Positions
    <3>3. cur.chunk <= p[1] /\ (p[1] = cur.chunk => cur.row <= p[2])
      BY <1>1, <1>3, <1>4, <3>1, <3>2 DEF Before
    <3>4. p[1] < stop
      <4> SUFFICES ASSUME ~(p[1] < stop) PROVE FALSE
        OBVIOUS
      <4>1. stop \in 1 .. n /\ stop <= p[1] /\ stop # n + 1
        BY <1>1, <1>4, <1>8, <3>2
      <4>2. tMin(chunks[stop]) > cur.max
        BY <1>5, <1>7, <4>1
      <4>3. /\ tMin(chunks[stop]) \in Int /\ tMax(chunks[stop]) \in Int
            /\ tMin(chunks[stop]) <= tMax(chunks[stop])
        BY <1>1, <4>1, TimeFacts
      <4>4. stop = p[1] \/ tMax(chunks[stop]) <= tMin(chunks[p[1]])
        BY <1>1, <3>2, <4>1, TimeFacts, SMTT(30)
      <4> QED BY <1>4, <3>2, <4>2, <4>3, <4>4
    <3>5. PICK i \in 1 .. l : i = p[1] - cur.chunk + 1
      <4>1. p[1] - cur.chunk + 1 \in 1 .. l
        BY <1>1, <1>4, <1>8, <1>9, <3>2, <3>3, <3>4, SMTT(30)
      <4> QED BY <4>1
    <3>6. p[1] = at(i) /\ (i = 1 => p[1] = cur.chunk)
      BY <1>1, <1>4, <3>2, <3>5
    <3>7. p \in SS[i]
      BY <3>1, <3>3, <3>6
    <3> QED BY <3>7
  <2> HIDE DEF SS
  <2> QED BY <2>1, <2>2
<1> HIDE DEF ss, SS
<1>17. PICK zz, ZZ : zz = ss /\ ZZ = SS
  OBVIOUS
<1>18. Enumerates(FlattenSeq(zz), UNION {ZZ[i] : i \in 1 .. Len(zz)})
  <2>1. zz \in Seq(Seq(Positions)) /\ \A i \in 1 .. Len(zz) : Enumerates(zz[i], ZZ[i])
    BY <1>13, <1>14, <1>17
  <2>2. \A i, j \in 1 .. Len(zz) : i < j => \A p \in ZZ[i], q \in ZZ[j] : Before(p, q)
    BY <1>14, <1>15, <1>17
  <2> QED BY ONLY <2>1, <2>2, EnumeratesFlatten
<1> QED BY <1>2, <1>10, <1>11, <1>14, <1>16, <1>17, <1>18

-----------------------------------------------------------------------------
(* The invariant. *)

(* Where a cursor is: at a position it was asked for, with the ones before *)
(* it delivered, or at the end with all of them delivered.                 *)
Progress(cur, y) ==
    IF valid(cur)
    THEN Pt(cur) \in WantedOf(cur) /\ Enumerates(y, {p \in WantedOf(cur) : Before(p, Pt(cur))})
    ELSE Enumerates(y, WantedOf(cur))

QueryInv ==
    /\ ChunksInOrder /\ Len(chunks) <= MaxChunks
    /\ cursor \in CursorT
    /\ yielded \in Seq((1 .. MaxChunks) \X (1 .. ChunkRows))
    /\ cursor.kind # "none" => Progress(cursor, yielded)

(* A cursor that landed after what was delivered.                          *)
LEMMA LandedProgress ==
    ASSUME ChunksInOrder, NEW cur \in CursorT, NEW r, NEW D, NEW G, NEW y,
           Lands(r, cur, G), WantedOf(cur) = D \cup G, \A p \in D, q \in G : Before(p, q),
           Enumerates(y, D)
    PROVE  Progress(r, y)
<1>1. WantedOf(r) = D \cup G
  BY DEF Lands, WantedOf
<1>2. \A p \in D \cup G : p \in Positions /\ p[1] \in 1 .. Len(chunks)
  BY WantedFacts
<1>3. Len(chunks) \in Nat
  BY TimeFacts
<1>4. CASE G = {}
  <2>1. ~valid(r)
    BY <1>3, <1>4 DEF Lands, valid, End
  <2>2. D \cup G = D
    BY <1>4
  <2> QED BY <1>1, <2>1, <2>2 DEF Progress
<1>5. CASE G # {}
  <2>1. PICK z : z = Pt(r)
    OBVIOUS
  <2>2. z \in G /\ (\A p \in G : ~Before(p, z)) /\ z[1] = r.chunk
    BY <1>5, <2>1 DEF Lands, Pt
  <2>3. valid(r)
    BY <1>2, <1>3, <2>2 DEF valid
  <2>4. {p \in D \cup G : Before(p, z)} = D
    BY <2>2
  <2> QED BY <1>1, <2>1, <2>2, <2>3, <2>4 DEF Progress
<1> QED BY <1>4, <1>5

(* The positions delivered are those of rows.                              *)
LEMMA DeliveredType ==
    ASSUME ChunksInOrder, Len(chunks) <= MaxChunks, NEW cur, NEW y, NEW D,
           Enumerates(y, D), D \subseteq WantedOf(cur)
    PROVE  y \in Seq((1 .. MaxChunks) \X (1 .. ChunkRows))
<1>1. y \in Seq(Positions) /\ Len(y) \in Nat /\ \A i \in 1 .. Len(y) : y[i] \in At
  BY EnumeratedInOrder DEF WantedOf
<1>2. PICK X : X = (1 .. MaxChunks) \X (1 .. ChunkRows)
  OBVIOUS
<1>3. ASSUME NEW p \in At PROVE p \in X
  <2>1. p = <<p[1], p[2]>> /\ p[1] \in 1 .. Len(chunks) /\ p[2] \in 1 .. row_count(chunks[p[1]])
    BY AtInOrder
  <2>2. /\ Len(chunks) \in Nat
        /\ row_count(chunks[p[1]]) \in Nat /\ row_count(chunks[p[1]]) <= ChunkRows
    BY <2>1, TimeFacts
  <2>3. p[1] \in 1 .. MaxChunks /\ p[2] \in 1 .. ChunkRows
    BY <2>1, <2>2, QueryAssumption
  <2> QED BY <1>2, <2>1, <2>3
<1>4. \A i \in 1 .. Len(y) : y[i] \in X
  BY <1>1, <1>3
<1>5. y \in Seq(X)
  BY <1>1, <1>4
<1> QED BY <1>2, <1>5

(* The cursor's fields at a new step of the same chunks.                   *)
LEMMA ProgressPrimed ==
    ASSUME chunks' = chunks, NEW r, NEW y, cursor' = r, yielded' = y, Progress(r, y)
    PROVE  Progress(cursor, yielded)'
  BY DEF Progress, valid, WantedOf, At, tsAt, hasValue, row_count, Pt

(* One row delivered.                                                      *)
LEMMA OneMore ==
    ASSUME NEW W \in SUBSET Positions, NEW c \in W, NEW y, Enumerates(y, {p \in W : Before(p, c)})
    PROVE  Enumerates(Append(y, c), {p \in W : ~Before(c, p)})
<1>1. y \in Seq(Positions)
  BY EnumeratedInOrder
<1>2. Append(y, c) = y \o <<c>>
  BY <1>1
<1>3. PICK A, b : A = {p \in W : Before(p, c)} /\ b = <<c>>
  OBVIOUS
<1>4. Enumerates(b, {c})
  BY <1>3, EnumeratesOne
<1>5. \A p \in A, q \in {c} : Before(p, q)
  BY <1>3
<1>6. Enumerates(y \o b, A \cup {c})
  BY <1>3, <1>4, <1>5, EnumeratesConcat
<1>7. A \cup {c} = {p \in W : ~Before(c, p)}
  BY <1>3, PositionOrder
<1> QED BY <1>2, <1>3, <1>6, <1>7

LEMMA InvInit == Init => QueryInv
<1> SUFFICES ASSUME Init PROVE QueryInv
  OBVIOUS
<1>1. chunks = <<>> /\ cursor = NoCursor /\ yielded = <<>>
  BY DEF Init
<1>2. chunks \in Seq(Chunk) /\ Len(chunks) = 0
  BY <1>1
<1>3. ChunksInOrder /\ Len(chunks) <= MaxChunks
  BY <1>2, QueryAssumption DEF ChunksInOrder
<1>4. cursor \in CursorT /\ cursor.kind = "none"
  BY <1>1, QueryAssumption DEF CursorT, NoCursor
<1> QED BY <1>1, <1>3, <1>4 DEF QueryInv

(* Commits keep the order, and what a cursor on its way has delivered.     *)
LEMMA AppendKeepsInv ==
    ASSUME QueryInv, NEW c \in Chunk, appendSealedChunk(c)
    PROVE  QueryInv'
<1>1. PICK n \in Nat : n = Len(chunks)
  BY TimeFacts DEF QueryInv
<1>2. /\ chunks' = Append(chunks, c) /\ cursor' = cursor /\ yielded' = yielded
      /\ cursor.kind = "none" \/ valid(cursor)
      /\ n < MaxChunks /\ Sorted(c.rows) /\ (chunks # <<>> => tMin(c) >= tMax(Last(chunks)))
  BY <1>1 DEF appendSealedChunk
<1>3. chunks \in Seq(Chunk) /\ ChunksInOrder
  BY DEF QueryInv, ChunksInOrder
<1>4. PICK cs : cs = chunks'
  OBVIOUS
<1>5. cs \in Seq(Chunk) /\ Len(cs) = n + 1 /\ cs[n + 1] = c /\ \A k \in 1 .. n : cs[k] = chunks[k]
  BY <1>1, <1>2, <1>3, <1>4
<1>6. \A k \in 1 .. n + 1 : k \in 1 .. n \/ k = n + 1
  BY <1>1
<1>7. \A k \in 1 .. Len(cs) : Sorted(cs[k].rows)
  BY <1>1, <1>2, <1>3, <1>5, <1>6 DEF ChunksInOrder
<1>8. ASSUME NEW k \in 1 .. Len(cs), NEW m \in 1 .. Len(cs), k < m PROVE tMax(cs[k]) <= tMin(cs[m])
  <2>1. k \in 1 .. n
    BY <1>1, <1>5, <1>8
  <2>2. CASE m \in 1 .. n
    BY <1>1, <1>3, <1>5, <1>8, <2>1, <2>2, TimeFacts
  <2>3. CASE m = n + 1
    <3>1. n \in 1 .. n /\ chunks # <<>> /\ Last(chunks) = chunks[n]
      BY <1>1, <2>1 DEF Last
    <3>2. tMax(chunks[n]) <= tMin(c)
      <4>1. tMax(chunks[n]) \in Int
        BY <1>1, <1>3, <3>1, TimeFacts
      <4>2. tMin(c) \in Int
        <5>1. 1 \in 1 .. row_count(c)
          BY ChunkFacts
        <5> QED BY <5>1, ChunkFacts DEF tMin
      <4> QED BY <1>2, <3>1, <4>1, <4>2
    <3>3. tMax(chunks[k]) <= tMax(chunks[n])
      <4>1. k = n \/ tMax(chunks[k]) <= tMin(chunks[n])
        BY <1>1, <1>3, <2>1, <3>1, TimeFacts
      <4>2. /\ tMin(chunks[n]) <= tMax(chunks[n]) /\ tMin(chunks[n]) \in Int
            /\ tMax(chunks[n]) \in Int /\ tMax(chunks[k]) \in Int
        BY <1>1, <1>3, <2>1, <3>1, TimeFacts
      <4> QED BY <4>1, <4>2
    <3>4. tMax(chunks[k]) \in Int /\ tMax(chunks[n]) \in Int /\ tMin(c) \in Int
      <4>1. 1 \in 1 .. row_count(c)
        BY ChunkFacts
      <4> QED BY <1>1, <1>3, <2>1, <3>1, <4>1, TimeFacts, ChunkFacts DEF tMin
    <3> QED BY <1>5, <2>1, <2>3, <3>2, <3>3, <3>4
  <2> QED BY <1>5, <1>6, <2>2, <2>3
<1>9. ChunksInOrder'
  BY <1>4, <1>5, <1>7, <1>8 DEF ChunksInOrder
<1>10. Len(chunks') <= MaxChunks
  BY <1>1, <1>2, <1>4, <1>5, QueryAssumption
<1>11. ASSUME cursor.kind # "none" PROVE Progress(cursor, yielded)'
  <2>1. PICK cur \in CursorT : cur = cursor
    BY DEF QueryInv
  <2>2. valid(cur) /\ Progress(cur, yielded)
    BY <1>2, <1>11, <2>1 DEF QueryInv
  <2>3. PICK z, y, D : z = Pt(cur) /\ y = yielded /\ D = {p \in WantedOf(cur) : Before(p, z)}
    OBVIOUS
  <2>4. z \in WantedOf(cur) /\ Enumerates(y, D)
    BY <2>2, <2>3 DEF Progress
  <2>5. PICK W : W = WantedOf(cur)'
    OBVIOUS
  <2>6. ASSUME NEW p \in Positions, p[1] \in 1 .. n PROVE p \in W <=> p \in WantedOf(cur)
    <3>1. chunks'[p[1]] = chunks[p[1]] /\ p[1] \in 1 .. Len(chunks') /\ p[1] \in 1 .. Len(chunks)
      BY <1>1, <1>4, <1>5, <2>6
    <3> QED BY <2>5, <2>6, <3>1 DEF WantedOf, At, tsAt, hasValue, row_count
  <2>7. z[1] \in 1 .. n /\ z \in Positions /\ \A p \in WantedOf(cur) : p \in Positions /\ p[1] \in 1 .. n
    BY <1>1, <1>3, <2>4, WantedFacts
  <2>8. z \in W
    BY <2>4, <2>6, <2>7
  <2>9. ASSUME NEW p \in W, Before(p, z) PROVE p[1] \in 1 .. n /\ p \in Positions
    <3>1. p \in Positions /\ p[1] \in 1 .. Len(chunks')
      BY <2>5 DEF WantedOf, At
    <3> QED BY <1>1, <1>4, <1>5, <2>7, <2>9, <3>1 DEF Before
  <2>10. {p \in W : Before(p, z)} = D
    BY <2>3, <2>6, <2>7, <2>9
  <2>11. valid(cur)'
    BY <1>1, <1>4, <1>5, <2>2, <2>1 DEF valid, CursorT
  <2>12. Progress(cur, y)'
    <3>1. Pt(cur)' = z /\ Enumerates(y, {p \in W : Before(p, z)})
      BY <2>3, <2>4, <2>10 DEF Pt
    <3> QED BY <2>5, <2>8, <2>11, <3>1 DEF Progress, Before, Enumerates, Pairwise, Earlier
  <2> QED BY <1>2, <2>1, <2>3, <2>12
<1> QED BY <1>2, <1>9, <1>10, <1>11 DEF QueryInv

(* A step that leaves the chunks alone and moves the cursor.               *)
LEMMA CursorStepKeepsInv ==
    ASSUME QueryInv, chunks' = chunks, NEW r \in CursorT, NEW y, cursor' = r, yielded' = y,
           y \in Seq((1 .. MaxChunks) \X (1 .. ChunkRows)), r.kind # "none" => Progress(r, y)
    PROVE  QueryInv'
<1>1. ChunksInOrder' /\ Len(chunks') <= MaxChunks
  BY DEF QueryInv, ChunksInOrder
<1>2. cursor.kind' # "none" => Progress(cursor, yielded)'
  BY ProgressPrimed
<1> QED BY <1>1, <1>2 DEF QueryInv

LEMMA OpenRangeKeepsInv ==
    ASSUME QueryInv, NEW a \in Times, NEW b \in Times, openRange(a, b)
    PROVE  QueryInv'
<1>1. PICK cur : cur = [NoCursor EXCEPT !.kind = "range", !.min = a, !.max = b]
  OBVIOUS
<1>2. cur \in CursorT /\ cur.kind = "range"
  <2>1. cur = [kind |-> "range", min |-> a, max |-> b, chunk |-> 1, row |-> 1]
    BY <1>1 DEF NoCursor
  <2>2. a \in Int /\ b \in Int /\ 1 \in 1 .. MaxChunks + 1 /\ 1 \in 1 .. ChunkRows + 1
    BY QueryAssumption
  <2> QED BY <2>1, <2>2 DEF CursorT
<1>3. PICK r, G : r = findFirstValid(cur) /\ G = WantedOf(cur)
  OBVIOUS
<1>4. cursor' = r /\ yielded' = <<>> /\ chunks' = chunks
  BY <1>1, <1>3 DEF openRange
<1>5. ChunksInOrder /\ Len(chunks) <= MaxChunks
  BY DEF QueryInv
<1>6. Lands(r, cur, G)
  BY <1>2, <1>3, <1>5, FindFirstValidLands
<1>7. Progress(r, <<>>)
  <2>1. WantedOf(cur) = {} \cup G /\ \A p \in {}, q \in G : Before(p, q)
    BY <1>3
  <2> QED BY <1>2, <1>5, <1>6, <2>1, EnumeratesNothing, LandedProgress
<1>8. r \in CursorT
  BY <1>6 DEF Lands
<1>9. PICK y : y = <<>>
  OBVIOUS
<1>10. y \in Seq((1 .. MaxChunks) \X (1 .. ChunkRows))
  BY <1>9
<1> QED BY <1>4, <1>7, <1>8, <1>9, <1>10, CursorStepKeepsInv

LEMMA OpenSeriesKeepsInv ==
    ASSUME QueryInv, NEW a \in Times, NEW b \in Times, openSeries(a, b)
    PROVE  QueryInv'
<1>1. PICK cur : cur = [NoCursor EXCEPT !.kind = "series", !.min = IF a <= b THEN a ELSE b,
                                                           !.max = IF a <= b THEN b ELSE a]
  OBVIOUS
<1>2. cur \in CursorT /\ cur.kind = "series" /\ Pt(cur) = <<1, 1>>
  <2>1. PICK lo, hi : lo = (IF a <= b THEN a ELSE b) /\ hi = (IF a <= b THEN b ELSE a)
    OBVIOUS
  <2>2. cur = [kind |-> "series", min |-> lo, max |-> hi, chunk |-> 1, row |-> 1]
    BY <1>1, <2>1 DEF NoCursor
  <2>3. lo \in Int /\ hi \in Int /\ 1 \in 1 .. MaxChunks + 1 /\ 1 \in 1 .. ChunkRows + 1
    BY <2>1, QueryAssumption
  <2> QED BY ONLY <2>2, <2>3 DEF CursorT, Pt
<1>3. PICK r, G : r = skipToSample(cur) /\ G = {p \in WantedOf(cur) : ~Before(p, Pt(cur))}
  OBVIOUS
<1>4. cursor' = r /\ yielded' = <<>> /\ chunks' = chunks
  BY <1>1, <1>3 DEF openSeries
<1>5. ChunksInOrder /\ Len(chunks) <= MaxChunks
  BY DEF QueryInv
<1>6. Lands(r, cur, G)
  BY <1>2, <1>3, <1>5, SkipToSampleLands
<1>7. G = WantedOf(cur)
  <2> SUFFICES ASSUME NEW p \in WantedOf(cur) PROVE ~Before(p, <<1, 1>>)
    BY <1>2, <1>3
  <2>1. p[1] \in 1 .. Len(chunks) /\ p[2] \in 1 .. row_count(chunks[p[1]]) /\ Len(chunks) \in Nat
    BY <1>2, <1>5, WantedFacts, TimeFacts
  <2>2. row_count(chunks[p[1]]) \in Nat
    BY <1>5, <2>1, TimeFacts
  <2>3. 1 <= p[1] /\ 1 <= p[2] /\ p[1] \in Nat /\ p[2] \in Nat
    BY <2>1, <2>2
  <2>4. PICK z : z = <<1, 1>>
    OBVIOUS
  <2>5. z[1] = 1 /\ z[2] = 1
    BY <2>4
  <2> QED BY <2>3, <2>4, <2>5 DEF Before
<1>8. Progress(r, <<>>)
  <2>1. WantedOf(cur) = {} \cup G /\ \A p \in {}, q \in G : Before(p, q)
    BY <1>7
  <2> QED BY <1>2, <1>5, <1>6, <2>1, EnumeratesNothing, LandedProgress
<1>9. r \in CursorT
  BY <1>6 DEF Lands
<1>10. PICK y : y = <<>>
  OBVIOUS
<1>11. y \in Seq((1 .. MaxChunks) \X (1 .. ChunkRows))
  BY <1>10
<1> QED BY <1>4, <1>8, <1>9, <1>10, <1>11, CursorStepKeepsInv

LEMMA AdvanceKeepsInv ==
    ASSUME QueryInv, advance
    PROVE  QueryInv'
<1>1. PICK cur \in CursorT : cur = cursor
  BY DEF QueryInv
<1>2. PICK c, W, y : c = Pt(cur) /\ W = WantedOf(cur) /\ y = yielded
  OBVIOUS
<1>3. ChunksInOrder /\ Len(chunks) <= MaxChunks
  BY DEF QueryInv
<1>4. cur.kind # "none" /\ valid(cur) /\ chunks' = chunks /\ yielded' = Append(y, c)
  BY <1>1, <1>2 DEF advance, Pt
<1>5. c \in W /\ Enumerates(y, {p \in W : Before(p, c)})
  BY <1>1, <1>2, <1>4 DEF QueryInv, Progress
<1>6. \A p \in W : p \in Positions
  BY <1>2, <1>3, WantedFacts
<1>7. PICK D, G, y2 : D = {p \in W : ~Before(c, p)} /\ G = {p \in W : Before(c, p)} /\ y2 = Append(y, c)
  OBVIOUS
<1>8. Enumerates(y2, D)
  BY <1>5, <1>6, <1>7, OneMore
<1>9. W = D \cup G
  BY <1>7
<1>10. \A p \in D, q \in G : Before(p, q)
  <2> SUFFICES ASSUME NEW p \in W, NEW q \in W, ~Before(c, p), Before(c, q) PROVE Before(p, q)
    BY <1>7
  <2>1. p \in Positions /\ q \in Positions /\ c \in Positions
    BY <1>5, <1>6
  <2>2. p = c \/ Before(p, c)
    BY <2>1, PositionOrder
  <2> QED BY <2>1, <2>2, PositionOrder
<1>11. PICK r : r = cursor'
  OBVIOUS
<1>12. Lands(r, cur, G)
  <2>1. CASE cur.kind = "range"
    <3>1. r = skipToValid(nextRow(cur))
      BY <1>1, <1>11, <2>1 DEF advance
    <3> QED BY <1>2, <1>3, <1>5, <1>7, <2>1, <3>1, AdvanceLands
  <2>2. CASE cur.kind # "range"
    <3>1. cur.kind = "series"
      BY <1>4, <2>2 DEF CursorT
    <3>2. PICK m : m = cur.row + 1
      OBVIOUS
    <3>3. PICK next : next = [cur EXCEPT !.row = m]
      OBVIOUS
    <3>4. r = skipToSample(next)
      BY <1>1, <1>11, <2>2, <3>2, <3>3 DEF advance
    <3>5. c[1] = cur.chunk /\ c[2] = cur.row /\ c[1] \in Nat /\ c[2] \in Nat /\ c[2] <= ChunkRows
      <4>1. c[1] = cur.chunk /\ c[2] = cur.row
        BY <1>2 DEF Pt
      <4>2. c \in Positions /\ c[1] \in 1 .. Len(chunks) /\ c[2] \in 1 .. row_count(chunks[c[1]])
        BY <1>2, <1>3, <1>5, WantedFacts
      <4>3. row_count(chunks[c[1]]) \in Nat /\ row_count(chunks[c[1]]) <= ChunkRows
        BY <1>3, <4>2, TimeFacts
      <4> QED BY <4>1, <4>2, <4>3, QueryAssumption DEF Positions
    <3>6. m \in 1 .. ChunkRows + 1
      BY <3>2, <3>5, QueryAssumption
    <3>7. /\ next \in CursorT /\ next.kind = cur.kind /\ next.min = cur.min /\ next.max = cur.max
          /\ next.chunk = cur.chunk /\ next.row = m
      BY <3>3, <3>6 DEF CursorT
    <3>8. WantedOf(next) = W
      BY <1>2, <3>7 DEF WantedOf
    <3>9. PICK z : z = Pt(next)
      OBVIOUS
    <3>10. z[1] = c[1] /\ z[2] = c[2] + 1
      BY <3>2, <3>5, <3>7, <3>9 DEF Pt
    <3>11. \A p \in Positions : ~Before(p, z) <=> Before(c, p)
      <4> SUFFICES ASSUME NEW p \in Positions PROVE ~Before(p, z) <=> Before(c, p)
        OBVIOUS
      <4>1. p[1] \in Nat /\ p[2] \in Nat
        BY DEF Positions
      <4> QED BY <3>5, <3>10, <4>1 DEF Before
    <3>12. {p \in W : ~Before(p, z)} = G
      BY <1>6, <1>7, <3>11
    <3>13. Lands(r, next, {p \in WantedOf(next) : ~Before(p, Pt(next))})
      BY <1>3, <3>1, <3>4, <3>7, SkipToSampleLands
    <3>14. Lands(r, next, G)
      BY <3>8, <3>9, <3>12, <3>13
    <3> QED BY <3>7, <3>14 DEF Lands
  <2> QED BY <2>1, <2>2
<1>13. Progress(r, y2)
  BY <1>2, <1>3, <1>8, <1>9, <1>10, <1>12, LandedProgress
<1>14. y2 \in Seq((1 .. MaxChunks) \X (1 .. ChunkRows))
  <2>1. D \subseteq WantedOf(cur)
    BY <1>2, <1>7
  <2> QED BY <1>3, <1>8, <2>1, DeliveredType
<1>15. r \in CursorT
  BY <1>12 DEF Lands
<1> QED BY <1>4, <1>7, <1>11, <1>13, <1>14, <1>15, CursorStepKeepsInv

LEMMA ForEachKeepsInv ==
    ASSUME QueryInv, forEachChunk
    PROVE  QueryInv'
<1>1. PICK cur \in CursorT : cur = cursor
  BY DEF QueryInv
<1>2. PICK c, W, y, rest : c = Pt(cur) /\ W = WantedOf(cur) /\ y = yielded /\ rest = forEachChunkRows(cur)
  OBVIOUS
<1>3. ChunksInOrder /\ Len(chunks) <= MaxChunks /\ Len(chunks) \in Nat
  BY TimeFacts DEF QueryInv
<1>4. cur.kind = "range" /\ valid(cur) /\ chunks' = chunks /\ yielded' = y \o rest
  BY <1>1, <1>2 DEF forEachChunk
<1>5. c \in W /\ Enumerates(y, {p \in W : Before(p, c)})
  BY <1>1, <1>2, <1>4 DEF QueryInv, Progress
<1>6. PICK A, B : A = {p \in W : Before(p, c)} /\ B = {p \in W : ~Before(p, c)}
  OBVIOUS
<1>7. Enumerates(rest, B)
  BY <1>2, <1>3, <1>4, <1>5, <1>6, ForEachEnumerates
<1>8. \A p \in W : p \in Positions
  BY <1>2, <1>3, WantedFacts
<1>9. \A p \in A, q \in B : Before(p, q)
  <2> SUFFICES ASSUME NEW p \in W, NEW q \in W, Before(p, c), ~Before(q, c) PROVE Before(p, q)
    BY <1>6
  <2>1. p \in Positions /\ q \in Positions /\ c \in Positions
    BY <1>5, <1>8
  <2>2. q = c \/ Before(c, q)
    BY <2>1, PositionOrder
  <2> QED BY <2>1, <2>2, PositionOrder
<1>10. Enumerates(y \o rest, A \cup B)
  BY <1>5, <1>6, <1>7, <1>9, EnumeratesConcat
<1>11. A \cup B = W
  BY <1>6
<1>12. PICK r, y2 : r = cursor' /\ y2 = y \o rest
  OBVIOUS
<1>13. PICK e : e = End
  OBVIOUS
<1>14. r = [cur EXCEPT !.chunk = e] /\ e \in 1 .. MaxChunks + 1
  BY <1>1, <1>3, <1>12, <1>13, QueryAssumption DEF forEachChunk, End
<1>15. r \in CursorT /\ r.kind = cur.kind /\ r.min = cur.min /\ r.max = cur.max /\ r.chunk = e
  BY <1>14 DEF CursorT
<1>16. Progress(r, y2)
  <2>1. ~valid(r)
    BY <1>3, <1>13, <1>15 DEF valid, End
  <2>2. WantedOf(r) = W
    BY <1>2, <1>15 DEF WantedOf
  <2> QED BY <1>10, <1>11, <1>12, <2>1, <2>2 DEF Progress
<1>17. y2 \in Seq((1 .. MaxChunks) \X (1 .. ChunkRows))
  <2>1. Enumerates(y2, W) /\ W \subseteq WantedOf(cur)
    BY <1>2, <1>10, <1>11, <1>12
  <2> QED BY <1>3, <2>1, DeliveredType
<1> QED BY <1>4, <1>12, <1>15, <1>16, <1>17, CursorStepKeepsInv

LEMMA CloseKeepsInv ==
    ASSUME QueryInv, close
    PROVE  QueryInv'
<1>1. cursor' = NoCursor /\ yielded' = <<>> /\ chunks' = chunks
  BY DEF close
<1>2. NoCursor \in CursorT /\ NoCursor.kind = "none"
  BY QueryAssumption DEF CursorT, NoCursor
<1>3. PICK r, y : r = NoCursor /\ y = <<>>
  OBVIOUS
<1>4. y \in Seq((1 .. MaxChunks) \X (1 .. ChunkRows))
  BY <1>3
<1> QED BY <1>1, <1>2, <1>3, <1>4, CursorStepKeepsInv

LEMMA InvNext == QueryInv /\ [Next]_vars => QueryInv'
<1> SUFFICES ASSUME QueryInv, [Next]_vars PROVE QueryInv'
  OBVIOUS
<1>1. CASE \E c \in Chunk : appendSealedChunk(c)
  BY <1>1, AppendKeepsInv
<1>2. CASE \E a, b \in Times : openRange(a, b)
  BY <1>2, OpenRangeKeepsInv
<1>3. CASE \E a, b \in Times : openSeries(a, b)
  BY <1>3, OpenSeriesKeepsInv
<1>4. CASE advance
  BY <1>4, AdvanceKeepsInv
<1>5. CASE forEachChunk
  BY <1>5, ForEachKeepsInv
<1>6. CASE close
  BY <1>6, CloseKeepsInv
<1>7. CASE UNCHANGED vars
  <2>1. chunks' = chunks /\ cursor' = cursor /\ yielded' = yielded
    BY <1>7 DEF vars
  <2>2. PICK r, y : r = cursor /\ y = yielded
    OBVIOUS
  <2> QED BY <2>1, <2>2, CursorStepKeepsInv DEF QueryInv
<1> QED BY <1>1, <1>2, <1>3, <1>4, <1>5, <1>6, <1>7 DEF Next

-----------------------------------------------------------------------------
(* The theorems. *)

(* What the invariant says in terms of the sequences of the properties.    *)
LEMMA InvYieldsRange == QueryInv => CursorYieldsRange
<1> SUFFICES ASSUME QueryInv PROVE CursorYieldsRange
  OBVIOUS
<1>1. PICK cur \in CursorT : cur = cursor
  BY DEF QueryInv
<1>2. ChunksInOrder
  BY DEF QueryInv
<1>3. TypeOK
  BY <1>1, <1>2 DEF QueryInv, ChunksInOrder, TypeOK, CursorT
<1>4. PICK s, w, W, y : s = positions /\ w = Wanted /\ W = WantedOf(cur) /\ y = yielded
  OBVIOUS
<1>5. Enumerates(s, At)
  BY <1>2, <1>4, PositionsEnumerated
<1>6. Enumerates(w, W)
  <2>1. \A i \in 1 .. Len(s) : s[i] \in At
    BY <1>5, EnumeratedInOrder
  <2>2. w = FlattenSeq([i \in 1 .. Len(s) |->
                           IF InRange(s[i]) /\ (cursor.kind = "series" => hasValue(s[i][1], s[i][2]))
                           THEN <<s[i]>> ELSE <<>>])
    BY <1>4 DEF Wanted, Selected
  <2>3. \A p \in At : p \in W <=> InRange(p) /\ (cursor.kind = "series" => hasValue(p[1], p[2]))
    BY <1>1, <1>4 DEF WantedOf, InRange
  <2>4. [i \in 1 .. Len(s) |-> IF InRange(s[i]) /\ (cursor.kind = "series" => hasValue(s[i][1], s[i][2]))
                               THEN <<s[i]>> ELSE <<>>]
          = [i \in 1 .. Len(s) |-> IF s[i] \in W THEN <<s[i]>> ELSE <<>>]
    BY <2>1, <2>3
  <2>5. w = FlattenSeq([i \in 1 .. Len(s) |-> IF s[i] \in W THEN <<s[i]>> ELSE <<>>])
    BY <2>2, <2>4
  <2>6. W \in SUBSET At
    BY <1>4 DEF WantedOf
  <2> QED BY ONLY <1>5, <2>5, <2>6, EnumeratesSelected
<1>7. ASSUME cursor.kind # "none", valid(cursor)
      PROVE  IsStrictPrefix(yielded, Wanted) /\ Wanted[Len(yielded) + 1] = <<cursor.chunk, cursor.row>>
  <2>1. PICK c, U : c = Pt(cur) /\ U = {p \in W : Before(p, c)}
    OBVIOUS
  <2>2. c \in W /\ Enumerates(y, U) /\ c = <<cursor.chunk, cursor.row>>
    BY <1>1, <1>4, <1>7, <2>1 DEF QueryInv, Progress, Pt
  <2>3. \A p \in W : p \in Positions
    BY <1>2, <1>4, WantedFacts
  <2>4. U \subseteq W /\ c \notin U /\ \A p \in W : Before(p, c) => p \in U
    BY <2>1, <2>2, <2>3, PositionOrder
  <2>5. \A p \in W, q \in U : Before(p, q) => p \in U
    <3> SUFFICES ASSUME NEW p \in W, NEW q \in U, Before(p, q) PROVE p \in U
      OBVIOUS
    <3>1. q \in W /\ Before(q, c) /\ p \in Positions /\ q \in Positions /\ c \in Positions
      BY <2>1, <2>2, <2>3
    <3>2. Before(p, c)
      BY <3>1, PositionOrder
    <3> QED BY <2>1, <3>2
  <2>6. Len(y) <= Len(w) /\ \A i \in 1 .. Len(y) : y[i] = w[i]
    BY ONLY <1>6, <2>2, <2>4, <2>5, EnumeratesPrefix
  <2>7. Len(y) < Len(w) /\ w[Len(y) + 1] = c
    BY ONLY <1>6, <2>2, <2>4, <2>5, EnumeratesNext
  <2>8. y \in Seq(Positions) /\ w \in Seq(Positions) /\ Len(y) \in Nat /\ Len(w) \in Nat
    BY <1>6, <2>2, EnumeratedInOrder
  <2>9. SubSeq(y, 1, Len(y)) = SubSeq(w, 1, Len(y))
    BY <2>6, <2>8
  <2>10. IsStrictPrefix(y, w)
    BY <2>6, <2>7, <2>8, <2>9 DEF IsStrictPrefix, IsPrefix
  <2> QED BY <1>4, <2>2, <2>7, <2>10
<1>8. ASSUME cursor.kind # "none", ~valid(cursor) PROVE yielded = Wanted
  <2>1. Enumerates(y, W)
    BY <1>1, <1>4, <1>8 DEF QueryInv, Progress
  <2>2. W \subseteq W /\ \A p \in W, q \in W : Before(p, q) => p \in W
    OBVIOUS
  <2>3. Len(y) <= Len(w) /\ \A i \in 1 .. Len(y) : y[i] = w[i]
    BY ONLY <1>6, <2>1, <2>2, EnumeratesPrefix
  <2>4. Len(w) <= Len(y)
    BY ONLY <1>6, <2>1, <2>2, EnumeratesPrefix
  <2>5. y \in Seq(Positions) /\ w \in Seq(Positions) /\ Len(y) \in Nat /\ Len(w) \in Nat
    BY <1>6, <2>1, EnumeratedInOrder
  <2>6. y = w
    BY <2>3, <2>4, <2>5
  <2> QED BY <1>4, <2>6
<1> QED BY <1>3, <1>7, <1>8 DEF CursorYieldsRange

LEMMA InvLookups == QueryInv => LookupsExact
  BY LatestAtOK, SeriesLookupsOK DEF QueryInv, LookupsExact

(* A cursor over any chunks delivers exactly the rows, or the samples, of  *)
(* its time range, in order, and stops: RangeCursor::advance and           *)
(* forEachChunk and SeriesCursor::advance, with commits in between.        *)
THEOREM CursorAlwaysYieldsRange == Spec => []CursorYieldsRange
<1>1. Spec => []QueryInv
  BY InvInit, InvNext, PTL DEF Spec
<1> QED BY <1>1, InvYieldsRange, PTL

(* The binary searches of latestAt and the counts of SeriesReader agree    *)
(* with a scan of all rows, for any committed chunks and any time.         *)
THEOREM LookupsAlwaysExact == Spec => []LookupsExact
<1>1. Spec => []QueryInv
  BY InvInit, InvNext, PTL DEF Spec
<1> QED BY <1>1, InvLookups, PTL
=============================================================================
