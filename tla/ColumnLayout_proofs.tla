------------------------ MODULE ColumnLayout_proofs ------------------------
(***************************************************************************)
(* Theorems about ColumnLayout for any writers, fields, arrays, types,     *)
(* lengths and bounds.  The writers' layouts may part, so the invariants   *)
(* relate nothing to the stored layout: SharedInv says that each writer's  *)
(* handles, row and builder go by the layout it has cached, TopicInv that  *)
(* every chunk and every expanded element comes from a layout some writer  *)
(* has, which only grows.                                                  *)
(***************************************************************************)
EXTENDS ColumnLayout, SequenceFacts, FiniteSetTheorems, TLAPS

Row == UNION {[S -> Paths] : S \in SUBSET Nat}
Handles == UNION {[S -> Nat] : S \in SUBSET Paths}
Chunk == [layout : Layout, rows : Seq(Row)]
Builder == [layout : Layout, rows : Seq(Row), open : BOOLEAN]

(* The columns of s are those of t from the first on.                      *)
Begins(s, t) == Len(s) <= Len(t) /\ \A i \in 1 .. Len(s) : s[i] = t[i]

(* Each value of the row is in the column of its field.                    *)
Fits(layout, r) == \A k \in DOMAIN r : k \in 1 .. Len(layout) /\ layout[k].path = r[k]
AllFit(c) == \A i \in 1 .. Len(c.rows) : Fits(c.layout, c.rows[i])

PathsApart(layout) == \A j, k \in 1 .. Len(layout) : layout[j].path = layout[k].path => j = k

-----------------------------------------------------------------------------
(* Layouts, rows and chunks. *)

(* Sequences of columns.                                                   *)
LEMMA LayoutType ==
    ASSUME NEW s \in Layout
    PROVE  /\ Len(s) \in Nat /\ DOMAIN s = 1 .. Len(s)
           /\ \A i \in 1 .. Len(s) : s[i] \in Column /\ s[i].path \in Paths
           /\ Begins(s, s) /\ (Len(s) = 0 <=> s = <<>>)
<1>1. Len(s) \in Nat /\ DOMAIN s = 1 .. Len(s) /\ (\A i \in 1 .. Len(s) : s[i] \in Column)
      /\ (Len(s) = 0 <=> s = <<>>)
  BY DEF Layout
<1>2. \A i \in 1 .. Len(s) : s[i].path \in Paths
  BY <1>1 DEF Column
<1> QED BY <1>1, <1>2 DEF Begins

(* What fits a layout fits one that it begins.                             *)
LEMMA FitsLonger ==
    ASSUME NEW s \in Layout, NEW t \in Layout, Begins(s, t), NEW r, Fits(s, r)
    PROVE  Fits(t, r)
<1>1. Len(s) \in Nat /\ Len(t) \in Nat
  BY LayoutType
<1>2. \A k \in 1 .. Len(s) : k \in 1 .. Len(t) /\ t[k] = s[k]
  BY <1>1 DEF Begins
<1> QED BY <1>2 DEF Fits

(* Beginning is transitive.                                                *)
LEMMA BeginsLonger ==
    ASSUME NEW s \in Layout, NEW t \in Layout, NEW u \in Layout, Begins(s, t), Begins(t, u)
    PROVE  Begins(s, u)
<1>1. Len(s) \in Nat /\ Len(t) \in Nat /\ Len(u) \in Nat
  BY LayoutType
<1>2. \A k \in 1 .. Len(s) : k \in 1 .. Len(t)
  BY <1>1 DEF Begins
<1> QED BY <1>1, <1>2 DEF Begins

(* Columns after those of a layout.                                        *)
LEMMA ConcatBegins ==
    ASSUME NEW s \in Layout, NEW q \in Layout
    PROVE  s \o q \in Layout /\ Begins(s, s \o q)
<1>1. s \in Seq(Column) /\ q \in Seq(Column) /\ Len(s) \in Nat /\ Len(q) \in Nat
  BY DEF Layout
<1>2. s \o q \in Seq(Column) /\ Len(s \o q) = Len(s) + Len(q) /\ \A i \in 1 .. Len(s) : (s \o q)[i] = s[i]
  BY <1>1, ConcatFacts
<1> QED BY <1>1, <1>2 DEF Layout, Begins

(* The id of a path that has one.                                          *)
LEMMA IdFacts ==
    ASSUME NEW s \in Layout, NEW p, HasPath(s, p)
    PROVE  IdOf(s, p) \in 1 .. Len(s) /\ s[IdOf(s, p)].path = p
<1>1. DOMAIN s = 1 .. Len(s)
  BY LayoutType
<1> QED BY <1>1 DEF HasPath, IdOf

(* A sequence made of a set of at most one element.                        *)
LEMMA SeqOfOne ==
    ASSUME NEW T, NEW S \in SUBSET T, \A x, y \in S : x = y
    PROVE  SetToSeq(S) \in Seq(T) /\ \A i \in 1 .. Len(SetToSeq(S)) : SetToSeq(S)[i] \in S
<1> DEFINE q == SetToSeq(S)
<1>1. \E n \in Nat : n = Cardinality(S) /\ \E f \in [1 .. n -> S] : IsInjective(f)
  <2>1. CASE S = {}
    <3>1. Cardinality(S) = 0
      BY <2>1, FS_EmptySet
    <3>2. <<>> \in [1 .. 0 -> S] /\ IsInjective(<<>>)
      BY DEF IsInjective
    <3>3. 0 \in Nat /\ \E f \in [1 .. 0 -> S] : IsInjective(f)
      BY <3>2
    <3> QED BY <3>1, <3>3
  <2>2. CASE S # {}
    <3>1. PICK x \in S : S = {x}
      BY <2>2
    <3>2. Cardinality(S) = 1
      BY <3>1, FS_Singleton
    <3>3. [i \in 1 .. 1 |-> x] \in [1 .. 1 -> S] /\ IsInjective([i \in 1 .. 1 |-> x])
      BY DEF IsInjective
    <3> QED BY <3>2, <3>3
  <2> QED BY <2>1, <2>2
<1>2. PICK n \in Nat : n = Cardinality(S) /\ \E f \in [1 .. n -> S] : IsInjective(f)
  BY <1>1
<1>3. q \in [1 .. n -> S]
  BY <1>2 DEF SetToSeq
<1> HIDE DEF q
<1>4. q \in Seq(S) /\ Len(q) = n
  BY <1>3
<1>5. q \in Seq(T) /\ \A i \in 1 .. Len(q) : q[i] \in S
  BY <1>3, <1>4
<1> QED BY <1>5 DEF q

(* A handle more, or again.                                                *)
LEMMA RememberFacts ==
    ASSUME handle \in [Writers -> Handles], NEW w \in Writers, NEW p \in Paths, NEW id \in Nat,
           Remember(w, p, id)
    PROVE  /\ handle' \in [Writers -> Handles] /\ handle' = [handle EXCEPT ![w] = handle'[w]]
           /\ DOMAIN handle'[w] = DOMAIN handle[w] \cup {p}
           /\ \A q \in DOMAIN handle'[w] : handle'[w][q] = IF q = p THEN id ELSE handle[w][q]
<1>1. handle \in [Writers -> Handles] /\ handle[w] \in Handles
  OBVIOUS
<1>2. PICK S \in SUBSET Paths : handle[w] \in [S -> Nat]
  BY <1>1 DEF Handles
<1> DEFINE h == [q \in DOMAIN handle[w] \cup {p} |-> IF q = p THEN id ELSE handle[w][q]]
<1>3. h \in [S \cup {p} -> Nat] /\ DOMAIN h = DOMAIN handle[w] \cup {p}
      /\ \A q \in DOMAIN h : h[q] = IF q = p THEN id ELSE handle[w][q]
  BY <1>2
<1>4. handle' = [handle EXCEPT ![w] = h]
  BY DEF Remember
<1> HIDE DEF h
<1>5. h \in Handles
  <2>1. S \cup {p} \in SUBSET Paths
    OBVIOUS
  <2> QED BY <1>3, <2>1 DEF Handles
<1>6. handle' \in [Writers -> Handles] /\ handle'[w] = h
  BY <1>1, <1>4, <1>5
<1> QED BY <1>3, <1>4, <1>6

(* A column added to any layout.                                           *)
LEMMA ColumnAdded ==
    ASSUME NEW s \in Layout, NEW p \in Paths, NEW type \in Types, NEW new, new = columnAtEnd(s, p, type)
    PROVE  new \in Layout /\ Begins(s, new) /\ HasPath(new, p)
<1> DEFINE c == [path |-> p, type |-> type]
           n == Len(s)
<1>1. c \in Column /\ c.path = p /\ n \in Nat
  BY LayoutType DEF Column
<1> HIDE DEF c
<1>2. new = Append(s, c)
  BY DEF columnAtEnd, c
<1>3. /\ new \in Layout /\ Len(new) = n + 1 /\ new[n + 1] = c /\ (\A i \in 1 .. n : new[i] = s[i])
      /\ DOMAIN new = 1 .. n + 1
  BY <1>1, <1>2 DEF Layout
<1>4. Begins(s, new)
  BY <1>1, <1>3 DEF Begins
<1>5. n + 1 \in DOMAIN new /\ new[n + 1].path = p
  BY <1>1, <1>3
<1> QED BY <1>3, <1>4, <1>5 DEF HasPath

(* A new column at the end.                                                *)
LEMMA ColumnAtEndFacts ==
    ASSUME NEW s \in Layout, NEW p \in Paths, NEW type \in Types, PathsApart(s), ~HasPath(s, p),
           NEW new, new = columnAtEnd(s, p, type)
    PROVE  new \in Layout /\ Begins(s, new) /\ PathsApart(new) /\ HasPath(new, p)
<1> DEFINE c == [path |-> p, type |-> type]
           n == Len(s)
<1>1. c \in Column /\ c.path = p /\ n \in Nat
  BY LayoutType DEF Column
<1> HIDE DEF c
<1>2. new = Append(s, c)
  BY DEF columnAtEnd, c
<1>3. /\ new \in Layout /\ Len(new) = n + 1 /\ new[n + 1] = c /\ (\A i \in 1 .. n : new[i] = s[i])
      /\ DOMAIN new = 1 .. n + 1 /\ DOMAIN s = 1 .. n
  BY <1>1, <1>2 DEF Layout
<1>4. \A i \in 1 .. n : s[i].path # p
  BY <1>3 DEF HasPath
<1>5. Begins(s, new)
  BY <1>1, <1>3 DEF Begins
<1>6. PathsApart(new)
  <2> SUFFICES ASSUME NEW j \in 1 .. n + 1, NEW k \in 1 .. n + 1, new[j].path = new[k].path PROVE j = k
    BY <1>3 DEF PathsApart
  <2>1. CASE j = n + 1 /\ k = n + 1
    BY <2>1
  <2>2. CASE j = n + 1 /\ k # n + 1
    BY <1>1, <1>3, <1>4, <2>2
  <2>3. CASE j # n + 1 /\ k = n + 1
    BY <1>1, <1>3, <1>4, <2>3
  <2>4. CASE j # n + 1 /\ k # n + 1
    <3>1. j \in 1 .. n /\ k \in 1 .. n
      BY <1>1, <2>4
    <3> QED BY <1>3, <3>1 DEF PathsApart
  <2> QED BY <2>1, <2>2, <2>3, <2>4
<1>7. HasPath(new, p)
  <2>1. n + 1 \in DOMAIN new /\ new[n + 1].path = p
    BY <1>1, <1>3
  <2> QED BY <2>1 DEF HasPath
<1> QED BY <1>3, <1>5, <1>6, <1>7

(* A path of a layout is one of those that it begins.                      *)
LEMMA HasPathLonger ==
    ASSUME NEW s \in Layout, NEW t \in Layout, Begins(s, t), NEW p, HasPath(s, p)
    PROVE  HasPath(t, p)
<1>1. DOMAIN s = 1 .. Len(s) /\ DOMAIN t = 1 .. Len(t) /\ Len(s) \in Nat /\ Len(t) \in Nat
  BY LayoutType
<1>2. PICK i \in 1 .. Len(s) : s[i].path = p
  BY <1>1 DEF HasPath
<1>3. i \in 1 .. Len(t) /\ t[i] = s[i]
  BY <1>1 DEF Begins
<1> QED BY <1>1, <1>2, <1>3 DEF HasPath

(* The columns of the elements that had none.                              *)
LEMMA NewElementsLayout ==
    ASSUME NEW s \in Layout, NEW a \in Arrays, NEW type \in Types,
           NEW from \in Nat, NEW to \in Nat, from <= to, to <= Limit
    PROVE  newElements(s, a, from, to, type) \in Layout
<1> DEFINE n == to - from
           col(k) == [path |-> elem(a, from + k - 1), type |-> type]
           ss == [k \in 1 .. n |-> IF HasPath(s, elem(a, from + k - 1)) THEN <<>> ELSE <<col(k)>>]
<1>0. n \in Nat /\ Limit \in Nat
  BY LayoutAssumption
<1>1. ASSUME NEW k \in 1 .. n PROVE col(k) \in Column
  <2>1. from + k - 1 \in 0 .. Limit - 1
    BY <1>0
  <2>2. elem(a, from + k - 1) \in Paths
    BY <2>1 DEF Paths
  <2> QED BY <2>2 DEF Column
<1>2. newElements(s, a, from, to, type) = FlattenSeq(ss)
  BY DEF newElements
<1> HIDE DEF n, col
<1>3. /\ ss \in Seq(Seq(Column)) /\ Len(ss) = n
      /\ \A k \in 1 .. n : ss[k] = IF HasPath(s, elem(a, from + k - 1)) THEN <<>> ELSE <<col(k)>>
  <2>1. \A k \in 1 .. n : <<col(k)>> \in Seq(Column)
    BY <1>1
  <2>2. ss \in [1 .. n -> Seq(Column)]
    BY <2>1
  <2> QED BY <1>0, <2>2
<1> HIDE DEF ss
<1>4. \A k \in 1 .. Len(ss) : ss[k] = <<>> \/ \E t \in Column : ss[k] = <<t>>
  BY <1>1, <1>3
<1>5. FlattenSeq(ss) \in Seq(Column)
  BY <1>3, <1>4, Picked
<1> QED BY <1>2, <1>5 DEF Layout

(* The columns of the elements that had none: each in a column of its own, *)
(* behind the layout, and none is left out.                                *)
LEMMA NewElementsFacts ==
    ASSUME NEW s \in Layout, PathsApart(s), NEW a \in Arrays, NEW type \in Types,
           NEW from \in Nat, NEW to \in Nat, from <= to, to <= Limit,
           NEW q, q = newElements(s, a, from, to, type)
    PROVE  /\ q \in Layout /\ PathsApart(s \o q)
           /\ \A i \in from .. to - 1 : HasPath(s \o q, elem(a, i))
<1> DEFINE n == to - from
           col(k) == [path |-> elem(a, from + k - 1), type |-> type]
           ss == [k \in 1 .. n |-> IF HasPath(s, elem(a, from + k - 1)) THEN <<>> ELSE <<col(k)>>]
<1>0. n \in Nat /\ Limit \in Nat
  BY LayoutAssumption
<1>1. ASSUME NEW k \in 1 .. n PROVE elem(a, from + k - 1) \in Paths /\ col(k) \in Column
  <2>1. from + k - 1 \in 0 .. Limit - 1
    BY <1>0
  <2>2. elem(a, from + k - 1) \in Paths
    BY <2>1 DEF Paths
  <2> QED BY <2>2 DEF Column
<1>2. \A k \in 1 .. n : col(k).path = elem(a, from + k - 1)
  OBVIOUS
<1>3. q = FlattenSeq(ss)
  BY DEF newElements
<1> HIDE DEF n, col
<1>4. /\ ss \in Seq(Seq(Column)) /\ Len(ss) = n
      /\ \A k \in 1 .. n : ss[k] = IF HasPath(s, elem(a, from + k - 1)) THEN <<>> ELSE <<col(k)>>
  <2>1. \A k \in 1 .. n : <<col(k)>> \in Seq(Column)
    BY <1>1
  <2>2. ss \in [1 .. n -> Seq(Column)]
    BY <2>1
  <2> QED BY <1>0, <2>2
<1> HIDE DEF ss
<1>5. \A k \in 1 .. Len(ss) : ss[k] = <<>> \/ \E t \in Column : ss[k] = <<t>>
  BY <1>1, <1>4
<1>6. FlattenSeq(ss) \in Seq(Column) /\ \E h : PickedBy(h, FlattenSeq(ss), ss, Len(ss))
  BY <1>4, <1>5, Picked
<1>7. q \in Seq(Column) /\ Len(q) \in Nat
  BY <1>3, <1>6
<1>8. PICK h : PickedBy(h, q, ss, n)
  BY <1>3, <1>4, <1>6
<1>9. /\ h \in [1 .. Len(q) -> 1 .. n]
      /\ \A k, m \in 1 .. Len(q) : h[k] = h[m] => k = m
      /\ \A i \in 1 .. n : ss[i] # <<>> => \E k \in 1 .. Len(q) : h[k] = i
      /\ \A k \in 1 .. Len(q) : ss[h[k]] = <<q[k]>>
  BY <1>8 DEF PickedBy
<1>10. ASSUME NEW k \in 1 .. Len(q)
       PROVE  q[k].path = elem(a, from + h[k] - 1) /\ ~HasPath(s, elem(a, from + h[k] - 1))
  <2>1. h[k] \in 1 .. n /\ ss[h[k]] = <<q[k]>>
    BY <1>9
  <2>2. ss[h[k]] = IF HasPath(s, elem(a, from + h[k] - 1)) THEN <<>> ELSE <<col(h[k])>>
    BY <1>4, <2>1
  <2>3. ~HasPath(s, elem(a, from + h[k] - 1)) /\ <<q[k]>> = <<col(h[k])>>
    <3>1. <<q[k]>> # <<>>
      OBVIOUS
    <3> QED BY <2>1, <2>2, <3>1
  <2>4. q[k] = col(h[k])
    BY <2>3
  <2> QED BY <1>2, <2>1, <2>3, <2>4
<1>11. /\ Len(s) \in Nat /\ DOMAIN s = 1 .. Len(s) /\ s \in Seq(Column)
  BY LayoutType DEF Layout
<1>12. PICK t : t = s \o q
  OBVIOUS
<1>13. /\ t \in Seq(Column) /\ Len(t) = Len(s) + Len(q) /\ DOMAIN t = 1 .. Len(t)
       /\ (\A i \in 1 .. Len(s) : t[i] = s[i])
       /\ (\A i \in 1 .. Len(q) : t[Len(s) + i] = q[i])
  BY <1>7, <1>11, <1>12, ConcatFacts
<1>14. ASSUME NEW j \in 1 .. Len(t), j \notin 1 .. Len(s)
       PROVE  j - Len(s) \in 1 .. Len(q) /\ t[j] = q[j - Len(s)]
  <2>1. j - Len(s) \in 1 .. Len(q) /\ Len(s) + (j - Len(s)) = j
    BY <1>7, <1>11, <1>13, <1>14
  <2>2. t[Len(s) + (j - Len(s))] = q[j - Len(s)]
    BY <1>13, <2>1
  <2> QED BY <2>1, <2>2
<1>15. ASSUME NEW j \in 1 .. Len(s), NEW k \in 1 .. Len(q) PROVE s[j].path # q[k].path
  BY <1>10, <1>11 DEF HasPath
<1>16. ASSUME NEW j \in 1 .. Len(q), NEW k \in 1 .. Len(q), q[j].path = q[k].path PROVE j = k
  <2>1. elem(a, from + h[j] - 1) = elem(a, from + h[k] - 1)
    BY <1>10, <1>16
  <2>2. from + h[j] - 1 = from + h[k] - 1
    BY <2>1 DEF elem
  <2>3. h[j] \in Nat /\ h[k] \in Nat
    BY <1>0, <1>9
  <2> QED BY <1>9, <2>2, <2>3
<1>17. PathsApart(t)
  <2> SUFFICES ASSUME NEW j \in 1 .. Len(t), NEW k \in 1 .. Len(t), t[j].path = t[k].path PROVE j = k
    BY DEF PathsApart
  <2>1. CASE j \in 1 .. Len(s) /\ k \in 1 .. Len(s)
    BY <1>13, <2>1 DEF PathsApart
  <2>2. CASE j \in 1 .. Len(s) /\ k \notin 1 .. Len(s)
    <3>1. k - Len(s) \in 1 .. Len(q) /\ t[k] = q[k - Len(s)] /\ t[j] = s[j]
      BY <1>13, <1>14, <2>2
    <3>2. s[j].path # q[k - Len(s)].path
      BY <1>15, <2>2, <3>1
    <3> QED BY <3>1, <3>2
  <2>3. CASE j \notin 1 .. Len(s) /\ k \in 1 .. Len(s)
    <3>1. j - Len(s) \in 1 .. Len(q) /\ t[j] = q[j - Len(s)] /\ t[k] = s[k]
      BY <1>13, <1>14, <2>3
    <3>2. s[k].path # q[j - Len(s)].path
      BY <1>15, <2>3, <3>1
    <3> QED BY <3>1, <3>2
  <2>4. CASE j \notin 1 .. Len(s) /\ k \notin 1 .. Len(s)
    <3>1. /\ j - Len(s) \in 1 .. Len(q) /\ t[j] = q[j - Len(s)]
          /\ k - Len(s) \in 1 .. Len(q) /\ t[k] = q[k - Len(s)]
      BY <1>14, <2>4
    <3>2. j - Len(s) = k - Len(s)
      BY <1>16, <3>1
    <3> QED BY <1>11, <1>13, <3>2
  <2> QED BY <2>1, <2>2, <2>3, <2>4
<1>18. ASSUME NEW i \in from .. to - 1 PROVE HasPath(t, elem(a, i))
  <2>1. CASE HasPath(s, elem(a, i))
    <3>1. PICK j \in 1 .. Len(s) : s[j].path = elem(a, i)
      BY <1>11, <2>1 DEF HasPath
    <3>2. j \in DOMAIN t /\ t[j] = s[j]
      BY <1>7, <1>11, <1>13
    <3> QED BY <3>1, <3>2 DEF HasPath
  <2>2. CASE ~HasPath(s, elem(a, i))
    <3>1. i - from + 1 \in 1 .. n /\ from + (i - from + 1) - 1 = i
      BY DEF n
    <3>2. ss[i - from + 1] # <<>>
      <4>1. ss[i - from + 1] = IF HasPath(s, elem(a, from + (i - from + 1) - 1)) THEN <<>> ELSE <<col(i - from + 1)>>
        BY <1>4, <3>1
      <4>2. ss[i - from + 1] = <<col(i - from + 1)>>
        BY <2>2, <3>1, <4>1
      <4>3. <<col(i - from + 1)>> # <<>>
        OBVIOUS
      <4> QED BY <4>2, <4>3
    <3>3. PICK k \in 1 .. Len(q) : h[k] = i - from + 1
      BY <1>9, <3>1, <3>2
    <3>4. q[k].path = elem(a, i)
      BY <1>10, <3>1, <3>3
    <3>5. Len(s) + k \in DOMAIN t /\ t[Len(s) + k] = q[k]
      BY <1>7, <1>11, <1>13
    <3> QED BY <3>4, <3>5 DEF HasPath
  <2> QED BY <2>1, <2>2
<1> QED BY <1>7, <1>12, <1>17, <1>18 DEF Layout

(* Rows and chunks of the invariant are those of TypeOK.                   *)
LEMMA ChunkTyped ==
    ASSUME NEW c, c.layout \in Layout, c.rows \in Seq(Row)
    PROVE  ChunkOK(c)
<1>1. ASSUME NEW r \in Row PROVE RowOK(r)
  <2>1. PICK S \in SUBSET Nat : r \in [S -> Paths]
    BY DEF Row
  <2> QED BY <2>1 DEF RowOK
<1>2. \A i \in 1 .. Len(c.rows) : c.rows[i] \in Row
  OBVIOUS
<1> QED BY <1>1, <1>2 DEF ChunkOK

-----------------------------------------------------------------------------
(* Every writer by its own layout. *)

(* No value of the row is in the column of another field.                  *)
Apt(layout, r) == \A k \in DOMAIN r : k \in 1 .. Len(layout) => layout[k].path = r[k]
Placed(c) == \A i \in 1 .. Len(c.rows) : Apt(c.layout, c.rows[i])

(* Each handle names its field.                                            *)
Names(layout, h) == \A p \in DOMAIN h : h[p] \in 1 .. Len(layout) /\ layout[h[p]].path = p

(* The types that do not depend on the bounds.                             *)
SharedTyped ==
    /\ stored \in Layout /\ expansion \in [Arrays -> 0 .. Limit]
    /\ cols \in [Writers -> Layout] /\ builder \in [Writers -> SUBSET Builder]
    /\ row \in [Writers -> Row] /\ pending \in [Writers -> Seq(Chunk)] /\ chunks \in Seq(Chunk)
    /\ handle \in [Writers -> Handles]

(* A writer's builder was made with its layout, or before it had one; its  *)
(* handles and its row go by its own layout.                               *)
OwnLayout(w) ==
    /\ \A b, c \in builder[w] : b = c
    /\ \A b \in builder[w] : (b.layout = <<>> \/ b.layout = cols[w]) /\ Placed(b)
    /\ Fits(cols[w], row[w])
    /\ \A i \in 1 .. Len(pending[w]) : Placed(pending[w][i])
    /\ Names(cols[w], handle[w])

(* The inductive invariant: it says nothing about the stored layout, which *)
(* the writers overwrite.                                                  *)
SharedInv ==
    /\ SharedTyped
    /\ \A w \in Writers : OwnLayout(w)
    /\ \A i \in 1 .. Len(chunks) : Placed(chunks[i])

(* A row that fits a layout is apt for it, and for none.                   *)
LEMMA FitsApt ==
    ASSUME NEW layout, NEW r, NEW c \in Layout, Fits(c, r), layout = <<>> \/ layout = c
    PROVE  Apt(layout, r)
<1>1. CASE layout = <<>>
  BY <1>1 DEF Apt
<1>2. CASE layout = c
  BY <1>2 DEF Apt, Fits
<1> QED BY <1>1, <1>2

(* What a longer layout keeps.                                             *)
LEMMA NamesLonger ==
    ASSUME NEW s \in Layout, NEW t \in Layout, Begins(s, t), NEW h, Names(s, h)
    PROVE  Names(t, h)
<1>1. Len(s) \in Nat /\ Len(t) \in Nat
  BY LayoutType
<1>2. \A k \in 1 .. Len(s) : k \in 1 .. Len(t) /\ t[k] = s[k]
  BY <1>1 DEF Begins
<1> QED BY <1>2 DEF Names

(* One writer's part of the invariant.                                     *)
LEMMA SharedOf ==
    ASSUME SharedInv, NEW w \in Writers
    PROVE  /\ cols[w] \in Layout /\ builder[w] \in SUBSET Builder /\ row[w] \in Row
           /\ pending[w] \in Seq(Chunk) /\ handle[w] \in Handles
           /\ (\A b, c \in builder[w] : b = c)
           /\ (\A b \in builder[w] : (b.layout = <<>> \/ b.layout = cols[w]) /\ Placed(b))
           /\ Fits(cols[w], row[w]) /\ Names(cols[w], handle[w])
           /\ (\A i \in 1 .. Len(pending[w]) : Placed(pending[w][i]))
           /\ chunks \in Seq(Chunk) /\ (\A i \in 1 .. Len(chunks) : Placed(chunks[i]))
           /\ builder = [builder EXCEPT ![w] = builder[w]] /\ pending = [pending EXCEPT ![w] = pending[w]]
           /\ row = [row EXCEPT ![w] = row[w]] /\ handle = [handle EXCEPT ![w] = handle[w]]
           /\ cols = [cols EXCEPT ![w] = cols[w]]
           /\ stored \in Layout /\ expansion \in [Arrays -> 0 .. Limit] /\ handle \in [Writers -> Handles]
<1>1. SharedTyped /\ OwnLayout(w) /\ \A i \in 1 .. Len(chunks) : Placed(chunks[i])
  BY DEF SharedInv
<1>2. /\ builder = [builder EXCEPT ![w] = builder[w]] /\ pending = [pending EXCEPT ![w] = pending[w]]
      /\ row = [row EXCEPT ![w] = row[w]] /\ handle = [handle EXCEPT ![w] = handle[w]]
      /\ cols = [cols EXCEPT ![w] = cols[w]]
  BY <1>1 DEF SharedTyped
<1>3. /\ cols[w] \in Layout /\ builder[w] \in SUBSET Builder /\ row[w] \in Row
      /\ pending[w] \in Seq(Chunk) /\ handle[w] \in Handles /\ chunks \in Seq(Chunk)
      /\ stored \in Layout /\ expansion \in [Arrays -> 0 .. Limit] /\ handle \in [Writers -> Handles]
  BY <1>1 DEF SharedTyped
<1> QED BY <1>1, <1>2, <1>3 DEF OwnLayout

(* One writer's step: the others' parts of the invariant do not see it.    *)
LEMMA SharedStep ==
    ASSUME SharedInv, NEW w \in Writers, stored' \in Layout, expansion' \in [Arrays -> 0 .. Limit],
           NEW new \in Layout, cols' = [cols EXCEPT ![w] = new],
           NEW bs \in SUBSET Builder, builder' = [builder EXCEPT ![w] = bs],
           \A b, c \in bs : b = c, \A b \in bs : (b.layout = <<>> \/ b.layout = new) /\ Placed(b),
           NEW r \in Row, row' = [row EXCEPT ![w] = r], Fits(new, r),
           NEW ps \in Seq(Chunk), pending' = [pending EXCEPT ![w] = ps], \A i \in 1 .. Len(ps) : Placed(ps[i]),
           NEW h \in Handles, handle' = [handle EXCEPT ![w] = h], Names(new, h),
           NEW cs \in Seq(Chunk), chunks' = cs, \A i \in 1 .. Len(cs) : Placed(cs[i])
    PROVE  SharedInv'
<1>1. SharedTyped /\ \A v \in Writers : OwnLayout(v)
  BY DEF SharedInv
<1>2. /\ cols \in [Writers -> Layout] /\ builder \in [Writers -> SUBSET Builder] /\ row \in [Writers -> Row]
      /\ pending \in [Writers -> Seq(Chunk)] /\ handle \in [Writers -> Handles]
  BY <1>1 DEF SharedTyped
<1>3. SharedTyped'
  BY <1>2 DEF SharedTyped
<1>4. /\ cols'[w] = new /\ builder'[w] = bs /\ row'[w] = r /\ pending'[w] = ps /\ handle'[w] = h
      /\ \A v \in Writers \ {w} : /\ cols'[v] = cols[v] /\ builder'[v] = builder[v] /\ row'[v] = row[v]
                                  /\ pending'[v] = pending[v] /\ handle'[v] = handle[v]
  BY <1>2
<1>5. OwnLayout(w)'
  BY <1>4 DEF OwnLayout
<1>6. ASSUME NEW v \in Writers \ {w} PROVE OwnLayout(v)'
  <2>1. OwnLayout(v)
    BY <1>1
  <2>2. /\ cols'[v] = cols[v] /\ builder'[v] = builder[v] /\ row'[v] = row[v]
        /\ pending'[v] = pending[v] /\ handle'[v] = handle[v]
    BY <1>4
  <2> QED BY <2>1, <2>2 DEF OwnLayout
<1> QED BY <1>3, <1>5, <1>6 DEF SharedInv

(* The layout a writer loads continues its own.                            *)
LEMMA LoadedContinues ==
    ASSUME SharedInv, NEW w \in Writers, NEW layout, layout = loaded(w)
    PROVE  /\ layout \in Layout /\ Begins(cols[w], layout) /\ (cols[w] # <<>> => layout = cols[w])
           /\ Names(layout, handle[w]) /\ Fits(layout, row[w])
           /\ \A b \in builder[w] : (b.layout = <<>> \/ b.layout = layout) /\ Placed(b)
<1>1. /\ cols[w] \in Layout /\ stored \in Layout /\ chunks \in Seq(Chunk)
      /\ Fits(cols[w], row[w]) /\ Names(cols[w], handle[w])
      /\ \A b \in builder[w] : (b.layout = <<>> \/ b.layout = cols[w]) /\ Placed(b)
  BY SharedOf
<1>2. CASE cols[w] # <<>>
  BY <1>1, <1>2, LayoutType DEF loaded
<1>3. CASE cols[w] = <<>>
  <2>1. ASSUME chunks # <<>> PROVE chunks[1].layout \in Layout
    <3>1. chunks[1] \in Chunk
      BY <1>1, <2>1
    <3> QED BY <3>1 DEF Chunk
  <2>2. <<>> \in Layout
    BY <1>1, <1>3
  <2>3. layout \in Layout
    BY <1>1, <1>3, <2>1, <2>2 DEF loaded
  <2>4. Begins(cols[w], layout)
    BY <1>3, <2>3, LayoutType DEF Begins
  <2>5. Names(layout, handle[w]) /\ Fits(layout, row[w])
    BY <1>1, <2>3, <2>4, NamesLonger, FitsLonger
  <2>6. \A b \in builder[w] : b.layout = <<>> /\ Placed(b)
    BY <1>1, <1>3
  <2> QED BY <1>3, <2>3, <2>4, <2>5, <2>6
<1> QED BY <1>2, <1>3

(* The chunks that sealing the builder of a writer makes.                  *)
LEMMA SealPlaced ==
    ASSUME SharedInv, NEW w \in Writers, NEW q,
           q = SetToSeq({seal(b) : b \in {x \in builder[w] : x.rows # <<>>}})
    PROVE  q \in Seq(Chunk) /\ \A i \in 1 .. Len(q) : Placed(q[i])
<1> DEFINE S == {seal(b) : b \in {x \in builder[w] : x.rows # <<>>}}
<1>1. builder[w] \in SUBSET Builder /\ (\A b, c \in builder[w] : b = c) /\ \A b \in builder[w] : Placed(b)
  BY SharedOf
<1>2. ASSUME NEW b \in builder[w] PROVE seal(b) \in Chunk /\ Placed(seal(b))
  <2>1. b.layout \in Layout /\ b.rows \in Seq(Row) /\ Placed(b)
    BY <1>1 DEF Builder
  <2>2. seal(b) \in Chunk /\ seal(b).layout = b.layout /\ seal(b).rows = b.rows
    BY <2>1 DEF seal, Chunk
  <2> QED BY <2>1, <2>2 DEF Placed
<1>3. S \in SUBSET Chunk /\ (\A x, y \in S : x = y) /\ \A x \in S : Placed(x)
  BY <1>1, <1>2
<1> HIDE DEF S
<1>4. SetToSeq(S) \in Seq(Chunk) /\ \A i \in 1 .. Len(SetToSeq(S)) : SetToSeq(S)[i] \in S
  BY <1>3, SeqOfOne
<1>5. q = SetToSeq(S)
  BY DEF S
<1> QED BY <1>3, <1>4, <1>5

(* Chunks behind chunks.                                                   *)
LEMMA PlacedJoined ==
    ASSUME NEW a \in Seq(Chunk), NEW b \in Seq(Chunk),
           \A i \in 1 .. Len(a) : Placed(a[i]), \A i \in 1 .. Len(b) : Placed(b[i])
    PROVE  a \o b \in Seq(Chunk) /\ \A i \in 1 .. Len(a \o b) : Placed((a \o b)[i])
<1> DEFINE q == a \o b
<1>1. /\ q \in Seq(Chunk) /\ Len(q) = Len(a) + Len(b) /\ Len(a) \in Nat /\ Len(b) \in Nat
      /\ \A i \in 1 .. Len(a) : q[i] = a[i]
      /\ \A i \in 1 .. Len(b) : q[Len(a) + i] = b[i]
  BY ConcatFacts
<1> HIDE DEF q
<1>2. ASSUME NEW i \in 1 .. Len(q) PROVE Placed(q[i])
  <2>1. CASE i \in 1 .. Len(a)
    BY <1>1, <2>1
  <2>2. CASE i \notin 1 .. Len(a)
    <3>1. i - Len(a) \in 1 .. Len(b) /\ Len(a) + (i - Len(a)) = i
      BY <1>1, <2>2
    <3>2. q[i] = b[i - Len(a)]
      BY <1>1, <3>1
    <3> QED BY <3>1, <3>2
  <2> QED BY <2>1, <2>2
<1> QED BY <1>1, <1>2 DEF q

(* A handle of the writer's layout, one more or again.                     *)
LEMMA SharedHandle ==
    ASSUME SharedInv, NEW w \in Writers, NEW p \in Paths, NEW layout \in Layout, Begins(cols[w], layout),
           HasPath(layout, p), Remember(w, p, IdOf(layout, p))
    PROVE  /\ handle'[w] \in Handles /\ handle' = [handle EXCEPT ![w] = handle'[w]]
           /\ Names(layout, handle'[w])
<1>1. IdOf(layout, p) \in 1 .. Len(layout) /\ layout[IdOf(layout, p)].path = p
  BY IdFacts
<1>2. IdOf(layout, p) \in Nat /\ handle \in [Writers -> Handles] /\ cols[w] \in Layout /\ Names(cols[w], handle[w])
  BY <1>1, SharedOf, LayoutType
<1>3. /\ handle' \in [Writers -> Handles] /\ handle' = [handle EXCEPT ![w] = handle'[w]]
      /\ DOMAIN handle'[w] = DOMAIN handle[w] \cup {p}
      /\ \A q \in DOMAIN handle'[w] : handle'[w][q] = IF q = p THEN IdOf(layout, p) ELSE handle[w][q]
  BY <1>2, RememberFacts
<1>4. Names(layout, handle[w])
  BY <1>2, NamesLonger
<1>5. Names(layout, handle'[w])
  BY <1>1, <1>3, <1>4 DEF Names
<1> QED BY <1>3, <1>5

(* The layout changes: the builder of the writer was sealed.               *)
LEMMA SharedLayoutStep ==
    ASSUME SharedInv, NEW w \in Writers, NEW new \in Layout, Begins(cols[w], new),
           sealBeforeLayoutChange(w), stored' = new, cols' = [cols EXCEPT ![w] = new],
           UNCHANGED <<row, chunks>>, expansion' \in [Arrays -> 0 .. Limit],
           NEW h \in Handles, handle' = [handle EXCEPT ![w] = h], Names(new, h)
    PROVE  SharedInv'
<1>1. PICK q : q = SetToSeq({seal(b) : b \in {x \in builder[w] : x.rows # <<>>}})
  OBVIOUS
<1>2. q \in Seq(Chunk) /\ \A i \in 1 .. Len(q) : Placed(q[i])
  BY <1>1, SealPlaced
<1>3. /\ pending[w] \in Seq(Chunk) /\ (\A i \in 1 .. Len(pending[w]) : Placed(pending[w][i]))
      /\ cols[w] \in Layout /\ row[w] \in Row /\ Fits(cols[w], row[w]) /\ row = [row EXCEPT ![w] = row[w]]
      /\ chunks \in Seq(Chunk) /\ (\A i \in 1 .. Len(chunks) : Placed(chunks[i]))
  BY SharedOf
<1>4. PICK ps : ps = pending[w] \o q
  OBVIOUS
<1>5. ps \in Seq(Chunk) /\ \A i \in 1 .. Len(ps) : Placed(ps[i])
  BY <1>2, <1>3, <1>4, PlacedJoined
<1>6. PICK bs : bs = {}
  OBVIOUS
<1>7. /\ pending' = [pending EXCEPT ![w] = ps] /\ builder' = [builder EXCEPT ![w] = bs]
      /\ bs \in SUBSET Builder /\ (\A b, c \in bs : b = c)
      /\ (\A b \in bs : (b.layout = <<>> \/ b.layout = new) /\ Placed(b))
  BY <1>1, <1>4, <1>6 DEF sealBeforeLayoutChange
<1>8. Fits(new, row[w]) /\ row' = [row EXCEPT ![w] = row[w]] /\ chunks' = chunks
  BY <1>3, FitsLonger
<1> QED BY <1>3, <1>5, <1>7, <1>8, SharedStep

(* ensureColumn: the layout is loaded, or grows at the end.                *)
LEMMA SharedEnsureColumn ==
    ASSUME SharedInv, NEW w \in Writers, NEW p \in Paths, NEW type \in Types, ensureColumn(w, p, type)
    PROVE  SharedInv'
<1>1. PICK layout : layout = loaded(w)
  OBVIOUS
<1>2. /\ layout \in Layout /\ Begins(cols[w], layout) /\ (cols[w] # <<>> => layout = cols[w])
      /\ Names(layout, handle[w]) /\ Fits(layout, row[w])
      /\ \A b \in builder[w] : (b.layout = <<>> \/ b.layout = layout) /\ Placed(b)
  BY <1>1, LoadedContinues
<1>3. UNCHANGED <<expansion, row, chunks>>
  BY DEF ensureColumn
<1>4. ASSUME cols' = [cols EXCEPT ![w] = layout], UNCHANGED <<stored, builder, pending>>,
             UNCHANGED handle \/ (HasPath(layout, p) /\ Remember(w, p, IdOf(layout, p)))
      PROVE  SharedInv'
  <2>1. handle'[w] \in Handles /\ handle' = [handle EXCEPT ![w] = handle'[w]] /\ Names(layout, handle'[w])
    <3>1. CASE UNCHANGED handle
      BY <1>2, <3>1, SharedOf
    <3>2. CASE HasPath(layout, p) /\ Remember(w, p, IdOf(layout, p))
      BY <1>2, <3>2, SharedHandle
    <3> QED BY <1>4, <3>1, <3>2
  <2>2. /\ builder' = [builder EXCEPT ![w] = builder[w]] /\ pending' = [pending EXCEPT ![w] = pending[w]]
        /\ row' = [row EXCEPT ![w] = row[w]] /\ chunks' = chunks
        /\ stored' \in Layout /\ expansion' \in [Arrays -> 0 .. Limit]
    BY <1>3, <1>4, SharedOf
  <2>3. /\ builder[w] \in SUBSET Builder /\ (\A b, c \in builder[w] : b = c) /\ row[w] \in Row
        /\ pending[w] \in Seq(Chunk) /\ (\A i \in 1 .. Len(pending[w]) : Placed(pending[w][i]))
        /\ chunks \in Seq(Chunk) /\ (\A i \in 1 .. Len(chunks) : Placed(chunks[i]))
    BY SharedOf
  <2> QED BY <1>2, <1>4, <2>1, <2>2, <2>3, SharedStep
<1>5. CASE HasPath(layout, p)
  <2>1. cols' = [cols EXCEPT ![w] = layout] /\ UNCHANGED <<stored, builder, pending>>
        /\ (UNCHANGED handle \/ Remember(w, p, IdOf(layout, p)))
    BY <1>1, <1>5 DEF ensureColumn
  <2> QED BY <1>4, <1>5, <2>1
<1>6. CASE ~HasPath(layout, p) /\ RowInProgress(w)
  <2>1. cols' = [cols EXCEPT ![w] = layout] /\ UNCHANGED <<stored, builder, pending, handle>>
    BY <1>1, <1>6 DEF ensureColumn
  <2> QED BY <1>4, <2>1
<1>7. CASE ~HasPath(layout, p) /\ ~RowInProgress(w)
  <2>1. PICK new : new = columnAtEnd(layout, p, type)
    OBVIOUS
  <2>2. /\ sealBeforeLayoutChange(w) /\ cols' = [cols EXCEPT ![w] = new] /\ stored' = cols'[w]
        /\ Remember(w, p, IdOf(cols'[w], p))
    BY <1>1, <1>7, <2>1 DEF ensureColumn
  <2>3. new \in Layout /\ Begins(layout, new) /\ HasPath(new, p)
    BY <1>2, <2>1, ColumnAdded
  <2>4. cols[w] \in Layout /\ cols \in [Writers -> Layout] /\ expansion \in [Arrays -> 0 .. Limit]
    BY SharedOf DEF SharedInv, SharedTyped
  <2>5. cols'[w] = new /\ stored' = new
    BY <2>2, <2>4
  <2>6. Begins(cols[w], new)
    BY <1>2, <2>3, <2>4, BeginsLonger
  <2>7. Remember(w, p, IdOf(new, p))
    BY <2>2, <2>5
  <2>8. handle'[w] \in Handles /\ handle' = [handle EXCEPT ![w] = handle'[w]] /\ Names(new, handle'[w])
    BY <2>3, <2>6, <2>7, SharedHandle
  <2> QED BY <1>3, <2>2, <2>3, <2>4, <2>5, <2>6, <2>8, SharedLayoutStep
<1> QED BY <1>5, <1>6, <1>7

(* expandArray: the count comes from the storage, the layout is the        *)
(* writer's.                                                               *)
LEMMA SharedExpandArray ==
    ASSUME SharedInv, NEW w \in Writers, NEW a \in Arrays, NEW n \in Lengths, NEW type \in Types,
           expandArray(w, a, n, type)
    PROVE  SharedInv'
<1>1. PICK layout : layout = loaded(w)
  OBVIOUS
<1>2. layout \in Layout /\ Begins(cols[w], layout) /\ Names(layout, handle[w])
  BY <1>1, LoadedContinues
<1>3. PICK current, actual : current = expansion[a] /\ actual = Min({n, Limit})
  OBVIOUS
<1>4. n \in Nat /\ Limit \in Nat /\ expansion \in [Arrays -> 0 .. Limit]
  BY LayoutAssumption, SharedOf
<1>5. current \in 0 .. Limit /\ actual \in Nat /\ actual <= Limit
  BY <1>3, <1>4 DEF Min
<1>6. UNCHANGED <<row, chunks, handle>>
  BY DEF expandArray
<1>7. CASE actual <= current \/ RowInProgress(w)
  <2>1. UNCHANGED <<stored, expansion, cols, builder, pending>>
    BY <1>3, <1>7 DEF expandArray
  <2> QED BY <1>6, <2>1 DEF SharedInv, SharedTyped, OwnLayout
<1>8. CASE ~(actual <= current \/ RowInProgress(w))
  <2>1. PICK q : q = newElements(layout, a, current, actual, type)
    OBVIOUS
  <2>2. PICK new : new = layout \o q
    OBVIOUS
  <2>3. /\ sealBeforeLayoutChange(w) /\ cols' = [cols EXCEPT ![w] = new] /\ stored' = cols'[w]
        /\ expansion' = [expansion EXCEPT ![a] = actual]
    BY <1>1, <1>3, <1>8, <2>1, <2>2 DEF expandArray
  <2>4. current \in Nat /\ current <= actual
    BY <1>4, <1>5, <1>8
  <2>5. q \in Layout
    BY <1>2, <1>5, <2>1, <2>4, NewElementsLayout
  <2>6. new \in Layout /\ Begins(layout, new)
    BY <1>2, <2>2, <2>5, ConcatBegins
  <2>7. cols[w] \in Layout /\ cols \in [Writers -> Layout] /\ handle[w] \in Handles
        /\ handle = [handle EXCEPT ![w] = handle[w]]
    BY SharedOf DEF SharedInv, SharedTyped
  <2>8. cols'[w] = new /\ stored' = new
    BY <2>3, <2>7
  <2>9. Begins(cols[w], new) /\ Names(new, handle[w])
    BY <1>2, <2>6, <2>7, BeginsLonger, NamesLonger
  <2>10. expansion' \in [Arrays -> 0 .. Limit]
    <3>1. actual \in 0 .. Limit
      BY <1>4, <1>5
    <3> QED BY <1>4, <2>3, <3>1
  <2>11. handle' = [handle EXCEPT ![w] = handle[w]]
    BY <1>6, <2>7
  <2> QED BY <1>6, <2>3, <2>6, <2>7, <2>8, <2>9, <2>10, <2>11, SharedLayoutStep
<1> QED BY <1>7, <1>8

(* The builder that getOrCreateBuilder gives, and the layout it goes with. *)
LEMMA SharedBuilder ==
    ASSUME SharedInv, NEW w \in Writers, NEW g, g = getOrCreateBuilder(w),
           cols' = [cols EXCEPT ![w] = IF builder[w] # {} THEN @ ELSE loaded(w)]
    PROVE  /\ g \in SUBSET Builder /\ (\A b, c \in g : b = c)
           /\ (\A b \in g : (b.layout = <<>> \/ b.layout = cols'[w]) /\ Placed(b))
           /\ cols'[w] \in Layout /\ cols' = [cols EXCEPT ![w] = cols'[w]] /\ Begins(cols[w], cols'[w])
           /\ Names(cols'[w], handle[w]) /\ Fits(cols'[w], row[w])
<1>1. /\ cols[w] \in Layout /\ cols \in [Writers -> Layout] /\ builder[w] \in SUBSET Builder
      /\ (\A b, c \in builder[w] : b = c)
      /\ (\A b \in builder[w] : (b.layout = <<>> \/ b.layout = cols[w]) /\ Placed(b))
      /\ Names(cols[w], handle[w]) /\ Fits(cols[w], row[w]) /\ Begins(cols[w], cols[w])
  BY SharedOf, LayoutType DEF SharedInv, SharedTyped
<1>2. CASE builder[w] # {}
  <2>1. cols'[w] = cols[w] /\ g = builder[w]
    BY <1>1, <1>2 DEF getOrCreateBuilder
  <2> QED BY <1>1, <2>1
<1>3. CASE builder[w] = {}
  <2>1. PICK layout : layout = loaded(w)
    OBVIOUS
  <2>2. cols'[w] = layout /\ cols' = [cols EXCEPT ![w] = layout]
    BY <1>1, <1>3, <2>1
  <2>3. layout \in Layout /\ Begins(cols[w], layout) /\ Names(layout, handle[w]) /\ Fits(layout, row[w])
    BY <2>1, LoadedContinues
  <2>4. PICK b : b = [layout |-> layout, rows |-> <<>>, open |-> FALSE]
    OBVIOUS
  <2>5. g = {b}
    BY <1>3, <2>1, <2>4 DEF getOrCreateBuilder
  <2>6. b.layout = layout /\ b.rows = <<>> /\ <<>> \in Seq(Row)
    BY <2>4
  <2>7. b \in Builder
    BY <2>3, <2>4, <2>6 DEF Builder
  <2>8. Placed(b)
    BY <2>6 DEF Placed
  <2> QED BY <2>2, <2>3, <2>5, <2>6, <2>7, <2>8
<1> QED BY <1>2, <1>3

(* resolveField.                                                           *)
LEMMA SharedResolveField ==
    ASSUME SharedInv, NEW w \in Writers, NEW p \in Paths, resolveField(w, p)
    PROVE  SharedInv'
<1>1. PICK g : g = getOrCreateBuilder(w)
  OBVIOUS
<1>2. /\ builder' = [builder EXCEPT ![w] = g]
      /\ cols' = [cols EXCEPT ![w] = IF builder[w] # {} THEN @ ELSE loaded(w)]
      /\ (IF HasPath(cols'[w], p) THEN Remember(w, p, IdOf(cols'[w], p)) ELSE UNCHANGED handle)
      /\ UNCHANGED <<stored, expansion, row, pending, chunks>>
  BY <1>1 DEF resolveField, storage
<1>3. PICK new : new = cols'[w]
  OBVIOUS
<1>4. /\ g \in SUBSET Builder /\ (\A b, c \in g : b = c)
      /\ (\A b \in g : (b.layout = <<>> \/ b.layout = new) /\ Placed(b))
      /\ new \in Layout /\ cols' = [cols EXCEPT ![w] = new] /\ Begins(cols[w], new)
      /\ Names(new, handle[w]) /\ Fits(new, row[w])
  BY <1>1, <1>2, <1>3, SharedBuilder
<1>5. handle'[w] \in Handles /\ handle' = [handle EXCEPT ![w] = handle'[w]] /\ Names(new, handle'[w])
  <2>1. CASE UNCHANGED handle
    BY <1>4, <2>1, SharedOf
  <2>2. CASE HasPath(new, p) /\ Remember(w, p, IdOf(new, p))
    BY <1>4, <2>2, SharedHandle
  <2> QED BY <1>2, <1>3, <2>1, <2>2
<1>6. /\ pending' = [pending EXCEPT ![w] = pending[w]] /\ row' = [row EXCEPT ![w] = row[w]] /\ chunks' = chunks
      /\ stored' \in Layout /\ expansion' \in [Arrays -> 0 .. Limit] /\ row[w] \in Row
      /\ pending[w] \in Seq(Chunk) /\ (\A i \in 1 .. Len(pending[w]) : Placed(pending[w][i]))
      /\ chunks \in Seq(Chunk) /\ (\A i \in 1 .. Len(chunks) : Placed(chunks[i]))
  BY <1>2, SharedOf
<1> QED BY <1>2, <1>4, <1>5, <1>6, SharedStep

(* beginRow.                                                               *)
LEMMA SharedBeginRow ==
    ASSUME SharedInv, NEW w \in Writers, beginRow(w)
    PROVE  SharedInv'
<1>1. PICK g : g = getOrCreateBuilder(w)
  OBVIOUS
<1>2. PICK bs : bs = {[b EXCEPT !.open = TRUE] : b \in g}
  OBVIOUS
<1>3. /\ builder' = [builder EXCEPT ![w] = bs]
      /\ cols' = [cols EXCEPT ![w] = IF builder[w] # {} THEN @ ELSE loaded(w)]
      /\ row' = [row EXCEPT ![w] = <<>>]
      /\ UNCHANGED <<stored, expansion, pending, chunks, handle>>
  BY <1>1, <1>2 DEF beginRow, storage
<1>4. PICK new : new = cols'[w]
  OBVIOUS
<1>5. /\ g \in SUBSET Builder /\ (\A b, c \in g : b = c)
      /\ (\A b \in g : (b.layout = <<>> \/ b.layout = new) /\ Placed(b))
      /\ new \in Layout /\ cols' = [cols EXCEPT ![w] = new] /\ Names(new, handle[w])
  BY <1>1, <1>3, <1>4, SharedBuilder
<1>6. ASSUME NEW b \in g, NEW c, c = [b EXCEPT !.open = TRUE]
      PROVE  c \in Builder /\ (c.layout = <<>> \/ c.layout = new) /\ Placed(c)
  <2>1. b \in Builder /\ (b.layout = <<>> \/ b.layout = new) /\ Placed(b)
    BY <1>5
  <2>2. c \in Builder /\ c.layout = b.layout /\ c.rows = b.rows
    BY <1>6, <2>1 DEF Builder
  <2> QED BY <2>1, <2>2 DEF Placed
<1>7. /\ bs \in SUBSET Builder /\ (\A b, c \in bs : b = c)
      /\ (\A b \in bs : (b.layout = <<>> \/ b.layout = new) /\ Placed(b))
  BY <1>2, <1>5, <1>6
<1>8. /\ pending' = [pending EXCEPT ![w] = pending[w]] /\ handle' = [handle EXCEPT ![w] = handle[w]]
      /\ chunks' = chunks /\ stored' \in Layout /\ expansion' \in [Arrays -> 0 .. Limit]
      /\ pending[w] \in Seq(Chunk) /\ (\A i \in 1 .. Len(pending[w]) : Placed(pending[w][i]))
      /\ chunks \in Seq(Chunk) /\ (\A i \in 1 .. Len(chunks) : Placed(chunks[i])) /\ handle[w] \in Handles
  BY <1>3, SharedOf
<1>9. PICK r : r = <<>>
  OBVIOUS
<1>10. r \in Row /\ Fits(new, r) /\ row' = [row EXCEPT ![w] = r]
  <2>1. <<>> \in [{} -> Paths] /\ {} \in SUBSET Nat
    OBVIOUS
  <2>2. <<>> \in Row
    BY <2>1 DEF Row
  <2> QED BY <1>3, <1>9, <2>2 DEF Fits
<1> QED BY <1>3, <1>5, <1>7, <1>8, <1>10, SharedStep

(* set: the value goes where the writer's own layout has its field.        *)
LEMMA SharedSet ==
    ASSUME SharedInv, NEW w \in Writers, NEW p \in Paths, set(w, p)
    PROVE  SharedInv'
<1>1. PICK k : k = handle[w][p]
  OBVIOUS
<1>2. PICK r : r = [i \in DOMAIN row[w] \cup {k} |-> IF i = k THEN p ELSE row[w][i]]
  OBVIOUS
<1>3. /\ p \in DOMAIN handle[w] /\ row' = [row EXCEPT ![w] = r]
      /\ UNCHANGED <<stored, expansion, cols, builder, pending, chunks, handle>>
  BY <1>1, <1>2 DEF set, storage
<1>4. PICK new : new = cols[w]
  OBVIOUS
<1>5. /\ new \in Layout /\ row[w] \in Row /\ Fits(new, row[w]) /\ Names(new, handle[w])
      /\ handle[w] \in Handles /\ builder[w] \in SUBSET Builder /\ (\A b, c \in builder[w] : b = c)
      /\ (\A b \in builder[w] : (b.layout = <<>> \/ b.layout = new) /\ Placed(b))
      /\ pending[w] \in Seq(Chunk) /\ (\A i \in 1 .. Len(pending[w]) : Placed(pending[w][i]))
      /\ chunks \in Seq(Chunk) /\ (\A i \in 1 .. Len(chunks) : Placed(chunks[i]))
  BY <1>4, SharedOf
<1>6. k \in 1 .. Len(new) /\ new[k].path = p
  BY <1>1, <1>3, <1>5 DEF Names
<1>7. r \in Row
  <2>1. PICK S \in SUBSET Nat : row[w] \in [S -> Paths]
    BY <1>5 DEF Row
  <2>2. k \in Nat /\ S \cup {k} \in SUBSET Nat
    BY <1>5, <1>6, LayoutType
  <2>3. r \in [S \cup {k} -> Paths]
    BY <1>2, <2>1
  <2> QED BY <2>2, <2>3 DEF Row
<1>8. Fits(new, r)
  BY <1>2, <1>5, <1>6 DEF Fits
<1>9. /\ cols' = [cols EXCEPT ![w] = new] /\ builder' = [builder EXCEPT ![w] = builder[w]]
      /\ pending' = [pending EXCEPT ![w] = pending[w]] /\ handle' = [handle EXCEPT ![w] = handle[w]]
      /\ chunks' = chunks /\ stored' \in Layout /\ expansion' \in [Arrays -> 0 .. Limit]
  BY <1>3, <1>4, SharedOf
<1> QED BY <1>3, <1>5, <1>7, <1>8, <1>9, SharedStep

(* finishRow: the row joins the builder; a full builder becomes a chunk.   *)
LEMMA SharedFinishRow ==
    ASSUME SharedInv, NEW w \in Writers, finishRow(w)
    PROVE  SharedInv'
<1>1. PICK b \in builder[w] :
         LET full == [b EXCEPT !.rows = Append(@, row[w]), !.open = FALSE]
         IN  IF Len(full.rows) >= MaxChunkRows
             THEN /\ pending' = [pending EXCEPT ![w] = Append(@, seal(full))]
                  /\ builder' = [builder EXCEPT ![w] = {}]
             ELSE builder' = [builder EXCEPT ![w] = {full}] /\ UNCHANGED pending
  BY DEF finishRow
<1>2. PICK full : full = [b EXCEPT !.rows = Append(@, row[w]), !.open = FALSE]
  OBVIOUS
<1>3. \/ /\ pending' = [pending EXCEPT ![w] = Append(@, seal(full))]
         /\ builder' = [builder EXCEPT ![w] = {}]
      \/ builder' = [builder EXCEPT ![w] = {full}] /\ UNCHANGED pending
  BY <1>1, <1>2
<1>4. row' = [row EXCEPT ![w] = <<>>] /\ UNCHANGED <<stored, expansion, cols, chunks, handle>>
  BY DEF finishRow, storage
<1>5. PICK new : new = cols[w]
  OBVIOUS
<1>6. /\ new \in Layout /\ row[w] \in Row /\ Fits(new, row[w]) /\ Names(new, handle[w])
      /\ handle[w] \in Handles /\ b \in Builder /\ (b.layout = <<>> \/ b.layout = new) /\ Placed(b)
      /\ pending[w] \in Seq(Chunk) /\ (\A i \in 1 .. Len(pending[w]) : Placed(pending[w][i]))
      /\ chunks \in Seq(Chunk) /\ (\A i \in 1 .. Len(chunks) : Placed(chunks[i]))
  BY <1>5, SharedOf
<1>7. /\ full.layout = b.layout /\ full.rows = Append(b.rows, row[w]) /\ b.rows \in Seq(Row)
      /\ full \in Builder
  <2>1. b = [layout |-> b.layout, rows |-> b.rows, open |-> b.open] /\ b.rows \in Seq(Row) /\ b.layout \in Layout
    BY <1>6 DEF Builder
  <2>2. full = [layout |-> b.layout, rows |-> Append(b.rows, row[w]), open |-> FALSE]
    BY <1>2, <2>1
  <2>3. Append(b.rows, row[w]) \in Seq(Row)
    BY <1>6, <2>1
  <2> QED BY <2>1, <2>2, <2>3 DEF Builder
<1>8. Placed(full)
  <2>1. Apt(b.layout, row[w])
    BY <1>6, FitsApt
  <2>2. PICK rs, layout : rs = b.rows /\ layout = b.layout
    OBVIOUS
  <2>3. rs \in Seq(Row) /\ Len(rs) \in Nat /\ full.rows = Append(rs, row[w]) /\ full.layout = layout
        /\ Apt(layout, row[w])
    BY <1>7, <2>1, <2>2
  <2>4. \A i \in 1 .. Len(rs) : Apt(layout, rs[i])
    BY <1>6, <2>2 DEF Placed
  <2>5. PICK n \in Nat : n = Len(rs)
    BY <2>3
  <2>6. /\ Len(Append(rs, row[w])) = n + 1 /\ Append(rs, row[w])[n + 1] = row[w]
        /\ \A i \in 1 .. n : Append(rs, row[w])[i] = rs[i]
    BY <1>6, <2>3, <2>5
  <2>7. \A i \in 1 .. n + 1 : i = n + 1 \/ i \in 1 .. n
    BY <2>5
  <2>8. \A i \in 1 .. n + 1 : Apt(layout, Append(rs, row[w])[i])
    BY <2>3, <2>4, <2>5, <2>6, <2>7
  <2> QED BY <2>3, <2>6, <2>8 DEF Placed
<1>9. PICK r : r = <<>>
  OBVIOUS
<1>10. r \in Row /\ Fits(new, r) /\ row' = [row EXCEPT ![w] = r]
  <2>1. <<>> \in [{} -> Paths] /\ {} \in SUBSET Nat
    OBVIOUS
  <2>2. <<>> \in Row
    BY <2>1 DEF Row
  <2> QED BY <1>4, <1>9, <2>2 DEF Fits
<1>11. /\ cols' = [cols EXCEPT ![w] = new] /\ handle' = [handle EXCEPT ![w] = handle[w]]
       /\ chunks' = chunks /\ stored' \in Layout /\ expansion' \in [Arrays -> 0 .. Limit]
  BY <1>4, <1>5, SharedOf
<1>12. CASE builder' = [builder EXCEPT ![w] = {full}] /\ UNCHANGED pending
  <2>1. PICK bs : bs = {full}
    OBVIOUS
  <2>2. /\ bs \in SUBSET Builder /\ (\A c, d \in bs : c = d)
        /\ (\A c \in bs : (c.layout = <<>> \/ c.layout = new) /\ Placed(c))
        /\ builder' = [builder EXCEPT ![w] = bs]
    BY <1>6, <1>7, <1>8, <1>12, <2>1
  <2>3. pending' = [pending EXCEPT ![w] = pending[w]]
    BY <1>12, SharedOf
  <2> QED BY <1>6, <1>10, <1>11, <2>2, <2>3, SharedStep
<1>13. CASE /\ pending' = [pending EXCEPT ![w] = Append(@, seal(full))]
            /\ builder' = [builder EXCEPT ![w] = {}]
  <2>1. PICK c : c = seal(full)
    OBVIOUS
  <2>2. c.layout = full.layout /\ c.rows = full.rows /\ c \in Chunk
    BY <1>7, <2>1 DEF seal, Chunk, Builder
  <2>3. Placed(c)
    BY <1>8, <2>2 DEF Placed
  <2>4. PICK one : one = <<c>>
    OBVIOUS
  <2>5. one \in Seq(Chunk) /\ Len(one) = 1 /\ one[1] = c
    BY <2>2, <2>4
  <2>6. \A i \in 1 .. Len(one) : Placed(one[i])
    BY <2>3, <2>5
  <2>7. PICK ps : ps = pending[w] \o one
    OBVIOUS
  <2>8. ps \in Seq(Chunk) /\ \A i \in 1 .. Len(ps) : Placed(ps[i])
    BY <1>6, <2>5, <2>6, <2>7, PlacedJoined
  <2>9. pending' = [pending EXCEPT ![w] = ps]
    <3>1. Append(pending[w], c) = pending[w] \o one
      BY <1>6, <2>2, <2>4
    <3> QED BY <1>13, <2>1, <2>7, <3>1
  <2>10. PICK bs : bs = {}
    OBVIOUS
  <2>11. /\ bs \in SUBSET Builder /\ (\A x, y \in bs : x = y)
         /\ (\A x \in bs : (x.layout = <<>> \/ x.layout = new) /\ Placed(x))
         /\ builder' = [builder EXCEPT ![w] = bs]
    BY <1>13, <2>10
  <2> QED BY <1>6, <1>10, <1>11, <2>8, <2>9, <2>11, SharedStep
<1> QED BY <1>3, <1>12, <1>13

(* flushAll and commitChunks.                                              *)
LEMMA SharedFlushAndCommit ==
    ASSUME SharedInv, NEW w \in Writers, flushAndCommit(w)
    PROVE  SharedInv'
<1>1. PICK q : q = SetToSeq({seal(b) : b \in {x \in builder[w] : x.rows # <<>>}})
  OBVIOUS
<1>2. q \in Seq(Chunk) /\ \A i \in 1 .. Len(q) : Placed(q[i])
  BY <1>1, SealPlaced
<1>3. PICK bs : bs = {b \in builder[w] : b.rows = <<>>}
  OBVIOUS
<1>4. PICK new : new = cols[w]
  OBVIOUS
<1>5. /\ chunks' = chunks \o pending[w] \o q /\ pending' = [pending EXCEPT ![w] = <<>>]
      /\ builder' = [builder EXCEPT ![w] = bs]
      /\ UNCHANGED <<stored, expansion, cols, row, handle>>
  BY <1>1, <1>3 DEF flushAndCommit, storage
<1>6. /\ new \in Layout /\ row[w] \in Row /\ Fits(new, row[w]) /\ Names(new, handle[w]) /\ handle[w] \in Handles
      /\ pending[w] \in Seq(Chunk) /\ (\A i \in 1 .. Len(pending[w]) : Placed(pending[w][i]))
      /\ chunks \in Seq(Chunk) /\ (\A i \in 1 .. Len(chunks) : Placed(chunks[i]))
  BY <1>4, SharedOf
<1>7. PICK a : a = chunks \o pending[w]
  OBVIOUS
<1>8. a \in Seq(Chunk) /\ \A i \in 1 .. Len(a) : Placed(a[i])
  BY <1>6, <1>7, PlacedJoined
<1>9. PICK cs : cs = a \o q
  OBVIOUS
<1>10. cs \in Seq(Chunk) /\ \A i \in 1 .. Len(cs) : Placed(cs[i])
  BY <1>2, <1>8, <1>9, PlacedJoined
<1>11. chunks' = cs
  BY <1>5, <1>7, <1>9
<1>12. PICK ps : ps = <<>>
  OBVIOUS
<1>13. ps \in Seq(Chunk) /\ (\A i \in 1 .. Len(ps) : Placed(ps[i])) /\ pending' = [pending EXCEPT ![w] = ps]
  BY <1>5, <1>12
<1>14. /\ bs \in SUBSET Builder /\ (\A b, c \in bs : b = c)
       /\ (\A b \in bs : (b.layout = <<>> \/ b.layout = new) /\ Placed(b))
  BY <1>3, <1>4, SharedOf
<1>15. /\ cols' = [cols EXCEPT ![w] = new] /\ row' = [row EXCEPT ![w] = row[w]]
       /\ handle' = [handle EXCEPT ![w] = handle[w]]
       /\ stored' \in Layout /\ expansion' \in [Arrays -> 0 .. Limit]
  BY <1>4, <1>5, SharedOf
<1> QED BY <1>5, <1>6, <1>10, <1>11, <1>13, <1>14, <1>15, SharedStep

(* Every step of any writer keeps the invariant.                           *)
LEMMA SharedInductive == Spec => []SharedInv
<1>1. Init => SharedInv
  <2> SUFFICES ASSUME Init PROVE SharedInv
    OBVIOUS
  <2>1. <<>> \in Layout /\ <<>> \in Seq(Chunk) /\ <<>> \in Row /\ <<>> \in Handles
    <3>1. <<>> \in [{} -> Paths] /\ {} \in SUBSET Nat /\ <<>> \in [{} -> Nat] /\ {} \in SUBSET Paths
      OBVIOUS
    <3> QED BY <3>1, SMTT(30) DEF Layout, Row, Handles
  <2>2. 0 \in 0 .. Limit
    BY LayoutAssumption
  <2>3. SharedTyped
    BY <2>1, <2>2 DEF Init, SharedTyped
  <2>4. \A w \in Writers : OwnLayout(w)
    BY DEF Init, OwnLayout, Fits, Names
  <2>5. \A i \in 1 .. Len(chunks) : Placed(chunks[i])
    BY DEF Init
  <2> QED BY <2>3, <2>4, <2>5 DEF SharedInv
<1>2. SharedInv /\ [Next]_vars => SharedInv'
  <2> SUFFICES ASSUME SharedInv, [Next]_vars PROVE SharedInv'
    OBVIOUS
  <2>1. CASE UNCHANGED vars
    BY <2>1 DEF vars, SharedInv, SharedTyped, OwnLayout
  <2>2. CASE Next
    <3>1. PICK w \in Writers :
            \/ \E p \in Paths, type \in Types : ensureColumn(w, p, type)
            \/ \E a \in Arrays, n \in Lengths, type \in Types : expandArray(w, a, n, type)
            \/ \E p \in Paths : resolveField(w, p) \/ set(w, p)
            \/ beginRow(w)
            \/ finishRow(w)
            \/ flushAndCommit(w)
      BY <2>2 DEF Next
    <3> QED BY <3>1, SharedEnsureColumn, SharedExpandArray, SharedResolveField, SharedSet,
               SharedBeginRow, SharedFinishRow, SharedFlushAndCommit
  <2> QED BY <2>1, <2>2
<1> QED BY <1>1, <1>2, PTL DEF Spec

-----------------------------------------------------------------------------
(* Where chunks and expanded elements come from. *)

(* The chunks whose layout begins the given one, and those whose rows have *)
(* each value in the column of its field.                                  *)
From(layout) == {c \in Chunk : Begins(c.layout, layout)}
Sound == {c \in Chunk : AllFit(c)}
FromSome == UNION {From(cols[w]) : w \in Writers}

Counts == observed \in Nat /\ truncated \in Nat /\ finished \in Nat /\ calls \in 0 .. MaxCalls

(* Chunks have the layout of their writer at the time, and an element that *)
(* was expanded is a column of the writer that expanded it.                *)
Origins ==
    /\ PathsApart(stored) /\ (stored # <<>> => \E w \in Writers : cols[w] # <<>>)
    /\ \A w \in Writers : PathsApart(cols[w]) /\ pending[w] \in Seq(From(cols[w]))
    /\ chunks \in Seq(FromSome)
    /\ \A a \in Arrays : \A i \in 0 .. expansion[a] - 1 : \E w \in Writers : HasPath(cols[w], elem(a, i))

(* No builder was made before its writer had the layout it has, and no     *)
(* value is outside the columns of its chunk.                              *)
Whole ==
    /\ \A w \in Writers : /\ \A b \in builder[w] : b.layout = cols[w] /\ AllFit(b)
                          /\ pending[w] \in Seq(Sound)
    /\ chunks \in Seq(Sound)

(* The second invariant, inductive together with SharedInv.                *)
TopicInv == Counts /\ Origins /\ (OneLayout => Whole)

(* Sequences over a larger set.                                            *)
LEMMA SeqOver ==
    ASSUME NEW S, NEW T, \A x \in S : x \in T, NEW s \in Seq(S)
    PROVE  s \in Seq(T)
<1>1. Len(s) \in Nat /\ DOMAIN s = 1 .. Len(s) /\ \A i \in 1 .. Len(s) : s[i] \in T
  OBVIOUS
<1>2. s \in [1 .. Len(s) -> T]
  BY <1>1
<1> QED BY <1>1, <1>2

(* A layout that grows takes its chunks with it.                           *)
LEMMA FromLonger ==
    ASSUME NEW s \in Layout, NEW t \in Layout, Begins(s, t)
    PROVE  \A c \in From(s) : c \in From(t)
<1> SUFFICES ASSUME NEW c \in From(s) PROVE c \in From(t)
  OBVIOUS
<1>1. c \in Chunk /\ Begins(c.layout, s)
  BY DEF From
<1>2. c.layout \in Layout
  BY <1>1 DEF Chunk
<1> QED BY <1>1, <1>2, BeginsLonger DEF From

(* One writer's layout grows; the others' stay.                            *)
LEMMA Grown ==
    ASSUME SharedInv, NEW w \in Writers, NEW new \in Layout, cols' = [cols EXCEPT ![w] = new],
           Begins(cols[w], new)
    PROVE  /\ cols'[w] = new /\ \A v \in Writers \ {w} : cols'[v] = cols[v]
           /\ \A v \in Writers : /\ cols[v] \in Layout /\ cols'[v] \in Layout /\ Begins(cols[v], cols'[v])
                                 /\ (cols[v] # <<>> => cols'[v] # <<>>)
           /\ (OneLayout' => OneLayout)
<1>1. cols \in [Writers -> Layout]
  BY DEF SharedInv, SharedTyped
<1>2. cols'[w] = new /\ \A v \in Writers \ {w} : cols'[v] = cols[v]
  BY <1>1
<1>3. ASSUME NEW v \in Writers
      PROVE  /\ cols[v] \in Layout /\ cols'[v] \in Layout /\ Begins(cols[v], cols'[v])
             /\ (cols[v] # <<>> => cols'[v] # <<>>)
  <2>1. cols[v] \in Layout /\ cols'[v] \in Layout
    BY <1>1, <1>2
  <2>2. Begins(cols[v], cols'[v])
    BY <1>2, <2>1, LayoutType
  <2>3. Len(cols[v]) \in Nat /\ Len(cols'[v]) \in Nat /\ (Len(cols[v]) = 0 <=> cols[v] = <<>>)
        /\ (Len(cols'[v]) = 0 <=> cols'[v] = <<>>)
    BY <2>1, LayoutType
  <2> QED BY <2>1, <2>2, <2>3 DEF Begins
<1>4. OneLayout' => OneLayout
  BY <1>3 DEF OneLayout
<1> QED BY <1>2, <1>3, <1>4

(* One writer's step and the origins.                                      *)
LEMMA OriginsStep ==
    ASSUME SharedInv, Origins, NEW w \in Writers, NEW new \in Layout, cols' = [cols EXCEPT ![w] = new],
           Begins(cols[w], new), PathsApart(new), stored' = stored \/ stored' = new,
           NEW ps \in Seq(From(new)), pending' = [pending EXCEPT ![w] = ps],
           NEW more \in Seq(From(new)), chunks' = chunks \o more,
           \A a \in Arrays : \A i \in 0 .. expansion'[a] - 1 :
               i \in 0 .. expansion[a] - 1 \/ HasPath(new, elem(a, i))
    PROVE  Origins'
<1>1. /\ cols'[w] = new /\ (\A v \in Writers \ {w} : cols'[v] = cols[v])
      /\ \A v \in Writers : /\ cols[v] \in Layout /\ cols'[v] \in Layout /\ Begins(cols[v], cols'[v])
                            /\ (cols[v] # <<>> => cols'[v] # <<>>)
  BY Grown
<1>2. PathsApart(stored') /\ (stored' # <<>> => \E v \in Writers : cols'[v] # <<>>)
  BY <1>1 DEF Origins
<1>3. ASSUME NEW v \in Writers PROVE PathsApart(cols'[v]) /\ pending'[v] \in Seq(From(cols'[v]))
  <2>1. pending \in [Writers -> Seq(Chunk)]
    BY DEF SharedInv, SharedTyped
  <2>2. CASE v = w
    BY <1>1, <2>1, <2>2
  <2>3. CASE v # w
    BY <1>1, <2>1, <2>3 DEF Origins
  <2> QED BY <2>2, <2>3
<1>4. chunks' \in Seq(FromSome')
  <2>1. ASSUME NEW c \in FromSome PROVE c \in FromSome'
    <3>1. PICK v \in Writers : c \in From(cols[v])
      BY DEF FromSome
    <3>2. c \in From(cols'[v])
      BY <1>1, <3>1, FromLonger
    <3> QED BY <3>2 DEF FromSome, From
  <2>2. ASSUME NEW c \in From(new) PROVE c \in FromSome'
    BY <1>1 DEF FromSome, From
  <2>3. chunks \in Seq(FromSome') /\ more \in Seq(FromSome')
    BY <2>1, <2>2, SeqOver DEF Origins
  <2> QED BY <2>3
<1>5. ASSUME NEW a \in Arrays, NEW i \in 0 .. expansion'[a] - 1
      PROVE  \E v \in Writers : HasPath(cols'[v], elem(a, i))
  <2>1. CASE i \in 0 .. expansion[a] - 1
    <3>1. PICK v \in Writers : HasPath(cols[v], elem(a, i))
      BY <2>1 DEF Origins
    <3> QED BY <1>1, <3>1, HasPathLonger
  <2>2. CASE HasPath(new, elem(a, i))
    BY <1>1, <2>2
  <2> QED BY <2>1, <2>2
<1> QED BY <1>2, <1>3, <1>4, <1>5 DEF Origins, PathsApart, HasPath, From, Begins

(* One writer's step while at most one has a layout.                       *)
LEMMA WholeStep ==
    ASSUME SharedInv, Whole, NEW w \in Writers, NEW new \in Layout, cols' = [cols EXCEPT ![w] = new],
           NEW bs, builder' = [builder EXCEPT ![w] = bs], \A b \in bs : b.layout = new /\ AllFit(b),
           NEW ps \in Seq(Sound), pending' = [pending EXCEPT ![w] = ps],
           NEW more \in Seq(Sound), chunks' = chunks \o more
    PROVE  Whole'
<1>1. cols \in [Writers -> Layout] /\ builder \in [Writers -> SUBSET Builder] /\ pending \in [Writers -> Seq(Chunk)]
  BY DEF SharedInv, SharedTyped
<1>2. ASSUME NEW v \in Writers
      PROVE  (\A b \in builder'[v] : b.layout = cols'[v] /\ AllFit(b)) /\ pending'[v] \in Seq(Sound)
  <2>1. CASE v = w
    BY <1>1, <2>1
  <2>2. CASE v # w
    BY <1>1, <2>2 DEF Whole
  <2> QED BY <2>1, <2>2
<1>3. chunks' \in Seq(Sound)
  BY DEF Whole
<1>4. Sound' = Sound
  BY DEF Sound, Chunk, AllFit, Fits
<1> QED BY <1>2, <1>3, <1>4 DEF Whole, AllFit, Fits

(* A writer without a layout can only load one that another writer has.    *)
LEMMA LoadedOrigin ==
    ASSUME SharedInv, Origins, NEW w \in Writers, NEW layout, layout = loaded(w)
    PROVE  /\ layout \in Layout /\ Begins(cols[w], layout) /\ PathsApart(layout)
           /\ (layout # cols[w] => cols[w] = <<>> /\ layout # <<>> /\ \E v \in Writers : cols[v] # <<>>)
<1>1. layout \in Layout /\ Begins(cols[w], layout) /\ (cols[w] # <<>> => layout = cols[w])
  BY LoadedContinues
<1>2. CASE cols[w] # <<>>
  BY <1>1, <1>2 DEF Origins
<1>3. CASE cols[w] = <<>> /\ stored # <<>>
  BY <1>1, <1>3 DEF Origins, loaded
<1>4. CASE cols[w] = <<>> /\ stored = <<>> /\ chunks # <<>>
  <2>1. layout = chunks[1].layout
    BY <1>4 DEF loaded
  <2>2. chunks[1] \in FromSome
    BY <1>4 DEF Origins
  <2>3. PICK v \in Writers : Begins(layout, cols[v])
    BY <2>1, <2>2 DEF FromSome, From
  <2>4. cols[v] \in Layout /\ PathsApart(cols[v])
    BY SharedOf DEF Origins
  <2>5. Len(layout) \in Nat /\ Len(cols[v]) \in Nat /\ (Len(layout) = 0 <=> layout = <<>>)
        /\ (Len(cols[v]) = 0 <=> cols[v] = <<>>)
    BY <1>1, <2>4, LayoutType
  <2>6. Len(layout) <= Len(cols[v]) /\ \A i \in 1 .. Len(layout) : i \in 1 .. Len(cols[v]) /\ layout[i] = cols[v][i]
    BY <2>3, <2>5 DEF Begins
  <2>7. PathsApart(layout)
    BY <2>4, <2>6 DEF PathsApart
  <2>8. layout # <<>> => cols[v] # <<>>
    BY <2>5, <2>6
  <2> QED BY <1>1, <1>4, <2>7, <2>8
<1>5. CASE cols[w] = <<>> /\ stored = <<>> /\ chunks = <<>>
  <2>1. layout = <<>>
    BY <1>5 DEF loaded
  <2> QED BY <1>1, <1>5, <2>1 DEF PathsApart
<1> QED BY <1>2, <1>3, <1>4, <1>5

(* As long as one writer has a layout, no other loads one.                 *)
LEMMA LoadsOwn ==
    ASSUME SharedInv, Origins, NEW w \in Writers, NEW layout, layout = loaded(w),
           cols' = [cols EXCEPT ![w] = layout], OneLayout'
    PROVE  layout = cols[w]
<1>1. /\ layout \in Layout /\ Begins(cols[w], layout)
      /\ (layout # cols[w] => cols[w] = <<>> /\ layout # <<>> /\ \E v \in Writers : cols[v] # <<>>)
  BY LoadedOrigin
<1>2. cols'[w] = layout /\ \A v \in Writers : cols[v] # <<>> => cols'[v] # <<>>
  BY <1>1, Grown
<1>3. ASSUME layout # cols[w] PROVE FALSE
  <2>1. PICK v \in Writers : cols[v] # <<>>
    BY <1>1, <1>3
  <2>2. v # w /\ cols'[v] # <<>> /\ cols'[w] # <<>>
    BY <1>1, <1>2, <1>3, <2>1
  <2> QED BY <2>2 DEF OneLayout
<1> QED BY <1>3

(* The chunk that sealing a builder makes.                                 *)
LEMMA SealFrom ==
    ASSUME SharedInv, NEW w \in Writers, NEW q,
           q = SetToSeq({seal(b) : b \in {x \in builder[w] : x.rows # <<>>}})
    PROVE  q \in Seq(From(cols[w])) /\ (Whole => q \in Seq(Sound))
<1> DEFINE S == {seal(b) : b \in {x \in builder[w] : x.rows # <<>>}}
<1>1. /\ builder[w] \in SUBSET Builder /\ (\A b, c \in builder[w] : b = c) /\ cols[w] \in Layout
      /\ \A b \in builder[w] : b.layout = <<>> \/ b.layout = cols[w]
  BY SharedOf
<1>2. ASSUME NEW b \in builder[w] PROVE seal(b) \in From(cols[w]) /\ (Whole => seal(b) \in Sound)
  <2>1. b.layout \in Layout /\ b.rows \in Seq(Row) /\ (b.layout = <<>> \/ b.layout = cols[w])
    BY <1>1 DEF Builder
  <2>2. seal(b) \in Chunk /\ seal(b).layout = b.layout /\ seal(b).rows = b.rows
    BY <2>1 DEF seal, Chunk
  <2>3. Begins(b.layout, cols[w])
    <3>1. CASE b.layout = <<>>
      BY <1>1, <3>1, LayoutType DEF Begins
    <3>2. CASE b.layout = cols[w]
      BY <1>1, <3>2, LayoutType
    <3> QED BY <2>1, <3>1, <3>2
  <2>4. Whole => AllFit(seal(b))
    BY <2>2 DEF Whole, AllFit
  <2> QED BY <2>2, <2>3, <2>4 DEF From, Sound
<1>3. S \in SUBSET From(cols[w]) /\ (\A x, y \in S : x = y) /\ (Whole => S \in SUBSET Sound)
  BY <1>1, <1>2
<1> HIDE DEF S
<1>4. SetToSeq(S) \in Seq(From(cols[w]))
  BY <1>3, SeqOfOne
<1>5. Whole => SetToSeq(S) \in Seq(Sound)
  BY <1>3, SeqOfOne
<1>6. q = SetToSeq(S)
  BY DEF S
<1> QED BY <1>4, <1>5, <1>6

(* The layout changes: the builder of the writer was sealed.               *)
LEMMA TopicLayoutStep ==
    ASSUME SharedInv, TopicInv, NEW w \in Writers, NEW new \in Layout, Begins(cols[w], new), PathsApart(new),
           sealBeforeLayoutChange(w), stored' = new, cols' = [cols EXCEPT ![w] = new], UNCHANGED chunks,
           \A a \in Arrays : \A i \in 0 .. expansion'[a] - 1 :
               i \in 0 .. expansion[a] - 1 \/ HasPath(new, elem(a, i)),
           Counts'
    PROVE  TopicInv'
<1>1. PICK q : q = SetToSeq({seal(b) : b \in {x \in builder[w] : x.rows # <<>>}})
  OBVIOUS
<1>2. q \in Seq(From(cols[w])) /\ (Whole => q \in Seq(Sound))
  BY <1>1, SealFrom
<1>3. PICK ps, bs : ps = pending[w] \o q /\ bs = {}
  OBVIOUS
<1>4. pending' = [pending EXCEPT ![w] = ps] /\ builder' = [builder EXCEPT ![w] = bs]
  BY <1>1, <1>3 DEF sealBeforeLayoutChange
<1>5. cols[w] \in Layout /\ pending[w] \in Seq(From(cols[w])) /\ Origins /\ chunks \in Seq(FromSome)
  BY SharedOf DEF TopicInv, Origins
<1>6. ps \in Seq(From(new))
  <2>1. ps \in Seq(From(cols[w]))
    BY <1>2, <1>3, <1>5
  <2> QED BY <1>5, <2>1, FromLonger, SeqOver
<1>7. PICK more : more = <<>>
  OBVIOUS
<1>8. more \in Seq(From(new)) /\ more \in Seq(Sound) /\ chunks' = chunks \o more
  BY <1>5, <1>7
<1>9. Origins'
  BY <1>4, <1>5, <1>6, <1>8, OriginsStep
<1>10. ASSUME OneLayout' PROVE Whole'
  <2>1. Whole
    BY <1>10, Grown DEF TopicInv
  <2>2. ps \in Seq(Sound) /\ \A b \in bs : b.layout = new /\ AllFit(b)
    BY <1>2, <1>3, <2>1 DEF Whole
  <2> QED BY <1>4, <1>8, <2>1, <2>2, WholeStep
<1> QED BY <1>9, <1>10 DEF TopicInv

(* Nothing is sealed, committed or expanded; the layout may be loaded.     *)
LEMMA TopicQuietStep ==
    ASSUME SharedInv, TopicInv, NEW w \in Writers, NEW new \in Layout, Begins(cols[w], new), PathsApart(new),
           cols' = [cols EXCEPT ![w] = new], UNCHANGED <<stored, expansion, pending, chunks>>,
           NEW bs, builder' = [builder EXCEPT ![w] = bs],
           OneLayout' /\ Whole => \A b \in bs : b.layout = new /\ AllFit(b),
           Counts'
    PROVE  TopicInv'
<1>1. PICK ps : ps = pending[w]
  OBVIOUS
<1>2. cols[w] \in Layout /\ ps \in Seq(From(cols[w])) /\ Origins /\ chunks \in Seq(FromSome)
      /\ pending' = [pending EXCEPT ![w] = ps]
  BY <1>1, SharedOf DEF TopicInv, Origins
<1>3. ps \in Seq(From(new))
  BY <1>2, FromLonger, SeqOver
<1>4. PICK more : more = <<>>
  OBVIOUS
<1>5. more \in Seq(From(new)) /\ more \in Seq(Sound) /\ chunks' = chunks \o more
  BY <1>2, <1>4
<1>6. Origins'
  BY <1>2, <1>3, <1>5, OriginsStep
<1>7. ASSUME OneLayout' PROVE Whole'
  <2>1. Whole
    BY <1>7, Grown DEF TopicInv
  <2>2. ps \in Seq(Sound) /\ \A b \in bs : b.layout = new /\ AllFit(b)
    BY <1>1, <1>7, <2>1 DEF Whole
  <2> QED BY <1>2, <1>5, <2>1, <2>2, WholeStep
<1> QED BY <1>6, <1>7 DEF TopicInv

(* ensureColumn.                                                           *)
LEMMA TopicEnsureColumn ==
    ASSUME SharedInv, TopicInv, NEW w \in Writers, NEW p \in Paths, NEW type \in Types, ensureColumn(w, p, type)
    PROVE  TopicInv'
<1>1. PICK layout : layout = loaded(w)
  OBVIOUS
<1>2. layout \in Layout /\ Begins(cols[w], layout) /\ PathsApart(layout) /\ Origins
  BY <1>1, LoadedOrigin DEF TopicInv
<1>3. UNCHANGED <<expansion, chunks>> /\ Counts'
  BY LayoutAssumption DEF ensureColumn, TopicInv, Counts
<1>4. ASSUME cols' = [cols EXCEPT ![w] = layout], UNCHANGED <<stored, builder, pending>>
      PROVE  TopicInv'
  <2>1. PICK bs : bs = builder[w]
    OBVIOUS
  <2>2. builder' = [builder EXCEPT ![w] = bs]
    BY <1>4, <2>1, SharedOf
  <2>3. ASSUME OneLayout', Whole PROVE \A b \in bs : b.layout = layout /\ AllFit(b)
    <3>1. layout = cols[w]
      BY <1>1, <1>2, <1>4, <2>3, LoadsOwn
    <3> QED BY <2>1, <2>3, <3>1 DEF Whole
  <2> QED BY <1>2, <1>3, <1>4, <2>2, <2>3, TopicQuietStep
<1>5. CASE HasPath(layout, p) \/ RowInProgress(w)
  <2>1. cols' = [cols EXCEPT ![w] = layout] /\ UNCHANGED <<stored, builder, pending>>
    BY <1>1, <1>5 DEF ensureColumn
  <2> QED BY <1>4, <2>1
<1>6. CASE ~HasPath(layout, p) /\ ~RowInProgress(w)
  <2>1. PICK new : new = columnAtEnd(layout, p, type)
    OBVIOUS
  <2>2. sealBeforeLayoutChange(w) /\ cols' = [cols EXCEPT ![w] = new] /\ stored' = cols'[w]
    BY <1>1, <1>6, <2>1 DEF ensureColumn
  <2>3. new \in Layout /\ Begins(layout, new) /\ PathsApart(new)
    BY <1>2, <1>6, <2>1, ColumnAtEndFacts
  <2>4. cols[w] \in Layout /\ cols \in [Writers -> Layout]
    BY SharedOf DEF SharedInv, SharedTyped
  <2>5. stored' = new
    BY <2>2, <2>4
  <2>6. Begins(cols[w], new)
    BY <1>2, <2>3, <2>4, BeginsLonger
  <2> QED BY <1>3, <2>2, <2>3, <2>5, <2>6, TopicLayoutStep
<1> QED BY <1>5, <1>6

(* expandArray: the new elements are columns of the writer that expands,   *)
(* the others are where they were.                                         *)
LEMMA TopicExpandArray ==
    ASSUME SharedInv, TopicInv, NEW w \in Writers, NEW a \in Arrays, NEW n \in Lengths, NEW type \in Types,
           expandArray(w, a, n, type)
    PROVE  TopicInv'
<1>1. PICK layout : layout = loaded(w)
  OBVIOUS
<1>2. layout \in Layout /\ Begins(cols[w], layout) /\ PathsApart(layout)
  BY <1>1, LoadedOrigin DEF TopicInv
<1>3. PICK current, actual : current = expansion[a] /\ actual = Min({n, Limit})
  OBVIOUS
<1>4. n \in Nat /\ Limit \in Nat /\ expansion \in [Arrays -> 0 .. Limit]
  BY LayoutAssumption, SharedOf
<1>5. current \in 0 .. Limit /\ actual \in Nat /\ actual <= Limit
  BY <1>3, <1>4 DEF Min
<1>6. Counts'
  <2>1. observed \in Nat /\ truncated \in Nat /\ finished \in Nat /\ calls \in 0 .. MaxCalls /\ MaxCalls \in Nat
    BY LayoutAssumption DEF TopicInv, Counts
  <2>2. /\ calls < MaxCalls /\ calls' = calls + 1 /\ observed' = Max({observed, n})
        /\ truncated' \in {truncated, truncated + 1} /\ finished' = finished
    BY DEF expandArray
  <2>3. observed' \in Nat
    BY <1>4, <2>1, <2>2 DEF Max
  <2> QED BY <2>1, <2>2, <2>3 DEF Counts
<1>7. CASE actual <= current \/ RowInProgress(w)
  <2>1. UNCHANGED <<stored, expansion, cols, builder, pending, chunks>>
    BY <1>3, <1>7 DEF expandArray
  <2> QED BY <1>6, <2>1 DEF TopicInv, Origins, FromSome, Whole, OneLayout
<1>8. CASE ~(actual <= current \/ RowInProgress(w))
  <2>1. PICK q : q = newElements(layout, a, current, actual, type)
    OBVIOUS
  <2>2. PICK new : new = layout \o q
    OBVIOUS
  <2>3. /\ sealBeforeLayoutChange(w) /\ cols' = [cols EXCEPT ![w] = new] /\ stored' = cols'[w]
        /\ expansion' = [expansion EXCEPT ![a] = actual] /\ UNCHANGED chunks
    BY <1>1, <1>3, <1>8, <2>1, <2>2 DEF expandArray
  <2>4. current \in Nat /\ current <= actual
    BY <1>4, <1>5, <1>8
  <2>5. q \in Layout /\ PathsApart(layout \o q) /\ \A i \in current .. actual - 1 : HasPath(layout \o q, elem(a, i))
    BY <1>2, <1>5, <2>1, <2>4, NewElementsFacts
  <2>6. new \in Layout /\ Begins(layout, new)
    BY <1>2, <2>2, <2>5, ConcatBegins
  <2>7. cols[w] \in Layout /\ cols \in [Writers -> Layout]
    BY SharedOf DEF SharedInv, SharedTyped
  <2>8. stored' = new
    BY <2>3, <2>7
  <2>9. Begins(cols[w], new) /\ PathsApart(new)
    BY <1>2, <2>2, <2>5, <2>6, <2>7, BeginsLonger
  <2>10. ASSUME NEW e \in Arrays, NEW i \in 0 .. expansion'[e] - 1
         PROVE  i \in 0 .. expansion[e] - 1 \/ HasPath(new, elem(e, i))
    <3>1. CASE e # a
      BY <1>4, <2>3, <3>1
    <3>2. CASE e = a
      <4>1. expansion'[e] = actual /\ expansion[e] = current
        BY <1>3, <1>4, <2>3, <3>2
      <4>2. i \in 0 .. current - 1 \/ i \in current .. actual - 1
        BY <1>5, <2>4, <4>1
      <4> QED BY <2>2, <2>5, <3>2, <4>1, <4>2
    <3> QED BY <3>1, <3>2
  <2> QED BY <1>6, <2>3, <2>6, <2>8, <2>9, <2>10, TopicLayoutStep
<1> QED BY <1>7, <1>8

(* The builder that getOrCreateBuilder gives.                              *)
LEMMA TopicBuilder ==
    ASSUME SharedInv, TopicInv, NEW w \in Writers, NEW g, g = getOrCreateBuilder(w), NEW new, new = cols'[w],
           cols' = [cols EXCEPT ![w] = IF builder[w] # {} THEN @ ELSE loaded(w)]
    PROVE  /\ new \in Layout /\ Begins(cols[w], new) /\ PathsApart(new) /\ cols' = [cols EXCEPT ![w] = new]
           /\ (Whole => \A b \in g : b.layout = new /\ AllFit(b))
<1>1. cols[w] \in Layout /\ cols \in [Writers -> Layout] /\ Origins /\ PathsApart(cols[w]) /\ Begins(cols[w], cols[w])
  BY SharedOf, LayoutType DEF SharedInv, SharedTyped, TopicInv, Origins
<1>2. CASE builder[w] # {}
  <2>1. new = cols[w] /\ g = builder[w]
    BY <1>1, <1>2 DEF getOrCreateBuilder
  <2> QED BY <1>1, <1>2, <2>1 DEF Whole
<1>3. CASE builder[w] = {}
  <2>1. new = loaded(w) /\ g = {[layout |-> new, rows |-> <<>>, open |-> FALSE]}
    BY <1>1, <1>3 DEF getOrCreateBuilder
  <2>2. new \in Layout /\ Begins(cols[w], new) /\ PathsApart(new)
    BY <1>1, <2>1, LoadedOrigin
  <2>3. \A b \in g : b.layout = new /\ AllFit(b)
    BY <2>1 DEF AllFit
  <2> QED BY <1>1, <1>3, <2>1, <2>2, <2>3
<1> QED BY <1>2, <1>3

(* resolveField, beginRow and set.                                         *)
LEMMA TopicRowSteps ==
    ASSUME SharedInv, TopicInv, NEW w \in Writers,
           beginRow(w) \/ \E p \in Paths : resolveField(w, p) \/ set(w, p)
    PROVE  TopicInv'
<1>1. Counts'
  BY DEF TopicInv, Counts, beginRow, resolveField, set, storage
<1>2. CASE \E p \in Paths : set(w, p)
  <2>1. UNCHANGED <<stored, expansion, cols, builder, pending, chunks>>
    BY <1>2 DEF set, storage
  <2> QED BY <1>1, <2>1 DEF TopicInv, Origins, FromSome, Whole, OneLayout
<1>3. CASE beginRow(w) \/ \E p \in Paths : resolveField(w, p)
  <2>1. PICK g, new : g = getOrCreateBuilder(w) /\ new = cols'[w]
    OBVIOUS
  <2>2. /\ cols' = [cols EXCEPT ![w] = IF builder[w] # {} THEN @ ELSE loaded(w)]
        /\ UNCHANGED <<stored, expansion, pending, chunks>>
    BY <1>3 DEF beginRow, resolveField, storage
  <2>3. /\ new \in Layout /\ Begins(cols[w], new) /\ PathsApart(new) /\ cols' = [cols EXCEPT ![w] = new]
        /\ (Whole => \A b \in g : b.layout = new /\ AllFit(b))
    BY <2>1, <2>2, TopicBuilder
  <2>4. PICK bs : /\ builder' = [builder EXCEPT ![w] = bs]
                  /\ bs = g \/ bs = {[b EXCEPT !.open = TRUE] : b \in g}
    BY <1>3, <2>1 DEF beginRow, resolveField
  <2>5. g \in SUBSET Builder
    BY <2>1, <2>2, SharedBuilder
  <2>6. ASSUME NEW b \in Builder, NEW c, c = [b EXCEPT !.open = TRUE]
        PROVE  c.layout = b.layout /\ (AllFit(b) => AllFit(c))
    <3>1. c.layout = b.layout /\ c.rows = b.rows
      BY <2>6 DEF Builder
    <3> QED BY <3>1 DEF AllFit
  <2>7. Whole => \A b \in bs : b.layout = new /\ AllFit(b)
    BY <2>3, <2>4, <2>5, <2>6
  <2> QED BY <1>1, <2>2, <2>3, <2>4, <2>7, TopicQuietStep
<1> QED BY <1>2, <1>3

(* finishRow: a row fits the layout of its writer, so it fits a builder    *)
(* that has it.                                                            *)
LEMMA TopicFinishRow ==
    ASSUME SharedInv, TopicInv, NEW w \in Writers, finishRow(w)
    PROVE  TopicInv'
<1>1. PICK b \in builder[w] :
         LET full == [b EXCEPT !.rows = Append(@, row[w]), !.open = FALSE]
         IN  IF Len(full.rows) >= MaxChunkRows
             THEN /\ pending' = [pending EXCEPT ![w] = Append(@, seal(full))]
                  /\ builder' = [builder EXCEPT ![w] = {}]
             ELSE builder' = [builder EXCEPT ![w] = {full}] /\ UNCHANGED pending
  BY DEF finishRow
<1>2. PICK full, new : full = [b EXCEPT !.rows = Append(@, row[w]), !.open = FALSE] /\ new = cols[w]
  OBVIOUS
<1>3. \/ /\ pending' = [pending EXCEPT ![w] = Append(@, seal(full))]
         /\ builder' = [builder EXCEPT ![w] = {}]
      \/ builder' = [builder EXCEPT ![w] = {full}] /\ UNCHANGED pending
  BY <1>1, <1>2
<1>4. UNCHANGED <<stored, expansion, cols, chunks>> /\ Counts'
  BY DEF finishRow, storage, TopicInv, Counts
<1>5. /\ new \in Layout /\ Begins(new, new) /\ PathsApart(new) /\ row[w] \in Row /\ Fits(new, row[w])
      /\ cols' = [cols EXCEPT ![w] = new] /\ b \in Builder /\ (b.layout = <<>> \/ b.layout = new)
      /\ Origins /\ pending[w] \in Seq(From(new)) /\ chunks \in Seq(FromSome)
  BY <1>2, <1>4, SharedOf, LayoutType DEF TopicInv, Origins
<1>6. /\ full.layout = b.layout /\ full.rows = Append(b.rows, row[w]) /\ b.rows \in Seq(Row)
      /\ full \in Builder
  <2>1. b = [layout |-> b.layout, rows |-> b.rows, open |-> b.open] /\ b.rows \in Seq(Row) /\ b.layout \in Layout
    BY <1>5 DEF Builder
  <2>2. full = [layout |-> b.layout, rows |-> Append(b.rows, row[w]), open |-> FALSE]
    BY <1>2, <2>1
  <2>3. Append(b.rows, row[w]) \in Seq(Row)
    BY <1>5, <2>1
  <2> QED BY <2>1, <2>2, <2>3 DEF Builder
<1>7. ASSUME Whole PROVE full.layout = new /\ AllFit(full)
  <2>1. b.layout = new /\ AllFit(b)
    BY <1>2, <1>7 DEF Whole
  <2>2. PICK rs : rs = b.rows
    OBVIOUS
  <2>3. rs \in Seq(Row) /\ full.rows = Append(rs, row[w]) /\ full.layout = new
        /\ \A i \in 1 .. Len(rs) : Fits(new, rs[i])
    BY <1>6, <2>1, <2>2 DEF AllFit
  <2>4. PICK n \in Nat : n = Len(rs)
    BY <2>3
  <2>5. /\ Len(Append(rs, row[w])) = n + 1 /\ Append(rs, row[w])[n + 1] = row[w]
        /\ \A i \in 1 .. n : Append(rs, row[w])[i] = rs[i]
    BY <1>5, <2>3, <2>4
  <2>6. \A i \in 1 .. n + 1 : i = n + 1 \/ i \in 1 .. n
    BY <2>4
  <2>7. \A i \in 1 .. n + 1 : Fits(new, Append(rs, row[w])[i])
    BY <1>5, <2>3, <2>4, <2>5, <2>6
  <2> QED BY <2>3, <2>5, <2>7 DEF AllFit
<1>8. CASE builder' = [builder EXCEPT ![w] = {full}] /\ UNCHANGED pending
  <2>1. PICK bs : bs = {full}
    OBVIOUS
  <2>2. builder' = [builder EXCEPT ![w] = bs] /\ (Whole => \A x \in bs : x.layout = new /\ AllFit(x))
    BY <1>7, <1>8, <2>1
  <2>3. Begins(cols[w], new)
    BY <1>2, <1>5
  <2> QED BY <1>4, <1>5, <1>8, <2>2, <2>3, TopicQuietStep
<1>9. CASE /\ pending' = [pending EXCEPT ![w] = Append(@, seal(full))]
           /\ builder' = [builder EXCEPT ![w] = {}]
  <2>1. PICK c, ps, bs, more : c = seal(full) /\ ps = Append(pending[w], c) /\ bs = {} /\ more = <<>>
    OBVIOUS
  <2>2. c.layout = full.layout /\ c.rows = full.rows /\ c \in Chunk
    BY <1>6, <2>1 DEF seal, Chunk, Builder
  <2>3. c \in From(new)
    <3>1. CASE b.layout = <<>>
      <4>1. Begins(c.layout, new)
        BY <1>5, <1>6, <2>2, <3>1, LayoutType DEF Begins
      <4> QED BY <2>2, <4>1 DEF From
    <3>2. CASE b.layout = new
      BY <1>5, <1>6, <2>2, <3>2 DEF From
    <3> QED BY <1>5, <3>1, <3>2
  <2>4. Whole => c \in Sound
    BY <1>7, <2>2 DEF Sound, AllFit
  <2>5. /\ ps \in Seq(From(new)) /\ more \in Seq(From(new)) /\ more \in Seq(Sound) /\ chunks' = chunks \o more
        /\ pending' = [pending EXCEPT ![w] = ps] /\ builder' = [builder EXCEPT ![w] = bs]
    BY <1>4, <1>5, <1>9, <2>1, <2>3
  <2>6. Begins(cols[w], new) /\ \A a \in Arrays : \A i \in 0 .. expansion'[a] - 1 : i \in 0 .. expansion[a] - 1
    BY <1>2, <1>4, <1>5
  <2>7. Origins'
    BY <1>4, <1>5, <2>5, <2>6, OriginsStep
  <2>8. ASSUME OneLayout' PROVE Whole'
    <3>1. Whole
      BY <1>5, <2>6, <2>8, Grown DEF TopicInv
    <3>2. ps \in Seq(Sound) /\ \A x \in bs : x.layout = new /\ AllFit(x)
      BY <1>5, <2>1, <2>4, <3>1 DEF Whole
    <3> QED BY <1>5, <2>5, <3>1, <3>2, WholeStep
  <2> QED BY <1>4, <2>7, <2>8 DEF TopicInv
<1> QED BY <1>3, <1>8, <1>9

(* flushAll and commitChunks.                                              *)
LEMMA TopicFlushAndCommit ==
    ASSUME SharedInv, TopicInv, NEW w \in Writers, flushAndCommit(w)
    PROVE  TopicInv'
<1>1. PICK q, bs, new : /\ q = SetToSeq({seal(b) : b \in {x \in builder[w] : x.rows # <<>>}})
                        /\ bs = {b \in builder[w] : b.rows = <<>>} /\ new = cols[w]
  OBVIOUS
<1>2. q \in Seq(From(new)) /\ (Whole => q \in Seq(Sound))
  BY <1>1, SealFrom
<1>3. PICK ps, more : ps = <<>> /\ more = pending[w] \o q
  OBVIOUS
<1>4. /\ chunks' = chunks \o pending[w] \o q /\ pending' = [pending EXCEPT ![w] = ps]
      /\ builder' = [builder EXCEPT ![w] = bs]
      /\ UNCHANGED <<stored, expansion, cols>> /\ Counts'
  BY <1>1, <1>3 DEF flushAndCommit, storage, TopicInv, Counts
<1>5. /\ new \in Layout /\ Begins(cols[w], new) /\ PathsApart(new) /\ cols' = [cols EXCEPT ![w] = new]
      /\ Origins /\ pending[w] \in Seq(From(new)) /\ chunks \in Seq(FromSome) /\ chunks \in Seq(Chunk)
      /\ pending[w] \in Seq(Chunk) /\ q \in Seq(Chunk)
  BY <1>1, <1>4, SharedOf, LayoutType, SealPlaced DEF TopicInv, Origins
<1>6. ps \in Seq(From(new)) /\ ps \in Seq(Sound) /\ more \in Seq(From(new)) /\ chunks' = chunks \o more
  <2>1. PICK m : m = pending[w]
    OBVIOUS
  <2>2. m \in Seq(From(new)) /\ m \in Seq(Chunk) /\ more = m \o q /\ chunks' = chunks \o m \o q
    BY <1>3, <1>4, <1>5, <2>1
  <2>3. more \in Seq(From(new))
    BY <1>2, <2>2
  <2>4. (chunks \o m) \o q = chunks \o (m \o q)
    BY <1>5, <2>2
  <2> QED BY <1>3, <2>2, <2>3, <2>4
<1>7. \A a \in Arrays : \A i \in 0 .. expansion'[a] - 1 : i \in 0 .. expansion[a] - 1
  BY <1>4
<1>8. Origins'
  BY <1>4, <1>5, <1>6, <1>7, OriginsStep
<1>9. ASSUME OneLayout' PROVE Whole'
  <2>1. Whole
    BY <1>5, <1>9, Grown DEF TopicInv
  <2>2. more \in Seq(Sound) /\ \A b \in bs : b.layout = new /\ AllFit(b)
    BY <1>1, <1>2, <1>3, <2>1 DEF Whole
  <2> QED BY <1>4, <1>5, <1>6, <2>1, <2>2, WholeStep
<1> QED BY <1>4, <1>8, <1>9 DEF TopicInv

(* Both invariants hold of any number of writers.                          *)
LEMMA TopicInductive == Spec => [](SharedInv /\ TopicInv)
<1>1. Init => TopicInv
  <2> SUFFICES ASSUME Init PROVE TopicInv
    OBVIOUS
  <2>1. Counts
    BY LayoutAssumption DEF Init, Counts
  <2>2. PathsApart(<<>>)
    BY DEF PathsApart
  <2>3. Origins
    BY <2>2 DEF Init, Origins
  <2>4. Whole
    BY DEF Init, Whole
  <2> QED BY <2>1, <2>3, <2>4 DEF TopicInv
<1>2. SharedInv /\ TopicInv /\ [Next]_vars => TopicInv'
  <2> SUFFICES ASSUME SharedInv, TopicInv, [Next]_vars PROVE TopicInv'
    OBVIOUS
  <2>1. CASE UNCHANGED vars
    BY <2>1 DEF vars, TopicInv, Counts, Origins, FromSome, Whole, OneLayout
  <2>2. CASE Next
    <3>1. PICK w \in Writers :
            \/ \E p \in Paths, type \in Types : ensureColumn(w, p, type)
            \/ \E a \in Arrays, n \in Lengths, type \in Types : expandArray(w, a, n, type)
            \/ \E p \in Paths : resolveField(w, p) \/ set(w, p)
            \/ beginRow(w)
            \/ finishRow(w)
            \/ flushAndCommit(w)
      BY <2>2 DEF Next
    <3> QED BY <3>1, TopicEnsureColumn, TopicExpandArray, TopicRowSteps, TopicFinishRow, TopicFlushAndCommit
  <2> QED BY <2>1, <2>2
<1>3. Spec => []SharedInv
  BY SharedInductive
<1> QED BY <1>1, <1>2, <1>3, PTL DEF Spec

-----------------------------------------------------------------------------
(* The theorems. *)

(* "existing handles are never invalidated by later column additions": for *)
(* any number of writers, also when ensureColumn or expandArray of one has *)
(* overwritten the topic's layout with columns another does not have, a    *)
(* handle names its field in the layout of the writer that got it, and no  *)
(* value of a row lies in the column of another field.                     *)
THEOREM HandlesAlwaysStayGood == Spec => []HandlesStayGood
<1>1. SharedInv => HandlesStayGood
  <2> SUFFICES ASSUME SharedInv PROVE HandlesStayGood
    OBVIOUS
  <2>1. ASSUME NEW layout \in Layout, NEW r, Apt(layout, r) PROVE ~Misplaced(layout, r)
    <3>1. DOMAIN layout = 1 .. Len(layout)
      BY LayoutType
    <3> QED BY <2>1, <3>1 DEF Misplaced, Apt
  <2>2. ASSUME NEW c \in Chunk, Placed(c), NEW r \in DOMAIN c.rows PROVE ~Misplaced(c.layout, c.rows[r])
    <3>1. c.layout \in Layout /\ c.rows \in Seq(Row)
      BY DEF Chunk
    <3>2. Apt(c.layout, c.rows[r])
      BY <2>2, <3>1 DEF Placed
    <3> QED BY <2>1, <3>1, <3>2
  <2>3. ASSUME NEW w \in Writers, NEW p \in DOMAIN handle[w]
        PROVE  handle[w][p] \in DOMAIN cols[w] /\ cols[w][handle[w][p]].path = p
    <3>1. cols[w] \in Layout /\ Names(cols[w], handle[w])
      BY SharedOf
    <3> QED BY <3>1, LayoutType DEF Names
  <2>4. ASSUME NEW w \in Writers, NEW b \in builder[w] PROVE ~Misplaced(b.layout, row[w])
    <3>1. b \in Builder /\ (b.layout = <<>> \/ b.layout = cols[w]) /\ cols[w] \in Layout /\ Fits(cols[w], row[w])
      BY SharedOf
    <3>2. b.layout \in Layout /\ Apt(b.layout, row[w])
      BY <3>1, FitsApt DEF Builder
    <3> QED BY <2>1, <3>2
  <2>5. ASSUME NEW w \in Writers, NEW i \in DOMAIN pending[w], NEW r \in DOMAIN pending[w][i].rows
        PROVE  ~Misplaced(pending[w][i].layout, pending[w][i].rows[r])
    <3>1. pending[w] \in Seq(Chunk) /\ \A k \in 1 .. Len(pending[w]) : Placed(pending[w][k])
      BY SharedOf
    <3>2. pending[w][i] \in Chunk /\ Placed(pending[w][i])
      BY <3>1
    <3> QED BY <2>2, <3>2
  <2>6. ASSUME NEW i \in DOMAIN chunks, NEW r \in DOMAIN chunks[i].rows
        PROVE  ~Misplaced(chunks[i].layout, chunks[i].rows[r])
    <3>1. chunks \in Seq(Chunk) /\ \A k \in 1 .. Len(chunks) : Placed(chunks[k])
      BY DEF SharedInv, SharedTyped
    <3>2. chunks[i] \in Chunk /\ Placed(chunks[i])
      BY <3>1
    <3> QED BY <2>2, <3>2
  <2> QED BY <2>3, <2>4, <2>5, <2>6 DEF HandlesStayGood
<1>2. Spec => []SharedInv
  BY SharedInductive
<1> QED BY <1>1, <1>2, PTL

(* The types of ColumnLayout are those of the invariants.                  *)
LEMMA InvTypes == ASSUME SharedInv, TopicInv PROVE TypeOK
<1>1. /\ stored \in Layout /\ expansion \in [Arrays -> 0 .. Limit] /\ observed \in Nat /\ truncated \in Nat
      /\ cols \in [Writers -> Layout] /\ finished \in Nat /\ calls \in 0 .. MaxCalls
      /\ chunks \in Seq(Chunk)
  BY DEF SharedInv, SharedTyped, TopicInv, Counts
<1>2. ASSUME NEW c \in Chunk PROVE ChunkOK(c)
  <2>1. c.layout \in Layout /\ c.rows \in Seq(Row)
    BY DEF Chunk
  <2> QED BY <2>1, ChunkTyped
<1>3. ASSUME NEW w \in Writers
      PROVE  /\ Cardinality(builder[w]) <= 1 /\ RowOK(row[w])
             /\ handle[w] \in [DOMAIN handle[w] -> Nat] /\ DOMAIN handle[w] \subseteq Paths
             /\ \A b \in builder[w] : ChunkOK(seal(b)) /\ b.open \in BOOLEAN
             /\ \A i \in DOMAIN pending[w] : ChunkOK(pending[w][i])
  <2>1. /\ builder[w] \in SUBSET Builder /\ (\A b, c \in builder[w] : b = c)
        /\ row[w] \in Row /\ handle[w] \in Handles /\ pending[w] \in Seq(Chunk)
    BY SharedOf
  <2>2. Cardinality(builder[w]) <= 1
    <3>1. CASE builder[w] = {}
      BY <3>1, FS_EmptySet
    <3>2. CASE builder[w] # {}
      <4>1. PICK b : builder[w] = {b}
        BY <2>1, <3>2
      <4>2. Cardinality(builder[w]) = 1
        BY <4>1, FS_Singleton
      <4> QED BY <4>2
    <3> QED BY <3>1, <3>2
  <2>3. RowOK(row[w])
    <3>1. PICK S \in SUBSET Nat : row[w] \in [S -> Paths]
      BY <2>1 DEF Row
    <3> QED BY <3>1 DEF RowOK
  <2>4. handle[w] \in [DOMAIN handle[w] -> Nat] /\ DOMAIN handle[w] \subseteq Paths
    <3>1. PICK S \in SUBSET Paths : handle[w] \in [S -> Nat]
      BY <2>1 DEF Handles
    <3> QED BY <3>1
  <2>5. ASSUME NEW b \in builder[w] PROVE ChunkOK(seal(b)) /\ b.open \in BOOLEAN
    <3>1. b \in Builder
      BY <2>1
    <3>2. b.layout \in Layout /\ b.rows \in Seq(Row) /\ b.open \in BOOLEAN
      BY <3>1 DEF Builder
    <3>3. seal(b).layout = b.layout /\ seal(b).rows = b.rows
      BY DEF seal
    <3>4. ChunkOK(seal(b))
      BY <3>2, <3>3, ChunkTyped
    <3> QED BY <3>2, <3>4
  <2>6. \A i \in DOMAIN pending[w] : ChunkOK(pending[w][i])
    BY <1>2, <2>1
  <2> QED BY <2>2, <2>3, <2>4, <2>5, <2>6
<1>4. \A i \in DOMAIN chunks : ChunkOK(chunks[i])
  BY <1>1, <1>2
<1> QED BY <1>1, <1>3, <1>4 DEF TypeOK

(* A writer in step with the topic, whose chunks are then in step too.     *)
LEMMA PrefixBegins ==
    ASSUME NEW s \in Layout, NEW t \in Layout, IsPrefix(s, t)
    PROVE  Begins(s, t)
<1>1. Len(s) \in Nat /\ Len(t) \in Nat
  BY LayoutType
<1>2. Len(s) <= Len(t) /\ \A i \in 1 .. Len(s) : s[i] = t[i]
  BY <1>1 DEF IsPrefix, Layout
<1> QED BY <1>2 DEF Begins

(* "Field IDs are append-only and stable": for any number of writers whose *)
(* layouts have not parted from the topic's, a reader that takes a field's *)
(* column number from the stored layout finds that field in every          *)
(* committed chunk that has the column, whoever sealed it and when.        *)
THEOREM ChunksAlwaysMatchLayout == Spec => []ChunksMatchLayout
<1>1. SharedInv /\ TopicInv => ChunksMatchLayout
  <2> SUFFICES ASSUME SharedInv, TopicInv, InStep, NEW i \in DOMAIN chunks,
                      NEW k \in DOMAIN chunks[i].layout \cap DOMAIN stored
               PROVE  chunks[i].layout[k] = stored[k]
    BY InvTypes DEF ChunksMatchLayout
  <2>1. chunks[i] \in FromSome
    BY DEF TopicInv, Origins
  <2>2. PICK w \in Writers : chunks[i] \in From(cols[w])
    BY <2>1 DEF FromSome
  <2>3. PICK layout : layout = chunks[i].layout
    OBVIOUS
  <2>4. layout \in Layout /\ Begins(layout, cols[w]) /\ cols[w] \in Layout /\ stored \in Layout
    BY <2>2, <2>3, SharedOf DEF From, Chunk
  <2>5. Begins(layout, stored)
    BY <2>4, PrefixBegins, BeginsLonger DEF InStep
  <2>6. k \in 1 .. Len(layout)
    BY <2>3, <2>4, LayoutType
  <2> QED BY <2>3, <2>5, <2>6 DEF Begins
<1>2. Spec => [](SharedInv /\ TopicInv)
  BY TopicInductive
<1> QED BY <1>1, <1>2, PTL

(* A handle stays good whatever columns were added and builders sealed     *)
(* after ensureColumn or resolveField gave it out: as long as one writer   *)
(* of the topic has a layout, each value of a row is in the column of the  *)
(* field it was meant for, and none is outside its chunk.                  *)
THEOREM ValuesAlwaysUnderOwnField == Spec => []ValuesUnderOwnField
<1>1. SharedInv /\ TopicInv => ValuesUnderOwnField
  <2> SUFFICES ASSUME SharedInv, TopicInv, OneLayout PROVE ValuesUnderOwnField
    BY DEF ValuesUnderOwnField
  <2>0. Whole
    BY DEF TopicInv
  <2>1. ASSUME NEW w \in Writers, NEW b \in builder[w], NEW k \in DOMAIN row[w]
        PROVE  k \in DOMAIN b.layout /\ b.layout[k].path = row[w][k]
    <3>1. b.layout = cols[w] /\ Fits(cols[w], row[w]) /\ cols[w] \in Layout
      BY <2>0, SharedOf DEF Whole
    <3> QED BY <3>1, LayoutType DEF Fits
  <2>2. ASSUME NEW i \in DOMAIN chunks, NEW r \in DOMAIN chunks[i].rows, NEW k \in DOMAIN chunks[i].rows[r]
        PROVE  k \in DOMAIN chunks[i].layout /\ chunks[i].layout[k].path = chunks[i].rows[r][k]
    <3>1. chunks[i] \in Sound
      BY <2>0 DEF Whole
    <3>2. chunks[i] \in Chunk /\ AllFit(chunks[i])
      BY <3>1 DEF Sound
    <3>3. chunks[i].layout \in Layout /\ chunks[i].rows \in Seq(Row)
      BY <3>2 DEF Chunk
    <3>4. Fits(chunks[i].layout, chunks[i].rows[r])
      BY <3>2, <3>3 DEF AllFit
    <3> QED BY <3>3, <3>4, LayoutType DEF Fits
  <2> QED BY <2>1, <2>2 DEF ValuesUnderOwnField
<1>2. Spec => [](SharedInv /\ TopicInv)
  BY TopicInductive
<1> QED BY <1>1, <1>2, PTL

(* The elements an array was expanded to all have a column, whichever      *)
(* writers expanded it, as long as no layout has parted from the topic's;  *)
(* and no field has two columns, also when ensureColumn had added elements *)
(* before expandArray.                                                     *)
THEOREM ArraysAlwaysComplete == Spec => []ArraysComplete
<1>1. SharedInv /\ TopicInv => ArraysComplete
  <2> SUFFICES ASSUME SharedInv, TopicInv PROVE ArraysComplete
    OBVIOUS
  <2>1. stored \in Layout /\ Origins /\ \A w \in Writers : cols[w] \in Layout
    BY DEF SharedInv, SharedTyped, TopicInv
  <2>2. ASSUME InStep, NEW a \in Arrays, NEW i \in 0 .. expansion[a] - 1 PROVE HasPath(stored, elem(a, i))
    <3>1. PICK w \in Writers : HasPath(cols[w], elem(a, i))
      BY <2>1 DEF Origins
    <3>2. Begins(cols[w], stored)
      BY <2>1, <2>2, PrefixBegins DEF InStep
    <3> QED BY <2>1, <3>1, <3>2, HasPathLonger
  <2>3. \A j, k \in DOMAIN stored : stored[j].path = stored[k].path => j = k
    BY <2>1, LayoutType DEF Origins, PathsApart
  <2> QED BY <2>2, <2>3 DEF ArraysComplete
<1>2. Spec => [](SharedInv /\ TopicInv)
  BY TopicInductive
<1> QED BY <1>1, <1>2, PTL
=============================================================================
