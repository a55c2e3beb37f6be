------------------------ MODULE PluginRuntime_proofs ------------------------
(***************************************************************************)
(* Theorems about PluginRuntime for any files, images, directories and     *)
(* bounds. The inductive invariant IndInv counts the owners of every       *)
(* library and follows what a scan or a reload has still to look at;       *)
(* MatchInv, on top of it, relates catalog and plan to the files.          *)
(***************************************************************************)
EXTENDS PluginRuntime, SequenceFacts, TLAPS

(* Catalogs: what erasing and appending entries does to them. *)

(* The properties, for any catalog.                                        *)
UndatedIn(cat) ==
    UNION {{cat[f][i].path : i \in {k \in DOMAIN cat[f] : cat[f][k].mtime = 0}} : f \in Families}

OneEntry(cat) ==
    \A f, g \in Families : \A i \in DOMAIN cat[f], j \in DOMAIN cat[g] :
        cat[f][i].path = cat[g][j].path /\ cat[f][i].path \notin UndatedIn(cat) => f = g /\ i = j

(* A library belongs to one entry.                                         *)
OneHome(cat) ==
    \A f, g \in Families : \A i \in DOMAIN cat[f], j \in DOMAIN cat[g] :
        cat[f][i].lib = cat[g][j].lib => f = g /\ i = j

Catalogs == [Families -> Seq(Plugin)]

(* q is what is left of the entries s without those of the paths gone: h   *)
(* says where each one was.                                                *)
Left(q, s, gone, h) ==
    /\ h \in [DOMAIN q -> DOMAIN s]
    /\ \A k \in DOMAIN q : q[k] = s[h[k]] /\ s[h[k]].path \notin gone
    /\ \A k, m \in DOMAIN q : h[k] = h[m] => k = m
    /\ \A i \in DOMAIN s : s[i].path \notin gone => \E k \in DOMAIN q : h[k] = i

(* The same for a catalog.                                                 *)
Rest(new, cat, gone) ==
    /\ new \in Catalogs
    /\ \A f \in Families : \E h : Left(new[f], cat[f], gone, h)

(* eraseIf leaves what it should.                                          *)
LEMMA EraseFacts ==
    ASSUME NEW s \in Seq(Plugin), NEW gone
    PROVE  /\ eraseIf(s, gone) \in Seq(Plugin)
           /\ \E h : Left(eraseIf(s, gone), s, gone, h)
           /\ (\A i \in DOMAIN s : s[i].path \notin gone) => eraseIf(s, gone) = s
<1> DEFINE n == Len(s)
           ss == [i \in 1 .. n |-> IF s[i].path \in gone THEN <<>> ELSE <<s[i]>>]
           q == FlattenSeq(ss)
<1>0. n \in Nat /\ DOMAIN s = 1 .. n /\ \A i \in 1 .. n : s[i] \in Plugin
  OBVIOUS
<1>1. q = eraseIf(s, gone)
  BY <1>0 DEF eraseIf
<1>2. ss \in Seq(Seq(Plugin)) /\ Len(ss) = n
      /\ \A i \in 1 .. n : ss[i] = IF s[i].path \in gone THEN <<>> ELSE <<s[i]>>
  <2>1. \A i \in 1 .. n : (IF s[i].path \in gone THEN <<>> ELSE <<s[i]>>) \in Seq(Plugin)
    BY <1>0
  <2> HIDE DEF n
  <2> QED BY <1>0, <2>1
<1> HIDE DEF ss, n
<1>3. \A i \in 1 .. Len(ss) : ss[i] = <<>> \/ \E t \in Plugin : ss[i] = <<t>>
  BY <1>0, <1>2
<1>4. q \in Seq(Plugin) /\ \E h : PickedBy(h, q, ss, n)
  BY <1>2, <1>3, Picked
<1>5. PICK h : PickedBy(h, q, ss, n)
  BY <1>4
<1> HIDE DEF q
<1>6. DOMAIN q = 1 .. Len(q)
  BY <1>4
<1>7. h \in [DOMAIN q -> DOMAIN s]
  BY <1>0, <1>5, <1>6 DEF PickedBy
<1>8. ASSUME NEW k \in DOMAIN q PROVE q[k] = s[h[k]] /\ s[h[k]].path \notin gone
  <2>1. h[k] \in 1 .. n /\ ss[h[k]] = <<q[k]>>
    BY <1>5, <1>6 DEF PickedBy
  <2>2. ss[h[k]] # <<>>
    BY <2>1
  <2>3. s[h[k]].path \notin gone /\ ss[h[k]] = <<s[h[k]]>>
    BY <1>2, <2>1, <2>2
  <2> QED BY <2>1, <2>3
<1>9. ASSUME NEW i \in DOMAIN s, s[i].path \notin gone PROVE \E k \in DOMAIN q : h[k] = i
  <2>1. ss[i] = <<s[i]>>
    BY <1>0, <1>2, <1>9
  <2>2. ss[i] # <<>>
    BY <2>1
  <2> QED BY <1>0, <1>5, <1>6, <2>2 DEF PickedBy
<1>10. \A k, m \in DOMAIN q : h[k] = h[m] => k = m
  BY <1>5, <1>6 DEF PickedBy
<1>11. Left(q, s, gone, h)
  BY <1>7, <1>8, <1>9, <1>10 DEF Left
<1>12. ASSUME \A i \in DOMAIN s : s[i].path \notin gone PROVE q = s
  <2>1. ss = [i \in 1 .. n |-> <<s[i]>>]
    BY <1>0, <1>12 DEF ss
  <2>2. FlattenSeq([i \in 1 .. Len(s) |-> <<s[i]>>]) = s
    BY PickedAll
  <2> QED BY <2>1, <2>2 DEF q, n
<1> QED BY <1>1, <1>4, <1>11, <1>12

(* Erasing from every family.                                              *)
LEMMA EraseRest ==
    ASSUME NEW cat \in Catalogs, NEW gone
    PROVE  /\ Rest([f \in Families |-> eraseIf(cat[f], gone)], cat, gone)
           /\ [f \in Families |-> eraseIf(cat[f], gone)] = cat
              \/ \E f \in Families : \E i \in DOMAIN cat[f] : cat[f][i].path \in gone
<1> DEFINE new == [f \in Families |-> eraseIf(cat[f], gone)]
<1>1. \A f \in Families : cat[f] \in Seq(Plugin)
  BY DEF Catalogs
<1>2. ASSUME NEW f \in Families
      PROVE  /\ new[f] \in Seq(Plugin) /\ \E h : Left(new[f], cat[f], gone, h)
             /\ (\A i \in DOMAIN cat[f] : cat[f][i].path \notin gone) => new[f] = cat[f]
  BY <1>1, EraseFacts
<1>3. new \in Catalogs
  BY <1>2 DEF Catalogs
<1>4. ASSUME \A f \in Families : \A i \in DOMAIN cat[f] : cat[f][i].path \notin gone PROVE new = cat
  <2>1. \A f \in Families : new[f] = cat[f]
    BY <1>2, <1>4
  <2> HIDE DEF new
  <2> QED BY <1>3, <2>1 DEF Catalogs
<1> HIDE DEF new
<1>5. Rest(new, cat, gone) /\ (new = cat \/ \E f \in Families : \E i \in DOMAIN cat[f] : cat[f][i].path \in gone)
  BY <1>2, <1>3, <1>4 DEF Rest
<1> QED BY <1>5 DEF new

(* Dropping everything is erasing every path.                              *)
LEMMA EmptyRest ==
    ASSUME NEW cat \in Catalogs
    PROVE  Rest(Empty, cat, Range(Paths))
<1>1. \A f \in Families : Empty[f] = <<>> /\ cat[f] \in Seq(Plugin)
  BY DEF Empty, Catalogs
<1>2. ASSUME NEW f \in Families PROVE Left(Empty[f], cat[f], Range(Paths), <<>>)
  <2>1. \A i \in DOMAIN cat[f] : cat[f][i].path \in Range(Paths)
    <3>1. \A i \in DOMAIN cat[f] : cat[f][i] \in Plugin
      BY <1>1
    <3> QED BY <3>1 DEF Plugin
  <2> QED BY <1>1, <2>1 DEF Left
<1>3. Empty \in Catalogs
  BY DEF Empty, Catalogs
<1> QED BY <1>2, <1>3 DEF Rest

(* What is left has the properties of what there was.                      *)
LEMMA RestFacts ==
    ASSUME NEW cat \in Catalogs, NEW new, NEW gone, Rest(new, cat, gone)
    PROVE  /\ Libraries(new) \subseteq Libraries(cat)
           /\ OneHome(cat) => OneHome(new)
           /\ OneEntry(cat) => OneEntry(new)
           /\ \A f \in Families : \A k \in DOMAIN new[f] :
                 new[f][k].path \notin gone /\ \E i \in DOMAIN cat[f] : new[f][k] = cat[f][i]
           /\ \A f \in Families : \A i \in DOMAIN cat[f] :
                 cat[f][i].path \notin gone => \E k \in DOMAIN new[f] : new[f][k] = cat[f][i]
           /\ OneHome(cat) => \A f \in Families : \A i \in DOMAIN cat[f] :
                 cat[f][i].path \in gone => cat[f][i].lib \notin Libraries(new)
<1>1. ASSUME NEW f \in Families, NEW k \in DOMAIN new[f]
      PROVE  new[f][k].path \notin gone /\ \E i \in DOMAIN cat[f] : new[f][k] = cat[f][i]
  BY <1>1 DEF Rest, Left
<1>2. ASSUME NEW f \in Families, NEW i \in DOMAIN cat[f], cat[f][i].path \notin gone
      PROVE  \E k \in DOMAIN new[f] : new[f][k] = cat[f][i]
  BY <1>2 DEF Rest, Left
<1>3. Libraries(new) \subseteq Libraries(cat)
  BY <1>1 DEF Libraries
<1>4. \A p : p \in UndatedIn(cat) /\ p \notin gone => p \in UndatedIn(new)
  BY <1>2 DEF UndatedIn
<1>5. ASSUME NEW f \in Families, NEW g \in Families, NEW i \in DOMAIN new[f], NEW j \in DOMAIN new[g]
      PROVE  \E a \in DOMAIN cat[f] : \E b \in DOMAIN cat[g] :
                new[f][i] = cat[f][a] /\ new[g][j] = cat[g][b] /\ (f = g /\ a = b => i = j)
  <2>1. PICK h : Left(new[f], cat[f], gone, h)
    BY DEF Rest
  <2>2. CASE f = g
    <3>1. h[i] \in DOMAIN cat[f] /\ h[j] \in DOMAIN cat[g]
      BY <2>1, <2>2 DEF Left
    <3>2. new[f][i] = cat[f][h[i]] /\ new[g][j] = cat[g][h[j]] /\ (h[i] = h[j] => i = j)
      BY <2>1, <2>2 DEF Left
    <3> QED BY <3>1, <3>2
  <2>3. CASE f # g
    BY <1>1, <2>3
  <2> QED BY <2>2, <2>3
<1>6. ASSUME OneHome(cat) PROVE OneHome(new)
  <2>1. ASSUME NEW f \in Families, NEW g \in Families, NEW i \in DOMAIN new[f], NEW j \in DOMAIN new[g],
               new[f][i].lib = new[g][j].lib
        PROVE  f = g /\ i = j
    <3>1. PICK a \in DOMAIN cat[f] : \E b \in DOMAIN cat[g] :
                new[f][i] = cat[f][a] /\ new[g][j] = cat[g][b] /\ (f = g /\ a = b => i = j)
      BY <1>5
    <3>2. PICK b \in DOMAIN cat[g] :
                new[f][i] = cat[f][a] /\ new[g][j] = cat[g][b] /\ (f = g /\ a = b => i = j)
      BY <3>1
    <3>3. f = g /\ a = b
      BY <1>6, <2>1, <3>2 DEF OneHome
    <3> QED BY <3>2, <3>3
  <2> QED BY <2>1 DEF OneHome
<1>7. ASSUME OneEntry(cat) PROVE OneEntry(new)
  <2>1. ASSUME NEW f \in Families, NEW g \in Families, NEW i \in DOMAIN new[f], NEW j \in DOMAIN new[g],
               new[f][i].path = new[g][j].path, new[f][i].path \notin UndatedIn(new)
        PROVE  f = g /\ i = j
    <3>1. PICK a \in DOMAIN cat[f] : \E b \in DOMAIN cat[g] :
                new[f][i] = cat[f][a] /\ new[g][j] = cat[g][b] /\ (f = g /\ a = b => i = j)
      BY <1>5
    <3>2. PICK b \in DOMAIN cat[g] :
                new[f][i] = cat[f][a] /\ new[g][j] = cat[g][b] /\ (f = g /\ a = b => i = j)
      BY <3>1
    <3>3. cat[f][a].path \notin UndatedIn(cat)
      BY <1>1, <1>4, <2>1, <3>2
    <3>4. f = g /\ a = b
      BY <1>7, <2>1, <3>2, <3>3 DEF OneEntry
    <3> QED BY <3>2, <3>4
  <2> QED BY <2>1 DEF OneEntry
<1>8. ASSUME OneHome(cat), NEW f \in Families, NEW i \in DOMAIN cat[f], cat[f][i].path \in gone
      PROVE  cat[f][i].lib \notin Libraries(new)
  <2> SUFFICES ASSUME cat[f][i].lib \in Libraries(new) PROVE FALSE
    OBVIOUS
  <2>1. PICK g \in Families : \E k \in DOMAIN new[g] : cat[f][i].lib = new[g][k].lib
    BY DEF Libraries
  <2>2. PICK k \in DOMAIN new[g] : cat[f][i].lib = new[g][k].lib
    BY <2>1
  <2>3. PICK j \in DOMAIN cat[g] : new[g][k] = cat[g][j]
    BY <1>1
  <2>4. f = g /\ i = j
    BY <1>8, <2>2, <2>3 DEF OneHome
  <2> QED BY <1>1, <1>8, <2>3, <2>4
<1> QED BY <1>1, <1>2, <1>3, <1>6, <1>7, <1>8

(* new is cat with the entry e at the end of family f0.                    *)
Added(new, cat, f0, e) ==
    /\ new \in Catalogs
    /\ \A f \in Families : \A i \in DOMAIN cat[f] : i \in DOMAIN new[f] /\ new[f][i] = cat[f][i]
    /\ \A f \in Families : \A k \in DOMAIN new[f] :
          k \in DOMAIN cat[f] \/ (f = f0 /\ k = Len(cat[f0]) + 1)
    /\ Len(cat[f0]) + 1 \in DOMAIN new[f0] /\ new[f0][Len(cat[f0]) + 1] = e

(* push_back.                                                              *)
LEMMA AppendAdds ==
    ASSUME NEW cat \in Catalogs, NEW f0 \in Families, NEW e \in Plugin
    PROVE  Added([cat EXCEPT ![f0] = Append(@, e)], cat, f0, e)
<1> DEFINE v == Append(cat[f0], e)
           new == [cat EXCEPT ![f0] = v]
           n == Len(cat[f0])
<1>1. cat \in [Families -> Seq(Plugin)] /\ cat[f0] \in Seq(Plugin)
  BY DEF Catalogs
<1>2. /\ v \in Seq(Plugin) /\ n \in Nat /\ DOMAIN v = 1 .. n + 1 /\ DOMAIN cat[f0] = 1 .. n
      /\ v[n + 1] = e /\ \A i \in 1 .. n : v[i] = cat[f0][i]
  BY <1>1
<1> HIDE DEF v, n
<1>3. /\ new \in Catalogs /\ new[f0] = v
      /\ \A f \in Families : f # f0 => new[f] = cat[f]
  BY <1>1, <1>2 DEF Catalogs
<1> HIDE DEF new
<1>4. ASSUME NEW f \in Families, NEW i \in DOMAIN cat[f]
      PROVE  i \in DOMAIN new[f] /\ new[f][i] = cat[f][i]
  <2>1. CASE f = f0
    <3>1. i \in 1 .. n /\ i \in 1 .. n + 1
      BY <1>2, <2>1
    <3> QED BY <1>2, <1>3, <2>1, <3>1
  <2>2. CASE f # f0
    BY <1>3, <2>2
  <2> QED BY <2>1, <2>2
<1>5. ASSUME NEW f \in Families, NEW k \in DOMAIN new[f]
      PROVE  k \in DOMAIN cat[f] \/ (f = f0 /\ k = n + 1)
  <2>1. CASE f = f0
    <3>1. k \in 1 .. n + 1
      BY <1>2, <1>3, <2>1
    <3>2. k \in 1 .. n \/ k = n + 1
      BY <1>2, <3>1
    <3> QED BY <1>2, <2>1, <3>2
  <2>2. CASE f # f0
    BY <1>3, <2>2
  <2> QED BY <2>1, <2>2
<1>6. n + 1 \in DOMAIN new[f0] /\ new[f0][n + 1] = e
  BY <1>2, <1>3
<1> QED BY <1>3, <1>4, <1>5, <1>6 DEF Added, new, v, n

(* An entry of a path that is new, or that the catalog takes for not       *)
(* loaded, with a library of its own.                                      *)
LEMMA AddedFacts ==
    ASSUME NEW cat \in Catalogs, NEW f0 \in Families, NEW e \in Plugin, NEW new,
           Added(new, cat, f0, e)
    PROVE  /\ Libraries(new) = Libraries(cat) \cup {e.lib}
           /\ OneHome(cat) /\ e.lib \notin Libraries(cat) => OneHome(new)
           /\ OneEntry(cat)
              /\ (\/ e.path \in UndatedIn(cat)
                  \/ \A f \in Families : \A i \in DOMAIN cat[f] : cat[f][i].path # e.path)
              => OneEntry(new)
<1> DEFINE n == Len(cat[f0]) + 1
<1>1. /\ \A f \in Families : \A i \in DOMAIN cat[f] : i \in DOMAIN new[f] /\ new[f][i] = cat[f][i]
      /\ \A f \in Families : \A k \in DOMAIN new[f] :
            (k \in DOMAIN cat[f] /\ new[f][k] = cat[f][k]) \/ (f = f0 /\ k = n /\ new[f][k] = e)
      /\ n \in DOMAIN new[f0] /\ new[f0][n] = e
  BY DEF Added
<1> HIDE DEF n
<1>2. Libraries(new) = Libraries(cat) \cup {e.lib}
  <2>1. ASSUME NEW l \in Libraries(new) PROVE l \in Libraries(cat) \cup {e.lib}
    <3>1. PICK f \in Families : \E k \in DOMAIN new[f] : l = new[f][k].lib
      BY DEF Libraries
    <3>2. PICK k \in DOMAIN new[f] : l = new[f][k].lib
      BY <3>1
    <3> QED BY <1>1, <3>2 DEF Libraries
  <2>2. ASSUME NEW l \in Libraries(cat) PROVE l \in Libraries(new)
    <3>1. PICK f \in Families : \E k \in DOMAIN cat[f] : l = cat[f][k].lib
      BY DEF Libraries
    <3>2. PICK k \in DOMAIN cat[f] : l = cat[f][k].lib
      BY <3>1
    <3> QED BY <1>1, <3>2 DEF Libraries
  <2>3. e.lib \in Libraries(new)
    BY <1>1 DEF Libraries
  <2> QED BY <2>1, <2>2, <2>3
<1>3. ASSUME OneHome(cat), e.lib \notin Libraries(cat) PROVE OneHome(new)
  <2>1. ASSUME NEW f \in Families, NEW g \in Families, NEW i \in DOMAIN new[f], NEW j \in DOMAIN new[g],
               new[f][i].lib = new[g][j].lib
        PROVE  f = g /\ i = j
    <3>1. \A h \in Families : \A k \in DOMAIN cat[h] : cat[h][k].lib # e.lib
      BY <1>3 DEF Libraries
    <3>2. CASE i \in DOMAIN cat[f] /\ new[f][i] = cat[f][i]
      <4>1. j \in DOMAIN cat[g] /\ new[g][j] = cat[g][j]
        BY <1>1, <2>1, <3>1, <3>2
      <4> QED BY <1>3, <2>1, <3>2, <4>1 DEF OneHome
    <3>3. CASE f = f0 /\ i = n /\ new[f][i] = e
      <4>1. g = f0 /\ j = n
        BY <1>1, <2>1, <3>1, <3>3
      <4> QED BY <3>3, <4>1
    <3> QED BY <1>1, <3>2, <3>3
  <2> QED BY <2>1 DEF OneHome
<1>4. ASSUME OneEntry(cat),
             \/ e.path \in UndatedIn(cat)
             \/ \A f \in Families : \A i \in DOMAIN cat[f] : cat[f][i].path # e.path
      PROVE  OneEntry(new)
  <2>0. UndatedIn(cat) \subseteq UndatedIn(new)
    <3>1. ASSUME NEW p \in UndatedIn(cat) PROVE p \in UndatedIn(new)
      <4>1. PICK f \in Families : \E k \in DOMAIN cat[f] : cat[f][k].mtime = 0 /\ p = cat[f][k].path
        BY DEF UndatedIn
      <4>2. PICK k \in DOMAIN cat[f] : cat[f][k].mtime = 0 /\ p = cat[f][k].path
        BY <4>1
      <4>3. k \in DOMAIN new[f] /\ new[f][k].mtime = 0 /\ p = new[f][k].path
        BY <1>1, <4>2
      <4> QED BY <4>3 DEF UndatedIn
    <3> QED BY <3>1
  <2>1. ASSUME NEW f \in Families, NEW g \in Families, NEW i \in DOMAIN new[f], NEW j \in DOMAIN new[g],
               new[f][i].path = new[g][j].path, new[f][i].path \notin UndatedIn(new)
        PROVE  f = g /\ i = j
    <3>1. new[f][i].path = e.path => \A h \in Families : \A k \in DOMAIN cat[h] : cat[h][k].path # e.path
      BY <1>4, <2>0, <2>1
    <3>2. CASE i \in DOMAIN cat[f] /\ new[f][i] = cat[f][i]
      <4>1. j \in DOMAIN cat[g] /\ new[g][j] = cat[g][j]
        BY <1>1, <2>1, <3>1, <3>2
      <4>2. cat[f][i].path \notin UndatedIn(cat)
        BY <2>0, <2>1, <3>2
      <4> QED BY <1>4, <2>1, <3>2, <4>1, <4>2 DEF OneEntry
    <3>3. CASE f = f0 /\ i = n /\ new[f][i] = e
      <4>1. g = f0 /\ j = n
        BY <1>1, <2>1, <3>1, <3>3
      <4> QED BY <3>3, <4>1
    <3> QED BY <1>1, <3>2, <3>3
  <2> QED BY <2>1 DEF OneEntry
<1> QED BY <1>2, <1>3, <1>4

-----------------------------------------------------------------------------
(* Libraries and their owners. *)

(* Every entry has the library of its path, which exports its family.      *)
Backed(cat) ==
    \A f \in Families : \A i \in DOMAIN cat[f] :
        /\ cat[f][i].lib \in DOMAIN libs
        /\ cat[f][i].path = libs[cat[f][i].lib].path
        /\ f \in Image[libs[cat[f][i].lib].image].exports

(* The shared_ptr of a library has an owner per entry and per handle.      *)
Counts(n, cat) ==
    \A l \in DOMAIN libs : n[l] = (IF l \in Libraries(cat) THEN 1 ELSE 0) + (IF l \in handles THEN 1 ELSE 0)

Library == [path : Range(Paths), image : 1 .. Len(Image)]

Owned ==
    /\ libs \in Seq(Library) /\ Len(libs) <= MaxLibs
    /\ catalog \in Catalogs /\ Backed(catalog)
    /\ uses \in [DOMAIN libs -> Nat] /\ handles \subseteq DOMAIN libs
    /\ Counts(uses, catalog)
    /\ open = Libraries(catalog) \cup handles
    /\ OneHome(catalog)

(* The libraries of a catalog are loaded ones.                             *)
LEMMA BackedLibraries ==
    ASSUME NEW cat, Backed(cat)
    PROVE  Libraries(cat) \subseteq DOMAIN libs
BY DEF Backed, Libraries

(* The owners that are left when entries leave the catalog, and what the   *)
(* last ones close.                                                        *)
LEMMA ReleaseFacts ==
    ASSUME Owned, NEW cat, Libraries(cat) \subseteq Libraries(catalog)
    PROVE  LET counts == Released(Libraries(catalog) \ Libraries(cat))
           IN  /\ counts \in [DOMAIN libs -> Nat]
               /\ Counts(counts, cat)
               /\ StillOpen(counts) = Libraries(cat) \cup handles
<1> DEFINE gone == Libraries(catalog) \ Libraries(cat)
           counts == Released(gone)
<1>1. /\ uses \in [DOMAIN libs -> Nat] /\ Libraries(catalog) \subseteq DOMAIN libs
      /\ handles \subseteq DOMAIN libs /\ open = Libraries(catalog) \cup handles
      /\ \A l \in DOMAIN libs : uses[l] = (IF l \in Libraries(catalog) THEN 1 ELSE 0)
                                          + (IF l \in handles THEN 1 ELSE 0)
  BY BackedLibraries DEF Owned, Counts
<1>2. ASSUME NEW l \in DOMAIN libs
      PROVE  /\ counts[l] = IF l \in gone THEN uses[l] - 1 ELSE uses[l]
             /\ counts[l] = (IF l \in Libraries(cat) THEN 1 ELSE 0) + (IF l \in handles THEN 1 ELSE 0)
             /\ counts[l] \in Nat
  <2>1. counts[l] = IF l \in gone THEN uses[l] - 1 ELSE uses[l]
    BY <1>1 DEF Released
  <2>2. uses[l] = (IF l \in Libraries(catalog) THEN 1 ELSE 0) + (IF l \in handles THEN 1 ELSE 0)
    BY <1>1
  <2> HIDE DEF counts
  <2>3. CASE l \in Libraries(cat)
    BY <2>1, <2>2, <2>3
  <2>4. CASE l \notin Libraries(cat)
    BY <2>1, <2>2, <2>4
  <2> QED BY <2>1, <2>3, <2>4
<1>3. counts \in [DOMAIN libs -> Nat]
  <2>1. counts = [l \in DOMAIN libs |-> IF l \in gone THEN uses[l] - 1 ELSE uses[l]]
    BY <1>1 DEF Released
  <2>2. \A l \in DOMAIN libs : (IF l \in gone THEN uses[l] - 1 ELSE uses[l]) \in Nat
    BY <1>2
  <2> HIDE DEF counts, gone
  <2> QED BY <2>1, <2>2
<1>4. StillOpen(counts) = Libraries(cat) \cup handles
  <2>1. \A l \in DOMAIN libs : counts[l] > 0 <=> l \in Libraries(cat) \cup handles
    <3> HIDE DEF counts
    <3> QED BY <1>2
  <2>2. StillOpen(counts) = {l \in open : counts[l] > 0}
    BY DEF StillOpen
  <2> HIDE DEF counts
  <2> QED BY <1>1, <2>1, <2>2
<1> HIDE DEF counts
<1>5. counts \in [DOMAIN libs -> Nat] /\ Counts(counts, cat) /\ StillOpen(counts) = Libraries(cat) \cup handles
  BY <1>2, <1>3, <1>4 DEF Counts
<1> QED BY <1>5 DEF counts

(* What dlopen returns is an image, or there is no file.                   *)
LEMMA DlopenType ==
    ASSUME NEW mapped \in SUBSET DOMAIN libs, NEW p \in Range(Paths), libs \in Seq(Library),
           disk \in [Range(Paths) -> [image : 0 .. Len(Image), mtime : 0 .. MaxSteps]]
    PROVE  dlopen(mapped, p) \in 0 .. Len(Image)
           /\ (disk[p].image # 0 => dlopen(mapped, p) \in 1 .. Len(Image))
<1> DEFINE same == {l \in mapped : libs[l].path = p}
<1>0. Len(Image) \in Nat /\ disk[p].image \in 0 .. Len(Image)
  BY RuntimeAssumption
<1>1. CASE same # {}
  <2>1. (CHOOSE l \in same : TRUE) \in same
    BY <1>1
  <2>2. libs[CHOOSE l \in same : TRUE] \in Library
    BY <2>1
  <2>3. libs[CHOOSE l \in same : TRUE].image \in 1 .. Len(Image)
    BY <2>2 DEF Library
  <2>4. dlopen(mapped, p) = libs[CHOOSE l \in same : TRUE].image
    BY <1>1 DEF dlopen
  <2> QED BY <1>0, <2>3, <2>4
<1>2. CASE same = {}
  <2>1. dlopen(mapped, p) = disk[p].image
    BY <1>2 DEF dlopen
  <2> QED BY <1>0, <2>1
<1> QED BY <1>1, <1>2

-----------------------------------------------------------------------------
(* Loading and scanning. *)

DiskOK == disk \in [Range(Paths) -> [image : 0 .. Len(Image), mtime : 0 .. MaxSteps]]

(* What is left of a catalog is backed by the same libraries.              *)
LEMMA RestBacked ==
    ASSUME catalog \in Catalogs, Backed(catalog), NEW cat, NEW gone, Rest(cat, catalog, gone)
    PROVE  Backed(cat)
<1>1. \A f \in Families : \A k \in DOMAIN cat[f] : \E i \in DOMAIN catalog[f] : cat[f][k] = catalog[f][i]
  BY RestFacts
<1> QED BY <1>1 DEF Backed

(* Entries leave the catalog.                                              *)
LEMMA BecomesStep ==
    ASSUME Owned, NEW cat, NEW gone, Rest(cat, catalog, gone), Becomes(cat), handles' = handles
    PROVE  Owned' /\ catalog' = cat /\ libs' = libs
<1>1. cat \in Catalogs /\ Libraries(cat) \subseteq Libraries(catalog) /\ OneHome(cat) /\ Backed(cat)
  BY RestFacts, RestBacked DEF Owned, Rest
<1> DEFINE counts == Released(Libraries(catalog) \ Libraries(cat))
<1>2. /\ counts \in [DOMAIN libs -> Nat] /\ Counts(counts, cat)
      /\ StillOpen(counts) = Libraries(cat) \cup handles
  BY <1>1, ReleaseFacts
<1>3. catalog' = cat /\ uses' = counts /\ open' = StillOpen(counts) /\ libs' = libs
  BY DEF Becomes
<1> HIDE DEF counts
<1>4. Backed(catalog)' /\ Counts(uses, catalog)' /\ OneHome(catalog)' /\ (Libraries(catalog))' = Libraries(cat)
  <2>1. Backed(catalog)'
    BY <1>1, <1>3 DEF Backed
  <2>2. Libraries(catalog)' = Libraries(cat)
    BY <1>3
  <2>3. Counts(uses, catalog)'
    BY <1>2, <1>3 DEF Counts
  <2>4. OneHome(catalog)'
    BY <1>1, <1>3
  <2> QED BY <2>1, <2>2, <2>3, <2>4
<1> QED BY <1>1, <1>2, <1>3, <1>4 DEF Owned

(* Entries leave the catalog, and the descriptor's file is loaded if it    *)
(* can be.                                                                 *)
LEMMA LoadStep ==
    ASSUME Owned, DiskOK, NEW cat, NEW gone, Rest(cat, catalog, gone), NEW d \in Descriptor,
           loadAndRegister(cat, d), handles' = handles
    PROVE  /\ Owned'
           /\ \/ catalog' = cat /\ libs' = libs
              \/ /\ Len(libs') = Len(libs) + 1 /\ d.family \in Families
                 /\ \E e \in Plugin : /\ e.path = d.path /\ e.lib = Len(libs) + 1
                                      /\ e.mtime = disk[d.path].mtime
                                      /\ Added(catalog', cat, d.family, e)
<1> DEFINE counts == Released(Libraries(catalog) \ Libraries(cat))
           img == dlopen(StillOpen(counts), d.path)
           l == Len(libs) + 1
           lib == [path |-> d.path, image |-> img]
           e == [path |-> d.path, descr |-> d.image, lib |-> l, mtime |-> disk[d.path].mtime]
<1>1. CASE ~loads(img, d.family)
  <2>1. Becomes(cat)
    BY <1>1 DEF loadAndRegister
  <2> QED BY <2>1, BecomesStep
<1>2. CASE loads(img, d.family)
  <2>1. cat \in Catalogs /\ Libraries(cat) \subseteq Libraries(catalog) /\ OneHome(cat) /\ Backed(cat)
    BY RestFacts, RestBacked DEF Owned, Rest
  <2>2. /\ counts \in [DOMAIN libs -> Nat] /\ Counts(counts, cat)
        /\ StillOpen(counts) = Libraries(cat) \cup handles
    BY <2>1, ReleaseFacts
  <2>3. /\ l <= MaxLibs /\ libs' = Append(libs, lib)
        /\ catalog' = [cat EXCEPT ![d.family] = Append(@, e)]
        /\ uses' = Append(counts, 1) /\ open' = StillOpen(counts) \cup {l}
    BY <1>2 DEF loadAndRegister
  <2>4. d.path \in Range(Paths) /\ d.image \in 1 .. Len(Image) /\ disk[d.path].mtime \in 0 .. MaxSteps
    BY DEF Descriptor, DiskOK
  <2>5. /\ libs \in Seq(Library) /\ Len(libs) \in Nat /\ DOMAIN libs = 1 .. Len(libs)
        /\ handles \subseteq DOMAIN libs /\ Libraries(cat) \subseteq DOMAIN libs
    BY <2>1, BackedLibraries DEF Owned
  <2>6. img \in 1 .. Len(Image) /\ d.family \in Families /\ d.family \in Image[img].exports
    <3>1. StillOpen(counts) \in SUBSET DOMAIN libs
      BY <2>2, <2>5
    <3>2. img \in 0 .. Len(Image)
      <4> HIDE DEF counts
      <4> QED BY <2>4, <2>5, <3>1, DlopenType DEF DiskOK
    <3>3. img # 0 /\ d.family \in Families /\ d.family \in Image[img].exports
      BY <1>2 DEF loads
    <3>4. Len(Image) \in Nat
      BY RuntimeAssumption
    <3> HIDE DEF img
    <3> QED BY <3>2, <3>3, <3>4
  <2> HIDE DEF counts, img
  <2>7. lib \in Library /\ lib.path = d.path /\ lib.image = img
    BY <2>4, <2>6 DEF Library
  <2>8. e \in Plugin /\ e.path = d.path /\ e.lib = l /\ e.mtime = disk[d.path].mtime
    <3>1. l \in 1 .. MaxLibs
      BY <2>3, <2>5, RuntimeAssumption
    <3> QED BY <2>4, <3>1 DEF Plugin
  <2> HIDE DEF lib, e
  <2>9. Added(catalog', cat, d.family, e)
    BY <2>1, <2>3, <2>6, <2>8, AppendAdds
  <2>10. /\ libs' \in Seq(Library) /\ Len(libs') = l /\ DOMAIN libs' = 1 .. l /\ l \in 1 .. l
         /\ libs'[l] = lib /\ \A k \in DOMAIN libs : k \in DOMAIN libs' /\ libs'[k] = libs[k] /\ k # l
         /\ \A k \in DOMAIN libs' : k \in DOMAIN libs \/ k = l
    BY <2>3, <2>5, <2>7
  <2>11. /\ uses' \in [DOMAIN libs' -> Nat] /\ uses'[l] = 1
         /\ \A k \in DOMAIN libs : uses'[k] = counts[k]
    <3>1. counts \in Seq(Nat) /\ Len(counts) = Len(libs)
      BY <2>2, <2>5
    <3>2. /\ uses' \in Seq(Nat) /\ Len(uses') = l /\ uses'[l] = 1
          /\ \A k \in 1 .. Len(libs) : uses'[k] = counts[k]
      BY <2>3, <3>1
    <3> QED BY <2>5, <2>10, <3>2
  <2>12. Libraries(catalog') = Libraries(cat) \cup {l} /\ OneHome(catalog') /\ l \notin Libraries(cat)
    <3>1. l \notin DOMAIN libs
      BY <2>5
    <3>2. l \notin Libraries(cat)
      BY <2>5, <3>1
    <3> HIDE DEF l
    <3> QED BY <2>1, <2>6, <2>8, <2>9, <3>2, AddedFacts
  <2>13. Backed(catalog)'
    <3>1. ASSUME NEW f \in Families, NEW i \in DOMAIN catalog'[f]
          PROVE  /\ catalog'[f][i].lib \in DOMAIN libs'
                 /\ catalog'[f][i].path = libs'[catalog'[f][i].lib].path
                 /\ f \in Image[libs'[catalog'[f][i].lib].image].exports
      <4>1. CASE i \in DOMAIN cat[f]
        <5>1. catalog'[f][i] = cat[f][i]
          BY <2>9, <4>1 DEF Added
        <5>2. /\ cat[f][i].lib \in DOMAIN libs /\ cat[f][i].path = libs[cat[f][i].lib].path
              /\ f \in Image[libs[cat[f][i].lib].image].exports
          BY <2>1, <4>1 DEF Backed
        <5>3. libs'[cat[f][i].lib] = libs[cat[f][i].lib] /\ cat[f][i].lib \in DOMAIN libs'
          BY <2>10, <5>2
        <5> QED BY <5>1, <5>2, <5>3
      <4>2. CASE i \notin DOMAIN cat[f]
        <5>1. f = d.family /\ catalog'[f][i] = e
          BY <2>9, <4>2 DEF Added
        <5>2. e.lib \in DOMAIN libs' /\ libs'[e.lib] = lib
          BY <2>8, <2>10
        <5> QED BY <2>6, <2>7, <2>8, <5>1, <5>2
      <4> QED BY <4>1, <4>2
    <3> QED BY <3>1 DEF Backed
  <2> HIDE DEF l
  <2>14. Counts(uses, catalog)'
    <3>1. ASSUME NEW k \in DOMAIN libs'
          PROVE  uses'[k] = (IF k \in Libraries(catalog') THEN 1 ELSE 0) + (IF k \in handles' THEN 1 ELSE 0)
      <4>1. CASE k \in DOMAIN libs
        <5>1. k # l /\ uses'[k] = counts[k]
          BY <2>10, <2>11, <4>1
        <5>2. counts[k] = (IF k \in Libraries(cat) THEN 1 ELSE 0) + (IF k \in handles THEN 1 ELSE 0)
          BY <2>2, <4>1 DEF Counts
        <5>3. k \in Libraries(catalog') <=> k \in Libraries(cat)
          BY <2>12, <5>1
        <5> QED BY <5>1, <5>2, <5>3
      <4>2. CASE k = l
        <5>1. k \notin handles /\ k \in Libraries(catalog')
          BY <2>5, <2>10, <2>12, <4>2
        <5> QED BY <2>11, <4>2, <5>1
      <4> QED BY <2>10, <4>1, <4>2
    <3> QED BY <3>1 DEF Counts
  <2>15. open' = Libraries(catalog') \cup handles' /\ handles' \subseteq DOMAIN libs'
    BY <2>2, <2>3, <2>5, <2>10, <2>12
  <2>16. Owned'
    <3>1. catalog' \in Catalogs
      BY <2>9 DEF Added
    <3>2. Len(libs') <= MaxLibs
      BY <2>3, <2>10
    <3> QED BY <2>10, <2>11, <2>12, <2>13, <2>14, <2>15, <3>1, <3>2 DEF Owned
  <2> QED BY <2>6, <2>8, <2>9, <2>10, <2>16 DEF l
<1> QED BY <1>1, <1>2

(* The least place of a nonempty set of places.                            *)
LEMMA MinPlace ==
    ASSUME NEW S \in SUBSET Nat, S # {}
    PROVE  Min(S) \in S
<1>1. \E x \in S : \A y \in S : x <= y
  BY LeastNatural
<1> QED BY <1>1 DEF Min

(* A file has one descriptor or none.                                      *)
LEMMA DescriptorFacts ==
    ASSUME libs \in Seq(Library), DiskOK, NEW mapped \in SUBSET DOMAIN libs, NEW p \in Range(Paths)
    PROVE  descriptor(mapped, p) = <<>>
           \/ \E t \in Descriptor : t.path = p /\ descriptor(mapped, p) = <<t>>
<1> DEFINE img == dlopen(mapped, p)
           family == inspectPluginDso(img)
           t == [path |-> p, family |-> Head(family), image |-> img]
<1>1. CASE DirOf[p] # dir \/ disk[p].image = 0 \/ family = <<>>
  BY <1>1 DEF descriptor
<1>2. CASE ~(DirOf[p] # dir \/ disk[p].image = 0 \/ family = <<>>)
  <2>1. img \in 1 .. Len(Image)
    BY <1>2, DlopenType DEF DiskOK
  <2>2. Head(family) \in Range(Probed)
    <3> DEFINE found == findEmbeddedManifest(img)
    <3>1. found # {} /\ family = <<Probed[Min(found)]>>
      BY <1>2 DEF inspectPluginDso
    <3>2. found \in SUBSET DOMAIN Probed /\ DOMAIN Probed \in SUBSET Nat
      BY DEF findEmbeddedManifest, Probed
    <3> HIDE DEF found
    <3>3. Min(found) \in DOMAIN Probed
      BY <3>1, <3>2, MinPlace
    <3> QED BY <3>1, <3>3 DEF Range
  <2>3. descriptor(mapped, p) = <<t>>
    BY <1>2 DEF descriptor
  <2> HIDE DEF img, family
  <2>4. t \in Descriptor /\ t.path = p
    BY <2>1, <2>2 DEF Descriptor
  <2> QED BY <2>3, <2>4
<1> QED BY <1>1, <1>2

PathsApart(descriptors) ==
    \A i, j \in DOMAIN descriptors : descriptors[i].path = descriptors[j].path => i = j

(* A scan finds each path that it reaches and that has a descriptor once,  *)
(* and no other.                                                           *)
LEMMA ScanFacts ==
    ASSUME libs \in Seq(Library), DiskOK, NEW mapped \in SUBSET DOMAIN libs, NEW missed
    PROVE  /\ scanPluginDsos(mapped, missed) \in Seq(Descriptor) /\ PathsApart(scanPluginDsos(mapped, missed))
           /\ \A k \in DOMAIN scanPluginDsos(mapped, missed) :
                 descriptor(mapped, scanPluginDsos(mapped, missed)[k].path) = <<scanPluginDsos(mapped, missed)[k]>>
           /\ \A p \in Range(Paths) : p \notin missed /\ descriptor(mapped, p) # <<>> =>
                 \E k \in DOMAIN scanPluginDsos(mapped, missed) : scanPluginDsos(mapped, missed)[k].path = p
<1> DEFINE n == Len(Paths)
           found(i) == IF Paths[i] \in missed THEN <<>> ELSE descriptor(mapped, Paths[i])
           ss == [i \in 1 .. n |-> found(i)]
           q == FlattenSeq(ss)
<1>0. /\ n \in Nat /\ DOMAIN Paths = 1 .. n /\ \A i \in 1 .. n : Paths[i] \in Range(Paths)
      /\ \A i, j \in 1 .. n : Paths[i] = Paths[j] => i = j
  BY RuntimeAssumption DEF IsInjective
<1>1. q = scanPluginDsos(mapped, missed)
  BY <1>0 DEF scanPluginDsos
<1>2. \A i \in 1 .. n : found(i) = <<>>
           \/ \E t \in Descriptor : t.path = Paths[i] /\ found(i) = <<t>>
  BY <1>0, DescriptorFacts
<1>3. ASSUME NEW i \in 1 .. n PROVE found(i) \in Seq(Descriptor)
  <2> DEFINE x == found(i)
  <2>1. x = <<>> \/ \E t \in Descriptor : x = <<t>>
    BY <1>2
  <2> HIDE DEF x
  <2>2. x \in Seq(Descriptor)
    <3>1. CASE x = <<>>
      BY <3>1
    <3>2. CASE \E t \in Descriptor : x = <<t>>
      <4>1. PICK t \in Descriptor : x = <<t>>
        BY <3>2
      <4>2. <<t>> \in Seq(Descriptor)
        OBVIOUS
      <4> QED BY <4>1, <4>2
    <3> QED BY <2>1, <3>1, <3>2
  <2> QED BY <2>2 DEF x
<1> HIDE DEF n
<1>4. ss \in Seq(Seq(Descriptor)) /\ Len(ss) = n /\ \A i \in 1 .. n : ss[i] = found(i)
  BY <1>0, <1>3
<1> HIDE DEF ss
<1>5. \A i \in 1 .. Len(ss) : ss[i] = <<>> \/ \E t \in Descriptor : ss[i] = <<t>>
  BY <1>2, <1>4
<1>6. q \in Seq(Descriptor) /\ \E h : PickedBy(h, q, ss, n)
  BY <1>4, <1>5, Picked
<1>7. PICK h : PickedBy(h, q, ss, n)
  BY <1>6
<1> HIDE DEF q
<1>8. DOMAIN q = 1 .. Len(q)
  BY <1>6
<1>9. ASSUME NEW k \in DOMAIN q PROVE h[k] \in 1 .. n /\ q[k].path = Paths[h[k]]
  <2>1. h[k] \in 1 .. n /\ ss[h[k]] = <<q[k]>>
    BY <1>7, <1>8 DEF PickedBy
  <2>2. ss[h[k]] # <<>>
    BY <2>1
  <2>3. PICK t \in Descriptor : t.path = Paths[h[k]] /\ ss[h[k]] = <<t>>
    BY <1>2, <1>4, <2>1, <2>2
  <2> QED BY <2>1, <2>3
<1>10. \A k, m \in DOMAIN q : h[k] = h[m] => k = m
  BY <1>7, <1>8 DEF PickedBy
<1>11. PathsApart(q)
  BY <1>0, <1>9, <1>10 DEF PathsApart
<1>12. ASSUME NEW k \in DOMAIN q PROVE descriptor(mapped, q[k].path) = <<q[k]>>
  <2>0. ss[h[k]] = <<q[k]>>
    BY <1>7, <1>8 DEF PickedBy
  <2>1. ss[h[k]] = <<q[k]>> /\ ss[h[k]] # <<>>
    BY <2>0
  <2>2. found(h[k]) = descriptor(mapped, Paths[h[k]])
    BY <1>4, <1>9, <2>1
  <2> QED BY <1>4, <1>9, <2>1, <2>2
<1>13. ASSUME NEW p \in Range(Paths), p \notin missed, descriptor(mapped, p) # <<>> PROVE \E k \in DOMAIN q : q[k].path = p
  <2>1. PICK i \in 1 .. n : p = Paths[i]
    BY <1>0 DEF Range
  <2>2. PICK k \in DOMAIN q : h[k] = i
    BY <1>4, <1>7, <1>8, <1>13, <2>1 DEF PickedBy
  <2> QED BY <1>9, <2>1, <2>2
<1> QED BY <1>1, <1>6, <1>11, <1>12, <1>13

-----------------------------------------------------------------------------
(* The inductive invariant. *)

PathsOf(cat) == UNION {{cat[f][i].path : i \in DOMAIN cat[f]} : f \in Families}

(* While a scan runs, what it has still to load is not loaded.             *)
ScanFresh == op = "scan" => \A k \in DOMAIN plan : plan[k].path \notin PathsOf(catalog)

(* While a reload runs, what it loaded stays: its path is not looked at    *)
(* again.                                                                  *)
NewStays ==
    op = "reload" =>
        \A f \in Families : \A i \in DOMAIN catalog[f] : \A k \in DOMAIN plan :
            catalog[f][i].lib \notin Libraries(before) => catalog[f][i].path # plan[k].path

(* While a reload runs: without a change the catalog is what it was; with  *)
(* one it has lost a library or has a new one.                             *)
Reported ==
    op = "reload" =>
        /\ Libraries(before) \subseteq DOMAIN libs
        /\ ~changed => catalog = before
        /\ changed => Libraries(catalog) # Libraries(before)

(* The rest of the state.                                                  *)
RestOK ==
    /\ DiskOK
    /\ dir \in Dirs /\ before \in Catalogs
    /\ op \in {"idle", "scan", "reload"}
    /\ changed \in BOOLEAN /\ settled \in BOOLEAN /\ replaced \subseteq Range(Paths)
    /\ steps \in 0 .. MaxSteps

PlanOK == plan \in Seq(Descriptor) /\ PathsApart(plan)

IndInv == RestOK /\ Owned /\ PlanOK /\ OneEntry(catalog) /\ ScanFresh /\ NewStays /\ Reported

(* The invariant gives the properties.                                     *)
LEMMA InvGives == IndInv => LoadedWhileOwned /\ OneEntryPerPath /\ ReloadReportsChange
<1> SUFFICES ASSUME IndInv PROVE LoadedWhileOwned /\ OneEntryPerPath /\ ReloadReportsChange
  OBVIOUS
<1>1. TypeOK
  <2>1. open \subseteq DOMAIN libs
    BY BackedLibraries DEF IndInv, Owned
  <2> QED BY <2>1 DEF IndInv, RestOK, DiskOK, PlanOK, Owned, Library, Catalogs, Backed, TypeOK
<1>2. OneEntryPerPath
  BY DEF IndInv, OneEntry, OneEntryPerPath, Undated, UndatedIn
<1>3. ReloadReportsChange
  <2> SUFFICES ASSUME op = "reload" PROVE changed = (catalog # before)
    BY DEF ReloadReportsChange
  <2>1. changed \in BOOLEAN /\ (~changed => catalog = before) /\ (changed => Libraries(catalog) # Libraries(before))
    BY DEF IndInv, RestOK, Reported
  <2>2. changed => catalog # before
    BY <2>1
  <2> QED BY <2>1, <2>2
<1> QED BY <1>1, <1>2, <1>3 DEF LoadedWhileOwned, IndInv, Owned

(* The catalog starts empty.                                               *)
LEMMA InvInit == Init => IndInv
<1> SUFFICES ASSUME Init PROVE IndInv
  OBVIOUS
<1>1. catalog = Empty /\ (\A f \in Families : catalog[f] = <<>>) /\ catalog \in Catalogs
  BY DEF Init, Empty, Catalogs
<1>2. Libraries(catalog) = {}
  BY <1>1 DEF Libraries
<1>3. RestOK
  <2>1. disk = [p \in Range(Paths) |-> NoFile] /\ NoFile \in [image : 0 .. Len(Image), mtime : 0 .. MaxSteps]
    BY RuntimeAssumption DEF Init, NoFile
  <2>2. DiskOK
    BY <2>1 DEF DiskOK
  <2>3. dir \in Dirs /\ steps \in 0 .. MaxSteps
    BY RuntimeAssumption DEF Init
  <2>4. before \in Catalogs
    BY <1>1 DEF Init
  <2>5. changed \in BOOLEAN /\ settled \in BOOLEAN /\ replaced \subseteq Range(Paths)
    BY DEF Init
  <2> QED BY <2>2, <2>3, <2>4, <2>5 DEF RestOK, Init
<1>4. Owned
  BY <1>1, <1>2, RuntimeAssumption DEF Owned, Init, Backed, Counts, OneHome
<1>5. PlanOK /\ OneEntry(catalog) /\ ScanFresh /\ NewStays /\ Reported
  BY <1>1 DEF Init, PlanOK, PathsApart, OneEntry, ScanFresh, NewStays, Reported
<1> QED BY <1>3, <1>4, <1>5 DEF IndInv

(* A step that leaves the catalog, the libraries and the plan alone.       *)
LEMMA QuietStep ==
    ASSUME IndInv, RestOK', UNCHANGED <<catalog, libs, uses, open, handles, op, plan, changed, before>>
    PROVE  IndInv'
<1>1. Owned'
  BY DEF IndInv, Owned, Backed, Counts
<1>2. PlanOK' /\ OneEntry(catalog)' /\ ScanFresh' /\ NewStays' /\ Reported'
  BY DEF IndInv, PlanOK, ScanFresh, NewStays, Reported
<1> QED BY <1>1, <1>2 DEF IndInv

(* Files come, change and go: the catalog does not notice.                 *)
LEMMA FileStep ==
    ASSUME IndInv, NEW p \in Range(Paths),
           (\E img \in DOMAIN Image : installFile(p, img)) \/ touchFile(p) \/ removeFile(p)
    PROVE  IndInv'
<1>0. RestOK /\ DiskOK /\ Len(Image) \in Nat /\ MaxSteps \in Nat /\ steps \in 0 .. MaxSteps
  BY RuntimeAssumption DEF IndInv, RestOK
<1>1. PICK file : ChangeFile(p, file)
        /\ (\/ \E img \in DOMAIN Image : file = [image |-> img, mtime |-> steps + 1]
            \/ file = [disk[p] EXCEPT !.mtime = steps + 1]
            \/ file = NoFile)
        /\ replaced' \in {replaced, replaced \cup {p}}
  BY DEF installFile, touchFile, removeFile
<1>2. steps < MaxSteps /\ steps' = steps + 1 /\ disk' = [disk EXCEPT ![p] = file] /\ settled' = FALSE
      /\ UNCHANGED <<dir, catalog, libs, uses, open, handles, op, plan, changed, before>>
  BY <1>1 DEF ChangeFile, Step, loaded
<1>3. steps + 1 \in 0 .. MaxSteps
  BY <1>0, <1>2
<1>4. file \in [image : 0 .. Len(Image), mtime : 0 .. MaxSteps]
  <2>1. ASSUME NEW img \in DOMAIN Image, file = [image |-> img, mtime |-> steps + 1]
        PROVE  file \in [image : 0 .. Len(Image), mtime : 0 .. MaxSteps]
    <3>1. img \in 0 .. Len(Image)
      BY RuntimeAssumption
    <3> QED BY <1>3, <2>1, <3>1
  <2>2. ASSUME file = [disk[p] EXCEPT !.mtime = steps + 1]
        PROVE  file \in [image : 0 .. Len(Image), mtime : 0 .. MaxSteps]
    <3>1. disk[p] \in [image : 0 .. Len(Image), mtime : 0 .. MaxSteps]
      BY <1>0 DEF DiskOK
    <3> QED BY <1>3, <2>2, <3>1
  <2>3. ASSUME file = NoFile PROVE file \in [image : 0 .. Len(Image), mtime : 0 .. MaxSteps]
    BY <1>0, <2>3 DEF NoFile
  <2> QED BY <1>1, <2>1, <2>2, <2>3
<1>5. DiskOK'
  BY <1>0, <1>2, <1>4 DEF DiskOK
<1>6. RestOK'
  BY <1>0, <1>1, <1>2, <1>3, <1>5 DEF RestOK
<1> QED BY <1>2, <1>6, QuietStep

(* setPluginDir.                                                           *)
LEMMA DirStep ==
    ASSUME IndInv, NEW d \in Dirs, setPluginDir(d)
    PROVE  IndInv'
<1>1. /\ steps < MaxSteps /\ steps' = steps + 1 /\ dir' = d /\ settled' = FALSE
      /\ UNCHANGED <<disk, catalog, libs, uses, open, handles, op, plan, changed, before, replaced>>
  BY DEF setPluginDir, Step, loaded
<1>2. steps' \in 0 .. MaxSteps
  BY <1>1, RuntimeAssumption DEF IndInv, RestOK
<1>3. RestOK'
  BY <1>1, <1>2 DEF IndInv, RestOK, DiskOK
<1> QED BY <1>1, <1>3, QuietStep

(* A scan or reload returns.                                               *)
LEMMA ReturnStep ==
    ASSUME IndInv, returns
    PROVE  IndInv'
<1>1. /\ op' = "idle"
      /\ UNCHANGED <<disk, dir, catalog, libs, uses, open, handles, plan, changed, before, settled, replaced, steps>>
  BY DEF returns, files, loaded
<1>2. RestOK'
  BY <1>1 DEF IndInv, RestOK, DiskOK
<1>3. Owned'
  BY <1>1 DEF IndInv, Owned, Backed, Counts
<1>4. PlanOK' /\ OneEntry(catalog)'
  BY <1>1 DEF IndInv, PlanOK
<1>5. ScanFresh' /\ NewStays' /\ Reported'
  BY <1>1 DEF ScanFresh, NewStays, Reported
<1> QED BY <1>2, <1>3, <1>4, <1>5 DEF IndInv

(* A handle comes: one owner more.                                         *)
LEMMA CreateStep ==
    ASSUME IndInv, NEW l \in DOMAIN libs, createHandle(l)
    PROVE  IndInv'
<1>1. /\ steps < MaxSteps /\ steps' = steps + 1
      /\ l \in Libraries(catalog) /\ l \notin handles /\ handles' = handles \cup {l}
      /\ uses' = [uses EXCEPT ![l] = @ + 1]
      /\ UNCHANGED <<disk, dir, catalog, libs, open, op, plan, changed, before, settled, replaced>>
  BY DEF createHandle, Step, files
<1>2. steps' \in 0 .. MaxSteps
  BY <1>1, RuntimeAssumption DEF IndInv, RestOK
<1>3. RestOK'
  BY <1>1, <1>2 DEF IndInv, RestOK, DiskOK
<1>4. /\ uses \in [DOMAIN libs -> Nat] /\ handles \subseteq DOMAIN libs
      /\ open = Libraries(catalog) \cup handles /\ Owned
  BY DEF IndInv, Owned
<1>5. uses' \in [DOMAIN libs' -> Nat] /\ uses'[l] = uses[l] + 1
      /\ \A k \in DOMAIN libs : k # l => uses'[k] = uses[k]
  BY <1>1, <1>4
<1>6. Counts(uses, catalog)'
  <2>1. ASSUME NEW k \in DOMAIN libs
        PROVE  uses'[k] = (IF k \in Libraries(catalog) THEN 1 ELSE 0) + (IF k \in handles' THEN 1 ELSE 0)
    <3>1. uses[k] = (IF k \in Libraries(catalog) THEN 1 ELSE 0) + (IF k \in handles THEN 1 ELSE 0)
      BY <1>4 DEF Owned, Counts
    <3>2. CASE k = l
      BY <1>1, <1>5, <3>1, <3>2
    <3>3. CASE k # l
      BY <1>1, <1>5, <3>1, <3>3
    <3> QED BY <3>2, <3>3
  <2> QED BY <1>1, <2>1 DEF Counts
<1>7. open' = Libraries(catalog') \cup handles' /\ handles' \subseteq DOMAIN libs'
  BY <1>1, <1>4
<1>8. Backed(catalog)'
  BY <1>1, <1>4 DEF Owned, Backed
<1>9. Owned'
  BY <1>1, <1>4, <1>5, <1>6, <1>7, <1>8 DEF Owned
<1>10. PlanOK' /\ OneEntry(catalog)' /\ ScanFresh' /\ NewStays' /\ Reported'
  BY <1>1 DEF IndInv, PlanOK, ScanFresh, NewStays, Reported
<1> QED BY <1>3, <1>9, <1>10 DEF IndInv

(* A handle goes: the last owner closes the library.                       *)
LEMMA DropStep ==
    ASSUME IndInv, NEW l \in handles, dropHandle(l)
    PROVE  IndInv'
<1>1. /\ handles' = handles \ {l} /\ uses' = Released({l}) /\ open' = StillOpen(Released({l}))
      /\ UNCHANGED <<disk, dir, catalog, libs, op, plan, changed, before, settled, replaced, steps>>
  BY DEF dropHandle, files
<1>2. RestOK'
  BY <1>1 DEF IndInv, RestOK, DiskOK
<1>3. /\ uses \in [DOMAIN libs -> Nat] /\ handles \subseteq DOMAIN libs
      /\ open = Libraries(catalog) \cup handles /\ Owned /\ Libraries(catalog) \subseteq DOMAIN libs
  BY BackedLibraries DEF IndInv, Owned
<1>4. ASSUME NEW k \in DOMAIN libs
      PROVE  /\ uses'[k] = IF k = l THEN uses[k] - 1 ELSE uses[k]
             /\ uses'[k] = (IF k \in Libraries(catalog) THEN 1 ELSE 0) + (IF k \in handles' THEN 1 ELSE 0)
             /\ uses'[k] \in Nat
  <2>1. uses'[k] = IF k = l THEN uses[k] - 1 ELSE uses[k]
    BY <1>1, <1>3 DEF Released
  <2>2. uses[k] = (IF k \in Libraries(catalog) THEN 1 ELSE 0) + (IF k \in handles THEN 1 ELSE 0)
    BY <1>3 DEF Owned, Counts
  <2>3. CASE k = l
    BY <1>1, <2>1, <2>2, <2>3
  <2>4. CASE k # l
    BY <1>1, <2>1, <2>2, <2>4
  <2> QED BY <2>1, <2>3, <2>4
<1>5. uses' \in [DOMAIN libs' -> Nat]
  <2>1. uses' = [k \in DOMAIN libs |-> IF k \in {l} THEN uses[k] - 1 ELSE uses[k]]
    BY <1>1, <1>3 DEF Released
  <2>2. \A k \in DOMAIN libs : (IF k \in {l} THEN uses[k] - 1 ELSE uses[k]) \in Nat
    BY <1>4
  <2> QED BY <1>1, <2>1, <2>2
<1>6. Counts(uses, catalog)'
  BY <1>1, <1>4 DEF Counts
<1>7. open' = Libraries(catalog') \cup handles' /\ handles' \subseteq DOMAIN libs'
  <2>1. open' = {k \in open : uses'[k] > 0}
    BY <1>1 DEF StillOpen
  <2>2. \A k \in DOMAIN libs : uses'[k] > 0 <=> k \in Libraries(catalog) \cup handles'
    BY <1>4
  <2> QED BY <1>1, <1>3, <2>1, <2>2
<1>8. Backed(catalog)'
  BY <1>1, <1>3 DEF Owned, Backed
<1>9. Owned'
  BY <1>1, <1>3, <1>5, <1>6, <1>7, <1>8 DEF Owned
<1>10. PlanOK' /\ OneEntry(catalog)' /\ ScanFresh' /\ NewStays' /\ Reported'
  BY <1>1 DEF IndInv, PlanOK, ScanFresh, NewStays, Reported
<1> QED BY <1>2, <1>9, <1>10 DEF IndInv

-----------------------------------------------------------------------------
(* The steps of a scan and of a reload. *)

(* Erasing nothing.                                                        *)
LEMMA RestSelf ==
    ASSUME NEW cat \in Catalogs
    PROVE  Rest(cat, cat, {})
<1>1. ASSUME NEW f \in Families PROVE Left(cat[f], cat[f], {}, [i \in DOMAIN cat[f] |-> i])
  BY DEF Left
<1> QED BY <1>1 DEF Rest

(* The rest of a plan.                                                     *)
LEMMA TailFacts ==
    ASSUME PlanOK, plan # <<>>
    PROVE  /\ Head(plan) \in Descriptor /\ 1 \in DOMAIN plan /\ Head(plan) = plan[1]
           /\ Tail(plan) \in Seq(Descriptor) /\ PathsApart(Tail(plan))
           /\ \A k \in DOMAIN Tail(plan) :
                 /\ Tail(plan)[k].path # Head(plan).path
                 /\ \E i \in DOMAIN plan : Tail(plan)[k] = plan[i]
<1>0. /\ plan \in Seq(Descriptor) /\ Len(plan) \in Nat \ {0} /\ DOMAIN plan = 1 .. Len(plan)
      /\ \A i, j \in DOMAIN plan : plan[i].path = plan[j].path => i = j
  BY DEF PlanOK, PathsApart
<1>1. Head(plan) \in Descriptor /\ 1 \in DOMAIN plan /\ Head(plan) = plan[1]
  BY <1>0
<1> DEFINE q == Tail(plan)
<1>2. q \in Seq(Descriptor) /\ DOMAIN q = 1 .. Len(plan) - 1
  BY <1>0
<1>3. ASSUME NEW k \in DOMAIN q PROVE k + 1 \in DOMAIN plan /\ q[k] = plan[k + 1] /\ k + 1 # 1
  BY <1>0, <1>2
<1> HIDE DEF q
<1>4. PathsApart(q)
  <2>1. ASSUME NEW i \in DOMAIN q, NEW j \in DOMAIN q, q[i].path = q[j].path PROVE i = j
    <3>1. i + 1 = j + 1
      BY <1>0, <1>3, <2>1
    <3> QED BY <1>0, <1>2, <3>1
  <2> QED BY <2>1 DEF PathsApart
<1>5. \A k \in DOMAIN q : q[k].path # Head(plan).path /\ \E i \in DOMAIN plan : q[k] = plan[i]
  BY <1>0, <1>1, <1>3
<1> QED BY <1>1, <1>2, <1>4, <1>5 DEF q

(* scanDirectory starts.                                                   *)
LEMMA ScanStart ==
    ASSUME IndInv, scanDirectory
    PROVE  IndInv'
<1>0. RestOK /\ Owned /\ DiskOK /\ catalog \in Catalogs
  BY DEF IndInv, RestOK, Owned
<1>1. /\ steps < MaxSteps /\ steps' = steps + 1 /\ op = "idle" /\ Becomes(Empty)
      /\ UNCHANGED <<disk, dir, handles, changed, before, replaced>>
      /\ settled' \in BOOLEAN
      /\ \/ op' = "scan" /\ \E missed : plan' = scanPluginDsos(StillOpen(Released(Libraries(catalog))), missed)
         \/ UNCHANGED <<op, plan>>
  BY DEF scanDirectory, Step, files
<1>2. Owned' /\ catalog' = Empty
  BY <1>0, <1>1, EmptyRest, BecomesStep
<1>3. steps' \in 0 .. MaxSteps
  BY <1>0, <1>1, RuntimeAssumption DEF RestOK
<1>4. RestOK'
  BY <1>0, <1>1, <1>3 DEF RestOK, DiskOK
<1>5. PlanOK' /\ op' # "reload"
  <2>1. CASE op' = "scan" /\ \E missed : plan' = scanPluginDsos(StillOpen(Released(Libraries(catalog))), missed)
    <3>0. PICK missed : plan' = scanPluginDsos(StillOpen(Released(Libraries(catalog))), missed)
      BY <2>1
    <3> DEFINE m == StillOpen(Released(Libraries(catalog)))
    <3>1. m \in SUBSET DOMAIN libs /\ libs \in Seq(Library)
      BY <1>0, BackedLibraries DEF StillOpen, Owned
    <3> HIDE DEF m
    <3>2. scanPluginDsos(m, missed) \in Seq(Descriptor) /\ PathsApart(scanPluginDsos(m, missed))
      BY <1>0, <3>1, ScanFacts
    <3> QED BY <2>1, <3>0, <3>2 DEF PlanOK, m
  <2>2. CASE UNCHANGED <<op, plan>>
    BY <1>1, <2>2 DEF IndInv, PlanOK
  <2> QED BY <1>1, <2>1, <2>2
<1>6. \A f \in Families : catalog'[f] = <<>>
  BY <1>2 DEF Empty
<1>7. OneEntry(catalog)' /\ ScanFresh'
  BY <1>6 DEF OneEntry, ScanFresh, PathsOf
<1>8. NewStays' /\ Reported'
  BY <1>5 DEF NewStays, Reported
<1> QED BY <1>2, <1>4, <1>5, <1>7, <1>8 DEF IndInv

(* reload starts.                                                          *)
LEMMA ReloadStart ==
    ASSUME IndInv, reload
    PROVE  IndInv'
<1>m. PICK missed \in Unread :
         LET scan == scanPluginDsos(open, missed)
         IN  /\ Becomes(dropMissing(scan)) /\ changed' = (dropMissing(scan) # catalog) /\ plan' = scan
             /\ settled' = (missed = {})
  BY DEF reload
<1> DEFINE scan == scanPluginDsos(open, missed)
           new == dropMissing(scan)
           gone == Range(Paths) \ {scan[i].path : i \in DOMAIN scan}
<1>0. RestOK /\ Owned /\ DiskOK /\ catalog \in Catalogs /\ libs \in Seq(Library) /\ OneHome(catalog)
      /\ open \in SUBSET DOMAIN libs /\ Libraries(catalog) \subseteq DOMAIN libs /\ OneEntry(catalog)
  BY BackedLibraries DEF IndInv, RestOK, Owned
<1>1. /\ steps < MaxSteps /\ steps' = steps + 1 /\ Becomes(new)
      /\ changed' = (new # catalog) /\ plan' = scan /\ op' = "reload" /\ before' = catalog /\ settled' \in BOOLEAN
      /\ UNCHANGED <<disk, dir, handles, replaced>>
  BY <1>m DEF reload, Step, files
<1>2. Rest(new, catalog, gone)
      /\ (new = catalog \/ \E f \in Families : \E i \in DOMAIN catalog[f] : catalog[f][i].path \in gone)
  BY <1>0, EraseRest DEF dropMissing
<1>3. PlanOK'
  <2>1. scan \in Seq(Descriptor) /\ PathsApart(scan)
    BY <1>0, ScanFacts
  <2> HIDE DEF scan
  <2> QED BY <1>1, <2>1 DEF PlanOK
<1> HIDE DEF new, gone, scan
<1>4. Owned' /\ catalog' = new /\ libs' = libs
  BY <1>0, <1>1, <1>2, BecomesStep
<1>5. steps' \in 0 .. MaxSteps
  BY <1>0, <1>1, RuntimeAssumption DEF RestOK
<1>6. RestOK'
  <2>1. changed' \in BOOLEAN /\ settled' \in BOOLEAN
    BY <1>1
  <2> QED BY <1>0, <1>1, <1>5, <2>1 DEF RestOK, DiskOK
<1>7. /\ Libraries(new) \subseteq Libraries(catalog) /\ OneEntry(new)
      /\ \A f \in Families : \A i \in DOMAIN catalog[f] :
            catalog[f][i].path \in gone => catalog[f][i].lib \notin Libraries(new)
  BY <1>0, <1>2, RestFacts
<1>8. NewStays'
  <2>1. ASSUME NEW f \in Families, NEW i \in DOMAIN new[f] PROVE new[f][i].lib \in Libraries(catalog)
    <3>1. new[f][i].lib \in Libraries(new)
      BY DEF Libraries
    <3> QED BY <1>7, <3>1
  <2> QED BY <1>1, <1>4, <2>1 DEF NewStays
<1>9. Reported'
  <2>1. new # catalog => Libraries(new) # Libraries(catalog)
    <3> SUFFICES ASSUME new # catalog PROVE Libraries(new) # Libraries(catalog)
      OBVIOUS
    <3>1. PICK f \in Families : \E i \in DOMAIN catalog[f] : catalog[f][i].path \in gone
      BY <1>2
    <3>2. PICK i \in DOMAIN catalog[f] : catalog[f][i].path \in gone
      BY <3>1
    <3>3. catalog[f][i].lib \in Libraries(catalog)
      BY DEF Libraries
    <3> QED BY <1>7, <3>2, <3>3
  <2> QED BY <1>0, <1>1, <1>4, <2>1 DEF Reported
<1>10. OneEntry(catalog)' /\ ScanFresh'
  BY <1>1, <1>4, <1>7 DEF ScanFresh
<1> QED BY <1>3, <1>4, <1>6, <1>8, <1>9, <1>10 DEF IndInv

(* One iteration of scanDirectory's loop.                                  *)
LEMMA ScanNextStep ==
    ASSUME IndInv, scanNext
    PROVE  IndInv'
<1> DEFINE d == Head(plan)
<1>0. RestOK /\ Owned /\ DiskOK /\ catalog \in Catalogs /\ PlanOK /\ OneEntry(catalog) /\ ScanFresh
  BY DEF IndInv, RestOK, Owned
<1>1. /\ op = "scan" /\ plan # <<>> /\ loadAndRegister(catalog, d) /\ plan' = Tail(plan)
      /\ UNCHANGED <<disk, dir, handles, op, changed, before, settled, replaced, steps>>
  BY DEF scanNext, files
<1>2. /\ d \in Descriptor /\ 1 \in DOMAIN plan /\ d = plan[1]
      /\ plan' \in Seq(Descriptor) /\ PathsApart(plan')
      /\ \A k \in DOMAIN plan' : plan'[k].path # d.path /\ \E i \in DOMAIN plan : plan'[k] = plan[i]
  BY <1>0, <1>1, TailFacts
<1> HIDE DEF d
<1>3. /\ Owned'
      /\ \/ catalog' = catalog /\ libs' = libs
         \/ /\ Len(libs') = Len(libs) + 1 /\ d.family \in Families
            /\ \E e \in Plugin : /\ e.path = d.path /\ e.lib = Len(libs) + 1
                                 /\ e.mtime = disk[d.path].mtime
                                 /\ Added(catalog', catalog, d.family, e)
  BY <1>0, <1>1, <1>2, RestSelf, LoadStep
<1>4. RestOK'
  BY <1>0, <1>1 DEF RestOK, DiskOK
<1>5. OneEntry(catalog) /\ \A k \in DOMAIN plan : plan[k].path \notin PathsOf(catalog)
  BY <1>0, <1>1 DEF ScanFresh
<1>6. OneEntry(catalog') /\ \A k \in DOMAIN plan' : plan'[k].path \notin PathsOf(catalog')
  <2>1. CASE catalog' = catalog
    BY <1>2, <1>5, <2>1
  <2>2. CASE d.family \in Families /\ \E e \in Plugin : e.path = d.path /\ Added(catalog', catalog, d.family, e)
    <3>1. PICK e \in Plugin : e.path = d.path /\ Added(catalog', catalog, d.family, e)
      BY <2>2
    <3>2. \A f \in Families : \A i \in DOMAIN catalog[f] : catalog[f][i].path # e.path
      BY <1>2, <1>5, <3>1 DEF PathsOf
    <3>3. OneEntry(catalog')
      BY <1>0, <1>5, <2>2, <3>1, <3>2, AddedFacts
    <3>4. \A p \in PathsOf(catalog') : p \in PathsOf(catalog) \/ p = d.path
      <4>1. ASSUME NEW f \in Families, NEW i \in DOMAIN catalog'[f]
            PROVE  catalog'[f][i].path \in PathsOf(catalog) \/ catalog'[f][i].path = d.path
        <5>1. CASE i \in DOMAIN catalog[f]
          <6>1. catalog'[f][i] = catalog[f][i]
            BY <3>1, <5>1 DEF Added
          <6> QED BY <5>1, <6>1 DEF PathsOf
        <5>2. CASE i \notin DOMAIN catalog[f]
          BY <3>1, <5>2 DEF Added
        <5> QED BY <5>1, <5>2
      <4> QED BY <4>1 DEF PathsOf
    <3> QED BY <1>2, <1>5, <3>3, <3>4
  <2> QED BY <1>3, <2>1, <2>2
<1>7. PlanOK' /\ ScanFresh' /\ NewStays' /\ Reported'
  BY <1>1, <1>2, <1>6 DEF PlanOK, ScanFresh, NewStays, Reported
<1> QED BY <1>3, <1>4, <1>6, <1>7 DEF IndInv

(* A path whose mtime is 0 to the catalog is not loaded, or undated; one   *)
(* with another mtime is loaded.                                           *)
LEMMA MtimeFacts ==
    ASSUME catalog \in Catalogs, NEW p
    PROVE  /\ loadedMtimeForPath(p) = 0 =>
                 \/ p \in UndatedIn(catalog)
                 \/ \A f \in Families : \A i \in DOMAIN catalog[f] : catalog[f][i].path # p
           /\ loadedMtimeForPath(p) # 0 =>
                 \E f \in Families : \E i \in DOMAIN catalog[f] :
                    catalog[f][i].path = p /\ catalog[f][i].mtime = loadedMtimeForPath(p)
<1> DEFINE at(f) == {i \in DOMAIN catalog[f] : catalog[f][i].path = p}
           mt(f) == IF at(f) = {} THEN 0 ELSE catalog[f][Min(at(f))].mtime
<1>1. ASSUME NEW f \in Families, at(f) # {} PROVE Min(at(f)) \in at(f)
  <2>1. at(f) \in SUBSET Nat
    BY DEF Catalogs
  <2> HIDE DEF at
  <2> QED BY <1>1, <2>1, MinPlace
<1>2. loadedMtimeForPath(p) = IF mt("data_source") # 0 THEN mt("data_source")
                              ELSE IF mt("message_parser") # 0 THEN mt("message_parser") ELSE mt("toolbox")
  BY DEF loadedMtimeForPath
<1>3. /\ loadedMtimeForPath(p) = 0 => \A f \in Families : mt(f) = 0
      /\ loadedMtimeForPath(p) # 0 => \E f \in Families : mt(f) # 0 /\ loadedMtimeForPath(p) = mt(f)
  <2> HIDE DEF mt
  <2> QED BY <1>2 DEF Families
<1>4. ASSUME NEW f \in Families, mt(f) = 0, at(f) # {} PROVE p \in UndatedIn(catalog)
  <2>1. Min(at(f)) \in DOMAIN catalog[f] /\ catalog[f][Min(at(f))].path = p
    BY <1>1, <1>4
  <2>2. catalog[f][Min(at(f))].mtime = 0
    BY <1>4
  <2>3. \E k \in DOMAIN catalog[f] : catalog[f][k].mtime = 0 /\ catalog[f][k].path = p
    <3> HIDE DEF at
    <3> QED BY <2>1, <2>2
  <2> QED BY <2>3 DEF UndatedIn
<1>5. ASSUME NEW f \in Families, mt(f) # 0
      PROVE  \E i \in DOMAIN catalog[f] : catalog[f][i].path = p /\ catalog[f][i].mtime = mt(f)
  <2>1. at(f) # {} /\ mt(f) = catalog[f][Min(at(f))].mtime
    BY <1>5
  <2>2. Min(at(f)) \in DOMAIN catalog[f] /\ catalog[f][Min(at(f))].path = p
    BY <1>1, <2>1
  <2> HIDE DEF at, mt
  <2> QED BY <2>1, <2>2
<1> HIDE DEF mt
<1>6. loadedMtimeForPath(p) = 0 => p \in UndatedIn(catalog) \/ \A f \in Families : at(f) = {}
  BY <1>3, <1>4
<1>7. loadedMtimeForPath(p) # 0 => \E f \in Families : \E i \in DOMAIN catalog[f] :
          catalog[f][i].path = p /\ catalog[f][i].mtime = loadedMtimeForPath(p)
  BY <1>3, <1>5
<1> QED BY <1>6, <1>7

(* One iteration of reload's loop.                                         *)
LEMMA ReloadNextStep ==
    ASSUME IndInv, reloadNext
    PROVE  IndInv'
<1> DEFINE d == Head(plan)
           prior == loadedMtimeForPath(d.path)
           old == IF prior = 0 THEN catalog ELSE evictByPath(d.path)
           gone == IF prior = 0 THEN {} ELSE {d.path}
<1>0. /\ RestOK /\ Owned /\ DiskOK /\ catalog \in Catalogs /\ PlanOK /\ OneEntry(catalog) /\ OneHome(catalog)
      /\ libs \in Seq(Library) /\ Len(libs) \in Nat /\ DOMAIN libs = 1 .. Len(libs) /\ changed \in BOOLEAN
  BY DEF IndInv, RestOK, Owned
<1>1. /\ op = "reload" /\ plan # <<>> /\ plan' = Tail(plan)
      /\ UNCHANGED <<disk, dir, handles, op, before, settled, replaced, steps>>
      /\ \/ UNCHANGED <<catalog, libs, uses, open, changed>>
         \/ /\ loadAndRegister(old, d)
            /\ changed' = (changed \/ prior # 0 \/ Len(libs') > Len(libs))
  BY DEF reloadNext, files, loaded
<1>2. /\ d \in Descriptor /\ 1 \in DOMAIN plan /\ d = plan[1]
      /\ plan' \in Seq(Descriptor) /\ PathsApart(plan')
      /\ \A k \in DOMAIN plan' : plan'[k].path # d.path /\ \E i \in DOMAIN plan : plan'[k] = plan[i]
  BY <1>0, <1>1, TailFacts
<1>3. /\ \A f \in Families : \A i \in DOMAIN catalog[f] : \A k \in DOMAIN plan :
             catalog[f][i].lib \notin Libraries(before) => catalog[f][i].path # plan[k].path
      /\ Libraries(before) \subseteq DOMAIN libs
      /\ ~changed => catalog = before
      /\ changed => Libraries(catalog) # Libraries(before)
  BY <1>1 DEF IndInv, NewStays, Reported
<1>4. /\ Rest(old, catalog, gone)
      /\ prior = 0 => \/ d.path \in UndatedIn(catalog)
                      \/ \A f \in Families : \A i \in DOMAIN catalog[f] : catalog[f][i].path # d.path
      /\ prior # 0 => \E f \in Families : \E i \in DOMAIN catalog[f] : catalog[f][i].path = d.path
  <2>1. CASE prior = 0
    BY <1>0, <2>1, RestSelf, MtimeFacts
  <2>2. CASE prior # 0
    <3>1. Rest(evictByPath(d.path), catalog, {d.path})
      BY <1>0, EraseRest DEF evictByPath
    <3> QED BY <1>0, <2>2, <3>1, MtimeFacts
  <2> QED BY <2>1, <2>2
<1>5. /\ old \in Catalogs /\ OneEntry(old)
      /\ \A f \in Families : \A k \in DOMAIN old[f] :
            old[f][k].path \notin gone /\ \E i \in DOMAIN catalog[f] : old[f][k] = catalog[f][i]
      /\ \A f \in Families : \A i \in DOMAIN catalog[f] :
            catalog[f][i].path \in gone => catalog[f][i].lib \notin Libraries(old)
  <2>1. old \in Catalogs
    BY <1>4 DEF Rest
  <2> HIDE DEF old, gone
  <2> QED BY <1>0, <1>4, <2>1, RestFacts
<1>6. /\ prior = 0 => old = catalog
      /\ prior # 0 => gone = {d.path}
  OBVIOUS
<1> HIDE DEF old, gone, prior, d
<1>7. RestOK'
  <2>1. changed' \in BOOLEAN
    BY <1>0, <1>1
  <2> QED BY <1>0, <1>1, <2>1 DEF RestOK, DiskOK
<1>8. PlanOK' /\ ScanFresh' /\ op' = "reload" /\ before' = before
  BY <1>1, <1>2 DEF PlanOK, ScanFresh
<1>9. CASE UNCHANGED <<catalog, libs, uses, open, changed>>
  <2>1. Owned'
    BY <1>0, <1>1, <1>9 DEF Owned, Backed, Counts
  <2>2. NewStays'
    BY <1>2, <1>3, <1>8, <1>9 DEF NewStays
  <2>3. Reported' /\ OneEntry(catalog)'
    BY <1>0, <1>3, <1>8, <1>9 DEF Reported
  <2> QED BY <1>7, <1>8, <2>1, <2>2, <2>3 DEF IndInv
<1>10. CASE loadAndRegister(old, d) /\ changed' = (changed \/ prior # 0 \/ Len(libs') > Len(libs))
  <2>1. /\ Owned'
        /\ \/ catalog' = old /\ libs' = libs
           \/ /\ Len(libs') = Len(libs) + 1 /\ d.family \in Families
              /\ \E e \in Plugin : /\ e.path = d.path /\ e.lib = Len(libs) + 1
                                   /\ e.mtime = disk[d.path].mtime
                                   /\ Added(catalog', old, d.family, e)
    BY <1>0, <1>1, <1>2, <1>4, <1>10, LoadStep
  <2>2. CASE catalog' = old /\ libs' = libs
    <3>1. OneEntry(catalog)'
      BY <1>5, <2>2
    <3>2. NewStays'
      BY <1>2, <1>3, <1>5, <1>8, <2>2 DEF NewStays
    <3>3. ~(Len(libs') > Len(libs))
      BY <1>0, <2>2
    <3>4. changed' => Libraries(catalog') # Libraries(before)
      <4>1. CASE prior = 0
        BY <1>3, <1>6, <1>10, <2>2, <3>3, <4>1
      <4>2. CASE prior # 0
        <5>1. PICK f \in Families : \E i \in DOMAIN catalog[f] : catalog[f][i].path = d.path
          BY <1>4, <4>2
        <5>2. PICK i \in DOMAIN catalog[f] : catalog[f][i].path = d.path
          BY <5>1
        <5>3. catalog[f][i].lib \in Libraries(before)
          BY <1>2, <1>3, <5>2
        <5>4. catalog[f][i].lib \notin Libraries(old)
          BY <1>5, <1>6, <4>2, <5>2
        <5> QED BY <2>2, <5>3, <5>4
      <4> QED BY <4>1, <4>2
    <3>5. ~changed' => catalog' = before
      BY <1>3, <1>6, <1>10, <2>2
    <3>6. Reported'
      BY <1>3, <1>8, <2>2, <3>4, <3>5 DEF Reported
    <3> QED BY <1>7, <1>8, <2>1, <3>1, <3>2, <3>6 DEF IndInv
  <2>3. CASE /\ Len(libs') = Len(libs) + 1 /\ d.family \in Families
             /\ \E e \in Plugin : e.path = d.path /\ e.lib = Len(libs) + 1 /\ Added(catalog', old, d.family, e)
    <3>1. PICK e \in Plugin : e.path = d.path /\ e.lib = Len(libs) + 1 /\ Added(catalog', old, d.family, e)
      BY <2>3
    <3>2. e.path \in UndatedIn(old) \/ \A f \in Families : \A i \in DOMAIN old[f] : old[f][i].path # e.path
      BY <1>4, <1>5, <1>6, <3>1
    <3>3. OneEntry(catalog') /\ Libraries(catalog') = Libraries(old) \cup {e.lib}
      BY <1>5, <2>3, <3>1, <3>2, AddedFacts
    <3>4. NewStays'
      <4>1. ASSUME NEW f \in Families, NEW i \in DOMAIN catalog'[f], NEW k \in DOMAIN plan',
                   catalog'[f][i].lib \notin Libraries(before)
            PROVE  catalog'[f][i].path # plan'[k].path
        <5>1. CASE i \in DOMAIN old[f]
          <6>1. catalog'[f][i] = old[f][i]
            BY <3>1, <5>1 DEF Added
          <6>2. PICK j \in DOMAIN catalog[f] : old[f][i] = catalog[f][j]
            BY <1>5, <5>1
          <6> QED BY <1>2, <1>3, <4>1, <6>1, <6>2
        <5>2. CASE i \notin DOMAIN old[f]
          <6>1. catalog'[f][i] = e
            BY <3>1, <5>2 DEF Added
          <6> QED BY <1>2, <3>1, <6>1
        <5> QED BY <5>1, <5>2
      <4> QED BY <1>8, <4>1 DEF NewStays
    <3>5. e.lib \notin DOMAIN libs
      BY <1>0, <3>1
    <3>6. changed' /\ Libraries(catalog') # Libraries(before)
      <4>1. Len(libs') > Len(libs)
        BY <1>0, <2>3
      <4> QED BY <1>3, <1>10, <3>3, <3>5, <4>1
    <3>7. DOMAIN libs \subseteq DOMAIN libs'
      <4>1. DOMAIN libs' = 1 .. Len(libs')
        BY <2>1 DEF Owned
      <4> QED BY <1>0, <2>3, <4>1
    <3>8. Reported'
      BY <1>3, <1>8, <3>6, <3>7 DEF Reported
    <3> QED BY <1>7, <1>8, <2>1, <3>3, <3>4, <3>8 DEF IndInv
  <2> QED BY <2>1, <2>2, <2>3
<1> QED BY <1>1, <1>9, <1>10

(* Every step keeps the invariant.                                         *)
LEMMA InvStep == IndInv /\ [Next]_vars => IndInv'
<1> SUFFICES ASSUME IndInv, [Next]_vars PROVE IndInv'
  OBVIOUS
<1>1. ASSUME NEW d \in Dirs, setPluginDir(d) PROVE IndInv'
  BY <1>1, DirStep
<1>2. ASSUME NEW l \in DOMAIN libs, createHandle(l) PROVE IndInv'
  BY <1>2, CreateStep
<1>3. ASSUME NEW l \in handles, dropHandle(l) PROVE IndInv'
  BY <1>3, DropStep
<1>4. ASSUME NEW p \in Range(Paths), (\E img \in DOMAIN Image : installFile(p, img)) \/ touchFile(p) \/ removeFile(p)
      PROVE  IndInv'
  BY <1>4, FileStep
<1>5. ASSUME UNCHANGED vars PROVE IndInv'
  <2>1. RestOK'
    BY <1>5 DEF IndInv, RestOK, DiskOK, vars
  <2> QED BY <1>5, <2>1, QuietStep DEF vars
<1> QED BY <1>1, <1>2, <1>3, <1>4, <1>5, ScanStart, ReloadStart, ScanNextStep, ReloadNextStep, ReturnStep DEF Next

(* The invariant holds in every reachable state.                           *)
LEMMA InvAlways == Spec => []IndInv
BY InvInit, InvStep, PTL DEF Spec

(* A library is mapped exactly as long as an entry of the catalog or a     *)
(* plugin instance owns it, for any number of plugins, paths and           *)
(* instances: a reload that evicts the plugin of a newer file, a rescan    *)
(* that clears the catalog and the destruction of the last handle each     *)
(* release one owner of the shared_ptr, and the last one closes the        *)
(* library.                                                                *)
THEOREM OwnedLibrariesStayLoaded == Spec => []LoadedWhileOwned
BY InvAlways, InvGives, PTL

(* However many scans and reloads ran, and whatever happened to the files  *)
(* between their steps, a path is in the catalog at most once and in one   *)
(* family, unless its file vanished as it was loaded (the entry then has   *)
(* no mtime, and reload takes the path for not loaded).                    *)
THEOREM PathsLoadedOnce == Spec => []OneEntryPerPath
BY InvAlways, InvGives, PTL

(* reload returns true exactly when the catalog is another than when it    *)
(* was called: a dropped, a reloaded and a new plugin are all reported,    *)
(* and nothing else is.                                                    *)
THEOREM ReloadTellsTheTruth == Spec => []ReloadReportsChange
BY InvAlways, InvGives, PTL

-----------------------------------------------------------------------------
(* The catalog and the disk.  A second invariant, on top of the first: what *)
(* is mapped, planned and entered is what the files have, as long as they   *)
(* were not replaced, and after a scan the plan and the catalog cover them. *)

(* The file at the path is the one that libraries and descriptors of the   *)
(* path were made from, if there are any.                                  *)
Current(p) == p \notin replaced /\ disk[p].image # 0

(* The path has a file that a scan of the directory looks at.              *)
OnDisk(p) == DirOf[p] = dir /\ disk[p].image # 0

(* Files have an mtime, and none is from the future.                       *)
FilesDated ==
    /\ \A p \in Range(Paths) : disk[p].mtime <= steps /\ (disk[p].image # 0 => disk[p].mtime >= 1)
    /\ \A f \in Families : \A i \in DOMAIN catalog[f] : catalog[f][i].mtime <= steps

(* What is mapped is what the file has.                                    *)
MappedCurrent ==
    \A l \in open : Current(libs[l].path) => libs[l].image = disk[libs[l].path].image

(* What a scan found is a plugin, and what the file has.                   *)
PlanCurrent ==
    \A k \in DOMAIN plan :
        /\ inspectPluginDso(plan[k].image) = <<plan[k].family>>
        /\ Current(plan[k].path) => plan[k].image = disk[plan[k].path].image

(* What an entry says of a file is true of it, and not of a later one.     *)
EntryCurrent ==
    \A f \in Families : \A i \in DOMAIN catalog[f] :
        /\ inspectPluginDso(catalog[f][i].descr) = <<f>>
        /\ loads(libs[catalog[f][i].lib].image, f)
        /\ Current(catalog[f][i].path) =>
              /\ catalog[f][i].descr = disk[catalog[f][i].path].image
              /\ catalog[f][i].mtime >= 1 /\ catalog[f][i].mtime <= disk[catalog[f][i].path].mtime

Planned(p) == \E k \in DOMAIN plan : plan[k].path = p

(* If no file changed since the scan: what is planned and what is loaded   *)
(* is on disk, what is loaded is up to date or will be looked at, and what *)
(* can be used is loaded or will be.                                       *)
InStep ==
    settled =>
        /\ \A k \in DOMAIN plan : OnDisk(plan[k].path)
        /\ \A f \in Families : \A i \in DOMAIN catalog[f] :
              /\ OnDisk(catalog[f][i].path)
              /\ \/ catalog[f][i].path \in replaced
                 \/ catalog[f][i].mtime = disk[catalog[f][i].path].mtime
                 \/ Planned(catalog[f][i].path)
        /\ \A p \in Range(Paths), f \in Families :
              p \notin replaced /\ OnDisk(p) /\ Usable(disk[p].image, f) =>
                 Planned(p) \/ \E i \in DOMAIN catalog[f] : catalog[f][i].path = p

IdleDone == op = "idle" => plan = <<>>

MatchInv == FilesDated /\ MappedCurrent /\ PlanCurrent /\ EntryCurrent /\ InStep /\ IdleDone

(* The image of a usable plugin is one that is described and loads, in the *)
(* family the description has.                                             *)
LEMMA UsableIff ==
    ASSUME NEW img \in 1 .. Len(Image), NEW f \in Families
    PROVE  Usable(img, f) <=> inspectPluginDso(img) = <<f>> /\ loads(img, f)
<1> DEFINE x == Image[img]
           found == findEmbeddedManifest(img)
<1>1. /\ x.exports \subseteq Families \cup {"dialog"} /\ x.manifest \in {"ok", "bare", "bad"}
      /\ x.abi \in BOOLEAN /\ x.dialog \in BOOLEAN
  <2>1. x \in [exports : SUBSET (Families \cup {"dialog"}), manifest : {"ok", "bare", "bad"},
                abi : BOOLEAN, dialog : BOOLEAN]
    <3>1. PICK T : T = [exports : SUBSET (Families \cup {"dialog"}), manifest : {"ok", "bare", "bad"},
                        abi : BOOLEAN, dialog : BOOLEAN]
      OBVIOUS
    <3>2. Image \in Seq(T)
      BY <3>1, RuntimeAssumption
    <3>3. Image[img] \in T
      BY ONLY <3>2, img \in 1 .. Len(Image)
    <3> QED BY <3>1, <3>3
  <2> HIDE DEF x
  <2> QED BY <2>1
<1>2. /\ \A i \in 1 .. 4 : i \in found <=> Probed[i] \in x.exports
      /\ found \in SUBSET Nat /\ found \subseteq 1 .. 4
  BY DEF findEmbeddedManifest, Probed
<1> HIDE DEF found
<1>3. found # {} => Min(found) \in found /\ \A i \in found : Min(found) <= i
  <2>1. found # {} => \E i \in found : \A j \in found : i <= j
    BY <1>2, LeastNatural
  <2> QED BY <2>1 DEF Min
<1>4. PICK n : n \in 1 .. 3 /\ Probed[n] = f /\ \A i \in 1 .. 4 : Probed[i] = f => i = n
  <2>1. /\ Probed[1] = "data_source" /\ Probed[2] = "message_parser"
        /\ Probed[3] = "toolbox" /\ Probed[4] = "dialog"
    BY DEF Probed
  <2>2. CASE f = "data_source"
    BY <2>1, <2>2
  <2>3. CASE f = "message_parser"
    BY <2>1, <2>3
  <2>4. CASE f = "toolbox"
    BY <2>1, <2>4
  <2> QED BY <2>2, <2>3, <2>4 DEF Families
<1>5. /\ inspectPluginDso(img) = <<f>> <=>
             x.abi /\ found # {} /\ Probed[Min(found)] = f /\ decodeManifest(f, img)
  <2>1. inspectPluginDso(img) =
            IF x.abi /\ found # {} /\ decodeManifest(Probed[Min(found)], img) THEN <<Probed[Min(found)]>> ELSE <<>>
    BY DEF inspectPluginDso, found
  <2> QED BY <2>1
<1>6. found # {} /\ Probed[Min(found)] = f <=> n \in found /\ \A i \in found : n <= i
  <2>1. ASSUME found # {}, Probed[Min(found)] = f PROVE n \in found /\ \A i \in found : n <= i
    <3>1. Min(found) = n
      BY <1>2, <1>3, <1>4, <2>1
    <3> QED BY <1>3, <2>1, <3>1
  <2>2. ASSUME n \in found, \A i \in found : n <= i PROVE found # {} /\ Probed[Min(found)] = f
    <3>1. Min(found) \in found /\ Min(found) <= n /\ n <= Min(found)
      BY <1>3, <2>2
    <3>2. PICK m \in found : m = Min(found)
      BY <3>1
    <3>3. m \in Nat /\ n \in Nat
      BY <1>2, <1>4
    <3>4. m = n
      BY <3>1, <3>2, <3>3
    <3> QED BY <1>4, <2>2, <3>2, <3>4
  <2> QED BY <2>1, <2>2
<1>7. (\A i \in DOMAIN Probed : Probed[i] = f => \A k \in 1 .. i - 1 : Probed[k] \notin x.exports)
      <=> \A i \in found : n <= i
  <2>1. DOMAIN Probed = 1 .. 4
    BY DEF Probed
  <2>2. (\A i \in DOMAIN Probed : Probed[i] = f => \A k \in 1 .. i - 1 : Probed[k] \notin x.exports)
        <=> \A k \in 1 .. n - 1 : Probed[k] \notin x.exports
    BY <1>4, <2>1
  <2>3. (\A k \in 1 .. n - 1 : Probed[k] \notin x.exports) <=> \A i \in found : n <= i
    BY <1>2, <1>4
  <2> QED BY <2>2, <2>3
<1>8. n \in found <=> f \in x.exports
  BY <1>2, <1>4
<1> QED BY <1>1, <1>5, <1>6, <1>7, <1>8 DEF Usable, loads, decodeManifest, resolveDialogVtable

(* What dlopen maps is what the file has.                                  *)
LEMMA DlopenCurrent ==
    ASSUME MappedCurrent, NEW mapped \in SUBSET open, NEW p, Current(p)
    PROVE  dlopen(mapped, p) = disk[p].image
<1> DEFINE same == {l \in mapped : libs[l].path = p}
<1>1. CASE same # {}
  <2>1. PICK l : l = CHOOSE m \in same : TRUE
    OBVIOUS
  <2>2. l \in same
    BY <1>1, <2>1
  <2>3. dlopen(mapped, p) = libs[l].image
    BY <1>1, <2>1 DEF dlopen
  <2>4. l \in open /\ libs[l].path = p
    BY <2>2
  <2> QED BY <2>3, <2>4 DEF MappedCurrent
<1>2. CASE same = {}
  BY <1>2 DEF dlopen
<1> QED BY <1>1, <1>2

(* The image of a file that is there is one.                               *)
LEMMA DiskImage ==
    ASSUME DiskOK, NEW p \in Range(Paths), disk[p].image # 0
    PROVE  disk[p].image \in 1 .. Len(Image)
<1>1. disk[p].image \in 0 .. Len(Image) /\ Len(Image) \in Nat
  BY RuntimeAssumption DEF DiskOK
<1> QED BY <1>1

(* The descriptors a scan finds are of plugins, of files under the         *)
(* directory, and of what these have; no usable plugin that it reaches is  *)
(* without one.                                                            *)
LEMMA ScanCurrent ==
    ASSUME IndInv, MappedCurrent, NEW mapped \in SUBSET open, NEW missed,
           NEW scan, scan = scanPluginDsos(mapped, missed)
    PROVE  /\ scan \in Seq(Descriptor)
           /\ \A k \in DOMAIN scan :
                 /\ OnDisk(scan[k].path)
                 /\ inspectPluginDso(scan[k].image) = <<scan[k].family>>
                 /\ Current(scan[k].path) => scan[k].image = disk[scan[k].path].image
           /\ \A p \in Range(Paths) \ missed, f \in Families :
                 p \notin replaced /\ OnDisk(p) /\ Usable(disk[p].image, f) =>
                    \E k \in DOMAIN scan : scan[k].path = p
<1>1. libs \in Seq(Library) /\ DiskOK /\ open \subseteq DOMAIN libs
  BY BackedLibraries DEF IndInv, RestOK, Owned
<1>2. mapped \in SUBSET DOMAIN libs
  BY <1>1
<1>3. /\ scan \in Seq(Descriptor)
      /\ \A k \in DOMAIN scan : descriptor(mapped, scan[k].path) = <<scan[k]>>
      /\ \A p \in Range(Paths) : p \notin missed /\ descriptor(mapped, p) # <<>> => \E k \in DOMAIN scan : scan[k].path = p
  <2> DEFINE q == scanPluginDsos(mapped, missed)
  <2>1. /\ q \in Seq(Descriptor)
        /\ \A k \in DOMAIN q : descriptor(mapped, q[k].path) = <<q[k]>>
        /\ \A p \in Range(Paths) : p \notin missed /\ descriptor(mapped, p) # <<>> => \E k \in DOMAIN q : q[k].path = p
    BY <1>1, <1>2, ScanFacts, Zenon
  <2>2. scan = q
    OBVIOUS
  <2> HIDE DEF q
  <2> QED BY <2>1, <2>2
<1>4. ASSUME NEW k \in DOMAIN scan
      PROVE  /\ OnDisk(scan[k].path)
             /\ inspectPluginDso(scan[k].image) = <<scan[k].family>>
             /\ Current(scan[k].path) => scan[k].image = disk[scan[k].path].image
  <2> DEFINE p == scan[k].path
             img == dlopen(mapped, p)
             family == inspectPluginDso(img)
             t == [path |-> p, family |-> Head(family), image |-> img]
  <2>1. descriptor(mapped, p) = <<scan[k]>> /\ descriptor(mapped, p) # <<>>
    <3>1. descriptor(mapped, p) = <<scan[k]>>
      BY <1>3
    <3> QED BY <3>1
  <2>2. /\ DirOf[p] = dir /\ disk[p].image # 0 /\ family # <<>>
        /\ descriptor(mapped, p) = <<t>>
    BY <2>1 DEF descriptor
  <2>3. scan[k] = t
    BY <2>1, <2>2
  <2>4. family = <<Head(family)>>
    BY <2>2 DEF inspectPluginDso
  <2>5. OnDisk(p)
    BY <2>2 DEF OnDisk
  <2>6. Current(p) => img = disk[p].image
    BY DlopenCurrent
  <2>7. scan[k].image = img /\ scan[k].family = Head(family)
    BY <2>3
  <2> HIDE DEF img
  <2> QED BY <2>4, <2>5, <2>6, <2>7
<1>5. ASSUME NEW p \in Range(Paths) \ missed, NEW f \in Families, p \notin replaced, OnDisk(p), Usable(disk[p].image, f)
      PROVE  \E k \in DOMAIN scan : scan[k].path = p
  <2>1. disk[p].image \in 1 .. Len(Image) /\ disk[p].image # 0 /\ DirOf[p] = dir
    BY <1>1, <1>5, DiskImage DEF OnDisk
  <2>2. dlopen(mapped, p) = disk[p].image
    BY <1>5, <2>1, DlopenCurrent DEF Current
  <2>3. inspectPluginDso(disk[p].image) = <<f>>
    BY <1>5, <2>1, UsableIff
  <2>4. descriptor(mapped, p) # <<>>
    BY <2>1, <2>2, <2>3 DEF descriptor
  <2> QED BY <1>3, <2>4
<1> QED BY <1>3, <1>4, <1>5

(* What loadAndRegister does, with what is mapped as it opens the file.    *)
LEMMA LoadOutcome ==
    ASSUME Owned, NEW cat, NEW d, loadAndRegister(cat, d)
    PROVE  \E mapped \in SUBSET open : \E img :
             /\ img = dlopen(mapped, d.path)
             /\ ~loads(img, d.family) => catalog' = cat /\ libs' = libs /\ open' = mapped
             /\ loads(img, d.family) =>
                   /\ libs' = Append(libs, [path |-> d.path, image |-> img])
                   /\ catalog' = [cat EXCEPT ![d.family] =
                          Append(@, [path |-> d.path, descr |-> d.image, lib |-> Len(libs) + 1,
                                     mtime |-> disk[d.path].mtime])]
                   /\ open' = mapped \cup {Len(libs) + 1}
<1> DEFINE counts == Released(Libraries(catalog) \ Libraries(cat))
<1>1. StillOpen(counts) \in SUBSET open
  BY DEF StillOpen
<1>2. PICK mapped \in SUBSET open : mapped = StillOpen(counts)
  BY <1>1
<1>3. PICK img : img = dlopen(mapped, d.path)
  OBVIOUS
<1>4. ~loads(img, d.family) => catalog' = cat /\ libs' = libs /\ open' = mapped
  BY <1>2, <1>3 DEF loadAndRegister, Becomes
<1>5. loads(img, d.family) =>
          /\ libs' = Append(libs, [path |-> d.path, image |-> img])
          /\ catalog' = [cat EXCEPT ![d.family] =
                 Append(@, [path |-> d.path, descr |-> d.image, lib |-> Len(libs) + 1,
                            mtime |-> disk[d.path].mtime])]
          /\ open' = mapped \cup {Len(libs) + 1}
  BY <1>2, <1>3 DEF loadAndRegister
<1> QED BY <1>3, <1>4, <1>5

(* loadAndRegister of a descriptor of a scan keeps what the invariant says *)
(* of libraries and entries; it adds the entry if the plugin can be used.  *)
LEMMA LoadMatch ==
    ASSUME IndInv, MatchInv, Owned', NEW cat, NEW gone, Rest(cat, catalog, gone), NEW d \in Descriptor,
           loadAndRegister(cat, d), UNCHANGED <<disk, replaced, steps>>,
           inspectPluginDso(d.image) = <<d.family>>,
           Current(d.path) => d.image = disk[d.path].image
    PROVE  /\ MappedCurrent' /\ EntryCurrent' /\ FilesDated'
           /\ \A f \in Families : \A i \in DOMAIN catalog'[f] :
                 \/ \E k \in DOMAIN cat[f] : catalog'[f][i] = cat[f][k]
                 \/ catalog'[f][i].path = d.path /\ catalog'[f][i].mtime = disk[d.path].mtime
           /\ \A f \in Families : \A k \in DOMAIN cat[f] : \E i \in DOMAIN catalog'[f] : catalog'[f][i] = cat[f][k]
           /\ \A f \in Families : Current(d.path) /\ Usable(disk[d.path].image, f) =>
                 \E i \in DOMAIN catalog'[f] : catalog'[f][i].path = d.path
<1>0. /\ RestOK /\ DiskOK /\ Owned /\ catalog \in Catalogs /\ libs \in Seq(Library)
      /\ FilesDated /\ MappedCurrent /\ EntryCurrent /\ Backed(catalog)
      /\ open \subseteq DOMAIN libs /\ Len(libs) \in Nat /\ DOMAIN libs = 1 .. Len(libs)
  BY BackedLibraries DEF IndInv, MatchInv, RestOK, Owned
<1>1. PICK mapped \in SUBSET open : \E img :
             /\ img = dlopen(mapped, d.path)
             /\ ~loads(img, d.family) => catalog' = cat /\ libs' = libs /\ open' = mapped
             /\ loads(img, d.family) =>
                   /\ libs' = Append(libs, [path |-> d.path, image |-> img])
                   /\ catalog' = [cat EXCEPT ![d.family] =
                          Append(@, [path |-> d.path, descr |-> d.image, lib |-> Len(libs) + 1,
                                     mtime |-> disk[d.path].mtime])]
                   /\ open' = mapped \cup {Len(libs) + 1}
  BY <1>0, LoadOutcome
<1>2. PICK img :
             /\ img = dlopen(mapped, d.path)
             /\ ~loads(img, d.family) => catalog' = cat /\ libs' = libs /\ open' = mapped
             /\ loads(img, d.family) =>
                   /\ libs' = Append(libs, [path |-> d.path, image |-> img])
                   /\ catalog' = [cat EXCEPT ![d.family] =
                          Append(@, [path |-> d.path, descr |-> d.image, lib |-> Len(libs) + 1,
                                     mtime |-> disk[d.path].mtime])]
                   /\ open' = mapped \cup {Len(libs) + 1}
  BY <1>1
<1>3. cat \in Catalogs /\ \A f \in Families : \A k \in DOMAIN cat[f] : \E i \in DOMAIN catalog[f] : cat[f][k] = catalog[f][i]
  <2>1. cat \in Catalogs
    BY DEF Rest
  <2> QED BY <1>0, <2>1, RestFacts
<1>4. /\ d.path \in Range(Paths) /\ d.image \in 1 .. Len(Image)
      /\ disk[d.path] \in [image : 0 .. Len(Image), mtime : 0 .. MaxSteps] /\ steps \in Nat
      /\ Len(Image) \in Nat
  BY <1>0, RuntimeAssumption DEF Descriptor, DiskOK, RestOK
<1>5. Current(d.path) => img = disk[d.path].image
  BY <1>0, <1>2, DlopenCurrent
<1>6. \A p : Current(p)' <=> Current(p)
  BY DEF Current
<1>7. ASSUME NEW f \in Families, NEW k \in DOMAIN cat[f]
      PROVE  /\ inspectPluginDso(cat[f][k].descr) = <<f>>
             /\ cat[f][k].lib \in DOMAIN libs /\ loads(libs[cat[f][k].lib].image, f)
             /\ cat[f][k].mtime <= steps
             /\ Current(cat[f][k].path) =>
                   /\ cat[f][k].descr = disk[cat[f][k].path].image
                   /\ cat[f][k].mtime >= 1 /\ cat[f][k].mtime <= disk[cat[f][k].path].mtime
  <2>1. PICK i \in DOMAIN catalog[f] : cat[f][k] = catalog[f][i]
    BY <1>3
  <2>2. /\ inspectPluginDso(catalog[f][i].descr) = <<f>>
        /\ loads(libs[catalog[f][i].lib].image, f) /\ catalog[f][i].mtime <= steps
        /\ Current(catalog[f][i].path) =>
              /\ catalog[f][i].descr = disk[catalog[f][i].path].image
              /\ catalog[f][i].mtime >= 1 /\ catalog[f][i].mtime <= disk[catalog[f][i].path].mtime
    BY <1>0 DEF EntryCurrent, FilesDated
  <2>3. catalog[f][i].lib \in DOMAIN libs
    BY <1>0 DEF Backed
  <2> QED BY <2>1, <2>2, <2>3
<1>8. FilesDated' <=> \A f \in Families : \A i \in DOMAIN catalog'[f] : catalog'[f][i].mtime <= steps
  BY <1>0 DEF FilesDated
<1>9. CASE ~loads(img, d.family)
  <2>1. catalog' = cat /\ libs' = libs /\ open' = mapped
    BY <1>2, <1>9
  <2>2. MappedCurrent'
    BY <1>0, <1>6, <2>1 DEF MappedCurrent
  <2>3. EntryCurrent'
    BY <1>6, <1>7, <2>1 DEF EntryCurrent
  <2>4. FilesDated'
    BY <1>7, <1>8, <2>1
  <2>5. ASSUME NEW f \in Families, Current(d.path), Usable(disk[d.path].image, f) PROVE FALSE
    <3>1. disk[d.path].image \in 1 .. Len(Image)
      BY <1>0, <1>4, <2>5, DiskImage DEF Current
    <3>2. inspectPluginDso(disk[d.path].image) = <<f>> /\ loads(disk[d.path].image, f)
      BY <2>5, <3>1, UsableIff
    <3>3. <<f>> = <<d.family>>
      BY <2>5, <3>2
    <3>4. f = d.family
      BY <3>3
    <3> QED BY <1>5, <1>9, <2>5, <3>2, <3>4
  <2> QED BY <2>1, <2>2, <2>3, <2>4, <2>5
<1>10. CASE loads(img, d.family)
  <2> DEFINE l == Len(libs) + 1
             lib == [path |-> d.path, image |-> img]
             e == [path |-> d.path, descr |-> d.image, lib |-> l, mtime |-> disk[d.path].mtime]
  <2>1. /\ libs' = Append(libs, lib) /\ catalog' = [cat EXCEPT ![d.family] = Append(@, e)]
        /\ open' = mapped \cup {l}
    BY <1>2, <1>10
  <2>2. e.path = d.path /\ e.descr = d.image /\ e.lib = l /\ e.mtime = disk[d.path].mtime
        /\ lib.path = d.path /\ lib.image = img
    OBVIOUS
  <2>3. l \in 1 .. MaxLibs
    <3>1. Len(libs') = l /\ Len(libs') <= MaxLibs
      BY <1>0, <2>1 DEF Owned
    <3> QED BY <1>0, <3>1, RuntimeAssumption
  <2>4. e \in Plugin
    BY <1>4, <2>3 DEF Plugin
  <2>5. d.family \in Families
    BY <1>10 DEF loads
  <2>6. Added(catalog', cat, d.family, e)
    BY <1>3, <2>1, <2>4, <2>5, AppendAdds
  <2>7. libs'[l] = lib /\ \A k \in DOMAIN libs : libs'[k] = libs[k]
    BY <1>0, <2>1
  <2> HIDE DEF l, lib, e
  <2>8. ASSUME NEW f \in Families, NEW i \in DOMAIN catalog'[f]
        PROVE  (i \in DOMAIN cat[f] /\ catalog'[f][i] = cat[f][i]) \/ (f = d.family /\ catalog'[f][i] = e)
    BY <2>6 DEF Added
  <2>9. MappedCurrent'
    <3>1. ASSUME NEW k \in open', Current(libs'[k].path)
          PROVE  libs'[k].image = disk[libs'[k].path].image
      <4>1. CASE k = l
        BY <1>5, <2>2, <2>7, <3>1, <4>1
      <4>2. CASE k \in mapped
        <5>1. k \in open /\ libs'[k] = libs[k]
          BY <1>0, <2>7, <4>2
        <5> QED BY <1>0, <3>1, <5>1 DEF MappedCurrent
      <4> QED BY <2>1, <4>1, <4>2
    <3> QED BY <1>6, <3>1 DEF MappedCurrent
  <2>10. ASSUME NEW f \in Families, NEW i \in DOMAIN catalog'[f]
         PROVE  /\ inspectPluginDso(catalog'[f][i].descr) = <<f>>
                /\ loads(libs'[catalog'[f][i].lib].image, f)
                /\ catalog'[f][i].mtime <= steps
                /\ Current(catalog'[f][i].path) =>
                      /\ catalog'[f][i].descr = disk[catalog'[f][i].path].image
                      /\ catalog'[f][i].mtime >= 1
                      /\ catalog'[f][i].mtime <= disk[catalog'[f][i].path].mtime
    <3>1. CASE i \in DOMAIN cat[f] /\ catalog'[f][i] = cat[f][i]
      <4>1. libs'[cat[f][i].lib] = libs[cat[f][i].lib]
        BY <1>7, <2>7, <3>1
      <4> QED BY <1>7, <3>1, <4>1
    <3>2. CASE f = d.family /\ catalog'[f][i] = e
      <4>1. disk[d.path].mtime <= steps /\ (disk[d.path].image # 0 => disk[d.path].mtime >= 1)
            /\ disk[d.path].mtime <= disk[d.path].mtime
        BY <1>0, <1>4 DEF FilesDated
      <4>2. Current(d.path) => disk[d.path].image # 0
        BY DEF Current
      <4>3. loads(libs'[e.lib].image, f)
        BY <1>10, <2>2, <2>7, <3>2
      <4> QED BY <2>2, <3>2, <4>1, <4>2, <4>3
    <3> QED BY <2>8, <3>1, <3>2
  <2>11. EntryCurrent'
    BY <1>6, <2>10 DEF EntryCurrent
  <2>12. FilesDated'
    BY <1>8, <2>10
  <2>13. \A f \in Families : \A k \in DOMAIN cat[f] : \E i \in DOMAIN catalog'[f] : catalog'[f][i] = cat[f][k]
    BY <2>6 DEF Added
  <2>14. \E i \in DOMAIN catalog'[d.family] : catalog'[d.family][i] = e
    BY <2>6 DEF Added
  <2>15. ASSUME NEW f \in Families, Current(d.path), Usable(disk[d.path].image, f) PROVE f = d.family
    <3>1. disk[d.path].image \in 1 .. Len(Image)
      BY <1>0, <1>4, <2>15, DiskImage DEF Current
    <3>2. inspectPluginDso(disk[d.path].image) = <<f>>
      BY <2>15, <3>1, UsableIff
    <3>3. <<f>> = <<d.family>>
      BY <2>15, <3>2
    <3> QED BY <3>3
  <2> QED BY <2>2, <2>8, <2>9, <2>11, <2>12, <2>13, <2>14, <2>15
<1> QED BY <1>9, <1>10

(* mtimes are numbers.                                                     *)
LEMMA MtimeTypes ==
    ASSUME IndInv
    PROVE  /\ steps \in Nat /\ \A p \in Range(Paths) : disk[p].mtime \in Nat
           /\ \A f \in Families : \A i \in DOMAIN catalog[f] :
                 catalog[f][i].mtime \in Nat /\ catalog[f][i].path \in Range(Paths)
<1>1. DiskOK /\ catalog \in Catalogs /\ MaxSteps \in Nat /\ steps \in 0 .. MaxSteps
  BY RuntimeAssumption DEF IndInv, RestOK, Owned
<1>2. \A p \in Range(Paths) : disk[p] \in [image : 0 .. Len(Image), mtime : 0 .. MaxSteps]
  BY <1>1 DEF DiskOK
<1>3. \A f \in Families : \A i \in DOMAIN catalog[f] : catalog[f][i] \in Plugin
  BY <1>1 DEF Catalogs
<1>4. \A f \in Families : \A i \in DOMAIN catalog[f] :
          catalog[f][i].mtime \in Nat /\ catalog[f][i].path \in Range(Paths)
  BY <1>1, <1>3 DEF Plugin
<1> QED BY <1>1, <1>2, <1>4

(* A step that leaves files, entries and the plan alone.                   *)
LEMMA MatchQuiet ==
    ASSUME IndInv, MatchInv, UNCHANGED <<disk, catalog, libs, plan, replaced>>, open' \subseteq open,
           steps' \in {steps, steps + 1}, settled' => settled /\ dir' = dir, op' = "idle" => plan' = <<>>
    PROVE  MatchInv'
<1>1. \A p : Current(p)' <=> Current(p)
  BY DEF Current
<1>2. FilesDated'
  <2>1. \A n \in Nat : n <= steps => n <= steps'
    BY MtimeTypes
  <2>2. FilesDated
    BY DEF MatchInv
  <2> QED BY <2>1, <2>2, MtimeTypes DEF FilesDated
<1>3. MappedCurrent' /\ PlanCurrent' /\ EntryCurrent'
  BY <1>1 DEF MatchInv, MappedCurrent, PlanCurrent, EntryCurrent
<1>4. InStep'
  <2> SUFFICES ASSUME settled' PROVE InStep'
    BY DEF InStep
  <2>1. (\A p : OnDisk(p)' <=> OnDisk(p)) /\ (\A p : Planned(p)' <=> Planned(p)) /\ settled
    BY DEF OnDisk, Planned
  <2>2. InStep
    BY DEF MatchInv
  <2> QED BY <2>1, <2>2 DEF InStep
<1> QED BY <1>2, <1>3, <1>4 DEF MatchInv, IdleDone

(* In the beginning.                                                       *)
LEMMA MatchInit == Init => MatchInv
<1> SUFFICES ASSUME Init PROVE MatchInv
  OBVIOUS
<1>1. \A f \in Families : catalog[f] = <<>>
  BY DEF Init, Empty
<1>2. \A p \in Range(Paths) : disk[p].mtime = 0 /\ disk[p].image = 0
  BY DEF Init, NoFile
<1>3. plan = <<>> /\ open = {} /\ settled = FALSE /\ steps = 0
  BY DEF Init
<1> QED BY <1>1, <1>2, <1>3 DEF MatchInv, FilesDated, MappedCurrent, PlanCurrent, EntryCurrent, InStep, IdleDone

(* A file comes, is touched or goes: if it was loaded or is about to be,   *)
(* it is either replaced, or newer with the same image, or gone.           *)
LEMMA MatchFile ==
    ASSUME IndInv, MatchInv, NEW p \in Range(Paths),
           (\E img \in DOMAIN Image : installFile(p, img)) \/ touchFile(p) \/ removeFile(p)
    PROVE  MatchInv'
<1>0. /\ DiskOK /\ steps \in Nat /\ Backed(catalog) /\ Libraries(catalog) \subseteq open
      /\ FilesDated /\ MappedCurrent /\ PlanCurrent /\ EntryCurrent /\ IdleDone
  BY MtimeTypes DEF IndInv, RestOK, Owned, MatchInv
<1>1. PICK file :
        /\ ChangeFile(p, file)
        /\ \/ \E img \in DOMAIN Image : file = [image |-> img, mtime |-> steps + 1]
                                        /\ replaced' = IF InUse(p) THEN replaced \cup {p} ELSE replaced
           \/ file = [disk[p] EXCEPT !.mtime = steps + 1] /\ replaced' = replaced
           \/ file = NoFile /\ replaced' = replaced
  BY DEF installFile, touchFile, removeFile
<1>2. /\ steps' = steps + 1 /\ disk' = [disk EXCEPT ![p] = file] /\ settled' = FALSE
      /\ UNCHANGED <<dir, catalog, libs, uses, open, handles, op, plan, changed, before>>
  BY <1>1 DEF ChangeFile, Step, loaded
<1>3. disk'[p] = file /\ \A q \in Range(Paths) : q # p => disk'[q] = disk[q]
  BY <1>0, <1>2 DEF DiskOK
<1>4. \/ file.image = 0 /\ file.mtime = 0 /\ replaced' = replaced
      \/ /\ file.mtime = steps + 1
         /\ \/ file.image = disk[p].image /\ replaced' = replaced
            \/ p \in replaced' /\ replaced' = replaced \cup {p}
            \/ ~InUse(p) /\ replaced' = replaced
  <2>1. ASSUME NEW img \in DOMAIN Image, file = [image |-> img, mtime |-> steps + 1],
               replaced' = IF InUse(p) THEN replaced \cup {p} ELSE replaced
        PROVE  /\ file.mtime = steps + 1
               /\ \/ p \in replaced' /\ replaced' = replaced \cup {p}
                  \/ ~InUse(p) /\ replaced' = replaced
    BY <2>1
  <2>2. ASSUME file = [disk[p] EXCEPT !.mtime = steps + 1], replaced' = replaced
        PROVE  file.mtime = steps + 1 /\ file.image = disk[p].image
    <3>1. disk[p] \in [image : 0 .. Len(Image), mtime : 0 .. MaxSteps]
      BY <1>0 DEF DiskOK
    <3> QED BY <2>2, <3>1
  <2>3. ASSUME file = NoFile PROVE file.image = 0 /\ file.mtime = 0
    BY <2>3 DEF NoFile
  <2> QED BY <1>1, <2>1, <2>2, <2>3
<1>5. ASSUME NEW q \in Range(Paths), Current(q)', q # p \/ InUse(p)
      PROVE  Current(q) /\ disk'[q].image = disk[q].image /\ disk'[q].mtime \in {disk[q].mtime, steps + 1}
  <2>1. CASE q = p
    <3>1. p \notin replaced' /\ disk'[p].image # 0
      BY <1>5, <2>1 DEF Current
    <3>2. file.image = disk[p].image /\ file.mtime = steps + 1 /\ replaced' = replaced
      BY <1>3, <1>4, <1>5, <2>1, <3>1
    <3> QED BY <1>3, <2>1, <3>1, <3>2 DEF Current
  <2>2. CASE q # p
    BY <1>3, <1>4, <1>5, <2>2 DEF Current
  <2> QED BY <2>1, <2>2
<1>6. FilesDated'
  <2>1. ASSUME NEW q \in Range(Paths) PROVE disk'[q].mtime <= steps' /\ (disk'[q].image # 0 => disk'[q].mtime >= 1)
    <3>1. CASE q = p
      BY <1>0, <1>2, <1>3, <1>4, <3>1
    <3>2. CASE q # p
      <4>1. disk'[q] = disk[q] /\ disk[q].mtime \in Nat /\ disk[q].mtime <= steps
            /\ (disk[q].image # 0 => disk[q].mtime >= 1)
        BY <1>0, <1>3, <3>2, MtimeTypes DEF FilesDated
      <4> QED BY <1>0, <1>2, <4>1
    <3> QED BY <3>1, <3>2
  <2>2. ASSUME NEW f \in Families, NEW i \in DOMAIN catalog[f] PROVE catalog[f][i].mtime <= steps'
    <3>1. catalog[f][i].mtime <= steps /\ catalog[f][i].mtime \in Nat
      BY <1>0, MtimeTypes DEF FilesDated
    <3> QED BY <1>0, <1>2, <3>1
  <2> QED BY <1>2, <2>1, <2>2 DEF FilesDated
<1>7. MappedCurrent'
  <2>1. ASSUME NEW l \in open, NEW q \in Range(Paths), q = libs[l].path, Current(q)' PROVE libs[l].image = disk'[q].image
    <3>1. libs[l].path = p => InUse(p)
      BY DEF InUse
    <3>3. Current(q) /\ disk'[q].image = disk[q].image
      BY <1>5, <2>1, <3>1
    <3> QED BY <1>0, <2>1, <3>3 DEF MappedCurrent
  <2>2. \A l \in open : libs[l].path \in Range(Paths)
    <3>1. open \subseteq DOMAIN libs /\ libs \in Seq(Library)
      BY BackedLibraries DEF IndInv, Owned
    <3>2. \A l \in open : libs[l] \in Library
      BY <3>1
    <3> QED BY <3>2 DEF Library
  <2> QED BY <1>2, <2>1, <2>2 DEF MappedCurrent
<1>8. PlanCurrent'
  <2>1. ASSUME NEW k \in DOMAIN plan, NEW q \in Range(Paths), q = plan[k].path, Current(q)' PROVE plan[k].image = disk'[q].image
    <3>1. plan[k].path = p => InUse(p)
      BY DEF InUse
    <3>3. Current(q) /\ disk'[q].image = disk[q].image
      BY <1>5, <2>1, <3>1
    <3> QED BY <1>0, <2>1, <3>3 DEF PlanCurrent
  <2>2. \A k \in DOMAIN plan : inspectPluginDso(plan[k].image) = <<plan[k].family>>
    BY <1>0 DEF PlanCurrent
  <2>3. \A k \in DOMAIN plan : plan[k].path \in Range(Paths)
    <3>1. \A k \in DOMAIN plan : plan[k] \in Descriptor
      BY DEF IndInv, PlanOK
    <3> QED BY <3>1 DEF Descriptor
  <2> QED BY <1>2, <2>1, <2>2, <2>3 DEF PlanCurrent
<1>9. EntryCurrent'
  <2>1. ASSUME NEW f \in Families, NEW i \in DOMAIN catalog[f], NEW q \in Range(Paths), q = catalog[f][i].path, Current(q)'
        PROVE  /\ catalog[f][i].descr = disk'[q].image
               /\ catalog[f][i].mtime >= 1 /\ catalog[f][i].mtime <= disk'[q].mtime
    <3>1. catalog[f][i].path = p => InUse(p)
      <4>1. catalog[f][i].path = libs[catalog[f][i].lib].path /\ catalog[f][i].lib \in open
        BY <1>0 DEF Backed, Libraries
      <4> QED BY <4>1 DEF InUse
    <3>2. catalog[f][i].path \in Range(Paths) /\ catalog[f][i].mtime \in Nat
      BY MtimeTypes
    <3>3. Current(q) /\ disk'[q].image = disk[q].image /\ disk'[q].mtime \in {disk[q].mtime, steps + 1}
      BY <1>5, <2>1, <3>1, <3>2
    <3>4. /\ catalog[f][i].descr = disk[catalog[f][i].path].image
          /\ catalog[f][i].mtime >= 1 /\ catalog[f][i].mtime <= disk[catalog[f][i].path].mtime
      BY <1>0, <2>1, <3>3 DEF EntryCurrent
    <3>5. catalog[f][i].mtime <= steps
      BY <1>0 DEF FilesDated
    <3> QED BY <1>0, <2>1, <3>2, <3>3, <3>4, <3>5
  <2>2. \A f \in Families : \A i \in DOMAIN catalog[f] :
            inspectPluginDso(catalog[f][i].descr) = <<f>> /\ loads(libs[catalog[f][i].lib].image, f)
    BY <1>0 DEF EntryCurrent
  <2> QED BY <1>2, <2>1, <2>2, MtimeTypes DEF EntryCurrent
<1>10. InStep' /\ IdleDone'
  BY <1>0, <1>2 DEF InStep, IdleDone
<1> QED BY <1>6, <1>7, <1>8, <1>9, <1>10 DEF MatchInv

(* Entries that leave the catalog take nothing from the invariant, and     *)
(* what a scan found becomes the plan.                                     *)
LEMMA MatchShrink ==
    ASSUME IndInv, MatchInv, NEW cat, NEW gone, Rest(cat, catalog, gone), Becomes(cat),
           UNCHANGED <<disk, replaced>>, steps' = steps + 1
    PROVE  /\ MappedCurrent' /\ EntryCurrent' /\ FilesDated' /\ catalog' = cat
           /\ \A f \in Families : \A i \in DOMAIN catalog'[f] :
                 catalog'[f][i].path \notin gone /\ \E k \in DOMAIN catalog[f] : catalog'[f][i] = catalog[f][k]
<1>1. catalog' = cat /\ libs' = libs /\ open' \subseteq open
  BY DEF Becomes, StillOpen
<1>2. /\ \A f \in Families : \A i \in DOMAIN cat[f] :
            cat[f][i].path \notin gone /\ \E k \in DOMAIN catalog[f] : cat[f][i] = catalog[f][k]
  <2>1. catalog \in Catalogs
    BY DEF IndInv, Owned
  <2> QED BY <2>1, RestFacts
<1>3. \A p : Current(p)' <=> Current(p)
  BY DEF Current
<1>4. MappedCurrent /\ EntryCurrent /\ FilesDated
  BY DEF MatchInv
<1>5. MappedCurrent'
  BY <1>1, <1>3, <1>4 DEF MappedCurrent
<1>6. EntryCurrent'
  <2>1. ASSUME NEW f \in Families, NEW i \in DOMAIN cat[f]
        PROVE  /\ inspectPluginDso(cat[f][i].descr) = <<f>>
               /\ loads(libs[cat[f][i].lib].image, f)
               /\ Current(cat[f][i].path) =>
                     /\ cat[f][i].descr = disk[cat[f][i].path].image
                     /\ cat[f][i].mtime >= 1 /\ cat[f][i].mtime <= disk[cat[f][i].path].mtime
    <3>1. PICK k \in DOMAIN catalog[f] : cat[f][i] = catalog[f][k]
      BY <1>2
    <3> QED BY <1>4, <3>1 DEF EntryCurrent
  <2> QED BY <1>1, <1>3, <2>1 DEF EntryCurrent
<1>7. FilesDated'
  <2>1. \A n \in Nat : n <= steps => n <= steps'
    BY MtimeTypes
  <2>2. \A p \in Range(Paths) : disk[p].mtime <= steps' /\ (disk[p].image # 0 => disk[p].mtime >= 1)
    BY <1>4, <2>1, MtimeTypes DEF FilesDated
  <2>3. ASSUME NEW f \in Families, NEW i \in DOMAIN cat[f] PROVE cat[f][i].mtime <= steps'
    <3>1. PICK k \in DOMAIN catalog[f] : cat[f][i] = catalog[f][k]
      BY <1>2
    <3> QED BY <1>4, <2>1, <3>1, MtimeTypes DEF FilesDated
  <2> QED BY <1>1, <2>2, <2>3 DEF FilesDated
<1> QED BY <1>1, <1>2, <1>5, <1>6, <1>7

(* scanDirectory starts.                                                   *)
LEMMA MatchScan ==
    ASSUME IndInv, MatchInv, scanDirectory
    PROVE  MatchInv'
<1>0. catalog \in Catalogs /\ MappedCurrent
  BY DEF IndInv, Owned, MatchInv
<1>1. /\ steps' = steps + 1 /\ op = "idle" /\ Becomes(Empty) /\ UNCHANGED <<disk, dir, replaced>>
      /\ \/ /\ op' = "scan"
            /\ \E missed : /\ plan' = scanPluginDsos(StillOpen(Released(Libraries(catalog))), missed)
                           /\ settled' = (missed = {})
         \/ settled' = FALSE /\ UNCHANGED <<op, plan>>
  BY DEF scanDirectory, Step, files
<1>2. MappedCurrent' /\ EntryCurrent' /\ FilesDated' /\ catalog' = Empty
  BY <1>0, <1>1, EmptyRest, MatchShrink
<1>3. \A f \in Families : catalog'[f] = <<>>
  BY <1>2 DEF Empty
<1>4. (\A p : Current(p)' <=> Current(p)) /\ (\A p : OnDisk(p)' <=> OnDisk(p))
  BY <1>1 DEF Current, OnDisk
<1>5. CASE /\ op' = "scan"
           /\ \E missed : /\ plan' = scanPluginDsos(StillOpen(Released(Libraries(catalog))), missed)
                          /\ settled' = (missed = {})
  <2>0. PICK missed : /\ plan' = scanPluginDsos(StillOpen(Released(Libraries(catalog))), missed)
                      /\ settled' = (missed = {})
    BY <1>5
  <2>1. StillOpen(Released(Libraries(catalog))) \in SUBSET open
    BY DEF StillOpen
  <2>2. PICK scan : scan = plan'
    OBVIOUS
  <2>3. /\ \A k \in DOMAIN scan :
              /\ OnDisk(scan[k].path)
              /\ inspectPluginDso(scan[k].image) = <<scan[k].family>>
              /\ Current(scan[k].path) => scan[k].image = disk[scan[k].path].image
        /\ \A p \in Range(Paths) \ missed, f \in Families :
              p \notin replaced /\ OnDisk(p) /\ Usable(disk[p].image, f) => \E k \in DOMAIN scan : scan[k].path = p
    BY <1>0, <2>0, <2>1, <2>2, ScanCurrent
  <2>4. PlanCurrent'
    BY <1>1, <1>4, <2>2, <2>3 DEF PlanCurrent
  <2>5. InStep'
    <3> SUFFICES ASSUME settled' PROVE InStep'
      BY DEF InStep
    <3>1. Range(Paths) \ missed = Range(Paths)
      BY <2>0
    <3>2. /\ \A k \in DOMAIN plan' : OnDisk(plan[k].path)'
          /\ \A p \in Range(Paths), f \in Families :
                p \notin replaced' /\ OnDisk(p)' /\ Usable(disk'[p].image, f) => Planned(p)'
      BY <1>1, <1>4, <2>2, <2>3, <3>1 DEF Planned
    <3> QED BY <1>3, <3>2 DEF InStep
  <2> QED BY <1>2, <1>5, <2>4, <2>5 DEF MatchInv, IdleDone
<1>6. CASE settled' = FALSE /\ UNCHANGED <<op, plan>>
  <2>1. PlanCurrent'
    BY <1>1, <1>4, <1>6 DEF MatchInv, PlanCurrent
  <2> QED BY <1>2, <1>6, <2>1 DEF MatchInv, InStep, IdleDone
<1> QED BY <1>1, <1>5, <1>6

(* reload starts.                                                          *)
LEMMA MatchReload ==
    ASSUME IndInv, MatchInv, reload
    PROVE  MatchInv'
<1>0. catalog \in Catalogs /\ MappedCurrent
  BY DEF IndInv, Owned, MatchInv
<1>m. PICK missed \in Unread :
         LET found == scanPluginDsos(open, missed)
         IN  /\ Becomes(dropMissing(found)) /\ plan' = found /\ settled' = (missed = {})
  BY DEF reload
<1>1. PICK scan : scan = scanPluginDsos(open, missed)
  OBVIOUS
<1>2. /\ steps' = steps + 1 /\ Becomes(dropMissing(scan)) /\ plan' = scan /\ op' = "reload"
      /\ UNCHANGED <<disk, dir, replaced>>
  BY <1>m, <1>1 DEF reload, Step, files
<1> DEFINE gone == Range(Paths) \ {scan[i].path : i \in DOMAIN scan}
<1>3. Rest(dropMissing(scan), catalog, gone)
  BY <1>0, EraseRest DEF dropMissing
<1>4. /\ MappedCurrent' /\ EntryCurrent' /\ FilesDated'
      /\ \A f \in Families : \A i \in DOMAIN catalog'[f] :
            catalog'[f][i].path \notin gone /\ \E k \in DOMAIN catalog[f] : catalog'[f][i] = catalog[f][k]
  <2> HIDE DEF gone
  <2> QED BY <1>2, <1>3, MatchShrink
<1>5. (\A p : Current(p)' <=> Current(p)) /\ (\A p : OnDisk(p)' <=> OnDisk(p))
  BY <1>2 DEF Current, OnDisk
<1>6. /\ \A k \in DOMAIN scan :
            /\ OnDisk(scan[k].path)
            /\ inspectPluginDso(scan[k].image) = <<scan[k].family>>
            /\ Current(scan[k].path) => scan[k].image = disk[scan[k].path].image
      /\ \A p \in Range(Paths) \ missed, f \in Families :
            p \notin replaced /\ OnDisk(p) /\ Usable(disk[p].image, f) => \E k \in DOMAIN scan : scan[k].path = p
  <2>1. PICK mapped : mapped = open
    OBVIOUS
  <2>2. mapped \in SUBSET open /\ scan = scanPluginDsos(mapped, missed)
    BY <1>1, <2>1
  <2> QED BY <1>0, <2>2, ScanCurrent
<1>7. PlanCurrent'
  BY <1>2, <1>5, <1>6 DEF PlanCurrent
<1>8. ASSUME NEW f \in Families, NEW i \in DOMAIN catalog'[f]
      PROVE  \E k \in DOMAIN scan : scan[k].path = catalog'[f][i].path
  <2>1. catalog'[f][i].path \in Range(Paths)
    <3>1. PICK k \in DOMAIN catalog[f] : catalog'[f][i] = catalog[f][k]
      BY <1>4
    <3> QED BY <3>1, MtimeTypes
  <2> QED BY <1>4, <2>1
<1>9. InStep'
  <2>1. ASSUME NEW f \in Families, NEW i \in DOMAIN catalog'[f]
        PROVE  OnDisk(catalog[f][i].path)' /\ Planned(catalog[f][i].path)'
    <3>1. PICK p : p = catalog'[f][i].path
      OBVIOUS
    <3>2. PICK k \in DOMAIN scan : scan[k].path = p
      BY <1>8, <3>1
    <3>3. OnDisk(p)
      BY <1>6, <3>2
    <3>4. OnDisk(p)' /\ Planned(p)'
      BY <1>2, <1>5, <3>2, <3>3 DEF Planned
    <3> QED BY <3>1, <3>4
  <2>2. \A k \in DOMAIN plan' : OnDisk(plan[k].path)'
    BY <1>2, <1>5, <1>6
  <2>3. settled' => \A p \in Range(Paths), f \in Families :
            p \notin replaced' /\ OnDisk(p)' /\ Usable(disk'[p].image, f) => Planned(p)'
    BY <1>m, <1>2, <1>5, <1>6 DEF Planned
  <2> QED BY <2>1, <2>2, <2>3 DEF InStep
<1> QED BY <1>2, <1>4, <1>7, <1>9 DEF MatchInv, IdleDone

(* The invariant of the descriptor that is next, and of those after it.    *)
LEMMA MatchTail ==
    ASSUME IndInv, MatchInv, plan # <<>>, plan' = Tail(plan), UNCHANGED <<disk, dir, replaced>>, NEW d, d = Head(plan)
    PROVE  /\ d \in Descriptor /\ d.path \in Range(Paths) /\ Planned(d.path)
           /\ inspectPluginDso(d.image) = <<d.family>>
           /\ Current(d.path) => d.image = disk[d.path].image
           /\ settled => OnDisk(d.path)
           /\ PlanCurrent' /\ (settled => \A k \in DOMAIN plan' : OnDisk(plan[k].path)')
           /\ \A p : Planned(p) => p = d.path \/ Planned(p)'
<1>1. PlanOK /\ PlanCurrent /\ InStep
  BY DEF IndInv, MatchInv
<1>2. /\ d \in Descriptor /\ 1 \in DOMAIN plan /\ d = plan[1]
      /\ \A k \in DOMAIN plan' : \E i \in DOMAIN plan : plan'[k] = plan[i]
  BY <1>1, TailFacts
<1>3. /\ inspectPluginDso(d.image) = <<d.family>>
      /\ Current(d.path) => d.image = disk[d.path].image
      /\ settled => OnDisk(d.path)
  BY <1>1, <1>2 DEF PlanCurrent, InStep
<1>4. (\A p : Current(p)' <=> Current(p)) /\ (\A p : OnDisk(p)' <=> OnDisk(p))
  BY DEF Current, OnDisk
<1>5. PlanCurrent'
  <2>1. ASSUME NEW k \in DOMAIN plan'
        PROVE  /\ inspectPluginDso(plan'[k].image) = <<plan'[k].family>>
               /\ Current(plan'[k].path) => plan'[k].image = disk[plan'[k].path].image
    <3>1. PICK i \in DOMAIN plan : plan'[k] = plan[i]
      BY <1>2
    <3> QED BY <1>1, <3>1 DEF PlanCurrent
  <2> QED BY <1>4, <2>1 DEF PlanCurrent
<1>6. ASSUME settled, NEW k \in DOMAIN plan' PROVE OnDisk(plan[k].path)'
  <2>1. PICK i \in DOMAIN plan : plan'[k] = plan[i]
    BY <1>2
  <2>2. PICK p : p = plan[i].path
    OBVIOUS
  <2>3. OnDisk(p)
    BY <1>1, <1>6, <2>2 DEF InStep
  <2>4. OnDisk(p)'
    BY <1>4, <2>3
  <2> QED BY <2>1, <2>2, <2>4
<1>7. ASSUME NEW p, Planned(p), p # d.path PROVE Planned(p)'
  <2>1. PICK i \in DOMAIN plan : plan[i].path = p
    BY <1>7 DEF Planned
  <2>2. plan \in Seq(Descriptor) /\ i \in 1 .. Len(plan) /\ i # 1
    BY <1>1, <1>2, <1>7, <2>1 DEF PlanOK
  <2>3. i - 1 \in DOMAIN plan' /\ plan'[i - 1] = plan[i]
    BY <2>2
  <2> QED BY <2>1, <2>3 DEF Planned
<1>8. d.path \in Range(Paths)
  BY <1>2 DEF Descriptor
<1>9. Planned(d.path)
  BY <1>2 DEF Planned
<1> QED BY <1>2, <1>3, <1>5, <1>6, <1>7, <1>8, <1>9

(* One iteration that loads, or tries to: the entries of the path are gone *)
(* before.                                                                 *)
LEMMA MatchLoad ==
    ASSUME IndInv, MatchInv, IndInv', plan # <<>>, plan' = Tail(plan), op \in {"scan", "reload"},
           UNCHANGED <<disk, dir, replaced, steps, settled, op>>, NEW d, d = Head(plan),
           NEW cat, NEW gone, Rest(cat, catalog, gone), gone \subseteq {d.path}, loadAndRegister(cat, d),
           Current(d.path) => \A f \in Families : \A i \in DOMAIN cat[f] : cat[f][i].path # d.path
    PROVE  MatchInv'
<1>1. /\ d \in Descriptor /\ d.path \in Range(Paths)
      /\ inspectPluginDso(d.image) = <<d.family>>
      /\ Current(d.path) => d.image = disk[d.path].image
      /\ settled => OnDisk(d.path)
      /\ PlanCurrent' /\ (settled => \A k \in DOMAIN plan' : OnDisk(plan[k].path)')
      /\ \A p : Planned(p) => p = d.path \/ Planned(p)'
  BY MatchTail
<1>2. /\ MappedCurrent' /\ EntryCurrent' /\ FilesDated'
      /\ \A f \in Families : \A i \in DOMAIN catalog'[f] :
            \/ \E k \in DOMAIN cat[f] : catalog'[f][i] = cat[f][k]
            \/ catalog'[f][i].path = d.path /\ catalog'[f][i].mtime = disk[d.path].mtime
      /\ \A f \in Families : \A k \in DOMAIN cat[f] : \E i \in DOMAIN catalog'[f] : catalog'[f][i] = cat[f][k]
      /\ \A f \in Families : Current(d.path) /\ Usable(disk[d.path].image, f) =>
            \E i \in DOMAIN catalog'[f] : catalog'[f][i].path = d.path
  <2>1. Owned'
    BY DEF IndInv
  <2> QED BY <1>1, <2>1, LoadMatch
<1>3. /\ \A f \in Families : \A k \in DOMAIN cat[f] : \E i \in DOMAIN catalog[f] : cat[f][k] = catalog[f][i]
      /\ \A f \in Families : \A i \in DOMAIN catalog[f] :
            catalog[f][i].path # d.path => \E k \in DOMAIN cat[f] : cat[f][k] = catalog[f][i]
  <2>1. catalog \in Catalogs
    BY DEF IndInv, Owned
  <2>2. /\ \A f \in Families : \A k \in DOMAIN cat[f] : \E i \in DOMAIN catalog[f] : cat[f][k] = catalog[f][i]
        /\ \A f \in Families : \A i \in DOMAIN catalog[f] :
              catalog[f][i].path \notin gone => \E k \in DOMAIN cat[f] : cat[f][k] = catalog[f][i]
    BY <2>1, RestFacts
  <2> QED BY <2>2
<1>4. \A p : OnDisk(p)' <=> OnDisk(p)
  BY DEF OnDisk
<1>5. InStep'
  <2> SUFFICES ASSUME settled PROVE InStep'
    BY DEF InStep
  <2>1. InStep /\ OnDisk(d.path)
    BY <1>1 DEF MatchInv
  <2>2. ASSUME NEW f \in Families, NEW i \in DOMAIN catalog'[f], NEW p, p = catalog'[f][i].path
        PROVE  OnDisk(p) /\ (p \in replaced \/ catalog'[f][i].mtime = disk[p].mtime \/ Planned(p)')
    <3>1. CASE p = d.path /\ catalog'[f][i].mtime = disk[d.path].mtime
      BY <2>1, <3>1
    <3>2. CASE \E k \in DOMAIN cat[f] : catalog'[f][i] = cat[f][k]
      <4>1. PICK k \in DOMAIN cat[f] : catalog'[f][i] = cat[f][k]
        BY <3>2
      <4>2. PICK j \in DOMAIN catalog[f] : cat[f][k] = catalog[f][j]
        BY <1>3
      <4>3. OnDisk(p) /\ (p \in replaced \/ catalog'[f][i].mtime = disk[p].mtime \/ Planned(p))
        BY <2>1, <2>2, <4>1, <4>2 DEF InStep
      <4>4. p = d.path => p \in replaced
        BY <2>1, <2>2, <4>1 DEF Current, OnDisk
      <4> QED BY <1>1, <4>3, <4>4
    <3> QED BY <1>2, <2>2, <3>1, <3>2
  <2>3. ASSUME NEW p \in Range(Paths), NEW f \in Families, p \notin replaced, OnDisk(p), Usable(disk[p].image, f)
        PROVE  Planned(p)' \/ \E i \in DOMAIN catalog'[f] : catalog'[f][i].path = p
    <3>1. CASE p = d.path
      BY <1>2, <2>3, <3>1 DEF Current, OnDisk
    <3>2. CASE p # d.path
      <4>1. Planned(p) \/ \E i \in DOMAIN catalog[f] : catalog[f][i].path = p
        BY <2>1, <2>3 DEF InStep
      <4>2. ASSUME NEW i \in DOMAIN catalog[f], catalog[f][i].path = p
            PROVE  \E j \in DOMAIN catalog'[f] : catalog'[f][j].path = p
        <5>1. PICK k \in DOMAIN cat[f] : cat[f][k] = catalog[f][i]
          BY <1>3, <3>2, <4>2
        <5>2. PICK j \in DOMAIN catalog'[f] : catalog'[f][j] = cat[f][k]
          BY <1>2
        <5> QED BY <4>2, <5>1, <5>2
      <4> QED BY <1>1, <3>2, <4>1, <4>2
    <3> QED BY <3>1, <3>2
  <2>4. ASSUME NEW f \in Families, NEW i \in DOMAIN catalog'[f]
        PROVE  /\ OnDisk(catalog[f][i].path)'
               /\ \/ catalog'[f][i].path \in replaced'
                  \/ catalog'[f][i].mtime = disk'[catalog'[f][i].path].mtime
                  \/ Planned(catalog[f][i].path)'
    <3>1. PICK p : p = catalog'[f][i].path
      OBVIOUS
    <3>2. OnDisk(p)' /\ (p \in replaced \/ catalog'[f][i].mtime = disk[p].mtime \/ Planned(p)')
      BY <1>4, <2>2, <3>1
    <3> QED BY <3>1, <3>2
  <2>5. \A k \in DOMAIN plan' : OnDisk(plan[k].path)'
    BY <1>1
  <2>6. \A p \in Range(Paths), f \in Families :
              p \notin replaced' /\ OnDisk(p)' /\ Usable(disk'[p].image, f) =>
                 Planned(p)' \/ \E i \in DOMAIN catalog'[f] : catalog'[f][i].path = p
    BY <1>4, <2>3
  <2> QED BY <2>4, <2>5, <2>6 DEF InStep
<1> QED BY <1>1, <1>2, <1>5 DEF MatchInv, IdleDone

(* One iteration of scanDirectory's loop.                                  *)
LEMMA MatchScanNext ==
    ASSUME IndInv, MatchInv, IndInv', scanNext
    PROVE  MatchInv'
<1>1. PICK d : d = Head(plan)
  OBVIOUS
<1>2. /\ op = "scan" /\ plan # <<>> /\ loadAndRegister(catalog, d) /\ plan' = Tail(plan)
      /\ UNCHANGED <<disk, dir, replaced, steps, settled, op>>
  BY <1>1 DEF scanNext, files
<1>3. Rest(catalog, catalog, {})
  BY RestSelf DEF IndInv, Owned
<1>4. \A f \in Families : \A i \in DOMAIN catalog[f] : catalog[f][i].path # d.path
  <2>1. 1 \in DOMAIN plan /\ d = plan[1]
    BY <1>1, <1>2, TailFacts DEF IndInv
  <2> QED BY <1>2, <2>1 DEF IndInv, ScanFresh, PathsOf
<1> QED BY <1>1, <1>2, <1>3, <1>4, MatchLoad

(* One iteration of reload's loop.                                         *)
LEMMA MatchReloadNext ==
    ASSUME IndInv, MatchInv, IndInv', reloadNext
    PROVE  MatchInv'
<1>1. PICK d : d = Head(plan)
  OBVIOUS
<1> DEFINE prior == loadedMtimeForPath(d.path)
           old == IF prior = 0 THEN catalog ELSE evictByPath(d.path)
           gone == IF prior = 0 THEN {} ELSE {d.path}
<1>2. /\ op = "reload" /\ plan # <<>> /\ plan' = Tail(plan)
      /\ UNCHANGED <<disk, dir, replaced, steps, settled, op, handles>>
      /\ \/ /\ disk[d.path].mtime = 0 \/ (prior # 0 /\ disk[d.path].mtime <= prior)
            /\ UNCHANGED <<catalog, libs, uses, open>>
         \/ loadAndRegister(old, d)
  BY <1>1 DEF reloadNext, files, loaded
<1>3. /\ catalog \in Catalogs /\ OneEntry(catalog) /\ EntryCurrent /\ FilesDated /\ MappedCurrent /\ DiskOK
  BY DEF IndInv, RestOK, Owned, MatchInv
<1>4. /\ d \in Descriptor /\ d.path \in Range(Paths)
      /\ settled => OnDisk(d.path)
      /\ PlanCurrent' /\ (settled => \A k \in DOMAIN plan' : OnDisk(plan[k].path)')
      /\ \A p : Planned(p) => p = d.path \/ Planned(p)'
  BY <1>1, <1>2, MatchTail
<1>5. Current(d.path) => d.path \notin UndatedIn(catalog)
  <2>1. ASSUME Current(d.path), d.path \in UndatedIn(catalog) PROVE FALSE
    <3>1. PICK f \in Families : \E i \in DOMAIN catalog[f] : catalog[f][i].path = d.path /\ catalog[f][i].mtime = 0
      BY <2>1 DEF UndatedIn
    <3>2. PICK i \in DOMAIN catalog[f] : catalog[f][i].path = d.path /\ catalog[f][i].mtime = 0
      BY <3>1
    <3>3. catalog[f][i].mtime >= 1
      BY <1>3, <2>1, <3>2 DEF EntryCurrent
    <3> QED BY <3>2, <3>3
  <2> QED BY <2>1
<1>6. /\ prior = 0 => \/ d.path \in UndatedIn(catalog)
                      \/ \A f \in Families : \A i \in DOMAIN catalog[f] : catalog[f][i].path # d.path
      /\ prior # 0 => \E f \in Families : \E i \in DOMAIN catalog[f] :
                         catalog[f][i].path = d.path /\ catalog[f][i].mtime = prior
  BY <1>3, MtimeFacts
<1>7. CASE loadAndRegister(old, d)
  <2>1. Rest(old, catalog, gone)
    <3>1. CASE prior = 0
      BY <1>3, <3>1, RestSelf
    <3>2. CASE prior # 0
      <4>1. Rest(evictByPath(d.path), catalog, {d.path})
        BY <1>3, EraseRest DEF evictByPath
      <4> QED BY <3>2, <4>1
    <3> QED BY <3>1, <3>2
  <2>2. Current(d.path) => \A f \in Families : \A i \in DOMAIN old[f] : old[f][i].path # d.path
    <3>1. CASE prior = 0
      BY <1>5, <1>6, <3>1
    <3>2. CASE prior # 0
      <4>1. gone = {d.path}
        BY <3>2
      <4>2. \A f \in Families : \A k \in DOMAIN old[f] : old[f][k].path \notin gone
        <5> HIDE DEF old, gone, prior
        <5> QED BY <1>3, <2>1, RestFacts
      <4> QED BY <4>1, <4>2
    <3> QED BY <3>1, <3>2
  <2>3. gone \subseteq {d.path} /\ op \in {"scan", "reload"}
    BY <1>2
  <2> HIDE DEF old, gone, prior
  <2> QED BY <1>1, <1>2, <1>7, <2>1, <2>2, <2>3, MatchLoad
<1>8. CASE /\ disk[d.path].mtime = 0 \/ (prior # 0 /\ disk[d.path].mtime <= prior)
           /\ UNCHANGED <<catalog, libs, uses, open>>
  <2> HIDE DEF old, gone, prior
  <2>1. (\A p : Current(p)' <=> Current(p)) /\ (\A p : OnDisk(p)' <=> OnDisk(p))
    BY <1>2 DEF Current, OnDisk
  <2>2. MappedCurrent' /\ EntryCurrent' /\ FilesDated'
    BY <1>2, <1>3, <1>8, <2>1 DEF MappedCurrent, EntryCurrent, FilesDated
  <2>3. InStep'
    <3> SUFFICES ASSUME settled PROVE InStep'
      BY <1>2 DEF InStep
    <3>1. InStep /\ OnDisk(d.path) /\ disk[d.path].mtime >= 1 /\ disk[d.path].image # 0
      BY <1>3, <1>4 DEF MatchInv, FilesDated, OnDisk
    <3>2. prior # 0 /\ disk[d.path].mtime <= prior
      BY <1>8, <3>1
    <3>3. PICK f0 \in Families : \E i \in DOMAIN catalog[f0] :
              catalog[f0][i].path = d.path /\ catalog[f0][i].mtime = prior
      BY <1>6, <3>2
    <3>4. PICK i0 \in DOMAIN catalog[f0] : catalog[f0][i0].path = d.path /\ catalog[f0][i0].mtime = prior
      BY <3>3
    <3>5. ASSUME d.path \notin replaced
          PROVE  /\ prior = disk[d.path].mtime
                 /\ \A f \in Families : \A i \in DOMAIN catalog[f] : catalog[f][i].path = d.path => f = f0 /\ i = i0
                 /\ \A f \in Families : Usable(disk[d.path].image, f) => f = f0
      <4>1. Current(d.path)
        BY <3>1, <3>5 DEF Current
      <4>2. /\ catalog[f0][i0].mtime <= disk[d.path].mtime /\ catalog[f0][i0].descr = disk[d.path].image
            /\ inspectPluginDso(catalog[f0][i0].descr) = <<f0>>
        BY <1>3, <3>4, <4>1 DEF EntryCurrent
      <4>3. catalog[f0][i0].mtime \in Nat /\ disk[d.path].mtime \in Nat
        BY <1>4, MtimeTypes
      <4>4. prior = disk[d.path].mtime
        BY <3>2, <3>4, <4>2, <4>3
      <4>5. \A f \in Families : \A i \in DOMAIN catalog[f] : catalog[f][i].path = d.path => f = f0 /\ i = i0
        BY <1>3, <1>5, <3>4, <4>1 DEF OneEntry
      <4>6. ASSUME NEW f \in Families, Usable(disk[d.path].image, f) PROVE f = f0
        <5>1. disk[d.path].image \in 1 .. Len(Image)
          BY <1>3, <1>4, <3>1, DiskImage
        <5>2. inspectPluginDso(disk[d.path].image) = <<f>>
          BY <4>6, <5>1, UsableIff
        <5>3. <<f>> = <<f0>>
          BY <4>2, <5>2
        <5> QED BY <5>3
      <4> QED BY <4>4, <4>5, <4>6
    <3>6. ASSUME NEW f \in Families, NEW i \in DOMAIN catalog[f], NEW p, p = catalog[f][i].path
          PROVE  OnDisk(p) /\ (p \in replaced \/ catalog[f][i].mtime = disk[p].mtime \/ Planned(p)')
      <4>1. OnDisk(p) /\ (p \in replaced \/ catalog[f][i].mtime = disk[p].mtime \/ Planned(p))
        BY <3>1, <3>6 DEF InStep
      <4>2. CASE p = d.path /\ p \notin replaced
        BY <3>4, <3>5, <3>6, <4>1, <4>2
      <4> QED BY <1>4, <4>1, <4>2
    <3>7. ASSUME NEW p \in Range(Paths), NEW f \in Families, p \notin replaced, OnDisk(p), Usable(disk[p].image, f)
          PROVE  Planned(p)' \/ \E i \in DOMAIN catalog[f] : catalog[f][i].path = p
      <4>1. CASE p = d.path
        BY <3>4, <3>5, <3>7, <4>1
      <4>2. CASE p # d.path
        BY <1>4, <3>1, <3>7, <4>2 DEF InStep
      <4> QED BY <4>1, <4>2
    <3>8. ASSUME NEW f \in Families, NEW i \in DOMAIN catalog'[f]
          PROVE  /\ OnDisk(catalog[f][i].path)'
                 /\ \/ catalog'[f][i].path \in replaced'
                    \/ catalog'[f][i].mtime = disk'[catalog'[f][i].path].mtime
                    \/ Planned(catalog[f][i].path)'
      <4>1. PICK p : p = catalog[f][i].path
        OBVIOUS
      <4>2. catalog' = catalog /\ replaced' = replaced /\ disk' = disk
        BY <1>2, <1>8
      <4>3. OnDisk(p)' /\ (p \in replaced \/ catalog[f][i].mtime = disk[p].mtime \/ Planned(p)')
        BY <2>1, <3>6, <4>1, <4>2
      <4> QED BY <4>1, <4>2, <4>3
    <3>9. \A p \in Range(Paths), f \in Families :
              p \notin replaced' /\ OnDisk(p)' /\ Usable(disk'[p].image, f) =>
                 Planned(p)' \/ \E i \in DOMAIN catalog'[f] : catalog'[f][i].path = p
      BY <1>2, <1>8, <2>1, <3>7
    <3>10. \A k \in DOMAIN plan' : OnDisk(plan[k].path)'
      BY <1>4
    <3> QED BY <3>8, <3>9, <3>10 DEF InStep
  <2>4. IdleDone'
    BY <1>2 DEF IdleDone
  <2> QED BY <1>4, <2>2, <2>3, <2>4 DEF MatchInv
<1> QED BY <1>2, <1>7, <1>8

(* Every step keeps the invariant.                                         *)
LEMMA MatchStep == IndInv /\ IndInv' /\ MatchInv /\ [Next]_vars => MatchInv'
<1> SUFFICES ASSUME IndInv, IndInv', MatchInv, [Next]_vars PROVE MatchInv'
  OBVIOUS
<1>0. IdleDone /\ steps \in Nat
  BY MtimeTypes DEF MatchInv
<1>1. ASSUME NEW d \in Dirs, setPluginDir(d) PROVE MatchInv'
  BY <1>0, <1>1, MatchQuiet DEF setPluginDir, Step, loaded, IdleDone
<1>2. ASSUME NEW l \in DOMAIN libs, createHandle(l) PROVE MatchInv'
  BY <1>0, <1>2, MatchQuiet DEF createHandle, Step, files, IdleDone
<1>3. ASSUME NEW l \in handles, dropHandle(l) PROVE MatchInv'
  <2>1. open' \subseteq open
    BY <1>3 DEF dropHandle, StillOpen
  <2> QED BY <1>0, <1>3, <2>1, MatchQuiet DEF dropHandle, files, IdleDone
<1>4. ASSUME NEW p \in Range(Paths), (\E img \in DOMAIN Image : installFile(p, img)) \/ touchFile(p) \/ removeFile(p)
      PROVE  MatchInv'
  BY <1>4, MatchFile
<1>5. ASSUME returns PROVE MatchInv'
  BY <1>5, MatchQuiet DEF returns, files, loaded
<1>6. ASSUME UNCHANGED vars PROVE MatchInv'
  BY <1>0, <1>6, MatchQuiet DEF vars, IdleDone
<1> QED BY <1>1, <1>2, <1>3, <1>4, <1>5, <1>6, MatchScan, MatchReload, MatchScanNext, MatchReloadNext DEF Next

(* What is loaded when nothing is planned is what can be used.             *)
LEMMA MatchGives == IndInv /\ MatchInv => CatalogMatchesDisk
<1> SUFFICES ASSUME IndInv, MatchInv, op = "idle", settled PROVE CatalogMatchesDisk
  BY DEF CatalogMatchesDisk
<1> DEFINE File(p, f) == [path |-> p, family |-> f, descr |-> disk[p].image, image |-> disk[p].image,
                          mtime |-> disk[p].mtime]
           Fit == {q \in (Range(Paths) \ replaced) \X Families :
                     DirOf[q[1]] = dir /\ disk[q[1]].image # 0 /\ Usable(disk[q[1]].image, q[2])}
           Entry(f, i) == [path |-> catalog[f][i].path, family |-> f, descr |-> catalog[f][i].descr,
                           image |-> libs[catalog[f][i].lib].image, mtime |-> catalog[f][i].mtime]
<1>0. /\ plan = <<>> /\ InStep /\ EntryCurrent /\ MappedCurrent /\ Backed(catalog)
      /\ Libraries(catalog) \subseteq open /\ DiskOK
  BY DEF MatchInv, IdleDone, IndInv, Owned, RestOK
<1>1. ASSUME NEW f \in Families, NEW i \in DOMAIN catalog[f], NEW p, p = catalog[f][i].path, p \notin replaced
      PROVE  Entry(f, i) = File(p, f) /\ p \in Range(Paths) /\ OnDisk(p) /\ Usable(disk[p].image, f)
  <2>1. p \in Range(Paths) /\ OnDisk(p) /\ catalog[f][i].mtime = disk[p].mtime
    BY <1>0, <1>1, MtimeTypes DEF InStep, Planned
  <2>2. Current(p)
    BY <1>1, <2>1 DEF Current, OnDisk
  <2>3. /\ catalog[f][i].descr = disk[p].image /\ inspectPluginDso(catalog[f][i].descr) = <<f>>
        /\ loads(libs[catalog[f][i].lib].image, f)
    BY <1>0, <1>1, <2>2 DEF EntryCurrent
  <2>4. libs[catalog[f][i].lib].image = disk[p].image
    <3>1. catalog[f][i].lib \in open /\ libs[catalog[f][i].lib].path = p
      BY <1>0, <1>1 DEF Backed, Libraries
    <3> QED BY <1>0, <2>2, <3>1 DEF MappedCurrent
  <2>5. disk[p].image \in 1 .. Len(Image)
    BY <1>0, <2>1, DiskImage DEF OnDisk
  <2>6. Usable(disk[p].image, f)
    BY <2>3, <2>4, <2>5, UsableIff
  <2> QED BY <1>1, <2>1, <2>3, <2>4, <2>6
<1>2. ASSUME NEW e \in Loaded, e.path \notin replaced PROVE \E pf \in Fit : e = File(pf[1], pf[2])
  <2>1. PICK f \in Families : \E i \in DOMAIN catalog[f] : e = Entry(f, i)
    BY DEF Loaded
  <2>2. PICK i \in DOMAIN catalog[f] : e = Entry(f, i)
    BY <2>1
  <2>3. PICK p : p = catalog[f][i].path
    OBVIOUS
  <2>4. p \notin replaced
    BY <1>2, <2>2, <2>3
  <2>5. e = File(p, f) /\ p \in Range(Paths) /\ OnDisk(p) /\ Usable(disk[p].image, f)
    BY <1>1, <2>2, <2>3, <2>4
  <2>6. <<p, f>> \in Fit
    BY <2>4, <2>5 DEF OnDisk
  <2> HIDE DEF Fit
  <2> QED BY <2>5, <2>6
<1>3. ASSUME NEW pf \in Fit PROVE File(pf[1], pf[2]) \in Loaded /\ File(pf[1], pf[2]).path \notin replaced
  <2>1. PICK p \in Range(Paths) \ replaced, f \in Families : pf = <<p, f>>
    OBVIOUS
  <2>2. OnDisk(p) /\ Usable(disk[p].image, f)
    BY <2>1 DEF OnDisk
  <2>3. PICK i \in DOMAIN catalog[f] : catalog[f][i].path = p
    BY <1>0, <2>1, <2>2 DEF InStep, Planned
  <2>4. Entry(f, i) = File(p, f)
    BY <1>1, <2>1, <2>3
  <2>5. Entry(f, i) \in Loaded
    BY DEF Loaded
  <2>6. File(pf[1], pf[2]) = File(p, f) /\ File(p, f).path = p
    BY <2>1
  <2> QED BY <2>1, <2>4, <2>5, <2>6
<1>4. {e \in Loaded : e.path \notin replaced} = {File(pf[1], pf[2]) : pf \in Fit}
  <2> HIDE DEF File, Fit
  <2> QED BY <1>2, <1>3
<1> QED BY <1>4 DEF CatalogMatchesDisk

(* "Reconciles loaded state with disk", for any directory contents,        *)
(* images and instances: a scan or reload during which no file changed     *)
(* leaves exactly the usable plugins of the directory, each described and  *)
(* loaded from the image its file has now; files that were replaced while  *)
(* their library was loaded or about to be are left out.                   *)
THEOREM CatalogAlwaysMatchesDisk == Spec => []CatalogMatchesDisk
<1>1. Spec => []MatchInv
  BY InvAlways, MatchInit, MatchStep, PTL DEF Spec
<1> QED BY <1>1, InvAlways, MatchGives, PTL
=============================================================================
