--------------------------- MODULE LspUnits_proofs ---------------------------
(***************************************************************************)
(* Theorems about the units of the language server, its types, its panics   *)
(* and the diagnostics it shows, for every workspace and every bound.        *)
(*                                                                         *)
(* The files of a unit are the paths of includes from its root.  BuildFiles  *)
(* gives each a handle; handles of distinct units stay distinct however the  *)
(* units come and go (UnitsStayApart), and a file leads to its root by its    *)
(* parents.  From this follow the types (TypesHold), and in an environment   *)
(* that is calm that no handle is ever followed to a file or a unit that is   *)
(* gone, and to a node that is gone only by a request that comes between a    *)
(* Reprocess and the analysis after it (CalmPanicsOnStaleNodes,               *)
(* CalmIndexReachesRoots); and that the diagnostics pushed to the editor are  *)
(* those of the texts (CalmViewIsTrue, CalmPushIsAuthoritative): each unit is *)
(* what the texts call for, or a task in the queue will build it again        *)
(* (Truth).                                                                *)
(***************************************************************************)
EXTENDS LspServer_proofs, IdMap_proofs

\* The orders of a finite set list each of its members once.
LEMMA OrderFacts ==
    ASSUME NEW S, IsFiniteSet(S), NEW order \in SetToSeqs(S)
    PROVE  /\ order \in Seq(S) /\ Len(order) = Cardinality(S)
           /\ ToSet(order) = S
           /\ \A x \in S : \E i \in 1..Len(order) : order[i] = x
           /\ \A i, j \in 1..Len(order) : order[i] = order[j] => i = j
  <1> DEFINE D == 1..Cardinality(S)
  <1>1. Cardinality(S) \in Nat
    BY FS_CardinalityType
  <1>2. order \in [D -> S] /\ \A i, j \in D : i # j => order[i] # order[j]
    BY DEF SetToSeqs
  <1>3. order \in Seq(S) /\ Len(order) = Cardinality(S)
    BY <1>1, <1>2
  <1>4. IsFiniteSet(D) /\ Cardinality(D) = Cardinality(S)
    BY <1>1, FS_Interval
  <1>5. order \in Injection(D, S)
    BY <1>2 DEF Injection, IsInjective
  <1>6. order \in Surjection(D, S)
    BY <1>4, <1>5, FS_Injection
  <1>7. \A x \in S : \E i \in D : order[i] = x
    BY <1>6 DEF Surjection
  <1>8. ToSet(order) = S
    BY <1>2, <1>7 DEF ToSet
  <1> QED  BY <1>2, <1>3, <1>7, <1>8

\* There are finitely many paths.
LEMMA PathsFinite == IsFiniteSet(Paths)
  <1> DEFINE N == Cardinality(Uris)
             graph(p) == {<<i, p[i]>> : i \in DOMAIN p}
             All == (1..N) \X Uris
             g == [p \in Paths |-> graph(p)]
  <1>1. IsFiniteSet(Uris) /\ N \in Nat
    BY UrisAssumption, FS_CardinalityType
  <1>2. IsFiniteSet(1..N)
    BY <1>1, FS_Interval
  <1>3. IsFiniteSet(All)
    BY <1>1, <1>2, FS_Product
  <1>4. IsFiniteSet(SUBSET All)
    BY <1>3, FS_SUBSET
  <1>5. ASSUME NEW p \in Paths
        PROVE  \E n \in 1..N : p \in [1..n -> Uris]
    BY DEF Paths
  <1>6. \A p \in Paths : graph(p) \in SUBSET All
    <2> SUFFICES ASSUME NEW p \in Paths PROVE graph(p) \in SUBSET All
      OBVIOUS
    <2>1. PICK n \in 1..N : p \in [1..n -> Uris]
      BY <1>5
    <2>2. \A i \in 1..n : i \in 1..N /\ p[i] \in Uris
      BY <1>1, <2>1
    <2> QED  BY <2>1, <2>2
  <1>7. ASSUME NEW p \in Paths, NEW q \in Paths, graph(p) = graph(q) PROVE p = q
    <2>1. PICK n \in 1..N : p \in [1..n -> Uris]
      BY <1>5
    <2>2. PICK k \in 1..N : q \in [1..k -> Uris]
      BY <1>5
    <2>3. \A i \in DOMAIN p : i \in DOMAIN q /\ q[i] = p[i]
      <3> SUFFICES ASSUME NEW i \in DOMAIN p PROVE i \in DOMAIN q /\ q[i] = p[i]
        OBVIOUS
      <3>1. <<i, p[i]>> \in graph(q)
        BY <1>7
      <3> QED  BY <3>1
    <2>4. \A i \in DOMAIN q : i \in DOMAIN p /\ q[i] = p[i]
      <3> SUFFICES ASSUME NEW i \in DOMAIN q PROVE i \in DOMAIN p /\ q[i] = p[i]
        OBVIOUS
      <3>1. <<i, q[i]>> \in graph(p)
        BY <1>7
      <3> QED  BY <3>1
    <2>5. DOMAIN p = DOMAIN q
      BY <2>3, <2>4
    <2> QED  BY <2>1, <2>2, <2>3, <2>5
  <1>8. g \in Injection(Paths, SUBSET All)
    <2> HIDE DEF All
    <2>1. g \in [Paths -> SUBSET All]
      BY <1>6
    <2>2. \A p, q \in Paths : g[p] = g[q] => p = q
      <3> HIDE DEF graph
      <3> QED  BY <1>7
    <2> HIDE DEF g
    <2> QED  BY <2>1, <2>2 DEF Injection, IsInjective
  <1> HIDE DEF g, All
  <1> QED  BY <1>4, <1>8, FS_Injection

\* A path is a nonempty sequence of documents.
LEMMA PathFacts ==
    ASSUME NEW p \in Paths
    PROVE  /\ p \in Seq(Uris) /\ Len(p) \in Nat \ {0}
           /\ Last(p) \in Uris /\ p[1] \in Uris
           /\ \A i \in 1..Len(p) : p[i] \in Uris
           /\ Len(p) = 1 => p = <<p[1]>>
           /\ <<p[1]>> \in Paths
  <1>1. Cardinality(Uris) \in Nat
    BY UrisAssumption, FS_CardinalityType
  <1>2. PICK n \in 1..Cardinality(Uris) : p \in [1..n -> Uris] /\ IsInjective(p)
    BY DEF Paths
  <1>3. p \in Seq(Uris) /\ Len(p) = n /\ n \in Nat \ {0}
    BY <1>1, <1>2
  <1>4. \A i \in 1..n : p[i] \in Uris
    BY <1>2
  <1>5. Last(p) \in Uris /\ p[1] \in Uris
    BY <1>3, <1>4 DEF Last
  <1>6. ASSUME NEW v \in Uris PROVE <<v>> \in Paths
    <2>1. Cardinality(Uris) # 0
      BY UrisAssumption, FS_EmptySet
    <2>2. 1 \in 1..Cardinality(Uris)
      BY <1>1, <2>1
    <2>3. <<v>> \in [1..1 -> Uris] /\ IsInjective(<<v>>)
      BY DEF IsInjective
    <2> QED  BY <2>2, <2>3 DEF Paths
  <1>7. Len(p) = 1 => p = <<p[1]>>
    BY <1>3
  <1> QED  BY <1>3, <1>4, <1>5, <1>6, <1>7

\* What leads to a path, down to its root, is a path.
LEMMA PrefixFacts ==
    ASSUME NEW p \in Paths, NEW k \in 1..Len(p)
    PROVE  /\ SubSeq(p, 1, k) \in Paths
           /\ Len(SubSeq(p, 1, k)) = k
           /\ \A i \in 1..k : SubSeq(p, 1, k)[i] = p[i]
           /\ Last(SubSeq(p, 1, k)) = p[k]
           /\ SubSeq(p, 1, 1) = <<p[1]>>
  <1> DEFINE N == Cardinality(Uris)
  <1>1. N \in Nat
    BY UrisAssumption, FS_CardinalityType
  <1>2. PICK n \in 1..N : p \in [1..n -> Uris] /\ IsInjective(p)
    BY DEF Paths
  <1>3. p \in Seq(Uris) /\ Len(p) = n /\ n \in Nat \ {0}
    BY <1>1, <1>2
  <1>4. \A i \in 1..n : p[i] \in Uris
    BY <1>2
  <1>5. Last(p) \in Uris /\ p[1] \in Uris
    BY <1>3, <1>4 DEF Last
  <1>6. ASSUME NEW j \in 1..n
        PROVE  /\ SubSeq(p, 1, j) \in Paths /\ Len(SubSeq(p, 1, j)) = j
               /\ \A i \in 1..j : SubSeq(p, 1, j)[i] = p[i]
               /\ Last(SubSeq(p, 1, j)) = p[j]
    <2> DEFINE s == SubSeq(p, 1, j)
    <2>1. j \in 1..N /\ \A i \in 1..j : i \in 1..n
      BY <1>1, <1>2
    <2>2. s \in [1..j -> Uris] /\ \A i \in 1..j : s[i] = p[i]
      <3>1. /\ s \in Seq(Uris) /\ Len(s) = j
            /\ \A i \in 1..j : s[i] = p[i]
        <4> HIDE DEF N
        <4> QED  BY <1>1, <1>2, <1>3, <1>4, <2>1, SubSeqProperties
      <3> HIDE DEF s
      <3> QED  BY <3>1
    <2>3. Len(s) = j
      BY <2>1, <2>2
    <2>4. IsInjective(s)
      BY <1>2, <2>1, <2>2 DEF IsInjective
    <2>5. s \in Paths
      BY <2>1, <2>2, <2>4 DEF Paths
    <2> HIDE DEF s
    <2> QED  BY <2>1, <2>2, <2>3, <2>5 DEF Last, s
  <1>7. 1 \in 1..n
    BY <1>3
  <1>8. SubSeq(p, 1, 1) = <<p[1]>>
    <2> DEFINE s == SubSeq(p, 1, 1)
    <2>1. 1 \in 1..1 /\ p[1] \in Uris
      BY <1>4, <1>7
    <2>2. Len(s) = 1 /\ s[1] = p[1] /\ s \in Paths
      BY <1>6, <1>7, <2>1
    <2> HIDE DEF s
    <2>3. s \in Seq(Uris) /\ <<p[1]>> \in Seq(Uris) /\ Len(<<p[1]>>) = 1 /\ <<p[1]>>[1] = p[1]
      <3>2. s \in Seq(Uris)
        BY <2>2, PathFacts
      <3>3. ASSUME NEW v \in Uris PROVE <<v>> \in Seq(Uris) /\ Len(<<v>>) = 1 /\ <<v>>[1] = v
        OBVIOUS
      <3> QED  BY <2>1, <3>2, <3>3
    <2>4. s = <<p[1]>>
      BY <2>2, <2>3, SeqEqual
    <2> QED  BY <2>4 DEF s
  <1> QED  BY <1>3, <1>6, <1>8

\* A forest holds with a path what leads to it.
LEMMA ForestFacts ==
    ASSUME NEW roots, NEW texts
    PROVE  /\ IncludeForest(roots, texts) \subseteq Paths
           /\ IsFiniteSet(IncludeForest(roots, texts))
           /\ \A p \in IncludeForest(roots, texts) :
                 /\ p[1] \in roots
                 /\ texts[Last(p)] # Missing
                 /\ <<p[1]>> \in IncludeForest(roots, texts)
                 /\ Len(p) # 1 => Front(p) \in IncludeForest(roots, texts)
                 /\ \A k \in 1..Len(p) : SubSeq(p, 1, k) \in IncludeForest(roots, texts)
  <1> DEFINE F == IncludeForest(roots, texts)
  <1>1. F \subseteq Paths
    BY DEF IncludeForest
  <1>2. IsFiniteSet(F)
    <2> HIDE DEF F
    <2> QED  BY <1>1, PathsFinite, FS_Subset
  <1>3. ASSUME NEW p \in F, NEW k \in 1..Len(p)
        PROVE  SubSeq(p, 1, k) \in F
    <2> DEFINE s == SubSeq(p, 1, k)
    <2>1. p \in Paths
      BY <1>1
    <2>2. /\ s \in Paths /\ Len(s) = k /\ \A i \in 1..k : s[i] = p[i]
          /\ Len(p) \in Nat \ {0} /\ 1 \in 1..k
      <3>1. Len(p) \in Nat \ {0}
        BY <2>1, PathFacts
      <3> QED  BY <2>1, <3>1, PrefixFacts
    <2> HIDE DEF s
    <2>3. s[1] \in roots
      BY <2>2 DEF IncludeForest
    <2>4. \A i \in 1..Len(s) : texts[s[i]] # Missing
      BY <2>2 DEF IncludeForest
    <2>5. \A i \in 1..(Len(s) - 1) : s[i + 1] \in texts[s[i]].inc
      <3> SUFFICES ASSUME NEW i \in 1..(Len(s) - 1) PROVE s[i + 1] \in texts[s[i]].inc
        OBVIOUS
      <3>1. i \in 1..k /\ i + 1 \in 1..k /\ i \in 1..(Len(p) - 1)
        BY <2>2
      <3> QED  BY <2>2, <3>1 DEF IncludeForest
    <2> QED  BY <2>2, <2>3, <2>4, <2>5 DEF s, IncludeForest
  <1>4. ASSUME NEW p \in F
        PROVE  /\ p[1] \in roots /\ texts[Last(p)] # Missing
               /\ <<p[1]>> \in F
               /\ Len(p) # 1 => Front(p) \in F
    <2>1. p \in Paths
      BY <1>1
    <2>2. Len(p) \in Nat \ {0} /\ 1 \in 1..Len(p) /\ Len(p) \in 1..Len(p)
      <3>1. Len(p) \in Nat \ {0}
        BY <2>1, PathFacts
      <3> HIDE DEF F
      <3> QED  BY <3>1
    <2>3. SubSeq(p, 1, 1) = <<p[1]>>
      BY <2>1, <2>2, PrefixFacts
    <2>4. SubSeq(p, 1, 1) \in F
      BY <1>3, <2>2
    <2>5. Len(p) # 1 => Front(p) \in F
      <3>1. Len(p) # 1 => Len(p) - 1 \in 1..Len(p)
        <4> HIDE DEF F
        <4> QED  BY <2>2
      <3> QED  BY <1>3, <3>1 DEF Front
    <2>6. p[1] \in roots /\ texts[Last(p)] # Missing
      BY <2>2 DEF IncludeForest, Last
    <2> QED  BY <2>3, <2>4, <2>5, <2>6
  <1> QED  BY <1>1, <1>2, <1>3, <1>4

\* What the context knows of a file.
FileData == [uri : Uris, text : Text, parent : SUBSET Nat]

\* The files S of the map m are a unit with the root r: they stand for the paths
\* of F, one each, and every file but the root has the one above it as parent.
UnitOf(m, r, S, F) ==
    \E f \in [F -> S] :
        /\ \A h \in S : \E p \in F : f[p] = h
        /\ \A p, q \in F : f[p] = f[q] => p = q
        /\ \A p \in F :
              /\ f[p] \in Live(m)
              /\ m.store[f[p]].uri = Last(p)
              /\ IF Len(p) = 1
                 THEN f[p] = r /\ m.store[f[p]].parent = {}
                 ELSE Front(p) \in F /\ m.store[f[p]].parent = {f[Front(p)]}

\* The handles of a build: one for each path, none of them in use.
LEMMA HandleFacts ==
    ASSUME NEW m, MapOf(m, FileData), Separate(m),
           NEW F \in SUBSET Paths, NEW order \in SetToSeqs(F)
    PROVE  /\ ToSet(order) = F /\ Len(order) = Cardinality(F)
           /\ \A p \in F : /\ HandleAt(m, order, p) \in Nat
                           /\ HandleAt(m, order, p) \notin Live(m)
                           /\ \E i \in 1..Len(order) : /\ order[i] = p
                                                       /\ HandleAt(m, order, p) = NthKey(m, i)
           /\ \A i \in 1..Len(order) : /\ order[i] \in F
                                       /\ HandleAt(m, order, order[i]) = NthKey(m, i)
           /\ \A p, q \in F : HandleAt(m, order, p) = HandleAt(m, order, q) => p = q
  <1>1. IsFiniteSet(F)
    BY PathsFinite, FS_Subset
  <1>2. /\ order \in Seq(F) /\ Len(order) = Cardinality(F)
        /\ ToSet(order) = F
        /\ \A x \in F : \E i \in 1..Len(order) : order[i] = x
        /\ \A i, j \in 1..Len(order) : order[i] = order[j] => i = j
    BY <1>1, OrderFacts
  <1>3. ASSUME NEW i \in 1..Len(order)
        PROVE  order[i] \in F /\ HandleAt(m, order, order[i]) = NthKey(m, i)
    <2>1. (CHOOSE j \in 1..Len(order) : order[j] = order[i]) = i
      BY <1>2
    <2> QED  BY <1>2, <2>1 DEF HandleAt
  <1>4. ASSUME NEW p \in F
        PROVE  \E i \in 1..Len(order) : order[i] = p /\ HandleAt(m, order, p) = NthKey(m, i)
    BY <1>2, <1>3
  <1>5. \A i \in 1..Len(order) : i \in Nat \ {0}
    BY <1>2
  <1>6. ASSUME NEW p \in F
        PROVE  HandleAt(m, order, p) \in Nat /\ HandleAt(m, order, p) \notin Live(m)
    BY <1>4, <1>5, NthKeyFree
  <1>7. ASSUME NEW p \in F, NEW q \in F, HandleAt(m, order, p) = HandleAt(m, order, q)
        PROVE  p = q
    <2>1. PICK i \in 1..Len(order) : order[i] = p /\ HandleAt(m, order, p) = NthKey(m, i)
      BY <1>4
    <2>2. PICK j \in 1..Len(order) : order[j] = q /\ HandleAt(m, order, q) = NthKey(m, j)
      BY <1>4
    <2>3. i = j
      BY <1>5, <1>7, <2>1, <2>2, NthKeyFree
    <2> QED  BY <2>1, <2>2, <2>3
  <1> QED  BY <1>2, <1>3, <1>4, <1>6, <1>7

\* What new_translation_unit_cache puts in the context.
LEMMA BuildFilesFacts ==
    ASSUME NEW m, MapOf(m, FileData), Separate(m),
           NEW roots, NEW texts \in Disk, NEW F, F = IncludeForest(roots, texts),
           NEW order \in SetToSeqs(F)
    PROVE  /\ MapOf(BuildFiles(m, order, texts), FileData)
           /\ Separate(BuildFiles(m, order, texts))
           /\ Live(BuildFiles(m, order, texts))
                = Live(m) \cup {HandleAt(m, order, p) : p \in F}
           /\ \A k \in Live(m) : BuildFiles(m, order, texts).store[k] = m.store[k]
           /\ \A p \in F : BuildFiles(m, order, texts).store[HandleAt(m, order, p)]
                = [uri    |-> Last(p),
                   text   |-> texts[Last(p)],
                   parent |-> IF Len(p) = 1 THEN {}
                              ELSE {HandleAt(m, order, Front(p))}]
  <1> DEFINE H(p) == HandleAt(m, order, p)
             data(p) == [uri    |-> Last(p),
                         text   |-> texts[Last(p)],
                         parent |-> IF Len(p) = 1 THEN {} ELSE {H(Front(p))}]
             vs == [i \in 1..Len(order) |-> data(order[i])]
             b == BuildFiles(m, order, texts)
  <1>1. /\ F \subseteq Paths /\ IsFiniteSet(F)
        /\ \A p \in F : texts[Last(p)] # Missing /\ (Len(p) # 1 => Front(p) \in F)
    BY ForestFacts
  <1>2. /\ \A p \in F : H(p) \in Nat /\ \E i \in 1..Len(order) : order[i] = p /\ H(p) = NthKey(m, i)
        /\ \A i \in 1..Len(order) : order[i] \in F /\ H(order[i]) = NthKey(m, i)
    BY <1>1, HandleFacts
  <1>3. Len(order) \in Nat /\ order \in Seq(F)
    BY <1>1, OrderFacts
  <1> HIDE DEF H
  <1>4. \A p \in F : data(p) \in FileData
    <2> SUFFICES ASSUME NEW p \in F PROVE data(p) \in FileData
      OBVIOUS
    <2>1. Last(p) \in Uris
      BY <1>1, PathFacts
    <2>2. texts[Last(p)] \in Text
      BY <1>1, <2>1 DEF Disk
    <2>3. (IF Len(p) = 1 THEN {} ELSE {H(Front(p))}) \in SUBSET Nat
      BY <1>1, <1>2
    <2> QED  BY <2>1, <2>2, <2>3 DEF FileData
  <1>5. vs \in Seq(FileData) /\ Len(vs) = Len(order) /\ \A i \in 1..Len(order) : vs[i] = data(order[i])
    <2> HIDE DEF data
    <2>1. \A i \in 1..Len(order) : data(order[i]) \in FileData
      BY <1>2, <1>4
    <2> QED  BY <1>3, <2>1
  <1>6. b = PushAll(m, vs)
    BY DEF BuildFiles, H
  <1> HIDE DEF vs, b
  <1>7. /\ MapOf(b, FileData) /\ Separate(b)
        /\ Live(b) = Live(m) \cup {NthKey(m, i) : i \in 1..Len(order)}
        /\ \A i \in 1..Len(order) : b.store[NthKey(m, i)] = data(order[i])
        /\ \A k \in Live(m) : b.store[k] = m.store[k]
    <2>1. /\ MapOf(PushAll(m, vs), FileData)
          /\ Separate(PushAll(m, vs))
          /\ Live(PushAll(m, vs)) = Live(m) \cup {NthKey(m, i) : i \in 1..Len(vs)}
          /\ \A i \in 1..Len(vs) : Get(PushAll(m, vs), NthKey(m, i)) = vs[i]
          /\ \A k \in Live(m) : Get(PushAll(m, vs), k) = Get(m, k)
      <3>1. vs \in Seq(FileData)
        BY <1>5
      <3> HIDE DEF data
      <3> QED  BY <3>1, PushAllFacts
    <2> HIDE DEF data
    <2> QED  BY <1>5, <1>6, <2>1 DEF Get
  <1>8. {NthKey(m, i) : i \in 1..Len(order)} = {H(p) : p \in F}
    BY <1>2
  <1>9. \A p \in F : b.store[H(p)] = data(p)
    <2> HIDE DEF data
    <2> QED  BY <1>2, <1>7
  <1> QED  BY <1>7, <1>8, <1>9 DEF b, H

FilesOf(c) == UNION {c[r] : r \in DOMAIN c}

\* What building the units of the roots adds to a map m: b is the map, c the
\* cache of the new units, apart, each with the forest of its root.
Built(m, roots, texts, order, b, c) ==
    /\ MapOf(b, FileData) /\ Separate(b)
    /\ Live(b) = Live(m) \cup FilesOf(c)
    /\ FilesOf(c) \cap Live(m) = {}
    /\ FilesOf(c) = {NthKey(m, i) : i \in 1..Len(order)}
    /\ Len(order) = Cardinality(IncludeForest(roots, texts))
    /\ \A k \in Live(m) : b.store[k] = m.store[k]
    /\ DOMAIN c \subseteq Nat /\ c \in [DOMAIN c -> SUBSET Nat]
    /\ \A r, q \in DOMAIN c : /\ r \in c[r]
                              /\ r # q => c[r] \cap c[q] = {}
                              /\ b.store[r].uri = b.store[q].uri => r = q
    /\ \A r \in DOMAIN c :
          /\ b.store[r].uri \in roots
          /\ UnitOf(b, r, c[r], IncludeForest({b.store[r].uri}, texts))
    /\ \A u \in roots \cap Uris : texts[u] # Missing =>
          \E r \in DOMAIN c : b.store[r].uri = u
    /\ \A h \in FilesOf(c) : b.store[h].text = texts[b.store[h].uri]

\* What new_translation_unit_cache puts in the cache: units that are apart, made
\* of the files that it put in the context, each with the forest of its root.
LEMMA BuildUnits ==
    ASSUME NEW m, MapOf(m, FileData), Separate(m),
           NEW roots, NEW texts \in Disk, NEW F, F = IncludeForest(roots, texts),
           NEW order \in SetToSeqs(F), NEW b, b = BuildFiles(m, order, texts),
           NEW c, c = BuildCache(m, order)
    PROVE  Built(m, roots, texts, order, b, c)
  <1> DEFINE H(p) == HandleAt(m, order, p)
             root(p) == H(<<p[1]>>)
             unit(h) == {H(p) : p \in {q \in F : root(q) = h}}
  <1>1. /\ F \subseteq Paths
        /\ \A p \in F : /\ p[1] \in roots /\ texts[Last(p)] # Missing
                        /\ <<p[1]>> \in F
                        /\ Len(p) # 1 => Front(p) \in F
    BY ForestFacts
  <1>2. /\ ToSet(order) = F /\ Len(order) = Cardinality(F)
        /\ \A p \in F : H(p) \in Nat /\ H(p) \notin Live(m)
                        /\ \E i \in 1..Len(order) : order[i] = p /\ H(p) = NthKey(m, i)
        /\ \A i \in 1..Len(order) : order[i] \in F /\ H(order[i]) = NthKey(m, i)
        /\ \A p, q \in F : H(p) = H(q) => p = q
    BY <1>1, HandleFacts
  <1>3. /\ MapOf(b, FileData) /\ Separate(b)
        /\ Live(b) = Live(m) \cup {H(p) : p \in F}
        /\ \A k \in Live(m) : b.store[k] = m.store[k]
        /\ \A p \in F : b.store[H(p)]
                = [uri    |-> Last(p),
                   text   |-> texts[Last(p)],
                   parent |-> IF Len(p) = 1 THEN {} ELSE {H(Front(p))}]
    BY BuildFilesFacts
  <1>4. c = [h \in {root(p) : p \in F} |-> unit(h)]
    BY <1>2 DEF BuildCache, RootPath
  <1> HIDE DEF H
  <1>P. \A p \in F : /\ b.store[H(p)].uri = Last(p)
                     /\ b.store[H(p)].text = texts[Last(p)]
                     /\ b.store[H(p)].parent = IF Len(p) = 1 THEN {} ELSE {H(Front(p))}
    <2> SUFFICES ASSUME NEW p \in F
                 PROVE  /\ b.store[H(p)].uri = Last(p)
                        /\ b.store[H(p)].text = texts[Last(p)]
                        /\ b.store[H(p)].parent = IF Len(p) = 1 THEN {} ELSE {H(Front(p))}
      OBVIOUS
    <2>1. b.store[H(p)] = [uri    |-> Last(p),
                           text   |-> texts[Last(p)],
                           parent |-> IF Len(p) = 1 THEN {} ELSE {H(Front(p))}]
      BY <1>3
    <2> QED  BY <2>1
  <1>5. \A p, q \in F : root(p) = root(q) <=> p[1] = q[1]
    <2> SUFFICES ASSUME NEW p \in F, NEW q \in F
                 PROVE  root(p) = root(q) <=> p[1] = q[1]
      OBVIOUS
    <2>1. <<p[1]>> \in F /\ <<q[1]>> \in F
      BY <1>1
    <2>2. root(p) = root(q) => <<p[1]>> = <<q[1]>>
      BY <1>2, <2>1
    <2> QED  BY <2>2
  <1>R. \A p \in F : <<p[1]>> \in F /\ root(p) = H(<<p[1]>>)
    BY <1>1
  <1> HIDE DEF root
  <1>6. \A p \in F : root(p) \in DOMAIN c /\ H(p) \in c[root(p)]
    BY <1>4
  <1>7. \A r \in DOMAIN c : \A h \in c[r] : \E p \in F : h = H(p) /\ root(p) = r
    BY <1>4
  <1>8. \A r \in DOMAIN c : \E p \in F : r = root(p)
    BY <1>4
  <1> HIDE DEF unit
  <1>9. FilesOf(c) = {H(p) : p \in F}
    BY <1>6, <1>7 DEF FilesOf
  <1>10. {H(p) : p \in F} = {NthKey(m, i) : i \in 1..Len(order)}
    BY <1>2
  <1>11. DOMAIN c \subseteq Nat /\ c \in [DOMAIN c -> SUBSET Nat]
    <2>1. DOMAIN c \subseteq Nat
      <3>1. \A p \in F : root(p) \in Nat
        BY <1>2, <1>R
      <3> QED  BY <1>8, <3>1
    <2>2. \A r \in DOMAIN c : c[r] \in SUBSET Nat
      BY <1>2, <1>7
    <2>3. c = [h \in DOMAIN c |-> c[h]]
      BY <1>4
    <2> QED  BY <2>1, <2>2, <2>3
  \* the root of a unit
  <1>12. \A p \in F : /\ b.store[root(p)].uri = p[1]
                      /\ <<p[1]>> \in F /\ root(<<p[1]>>) = root(p)
    <2> SUFFICES ASSUME NEW p \in F
                 PROVE  b.store[root(p)].uri = p[1] /\ <<p[1]>> \in F /\ root(<<p[1]>>) = root(p)
      OBVIOUS
    <2>1. Last(<<p[1]>>) = p[1] /\ <<p[1]>>[1] = p[1]
      BY DEF Last
    <2> QED  BY <1>P, <1>R, <2>1
  <1>13. ASSUME NEW r \in DOMAIN c, NEW q \in DOMAIN c
         PROVE  /\ r \in c[r]
                /\ r # q => c[r] \cap c[q] = {}
                /\ b.store[r].uri = b.store[q].uri => r = q
    <2>1. r \in c[r]
      <3>1. PICK p \in F : r = root(p)
        BY <1>8
      <3>2. <<p[1]>> \in F /\ root(<<p[1]>>) = r /\ r = H(<<p[1]>>)
        BY <1>12, <1>R, <3>1
      <3> QED  BY <1>6, <3>2
    <2>2. r # q => c[r] \cap c[q] = {}
      BY <1>2, <1>7
    <2>3. b.store[r].uri = b.store[q].uri => r = q
      <3>1. PICK x \in F : r = root(x)
        BY <1>8
      <3>2. PICK y \in F : q = root(y)
        BY <1>8
      <3>3. b.store[r].uri = x[1] /\ b.store[q].uri = y[1]
        BY <1>12, <3>1, <3>2
      <3> QED  BY <1>5, <3>1, <3>2, <3>3
    <2> QED  BY <2>1, <2>2, <2>3
  <1>14. ASSUME NEW r \in DOMAIN c
         PROVE  /\ b.store[r].uri \in roots
                /\ UnitOf(b, r, c[r], IncludeForest({b.store[r].uri}, texts))
    <2>1. PICK o \in F : r = root(o)
      BY <1>8
    <2> DEFINE u == o[1]
               G == IncludeForest({u}, texts)
    <2>2. b.store[r].uri = u /\ u \in roots
      BY <1>1, <1>12, <2>1
    <2>3. \A p : p \in G <=> p \in F /\ p[1] = u
      BY <2>2 DEF IncludeForest
    <2>4. \A p \in F : root(p) = r <=> p[1] = u
      BY <1>5, <2>1
    <2>5. G \subseteq F /\ \A p \in G : Len(p) # 1 => Front(p) \in G
      BY <2>3, ForestFacts
    <2> DEFINE f == [p \in G |-> H(p)]
    <2> HIDE DEF G, u
    <2>6. f \in [G -> c[r]]
      <3>1. \A p \in G : H(p) \in c[r]
        BY <1>6, <2>3, <2>4
      <3> QED  BY <3>1
    <2>7. \A h \in c[r] : \E p \in G : f[p] = h
      BY <1>7, <2>3, <2>4
    <2>8. \A p, q \in G : f[p] = f[q] => p = q
      BY <1>2, <2>5
    <2>9. ASSUME NEW p \in G
          PROVE  /\ f[p] \in Live(b) /\ b.store[f[p]].uri = Last(p)
                 /\ IF Len(p) = 1 THEN f[p] = r /\ b.store[f[p]].parent = {}
                    ELSE Front(p) \in G /\ b.store[f[p]].parent = {f[Front(p)]}
      <3>1. p \in F /\ p \in Paths /\ f[p] = H(p) /\ p[1] = u
        BY <1>1, <2>3
      <3>2. f[p] \in Live(b) /\ b.store[f[p]].uri = Last(p)
        BY <1>3, <1>P, <3>1
      <3>3. CASE Len(p) = 1
        <4>1. p = <<p[1]>>
          BY <3>1, <3>3, PathFacts
        <4>2. f[p] = r
          <5>1. root(p) = r /\ root(p) = H(<<p[1]>>)
            BY <1>R, <2>4, <3>1
          <5> QED  BY <3>1, <4>1, <5>1
        <4> QED  BY <1>P, <3>1, <3>2, <3>3, <4>2
      <3>4. CASE Len(p) # 1
        <4>1. Front(p) \in G /\ f[Front(p)] = H(Front(p))
          BY <2>5, <3>4
        <4> QED  BY <1>P, <3>1, <3>2, <3>4, <4>1
      <3> QED  BY <3>3, <3>4
    <2>10. UnitOf(b, r, c[r], G)
      <3> HIDE DEF f
      <3> QED  BY <2>6, <2>7, <2>8, <2>9 DEF UnitOf
    <2> QED  BY <2>2, <2>10 DEF G
  <1>15. ASSUME NEW u \in roots \cap Uris, texts[u] # Missing
         PROVE  \E r \in DOMAIN c : b.store[r].uri = u
    <2>1. <<u>> \in Paths /\ <<u>>[1] = u /\ Len(<<u>>) = 1
      <3>1. Cardinality(Uris) \in Nat /\ Cardinality(Uris) # 0
        BY UrisAssumption, FS_EmptySet, FS_CardinalityType
      <3>2. 1 \in 1..Cardinality(Uris)
        BY <3>1
      <3>3. <<u>> \in [1..1 -> Uris] /\ IsInjective(<<u>>)
        BY DEF IsInjective
      <3> QED  BY <3>2, <3>3 DEF Paths
    <2>2. <<u>> \in F
      <3>1. \A i \in 1..Len(<<u>>) : i = 1 /\ texts[<<u>>[i]] # Missing
        BY <1>15, <2>1
      <3>2. 1..(Len(<<u>>) - 1) = {}
        BY <2>1
      <3> QED  BY <2>1, <3>1, <3>2 DEF IncludeForest
    <2> QED  BY <1>6, <1>12, <2>1, <2>2
  <1>16. \A h \in FilesOf(c) : b.store[h].text = texts[b.store[h].uri]
    BY <1>P, <1>9
  <1>17. FilesOf(c) \cap Live(m) = {}
    BY <1>2, <1>9
  <1> QED  BY <1>2, <1>3, <1>9, <1>10, <1>11, <1>13, <1>14, <1>15, <1>16, <1>17 DEF Built

\* What diagnostics say, whoever reported them, and those of the unit r.
Reported(D) == {[uri |-> d.uri, error |-> d.error] : d \in D}
OfUnit(D, r) == {d \in D : d.owner = "unit" /\ d.unit = r}
ForestErrors(F, texts) == UNION {UnitErrors(p, texts) : p \in F}

\* What BuildDiagnostics reports belongs to the new units, to each what the
\* parser and the include resolution find in its own files.
LEMMA BuildReports ==
    ASSUME NEW m, MapOf(m, FileData), Separate(m),
           NEW roots, NEW texts \in Disk, NEW F, F = IncludeForest(roots, texts),
           NEW order \in SetToSeqs(F), NEW b, b = BuildFiles(m, order, texts),
           NEW c, c = BuildCache(m, order),
           NEW D, D = BuildDiagnostics(m, order, texts)
    PROVE  /\ \A d \in D : d.owner = "unit" /\ d.unit \in DOMAIN c
           /\ \A r \in DOMAIN c : Reported(OfUnit(D, r))
                = ForestErrors(IncludeForest({b.store[r].uri}, texts), texts)
  <1> DEFINE H(p) == HandleAt(m, order, p)
             root(p) == H(<<p[1]>>)
             diag(p, e) == [owner |-> "unit", unit |-> root(p), uri |-> e.uri, error |-> e.error]
  <1>1. /\ F \subseteq Paths
        /\ \A p \in F : p[1] \in roots /\ <<p[1]>> \in F
    BY ForestFacts
  <1>2. /\ ToSet(order) = F
        /\ \A p, q \in F : H(p) = H(q) => p = q
    BY <1>1, HandleFacts
  <1>3. \A p \in F : b.store[H(p)] = [uri    |-> Last(p),
                                      text   |-> texts[Last(p)],
                                      parent |-> IF Len(p) = 1 THEN {} ELSE {H(Front(p))}]
    BY BuildFilesFacts
  <1>4. DOMAIN c = {root(p) : p \in F}
    BY <1>2 DEF BuildCache, RootPath
  <1>5. D = UNION {{diag(p, e) : e \in UnitErrors(p, texts)} : p \in F}
    BY <1>2 DEF BuildDiagnostics, RootPath
  <1> HIDE DEF H
  <1>6. \A p, q \in F : root(p) = root(q) <=> p[1] = q[1]
    <2> SUFFICES ASSUME NEW p \in F, NEW q \in F
                 PROVE  root(p) = root(q) <=> p[1] = q[1]
      OBVIOUS
    <2>1. <<p[1]>> \in F /\ <<q[1]>> \in F
      BY <1>1
    <2>2. root(p) = root(q) => <<p[1]>> = <<q[1]>>
      BY <1>2, <2>1
    <2> QED  BY <2>2
  <1>7. \A p \in F : b.store[root(p)].uri = p[1]
    <2> SUFFICES ASSUME NEW p \in F PROVE b.store[root(p)].uri = p[1]
      OBVIOUS
    <2>1. <<p[1]>> \in F /\ Last(<<p[1]>>) = p[1]
      BY <1>1 DEF Last
    <2>2. b.store[root(p)] = [uri    |-> Last(<<p[1]>>),
                              text   |-> texts[Last(<<p[1]>>)],
                              parent |-> IF Len(<<p[1]>>) = 1 THEN {} ELSE {H(Front(<<p[1]>>))}]
      BY <1>3, <2>1
    <2>3. b.store[root(p)].uri = Last(<<p[1]>>)
      BY <2>2
    <2> QED  BY <2>1, <2>3
  <1>8. \A p, e : /\ diag(p, e).owner = "unit" /\ diag(p, e).unit = root(p)
                  /\ diag(p, e).uri = e.uri /\ diag(p, e).error = e.error
    OBVIOUS
  <1>9. \A p : \A e \in UnitErrors(p, texts) : [uri |-> e.uri, error |-> e.error] = e
    BY DEF UnitErrors
  <1> HIDE DEF root, diag
  <1>10. \A d \in D : \E p \in F : \E e \in UnitErrors(p, texts) : d = diag(p, e)
    BY <1>5
  <1>11. \A p \in F : \A e \in UnitErrors(p, texts) : diag(p, e) \in D
    BY <1>5
  <1>12. \A d \in D : d.owner = "unit" /\ d.unit \in DOMAIN c
    BY <1>4, <1>8, <1>10
  <1>13. ASSUME NEW r \in DOMAIN c
         PROVE  Reported(OfUnit(D, r))
                = ForestErrors(IncludeForest({b.store[r].uri}, texts), texts)
    <2>1. PICK o \in F : r = root(o)
      BY <1>4
    <2> DEFINE G == IncludeForest({b.store[r].uri}, texts)
    <2>2. \A p : p \in G <=> p \in F /\ root(p) = r
      <3>1. b.store[r].uri = o[1] /\ o[1] \in roots
        BY <1>1, <1>7, <2>1
      <3>2. \A p : p \in G <=> p \in F /\ p[1] = o[1]
        BY <3>1 DEF IncludeForest
      <3> QED  BY <1>6, <2>1, <3>2
    <2> HIDE DEF G
    <2>3. ASSUME NEW x \in Reported(OfUnit(D, r)) PROVE x \in ForestErrors(G, texts)
      <3>1. PICK d \in D : d.unit = r /\ x = [uri |-> d.uri, error |-> d.error]
        BY DEF Reported, OfUnit
      <3>2. PICK p \in F : \E e \in UnitErrors(p, texts) : d = diag(p, e)
        BY <1>10
      <3>P. PICK e \in UnitErrors(p, texts) : d = diag(p, e)
        BY <3>2
      <3>3. p \in G /\ x = e
        BY <1>8, <1>9, <2>2, <3>1, <3>P
      <3> QED  BY <3>3 DEF ForestErrors
    <2>4. ASSUME NEW x \in ForestErrors(G, texts) PROVE x \in Reported(OfUnit(D, r))
      <3>1. PICK p \in G : x \in UnitErrors(p, texts)
        BY DEF ForestErrors
      <3>2. p \in F /\ root(p) = r
        BY <2>2
      <3> DEFINE d == diag(p, x)
      <3>3. /\ d \in D /\ d.owner = "unit" /\ d.unit = r
            /\ [uri |-> d.uri, error |-> d.error] = x
        BY <1>8, <1>9, <1>11, <3>1, <3>2
      <3> HIDE DEF d
      <3> QED  BY <3>3 DEF Reported, OfUnit
    <2> QED  BY <2>3, <2>4 DEF G
  <1> QED  BY <1>12, <1>13

\* A nonempty set of numbers has a least one: what a proof by induction over the
\* length of a path comes down to.
LessThan == {p \in Nat \X Nat : p[1] < p[2]}

\* A set of numbers that is not empty has a least member.
LEMMA LeastNumber ==
    ASSUME NEW T, T \subseteq Nat, T # {}
    PROVE  \E n \in T : \A k \in T : n <= k
  <1>1. IsWellFoundedOn(LessThan, Nat)
    BY NatLessThanWellFounded DEF OpToRel, LessThan
  <1>2. PICK n \in T : \A k \in T : <<k, n>> \notin LessThan
    BY <1>1, WFMin
  <1>3. \A k \in T : n <= k
    <2> SUFFICES ASSUME NEW k \in T, ~(n <= k) PROVE FALSE
      OBVIOUS
    <2>1. k \in Nat /\ n \in Nat
      OBVIOUS
    <2>2. k < n
      BY <2>1
    <2>3. <<k, n>> \in LessThan
      BY <2>1, <2>2 DEF LessThan
    <2> QED  BY <1>2, <2>3
  <1> QED  BY <1>3

\* The units of a cache c in a map m: apart, and each with its tree of files.
UnitsOf(m, c) ==
    /\ DOMAIN c \subseteq Nat /\ c \in [DOMAIN c -> SUBSET Nat]
    /\ \A r, q \in DOMAIN c : r \in c[r] /\ (r # q => c[r] \cap c[q] = {})
    /\ \A r \in DOMAIN c : \E F \in SUBSET Paths : UnitOf(m, r, c[r], F)

\* parent_file leads from every file of a unit to the root of the unit.
LEMMA ParentFileFacts ==
    ASSUME NEW m, NEW c, UnitsOf(m, c), Live(m) = FilesOf(c),
           NEW r \in DOMAIN c, NEW h \in c[r]
    PROVE  parent_file(m, h) = r
  <1> DEFINE up(x) == CHOOSE p \in m.store[x].parent : TRUE
             step(g) == [x \in Live(m) |->
                            IF m.store[x].parent = {} THEN x ELSE g[up(x)]]
             root == CHOOSE g : g = step(g)
             unit(x) == CHOOSE q \in DOMAIN c : x \in c[q]
             w == [x \in Live(m) |-> unit(x)]
  <1>1. parent_file(m, h) = root[h]
    BY DEF parent_file
  <1>2. ASSUME NEW q \in DOMAIN c, NEW x \in c[q]
        PROVE  x \in Live(m) /\ w[x] = q
    <2>1. x \in Live(m)
      BY DEF FilesOf
    <2>2. unit(x) = q
      BY DEF UnitsOf
    <2> HIDE DEF unit
    <2> QED  BY <2>1, <2>2
  <1>3. ASSUME NEW x, NEW y, m.store[x].parent = {y}
        PROVE  m.store[x].parent # {} /\ up(x) = y
    BY <1>3
  <1> HIDE DEF up
  <1>4. w = step(w)
    <2>1. ASSUME NEW x \in Live(m)
          PROVE  w[x] = IF m.store[x].parent = {} THEN x ELSE w[up(x)]
      <3>1. PICK q \in DOMAIN c : x \in c[q]
        BY DEF FilesOf
      <3>2. PICK F \in SUBSET Paths : UnitOf(m, q, c[q], F)
        BY DEF UnitsOf
      <3>3. PICK f \in [F -> c[q]] :
               /\ \A y \in c[q] : \E p \in F : f[p] = y
               /\ \A p \in F : IF Len(p) = 1
                            THEN f[p] = q /\ m.store[f[p]].parent = {}
                            ELSE Front(p) \in F /\ m.store[f[p]].parent = {f[Front(p)]}
        BY <3>2 DEF UnitOf
      <3>4. PICK p \in F : f[p] = x
        BY <3>1, <3>3
      <3>5. w[x] = q
        BY <1>2, <3>1
      <3>6. CASE Len(p) = 1
        BY <3>3, <3>4, <3>5, <3>6
      <3>7. CASE Len(p) # 1
        <4>1. m.store[x].parent # {} /\ up(x) = f[Front(p)] /\ f[Front(p)] \in c[q]
          <5>1. Front(p) \in F /\ m.store[x].parent = {f[Front(p)]}
            BY <3>3, <3>4, <3>7
          <5> QED  BY <1>3, <5>1
        <4>2. w[up(x)] = q
          BY <1>2, <4>1
        <4> QED  BY <3>5, <4>1, <4>2
      <3> QED  BY <3>6, <3>7
    <2>2. w = [x \in Live(m) |-> w[x]]
      OBVIOUS
    <2> HIDE DEF w
    <2> QED  BY <2>1, <2>2
  <1>5. root = step(root)
    <2> HIDE DEF w, step
    <2> QED  BY <1>4
  <1> HIDE DEF root
  <1>6. \A x \in Live(m) : root[x] = IF m.store[x].parent = {} THEN x ELSE root[up(x)]
    BY <1>5
  <1> HIDE DEF w, step, unit
  <1>7. PICK F \in SUBSET Paths : UnitOf(m, r, c[r], F)
    BY DEF UnitsOf
  <1>8. PICK f \in [F -> c[r]] :
           /\ \A y \in c[r] : \E p \in F : f[p] = y
           /\ \A p \in F : IF Len(p) = 1
                        THEN f[p] = r /\ m.store[f[p]].parent = {}
                        ELSE Front(p) \in F /\ m.store[f[p]].parent = {f[Front(p)]}
    BY <1>7 DEF UnitOf
  <1>9. ASSUME NEW p \in F, root[f[p]] # r PROVE FALSE
    <2> DEFINE Bad == {Len(x) : x \in {y \in F : root[f[y]] # r}}
    <2>1. Bad \subseteq Nat /\ Bad # {}
      <3>1. \A y \in F : Len(y) \in Nat
        BY PathFacts
      <3> QED  BY <1>9, <3>1
    <2>2. PICK n \in Bad : \A k \in Bad : n <= k
      BY <2>1, LeastNumber
    <2>3. PICK x \in F : Len(x) = n /\ root[f[x]] # r
      BY <2>2
    <2>4. f[x] \in Live(m)
      BY <1>2
    <2> HIDE DEF Bad
    <2>5. CASE Len(x) = 1
      BY <1>6, <1>8, <2>3, <2>4, <2>5
    <2>6. CASE Len(x) # 1
      <3>1. /\ Front(x) \in F /\ m.store[f[x]].parent # {}
            /\ up(f[x]) = f[Front(x)]
        <4>1. Front(x) \in F /\ m.store[f[x]].parent = {f[Front(x)]}
          BY <1>8, <2>6
        <4> QED  BY <1>3, <4>1
      <3>2. root[f[x]] = root[f[Front(x)]]
        BY <1>6, <2>4, <3>1
      <3>3. Len(Front(x)) \in Bad
        BY <2>3, <3>1, <3>2 DEF Bad
      <3>4. Len(x) \in Nat \ {0}
        BY PathFacts
      <3>5. Len(x) - 1 \in 1..Len(x)
        <4>1. \A l \in Nat \ {0} : l # 1 => l - 1 \in 1..l
          OBVIOUS
        <4> QED  BY <2>6, <3>4, <4>1
      <3>6. Len(Front(x)) = Len(x) - 1
        BY <3>5, PrefixFacts DEF Front
      <3>7. Len(Front(x)) < n
        BY <2>3, <3>4, <3>6
      <3>8. n \in Nat /\ n <= Len(Front(x)) /\ Len(Front(x)) \in Nat
        BY <2>1, <2>2, <3>3
      <3> QED  BY <3>7, <3>8
    <2> QED  BY <2>5, <2>6
  <1> QED  BY <1>1, <1>8, <1>9

\* What the server reads is a text for every document that can be read.
LEMMA VfsTextsFacts ==
    ASSUME disk \in Disk, vfs \in [Uris -> Entry]
    PROVE  /\ VfsTexts \in Disk
           /\ \A u \in Uris : /\ VfsTexts[u] = Contents(vfs, disk, u)
                              /\ Readable(vfs, disk, u) <=> VfsTexts[u] # Missing
                              /\ VfsTexts[u] # Missing => VfsTexts[u] \in Text
  <1>1. \A u \in Uris : Contents(vfs, disk, u) \in Text \cup {Missing}
    BY EntryFacts DEF Contents, Disk, NoFile, Fs, Lsp, Entry
  <1>2. \A u \in Uris : Readable(vfs, disk, u) <=> Contents(vfs, disk, u) # Missing
    BY EntryFacts, UrisAssumption DEF Contents, Readable, Entry, Fs, Lsp, Disk
  <1> QED  BY <1>1, <1>2 DEF VfsTexts, Disk

\* A unit that is left alone stays one.
LEMMA UnitKept ==
    ASSUME NEW m, NEW n, NEW r, NEW S, NEW F, UnitOf(m, r, S, F),
           \A h \in S : h \in Live(n) /\ n.store[h] = m.store[h]
    PROVE  UnitOf(n, r, S, F)
  BY DEF UnitOf

\* The files of a unit are in its map, and as many as the paths of its forest.
LEMMA UnitFacts ==
    ASSUME NEW m, NEW r, NEW S, NEW F \in SUBSET Paths, UnitOf(m, r, S, F)
    PROVE  /\ S \subseteq Live(m)
           /\ {m.store[h].uri : h \in S} = {Last(p) : p \in F}
           /\ \A h \in S : /\ m.store[h].uri \in Uris
                           /\ m.store[h].parent \subseteq S
           /\ IsFiniteSet(S) /\ Cardinality(S) = Cardinality(F)
  <1>1. PICK f \in [F -> S] :
        /\ \A h \in S : \E p \in F : f[p] = h
        /\ \A p, q \in F : f[p] = f[q] => p = q
        /\ \A p \in F :
              /\ f[p] \in Live(m)
              /\ m.store[f[p]].uri = Last(p)
              /\ IF Len(p) = 1
                 THEN f[p] = r /\ m.store[f[p]].parent = {}
                 ELSE Front(p) \in F /\ m.store[f[p]].parent = {f[Front(p)]}
    BY DEF UnitOf
  <1>2. S \subseteq Live(m) /\ {m.store[h].uri : h \in S} = {Last(p) : p \in F}
    BY <1>1
  <1>3. ASSUME NEW h \in S
        PROVE  m.store[h].uri \in Uris /\ m.store[h].parent \subseteq S
    <2>1. PICK p \in F : f[p] = h
      BY <1>1
    <2>2. Last(p) \in Uris
      BY PathFacts
    <2>3. m.store[h].parent \subseteq S
      <3>1. CASE Len(p) = 1
        BY <1>1, <2>1, <3>1
      <3>2. CASE Len(p) # 1
        BY <1>1, <2>1, <3>2
      <3> QED  BY <3>1, <3>2
    <2> QED  BY <1>1, <2>1, <2>2, <2>3
  <1>4. IsFiniteSet(S) /\ Cardinality(S) = Cardinality(F)
    <2>1. IsFiniteSet(F)
      BY PathsFinite, FS_Subset
    <2>2. f \in Injection(F, S) /\ f \in Surjection(F, S)
      BY <1>1 DEF Injection, IsInjective, Surjection
    <2>3. IsFiniteSet(S)
      BY <2>1, <2>2, FS_Surjection
    <2> QED  BY <2>1, <2>2, <2>3, FS_Surjection
  <1> QED  BY <1>2, <1>3, <1>4

\* What a load does, whichever of the two it is: the units of its roots are
\* made in a map m, which holds the locs file if anything; that is released.
LocsDiagnostics ==
    {[owner |-> "locs", unit |-> 0, uri |-> e.uri, error |-> e.error] :
        e \in LocsErrors(VfsTexts)}

LoadMade(kind, roots, loose, m, read, order, b) ==
    /\ order \in SetToSeqs(IncludeForest(roots, VfsTexts))
    /\ MapOf(m, FileData) /\ Separate(m)
    /\ b = BuildFiles(m, order, VfsTexts) /\ cache' = BuildCache(m, order)
    /\ Built(m, roots, VfsTexts, order, b, cache')
    /\ vfs' = ReadAll(vfs, disk, read \cup ReadBy(ToSet(order), VfsTexts))
    /\ MapOf(ctx', FileData) /\ Separate(ctx')
    /\ Live(ctx') = FilesOf(cache')
    /\ \A r \in DOMAIN cache' : \A h \in cache'[r] :
          h \in Live(ctx') /\ ctx'.store[h] = b.store[h]
    /\ workspace' = kind /\ roots = Roots(kind, VfsTexts, disk)
    /\ diagnostics' = loose \cup BuildDiagnostics(m, order, VfsTexts)
    /\ \/ kind = "full" /\ loose = {}
       \/ kind = "locs" /\ loose = LocsDiagnostics /\ LocsUri \in read

\* What a load has made, step by step: the order of its files, and the new context.
LEMMA LoadMakes ==
    ASSUME disk \in Disk, vfs \in [Uris -> Entry],
           \/ LoadFullWorkspace
           \/ LoadLocsFile /\ Readable(vfs, disk, LocsUri)
    PROVE  \E kind, roots, loose, m, read, order, b :
               LoadMade(kind, roots, loose, m, read, order, b)
  <1>1. PICK kind, roots, loose, m, released, read :
           /\ \E order \in DepthFirst(IncludeForest(roots, VfsTexts)) :
                 /\ vfs' = ReadAll(vfs, disk, read \cup ReadBy(ToSet(order), VfsTexts))
                 /\ ctx' = ExtractIf(BuildFiles(m, order, VfsTexts), ToSet(released), released)
                 /\ cache' = BuildCache(m, order)
                 /\ diagnostics' = loose \cup BuildDiagnostics(m, order, VfsTexts)
           /\ workspace' = kind /\ roots = Roots(kind, VfsTexts, disk)
           /\ \/ kind = "full" /\ loose = {}
              \/ kind = "locs" /\ loose = LocsDiagnostics /\ LocsUri \in read
           /\ \/ m = EmptyMap /\ released = <<>>
              \/ /\ m = Push(EmptyMap, [uri |-> LocsUri, text |-> VfsTexts[LocsUri], parent |-> {}])
                 /\ released = <<NewKey(EmptyMap)>>
                 /\ VfsTexts[LocsUri] # Missing
    <2>1. CASE LoadFullWorkspace
      BY <2>1 DEF LoadFullWorkspace, Load
    <2>2. CASE LoadLocsFile /\ Readable(vfs, disk, LocsUri)
      <3>1. VfsTexts[LocsUri] # Missing
        BY <2>2, VfsTextsFacts, UrisAssumption
      <3> QED  BY <2>2, <3>1 DEF LoadLocsFile, Load, Roots, LocsDiagnostics
    <2> QED  BY <2>1, <2>2
  <1>2. PICK order \in DepthFirst(IncludeForest(roots, VfsTexts)) :
           /\ vfs' = ReadAll(vfs, disk, read \cup ReadBy(ToSet(order), VfsTexts))
           /\ ctx' = ExtractIf(BuildFiles(m, order, VfsTexts), ToSet(released), released)
           /\ cache' = BuildCache(m, order)
           /\ diagnostics' = loose \cup BuildDiagnostics(m, order, VfsTexts)
    BY <1>1
  <1> DEFINE F == IncludeForest(roots, VfsTexts)
             b == BuildFiles(m, order, VfsTexts)
             c == BuildCache(m, order)
  <1>3. VfsTexts \in Disk
    BY VfsTextsFacts
  <1>4. order \in SetToSeqs(F)
    BY DEF DepthFirst
  <1>5. /\ MapOf(m, FileData) /\ Separate(m) /\ Live(m) = ToSet(released)
        /\ \A k \in Live(m) : released = <<k>>
        /\ Live(m) = {} => released = <<>>
    <2>1. CASE m = EmptyMap /\ released = <<>>
      BY <2>1, EmptyMapFacts DEF EmptyMap, Live, ToSet
    <2>2. CASE /\ m = Push(EmptyMap, [uri |-> LocsUri, text |-> VfsTexts[LocsUri], parent |-> {}])
               /\ released = <<NewKey(EmptyMap)>>
               /\ VfsTexts[LocsUri] # Missing
      <3> DEFINE d == [uri |-> LocsUri, text |-> VfsTexts[LocsUri], parent |-> {}]
                 k == NewKey(EmptyMap)
      <3>1. d \in FileData
        BY <2>2, UrisAssumption, VfsTextsFacts DEF FileData
      <3>2. MapOf(EmptyMap, FileData) /\ Separate(EmptyMap) /\ Live(EmptyMap) = {}
        BY EmptyMapFacts DEF EmptyMap, Live
      <3> HIDE DEF d, k
      <3>3. MapOf(m, FileData) /\ Separate(m)
        BY <2>2, <3>1, <3>2, PushFacts DEF d
      <3>4. Live(m) = {k}
        BY <2>2, <3>2, PushContents DEF d, k
      <3>5. ToSet(released) = {k} /\ released = <<k>>
        BY <2>2 DEF ToSet, k
      <3> QED  BY <3>3, <3>4, <3>5
    <2> QED  BY <1>1, <2>1, <2>2
  <1> HIDE DEF F, b, c
  <1>B. Built(m, roots, VfsTexts, order, b, c)
    BY <1>3, <1>4, <1>5, BuildUnits DEF F, b, c
  <1>6. /\ MapOf(b, FileData) /\ Separate(b)
        /\ Live(b) = Live(m) \cup FilesOf(c)
        /\ FilesOf(c) \cap Live(m) = {}
        /\ DOMAIN c \subseteq Nat /\ c \in [DOMAIN c -> SUBSET Nat]
        /\ \A r, q \in DOMAIN c : r \in c[r] /\ (r # q => c[r] \cap c[q] = {})
        /\ \A r \in DOMAIN c :
              /\ b.store[r].uri \in roots
              /\ UnitOf(b, r, c[r], IncludeForest({b.store[r].uri}, VfsTexts))
        /\ ToSet(order) = F
        /\ \A h \in FilesOf(c) : b.store[h].text = VfsTexts[b.store[h].uri]
    <2>2. IsFiniteSet(F)
      BY ForestFacts DEF F
    <2>3. ToSet(order) = F
      BY <1>4, <2>2, OrderFacts
    <2> QED  BY <1>B, <2>3 DEF Built
  <1>7. released \in ExtractOrders(b, Live(m))
    <2>1. CASE Live(m) = {}
      <3>1. released = <<>> /\ Live(m) \cap Live(b) = {}
        BY <1>5, <2>1
      <3>2. <<>> \in SetToSeqs({})
        BY FS_EmptySet DEF SetToSeqs
      <3> QED  BY <3>1, <3>2 DEF ExtractOrders
    <2>2. ASSUME NEW k \in Live(m) PROVE released \in ExtractOrders(b, Live(m))
      <3>1. released = <<k>> /\ ToSet(released) = {k}
        BY <1>5 DEF ToSet
      <3>2. Live(m) \cap Live(b) = {k}
        BY <1>5, <1>6, <3>1
      <3>3. Cardinality({k}) = 1
        BY FS_Singleton
      <3>4. <<k>> \in SetToSeqs({k})
        BY <3>3 DEF SetToSeqs
      <3> QED  BY <3>1, <3>2, <3>4 DEF ExtractOrders
    <2> QED  BY <2>1, <2>2
  <1>8. /\ ctx' = ExtractIf(b, Live(m), released)
        /\ cache' = c
    BY <1>2, <1>5 DEF b, c
  <1>9. /\ MapOf(ctx', FileData) /\ Separate(ctx')
        /\ Live(ctx') = Live(b) \ Live(m)
        /\ \A k \in Live(b) \ Live(m) : Get(ctx', k) = Get(b, k)
    BY <1>6, <1>7, <1>8, ExtractFacts
  <1>10. Live(ctx') = FilesOf(cache')
    BY <1>6, <1>8, <1>9
  <1>11. \A r \in DOMAIN cache' : \A h \in cache'[r] : h \in Live(ctx') /\ ctx'.store[h] = b.store[h]
    <2>1. \A r \in DOMAIN cache' : cache'[r] \subseteq FilesOf(cache')
      BY DEF FilesOf
    <2> QED  BY <1>6, <1>8, <1>9, <1>10, <2>1 DEF Get
  <1>12. LoadMade(kind, roots, loose, m, read, order, b)
    BY <1>1, <1>2, <1>4, <1>5, <1>8, <1>9, <1>10, <1>11, <1>B DEF LoadMade, F, b, c
  <1> QED  BY <1>12

\* Both loads leave a context that holds exactly the units of the cache, each
\* with the forest that the texts give its root.
LEMMA LoadBuilds ==
    ASSUME disk \in Disk, vfs \in [Uris -> Entry],
           \/ LoadFullWorkspace
           \/ LoadLocsFile /\ Readable(vfs, disk, LocsUri)
    PROVE  /\ MapOf(ctx, FileData)' /\ Separate(ctx)'
           /\ UnitsOf(ctx, cache)'
           /\ (Live(ctx) = FilesOf(cache))'
           /\ \A r \in DOMAIN cache' :
                 UnitOf(ctx', r, cache'[r], IncludeForest({ctx'.store[r].uri}, VfsTexts))
           /\ \A h \in Live(ctx)' : ctx'.store[h].text = VfsTexts[ctx'.store[h].uri]
           /\ \E S : /\ vfs' = ReadAll(vfs, disk, S)
                     /\ \A h \in Live(ctx)' : ctx'.store[h].uri \in S
  <1>1. PICK kind, roots, loose, m, read, order, b :
           LoadMade(kind, roots, loose, m, read, order, b)
    BY LoadMakes
  <1> DEFINE F == IncludeForest(roots, VfsTexts)
             c == cache'
  <1>6. /\ DOMAIN c \subseteq Nat /\ c \in [DOMAIN c -> SUBSET Nat]
        /\ \A r, q \in DOMAIN c : r \in c[r] /\ (r # q => c[r] \cap c[q] = {})
        /\ \A r \in DOMAIN c :
              /\ b.store[r].uri \in roots
              /\ UnitOf(b, r, c[r], IncludeForest({b.store[r].uri}, VfsTexts))
        /\ ToSet(order) = F
        /\ \A h \in FilesOf(c) : b.store[h].text = VfsTexts[b.store[h].uri]
    <2>1. Built(m, roots, VfsTexts, order, b, c)
      BY <1>1 DEF LoadMade
    <2>2. IsFiniteSet(F)
      BY ForestFacts DEF F
    <2>3. ToSet(order) = F
      BY <1>1, <2>2, OrderFacts DEF LoadMade
    <2> QED  BY <2>1, <2>3 DEF Built
  <1>9. /\ MapOf(ctx', FileData) /\ Separate(ctx')
        /\ vfs' = ReadAll(vfs, disk, read \cup ReadBy(ToSet(order), VfsTexts))
        /\ Live(ctx') = FilesOf(cache')
        /\ \A r \in DOMAIN cache' : \A h \in cache'[r] :
              h \in Live(ctx') /\ ctx'.store[h] = b.store[h]
    BY <1>1 DEF LoadMade
  <1> HIDE DEF F
  <1>10. \A h \in Live(ctx') : h \in FilesOf(c) /\ ctx'.store[h] = b.store[h]
    BY <1>9 DEF FilesOf
  <1>12. \A r \in DOMAIN cache' :
            UnitOf(ctx', r, cache'[r], IncludeForest({ctx'.store[r].uri}, VfsTexts))
    <2> SUFFICES ASSUME NEW r \in DOMAIN cache'
                 PROVE  UnitOf(ctx', r, cache'[r], IncludeForest({ctx'.store[r].uri}, VfsTexts))
      OBVIOUS
    <2>1. UnitOf(b, r, cache'[r], IncludeForest({b.store[r].uri}, VfsTexts))
      BY <1>6
    <2>2. ctx'.store[r] = b.store[r]
      BY <1>6, <1>9
    <2>3. UnitOf(ctx', r, cache'[r], IncludeForest({b.store[r].uri}, VfsTexts))
      BY <1>9, <2>1, UnitKept
    <2> QED  BY <2>2, <2>3
  <1>13. UnitsOf(ctx', cache')
    <2>1. \A r \in DOMAIN cache' : IncludeForest({ctx'.store[r].uri}, VfsTexts) \in SUBSET Paths
      BY ForestFacts
    <2> QED  BY <1>6, <1>9, <1>12, <2>1 DEF UnitsOf
  <1>14. \A h \in Live(ctx') : ctx'.store[h].text = VfsTexts[ctx'.store[h].uri]
    <2> SUFFICES ASSUME NEW h \in Live(ctx')
                 PROVE  ctx'.store[h].text = VfsTexts[ctx'.store[h].uri]
      OBVIOUS
    <2>1. h \in FilesOf(c) /\ ctx'.store[h] = b.store[h]
      BY <1>10
    <2> QED  BY <1>6, <2>1
  <1>15. \E S : vfs' = ReadAll(vfs, disk, S) /\ \A h \in Live(ctx') : ctx'.store[h].uri \in S
    <2> DEFINE S == read \cup ReadBy(F, VfsTexts)
    <2>1. vfs' = ReadAll(vfs, disk, S)
      BY <1>6, <1>9
    <2>2. ASSUME NEW h \in Live(ctx') PROVE ctx'.store[h].uri \in S
      <3>1. h \in FilesOf(c) /\ ctx'.store[h] = b.store[h]
        BY <1>10
      <3>2. PICK r \in DOMAIN c : h \in c[r]
        BY <3>1 DEF FilesOf
      <3> DEFINE x == b.store[r].uri
                 G == IncludeForest({x}, VfsTexts)
      <3>3. x \in roots /\ UnitOf(b, r, c[r], G)
        BY <1>6
      <3>4. G \in SUBSET Paths
        BY ForestFacts
      <3>5. G \subseteq F
        BY <3>3 DEF F, IncludeForest
      <3> HIDE DEF x, G
      <3>6. {b.store[k].uri : k \in c[r]} = {Last(p) : p \in G}
        BY <3>3, <3>4, UnitFacts
      <3>7. PICK p \in F : b.store[h].uri = Last(p)
        BY <3>2, <3>5, <3>6
      <3>8. Last(p) \in ReadBy(F, VfsTexts)
        BY <3>7 DEF ReadBy
      <3> QED  BY <3>1, <3>7, <3>8
    <2> HIDE DEF S
    <2> QED  BY <2>1, <2>2
  <1> QED  BY <1>9, <1>12, <1>13, <1>14, <1>15

\* What the unit h had reported is replaced by what the unit r, with the files
\* of F, has to report.
ReportedAgain(h, r, F) ==
    \E D : /\ diagnostics' = (diagnostics \ OfUnit(diagnostics, h)) \cup D
           /\ \A d \in D : d.owner = "unit" /\ d.unit = r
           /\ Reported(OfUnit(D, r)) = ForestErrors(F, VfsTexts)

\* Reprocessing a unit whose file can be read: the other units stay as they are,
\* and the unit is replaced by one with the forest its root has now.  When that
\* forest has as many files as before, they get the same handles, in some order.
LEMMA ReprocessBuilds ==
    ASSUME disk \in Disk, vfs \in [Uris -> Entry],
           MapOf(ctx, FileData), Separate(ctx), UnitsOf(ctx, cache),
           Live(ctx) = FilesOf(cache),
           NEW h \in DOMAIN cache, ReprocessUnit(h),
           Readable(vfs, disk, ctx.store[h].uri)
    PROVE  /\ MapOf(ctx, FileData)' /\ Separate(ctx)'
           /\ UnitsOf(ctx, cache)'
           /\ (Live(ctx) = FilesOf(cache))'
           /\ \E r \in DOMAIN cache' :
                 /\ DOMAIN cache' = (DOMAIN cache \ {h}) \cup {r}
                 /\ r \notin DOMAIN cache \ {h}
                 /\ ctx'.store[r].uri = ctx.store[h].uri
                 /\ UnitOf(ctx', r, cache'[r],
                           IncludeForest({ctx.store[h].uri}, VfsTexts))
                 /\ \A x \in cache'[r] : ctx'.store[x].text = VfsTexts[ctx'.store[x].uri]
                 /\ \E S : /\ vfs' = ReadAll(vfs, disk, S)
                           /\ \A x \in cache'[r] : ctx'.store[x].uri \in S
                 /\ Cardinality(IncludeForest({ctx.store[h].uri}, VfsTexts))
                       = Cardinality(cache[h])
                    => cache'[r] = cache[h]
                 /\ ReportedAgain(h, r, IncludeForest({ctx.store[h].uri}, VfsTexts))
           /\ \A q \in DOMAIN cache \ {h} :
                 /\ cache'[q] = cache[q]
                 /\ \A x \in cache[q] : x \in Live(ctx') /\ ctx'.store[x] = ctx.store[x]
  <1> DEFINE uri == ctx.store[h].uri
             F == IncludeForest({uri}, VfsTexts)
             others == [q \in DOMAIN cache \ {h} |-> cache[q]]
  <1>1. PICK freed \in ExtractOrders(ctx, cache[h]), order \in DepthFirst(F) :
           LET m   == ExtractIf(ctx, cache[h], freed)
               new == BuildCache(m, order)
           IN  /\ vfs' = ReadAll(vfs, disk, ReadBy(ToSet(order), VfsTexts))
               /\ ctx' = BuildFiles(m, order, VfsTexts)
               /\ cache' = [r \in DOMAIN others \cup DOMAIN new |->
                              IF r \in DOMAIN new THEN new[r] ELSE others[r]]
               /\ diagnostics' = {d \in diagnostics : ~(d.owner = "unit" /\ d.unit = h)}
                                   \cup BuildDiagnostics(m, order, VfsTexts)
    BY DEF ReprocessUnit
  <1> DEFINE m == ExtractIf(ctx, cache[h], freed)
             new == BuildCache(m, order)
             b == BuildFiles(m, order, VfsTexts)
  <1>2. /\ ctx' = b
        /\ cache' = [r \in (DOMAIN cache \ {h}) \cup DOMAIN new |->
                        IF r \in DOMAIN new THEN new[r] ELSE cache[r]]
    <2>1. DOMAIN others = DOMAIN cache \ {h} /\ \A r \in DOMAIN others : others[r] = cache[r]
      OBVIOUS
    <2> HIDE DEF others
    <2> QED  BY <1>1, <2>1
  <1>3. order \in SetToSeqs(F)
    BY DEF DepthFirst
  <1>4. VfsTexts \in Disk
    BY VfsTextsFacts
  <1>5. /\ MapOf(m, FileData) /\ Separate(m)
        /\ Live(m) = Live(ctx) \ cache[h]
        /\ \A k \in Live(ctx) \ cache[h] : m.store[k] = ctx.store[k]
    BY ExtractFacts DEF Get
  <1>6. /\ Len(freed) = Cardinality(cache[h])
        /\ {NthKey(m, i) : i \in 1..Len(freed)} = cache[h]
        /\ Cardinality(cache[h]) \in Nat
    <2>1. cache[h] \cap Live(ctx) = cache[h]
      BY DEF FilesOf
    <2>2. /\ Len(freed) = Cardinality(cache[h] \cap Live(ctx))
          /\ {NthKey(m, i) : i \in 1..Len(freed)} = cache[h] \cap Live(ctx)
      BY KeysComeBack
    <2>3. freed \in Seq(Nat)
      BY ExtractOrdersFacts
    <2>4. Len(freed) \in Nat
      BY <2>3
    <2> HIDE DEF m
    <2> QED  BY <2>1, <2>2, <2>4
  <1> DEFINE D == BuildDiagnostics(m, order, VfsTexts)
  <1>D. diagnostics' = (diagnostics \ OfUnit(diagnostics, h)) \cup D
    BY <1>1 DEF OfUnit
  <1> HIDE DEF m, new, b, F, D
  <1>7. /\ MapOf(b, FileData) /\ Separate(b)
        /\ Live(b) = Live(m) \cup FilesOf(new)
        /\ FilesOf(new) \cap Live(m) = {}
        /\ FilesOf(new) = {NthKey(m, i) : i \in 1..Len(order)}
        /\ Len(order) = Cardinality(F)
        /\ \A k \in Live(m) : b.store[k] = m.store[k]
        /\ DOMAIN new \subseteq Nat /\ new \in [DOMAIN new -> SUBSET Nat]
        /\ \A r, q \in DOMAIN new : /\ r \in new[r]
                                    /\ r # q => new[r] \cap new[q] = {}
                                    /\ b.store[r].uri = b.store[q].uri => r = q
        /\ \A r \in DOMAIN new :
              /\ b.store[r].uri \in {uri}
              /\ UnitOf(b, r, new[r], IncludeForest({b.store[r].uri}, VfsTexts))
        /\ \A u \in {uri} \cap Uris : VfsTexts[u] # Missing =>
              \E r \in DOMAIN new : b.store[r].uri = u
        /\ \A x \in FilesOf(new) : b.store[x].text = VfsTexts[b.store[x].uri]
    <2>1. /\ order \in SetToSeqs(F) /\ F = IncludeForest({uri}, VfsTexts)
          /\ b = BuildFiles(m, order, VfsTexts)
          /\ new = BuildCache(m, order)
      BY <1>3 DEF F, b, new
    <2>2. MapOf(m, FileData) /\ Separate(m)
      BY <1>5
    <2>3. Built(m, {uri}, VfsTexts, order, b, new)
      BY <2>1, <2>2, <1>4, BuildUnits
    <2> QED  BY <2>1, <2>3 DEF Built
  <1>8. uri \in Uris /\ VfsTexts[uri] # Missing
    <2>1. h \in Live(ctx)
      BY DEF UnitsOf, FilesOf
    <2>2. ctx.store[h] \in FileData
      BY <2>1 DEF MapOf
    <2>3. uri \in Uris
      BY <2>2 DEF FileData
    <2> QED  BY <2>3, VfsTextsFacts
  <1>9. PICK r \in DOMAIN new : b.store[r].uri = uri /\ DOMAIN new = {r}
    <2>1. PICK r \in DOMAIN new : b.store[r].uri = uri
      BY <1>7, <1>8
    <2>2. ASSUME NEW q \in DOMAIN new PROVE q = r
      <3>1. b.store[q].uri = uri
        BY <1>7
      <3>2. b.store[r].uri = b.store[q].uri => r = q
        BY <1>7
      <3> QED  BY <2>1, <3>1, <3>2
    <2> QED  BY <2>1, <2>2
  <1>10. FilesOf(new) = new[r]
    BY <1>9 DEF FilesOf
  <1>11. \A q \in DOMAIN cache \ {h} : cache[q] \subseteq Live(m)
    BY <1>5 DEF UnitsOf, FilesOf
  <1>12. Live(m) = UNION {cache[q] : q \in DOMAIN cache \ {h}}
    <2>1. Live(m) \subseteq UNION {cache[q] : q \in DOMAIN cache \ {h}}
      BY <1>5 DEF FilesOf
    <2> QED  BY <1>11, <2>1
  <1>13. r \notin DOMAIN cache \ {h}
    BY <1>7, <1>9, <1>10, <1>11 DEF UnitsOf
  <1>14. /\ DOMAIN cache' = (DOMAIN cache \ {h}) \cup {r}
         /\ cache'[r] = new[r]
         /\ \A q \in DOMAIN cache \ {h} : cache'[q] = cache[q]
    BY <1>2, <1>9, <1>13
  <1>15. Live(ctx') = FilesOf(cache')
    <2>1. FilesOf(cache') = new[r] \cup UNION {cache[q] : q \in DOMAIN cache \ {h}}
      BY <1>14 DEF FilesOf
    <2>2. Live(b) = Live(m) \cup new[r]
      BY <1>7, <1>10
    <2> QED  BY <1>2, <1>12, <2>1, <2>2
  <1>16. \A q \in DOMAIN cache \ {h} : \A x \in cache[q] :
            x \in Live(ctx') /\ ctx'.store[x] = ctx.store[x]
    BY <1>2, <1>5, <1>7, <1>11
  <1>17. UnitOf(ctx', r, cache'[r], F)
    BY <1>2, <1>7, <1>9, <1>14 DEF F
  <1>18. UnitsOf(ctx', cache')
    <2>1. DOMAIN cache' \subseteq Nat /\ cache' \in [DOMAIN cache' -> SUBSET Nat]
      <3>1. \A q \in DOMAIN cache' : q \in Nat /\ cache'[q] \in SUBSET Nat
        BY <1>7, <1>14 DEF UnitsOf
      <3>2. cache' = [q \in DOMAIN cache' |-> cache'[q]]
        BY <1>2
      <3> QED  BY <3>1, <3>2
    <2>2. \A q \in DOMAIN cache' : q \in cache'[q]
      BY <1>7, <1>14 DEF UnitsOf
    <2>3. \A q \in DOMAIN cache \ {h} : cache'[q] \cap cache'[r] = {}
      BY <1>7, <1>10, <1>11, <1>14
    <2>4. \A p, q \in DOMAIN cache' : p # q => cache'[p] \cap cache'[q] = {}
      BY <1>14, <2>3 DEF UnitsOf
    <2>5. ASSUME NEW q \in DOMAIN cache' PROVE \E G \in SUBSET Paths : UnitOf(ctx', q, cache'[q], G)
      <3>1. CASE q = r
        <4>1. F \in SUBSET Paths
          BY ForestFacts DEF F
        <4> QED  BY <1>17, <3>1, <4>1
      <3>2. CASE q # r
        <4>1. q \in DOMAIN cache \ {h}
          BY <1>14, <3>2
        <4>2. PICK G \in SUBSET Paths : UnitOf(ctx, q, cache[q], G)
          BY <4>1 DEF UnitsOf
        <4>3. UnitOf(ctx', q, cache[q], G)
          BY <1>16, <4>1, <4>2, UnitKept
        <4> QED  BY <1>14, <4>1, <4>3
      <3> QED  BY <3>1, <3>2
    <2> QED  BY <2>1, <2>2, <2>4, <2>5 DEF UnitsOf
  <1>19. Cardinality(F) = Cardinality(cache[h]) => cache'[r] = cache[h]
    <2>1. Len(freed) = Cardinality(cache[h]) /\ Len(order) = Cardinality(F)
      BY <1>6, <1>7
    <2>2. {NthKey(m, i) : i \in 1..Len(freed)} = cache[h]
      BY <1>6
    <2>3. new[r] = {NthKey(m, i) : i \in 1..Len(order)}
      BY <1>7, <1>10
    <2> QED  BY <1>14, <2>1, <2>2, <2>3
  <1>20. \A x \in cache'[r] : ctx'.store[x].text = VfsTexts[ctx'.store[x].uri]
    BY <1>2, <1>7, <1>10, <1>14
  <1>21. ctx'.store[r].uri = uri
    BY <1>2, <1>9
  <1>22. MapOf(ctx', FileData) /\ Separate(ctx')
    BY <1>2, <1>7
  <1>23. \E S : /\ vfs' = ReadAll(vfs, disk, S)
                /\ \A x \in cache'[r] : ctx'.store[x].uri \in S
    <2>1. vfs' = ReadAll(vfs, disk, ReadBy(ToSet(order), VfsTexts))
      BY <1>1
    <2>2. F \in SUBSET Paths /\ IsFiniteSet(F)
      BY ForestFacts DEF F
    <2>3. ToSet(order) = F
      BY <1>3, <2>2, OrderFacts
    <2>4. {ctx'.store[x].uri : x \in cache'[r]} = {Last(p) : p \in F}
      BY <1>17, <2>2, UnitFacts
    <2>5. \A p \in F : Last(p) \in ReadBy(F, VfsTexts)
      BY DEF ReadBy
    <2>6. \A x \in cache'[r] : ctx'.store[x].uri \in ReadBy(F, VfsTexts)
      BY <2>4, <2>5
    <2> QED  BY <2>1, <2>3, <2>6
  <1>24. ReportedAgain(h, r, F)
    <2>1. /\ \A d \in D : d.owner = "unit" /\ d.unit \in DOMAIN new
          /\ \A q \in DOMAIN new : Reported(OfUnit(D, q))
                = ForestErrors(IncludeForest({b.store[q].uri}, VfsTexts), VfsTexts)
      <3>1. /\ order \in SetToSeqs(F) /\ F = IncludeForest({uri}, VfsTexts)
            /\ b = BuildFiles(m, order, VfsTexts)
            /\ new = BuildCache(m, order)
            /\ D = BuildDiagnostics(m, order, VfsTexts)
        BY <1>3 DEF F, b, new, D
      <3> QED  BY <1>4, <1>5, <3>1, BuildReports
    <2>2. \A d \in D : d.owner = "unit" /\ d.unit = r
      BY <1>9, <2>1
    <2>3. Reported(OfUnit(D, r)) = ForestErrors(F, VfsTexts)
      BY <1>9, <2>1 DEF F
    <2> QED  BY <1>D, <2>2, <2>3 DEF ReportedAgain
  <1> QED  BY <1>13, <1>14, <1>15, <1>16, <1>17, <1>18, <1>19, <1>20, <1>21, <1>22, <1>23, <1>24 DEF F

-----------------------------------------------------------------------------
\* The context and the cache, whatever the environment does: the units of the
\* cache are apart, and are all that the context holds, unless the context was
\* lost with a root that could not be read.
Units ==
    /\ MapOf(ctx, FileData) /\ Separate(ctx)
    /\ DOMAIN cache \subseteq Nat /\ cache \in [DOMAIN cache -> SUBSET Nat]
    /\ UnitsApart
    /\ Live(ctx) = {} \/ (Live(ctx) = FilesOf(cache) /\ UnitsOf(ctx, cache))

\* A server that starts has no units.
LEMMA UnitsInit == Init => Units
  <1> SUFFICES ASSUME Init PROVE Units
    OBVIOUS
  <1>1. ctx = EmptyMap /\ cache = [h \in {} |-> {}] /\ DOMAIN cache = {}
    BY DEF Init
  <1>2. MapOf(ctx, FileData) /\ Separate(ctx) /\ Live(ctx) = {}
    BY <1>1, EmptyMapFacts DEF EmptyMap, Live
  <1>3. cache \in [DOMAIN cache -> SUBSET Nat]
    BY <1>1
  <1> QED  BY <1>1, <1>2, <1>3 DEF Units, UnitsApart

\* Only the loads and Reprocess change the units; each leaves them apart.
LEMMA UnitsNext ==
    ASSUME disk \in Disk, vfs \in [Uris -> Entry], Units, [Next]_vars
    PROVE  Units'
  <1>1. ASSUME UNCHANGED <<ctx, cache>> PROVE Units'
    BY <1>1 DEF Units, UnitsApart, UnitsOf
  <1>2. ASSUME (MapOf(ctx, FileData) /\ Separate(ctx) /\ UnitsOf(ctx, cache)
                /\ Live(ctx) = FilesOf(cache))'
        PROVE  Units'
    BY <1>2 DEF Units, UnitsApart, UnitsOf
  <1>3. CASE LoadFullWorkspace
    BY <1>2, <1>3, LoadBuilds
  <1>4. CASE LoadLocsFile
    <2>1. CASE Readable(vfs, disk, LocsUri)
      BY <1>2, <1>4, <2>1, LoadBuilds
    <2>2. CASE ~Readable(vfs, disk, LocsUri)
      BY <1>1, <1>4, <2>2 DEF LoadLocsFile, units
    <2> QED  BY <2>1, <2>2
  <1>5. CASE Reprocess
    <2>1. CASE Panic("task")
      BY <1>1, <2>1 DEF Panic, units
    <2>2. ASSUME NEW h \in DOMAIN cache \cap Live(ctx), ReprocessUnit(h) PROVE Units'
      <3>1. Live(ctx) = FilesOf(cache) /\ UnitsOf(ctx, cache)
        BY <2>2 DEF Units
      <3>2. CASE Readable(vfs, disk, ctx.store[h].uri)
        BY <1>2, <2>2, <3>1, <3>2, ReprocessBuilds DEF Units
      <3>3. CASE ~Readable(vfs, disk, ctx.store[h].uri)
        <4>1. ctx' = EmptyMap /\ cache' = [r \in DOMAIN cache \ {h} |-> cache[r]]
          BY <2>2, <3>3 DEF ReprocessUnit
        <4>2. MapOf(ctx', FileData) /\ Separate(ctx') /\ Live(ctx') = {}
          BY <4>1, EmptyMapFacts DEF EmptyMap, Live
        <4>3. /\ DOMAIN cache' = DOMAIN cache \ {h}
              /\ \A r \in DOMAIN cache' : cache'[r] = cache[r]
          BY <4>1
        <4>4. cache' \in [DOMAIN cache' -> SUBSET Nat]
          BY <4>1 DEF Units
        <4>5. UnitsApart'
          BY <4>3 DEF Units, UnitsApart
        <4> QED  BY <4>2, <4>3, <4>4, <4>5 DEF Units
      <3> QED  BY <3>2, <3>3
    <2> QED  BY <1>5, <2>1, <2>2 DEF Reprocess
  <1>6. CASE ReloadWorkspace \/ Response \/ Update \/ Analysis \/ AnalysisTimer
    BY <1>1, <1>6 DEF ReloadWorkspace, Response, Update, Analysis, AnalysisTimer,
                      Analyse, Panic, units
  <1>7. CASE handle_did_open_text_document \/ handle_did_change_text_document
             \/ handle_did_close_text_document \/ handle_did_change_watched_file
             \/ query \/ reload_request \/ shutdown
    BY <1>1, <1>7 DEF handle_did_open_text_document, handle_did_change_text_document,
           handle_did_close_text_document, handle_did_change_watched_file,
           query, reload_request, shutdown, Panic, units
  <1>8. CASE EditorStep \/ Watcher \/ UNCHANGED vars
    BY <1>1, <1>8 DEF EditorStep, Watcher, EditorOpens, EditorChanges, EditorCloses,
           EditorAsks, EditorReloads, EditorShutsDown, DiskChanges, DiskDeletes,
           ConfigChanges, WatcherReports, server, vars, units
  <1> QED  BY <1>3, <1>4, <1>5, <1>6, <1>7, <1>8 DEF Next, ServerStep

\* No file belongs to two cached units, whatever the editor, the watcher and the
\* disk do: reprocessing a unit never frees a file of another one.
THEOREM UnitsStayApart == Spec => []UnitsApart
  <1>1. Units => UnitsApart
    BY DEF Units
  <1>2. IInv => disk \in Disk /\ vfs \in [Uris -> Entry]
    BY DEF IInv, DocTypes
  <1>3. Init => IInv /\ Units
    BY InvInit, UnitsInit
  <1>4. IInv /\ Units /\ [Next]_vars => (IInv /\ Units)'
    BY <1>2, InvNext, UnitsNext
  <1> QED  BY <1>1, <1>3, <1>4, PTL DEF Spec

DiagnosticData ==
    [owner : {"unit", "analysis", "locs"}, unit : Nat, uri : Uris, error : Errors]

\* The rest of TypeOK, beside the documents and the units.
Typed ==
    /\ config \in Configs
    /\ unseen \subseteq Uris \cup {ConfigUri}
    /\ events \in Nat /\ pausing \in BOOLEAN
    /\ inbox \in Seq(Message)
    /\ status \in {"running", "stopped", "query", "task", "node"}
    /\ tasks \in Seq(TaskData)
    /\ incoming \subseteq Nat
    /\ workspace \in {"none", "locs", "full"}
    /\ files \in [Uris -> SUBSET Nat]
    /\ dirty \in BOOLEAN
    /\ diagnostics \subseteq DiagnosticData
    /\ published \subseteq Uris
    /\ shown \in [Uris -> SUBSET Errors]

\* And the nodes: a map of them, of which the analysis holds some handles.
NodeData == [unit : Nat, kind : {"use", "definition"}]

NodesTyped == MapOf(nodes, NodeData) /\ Separate(nodes) /\ analysis \subseteq Nat

\* The parts are all of TypeOK; a file has its parent in its own unit.
LEMMA TypesTogether == IInv /\ Units /\ Typed /\ NodesTyped => TypeOK
  <1> SUFFICES ASSUME IInv, Units, Typed, NodesTyped PROVE TypeOK
    OBVIOUS
  <1>1. disk \in Disk /\ docs \in Disk /\ vfs \in [Uris -> Entry]
    BY DEF IInv, DocTypes
  <1>2. /\ Live(ctx) \subseteq Nat /\ ctx.current \in Nat /\ ctx.dropped \in Seq(Nat)
        /\ DOMAIN cache \subseteq Nat /\ cache \in [DOMAIN cache -> SUBSET Nat]
        /\ \A h \in Live(ctx) : ctx.store[h] \in FileData
    BY DEF Units, MapOf
  <1>3. ASSUME NEW h \in Live(ctx)
        PROVE  ctx.store[h] \in [uri : Uris, text : Text, parent : SUBSET Live(ctx)]
    <2>1. Live(ctx) = FilesOf(cache) /\ UnitsOf(ctx, cache)
      BY DEF Units
    <2>2. PICK r \in DOMAIN cache : h \in cache[r]
      BY <2>1 DEF FilesOf
    <2>3. PICK F \in SUBSET Paths : UnitOf(ctx, r, cache[r], F)
      BY <2>1 DEF UnitsOf
    <2>4. cache[r] \subseteq Live(ctx) /\ ctx.store[h].parent \subseteq cache[r]
      BY <2>2, <2>3, UnitFacts
    <2>5. ctx.store[h] \in FileData
      BY <1>2
    <2> QED  BY <2>4, <2>5 DEF FileData
  <1>4. MapOf(nodes, [unit : Nat, kind : {"use", "definition"}]) /\ analysis \subseteq Nat
    BY DEF NodesTyped, NodeData
  <1> QED  BY <1>1, <1>2, <1>3, <1>4 DEF TypeOK, Typed, DiagnosticData

-----------------------------------------------------------------------------
\* The queue after a task.
LEMMA RequeueTypes ==
    ASSUME tasks \in Seq(TaskData), tasks # <<>>, NEW more \in Seq(TaskData), Requeue(more)
    PROVE  tasks' \in Seq(TaskData)
  <1> DEFINE t == Head(tasks)
             answer == IF t.reply = NoReply THEN <<>> ELSE <<Task("Response", t.reply)>>
  <1>1. t \in TaskData /\ Tail(tasks) \in Seq(TaskData)
    BY HeadTailProperties
  <1>2. t.reply \in Nat
    BY <1>1 DEF TaskData
  <1>3. Task("Response", t.reply) \in TaskData
    BY <1>2 DEF Task, TaskData, NoReply
  <1>4. ASSUME NEW v \in TaskData PROVE <<v>> \in Seq(TaskData)
    BY <1>4
  <1>5. answer \in Seq(TaskData)
    BY <1>3, <1>4
  <1>6. tasks' = Tail(tasks) \o more \o answer
    BY DEF Requeue
  <1> HIDE DEF answer, t
  <1> QED  BY <1>1, <1>5, <1>6, ConcatProperties

\* The lists that tasks put in the queue.
LEMMA QueuedTypes ==
    /\ <<>> \in Seq(TaskData)
    /\ \A type \in {"ReloadWorkspace", "LoadLocsFile", "LoadFullWorkspace", "Analysis"} :
          <<Task(type, 0)>> \in Seq(TaskData)
    /\ \A u \in Uris : <<Task("Update", u)>> \in Seq(TaskData)
    /\ \A id \in Nat : <<[Task("ReloadWorkspace", 0) EXCEPT !.reply = id]>> \in Seq(TaskData)
  <1>1. ASSUME NEW v \in TaskData PROVE <<v>> \in Seq(TaskData)
    BY <1>1
  <1>2. \A type \in {"ReloadWorkspace", "LoadLocsFile", "LoadFullWorkspace", "Analysis"} :
          Task(type, 0) \in TaskData
    BY DEF Task, TaskData, NoReply
  <1>3. \A u \in Uris : Task("Update", u) \in TaskData
    BY DEF Task, TaskData, NoReply
  <1>4. \A id \in Nat : [Task("ReloadWorkspace", 0) EXCEPT !.reply = id] \in TaskData
    BY DEF Task, TaskData, NoReply
  <1> QED  BY <1>1, <1>2, <1>3, <1>4, EmptySeq

\* What the parser and the include resolution report in a build.
LEMMA BuildDiagnosticsTypes ==
    ASSUME NEW m, MapOf(m, FileData), Separate(m),
           NEW roots, NEW texts \in Disk, NEW F, F = IncludeForest(roots, texts),
           NEW order \in SetToSeqs(F)
    PROVE  BuildDiagnostics(m, order, texts) \subseteq DiagnosticData
  <1>1. F \in SUBSET Paths /\ \A p \in F : <<p[1]>> \in F
    BY ForestFacts
  <1>2. ToSet(order) = F /\ \A p \in F : HandleAt(m, order, p) \in Nat
    BY <1>1, HandleFacts
  <1>3. ASSUME NEW p \in F, NEW e \in UnitErrors(p, texts)
        PROVE  e.uri \in Uris /\ e.error \in Errors
    <2>1. Last(p) \in Uris
      BY <1>1, PathFacts
    <2> QED  BY <2>1 DEF UnitErrors, Errors
  <1>4. ASSUME NEW p \in F PROVE HandleAt(m, order, RootPath(p)) \in Nat
    BY <1>1, <1>2 DEF RootPath
  <1> QED  BY <1>2, <1>3, <1>4 DEF BuildDiagnostics, DiagnosticData

\* A map has finitely many entries.
LEMMA LiveFinite ==
    ASSUME NEW V, NEW m, MapOf(m, V), Separate(m)
    PROVE  IsFiniteSet(Live(m))
  <1>1. m.current \in Nat /\ \A k \in Live(m) : k \in Nat /\ k < m.current
    BY DEF MapOf, Separate
  <1>2. Live(m) \subseteq 0..m.current
    BY <1>1
  <1>3. IsFiniteSet(0..m.current)
    BY <1>1, FS_Interval
  <1> QED  BY <1>2, <1>3, FS_Subset

\* The units above the files of a document: cached, and finitely many.
RootsAbove(u) == {parent_file(ctx, h) : h \in files[u]}

\* The roots above the files of the index are cached, and finitely many.
LEMMA RootsAboveFacts ==
    ASSUME Units, NEW u, files[u] \subseteq Live(ctx)
    PROVE  RootsAbove(u) \subseteq DOMAIN cache /\ IsFiniteSet(RootsAbove(u))
  <1>1. ASSUME NEW h \in files[u]
        PROVE  \E r \in DOMAIN cache : h \in cache[r] /\ parent_file(ctx, h) = r
    <2>1. Live(ctx) = FilesOf(cache) /\ UnitsOf(ctx, cache)
      BY DEF Units
    <2>2. PICK r \in DOMAIN cache : h \in cache[r]
      BY <2>1 DEF FilesOf
    <2> QED  BY <2>1, <2>2, ParentFileFacts
  <1>2. IsFiniteSet(files[u])
    BY LiveFinite, FS_Subset DEF Units
  <1>3. IsFiniteSet(RootsAbove(u))
    <2> DEFINE f == [h \in files[u] |-> parent_file(ctx, h)]
    <2>1. f \in Surjection(files[u], RootsAbove(u))
      <3>1. \A h \in files[u] : parent_file(ctx, h) \in RootsAbove(u)
        BY DEF RootsAbove
      <3>2. \A r \in RootsAbove(u) : \E h \in files[u] : parent_file(ctx, h) = r
        BY DEF RootsAbove
      <3> QED  BY <3>1, <3>2 DEF Surjection
    <2> HIDE DEF f
    <2> QED  BY <1>2, <2>1, FS_Surjection
  <1> QED  BY <1>1, <1>3 DEF RootsAbove

\* The tasks.
LEMMA ReloadTyped == IInv /\ Units /\ Typed /\ ReloadWorkspace => Typed'
  <1> SUFFICES ASSUME IInv, Units, Typed, ReloadWorkspace PROVE Typed'
    OBVIOUS
  <1>1. tasks \in Seq(TaskData) /\ tasks # <<>> /\ config \in {"none", "locs", "full"}
    BY EnvironmentAssumption DEF Typed, ReloadWorkspace, RunsTask
  <1>2. tasks' \in Seq(TaskData)
    <2>1. CASE config = "none"
      <3>1. Requeue(<<>>)
        BY <2>1 DEF ReloadWorkspace
      <3> QED  BY <1>1, <3>1, QueuedTypes, RequeueTypes
    <2>2. CASE config = "locs"
      <3>1. Requeue(<<Task("LoadLocsFile", 0)>>)
        BY <2>2 DEF ReloadWorkspace
      <3> QED  BY <1>1, <3>1, QueuedTypes, RequeueTypes
    <2>3. CASE config = "full"
      <3>1. Requeue(<<Task("LoadFullWorkspace", 0)>>)
        BY <2>3 DEF ReloadWorkspace
      <3> QED  BY <1>1, <3>1, QueuedTypes, RequeueTypes
    <2> QED  BY <1>1, <2>1, <2>2, <2>3
  <1>3. workspace' \in {"none", "locs", "full"}
    BY <1>1 DEF ReloadWorkspace
  <1> QED  BY <1>2, <1>3 DEF Typed, ReloadWorkspace, world, client

\* A load keeps the types, whatever its roots and the map it starts from.
LEMMA LoadTyped ==
    ASSUME IInv, Typed, tasks # <<>>,
           NEW kind \in {"locs", "full"}, NEW roots, NEW m, MapOf(m, FileData), Separate(m),
           NEW released, NEW loose \in SUBSET DiagnosticData, NEW read,
           Load(kind, roots, m, released, loose, read)
    PROVE  Typed'
  <1>1. PICK order \in DepthFirst(IncludeForest(roots, VfsTexts)) :
           /\ diagnostics' = loose \cup BuildDiagnostics(m, order, VfsTexts)
           /\ files' = [u \in Uris |-> {}]
           /\ workspace' = kind
           /\ Requeue(<<Task("Analysis", 0)>>)
           /\ UNCHANGED <<world, inbox, status, incoming, dirty, client>>
    BY DEF Load
  <1>2. VfsTexts \in Disk
    BY VfsTextsFacts DEF IInv, DocTypes
  <1>3. order \in SetToSeqs(IncludeForest(roots, VfsTexts))
    BY DEF DepthFirst
  <1>4. diagnostics' \subseteq DiagnosticData
    BY <1>1, <1>2, <1>3, BuildDiagnosticsTypes
  <1>5. tasks' \in Seq(TaskData)
    BY <1>1, QueuedTypes, RequeueTypes DEF Typed
  <1>6. files' \in [Uris -> SUBSET Nat]
    BY <1>1
  <1> QED  BY <1>1, <1>4, <1>5, <1>6 DEF Typed, world, client

\* LoadFullWorkspace and LoadLocsFile.
LEMMA LoadsTyped == IInv /\ Typed /\ (LoadFullWorkspace \/ LoadLocsFile) => Typed'
  <1> SUFFICES ASSUME IInv, Typed, LoadFullWorkspace \/ LoadLocsFile PROVE Typed'
    OBVIOUS
  <1>1. tasks # <<>>
    BY DEF LoadFullWorkspace, LoadLocsFile, RunsTask
  <1>2. MapOf(EmptyMap, FileData) /\ Separate(EmptyMap)
    BY EmptyMapFacts
  <1>3. CASE LoadFullWorkspace
    <2>1. Load("full", Roots("full", VfsTexts, disk), EmptyMap, <<>>, {}, {})
      BY <1>3 DEF LoadFullWorkspace
    <2> QED  BY <1>1, <1>2, <2>1, LoadTyped
  <1>4. CASE LoadLocsFile /\ Readable(vfs, disk, LocsUri)
    <2> DEFINE locs == [uri |-> LocsUri, text |-> VfsTexts[LocsUri], parent |-> {}]
               m == Push(EmptyMap, locs)
               loose == {[owner |-> "locs", unit |-> 0, uri |-> e.uri, error |-> e.error] :
                            e \in LocsErrors(VfsTexts)}
    <2>1. Load("locs", VfsTexts[LocsUri].inc, m, <<NewKey(EmptyMap)>>, loose, {LocsUri})
      BY <1>4 DEF LoadLocsFile
    <2>2. locs \in FileData
      BY <1>4, VfsTextsFacts, UrisAssumption DEF FileData, IInv, DocTypes
    <2>3. \A e \in LocsErrors(VfsTexts) : e.uri \in Uris /\ e.error \in Errors
      BY UrisAssumption DEF LocsErrors, Errors
    <2>4. loose \in SUBSET DiagnosticData
      BY <2>3 DEF DiagnosticData
    <2> HIDE DEF locs, loose
    <2>5. MapOf(m, FileData) /\ Separate(m)
      BY <1>2, <2>2, PushFacts
    <2> HIDE DEF m
    <2> QED  BY <1>1, <2>1, <2>4, <2>5, LoadTyped
  <1>5. CASE LoadLocsFile /\ ~Readable(vfs, disk, LocsUri)
    <2>1. Requeue(<<>>)
      BY <1>5 DEF LoadLocsFile
    <2>2. tasks' \in Seq(TaskData)
      BY <1>1, <2>1, QueuedTypes, RequeueTypes DEF Typed
    <2> QED  BY <1>5, <2>2 DEF Typed, LoadLocsFile, world, units, client
  <1> QED  BY <1>3, <1>4, <1>5

\* The tasks that Update queues name roots by their handles.
LEMMA UpdateTyped == IInv /\ Units /\ Typed /\ Update => Typed'
  <1> SUFFICES ASSUME IInv, Units, Typed, Update PROVE Typed'
    OBVIOUS
  <1> DEFINE u == Head(tasks).arg
  <1>1. tasks \in Seq(TaskData) /\ tasks # <<>>
    BY DEF Typed, Update, RunsTask
  <1>2. CASE workspace = "locs" /\ u = LocsUri
    <2>1. Requeue(<<Task("ReloadWorkspace", 0)>>)
      BY <1>2 DEF Update
    <2>2. tasks' \in Seq(TaskData)
      BY <1>1, <2>1, QueuedTypes, RequeueTypes
    <2> QED  BY <1>2, <2>2 DEF Typed, Update, world, units, client
  <1>3. CASE ~(workspace = "locs" /\ u = LocsUri) /\ files[u] \subseteq Live(ctx)
    <2>1. PICK order \in SetToSeqs(RootsAbove(u)) :
             Requeue([i \in 1..Len(order) |-> Task("Reprocess", order[i])])
      BY <1>3 DEF Update, RootsAbove
    <2> DEFINE more == [i \in 1..Len(order) |-> Task("Reprocess", order[i])]
    <2>2. order \in Seq(RootsAbove(u)) /\ RootsAbove(u) \subseteq Nat
      BY <1>3, RootsAboveFacts, OrderFacts DEF Units
    <2>3. Len(order) \in Nat /\ \A i \in 1..Len(order) : order[i] \in Nat
      BY <2>2
    <2>4. \A i \in 1..Len(order) : Task("Reprocess", order[i]) \in TaskData
      BY <2>3 DEF Task, TaskData, NoReply
    <2>5. more \in Seq(TaskData)
      BY <2>3, <2>4
    <2> HIDE DEF more
    <2>6. tasks' \in Seq(TaskData)
      BY <1>1, <2>1, <2>5, RequeueTypes DEF more
    <2> QED  BY <1>3, <2>6 DEF Typed, Update, world, units, client, Panic
  <1>4. CASE Panic("task")
    BY <1>4 DEF Typed, Panic, world, units, client
  <1> QED  BY <1>2, <1>3, <1>4 DEF Update

\* A unit built again reports errors at its own documents.
LEMMA ReprocessTyped == IInv /\ Units /\ Typed /\ Reprocess => Typed'
  <1> SUFFICES ASSUME IInv, Units, Typed, Reprocess PROVE Typed'
    OBVIOUS
  <1>1. CASE Panic("task")
    BY <1>1 DEF Typed, Panic, world, units, client
  <1>2. ASSUME NEW h \in DOMAIN cache \cap Live(ctx), ReprocessUnit(h), Requeue(<<>>),
               UNCHANGED <<world, inbox, status, incoming, workspace, files, client>>
        PROVE  Typed'
    <2>1. tasks' \in Seq(TaskData)
      BY <1>2, QueuedTypes, RequeueTypes DEF Typed, Reprocess, RunsTask
    <2>2. PICK freed \in ExtractOrders(ctx, cache[h]) :
            LET uri  == ctx.store[h].uri
                m    == ExtractIf(ctx, cache[h], freed)
                kept == {d \in diagnostics : ~(d.owner = "unit" /\ d.unit = h)}
            IN  \/ \E order \in DepthFirst(IncludeForest({uri}, VfsTexts)) :
                     /\ diagnostics' = kept \cup BuildDiagnostics(m, order, VfsTexts)
                     /\ dirty' = TRUE
                \/ diagnostics' = kept /\ UNCHANGED dirty
      BY <1>2 DEF ReprocessUnit
    <2> DEFINE uri  == ctx.store[h].uri
               m    == ExtractIf(ctx, cache[h], freed)
               kept == {d \in diagnostics : ~(d.owner = "unit" /\ d.unit = h)}
    <2>3. MapOf(m, FileData) /\ Separate(m)
      BY ExtractFacts DEF Units
    <2>4. kept \subseteq DiagnosticData
      BY DEF Typed
    <2>5. VfsTexts \in Disk
      BY VfsTextsFacts DEF IInv, DocTypes
    <2>6. ASSUME NEW order \in DepthFirst(IncludeForest({uri}, VfsTexts))
          PROVE  BuildDiagnostics(m, order, VfsTexts) \subseteq DiagnosticData
      <3>1. order \in SetToSeqs(IncludeForest({uri}, VfsTexts))
        BY DEF DepthFirst
      <3> HIDE DEF uri, m
      <3> QED  BY <2>3, <2>5, <3>1, BuildDiagnosticsTypes
    <2>7. diagnostics' \subseteq DiagnosticData /\ dirty' \in BOOLEAN
      BY <2>2, <2>4, <2>6 DEF Typed
    <2> HIDE DEF uri, m, kept
    <2> QED  BY <1>2, <2>1, <2>7 DEF Typed, world, client
  <1> QED  BY <1>1, <1>2 DEF Reprocess

\* The analysis, of a task or of the timer.
LEMMA AnalyseTyped ==
    ASSUME Units, Typed, CachedFiles \subseteq Live(ctx), Analyse,
           tasks' \in Seq(TaskData), dirty' \in BOOLEAN
    PROVE  Typed'
  <1>1. ASSUME NEW h \in CachedFiles
        PROVE  h \in Nat /\ ctx.store[h].uri \in Uris
    BY DEF Units, MapOf, FileData
  <1> DEFINE found == SemanticErrors({[uri |-> ctx.store[h].uri, text |-> ctx.store[h].text] :
                                         h \in CachedFiles})
  <1>2. \A e \in found : e.uri \in Uris /\ e.error \in Errors
    BY <1>1 DEF SemanticErrors, Errors
  <1>3. diagnostics' = {d \in diagnostics : d.owner # "analysis"} \cup
                          {[owner |-> "analysis", unit |-> 0,
                            uri |-> e.uri, error |-> e.error] : e \in found}
    BY DEF Analyse
  <1> HIDE DEF found
  <1>4. diagnostics' \subseteq DiagnosticData
    BY <1>2, <1>3 DEF Typed, DiagnosticData
  <1>5. files' \in [Uris -> SUBSET Nat]
    BY <1>1 DEF Analyse
  <1>6. \A u \in Uris : ErrorsAt(diagnostics', u) \subseteq Errors
    BY <1>4 DEF ErrorsAt, DiagnosticData
  <1>7. published' \subseteq Uris /\ shown' \in [Uris -> SUBSET Errors]
    BY <1>6 DEF Analyse, publish_diagnostics, Typed
  <1> QED  BY <1>4, <1>5, <1>7 DEF Typed, Analyse, world

\* The analysis, by task or by timer.
LEMMA AnalysesTyped == Units /\ Typed /\ (Analysis \/ AnalysisTimer) => Typed'
  <1> SUFFICES ASSUME Units, Typed, Analysis \/ AnalysisTimer PROVE Typed'
    OBVIOUS
  <1>1. CASE Panic("task")
    BY <1>1 DEF Typed, Panic, world, units, client
  <1>2. CASE Analysis /\ ~Panic("task")
    <2>1. /\ CachedFiles \subseteq Live(ctx) /\ Analyse /\ Requeue(<<>>)
          /\ UNCHANGED dirty /\ tasks # <<>>
      BY <1>2 DEF Analysis, RunsTask
    <2>2. tasks' \in Seq(TaskData)
      BY <2>1, QueuedTypes, RequeueTypes DEF Typed
    <2> QED  BY <2>1, <2>2, AnalyseTyped DEF Typed
  <1>3. CASE AnalysisTimer /\ ~Panic("task")
    <2>1. CachedFiles \subseteq Live(ctx) /\ Analyse /\ dirty' = FALSE /\ UNCHANGED tasks
      BY <1>3 DEF AnalysisTimer
    <2> QED  BY <2>1, AnalyseTyped DEF Typed
  <1> QED  BY <1>1, <1>2, <1>3

\* Every rank below the size of a set of positions is that of one of them.
LEMMA RankFacts ==
    ASSUME NEW n \in Nat, NEW I \in SUBSET (1..n)
    PROVE  /\ IsFiniteSet(I) /\ Cardinality(I) \in Nat
           /\ \A k \in 1..Cardinality(I) : \E i \in I : Cardinality({j \in I : j <= i}) = k
  <1> DEFINE K == Cardinality(I)
             upTo(i) == {j \in I : j <= i}
             rank == [i \in I |-> Cardinality(upTo(i))]
  <1>1. IsFiniteSet(I) /\ K \in Nat
    <2>1. IsFiniteSet(1..n)
      BY FS_Interval
    <2> QED  BY <2>1, FS_Subset, FS_CardinalityType
  <1>2. \A i \in I : /\ IsFiniteSet(upTo(i)) /\ Cardinality(upTo(i)) \in Nat
                     /\ Cardinality(upTo(i)) <= K
                     /\ Cardinality(upTo(i)) # 0
    <2> SUFFICES ASSUME NEW i \in I
                 PROVE  /\ IsFiniteSet(upTo(i)) /\ Cardinality(upTo(i)) \in Nat
                        /\ Cardinality(upTo(i)) <= K
                        /\ Cardinality(upTo(i)) # 0
      OBVIOUS
    <2>1. upTo(i) \subseteq I /\ i \in upTo(i)
      OBVIOUS
    <2> HIDE DEF upTo
    <2>2. IsFiniteSet(upTo(i)) /\ Cardinality(upTo(i)) <= K
      BY <1>1, <2>1, FS_Subset
    <2> QED  BY <2>1, <2>2, FS_CardinalityType, FS_EmptySet
  <1>3. ASSUME NEW i \in I, NEW k \in I, i < k PROVE Cardinality(upTo(i)) # Cardinality(upTo(k))
    <2>1. upTo(i) \subseteq upTo(k) /\ k \in upTo(k) /\ k \notin upTo(i)
      <3>1. \A j \in I : j \in Nat
        OBVIOUS
      <3>2. i \in Nat /\ k \in Nat
        BY <3>1
      <3>3. \A j \in Nat : (j <= i => j <= k) /\ ~(k <= i) /\ k <= k
        BY <1>3, <3>2
      <3> QED  BY <3>1, <3>2, <3>3
    <2> HIDE DEF upTo
    <2> QED  BY <1>2, <2>1, FS_Subset
  <1>4. \A i, k \in I : i # k => i < k \/ k < i
    OBVIOUS
  <1>5. IsFiniteSet(1..K) /\ Cardinality(1..K) = K
    BY <1>1, FS_Interval
  <1> HIDE DEF upTo, K
  <1>6. rank \in Injection(I, 1..K)
    <2>1. \A i \in I : Cardinality(upTo(i)) \in 1..K
      BY <1>1, <1>2
    <2>2. \A i, k \in I : rank[i] = rank[k] => i = k
      BY <1>3, <1>4
    <2> QED  BY <2>1, <2>2 DEF Injection, IsInjective
  <1>7. rank \in Surjection(I, 1..K)
    BY <1>1, <1>5, <1>6, FS_Injection DEF K
  <1>8. \A k \in 1..K : \E i \in I : rank[i] = k
    BY <1>7 DEF Surjection
  <1> QED  BY <1>1, <1>8 DEF K, upTo

\* A subsequence holds members of the sequence, at the positions it is made of.
LEMMA AtPositionsFacts ==
    ASSUME NEW T, NEW s \in Seq(T), NEW I \in SUBSET (1..Len(s))
    PROVE  /\ AtPositions(s, I) \in Seq(T)
           /\ Len(AtPositions(s, I)) = Cardinality(I)
           /\ \A k \in 1..Cardinality(I) : \E i \in I : AtPositions(s, I)[k] = s[i]
  <1> DEFINE K == Cardinality(I)
             at(k) == CHOOSE i \in I : Cardinality({j \in I : j <= i}) = k
  <1>1. Len(s) \in Nat /\ \A i \in 1..Len(s) : s[i] \in T
    OBVIOUS
  <1>2. K \in Nat /\ \A k \in 1..K : at(k) \in I
    BY <1>1, RankFacts
  <1>3. AtPositions(s, I) = [k \in 1..K |-> s[at(k)]]
    BY DEF AtPositions
  <1> HIDE DEF K, at
  <1>4. \A k \in 1..K : s[at(k)] \in T
    BY <1>1, <1>2
  <1>5. [k \in 1..K |-> s[at(k)]] \in Seq(T) /\ Len([k \in 1..K |-> s[at(k)]]) = K
    BY <1>2, <1>4
  <1> QED  BY <1>2, <1>3, <1>5 DEF K

\* An answered request leaves the register.
LEMMA ResponseTyped == Typed /\ Response => Typed'
  <1> SUFFICES ASSUME Typed, Response PROVE Typed'
    OBVIOUS
  <1>1. tasks' \in Seq(TaskData)
    BY QueuedTypes, RequeueTypes DEF Typed, Response, RunsTask
  <1> QED  BY <1>1 DEF Typed, Response, world, units, client

\* The handlers queue tasks of the right kind, and take messages one at a time.
LEMMA HandlersTyped ==
    ASSUME IInv, Typed,
           \/ handle_did_open_text_document \/ handle_did_change_text_document
           \/ handle_did_close_text_document \/ handle_did_change_watched_file
           \/ query \/ reload_request \/ shutdown
    PROVE  Typed'
  <1> DEFINE msg == Head(inbox)
  <1>1. /\ inbox # <<>> /\ inbox \in Seq(Message) /\ tasks = <<>>
        /\ msg \in Message /\ Tail(inbox) \in Seq(Message)
    <2>1. inbox # <<>> /\ inbox \in Seq(Message) /\ tasks = <<>>
      BY DEF handle_did_open_text_document, handle_did_change_text_document,
             handle_did_close_text_document, handle_did_change_watched_file,
             query, reload_request, shutdown, Receives, Typed
    <2> QED  BY <2>1, HeadTailProperties
  <1>2. /\ msg.type \in {"open", "change", "close", "query"} => msg.uri \in Uris
        /\ msg.type = "watched" => msg.uris \in Seq(Uris \cup {ConfigUri})
        /\ msg.type = "reload" => msg.id \in Nat
    BY <1>1 DEF Message
  <1> HIDE DEF msg
  <1>3. CASE \/ handle_did_open_text_document \/ handle_did_change_text_document
             \/ handle_did_close_text_document
    <2>1. tasks' = <<Task("Update", msg.uri)>> /\ msg.uri \in Uris
      BY <1>2, <1>3 DEF handle_did_open_text_document, handle_did_change_text_document,
             handle_did_close_text_document, Receives, msg
    <2>2. tasks' \in Seq(TaskData)
      BY <2>1, QueuedTypes
    <2> QED  BY <1>1, <1>3, <2>2 DEF Typed, handle_did_open_text_document,
             handle_did_change_text_document, handle_did_close_text_document,
             world, units, client
  <1>4. CASE handle_did_change_watched_file
    <2> DEFINE changes == msg.uris
               fails(i) == changes[i] # ConfigUri /\ UpdateFails(vfs, disk, changes[i])
               handled == {i \in 1..Len(changes) : \A j \in 1..i : ~fails(j)}
               told == {i \in handled : changes[i] = ConfigUri
                                          \/ ~HoldsDocument(vfs, changes[i])}
               queued == AtPositions(changes, told)
               task(u) == IF u = ConfigUri THEN Task("ReloadWorkspace", 0)
                                           ELSE Task("Update", u)
    <2>1. tasks' = [k \in 1..Len(queued) |-> task(queued[k])] /\ msg.type = "watched"
      BY <1>4 DEF handle_did_change_watched_file, Receives, msg
    <2>2. changes \in Seq(Uris \cup {ConfigUri}) /\ told \in SUBSET (1..Len(changes))
      BY <1>2, <2>1
    <2>3. queued \in Seq(Uris \cup {ConfigUri})
      <3> HIDE DEF changes, told
      <3> QED  BY <2>2, AtPositionsFacts
    <2>4. \A u \in Uris \cup {ConfigUri} : task(u) \in TaskData
      BY DEF Task, TaskData, NoReply
    <2> HIDE DEF queued, task
    <2>5. Len(queued) \in Nat /\ \A k \in 1..Len(queued) : task(queued[k]) \in TaskData
      BY <2>3, <2>4
    <2>6. tasks' \in Seq(TaskData)
      BY <2>1, <2>5
    <2> QED  BY <1>1, <1>4, <2>6 DEF Typed, handle_did_change_watched_file,
             world, units, client
  <1>5. CASE query
    BY <1>1, <1>5 DEF Typed, query, Panic, world, units, client
  <1>6. CASE reload_request
    <2>1. /\ incoming' = incoming \cup {msg.id}
          /\ tasks' = <<[Task("ReloadWorkspace", 0) EXCEPT !.reply = msg.id]>>
          /\ msg.id \in Nat
      BY <1>2, <1>6 DEF reload_request, Receives, msg
    <2>2. tasks' \in Seq(TaskData)
      BY <2>1, QueuedTypes
    <2> QED  BY <1>1, <1>6, <2>1, <2>2 DEF Typed, reload_request, world, units, client
  <1>7. CASE shutdown
    BY <1>1, <1>7 DEF Typed, shutdown, world, units, client
  <1> QED  BY <1>3, <1>4, <1>5, <1>6, <1>7

\* The editor, the disk and the watcher send well-typed messages.
LEMMA EnvironmentTyped == Typed /\ (EditorStep \/ Watcher \/ UNCHANGED vars) => Typed'
  <1> USE DEF Acts, Sends, Edits, server, loop, client
  <1> SUFFICES ASSUME Typed, EditorStep \/ Watcher \/ UNCHANGED vars PROVE Typed'
    OBVIOUS
  <1>S. ASSUME NEW m \in Message, inbox' = Append(inbox, m) PROVE inbox' \in Seq(Message)
    BY <1>S DEF Typed
  <1>C. \A u \in Uris : \A t \in TextsOf[u] : t \in Text
    BY EnvironmentAssumption
  <1>E. events \in Nat /\ events + 1 \in Nat
    BY DEF Typed
  <1>P. /\ \A old, new : Edits(old, new) => pausing' \in BOOLEAN
        /\ unseen \subseteq Uris \cup {ConfigUri}
    BY DEF Typed
  <1>1. ASSUME \/ UNCHANGED inbox
               \/ \E m \in Message : inbox' = Append(inbox, m),
               config' \in Configs, unseen' \subseteq Uris \cup {ConfigUri},
               events' \in Nat, pausing' \in BOOLEAN,
               UNCHANGED <<loop, diagnostics, client, workspace, files, dirty>>
        PROVE  Typed'
    <2>1. inbox' \in Seq(Message)
      BY <1>1, <1>S DEF Typed
    <2> QED  BY <1>1, <2>1 DEF Typed
  <1>2. ASSUME NEW u \in Uris, NEW t \in TextsOf[u], EditorOpens(u, t) PROVE Typed'
    <2>1. [type |-> "open", uri |-> u, text |-> t] \in Message
      BY <1>C DEF Message
    <2> QED  BY <1>1, <1>2, <1>E, <1>P, <2>1 DEF EditorOpens, Typed, units
  <1>3. ASSUME NEW u \in Uris, NEW t \in TextsOf[u], EditorChanges(u, t) PROVE Typed'
    <2>1. [type |-> "change", uri |-> u, text |-> t] \in Message
      BY <1>C DEF Message
    <2> QED  BY <1>1, <1>3, <1>E, <1>P, <2>1 DEF EditorChanges, Typed, units
  <1>4. ASSUME NEW u \in Uris, EditorCloses(u) PROVE Typed'
    <2>1. [type |-> "close", uri |-> u] \in Message
      BY DEF Message
    <2> QED  BY <1>1, <1>4, <1>E, <1>P, <2>1 DEF EditorCloses, Typed, units
  <1>5. ASSUME NEW u \in Uris, EditorAsks(u) PROVE Typed'
    <2>1. [type |-> "query", uri |-> u] \in Message
      BY DEF Message
    <2> QED  BY <1>1, <1>5, <1>E, <1>P, <2>1 DEF EditorAsks, Typed, units
  <1>6. CASE EditorReloads
    <2>1. [type |-> "reload", id |-> events'] \in Message
      BY <1>6, <1>E DEF EditorReloads, Message
    <2> QED  BY <1>1, <1>6, <1>E, <1>P, <2>1 DEF EditorReloads, Typed, units
  <1>7. CASE EditorShutsDown
    <2>1. [type |-> "shutdown"] \in Message
      BY DEF Message
    <2> QED  BY <1>1, <1>7, <1>E, <1>P, <2>1 DEF EditorShutsDown, Typed, units
  <1>8. ASSUME NEW u \in Uris, NEW t \in TextsOf[u], DiskChanges(u, t) PROVE Typed'
    BY <1>1, <1>8, <1>E, <1>P DEF DiskChanges, Typed, units
  <1>9. ASSUME NEW u \in Uris, DiskDeletes(u) PROVE Typed'
    BY <1>1, <1>9, <1>E, <1>P DEF DiskDeletes, Typed, units
  <1>10. ASSUME NEW c \in Configs, ConfigChanges(c) PROVE Typed'
    BY <1>1, <1>10, <1>E, <1>P DEF ConfigChanges, Typed, units
  <1>11. CASE Watcher
    <2>1. PICK S \in (SUBSET unseen) \ {{}} : WatcherReports(S)
      BY <1>11 DEF Watcher
    <2>2. PICK order \in SetToSeqs(S) :
             inbox' = Append(inbox, [type |-> "watched", uris |-> order])
      BY <2>1 DEF WatcherReports
    <2>3. S \subseteq Uris \cup {ConfigUri} /\ IsFiniteSet(Uris \cup {ConfigUri})
      BY <1>P, UrisAssumption, FS_AddElement
    <2>4. order \in Seq(Uris \cup {ConfigUri})
      <3>1. IsFiniteSet(S)
        BY <2>3, FS_Subset
      <3>2. order \in Seq(S)
        BY <3>1, OrderFacts
      <3> QED  BY <2>3, <3>2, SeqMonotonic
    <2>5. [type |-> "watched", uris |-> order] \in Message
      BY <2>4 DEF Message
    <2> QED  BY <1>1, <1>P, <2>1, <2>2, <2>5 DEF WatcherReports, Typed, units
  <1>12. CASE UNCHANGED vars
    BY <1>12 DEF vars, world, units, Typed
  <1> QED  BY <1>2, <1>3, <1>4, <1>5, <1>6, <1>7, <1>8, <1>9, <1>10, <1>11, <1>12 DEF EditorStep

\* The nodes of a build join those that there are.
LEMMA BuildNodesTyped ==
    ASSUME NEW n, MapOf(n, NodeData), Separate(n),
           NEW m, MapOf(m, FileData), Separate(m),
           NEW roots, NEW texts, NEW order \in SetToSeqs(IncludeForest(roots, texts))
    PROVE  /\ MapOf(BuildNodes(n, m, order, texts), NodeData)
           /\ Separate(BuildNodes(n, m, order, texts))
  <1> DEFINE F == IncludeForest(roots, texts)
             text(i) == texts[Last(order[(i + 1) \div 2])]
             isUse(i) == i % 2 = 1
             node(i) == [unit |-> HandleAt(m, order, RootPath(order[(i + 1) \div 2])),
                         kind |-> IF isUse(i) THEN "use" ELSE "definition"]
             all == [i \in 1..2 * Len(order) |-> node(i)]
             present == {i \in DOMAIN all : IF isUse(i) THEN text(i).uses ELSE text(i).defines}
  <1>1. F \in SUBSET Paths /\ \A p \in F : <<p[1]>> \in F
    BY ForestFacts
  <1>2. /\ \A p \in F : HandleAt(m, order, p) \in Nat
        /\ \A i \in 1..Len(order) : order[i] \in F
    <2> HIDE DEF F
    <2> QED  BY <1>1, HandleFacts DEF F
  <1>3. Len(order) \in Nat
    <2>1. IsFiniteSet(F)
      BY ForestFacts
    <2>2. order \in Seq(F)
      BY <2>1, OrderFacts
    <2> QED  BY <2>2
  <1>4. ASSUME NEW i \in 1..2 * Len(order) PROVE node(i) \in NodeData
    <2>1. (i + 1) \div 2 \in 1..Len(order)
      BY <1>3
    <2>2. HandleAt(m, order, RootPath(order[(i + 1) \div 2])) \in Nat
      BY <1>1, <1>2, <2>1 DEF RootPath
    <2> QED  BY <2>2 DEF NodeData
  <1> HIDE DEF node
  <1>5. all \in Seq(NodeData) /\ Len(all) = 2 * Len(order) /\ DOMAIN all = 1..Len(all)
    BY <1>3, <1>4
  <1>6. present \in SUBSET (1..Len(all))
    BY <1>5
  <1>7. BuildNodes(n, m, order, texts) = PushAll(n, AtPositions(all, present))
    BY DEF BuildNodes, node
  <1> HIDE DEF all, present
  <1>8. AtPositions(all, present) \in Seq(NodeData)
    BY <1>5, <1>6, AtPositionsFacts
  <1> QED  BY <1>7, <1>8, PushAllFacts

\* A load makes its nodes in a new context, and leaves no analysis.
LEMMA LoadNodes ==
    ASSUME NEW kind, NEW roots, NEW m, MapOf(m, FileData), Separate(m),
           NEW released, NEW loose, NEW read,
           Load(kind, roots, m, released, loose, read)
    PROVE  NodesTyped' /\ analysis' = {}
  <1>1. PICK order \in DepthFirst(IncludeForest(roots, VfsTexts)) :
           nodes' = BuildNodes(EmptyMap, m, order, VfsTexts) /\ analysis' = {}
    BY DEF Load
  <1>2. order \in SetToSeqs(IncludeForest(roots, VfsTexts))
    BY DEF DepthFirst
  <1>3. MapOf(EmptyMap, NodeData) /\ Separate(EmptyMap)
    BY EmptyMapFacts
  <1>4. MapOf(nodes', NodeData) /\ Separate(nodes')
    BY <1>1, <1>2, <1>3, BuildNodesTyped
  <1> QED  BY <1>1, <1>4 DEF NodesTyped

LEMMA LoadsNodes ==
    ASSUME IInv, LoadFullWorkspace \/ LoadLocsFile
    PROVE  (NodesTyped' /\ analysis' = {}) \/ UNCHANGED <<nodes, analysis, dirty, status>>
  <1>2. MapOf(EmptyMap, FileData) /\ Separate(EmptyMap)
    BY EmptyMapFacts
  <1>3. CASE LoadFullWorkspace
    <2>1. Load("full", Roots("full", VfsTexts, disk), EmptyMap, <<>>, {}, {})
      BY <1>3 DEF LoadFullWorkspace
    <2> QED  BY <1>2, <2>1, LoadNodes
  <1>4. CASE LoadLocsFile /\ Readable(vfs, disk, LocsUri)
    <2> DEFINE locs == [uri |-> LocsUri, text |-> VfsTexts[LocsUri], parent |-> {}]
               m == Push(EmptyMap, locs)
               loose == {[owner |-> "locs", unit |-> 0, uri |-> e.uri, error |-> e.error] :
                            e \in LocsErrors(VfsTexts)}
    <2>1. Load("locs", VfsTexts[LocsUri].inc, m, <<NewKey(EmptyMap)>>, loose, {LocsUri})
      BY <1>4 DEF LoadLocsFile
    <2>2. locs \in FileData
      BY <1>4, VfsTextsFacts, UrisAssumption DEF FileData, IInv, DocTypes
    <2> HIDE DEF locs, loose
    <2>3. MapOf(m, FileData) /\ Separate(m)
      BY <1>2, <2>2, PushFacts
    <2> HIDE DEF m
    <2> QED  BY <2>1, <2>3, LoadNodes
  <1>5. CASE LoadLocsFile /\ ~Readable(vfs, disk, LocsUri)
    BY <1>5 DEF LoadLocsFile, units
  <1> QED  BY <1>3, <1>4, <1>5

\* The analysis holds on to nodes that are there.
LEMMA LinkedLive == Linked \subseteq Live(nodes)
  BY DEF Linked

\* The tasks that leave the nodes and the analysis alone, like everything that
\* comes from the editor and the disk.
LEMMA NodesLeft ==
    ASSUME \/ ReloadWorkspace \/ Response \/ Update \/ EditorStep \/ Watcher
           \/ handle_did_open_text_document \/ handle_did_change_text_document
           \/ handle_did_close_text_document \/ handle_did_change_watched_file
           \/ query \/ reload_request \/ shutdown \/ UNCHANGED vars
    PROVE  UNCHANGED <<nodes, analysis, dirty>>
  <1>1. CASE ReloadWorkspace \/ Response \/ Update
    BY <1>1 DEF ReloadWorkspace, Response, Update, Panic, units
  <1>2. CASE \/ handle_did_open_text_document \/ handle_did_change_text_document
             \/ handle_did_close_text_document \/ handle_did_change_watched_file
             \/ query \/ reload_request \/ shutdown
    BY <1>2 DEF handle_did_open_text_document, handle_did_change_text_document,
           handle_did_close_text_document, handle_did_change_watched_file,
           query, reload_request, shutdown, Panic, units
  <1>3. CASE EditorStep \/ Watcher \/ UNCHANGED vars
    BY <1>3 DEF EditorStep, Watcher, EditorOpens, EditorChanges, EditorCloses,
           EditorAsks, EditorReloads, EditorShutsDown, DiskChanges, DiskDeletes,
           ConfigChanges, WatcherReports, server, vars, units
  <1> QED  BY <1>1, <1>2, <1>3

\* Every step leaves the nodes a map that can be pushed to.
LEMMA NodesNext ==
    ASSUME IInv, Units, NodesTyped, [Next]_vars PROVE NodesTyped'
  <1>1. disk \in Disk /\ vfs \in [Uris -> Entry]
    BY DEF IInv, DocTypes
  <1>2. ASSUME UNCHANGED <<nodes, analysis>> PROVE NodesTyped'
    BY <1>2 DEF NodesTyped
  <1>3. CASE LoadFullWorkspace \/ LoadLocsFile
    BY <1>2, <1>3, LoadsNodes
  <1>4. CASE Reprocess
    <2>1. CASE Panic("task")
      BY <1>2, <2>1 DEF Panic, units
    <2>2. ASSUME NEW h \in DOMAIN cache \cap Live(ctx), ReprocessUnit(h), UNCHANGED analysis
          PROVE  NodesTyped'
      <3>1. PICK freed \in ExtractOrders(ctx, cache[h]), gone \in ExtractOrders(nodes, NodesOf(h)) :
              LET m == ExtractIf(ctx, cache[h], freed)
                  n == ExtractIf(nodes, NodesOf(h), gone)
              IN  \/ nodes' = EmptyMap
                  \/ \E order \in DepthFirst(IncludeForest({ctx.store[h].uri}, VfsTexts)) :
                        nodes' = BuildNodes(n, m, order, VfsTexts)
        BY <2>2 DEF ReprocessUnit
      <3> DEFINE m == ExtractIf(ctx, cache[h], freed)
                 n == ExtractIf(nodes, NodesOf(h), gone)
      <3>2. MapOf(m, FileData) /\ Separate(m)
        BY ExtractFacts DEF Units
      <3>3. MapOf(n, NodeData) /\ Separate(n)
        BY ExtractFacts DEF NodesTyped
      <3>4. CASE nodes' = EmptyMap
        <4>1. MapOf(EmptyMap, NodeData) /\ Separate(EmptyMap)
          BY EmptyMapFacts
        <4> QED  BY <2>2, <3>4, <4>1 DEF NodesTyped
      <3> HIDE DEF m, n
      <3>5. ASSUME NEW order \in DepthFirst(IncludeForest({ctx.store[h].uri}, VfsTexts)),
                   nodes' = BuildNodes(n, m, order, VfsTexts)
            PROVE  NodesTyped'
        <4>1. order \in SetToSeqs(IncludeForest({ctx.store[h].uri}, VfsTexts))
          BY DEF DepthFirst
        <4>2. MapOf(nodes', NodeData) /\ Separate(nodes')
          BY <3>2, <3>3, <3>5, <4>1, BuildNodesTyped
        <4> QED  BY <2>2, <4>2 DEF NodesTyped
      <3> QED  BY <3>1, <3>4, <3>5 DEF m, n
    <2> QED  BY <1>4, <2>1, <2>2 DEF Reprocess
  <1>5. CASE Analysis \/ AnalysisTimer
    <2>1. (nodes' = nodes /\ analysis' = Linked) \/ UNCHANGED <<nodes, analysis>>
      BY <1>5 DEF Analysis, AnalysisTimer, Analyse, Panic, units
    <2>2. Linked \subseteq Nat
      BY LinkedLive DEF NodesTyped, MapOf
    <2> QED  BY <2>1, <2>2 DEF NodesTyped
  <1>6. CASE \/ ReloadWorkspace \/ Response \/ Update \/ EditorStep \/ Watcher
             \/ handle_did_open_text_document \/ handle_did_change_text_document
             \/ handle_did_close_text_document \/ handle_did_change_watched_file
             \/ query \/ reload_request \/ shutdown \/ UNCHANGED vars
    BY <1>2, <1>6, NodesLeft
  <1> QED  BY <1>3, <1>4, <1>5, <1>6 DEF Next, ServerStep

\* Every variable keeps its type, whatever the environment does; what a task
\* names when it is queued, and the parent of every file, is of the right kind.
THEOREM TypesHold == Spec => []TypeOK
  <1> DEFINE All == IInv /\ Units /\ Typed /\ NodesTyped
  <1>1. Init => All
    <2> SUFFICES ASSUME Init PROVE Typed /\ NodesTyped
      BY InvInit, UnitsInit
    <2>1. tasks \in Seq(TaskData) /\ inbox \in Seq(Message)
      BY QueuedTypes, EmptySeq DEF Init
    <2>2. MapOf(EmptyMap, NodeData) /\ Separate(EmptyMap)
      BY EmptyMapFacts
    <2> QED  BY <2>1, <2>2 DEF Init, Typed, NodesTyped
  <1>2. All /\ [Next]_vars => All'
    <2> SUFFICES ASSUME All, [Next]_vars PROVE All'
      OBVIOUS
    <2>1. IInv' /\ Units'
      BY InvNext, UnitsNext DEF IInv, DocTypes
    <2>2. Typed'
      BY ReloadTyped, LoadsTyped, UpdateTyped, ReprocessTyped, AnalysesTyped,
         HandlersTyped, EnvironmentTyped, ResponseTyped DEF Next, ServerStep
    <2>3. NodesTyped'
      BY NodesNext
    <2> QED  BY <2>1, <2>2, <2>3
  <1>3. All => TypeOK
    BY TypesTogether
  <1> QED  BY <1>1, <1>2, <1>3, PTL DEF Spec

\* An environment in which files do not come and go, one that reports changed
\* files one at a time, and an editor that waits, after an edit of what a file
\* includes, until the server is done with it.
CalmEnvironment ==
    /\ ~HurriedIncludeEdits /\ ~Batches /\ ~DiskFaults
    /\ \A u \in Uris : InitDisk[u] # Missing

\* What the theorems before this one say.
Known == IInv /\ Units /\ Typed

\* The shape of a document is what it includes, by the text the server reads.
Shape(u) == VfsTexts[u].inc

Tells(m, u) == m.type \in {"open", "change", "close"} /\ m.uri = u
Said(m, u) == IF m.type = "close" THEN disk[u] ELSE m.text
TrueText(u) == IF docs[u] = Missing THEN disk[u] ELSE docs[u]

\* Nothing that is under way will change the shape of u.
ShapeKept(u) ==
    /\ ~HoldsDocument(vfs, u) => disk[u].inc = Shape(u)
    /\ TrueText(u).inc = Shape(u)
    /\ \A m \in ToSet(inbox) : Tells(m, u) => Said(m, u).inc = Shape(u)

Shapes == \A u \in Uris : ShapeKept(u)

\* The unit r has the files that its root calls for now.
UriOf(h) == ctx.store[h].uri
Fit(r) == UnitOf(ctx, r, cache[r], IncludeForest({UriOf(r)}, VfsTexts))
AllFit == \A r \in DOMAIN cache : Fit(r)

\* The index leads to all the units of a document, and to no other.
HasFile(r, u) == \E h \in cache[r] : UriOf(h) = u
Indexed ==
    /\ \A u \in Uris : files[u] \subseteq FilesOf(cache)
    /\ \A r \in DOMAIN cache : \A u \in Uris :
          HasFile(r, u) <=> files[u] \cap cache[r] # {}

\* What may be in the queue: the tasks of a reload, an update, or what an update
\* leads to.
Answers(q) == \A t \in ToSet(q) : t.type \in {"Analysis", "Response"}
Reloads(q) ==
    \/ Answers(q)
    \/ q # <<>> /\ Tail(q) = <<>> /\ Head(q).type = "ReloadWorkspace"
    \/ q # <<>> /\ Answers(Tail(q)) /\ Head(q).type \in {"LoadLocsFile", "LoadFullWorkspace"}
Reprocesses(q) ==
    /\ \A t \in ToSet(q) : t.type = "Reprocess" /\ t.arg \in DOMAIN cache /\ t.reply = NoReply
    /\ \A i, j \in 1..Len(q) : q[i].arg = q[j].arg => i = j
Queue ==
    \/ Reloads(tasks)
    \/ \E u \in Uris : tasks = <<Task("Update", u)>>
    \/ Reprocesses(tasks)

\* The server works for the config there is, or is going to hear of another.
WillHear ==
    \/ ConfigUri \in unseen
    \/ [type |-> "watched", uris |-> <<ConfigUri>>] \in ToSet(inbox)
    \/ tasks # <<>> /\ Head(tasks).type = "ReloadWorkspace"
Current ==
    /\ workspace = config \/ WillHear
    /\ tasks # <<>> =>
          /\ Head(tasks).type = "LoadLocsFile" => workspace = "locs"
          /\ Head(tasks).type = "LoadFullWorkspace" => workspace = "full"

\* Every document is on disk, and those of the units have been read; the watcher
\* reports one file at a time.
Present ==
    /\ \A u \in Uris : disk[u] # Missing
    /\ \A h \in FilesOf(cache) : vfs[UriOf(h)] # NoFile
    /\ Live(ctx) = FilesOf(cache)
Single == \A m \in ToSet(inbox) : m.type = "watched" =>
            \E u \in Uris \cup {ConfigUri} : m.uris = <<u>>

\* The phases.  Stable: only texts change, the files of all units stay.  Loading:
\* the units are new, and the index is empty until the analysis comes.
Stable == Shapes /\ AllFit /\ Indexed
Loading ==
    /\ Shapes /\ AllFit
    /\ files = [u \in Uris |-> {}]
    /\ Reloads(tasks) /\ \E t \in ToSet(tasks) : t.type = "Analysis"

\* An edit of u has changed what it includes: its report is on its way, ...
Quiet == pausing /\ inbox = <<>> /\ unseen = {}
OnItsWay(u) ==
    \/ /\ unseen = {}
       /\ \E m \in ToSet(inbox) :
             /\ inbox = <<m>> /\ Tells(m, u)
             /\ IF m.type = "close" THEN docs[u] = Missing
                                    ELSE docs[u] = m.text /\ docs[u] # Missing
             /\ m.type = "open" \/ HoldsDocument(vfs, u)
    \/ /\ docs[u] = Missing /\ ~HoldsDocument(vfs, u)
       /\ \/ inbox = <<>> /\ unseen = {u}
          \/ unseen = {} /\ inbox = <<[type |-> "watched", uris |-> <<u>>]>>
Edited(u) ==
    /\ pausing /\ tasks = <<>> /\ ~dirty
    /\ OnItsWay(u)
    /\ \A v \in Uris \ {u} : ShapeKept(v)
    /\ AllFit /\ Indexed
\* ... the units of u are to be found, by the index of before the edit, ...
Updating(u) ==
    /\ Quiet /\ Shapes /\ Indexed
    /\ tasks = <<Task("Update", u)>>
    /\ \A r \in DOMAIN cache : HasFile(r, u) \/ Fit(r)
\* ... and are reprocessed, each in its turn; or the workspace is loaded again.
Rebuilding ==
    /\ Quiet /\ Shapes
    /\ Reprocesses(tasks)
    /\ tasks = <<>> => dirty
    /\ \A r \in DOMAIN cache : (\E t \in ToSet(tasks) : t.arg = r) \/ Fit(r)
Reloading ==
    /\ Quiet /\ Shapes
    /\ \/ tasks = <<Task("ReloadWorkspace", 0)>> /\ config # "none"
       \/ tasks = <<Task("LoadLocsFile", 0)>>
       \/ tasks = <<Task("LoadFullWorkspace", 0)>>

Phase ==
    \/ Stable \/ Loading \/ Rebuilding \/ Reloading
    \/ \E u \in Uris : Edited(u) \/ Updating(u)

\* No handle of a file or of a unit is followed that leads nowhere.
HandlesLead == status \in {"running", "stopped", "node"}

Calm ==
    /\ Present /\ Single /\ Queue /\ Current
    /\ HandlesLead
    /\ status = "running" => Phase

-----------------------------------------------------------------------------
\* The members of a sequence.
LEMMA MembersFacts ==
    ASSUME NEW T, NEW s \in Seq(T)
    PROVE  /\ ToSet(s) = {s[i] : i \in 1..Len(s)} /\ ToSet(s) \subseteq T
           /\ \A x : ToSet(Append(s, x)) = ToSet(s) \cup {x}
           /\ s # <<>> => /\ Head(s) \in T /\ Head(s) \in ToSet(s)
                          /\ Tail(s) \in Seq(T)
                          /\ ToSet(s) = {Head(s)} \cup ToSet(Tail(s))
           /\ \A t \in Seq(T) : ToSet(s \o t) = ToSet(s) \cup ToSet(t)
           /\ \A x : ToSet(<<x>>) = {x}
           /\ ToSet(<<>>) = {}
  <1>1. ToSet(s) = {s[i] : i \in 1..Len(s)} /\ ToSet(s) \subseteq T
    BY DEF ToSet
  <1>2. ASSUME NEW x PROVE ToSet(Append(s, x)) = ToSet(s) \cup {x}
    <2>1. Append(s, x) \in Seq(T \cup {x}) /\ Len(Append(s, x)) = Len(s) + 1 /\ Len(s) \in Nat
      OBVIOUS
    <2>2. /\ \A i \in 1..Len(s) : Append(s, x)[i] = s[i]
          /\ Append(s, x)[Len(s) + 1] = x
      OBVIOUS
    <2>3. DOMAIN Append(s, x) = 1..Len(s) + 1 /\ DOMAIN s = 1..Len(s)
      BY <2>1
    <2>4. 1..Len(s) + 1 = (1..Len(s)) \cup {Len(s) + 1}
      BY <2>1
    <2> QED  BY <2>2, <2>3, <2>4 DEF ToSet
  <1>3. ASSUME s # <<>>
        PROVE  /\ Head(s) \in T /\ Head(s) \in ToSet(s)
               /\ Tail(s) \in Seq(T)
               /\ ToSet(s) = {Head(s)} \cup ToSet(Tail(s))
    <2>1. /\ Head(s) = s[1] /\ Len(s) \in Nat \ {0} /\ Tail(s) \in Seq(T)
          /\ Len(Tail(s)) = Len(s) - 1 /\ \A i \in 1..Len(s) - 1 : Tail(s)[i] = s[i + 1]
      BY <1>3, HeadTailProperties, EmptySeq, LenProperties
    <2>2. \A l \in Nat \ {0} : /\ 1 \in 1..l
                               /\ \A i \in 1..l - 1 : i + 1 \in 1..l
                               /\ \A i \in 1..l : i = 1 \/ (i - 1 \in 1..l - 1 /\ (i - 1) + 1 = i)
      OBVIOUS
    <2>3. DOMAIN Tail(s) = 1..Len(s) - 1 /\ DOMAIN s = 1..Len(s)
      BY <2>1
    <2>4. ToSet(Tail(s)) \subseteq ToSet(s)
      <3>1. \A i \in 1..Len(s) - 1 : i + 1 \in 1..Len(s) /\ Tail(s)[i] = s[i + 1]
        BY <2>1, <2>2
      <3> QED  BY <2>3, <3>1 DEF ToSet
    <2>5. \A i \in 1..Len(s) : s[i] = Head(s) \/ s[i] \in ToSet(Tail(s))
      <3> SUFFICES ASSUME NEW i \in 1..Len(s), i # 1 PROVE s[i] \in ToSet(Tail(s))
        BY <2>1
      <3>1. i - 1 \in 1..Len(s) - 1 /\ (i - 1) + 1 = i
        BY <2>1, <2>2
      <3>2. Tail(s)[i - 1] = s[i]
        BY <2>1, <3>1
      <3> QED  BY <2>3, <3>1, <3>2 DEF ToSet
    <2>6. Head(s) \in ToSet(s)
      BY <2>1, <2>2, <2>3 DEF ToSet
    <2> QED  BY <1>1, <2>1, <2>4, <2>5, <2>6
  <1>4. ASSUME NEW t \in Seq(T) PROVE ToSet(s \o t) = ToSet(s) \cup ToSet(t)
    <2>1. /\ s \o t \in Seq(T) /\ Len(s \o t) = Len(s) + Len(t)
          /\ \A i \in 1..Len(s) + Len(t) :
                (s \o t)[i] = IF i <= Len(s) THEN s[i] ELSE t[i - Len(s)]
      BY ConcatProperties
    <2>2. Len(s) \in Nat /\ Len(t) \in Nat
      OBVIOUS
    <2>3. \A k, l \in Nat :
             /\ \A i \in 1..k : i \in 1..k + l /\ i <= k
             /\ \A j \in 1..l : j + k \in 1..k + l /\ ~(j + k <= k) /\ (j + k) - k = j
             /\ \A i \in 1..k + l : IF i <= k THEN i \in 1..k ELSE i - k \in 1..l
      OBVIOUS
    <2>4. \A i \in 1..Len(s) : s[i] \in ToSet(s \o t)
      BY <2>1, <2>2, <2>3 DEF ToSet
    <2>5. ASSUME NEW j \in 1..Len(t) PROVE t[j] \in ToSet(s \o t)
      <3>1. j + Len(s) \in 1..Len(s) + Len(t) /\ (s \o t)[j + Len(s)] = t[j]
        BY <2>1, <2>2, <2>3
      <3>2. ToSet(s \o t) = {(s \o t)[i] : i \in 1..Len(s) + Len(t)}
        BY <2>1 DEF ToSet
      <3> QED  BY <3>1, <3>2
    <2>6. ToSet(s \o t) \subseteq ToSet(s) \cup ToSet(t)
      BY <2>1, <2>2, <2>3 DEF ToSet
    <2>7. ToSet(t) = {t[i] : i \in 1..Len(t)}
      BY DEF ToSet
    <2> QED  BY <1>1, <2>4, <2>5, <2>6, <2>7
  <1>5. ASSUME NEW x PROVE ToSet(<<x>>) = {x}
    BY DEF ToSet
  <1>6. ToSet(<<>>) = {}
    BY DEF ToSet
  <1> QED  BY <1>1, <1>2, <1>3, <1>4, <1>5, <1>6

\* Texts that agree on what the files of a unit include give it the same files.
LEMMA SameForest ==
    ASSUME NEW a \in Disk, NEW b \in Disk, NEW x,
           \A u \in Uris : a[u] # Missing /\ b[u] # Missing,
           \A p \in IncludeForest({x}, a) : a[Last(p)].inc = b[Last(p)].inc
    PROVE  IncludeForest({x}, b) = IncludeForest({x}, a)
  <1> DEFINE A == IncludeForest({x}, a)
             B == IncludeForest({x}, b)
  <1>1. \A p \in Paths : /\ Len(p) \in Nat \ {0}
                         /\ \A i \in 1..Len(p) : /\ p[i] \in Uris
                                                 /\ SubSeq(p, 1, i) \in Paths
                                                 /\ Len(SubSeq(p, 1, i)) = i
                                                 /\ Last(SubSeq(p, 1, i)) = p[i]
                                                 /\ \A k \in 1..i : SubSeq(p, 1, i)[k] = p[k]
    BY PathFacts, PrefixFacts
  <1>2. ASSUME NEW p \in Paths
        PROVE  /\ p \in A <=> p[1] = x /\ \A i \in 1..Len(p) - 1 : p[i + 1] \in a[p[i]].inc
               /\ p \in B <=> p[1] = x /\ \A i \in 1..Len(p) - 1 : p[i + 1] \in b[p[i]].inc
    BY <1>1 DEF IncludeForest
  <1>3. A \subseteq Paths /\ B \subseteq Paths
    BY ForestFacts
  <1> HIDE DEF B
  <1>4. ASSUME NEW p \in A PROVE p \in B
    <2>1. \A k \in 1..Len(p) : SubSeq(p, 1, k) \in A
      BY ForestFacts
    <2>2. ASSUME NEW i \in 1..Len(p) PROVE a[p[i]].inc = b[p[i]].inc
      <3>1. SubSeq(p, 1, i) \in A /\ Last(SubSeq(p, 1, i)) = p[i]
        BY <1>1, <1>3, <2>1
      <3>2. a[Last(SubSeq(p, 1, i))].inc = b[Last(SubSeq(p, 1, i))].inc
        BY <3>1
      <3> QED  BY <3>1, <3>2
    <2>3. \A l \in Nat : \A i \in 1..l - 1 : i \in 1..l
      OBVIOUS
    <2>4. \A i \in 1..Len(p) - 1 : a[p[i]].inc = b[p[i]].inc
      BY <1>1, <1>3, <2>2, <2>3
    <2> QED  BY <1>2, <1>3, <2>4
  <1>5. ASSUME NEW p \in B, p \notin A PROVE FALSE
    <2> HIDE DEF A
    <2>0. p \in Paths /\ Len(p) \in Nat \ {0}
      BY <1>1, <1>3
    <2> DEFINE Bad == {k \in 1..Len(p) - 1 : p[k + 1] \notin a[p[k]].inc}
    <2>1. Bad \subseteq Nat /\ Bad # {}
      <3>1. Bad # {}
        BY <1>2, <1>5, <2>0
      <3>2. \A l \in Nat \ {0} : 1..l - 1 \subseteq Nat
        OBVIOUS
      <3> QED  BY <2>0, <3>1, <3>2
    <2>2. PICK n \in Bad : \A k \in Bad : n <= k
      BY <2>1, LeastNumber
    <2>3. n \in 1..Len(p) - 1 /\ p[n + 1] \notin a[p[n]].inc
      OBVIOUS
    <2>4. \A i \in 1..n - 1 : p[i + 1] \in a[p[i]].inc
      <3> SUFFICES ASSUME NEW i \in 1..n - 1, i \notin Bad PROVE p[i + 1] \in a[p[i]].inc
        <4>1. ASSUME NEW i \in 1..n - 1 PROVE i \notin Bad
          <5>1. i \in Nat /\ ~(n <= i)
            BY <2>3
          <5> HIDE DEF Bad
          <5> QED  BY <2>2, <5>1
        <4> QED  BY <4>1
      <3>1. i \in 1..Len(p) - 1
        BY <2>0, <2>3
      <3> QED  BY <3>1
    <2> DEFINE q == SubSeq(p, 1, n)
    <2>5. n \in 1..Len(p) /\ 1 \in 1..n
      BY <2>0, <2>3
    <2>6. q \in Paths /\ Len(q) = n /\ Last(q) = p[n] /\ \A k \in 1..n : q[k] = p[k]
      BY <1>1, <2>0, <2>5
    <2> HIDE DEF q
    <2>7. q \in A
      <3>1. q[1] = x
        BY <1>2, <2>0, <2>5, <2>6
      <3>2. \A i \in 1..n - 1 : i \in 1..n /\ i + 1 \in 1..n
        BY <2>3
      <3>3. \A i \in 1..Len(q) - 1 : q[i + 1] \in a[q[i]].inc
        BY <2>4, <2>6, <3>2
      <3> QED  BY <1>2, <2>6, <3>1, <3>3
    <2>8. a[p[n]].inc = b[p[n]].inc
      BY <2>6, <2>7 DEF A
    <2>9. p[n + 1] \in b[p[n]].inc
      BY <1>2, <2>0, <2>3
    <2> QED  BY <2>3, <2>8, <2>9
  <1> QED  BY <1>4, <1>5 DEF B

\* What is read of a document when no file is missing.
LEMMA ContentsFacts ==
    ASSUME NEW d \in Disk, NEW v \in [Uris -> Entry], \A u \in Uris : d[u] # Missing,
           NEW u \in Uris
    PROVE  /\ Contents(v, d, u) \in Text /\ Contents(v, d, u) # Missing
           /\ Readable(v, d, u)
           /\ v[u] = NoFile => Contents(v, d, u) = d[u]
           /\ v[u] # NoFile => Contents(v, d, u) = v[u].text
           /\ \A t : v[u] = Fs(t) \/ v[u] = Lsp(t) => v[u] # NoFile /\ Contents(v, d, u) = t
           /\ HoldsDocument(v, u) => v[u] # NoFile
  <1>1. d[u] \in Text /\ v[u] \in Entry /\ Missing \notin Text
    BY UrisAssumption DEF Disk
  <1>2. NoFile.kind = "none" /\ \A t : /\ Fs(t).kind = "fs" /\ Fs(t).text = t
                                       /\ Lsp(t).kind = "lsp" /\ Lsp(t).text = t
    BY DEF NoFile, Fs, Lsp
  <1>3. CASE v[u] = NoFile
    BY <1>1, <1>2, <1>3 DEF Contents, Readable, HoldsDocument
  <1>4. ASSUME NEW t \in Text, v[u] = Fs(t) \/ v[u] = Lsp(t)
        PROVE  /\ v[u] # NoFile /\ v[u].text = t
               /\ \A s : v[u] = Fs(s) \/ v[u] = Lsp(s) => s = t
    BY <1>2, <1>4
  <1>5. ASSUME NEW t \in Text, v[u] = Fs(t) \/ v[u] = Lsp(t)
        PROVE  /\ Contents(v, d, u) = t /\ t # Missing /\ Readable(v, d, u)
    BY <1>1, <1>4, <1>5 DEF Contents, Readable
  <1> QED  BY <1>1, <1>3, <1>4, <1>5, EntryFacts

\* Reading takes nothing away and changes no text.
LEMMA ReadingFacts ==
    ASSUME NEW d \in Disk, NEW v \in [Uris -> Entry], \A u \in Uris : d[u] # Missing,
           NEW S, NEW w, w = ReadAll(v, d, S), NEW u \in Uris
    PROVE  /\ Contents(w, d, u) = Contents(v, d, u)
           /\ HoldsDocument(w, u) <=> HoldsDocument(v, u)
           /\ v[u] # NoFile => w[u] # NoFile
           /\ u \in S => w[u] # NoFile
  <1>1. d[u] \in Text /\ v[u] \in Entry
    BY DEF Disk
  <1>2. w[u] = IF u \in S /\ v[u] = NoFile THEN Fs(d[u]) ELSE v[u]
    BY DEF ReadAll
  <1>3. CASE w[u] = v[u]
    <2>1. u \in S => w[u] # NoFile
      BY <1>1, <1>2, <1>3, EntryFacts
    <2> QED  BY <1>3, <2>1 DEF Contents, HoldsDocument
  <1>4. CASE v[u] = NoFile /\ w[u] = Fs(d[u])
    <2>1. w[u] # NoFile /\ w[u].text = d[u] /\ ~HoldsDocument(w, u) /\ ~HoldsDocument(v, u)
      BY <1>4 DEF HoldsDocument, NoFile, Fs
    <2> QED  BY <1>4, <2>1 DEF Contents
  <1> QED  BY <1>2, <1>3, <1>4

\* What the server reads of a document, and what that includes.
LEMMA TextsAre ==
    /\ \A u \in Uris : VfsTexts[u] = Contents(vfs, disk, u) /\ Shape(u) = Contents(vfs, disk, u).inc
    /\ \A u \in Uris : VfsTexts'[u] = Contents(vfs', disk', u)
                       /\ Shape(u)' = Contents(vfs', disk', u).inc
  BY DEF VfsTexts, Shape

\* What is known of the units in a calm state.
LEMMA PresentFacts ==
    ASSUME Known, Present
    PROVE  /\ UnitsOf(ctx, cache)
           /\ MapOf(ctx, FileData) /\ Separate(ctx)
           /\ disk \in Disk /\ docs \in Disk /\ vfs \in [Uris -> Entry]
           /\ VfsTexts \in Disk /\ \A u \in Uris : disk[u] # Missing /\ VfsTexts[u] # Missing
           /\ \A h \in Live(ctx) : UriOf(h) \in Uris
           /\ CachedFiles = FilesOf(cache)
           /\ tasks \in Seq(TaskData) /\ inbox \in Seq(Message)
  <1>1. MapOf(ctx, FileData) /\ Separate(ctx) /\ \A h \in Live(ctx) : UriOf(h) \in Uris
    <2>1. MapOf(ctx, FileData) /\ Separate(ctx)
      BY DEF Known, Units
    <2> QED  BY <2>1 DEF MapOf, FileData, UriOf
  <1>2. UnitsOf(ctx, cache)
    <2>1. CASE Live(ctx) = {}
      <3>1. DOMAIN cache = {}
        <4>1. \A q \in DOMAIN cache : q \in cache[q] /\ cache[q] \subseteq FilesOf(cache)
          BY DEF Known, Units, UnitsApart, FilesOf
        <4>2. FilesOf(cache) = {}
          BY <2>1 DEF Present
        <4> QED  BY <4>1, <4>2
      <3> QED  BY <3>1 DEF Known, Units, UnitsOf
    <2> QED  BY <2>1 DEF Known, Units
  <1>3. disk \in Disk /\ docs \in Disk /\ vfs \in [Uris -> Entry] /\ \A u \in Uris : disk[u] # Missing
    BY DEF Known, IInv, DocTypes, Present
  <1>4. VfsTexts \in Disk /\ \A u \in Uris : VfsTexts[u] # Missing
    BY <1>3, VfsTextsFacts, TextsAre, ContentsFacts
  <1> QED  BY <1>1, <1>2, <1>3, <1>4 DEF CachedFiles, FilesOf, Known, Typed

\* A unit that is left alone still fits while the shapes of its files stay.
LEMMA StillFits ==
    ASSUME Known, Present, disk' \in Disk, vfs' \in [Uris -> Entry],
           \A u \in Uris : disk'[u] # Missing,
           NEW r \in DOMAIN cache, Fit(r), cache'[r] = cache[r],
           \A h \in cache[r] : /\ h \in Live(ctx') /\ ctx'.store[h] = ctx.store[h]
                               /\ Shape(UriOf(h))' = Shape(UriOf(h))
    PROVE  Fit(r)'
  <1> DEFINE x == ctx.store[r].uri
             F == IncludeForest({x}, VfsTexts)
  <1>1. VfsTexts \in Disk /\ \A u \in Uris : VfsTexts[u] # Missing
    BY PresentFacts
  <1>2. VfsTexts' \in Disk /\ \A u \in Uris : VfsTexts'[u] # Missing
    <2>1. \A u \in Uris : VfsTexts'[u] \in Text /\ VfsTexts'[u] # Missing
      BY TextsAre, ContentsFacts
    <2> QED  BY <2>1 DEF VfsTexts, Disk
  <1>3. F \in SUBSET Paths /\ UnitOf(ctx, r, cache[r], F)
    BY ForestFacts DEF Fit, UriOf
  <1> HIDE DEF F
  <1>4. {ctx.store[h].uri : h \in cache[r]} = {Last(p) : p \in F}
    BY <1>3, UnitFacts
  <1>5. ASSUME NEW p \in F PROVE VfsTexts[Last(p)].inc = VfsTexts'[Last(p)].inc
    <2>1. PICK h \in cache[r] : ctx.store[h].uri = Last(p)
      BY <1>4
    <2>2. ctx'.store[h] = ctx.store[h] /\ Shape(UriOf(h))' = Shape(UriOf(h))
      BY <2>1
    <2> QED  BY <2>1, <2>2 DEF Shape, UriOf
  <1>6. IncludeForest({x}, VfsTexts') = F
    <2>1. \A p \in IncludeForest({x}, VfsTexts) : VfsTexts[Last(p)].inc = VfsTexts'[Last(p)].inc
      BY <1>5 DEF F
    <2> HIDE DEF x
    <2> QED  BY <1>1, <1>2, <2>1, SameForest DEF F
  <1>7. r \in cache[r]
    BY DEF Known, Units, UnitsApart
  <1>8. UnitOf(ctx', r, cache'[r], F)
    BY <1>3, UnitKept
  <1> QED  BY <1>6, <1>7, <1>8 DEF Fit, UriOf

\* The queue after a task that was answered, or not.
LEMMA Requeued ==
    ASSUME tasks \in Seq(TaskData), tasks # <<>>, NEW more \in Seq(TaskData), Requeue(more)
    PROVE  /\ Head(tasks).reply = NoReply => tasks' = Tail(tasks) \o more
           /\ Head(tasks).reply = NoReply /\ more = <<>> => tasks' = Tail(tasks)
           /\ Head(tasks).reply = NoReply /\ Tail(tasks) = <<>> => tasks' = more
           /\ ToSet(Tail(tasks)) \cup ToSet(more) \subseteq ToSet(tasks')
           /\ Answers(Tail(tasks)) /\ Answers(more) => Answers(tasks')
           /\ Tail(tasks) = <<>> => \A t : more = <<t>> =>
                 tasks' # <<>> /\ Head(tasks') = t /\ Answers(Tail(tasks'))
  <1> DEFINE answer == IF Head(tasks).reply = NoReply THEN <<>>
                       ELSE <<Task("Response", Head(tasks).reply)>>
             rest == Tail(tasks) \o more
  <1>1. Head(tasks) \in TaskData /\ Tail(tasks) \in Seq(TaskData)
    BY HeadTailProperties
  <1>2. answer \in Seq(TaskData) /\ rest \in Seq(TaskData)
    <2>1. Head(tasks).reply \in Nat
      BY <1>1 DEF TaskData
    <2>2. Task("Response", Head(tasks).reply) \in TaskData
      BY <2>1 DEF Task, TaskData, NoReply
    <2>3. ASSUME NEW v \in TaskData PROVE <<v>> \in Seq(TaskData)
      BY <2>3
    <2>4. answer \in Seq(TaskData)
      BY <2>2, <2>3, EmptySeq
    <2> QED  BY <1>1, <2>4, ConcatProperties
  <1>3. tasks' = rest \o answer
    BY DEF Requeue
  <1>4. Answers(answer)
    BY MembersFacts DEF Answers, Task
  <1>5. Head(tasks).reply = NoReply => answer = <<>>
    OBVIOUS
  <1> HIDE DEF answer, rest
  <1>6. ToSet(tasks') = ToSet(Tail(tasks)) \cup ToSet(more) \cup ToSet(answer)
    <2>0. ASSUME NEW a \in Seq(TaskData), NEW b \in Seq(TaskData)
          PROVE  ToSet(a \o b) = ToSet(a) \cup ToSet(b)
      BY MembersFacts
    <2>1. ToSet(Tail(tasks) \o more) = ToSet(Tail(tasks)) \cup ToSet(more)
      BY <1>1, <2>0
    <2>2. ToSet(rest \o answer) = ToSet(rest) \cup ToSet(answer)
      BY <1>2, <2>0
    <2>3. ToSet(rest) = ToSet(Tail(tasks)) \cup ToSet(more)
      BY <2>1 DEF rest
    <2> QED  BY <1>3, <2>2, <2>3
  <1>7. Head(tasks).reply = NoReply => tasks' = Tail(tasks) \o more
    BY <1>2, <1>3, <1>5, ConcatEmptySeq DEF rest
  <1>8. /\ more = <<>> => Tail(tasks) \o more = Tail(tasks)
        /\ Tail(tasks) = <<>> => Tail(tasks) \o more = more
    BY <1>1, ConcatEmptySeq
  <1>9. ASSUME Tail(tasks) = <<>>, NEW t, more = <<t>>
        PROVE  tasks' # <<>> /\ Head(tasks') = t /\ Answers(Tail(tasks'))
    <2>1. rest = <<t>>
      BY <1>8, <1>9 DEF rest
    <2>2. tasks' = <<t>> \o answer /\ t \in TaskData
      BY <1>2, <1>3, <2>1, <1>9
    <2>3. tasks' # <<>> /\ Head(tasks') = t /\ Tail(tasks') = answer
      <3>1. <<t>> \in Seq(TaskData) /\ Len(<<t>>) = 1 /\ <<t>>[1] = t /\ Len(answer) \in Nat
        BY <1>2, <2>2
      <3>2. /\ <<t>> \o answer \in Seq(TaskData) /\ Len(<<t>> \o answer) = 1 + Len(answer)
            /\ \A i \in 1..1 + Len(answer) :
                  (<<t>> \o answer)[i] = IF i <= 1 THEN <<t>>[i] ELSE answer[i - 1]
        BY <1>2, <3>1, ConcatProperties
      <3> DEFINE all == <<t>> \o answer
      <3>3. all \in Seq(TaskData) /\ Len(all) = 1 + Len(answer) /\ all[1] = t
        BY <3>1, <3>2
      <3>4. \A i \in 1..Len(answer) : all[i + 1] = answer[i]
        BY <3>1, <3>2
      <3> HIDE DEF all
      <3>5. all # <<>> /\ Head(all) = t /\ Tail(all) \in Seq(TaskData)
            /\ Len(Tail(all)) = Len(answer) /\ \A i \in 1..Len(answer) : Tail(all)[i] = answer[i]
        <4>1. all # <<>>
          BY <3>1, <3>3
        <4>2. /\ Head(all) = all[1] /\ Tail(all) \in Seq(TaskData)
              /\ Len(Tail(all)) = Len(all) - 1
              /\ \A i \in 1..Len(all) - 1 : Tail(all)[i] = all[i + 1]
          BY <3>3, <4>1, HeadTailProperties
        <4>3. Len(all) - 1 = Len(answer)
          BY <3>1, <3>3
        <4> QED  BY <3>3, <3>4, <4>1, <4>2, <4>3
      <3>6. Tail(all) = answer
        BY <1>2, <3>5, SeqEqual
      <3> QED  BY <2>2, <3>5, <3>6 DEF all
    <2> QED  BY <1>4, <2>3
  <1>10. Answers(Tail(tasks)) /\ Answers(more) => Answers(tasks')
    BY <1>4, <1>6 DEF Answers
  <1> QED  BY <1>6, <1>7, <1>8, <1>9, <1>10

\* What is at the head of the queue says what the rest is, and which phase it is.
LEMMA PhaseAtHead ==
    ASSUME Known, Calm, status = "running", tasks # <<>>, NEW t, t = Head(tasks)
    PROVE  /\ t \in TaskData /\ Tail(tasks) \in Seq(TaskData)
           /\ t.type = "ReloadWorkspace" => Tail(tasks) = <<>> /\ (Stable \/ Reloading)
           /\ t.type \in {"LoadLocsFile", "LoadFullWorkspace"} =>
                 Answers(Tail(tasks)) /\ (Stable \/ Loading \/ Reloading)
           /\ t.type \in {"Analysis", "Response"} => Answers(tasks) /\ (Stable \/ Loading)
           /\ t.type = "Update" => /\ Tail(tasks) = <<>> /\ t.reply = NoReply
                                   /\ t.arg \in Uris /\ (Stable \/ Updating(t.arg))
           /\ t.type = "Reprocess" => Reprocesses(tasks) /\ (Stable \/ Rebuilding)
           /\ Reloading => Tail(tasks) = <<>> /\ t.reply = NoReply
  <1>1. tasks \in Seq(TaskData)
    BY DEF Known, Typed
  <1>2. /\ t \in TaskData /\ Tail(tasks) \in Seq(TaskData)
        /\ ToSet(tasks) = {t} \cup ToSet(Tail(tasks))
    BY <1>1, MembersFacts
  <1>3. ASSUME NEW type, NEW x, tasks = <<Task(type, x)>>
        PROVE  /\ t.type = type /\ t.arg = x /\ t.reply = NoReply
               /\ Tail(tasks) = <<>> /\ ToSet(tasks) = {Task(type, x)}
    <2>1. t = Task(type, x) /\ Tail(tasks) = <<>>
      BY <1>3
    <2>2. ToSet(tasks) = {Task(type, x)}
      BY <1>3, <1>1, MembersFacts
    <2> QED  BY <2>1, <2>2 DEF Task
  <1>4. Queue /\ Phase
    BY DEF Calm
  <1>5. Answers(tasks) => t.type \in {"Analysis", "Response"}
    BY <1>2 DEF Answers
  <1>6. Reprocesses(tasks) => t.type = "Reprocess"
    BY <1>2 DEF Reprocesses
  <1>7. Loading => \E s \in {t} \cup ToSet(Tail(tasks)) : s.type = "Analysis"
    BY <1>2 DEF Loading
  <1>8. Tail(tasks) = <<>> => ToSet(Tail(tasks)) = {}
    BY <1>1, MembersFacts
  <1>9. Reloading => /\ Tail(tasks) = <<>> /\ t.reply = NoReply
                     /\ t.type \in {"ReloadWorkspace", "LoadLocsFile", "LoadFullWorkspace"}
    BY <1>3 DEF Reloading
  <1>10. ASSUME NEW u, tasks = <<Task("Update", u)>>
         PROVE  t.type = "Update" /\ t.arg = u /\ t.reply = NoReply /\ Tail(tasks) = <<>>
    BY <1>3, <1>10
  <1>11. CASE t.type = "ReloadWorkspace"
    <2>1. Tail(tasks) = <<>>
      BY <1>4, <1>5, <1>6, <1>10, <1>11 DEF Queue, Reloads
    <2>2. Stable \/ Reloading
      BY <1>4, <1>6, <1>7, <1>8, <1>10, <1>11, <2>1 DEF Phase, Rebuilding, Edited, Updating
    <2> QED  BY <1>2, <1>9, <1>11, <2>1, <2>2
  <1>12. CASE t.type \in {"LoadLocsFile", "LoadFullWorkspace"}
    <2>1. Answers(Tail(tasks))
      BY <1>4, <1>5, <1>6, <1>10, <1>12 DEF Queue, Reloads
    <2>2. Stable \/ Loading \/ Reloading
      BY <1>4, <1>6, <1>10, <1>12 DEF Phase, Rebuilding, Edited, Updating
    <2> QED  BY <1>2, <1>9, <1>12, <2>1, <2>2
  <1>13. CASE t.type \in {"Analysis", "Response"}
    <2>1. Answers(tasks)
      BY <1>4, <1>6, <1>10, <1>13 DEF Queue, Reloads
    <2>2. Stable \/ Loading
      BY <1>4, <1>6, <1>9, <1>10, <1>13 DEF Phase, Rebuilding, Edited, Updating
    <2> QED  BY <1>2, <1>9, <1>13, <2>1, <2>2
  <1>14. CASE t.type = "Update"
    <2>1. \E u \in Uris : tasks = <<Task("Update", u)>>
      BY <1>4, <1>5, <1>6, <1>14 DEF Queue, Reloads
    <2>2. Tail(tasks) = <<>> /\ t.reply = NoReply /\ t.arg \in Uris
      BY <1>10, <2>1
    <2>3. Stable \/ \E u \in Uris : Updating(u)
      BY <1>4, <1>5, <1>6, <1>9, <1>14 DEF Phase, Loading, Rebuilding, Edited, Reloads
    <2>4. Stable \/ Updating(t.arg)
      BY <1>10, <2>3 DEF Updating
    <2> QED  BY <1>2, <1>9, <1>14, <2>2, <2>4
  <1>15. CASE t.type = "Reprocess"
    <2>1. Reprocesses(tasks)
      BY <1>4, <1>5, <1>10, <1>15 DEF Queue, Reloads
    <2>2. Stable \/ Rebuilding
      BY <1>4, <1>5, <1>9, <1>10, <1>15 DEF Phase, Loading, Reloads, Edited, Updating
    <2> QED  BY <1>2, <1>9, <1>15, <2>1, <2>2
  <1> QED  BY <1>2, <1>9, <1>11, <1>12, <1>13, <1>14, <1>15

\* A task changes no text and takes no message.
LEMMA TaskKeepsTexts ==
    ASSUME Known, Present, UNCHANGED <<world, inbox>>,
           vfs' = vfs \/ \E S : vfs' = ReadAll(vfs, disk, S)
    PROVE  /\ VfsTexts' = VfsTexts
           /\ \A u \in Uris : Shape(u)' = Shape(u) /\ (vfs[u] # NoFile => vfs'[u] # NoFile)
           /\ disk' \in Disk /\ \A u \in Uris : disk'[u] # Missing
           /\ Shapes => Shapes'
           /\ Single => Single'
           /\ Quiet => Quiet'
  <1>1. disk \in Disk /\ vfs \in [Uris -> Entry] /\ \A u \in Uris : disk[u] # Missing
    BY PresentFacts
  <1>2. UNCHANGED <<disk, config, docs, unseen, pausing, inbox>>
    BY DEF world
  <1>3. \A u \in Uris : /\ Contents(vfs', disk, u) = Contents(vfs, disk, u)
                        /\ HoldsDocument(vfs', u) <=> HoldsDocument(vfs, u)
                        /\ vfs[u] # NoFile => vfs'[u] # NoFile
    BY <1>1, ReadingFacts
  <1>4. VfsTexts' = VfsTexts
    BY <1>2, <1>3 DEF VfsTexts
  <1>5. \A u \in Uris : Shape(u)' = Shape(u)
    BY <1>4 DEF Shape
  <1>6. ASSUME Shapes, NEW u \in Uris PROVE ShapeKept(u)'
    <2>1. ShapeKept(u) /\ Shape(u)' = Shape(u)
      BY <1>5, <1>6 DEF Shapes
    <2> QED  BY <1>2, <1>3, <2>1 DEF ShapeKept, TrueText, Said, Tells
  <1> QED  BY <1>1, <1>2, <1>3, <1>4, <1>5, <1>6 DEF Shapes, Single, Quiet

\* What is said of the units stands while they and the texts are left alone.
LEMMA UnitsStay ==
    ASSUME UNCHANGED <<ctx, cache>>, VfsTexts' = VfsTexts
    PROVE  /\ \A h : UriOf(h)' = UriOf(h)
           /\ \A r : Fit(r)' <=> Fit(r)
           /\ AllFit' <=> AllFit
           /\ UNCHANGED files => (Indexed' <=> Indexed)
           /\ \A r, u : HasFile(r, u)' <=> HasFile(r, u)
           /\ FilesOf(cache)' = FilesOf(cache) /\ Live(ctx)' = Live(ctx)
           /\ CachedFiles' = CachedFiles
  <1>1. \A h : UriOf(h)' = UriOf(h)
    BY DEF UriOf
  <1>2. \A r : Fit(r)' <=> Fit(r)
    BY DEF Fit, UriOf
  <1>3. \A r, u : HasFile(r, u)' <=> HasFile(r, u)
    BY DEF HasFile, UriOf
  <1>4. FilesOf(cache)' = FilesOf(cache) /\ Live(ctx)' = Live(ctx)
    BY DEF FilesOf, Live
  <1>5. AllFit' <=> AllFit
    BY <1>2 DEF AllFit
  <1>6. UNCHANGED files => (Indexed' <=> Indexed)
    BY <1>3, <1>4 DEF Indexed
  <1> QED  BY <1>1, <1>2, <1>3, <1>4, <1>5, <1>6 DEF CachedFiles

\* No file goes away while none is removed and none is forgotten.
LEMMA PresentStays ==
    ASSUME Known, Present, UNCHANGED <<ctx, cache>>,
           \A u \in Uris : disk'[u] # Missing /\ (vfs[u] # NoFile => vfs'[u] # NoFile)
    PROVE  Present'
  <1>1. \A h \in FilesOf(cache) : UriOf(h) \in Uris
    BY PresentFacts DEF Present
  <1> QED  BY <1>1 DEF Present, UriOf, FilesOf, Live

\* What every task but a reload leaves of the config that the server works for.
LEMMA CurrentStays ==
    ASSUME Known, Current, UNCHANGED <<config, unseen, inbox, workspace>>,
           tasks # <<>> => Head(tasks).type # "ReloadWorkspace",
           tasks' # <<>> => Head(tasks').type \notin {"LoadLocsFile", "LoadFullWorkspace"}
    PROVE  Current'
  BY DEF Current, WillHear

\* The first of the tasks that end a reload is one of them.
LEMMA HeadAnswers ==
    ASSUME tasks' \in Seq(TaskData), tasks' # <<>>, Answers(tasks')
    PROVE  Head(tasks').type \in {"Analysis", "Response"}
  BY MembersFacts DEF Answers

\* Task::ReloadWorkspace keeps the phase: a load follows.
LEMMA CalmReload ==
    ASSUME Known, Known', Calm, ReloadWorkspace PROVE Calm'
  <1> DEFINE t == Head(tasks)
             more == CASE config = "none" -> <<>>
                       [] config = "locs" -> <<Task("LoadLocsFile", 0)>>
                       [] config = "full" -> <<Task("LoadFullWorkspace", 0)>>
  <1>1. /\ status = "running" /\ tasks # <<>> /\ t.type = "ReloadWorkspace"
        /\ workspace' = config /\ Requeue(more)
        /\ UNCHANGED <<world, inbox, status, incoming, vfs, ctx, cache, files, dirty,
                       diagnostics, client>>
    BY DEF ReloadWorkspace, RunsTask
  <1>2. /\ Tail(tasks) = <<>> /\ (Stable \/ Reloading) /\ tasks \in Seq(TaskData)
        /\ Reloading => t.reply = NoReply
    BY <1>1, PhaseAtHead DEF Known, Typed
  <1>3. Present /\ Single /\ HandlesLead
    BY DEF Calm
  <1>4. /\ VfsTexts' = VfsTexts /\ Single' /\ (Shapes => Shapes') /\ (Quiet => Quiet')
        /\ \A u \in Uris : disk'[u] # Missing /\ (vfs[u] # NoFile => vfs'[u] # NoFile)
    BY <1>1, <1>3, TaskKeepsTexts
  <1>5. Present'
    BY <1>1, <1>3, <1>4, PresentStays
  <1>6. config \in {"none", "locs", "full"} /\ config' = config
    BY <1>1, EnvironmentAssumption DEF Known, Typed, world
  <1>7. tasks' \in Seq(TaskData)
    BY DEF Known, Typed
  <1>8. \/ config = "none" /\ more = <<>>
        \/ config = "locs" /\ more = <<Task("LoadLocsFile", 0)>>
        \/ config = "full" /\ more = <<Task("LoadFullWorkspace", 0)>>
    BY <1>6
  <1> HIDE DEF more
  <1>9. more \in Seq(TaskData)
    BY <1>8, QueuedTypes
  <1>10. CASE more = <<>>
    <2>1. Answers(<<>>)
      BY MembersFacts, EmptySeq DEF Answers
    <2>2. Answers(tasks')
      BY <1>1, <1>2, <1>9, <1>10, <2>1, Requeued
    <2>3. Queue' /\ Current'
      BY <1>1, <1>6, <1>7, <2>2, HeadAnswers DEF Queue, Reloads, Current
    <2>4. ~Reloading
      <3> SUFFICES ASSUME Reloading PROVE FALSE
        OBVIOUS
      <3>1. config = "none"
        BY <1>8, <1>10
      <3> QED  BY <1>1, <3>1 DEF Reloading, Task
    <2>5. Stable'
      BY <1>1, <1>2, <1>4, <2>4, UnitsStay DEF Stable
    <2> QED  BY <1>1, <1>3, <1>4, <1>5, <2>3, <2>5 DEF Calm, Phase, HandlesLead
  <1>11. ASSUME NEW x, more = <<x>>,
                \/ config = "locs" /\ x = Task("LoadLocsFile", 0)
                \/ config = "full" /\ x = Task("LoadFullWorkspace", 0)
         PROVE  Calm'
    <2>1. tasks' # <<>> /\ Head(tasks') = x /\ Answers(Tail(tasks'))
      BY <1>1, <1>2, <1>9, <1>11, Requeued
    <2>2. Queue'
      BY <1>11, <2>1 DEF Queue, Reloads, Task
    <2>3. Current'
      BY <1>1, <1>6, <1>11, <2>1 DEF Current, Task
    <2>4. CASE Stable
      <3>1. Stable'
        BY <1>1, <1>4, <2>4, UnitsStay DEF Stable
      <3> QED  BY <1>1, <1>3, <1>4, <1>5, <2>2, <2>3, <3>1 DEF Calm, Phase, HandlesLead
    <2>5. CASE Reloading
      <3>1. tasks' = <<x>>
        BY <1>1, <1>2, <1>9, <1>11, <2>5, Requeued
      <3>2. Reloading'
        BY <1>4, <1>11, <2>5, <3>1 DEF Reloading
      <3> QED  BY <1>1, <1>3, <1>4, <1>5, <2>2, <2>3, <3>2 DEF Calm, Phase, HandlesLead
    <2> QED  BY <1>2, <2>4, <2>5
  <1> QED  BY <1>8, <1>10, <1>11

\* A load builds all units anew for the texts there are: Loading.
LEMMA CalmLoads ==
    ASSUME Known, Known', Calm, LoadFullWorkspace \/ LoadLocsFile PROVE Calm'
  <1> DEFINE t == Head(tasks)
             more == <<Task("Analysis", 0)>>
  <1>1. Present /\ Single /\ HandlesLead /\ Current
    BY DEF Calm
  <1>2. disk \in Disk /\ vfs \in [Uris -> Entry] /\ (LoadLocsFile => Readable(vfs, disk, LocsUri))
    <2>1. disk \in Disk /\ vfs \in [Uris -> Entry] /\ disk[LocsUri] # Missing
      BY <1>1, PresentFacts, UrisAssumption
    <2> QED  BY <2>1 DEF Readable
  <1>3. /\ status = "running" /\ tasks # <<>>
        /\ \/ t.type = "LoadFullWorkspace" /\ workspace' = "full"
           \/ t.type = "LoadLocsFile" /\ workspace' = "locs"
        /\ files' = [u \in Uris |-> {}]
        /\ Requeue(more)
        /\ UNCHANGED <<world, inbox, status, incoming, dirty, client>>
    BY <1>2 DEF LoadFullWorkspace, LoadLocsFile, Load, RunsTask
  <1>4. Answers(Tail(tasks)) /\ (Stable \/ Loading \/ Reloading) /\ tasks \in Seq(TaskData)
    BY <1>3, PhaseAtHead DEF Known, Typed
  <1>5. /\ UnitsOf(ctx, cache)' /\ (Live(ctx) = FilesOf(cache))'
        /\ \A r \in DOMAIN cache' :
              UnitOf(ctx', r, cache'[r], IncludeForest({ctx'.store[r].uri}, VfsTexts))
        /\ \E S : /\ vfs' = ReadAll(vfs, disk, S)
                  /\ \A h \in Live(ctx)' : ctx'.store[h].uri \in S
    BY <1>2, LoadBuilds
  <1>6. /\ VfsTexts' = VfsTexts /\ Single' /\ (Shapes => Shapes')
        /\ \A u \in Uris : disk'[u] # Missing
    BY <1>1, <1>3, <1>5, TaskKeepsTexts
  <1>7. Present'
    <2>1. PICK S : vfs' = ReadAll(vfs, disk, S) /\ \A h \in Live(ctx)' : ctx'.store[h].uri \in S
      BY <1>5
    <2>2. \A h \in Live(ctx)' : ctx'.store[h].uri \in Uris
      BY DEF Known, Units, MapOf, FileData
    <2>3. \A u \in Uris : u \in S => vfs'[u] # NoFile
      BY <1>1, <1>2, <2>1, ReadingFacts DEF Present
    <2> QED  BY <1>5, <1>6, <2>1, <2>2, <2>3 DEF Present, UriOf
  <1>8. AllFit'
    BY <1>5, <1>6 DEF AllFit, Fit, UriOf
  <1>9. Shapes'
    BY <1>4, <1>6 DEF Stable, Loading, Reloading
  <1>10. more \in Seq(TaskData) /\ ToSet(more) = {Task("Analysis", 0)}
    BY QueuedTypes, MembersFacts
  <1>11. tasks' \in Seq(TaskData)
    BY DEF Known, Typed
  <1> HIDE DEF more
  <1>12. Answers(more) /\ Task("Analysis", 0) \in ToSet(more) /\ Task("Analysis", 0).type = "Analysis"
    BY <1>10 DEF Answers, Task
  <1>13. Answers(tasks') /\ Task("Analysis", 0) \in ToSet(tasks')
    BY <1>3, <1>4, <1>10, <1>12, Requeued
  <1>14. Loading'
    BY <1>3, <1>8, <1>9, <1>12, <1>13 DEF Loading, Reloads
  <1>15. Queue'
    BY <1>13 DEF Queue, Reloads
  <1>16. Current'
    <2>1. workspace' = workspace
      BY <1>1, <1>3 DEF Current
    <2>2. tasks' # <<>> => Head(tasks').type \notin {"LoadLocsFile", "LoadFullWorkspace"}
      BY <1>11, <1>13, HeadAnswers
    <2> QED  BY <1>1, <1>3, <2>1, <2>2, CurrentStays DEF world
  <1> QED  BY <1>1, <1>3, <1>6, <1>7, <1>14, <1>15, <1>16 DEF Calm, Phase, HandlesLead

\* An answer changes nothing the phases speak of.
LEMMA CalmResponse ==
    ASSUME Known, Known', Calm, Response PROVE Calm'
  <1> DEFINE t == Head(tasks)
  <1>1. Present /\ Single /\ HandlesLead /\ Current
    BY DEF Calm
  <1>2. /\ status = "running" /\ tasks # <<>> /\ t.type = "Response" /\ Requeue(<<>>)
        /\ UNCHANGED <<world, inbox, status, vfs, units, diagnostics, client>>
    BY DEF Response, RunsTask
  <1>3. Answers(tasks) /\ (Stable \/ Loading) /\ tasks \in Seq(TaskData)
    BY <1>2, PhaseAtHead DEF Known, Typed
  <1>4. /\ VfsTexts' = VfsTexts /\ Single' /\ (Shapes => Shapes')
        /\ \A u \in Uris : disk'[u] # Missing /\ (vfs[u] # NoFile => vfs'[u] # NoFile)
    BY <1>1, <1>2, TaskKeepsTexts
  <1>5. UNCHANGED <<ctx, cache, files, workspace>>
    BY <1>2 DEF units
  <1>6. Present'
    BY <1>1, <1>4, <1>5, PresentStays
  <1>7. /\ ToSet(tasks) = {t} \cup ToSet(Tail(tasks))
        /\ ToSet(<<>>) = {} /\ <<>> \in Seq(TaskData)
    BY <1>2, <1>3, MembersFacts
  <1>8. Answers(Tail(tasks)) /\ Answers(<<>>)
    BY <1>3, <1>7 DEF Answers
  <1>9. Answers(tasks') /\ ToSet(Tail(tasks)) \subseteq ToSet(tasks') /\ tasks' \in Seq(TaskData)
    BY <1>2, <1>3, <1>7, <1>8, Requeued DEF Known, Typed
  <1>10. Queue'
    BY <1>9 DEF Queue, Reloads
  <1>11. Current'
    BY <1>1, <1>2, <1>5, <1>9, HeadAnswers, CurrentStays DEF world
  <1>12. (Stable \/ Loading)'
    <2>1. CASE Stable
      BY <1>4, <1>5, <2>1, UnitsStay DEF Stable
    <2>2. CASE Loading
      <3>1. PICK s \in ToSet(tasks) : s.type = "Analysis"
        BY <2>2 DEF Loading
      <3>2. s \in ToSet(tasks')
        BY <1>2, <1>7, <1>9, <3>1
      <3> QED  BY <1>4, <1>5, <1>9, <2>2, <3>1, <3>2, UnitsStay DEF Loading, Reloads
    <2> QED  BY <1>3, <2>1, <2>2
  <1> QED  BY <1>1, <1>2, <1>4, <1>6, <1>10, <1>11, <1>12 DEF Calm, Phase, HandlesLead

\* The analysis makes the index of the files that the units have.
LEMMA AnalyseIndexes ==
    ASSUME Known, Present, Analyse
    PROVE  Indexed' /\ UNCHANGED <<ctx, cache>>
  <1>1. /\ UNCHANGED <<ctx, cache>>
        /\ files' = [u \in Uris |-> {h \in FilesOf(cache) : ctx.store[h].uri = u}]
    BY DEF Analyse, CachedFiles, FilesOf
  <1>2. \A u \in Uris : files'[u] = {h \in FilesOf(cache) : UriOf(h) = u}
    BY <1>1 DEF UriOf
  <1>3. \A r \in DOMAIN cache : cache[r] \subseteq FilesOf(cache)
    BY DEF FilesOf
  <1>4. \A r \in DOMAIN cache : \A u \in Uris : HasFile(r, u) <=> files'[u] \cap cache[r] # {}
    BY <1>2, <1>3 DEF HasFile
  <1>5. /\ cache' = cache /\ FilesOf(cache') = FilesOf(cache)
        /\ \A r, u : HasFile(r, u)' <=> HasFile(r, u)
    BY <1>1 DEF FilesOf, HasFile, UriOf
  <1> QED  BY <1>1, <1>2, <1>4, <1>5 DEF Indexed

\* The analysis makes the index lead to the units there are: Stable.
LEMMA CalmAnalysis ==
    ASSUME Known, Known', Calm, Analysis PROVE Calm'
  <1> DEFINE t == Head(tasks)
  <1>1. Present /\ Single /\ HandlesLead /\ Current
    BY DEF Calm
  <1>2. CachedFiles \subseteq Live(ctx)
    BY <1>1, PresentFacts DEF Present
  <1>3. /\ status = "running" /\ tasks # <<>> /\ t.type = "Analysis"
        /\ Analyse /\ Requeue(<<>>)
        /\ UNCHANGED <<world, inbox, status, vfs, workspace, ctx, cache>>
    BY <1>2 DEF Analysis, Analyse, RunsTask
  <1>4. Answers(tasks) /\ (Stable \/ Loading) /\ tasks \in Seq(TaskData)
    BY <1>3, PhaseAtHead DEF Known, Typed
  <1>5. /\ VfsTexts' = VfsTexts /\ Single' /\ (Shapes => Shapes')
        /\ \A u \in Uris : disk'[u] # Missing /\ (vfs[u] # NoFile => vfs'[u] # NoFile)
    BY <1>1, <1>3, TaskKeepsTexts
  <1>6. Present'
    BY <1>1, <1>3, <1>5, PresentStays
  <1>7. /\ ToSet(tasks) = {t} \cup ToSet(Tail(tasks))
        /\ ToSet(<<>>) = {} /\ <<>> \in Seq(TaskData)
    BY <1>3, <1>4, MembersFacts
  <1>8. Answers(Tail(tasks)) /\ Answers(<<>>)
    BY <1>4, <1>7 DEF Answers
  <1>9. Answers(tasks') /\ tasks' \in Seq(TaskData)
    BY <1>3, <1>4, <1>7, <1>8, Requeued DEF Known, Typed
  <1>10. Queue'
    BY <1>9 DEF Queue, Reloads
  <1>11. Current'
    BY <1>1, <1>3, <1>9, HeadAnswers, CurrentStays DEF world
  <1>12. Stable'
    <2>1. Indexed'
      BY <1>1, <1>3, AnalyseIndexes
    <2>2. AllFit'
      BY <1>3, <1>4, <1>5, UnitsStay DEF Stable, Loading
    <2> QED  BY <1>4, <1>5, <2>1, <2>2 DEF Stable, Loading
  <1> QED  BY <1>1, <1>3, <1>5, <1>6, <1>10, <1>11, <1>12 DEF Calm, Phase, HandlesLead

\* So does the debounced one, which ends the reprocessing after an edit.
LEMMA CalmTimer ==
    ASSUME Known, Known', Calm, AnalysisTimer PROVE Calm'
  <1>1. Present /\ Single /\ HandlesLead /\ Current
    BY DEF Calm
  <1>2. CachedFiles \subseteq Live(ctx)
    BY <1>1, PresentFacts DEF Present
  <1>3. /\ status = "running" /\ tasks = <<>> /\ dirty
        /\ Analyse /\ UNCHANGED tasks
        /\ UNCHANGED <<world, inbox, status, vfs, workspace, ctx, cache>>
    BY <1>2 DEF AnalysisTimer, Analyse
  <1>4. ToSet(tasks) = {}
    BY <1>3, MembersFacts, EmptySeq
  <1>5. Shapes /\ AllFit
    <2>1. Phase
      BY <1>3 DEF Calm
    <2>2. ~Loading
      BY <1>4 DEF Loading
    <2>3. ~Reloading /\ \A u \in Uris : ~Edited(u) /\ ~Updating(u)
      BY <1>3 DEF Reloading, Edited, Updating
    <2>4. Stable \/ Rebuilding
      BY <2>1, <2>2, <2>3 DEF Phase
    <2>5. Rebuilding => Shapes /\ AllFit
      BY <1>4 DEF Rebuilding, AllFit
    <2> QED  BY <2>4, <2>5 DEF Stable
  <1>6. /\ VfsTexts' = VfsTexts /\ Single' /\ Shapes'
        /\ \A u \in Uris : disk'[u] # Missing /\ (vfs[u] # NoFile => vfs'[u] # NoFile)
    BY <1>1, <1>3, <1>5, TaskKeepsTexts
  <1>7. Present'
    BY <1>1, <1>3, <1>6, PresentStays
  <1>8. Queue'
    BY <1>3, <1>4 DEF Queue, Reloads, Answers
  <1>9. Current'
    BY <1>1, <1>3, CurrentStays DEF world
  <1>10. Stable'
    <2>1. Indexed'
      BY <1>1, <1>3, AnalyseIndexes
    <2>2. AllFit'
      BY <1>3, <1>5, <1>6, UnitsStay
    <2> QED  BY <1>6, <2>1, <2>2 DEF Stable
  <1> QED  BY <1>1, <1>3, <1>6, <1>7, <1>8, <1>9, <1>10 DEF Calm, Phase, HandlesLead

\* The index leads to the root of every unit of a document.
LEMMA IndexFindsRoots ==
    ASSUME Known, Present, Indexed, NEW u \in Uris
    PROVE  /\ files[u] \subseteq Live(ctx)
           /\ RootsAbove(u) \subseteq DOMAIN cache /\ IsFiniteSet(RootsAbove(u))
           /\ \A r \in DOMAIN cache : HasFile(r, u) => r \in RootsAbove(u)
           /\ \A h \in files[u] : parent_file(ctx, h) \in DOMAIN cache
  <1>1. files[u] \subseteq Live(ctx)
    BY DEF Indexed, Present
  <1>2. RootsAbove(u) \subseteq DOMAIN cache /\ IsFiniteSet(RootsAbove(u))
    BY <1>1, RootsAboveFacts DEF Known
  <1>3. ASSUME NEW r \in DOMAIN cache, HasFile(r, u) PROVE r \in RootsAbove(u)
    <2>1. PICK h \in cache[r] : h \in files[u]
      BY <1>3 DEF Indexed
    <2>2. UnitsOf(ctx, cache) /\ Live(ctx) = FilesOf(cache)
      BY PresentFacts DEF Present
    <2>3. parent_file(ctx, h) = r
      BY <2>1, <2>2, ParentFileFacts
    <2> QED  BY <2>1, <2>3 DEF RootsAbove
  <1> QED  BY <1>1, <1>2, <1>3 DEF RootsAbove

\* Update finds the units of the edited document and queues them: Rebuilding.
LEMMA CalmUpdate ==
    ASSUME Known, Known', Calm, Update PROVE Calm'
  <1> DEFINE t == Head(tasks)
             u == t.arg
  <1>1. Present /\ Single /\ HandlesLead /\ Current
    BY DEF Calm
  <1>2. status = "running" /\ tasks # <<>> /\ t.type = "Update" /\ tasks \in Seq(TaskData)
    BY DEF Update, RunsTask, Known, Typed
  <1>3. Tail(tasks) = <<>> /\ t.reply = NoReply /\ u \in Uris /\ (Stable \/ Updating(u))
    BY <1>2, PhaseAtHead
  <1>4. Indexed /\ Shapes
    BY <1>3 DEF Stable, Updating
  <1>5. files[u] \subseteq Live(ctx)
    BY <1>1, <1>3, <1>4, IndexFindsRoots
  <1>6. /\ UNCHANGED <<world, inbox, status, incoming, vfs, units, diagnostics, client>>
        /\ \/ workspace = "locs" /\ Requeue(<<Task("ReloadWorkspace", 0)>>)
           \/ \E order \in SetToSeqs(RootsAbove(u)) :
                 Requeue([i \in 1..Len(order) |-> Task("Reprocess", order[i])])
    BY <1>5 DEF Update, RootsAbove
  <1> HIDE DEF u
  <1>7. UNCHANGED <<ctx, cache, files, workspace>>
    BY <1>6 DEF units
  <1>8. /\ VfsTexts' = VfsTexts /\ Single' /\ Shapes' /\ (Quiet => Quiet')
        /\ \A v \in Uris : disk'[v] # Missing /\ (vfs[v] # NoFile => vfs'[v] # NoFile)
    BY <1>1, <1>4, <1>6, TaskKeepsTexts
  <1>9. Present'
    BY <1>1, <1>7, <1>8, PresentStays
  <1>10. Stable => Stable'
    BY <1>7, <1>8, UnitsStay DEF Stable
  <1>11. CASE workspace = "locs" /\ Requeue(<<Task("ReloadWorkspace", 0)>>)
    <2>1. tasks' = <<Task("ReloadWorkspace", 0)>>
      BY <1>2, <1>3, <1>11, QueuedTypes, Requeued
    <2>2. tasks' # <<>> /\ Tail(tasks') = <<>> /\ Head(tasks').type = "ReloadWorkspace"
      BY <2>1 DEF Task
    <2>3. Queue'
      BY <2>2 DEF Queue, Reloads
    <2>4. Current'
      BY <2>2 DEF Current, WillHear
    <2>5. Updating(u) => config # "none"
      <3>1. ToSet(<<>>) = {}
        BY MembersFacts, EmptySeq
      <3>2. Updating(u) => ~WillHear
        BY <1>2, <3>1 DEF Updating, Quiet, WillHear
      <3> QED  BY <1>1, <1>11, <3>2 DEF Current
    <2>6. Updating(u) => Reloading'
      BY <1>6, <1>8, <2>1, <2>5 DEF Updating, Reloading, world
    <2> QED  BY <1>1, <1>3, <1>6, <1>8, <1>9, <1>10, <2>3, <2>4, <2>6 DEF Calm, Phase, HandlesLead
  <1>12. ASSUME NEW order \in SetToSeqs(RootsAbove(u)),
                Requeue([i \in 1..Len(order) |-> Task("Reprocess", order[i])])
         PROVE  Calm'
    <2> DEFINE more == [i \in 1..Len(order) |-> Task("Reprocess", order[i])]
    <2>1. /\ RootsAbove(u) \subseteq DOMAIN cache /\ IsFiniteSet(RootsAbove(u))
          /\ \A r \in DOMAIN cache : HasFile(r, u) => r \in RootsAbove(u)
      BY <1>1, <1>3, <1>4, IndexFindsRoots
    <2>2. /\ order \in Seq(RootsAbove(u)) /\ ToSet(order) = RootsAbove(u)
          /\ \A x \in RootsAbove(u) : \E i \in 1..Len(order) : order[i] = x
          /\ \A i, j \in 1..Len(order) : order[i] = order[j] => i = j
      BY <2>1, OrderFacts
    <2>3. DOMAIN cache \subseteq Nat
      BY DEF Known, Units
    <2>4. Len(order) \in Nat /\ \A i \in 1..Len(order) : order[i] \in RootsAbove(u)
      BY <2>2
    <2>5. /\ more \in Seq(TaskData) /\ Len(more) = Len(order)
          /\ \A i \in 1..Len(order) : more[i] = Task("Reprocess", order[i])
      <3>1. \A i \in 1..Len(order) : Task("Reprocess", order[i]) \in TaskData
        BY <2>1, <2>3, <2>4 DEF Task, TaskData, NoReply
      <3> QED  BY <2>4, <3>1
    <2>6. Requeue(more)
      BY <1>12
    <2> HIDE DEF more
    <2>7. tasks' = more
      BY <1>2, <1>3, <2>5, <2>6, Requeued
    <2>8. ToSet(tasks') = {Task("Reprocess", order[i]) : i \in 1..Len(order)}
      BY <2>5, <2>7, MembersFacts
    <2>0. \A x : LET s == Task("Reprocess", x)
                IN  s.type = "Reprocess" /\ s.arg = x /\ s.reply = NoReply
      BY DEF Task
    <2>9. Reprocesses(tasks)'
      <3>1. \A s \in ToSet(tasks') :
               s.type = "Reprocess" /\ s.arg \in DOMAIN cache /\ s.reply = NoReply
        BY <2>0, <2>1, <2>4, <2>8
      <3>2. \A i \in 1..Len(order) : tasks'[i].arg = order[i]
        BY <2>0, <2>5, <2>7
      <3>3. \A i, j \in 1..Len(tasks') : tasks'[i].arg = tasks'[j].arg => i = j
        BY <2>2, <2>5, <2>7, <3>2
      <3> QED  BY <1>7, <3>1, <3>3 DEF Reprocesses
    <2>10. Queue'
      BY <2>9 DEF Queue
    <2>11. tasks' # <<>> => Head(tasks').type = "Reprocess"
      <3>1. tasks' # <<>> => Head(tasks') \in ToSet(tasks')
        BY <2>5, <2>7, MembersFacts
      <3> QED  BY <2>0, <2>8, <3>1
    <2>12. Current'
      BY <1>1, <1>2, <1>6, <1>7, <2>11, CurrentStays DEF world
    <2>13. Updating(u) => Rebuilding' \/ Stable'
      <3> SUFFICES ASSUME Updating(u) PROVE Rebuilding' \/ Stable'
        OBVIOUS
      <3>1. \A r \in RootsAbove(u) : \E s \in ToSet(tasks') : s.arg = r
        BY <2>0, <2>2, <2>8
      <3>2. \A r \in DOMAIN cache' : (\E s \in ToSet(tasks') : s.arg = r) \/ Fit(r)'
        BY <1>7, <1>8, <2>1, <3>1, UnitsStay DEF Updating
      <3>3. CASE tasks' = <<>>
        <4>1. ToSet(tasks') = {}
          BY <3>3, MembersFacts, EmptySeq
        <4>2. AllFit'
          BY <3>2, <4>1 DEF AllFit
        <4>3. Indexed'
          BY <1>4, <1>7, <1>8, UnitsStay
        <4> QED  BY <1>8, <4>2, <4>3 DEF Stable
      <3>4. CASE tasks' # <<>>
        BY <1>8, <2>9, <3>2, <3>4 DEF Rebuilding, Updating
      <3> QED  BY <3>3, <3>4
    <2> QED  BY <1>1, <1>3, <1>6, <1>8, <1>9, <1>10, <2>10, <2>12, <2>13 DEF Calm, Phase, HandlesLead
  <1> QED  BY <1>6, <1>11, <1>12

\* The rest of the reprocessing queue, when its head is done.
LEMMA ReprocessesTail ==
    ASSUME tasks \in Seq(TaskData), tasks # <<>>, Reprocesses(tasks)
    PROVE  /\ Head(tasks).arg \in DOMAIN cache /\ Head(tasks).reply = NoReply
           /\ ToSet(tasks) = {Head(tasks)} \cup ToSet(Tail(tasks))
           /\ \A s \in ToSet(Tail(tasks)) :
                 /\ s.type = "Reprocess" /\ s.arg \in DOMAIN cache \ {Head(tasks).arg}
                 /\ s.reply = NoReply
           /\ \A i, j \in 1..Len(Tail(tasks)) :
                 Tail(tasks)[i].arg = Tail(tasks)[j].arg => i = j
  <1>1. ToSet(tasks) = {Head(tasks)} \cup ToSet(Tail(tasks)) /\ Tail(tasks) \in Seq(TaskData)
    BY MembersFacts
  <1>2. /\ Head(tasks) = tasks[1] /\ Len(tasks) \in Nat \ {0}
        /\ Len(Tail(tasks)) = Len(tasks) - 1
        /\ \A i \in 1..Len(tasks) - 1 : Tail(tasks)[i] = tasks[i + 1]
    BY HeadTailProperties, EmptySeq, LenProperties
  <1>3. \A l \in Nat \ {0} : /\ 1 \in 1..l
                             /\ \A i \in 1..l - 1 : i + 1 \in 1..l /\ i + 1 # 1
                             /\ \A i, j \in 1..l - 1 : i + 1 = j + 1 => i = j
    OBVIOUS
  <1>4. \A i, j \in 1..Len(tasks) : tasks[i].arg = tasks[j].arg => i = j
    BY DEF Reprocesses
  <1>5. ASSUME NEW s \in ToSet(Tail(tasks)) PROVE s.arg # Head(tasks).arg
    <2>1. ToSet(Tail(tasks)) = {Tail(tasks)[i] : i \in 1..Len(Tail(tasks))}
      BY <1>1, MembersFacts
    <2>2. PICK i \in 1..Len(tasks) - 1 : s = tasks[i + 1]
      BY <1>2, <2>1
    <2> QED  BY <1>2, <1>3, <1>4, <2>2
  <1>6. ASSUME NEW i \in 1..Len(tasks) - 1, NEW j \in 1..Len(tasks) - 1,
               Tail(tasks)[i].arg = Tail(tasks)[j].arg
        PROVE  i = j
    <2>1. tasks[i + 1].arg = tasks[j + 1].arg
      BY <1>2, <1>6
    <2>2. i + 1 \in 1..Len(tasks) /\ j + 1 \in 1..Len(tasks)
      BY <1>2, <1>3
    <2>3. i + 1 = j + 1
      BY <1>4, <2>1, <2>2
    <2> QED  BY <1>2, <1>3, <2>3
  <1>7. \A s \in ToSet(tasks) : s.type = "Reprocess" /\ s.arg \in DOMAIN cache /\ s.reply = NoReply
    BY DEF Reprocesses
  <1> QED  BY <1>1, <1>2, <1>5, <1>6, <1>7

\* A unit is built again from its root; the others keep their files.
LEMMA CalmReprocess ==
    ASSUME Known, Known', Calm, Reprocess PROVE Calm'
  <1> DEFINE t == Head(tasks)
             h == t.arg
             F == IncludeForest({UriOf(h)}, VfsTexts)
  <1>1. Present /\ Single /\ HandlesLead /\ Current
    BY DEF Calm
  <1>2. status = "running" /\ tasks # <<>> /\ t.type = "Reprocess" /\ tasks \in Seq(TaskData)
    BY DEF Reprocess, RunsTask, Known, Typed
  <1>3. Reprocesses(tasks) /\ (Stable \/ Rebuilding)
    BY <1>2, PhaseAtHead
  <1>4. /\ h \in DOMAIN cache /\ t.reply = NoReply
        /\ ToSet(tasks) = {t} \cup ToSet(Tail(tasks))
        /\ \A s \in ToSet(Tail(tasks)) :
              s.type = "Reprocess" /\ s.arg \in DOMAIN cache \ {h} /\ s.reply = NoReply
        /\ \A i, j \in 1..Len(Tail(tasks)) : Tail(tasks)[i].arg = Tail(tasks)[j].arg => i = j
    BY <1>2, <1>3, ReprocessesTail
  <1>5. /\ UnitsOf(ctx, cache) /\ MapOf(ctx, FileData) /\ Separate(ctx)
        /\ disk \in Disk /\ vfs \in [Uris -> Entry]
        /\ Live(ctx) = FilesOf(cache)
        /\ \A x \in Live(ctx) : UriOf(x) \in Uris
    BY <1>1, PresentFacts DEF Present
  <1>6. \A q \in DOMAIN cache : q \in cache[q] /\ cache[q] \subseteq Live(ctx)
    BY <1>5 DEF UnitsOf, FilesOf
  <1>7. /\ ReprocessUnit(h) /\ Requeue(<<>>)
        /\ UNCHANGED <<world, inbox, status, incoming, workspace, files, client>>
    BY <1>4, <1>6 DEF Reprocess
  <1>8. Readable(vfs, disk, ctx.store[h].uri)
    BY <1>1, <1>4, <1>5, <1>6 DEF Present, Readable, UriOf
  <1>9. /\ (Live(ctx) = FilesOf(cache))'
        /\ \E r \in DOMAIN cache' :
              /\ DOMAIN cache' = (DOMAIN cache \ {h}) \cup {r}
              /\ r \notin DOMAIN cache \ {h}
              /\ ctx'.store[r].uri = ctx.store[h].uri
              /\ UnitOf(ctx', r, cache'[r], IncludeForest({ctx.store[h].uri}, VfsTexts))
              /\ \E S : /\ vfs' = ReadAll(vfs, disk, S)
                        /\ \A x \in cache'[r] : ctx'.store[x].uri \in S
              /\ Cardinality(IncludeForest({ctx.store[h].uri}, VfsTexts))
                    = Cardinality(cache[h])
                 => cache'[r] = cache[h]
        /\ \A q \in DOMAIN cache \ {h} :
              /\ cache'[q] = cache[q]
              /\ \A x \in cache[q] : x \in Live(ctx') /\ ctx'.store[x] = ctx.store[x]
    BY <1>4, <1>5, <1>7, <1>8, ReprocessBuilds
  <1> HIDE DEF h
  <1>10. PICK r, S :
            /\ r \in DOMAIN cache'
            /\ DOMAIN cache' = (DOMAIN cache \ {h}) \cup {r}
            /\ r \notin DOMAIN cache \ {h}
            /\ UriOf(r)' = UriOf(h)
            /\ UnitOf(ctx', r, cache'[r], F)
            /\ vfs' = ReadAll(vfs, disk, S)
            /\ \A x \in cache'[r] : UriOf(x)' \in S
            /\ Cardinality(F) = Cardinality(cache[h]) => cache'[r] = cache[h]
    BY <1>9 DEF UriOf
  <1>11. /\ VfsTexts' = VfsTexts /\ Single' /\ (Shapes => Shapes') /\ (Quiet => Quiet')
         /\ \A u \in Uris : /\ Shape(u)' = Shape(u) /\ disk'[u] # Missing
                            /\ vfs[u] # NoFile => vfs'[u] # NoFile
    BY <1>1, <1>7, <1>10, TaskKeepsTexts
  <1>12. F \in SUBSET Paths
    BY ForestFacts
  <1> HIDE DEF F
  <1>13. {UriOf(x)' : x \in cache'[r]} = {Last(p) : p \in F} /\ \A x \in cache'[r] : UriOf(x)' \in Uris
    <2>1. UnitOf(ctx', r, cache'[r], F)
      BY <1>10
    <2>2. /\ {ctx'.store[x].uri : x \in cache'[r]} = {Last(p) : p \in F}
          /\ \A x \in cache'[r] : ctx'.store[x].uri \in Uris
      <3> HIDE <1>10
      <3> QED  BY <1>12, <2>1, UnitFacts, Zenon
    <2> QED  BY <2>2 DEF UriOf
  <1>14. FilesOf(cache') = cache'[r] \cup UNION {cache[q] : q \in DOMAIN cache \ {h}}
    BY <1>9, <1>10 DEF FilesOf
  <1>15. \A q \in DOMAIN cache \ {h} : \A x \in cache[q] : UriOf(x)' = UriOf(x)
    BY <1>9 DEF UriOf
  <1>16. Present'
    <2>1. ASSUME NEW x \in cache'[r] PROVE vfs'[UriOf(x)'] # NoFile
      <3>1. UriOf(x)' \in S /\ UriOf(x)' \in Uris
        BY <1>10, <1>13
      <3>2. \A u \in Uris : u \in S => vfs'[u] # NoFile
        BY <1>1, <1>5, <1>10, ReadingFacts DEF Present
      <3> QED  BY <3>1, <3>2
    <2>2. ASSUME NEW q \in DOMAIN cache \ {h}, NEW x \in cache[q]
          PROVE  vfs'[UriOf(x)'] # NoFile
      <3>1. x \in FilesOf(cache) /\ UriOf(x) \in Uris /\ UriOf(x)' = UriOf(x)
        BY <1>5, <1>6, <1>15
      <3>2. vfs[UriOf(x)] # NoFile
        BY <1>1, <3>1 DEF Present
      <3> QED  BY <1>11, <3>1, <3>2
    <2> QED  BY <1>9, <1>11, <1>14, <2>1, <2>2 DEF Present
  <1>17. tasks' = Tail(tasks)
    BY <1>2, <1>4, <1>7, QueuedTypes, Requeued
  <1>18. Reprocesses(tasks)'
    BY <1>4, <1>10, <1>17 DEF Reprocesses
  <1>19. Current'
    <2>1. tasks' # <<>> => Head(tasks') \in ToSet(tasks')
      BY MembersFacts DEF Known, Typed
    <2>2. tasks' # <<>> => Head(tasks').type = "Reprocess"
      BY <1>4, <1>17, <2>1
    <2> QED  BY <1>1, <1>2, <1>7, <2>2, CurrentStays DEF world
  <1>20. Fit(r)'
    BY <1>10, <1>11 DEF Fit, F
  <1>21. ASSUME NEW q \in DOMAIN cache \ {h}, Fit(q) PROVE Fit(q)'
    <2>1. disk' \in Disk /\ vfs' \in [Uris -> Entry]
      BY DEF Known, IInv, DocTypes
    <2>2. \A x \in cache[q] : /\ x \in Live(ctx') /\ ctx'.store[x] = ctx.store[x]
                              /\ Shape(UriOf(x))' = Shape(UriOf(x))
      <3> SUFFICES ASSUME NEW x \in cache[q] PROVE Shape(UriOf(x))' = Shape(UriOf(x))
        BY <1>9
      <3>1. UriOf(x) \in Uris /\ UriOf(x)' = UriOf(x)
        BY <1>5, <1>6, <1>15
      <3>2. VfsTexts' = VfsTexts
        BY <1>11
      <3> QED  BY <3>1, <3>2 DEF Shape
    <2>3. cache'[q] = cache[q]
      BY <1>9
    <2> QED  BY <1>1, <1>11, <1>21, <2>1, <2>2, <2>3, StillFits
  <1>22. CASE Stable
    <2>1. AllFit'
      BY <1>10, <1>20, <1>21, <1>22 DEF Stable, AllFit
    <2>2. cache'[r] = cache[h] /\ {UriOf(x) : x \in cache[h]} = {Last(p) : p \in F}
      <3>1. UnitOf(ctx, h, cache[h], F)
        BY <1>4, <1>22 DEF Stable, AllFit, Fit, F, h
      <3>2. /\ Cardinality(cache[h]) = Cardinality(F)
            /\ {ctx.store[x].uri : x \in cache[h]} = {Last(p) : p \in F}
        BY <1>12, <3>1, UnitFacts
      <3> QED  BY <1>10, <3>2 DEF UriOf
    <2>3. FilesOf(cache') = FilesOf(cache)
      BY <1>4, <1>14, <2>2 DEF FilesOf, h
    <2>4. ASSUME NEW u \in Uris PROVE HasFile(r, u)' <=> HasFile(h, u)
      <3>1. HasFile(r, u)' <=> u \in {UriOf(x)' : x \in cache'[r]}
        BY DEF HasFile
      <3>2. HasFile(h, u) <=> u \in {UriOf(x) : x \in cache[h]}
        BY DEF HasFile
      <3> QED  BY <1>13, <2>2, <3>1, <3>2
    <2>5. ASSUME NEW q \in DOMAIN cache \ {h}, NEW u \in Uris
          PROVE  HasFile(q, u)' <=> HasFile(q, u)
      BY <1>9, <1>15 DEF HasFile
    <2>6. Indexed'
      <3>1. h \in DOMAIN cache /\ files' = files
        BY <1>4, <1>7 DEF h
      <3>2. \A u \in Uris : HasFile(r, u)' <=> files'[u] \cap cache'[r] # {}
        BY <1>22, <2>2, <2>4, <3>1 DEF Stable, Indexed
      <3>3. \A q \in DOMAIN cache \ {h} : \A u \in Uris :
               HasFile(q, u)' <=> files'[u] \cap cache'[q] # {}
        BY <1>9, <1>22, <2>5, <3>1 DEF Stable, Indexed
      <3>4. \A u \in Uris : files'[u] \subseteq FilesOf(cache')
        BY <1>22, <2>3, <3>1 DEF Stable, Indexed
      <3> QED  BY <1>10, <3>2, <3>3, <3>4 DEF Indexed
    <2>7. Stable'
      BY <1>11, <1>22, <2>1, <2>6 DEF Stable
    <2> QED  BY <1>1, <1>7, <1>11, <1>16, <1>18, <1>19, <2>7 DEF Calm, Phase, HandlesLead, Queue
  <1>23. CASE Rebuilding
    <2>1. dirty' = TRUE
      BY <1>7, <1>8 DEF ReprocessUnit
    <2>2. ASSUME NEW q \in DOMAIN cache'
          PROVE  (\E s \in ToSet(tasks') : s.arg = q) \/ Fit(q)'
      <3>1. CASE q = r
        BY <1>20, <3>1
      <3>2. CASE q # r
        <4>1. q \in DOMAIN cache \ {h}
          BY <1>10, <3>2
        <4>2. CASE Fit(q)
          BY <1>21, <4>1, <4>2
        <4>3. ASSUME NEW s \in ToSet(tasks), s.arg = q
              PROVE  \E z \in ToSet(tasks') : z.arg = q
          BY <1>4, <1>17, <4>1, <4>3 DEF h
        <4> QED  BY <1>23, <4>1, <4>2, <4>3 DEF Rebuilding
      <3> QED  BY <3>1, <3>2
    <2>3. Rebuilding'
      BY <1>11, <1>18, <1>23, <2>1, <2>2 DEF Rebuilding
    <2> QED  BY <1>1, <1>7, <1>11, <1>16, <1>18, <1>19, <2>3 DEF Calm, Phase, HandlesLead, Queue
  <1> QED  BY <1>3, <1>22, <1>23

\* The index leads where it led while units and index are left alone.
LEMMA IndexStays ==
    ASSUME UNCHANGED <<ctx, cache, files>>
    PROVE  /\ Indexed' <=> Indexed
           /\ \A r, u : HasFile(r, u)' <=> HasFile(r, u)
           /\ \A h : UriOf(h)' = UriOf(h)
  BY DEF Indexed, HasFile, UriOf, FilesOf

\* What remains of the messages when the first one has been taken.
LEMMA MessagesLeft ==
    ASSUME Known, inbox # <<>>, inbox' = Tail(inbox)
    PROVE  /\ Head(inbox) \in Message /\ inbox' \in Seq(Message)
           /\ ToSet(inbox') \subseteq ToSet(inbox)
           /\ \A x \in ToSet(inbox) : x = Head(inbox) \/ x \in ToSet(inbox')
           /\ Single => Single'
  <1>1. /\ Head(inbox) \in Message /\ inbox' \in Seq(Message)
        /\ ToSet(inbox) = {Head(inbox)} \cup ToSet(inbox')
    BY MembersFacts DEF Known, Typed
  <1> QED  BY <1>1 DEF Single

\* When a message is taken the state is stable, or it is the message about the
\* document whose includes were edited.
LEMMA PhaseOfMessage ==
    ASSUME Known, Calm, status = "running", tasks = <<>>, inbox # <<>>
    PROVE  \/ Stable
           \/ \E u \in Uris :
                 /\ Edited(u) /\ Tail(inbox) = <<>> /\ unseen = {} /\ pausing
                 /\ \/ /\ Tells(Head(inbox), u)
                       /\ IF Head(inbox).type = "close" THEN docs[u] = Missing
                          ELSE docs[u] = Head(inbox).text /\ docs[u] # Missing
                       /\ Head(inbox).type = "open" \/ HoldsDocument(vfs, u)
                    \/ /\ Head(inbox) = [type |-> "watched", uris |-> <<u>>]
                       /\ docs[u] = Missing /\ ~HoldsDocument(vfs, u)
  <1>1. Phase
    BY DEF Calm
  <1>2. ~Loading
    <2>1. ToSet(tasks) = {}
      BY MembersFacts, EmptySeq
    <2> QED  BY <2>1 DEF Loading
  <1>3. ~Rebuilding /\ ~Reloading /\ \A u \in Uris : ~Updating(u)
    BY DEF Rebuilding, Reloading, Updating, Quiet
  <1>4. ASSUME NEW x, inbox = <<x>> PROVE Head(inbox) = x /\ Tail(inbox) = <<>>
    BY <1>4
  <1>5. ASSUME NEW u \in Uris, Edited(u), ~Stable
        PROVE  /\ Edited(u) /\ Tail(inbox) = <<>> /\ unseen = {} /\ pausing
               /\ \/ /\ Tells(Head(inbox), u)
                     /\ IF Head(inbox).type = "close" THEN docs[u] = Missing
                        ELSE docs[u] = Head(inbox).text /\ docs[u] # Missing
                     /\ Head(inbox).type = "open" \/ HoldsDocument(vfs, u)
                  \/ /\ Head(inbox) = [type |-> "watched", uris |-> <<u>>]
                     /\ docs[u] = Missing /\ ~HoldsDocument(vfs, u)
    <2>1. OnItsWay(u) /\ pausing
      BY <1>5 DEF Edited
    <2>2. CASE \E m \in ToSet(inbox) :
             /\ unseen = {} /\ inbox = <<m>> /\ Tells(m, u)
             /\ IF m.type = "close" THEN docs[u] = Missing
                                    ELSE docs[u] = m.text /\ docs[u] # Missing
             /\ m.type = "open" \/ HoldsDocument(vfs, u)
      BY <1>4, <1>5, <2>1, <2>2
    <2>3. CASE /\ docs[u] = Missing /\ ~HoldsDocument(vfs, u) /\ unseen = {}
               /\ inbox = <<[type |-> "watched", uris |-> <<u>>]>>
      BY <1>4, <1>5, <2>1, <2>3
    <2> QED  BY <2>1, <2>2, <2>3 DEF OnItsWay
  <1> QED  BY <1>1, <1>2, <1>3, <1>5 DEF Phase

\* The handlers that leave the texts alone.
LEMMA MessageGone ==
    ASSUME Known, Known', Calm, inbox # <<>>, inbox' = Tail(inbox),
           UNCHANGED <<world, vfs, units>>
    PROVE  /\ Present' /\ Single' /\ (Stable => Stable')
           /\ workspace = config => workspace' = config'
           /\ (/\ workspace # config
               /\ Head(inbox) # [type |-> "watched", uris |-> <<ConfigUri>>]
               /\ tasks = <<>>) => WillHear'
  <1>1. Present /\ Single /\ Current
    BY DEF Calm
  <1>2. /\ UNCHANGED <<disk, config, docs, unseen, pausing>>
        /\ UNCHANGED <<workspace, ctx, cache, files, dirty>>
    BY DEF world, units
  <1>3. VfsTexts' = VfsTexts
    BY <1>2 DEF VfsTexts
  <1>4. Present'
    BY <1>1, <1>2, PresentStays DEF Present
  <1>5. ASSUME Stable PROVE Stable'
    <2>1. ASSUME NEW u \in Uris PROVE ShapeKept(u)'
      <3>1. ShapeKept(u) /\ Shape(u)' = Shape(u)
        BY <1>3, <1>5 DEF Stable, Shapes, Shape
      <3>2. ToSet(inbox') \subseteq ToSet(inbox)
        BY MessagesLeft
      <3> QED  BY <1>2, <3>1, <3>2 DEF ShapeKept, TrueText, Said, Tells
    <2>2. AllFit' /\ Indexed'
      BY <1>2, <1>3, <1>5, UnitsStay DEF Stable
    <2> QED  BY <2>1, <2>2 DEF Stable, Shapes
  <1>6. ASSUME workspace # config, tasks = <<>>,
               Head(inbox) # [type |-> "watched", uris |-> <<ConfigUri>>]
        PROVE  WillHear'
    <2>1. WillHear
      BY <1>1, <1>6 DEF Current
    <2> QED  BY <1>2, <1>6, <2>1, MessagesLeft DEF WillHear
  <1> QED  BY <1>1, <1>2, <1>4, <1>5, <1>6, MessagesLeft

\* A message is handled that may give the server another text of the document u.
Handled(m, u) ==
    \/ m.type \in {"change", "close"} /\ vfs' = vfs /\ ~HoldsDocument(vfs, u)
    \/ m.type \in {"open", "change"} /\ vfs' = [vfs EXCEPT ![u] = Lsp(m.text)] /\ m.text \in Text
    \/ /\ m.type \in {"close", "watched"} /\ vfs' = [vfs EXCEPT ![u] = Fs(disk[u])]
       /\ m.type = "watched" => ~HoldsDocument(vfs, u)

\* What the handlers of Handled leave of the texts and the documents.
LEMMA HandledFacts ==
    ASSUME Known, Present, disk' = disk, NEW m, NEW u \in Uris, Handled(m, u)
    PROVE  /\ \A v \in Uris \ {u} : /\ Shape(v)' = Shape(v)
                                    /\ HoldsDocument(vfs', v) <=> HoldsDocument(vfs, v)
           /\ \A v \in Uris : disk'[v] # Missing /\ (vfs[v] # NoFile => vfs'[v] # NoFile)
           /\ \/ /\ m.type \in {"change", "close"} /\ Shape(u)' = Shape(u)
                 /\ ~HoldsDocument(vfs, u) /\ ~HoldsDocument(vfs', u)
              \/ /\ m.type \in {"open", "change"} /\ HoldsDocument(vfs', u)
                 /\ Shape(u)' = m.text.inc
              \/ /\ m.type \in {"close", "watched"} /\ Shape(u)' = disk[u].inc
                 /\ ~HoldsDocument(vfs', u)
                 /\ m.type = "watched" => ~HoldsDocument(vfs, u)
  <1>1. /\ disk \in Disk /\ vfs \in [Uris -> Entry] /\ \A v \in Uris : disk[v] # Missing
        /\ disk[u] \in Text
    BY PresentFacts, ContentsFacts DEF Disk
  <1>2. \A v \in Uris : Shape(v) = Contents(vfs, disk, v).inc
                        /\ Shape(v)' = Contents(vfs', disk, v).inc
    BY TextsAre
  <1>3. \A t : /\ Fs(t) # NoFile /\ Fs(t).text = t /\ Fs(t).kind # "lsp"
               /\ Lsp(t) # NoFile /\ Lsp(t).text = t /\ Lsp(t).kind = "lsp"
    BY DEF Fs, Lsp, NoFile
  <1>4. CASE vfs' = vfs
    BY <1>1, <1>2, <1>3, <1>4 DEF Handled, HoldsDocument, Contents
  <1>5. ASSUME NEW t \in Text, NEW e, e = Fs(t) \/ e = Lsp(t), vfs' = [vfs EXCEPT ![u] = e]
        PROVE  /\ \A v \in Uris \ {u} : /\ Shape(v)' = Shape(v)
                                        /\ HoldsDocument(vfs', v) <=> HoldsDocument(vfs, v)
               /\ \A v \in Uris : vfs[v] # NoFile => vfs'[v] # NoFile
               /\ Shape(u)' = t.inc /\ (HoldsDocument(vfs', u) <=> e = Lsp(t))
    <2>1. vfs'[u] = e /\ \A v \in Uris \ {u} : vfs'[v] = vfs[v]
      BY <1>1, <1>5
    <2>2. e # NoFile /\ e.text = t /\ (e.kind = "lsp" <=> e = Lsp(t))
      BY <1>3, <1>5
    <2> QED  BY <1>2, <2>1, <2>2 DEF HoldsDocument, Contents
  <1>6. CASE m.type \in {"open", "change"} /\ vfs' = [vfs EXCEPT ![u] = Lsp(m.text)] /\ m.text \in Text
    BY <1>1, <1>5, <1>6
  <1>7. CASE /\ m.type \in {"close", "watched"} /\ vfs' = [vfs EXCEPT ![u] = Fs(disk[u])]
             /\ m.type = "watched" => ~HoldsDocument(vfs, u)
    <2>1. Fs(disk[u]) # Lsp(disk[u])
      BY DEF Fs, Lsp
    <2> QED  BY <1>1, <1>5, <1>7, <2>1
  <1> QED  BY <1>4, <1>6, <1>7 DEF Handled

\* A text of the document u arrives: one that keeps the shape of u, or the one
\* that the editor waits for.
LEMMA TextArrives ==
    ASSUME Known, Known', Calm, status = "running", tasks = <<>>, inbox # <<>>,
           NEW m, m = Head(inbox), NEW u \in Uris,
           Tells(m, u) \/ m = [type |-> "watched", uris |-> <<u>>],
           Handled(m, u), inbox' = Tail(inbox), tasks' = <<Task("Update", u)>>,
           UNCHANGED <<world, status, units>>
    PROVE  Calm'
  <1>1. Present /\ Single /\ Current /\ HandlesLead
    BY DEF Calm
  <1>2. /\ UNCHANGED <<disk, config, docs, unseen, pausing>>
        /\ UNCHANGED <<workspace, ctx, cache, files, dirty>>
    BY DEF world, units
  <1>3. /\ \A v \in Uris \ {u} : /\ Shape(v)' = Shape(v)
                                 /\ HoldsDocument(vfs', v) <=> HoldsDocument(vfs, v)
        /\ \A v \in Uris : disk'[v] # Missing /\ (vfs[v] # NoFile => vfs'[v] # NoFile)
        /\ \/ /\ m.type \in {"change", "close"} /\ Shape(u)' = Shape(u)
              /\ ~HoldsDocument(vfs, u) /\ ~HoldsDocument(vfs', u)
           \/ /\ m.type \in {"open", "change"} /\ HoldsDocument(vfs', u)
              /\ Shape(u)' = m.text.inc
           \/ /\ m.type \in {"close", "watched"} /\ Shape(u)' = disk[u].inc
              /\ ~HoldsDocument(vfs', u)
              /\ m.type = "watched" => ~HoldsDocument(vfs, u)
    BY <1>1, <1>2, HandledFacts
  <1>4. Present'
    BY <1>1, <1>2, <1>3, PresentStays
  <1>5. /\ ToSet(inbox') \subseteq ToSet(inbox) /\ Single'
        /\ \A x \in ToSet(inbox) : x = m \/ x \in ToSet(inbox')
        /\ m \in ToSet(inbox)
    BY <1>1, MessagesLeft, MembersFacts DEF Known, Typed
  <1>6. tasks' # <<>> /\ Head(tasks').type = "Update"
    BY DEF Task
  <1>7. Queue'
    BY DEF Queue
  <1>8. Current'
    <2>1. u # ConfigUri
      BY EnvironmentAssumption
    <2>2. m # [type |-> "watched", uris |-> <<ConfigUri>>]
      <3>1. <<u>> # <<ConfigUri>>
        BY <2>1
      <3> QED  BY <3>1 DEF Tells
    <2>3. WillHear => WillHear'
      BY <1>2, <1>5, <2>2 DEF WillHear
    <2> QED  BY <1>1, <1>2, <1>6, <2>3 DEF Current
  <1>9. ASSUME NEW v \in Uris, ShapeKept(v), Shape(v)' = Shape(v), v # u \/ Shapes PROVE ShapeKept(v)'
    <2>1. CASE v # u
      BY <1>2, <1>3, <1>5, <1>9, <2>1 DEF ShapeKept, TrueText, Said, Tells
    <2>2. CASE v = u
      <3>1. TrueText(u)' = TrueText(u) /\ \A x : Said(x, u)' = Said(x, u) /\ (Tells(x, u)' <=> Tells(x, u))
        BY <1>2 DEF TrueText, Said, Tells
      <3>2. ~HoldsDocument(vfs', u) => disk[u].inc = Shape(u)
        <4>1. m.type = "close" => Tells(m, u) /\ Said(m, u) = disk[u]
          BY DEF Tells, Said
        <4>2. m.type = "close" => disk[u].inc = Shape(u)
          BY <1>5, <1>9, <2>2, <4>1 DEF ShapeKept
        <4>3. ~HoldsDocument(vfs, u) => disk[u].inc = Shape(u)
          BY <1>9, <2>2 DEF ShapeKept
        <4> QED  BY <1>3, <4>2, <4>3
      <3> QED  BY <1>2, <1>5, <1>9, <2>2, <3>1, <3>2 DEF ShapeKept
    <2> QED  BY <2>1, <2>2
  <1>10. ASSUME NEW r \in DOMAIN cache, Fit(r), \A h \in cache[r] : Shape(UriOf(h))' = Shape(UriOf(h))
         PROVE  Fit(r)'
    <2>1. disk' \in Disk /\ vfs' \in [Uris -> Entry] /\ \A v \in Uris : disk'[v] # Missing
      BY <1>3 DEF Known, IInv, DocTypes
    <2>2. \A h \in cache[r] : h \in Live(ctx') /\ ctx'.store[h] = ctx.store[h]
      BY <1>1, <1>2 DEF Present, FilesOf
    <2> QED  BY <1>1, <1>2, <1>10, <2>1, <2>2, StillFits
  <1>11. \A h : UriOf(h)' = UriOf(h)
    BY <1>2, IndexStays
  <1>12. \A r \in DOMAIN cache : \A h \in cache[r] : UriOf(h) \in Uris
    BY <1>1, PresentFacts DEF Present, FilesOf
  <1>13. CASE Stable
    <2>1. ShapeKept(u) /\ \A v \in Uris : ShapeKept(v)
      BY <1>13 DEF Stable, Shapes
    <2>2. Shape(u)' = Shape(u)
      <3>1. m.type \in {"open", "change"} => Tells(m, u) /\ Said(m, u) = m.text
        BY DEF Tells, Said
      <3>2. m.type = "close" => Tells(m, u) /\ Said(m, u) = disk[u]
        BY DEF Tells, Said
      <3>3. m.type \in {"open", "change"} => m.text.inc = Shape(u)
        BY <1>5, <2>1, <3>1 DEF ShapeKept
      <3>4. m.type = "close" => disk[u].inc = Shape(u)
        BY <1>5, <2>1, <3>2 DEF ShapeKept
      <3>5. m.type = "watched" /\ ~HoldsDocument(vfs, u) => disk[u].inc = Shape(u)
        BY <2>1 DEF ShapeKept
      <3> QED  BY <1>3, <3>3, <3>4, <3>5
    <2>3. \A v \in Uris : Shape(v)' = Shape(v)
      BY <1>3, <2>2
    <2>4. Shapes'
      BY <1>9, <1>13, <2>1, <2>3 DEF Shapes, Stable
    <2>5. AllFit'
      <3>1. \A r \in DOMAIN cache : \A h \in cache[r] : Shape(UriOf(h))' = Shape(UriOf(h))
        <4> SUFFICES ASSUME NEW r \in DOMAIN cache, NEW h \in cache[r]
                     PROVE  Shape(UriOf(h))' = Shape(UriOf(h))
          OBVIOUS
        <4>1. UriOf(h)' = UriOf(h) /\ UriOf(h) \in Uris
          BY <1>11, <1>12
        <4>2. VfsTexts'[UriOf(h)].inc = VfsTexts[UriOf(h)].inc
          BY <2>3, <4>1 DEF Shape
        <4> QED  BY <4>1, <4>2 DEF Shape
      <3>2. \A r \in DOMAIN cache : Fit(r)'
        BY <1>10, <1>13, <3>1 DEF Stable, AllFit
      <3> QED  BY <1>2, <3>2 DEF AllFit
    <2>6. Indexed'
      BY <1>2, <1>13, IndexStays DEF Stable
    <2>7. Stable'
      BY <2>4, <2>5, <2>6 DEF Stable
    <2> QED  BY <1>1, <1>4, <1>5, <1>7, <1>8, <2>7 DEF Calm, Phase, HandlesLead
  <1>14. CASE ~Stable
    <2>1. PICK w \in Uris :
             /\ Edited(w) /\ Tail(inbox) = <<>> /\ unseen = {} /\ pausing
             /\ \/ /\ Tells(m, w)
                   /\ IF m.type = "close" THEN docs[w] = Missing
                      ELSE docs[w] = m.text /\ docs[w] # Missing
                   /\ m.type = "open" \/ HoldsDocument(vfs, w)
                \/ /\ m = [type |-> "watched", uris |-> <<w>>]
                   /\ docs[w] = Missing /\ ~HoldsDocument(vfs, w)
      BY <1>14, PhaseOfMessage
    <2>2. w = u
      <3>1. \A a, b : <<a>> = <<b>> => a = b
        OBVIOUS
      <3> QED  BY <2>1, <3>1 DEF Tells
    <2>3. /\ \A v \in Uris \ {u} : ShapeKept(v)
          /\ AllFit /\ Indexed
      BY <2>1, <2>2 DEF Edited
    <2>4. ToSet(inbox') = {}
      BY <2>1, MembersFacts, EmptySeq
    <2>5. TrueText(u).inc = Shape(u)' /\ (~HoldsDocument(vfs', u) => disk[u].inc = Shape(u)')
      <3>1. m.type \in {"open", "change"} => TrueText(u) = m.text
        BY <2>1, <2>2 DEF TrueText
      <3>2. m.type \in {"close", "watched"} => TrueText(u) = disk[u]
        BY <2>1, <2>2 DEF TrueText, Tells
      <3>3. ~(/\ m.type \in {"change", "close"} /\ ~HoldsDocument(vfs, u))
        BY <2>1, <2>2
      <3> QED  BY <1>3, <3>1, <3>2, <3>3
    <2>6. Shapes'
      <3>1. ShapeKept(u)'
        BY <1>2, <2>4, <2>5 DEF ShapeKept, TrueText
      <3>2. \A v \in Uris \ {u} : ShapeKept(v)'
        BY <1>3, <1>9, <2>3
      <3> QED  BY <3>1, <3>2 DEF Shapes
    <2>7. Quiet'
      BY <1>2, <2>1 DEF Quiet
    <2>8. ASSUME NEW r \in DOMAIN cache, ~HasFile(r, u) PROVE Fit(r)'
      <3>1. ASSUME NEW h \in cache[r] PROVE Shape(UriOf(h))' = Shape(UriOf(h))
        <4>1. UriOf(h)' = UriOf(h) /\ UriOf(h) \in Uris \ {u}
          BY <1>11, <1>12, <2>8 DEF HasFile
        <4>2. VfsTexts'[UriOf(h)].inc = VfsTexts[UriOf(h)].inc
          BY <1>3, <4>1 DEF Shape
        <4> QED  BY <4>1, <4>2 DEF Shape
      <3> QED  BY <1>10, <2>3, <3>1 DEF AllFit
    <2>9. Updating(u)'
      <3>1. \A r \in DOMAIN cache' : HasFile(r, u)' \/ Fit(r)'
        BY <1>2, <2>8, IndexStays
      <3>2. Indexed'
        BY <1>2, <2>3, IndexStays
      <3> QED  BY <2>6, <2>7, <3>1, <3>2 DEF Updating
    <2> QED  BY <1>1, <1>4, <1>5, <1>7, <1>8, <2>9 DEF Calm, Phase, HandlesLead
  <1> QED  BY <1>13, <1>14

\* A notification about a document is handled as its text arrives.
LEMMA DocumentHandled ==
    ASSUME Known, Present,
           \/ handle_did_open_text_document
           \/ handle_did_change_text_document
           \/ handle_did_close_text_document
    PROVE  /\ status = "running" /\ tasks = <<>> /\ inbox # <<>> /\ inbox' = Tail(inbox)
           /\ \E u \in Uris : /\ Tells(Head(inbox), u) /\ Handled(Head(inbox), u)
                              /\ tasks' = <<Task("Update", u)>>
           /\ UNCHANGED <<world, status, incoming, units, diagnostics, client>>
  <1> DEFINE m == Head(inbox)
             u == m.uri
  <1>1. /\ status = "running" /\ tasks = <<>> /\ inbox # <<>>
        /\ \/ m.type = "open" /\ vfs' = DidOpen(vfs, u, m.text)
           \/ m.type = "change" /\ vfs' = DidChange(vfs, u, m.text)
           \/ m.type = "close" /\ vfs' = DidClose(vfs, disk, u)
        /\ tasks' = <<Task("Update", u)>> /\ inbox' = Tail(inbox)
        /\ UNCHANGED <<world, status, incoming, units, diagnostics, client>>
    BY DEF handle_did_open_text_document, handle_did_change_text_document,
           handle_did_close_text_document, Receives
  <1>3. m \in Message
    BY <1>1, MessagesLeft
  <1>4. u \in Uris /\ (m.type # "close" => m.text \in Text)
    BY <1>1, <1>3 DEF Message
  <1>5. disk \in Disk /\ vfs \in [Uris -> Entry] /\ disk[u] # Missing
    BY <1>4, PresentFacts
  <1> HIDE DEF u
  <1>6. Handled(m, u)
    <2>1. CASE m.type = "open"
      BY <1>1, <1>4, <2>1 DEF DidOpen, Handled
    <2>2. CASE m.type = "change"
      BY <1>1, <1>4, <2>2 DEF DidChange, Handled
    <2>3. CASE m.type = "close" /\ ~HoldsDocument(vfs, u)
      BY <1>1, <2>3 DEF DidClose, Handled
    <2>4. CASE m.type = "close" /\ HoldsDocument(vfs, u)
      <3> DEFINE w == [vfs EXCEPT ![u] = NoFile]
      <3>1. vfs' = ReadAll(w, disk, {u})
        BY <1>1, <2>4 DEF DidClose, Read
      <3>2. w[u] = NoFile /\ \A v \in Uris \ {u} : w[v] = vfs[v]
        BY <1>4, <1>5
      <3> HIDE DEF w
      <3>3. vfs' = [v \in Uris |-> IF v \in {u} /\ w[v] = NoFile /\ disk[v] # Missing
                                   THEN Fs(disk[v]) ELSE w[v]]
        BY <3>1 DEF ReadAll
      <3>4. vfs' = [vfs EXCEPT ![u] = Fs(disk[u])]
        BY <1>4, <1>5, <3>2, <3>3
      <3> QED  BY <2>4, <3>4 DEF Handled
    <2> QED  BY <1>1, <2>1, <2>2, <2>3, <2>4
  <1>7. Tells(m, u)
    BY <1>1 DEF Tells, u
  <1> HIDE DEF m
  <1>8. m = Head(inbox)
    BY DEF m
  <1> QED  BY <1>1, <1>4, <1>6, <1>7, <1>8

\* The notifications about open documents.
LEMMA CalmDocuments ==
    ASSUME Known, Known', Calm,
           \/ handle_did_open_text_document
           \/ handle_did_change_text_document
           \/ handle_did_close_text_document
    PROVE  Calm'
  <1>1. Present
    BY DEF Calm
  <1>2. /\ status = "running" /\ tasks = <<>> /\ inbox # <<>> /\ inbox' = Tail(inbox)
        /\ \E u \in Uris : /\ Tells(Head(inbox), u) /\ Handled(Head(inbox), u)
                           /\ tasks' = <<Task("Update", u)>>
        /\ UNCHANGED <<world, status, incoming, units, diagnostics, client>>
    BY <1>1, DocumentHandled
  <1> QED  BY <1>2, TextArrives

\* A notification about one file.
LEMMA WatchedOne ==
    ASSUME Known, Present, handle_did_change_watched_file,
           NEW c \in Uris \cup {ConfigUri}, Head(inbox).uris = <<c>>
    PROVE  \/ c = ConfigUri /\ vfs' = vfs /\ tasks' = <<Task("ReloadWorkspace", 0)>>
           \/ c \in Uris /\ HoldsDocument(vfs, c) /\ vfs' = vfs /\ tasks' = <<>>
           \/ /\ c \in Uris /\ ~HoldsDocument(vfs, c)
              /\ vfs' = [vfs EXCEPT ![c] = Fs(disk[c])]
              /\ tasks' = <<Task("Update", c)>>
  <1> DEFINE s == <<c>>
             fails(i) == s[i] # ConfigUri /\ UpdateFails(vfs, disk, s[i])
             handled == {i \in 1..Len(s) : \A j \in 1..i : ~fails(j)}
             taken   == {s[i] : i \in handled} \ {ConfigUri}
             told    == {i \in handled : s[i] = ConfigUri \/ ~HoldsDocument(vfs, s[i])}
             queued  == AtPositions(s, told)
             of(x)   == IF x = ConfigUri THEN Task("ReloadWorkspace", 0) ELSE Task("Update", x)
  <1>1. /\ vfs' = [u \in Uris |-> IF u \in taken THEN UpdateFs(vfs, disk, u)[u] ELSE vfs[u]]
        /\ tasks' = [k \in 1..Len(queued) |-> of(queued[k])]
    BY DEF handle_did_change_watched_file
  <1>2. disk \in Disk /\ vfs \in [Uris -> Entry] /\ \A u \in Uris : disk[u] # Missing
        /\ ConfigUri \notin Uris
    BY PresentFacts, EnvironmentAssumption
  <1>3. Len(s) = 1 /\ s[1] = c /\ 1..1 = {1} /\ s \in Seq(Uris \cup {ConfigUri})
    OBVIOUS
  <1>4. ~fails(1)
    BY <1>2, <1>3 DEF UpdateFails
  <1> HIDE DEF s, fails
  <1>5. handled = {1}
    BY <1>3, <1>4
  <1> HIDE DEF handled
  <1>6. taken = {c} \ {ConfigUri}
    BY <1>3, <1>5
  <1>7. told = IF c = ConfigUri \/ ~HoldsDocument(vfs, c) THEN {1} ELSE {}
    BY <1>3, <1>5
  <1> HIDE DEF taken, told
  <1>P. \A I \in SUBSET (1..Len(s)) :
            /\ Len(AtPositions(s, I)) = Cardinality(I)
            /\ \A k \in 1..Cardinality(I) : \E i \in I : AtPositions(s, I)[k] = s[i]
    BY <1>3, AtPositionsFacts
  <1>8. ASSUME c = ConfigUri \/ ~HoldsDocument(vfs, c) PROVE tasks' = <<of(c)>>
    <2>1. told = {1} /\ Cardinality({1}) = 1 /\ told \in SUBSET (1..Len(s))
      BY <1>3, <1>7, <1>8, FS_Singleton
    <2>2. /\ Len(queued) = Cardinality(told)
          /\ \A k \in 1..Cardinality(told) : \E i \in told : queued[k] = s[i]
      BY <1>P, <2>1
    <2> HIDE DEF queued
    <2>3. Len(queued) = 1 /\ queued[1] = c
      BY <1>3, <2>1, <2>2
    <2> HIDE DEF of
    <2>4. tasks' = [k \in {1} |-> of(c)]
      BY <1>1, <1>3, <2>3
    <2>5. [k \in {1} |-> of(c)] = <<of(c)>>
      OBVIOUS
    <2> QED  BY <2>4, <2>5
  <1>9. ASSUME ~(c = ConfigUri \/ ~HoldsDocument(vfs, c)) PROVE tasks' = <<>>
    <2>1. told = {} /\ Cardinality({}) = 0 /\ told \in SUBSET (1..Len(s))
      BY <1>7, <1>9, FS_EmptySet
    <2>2. Len(queued) = Cardinality(told)
      BY <1>P, <2>1
    <2> HIDE DEF queued, of
    <2>3. Len(queued) = 0
      BY <2>1, <2>2
    <2> QED  BY <1>1, <2>3
  <1> HIDE DEF queued
  <1>10. ASSUME c \in Uris, ~HoldsDocument(vfs, c) PROVE vfs' = [vfs EXCEPT ![c] = Fs(disk[c])]
    <2>1. UpdateFs(vfs, disk, c)[c] = Fs(disk[c])
      BY <1>2, <1>10 DEF UpdateFs
    <2>2. taken = {c}
      BY <1>2, <1>6, <1>10
    <2> QED  BY <1>1, <1>2, <1>10, <2>1, <2>2
  <1>11. ASSUME c = ConfigUri \/ HoldsDocument(vfs, c) PROVE vfs' = vfs
    <2>1. CASE c = ConfigUri
      BY <1>1, <1>2, <1>6, <2>1
    <2>2. CASE c \in Uris /\ HoldsDocument(vfs, c)
      <3>1. UpdateFs(vfs, disk, c)[c] = vfs[c] /\ taken = {c}
        BY <1>2, <1>6, <2>2 DEF UpdateFs
      <3> QED  BY <1>1, <1>2, <3>1
    <2> QED  BY <1>11, <2>1, <2>2
  <1> QED  BY <1>2, <1>8, <1>9, <1>10, <1>11

\* What the handler does with a notification about one file.
LEMMA WatchedHandled ==
    ASSUME Known, Present, Single, handle_did_change_watched_file
    PROVE  /\ status = "running" /\ tasks = <<>> /\ inbox # <<>> /\ inbox' = Tail(inbox)
           /\ \E c \in Uris \cup {ConfigUri} :
                 /\ Head(inbox) = [type |-> "watched", uris |-> <<c>>]
                 /\ \/ c = ConfigUri /\ vfs' = vfs /\ tasks' = <<Task("ReloadWorkspace", 0)>>
                    \/ c \in Uris /\ HoldsDocument(vfs, c) /\ vfs' = vfs /\ tasks' = <<>>
                    \/ /\ c \in Uris /\ ~HoldsDocument(vfs, c)
                       /\ vfs' = [vfs EXCEPT ![c] = Fs(disk[c])]
                       /\ tasks' = <<Task("Update", c)>>
           /\ UNCHANGED <<world, status, incoming, units, diagnostics, client>>
  <1> DEFINE m == Head(inbox)
  <1>1. /\ status = "running" /\ tasks = <<>> /\ inbox # <<>> /\ m.type = "watched"
        /\ inbox' = Tail(inbox)
        /\ UNCHANGED <<world, status, incoming, units, diagnostics, client>>
    BY DEF handle_did_change_watched_file, Receives
  <1>3. m \in Message /\ m \in ToSet(inbox)
    BY <1>1, MembersFacts DEF Known, Typed
  <1>4. PICK c \in Uris \cup {ConfigUri} : m.uris = <<c>>
    BY <1>1, <1>3 DEF Single
  <1>5. m = [type |-> "watched", uris |-> <<c>>]
    BY <1>1, <1>3, <1>4 DEF Message
  <1>6. \/ c = ConfigUri /\ vfs' = vfs /\ tasks' = <<Task("ReloadWorkspace", 0)>>
        \/ c \in Uris /\ HoldsDocument(vfs, c) /\ vfs' = vfs /\ tasks' = <<>>
        \/ /\ c \in Uris /\ ~HoldsDocument(vfs, c)
           /\ vfs' = [vfs EXCEPT ![c] = Fs(disk[c])]
           /\ tasks' = <<Task("Update", c)>>
    BY <1>4, WatchedOne
  <1> QED  BY <1>1, <1>5, <1>6

\* The notifications of the watcher, about one file each.
LEMMA CalmWatched ==
    ASSUME Known, Known', Calm, handle_did_change_watched_file PROVE Calm'
  <1> DEFINE m == Head(inbox)
  <1>2. Present /\ Single /\ HandlesLead
    BY DEF Calm
  <1>1. /\ status = "running" /\ tasks = <<>> /\ inbox # <<>> /\ m.type = "watched"
        /\ inbox' = Tail(inbox)
        /\ UNCHANGED <<world, status, incoming, units, diagnostics, client>>
    BY DEF handle_did_change_watched_file, Receives
  <1>3. PICK c \in Uris \cup {ConfigUri} :
           /\ m = [type |-> "watched", uris |-> <<c>>]
           /\ \/ c = ConfigUri /\ vfs' = vfs /\ tasks' = <<Task("ReloadWorkspace", 0)>>
              \/ c \in Uris /\ HoldsDocument(vfs, c) /\ vfs' = vfs /\ tasks' = <<>>
              \/ /\ c \in Uris /\ ~HoldsDocument(vfs, c)
                 /\ vfs' = [vfs EXCEPT ![c] = Fs(disk[c])]
                 /\ tasks' = <<Task("Update", c)>>
    BY <1>2, WatchedHandled
  <1>5. m = [type |-> "watched", uris |-> <<c>>]
    BY <1>3
  <1>6. \/ c = ConfigUri /\ vfs' = vfs /\ tasks' = <<Task("ReloadWorkspace", 0)>>
        \/ c \in Uris /\ HoldsDocument(vfs, c) /\ vfs' = vfs /\ tasks' = <<>>
        \/ /\ c \in Uris /\ ~HoldsDocument(vfs, c)
           /\ vfs' = [vfs EXCEPT ![c] = Fs(disk[c])]
           /\ tasks' = <<Task("Update", c)>>
    BY <1>3
  <1>7. ConfigUri \notin Uris /\ \A a, b : <<a>> = <<b>> => a = b
    BY EnvironmentAssumption
  <1>8. (c = ConfigUri \/ HoldsDocument(vfs, c)) => Stable
    <2>1. \A u \in Uris : Tells(m, u) => FALSE
      BY <1>1 DEF Tells
    <2> QED  BY <1>1, <1>5, <1>7, <2>1, PhaseOfMessage
  <1>9. CASE c = ConfigUri /\ vfs' = vfs /\ tasks' = <<Task("ReloadWorkspace", 0)>>
    <2>1. tasks' # <<>> /\ Tail(tasks') = <<>> /\ Head(tasks').type = "ReloadWorkspace"
      BY <1>9 DEF Task
    <2>2. Queue'
      BY <2>1 DEF Queue, Reloads
    <2>3. Current'
      BY <2>1 DEF Current, WillHear
    <2>4. Present' /\ Single' /\ Stable'
      BY <1>1, <1>8, <1>9, MessageGone
    <2> QED  BY <1>1, <1>2, <2>2, <2>3, <2>4 DEF Calm, Phase, HandlesLead
  <1>10. CASE c \in Uris /\ HoldsDocument(vfs, c) /\ vfs' = vfs /\ tasks' = <<>>
    <2>1. Queue'
      <3>1. ToSet(tasks') = {}
        BY <1>10, MembersFacts, EmptySeq
      <3> QED  BY <3>1 DEF Queue, Reloads, Answers
    <2>2. Present' /\ Single' /\ Stable'
      BY <1>1, <1>8, <1>10, MessageGone
    <2>3. Current'
      <3>1. m # [type |-> "watched", uris |-> <<ConfigUri>>]
        BY <1>5, <1>7, <1>10
      <3>2. workspace' = config' \/ WillHear'
        BY <1>1, <1>10, <3>1, MessageGone
      <3> QED  BY <1>10, <3>2 DEF Current
    <2> QED  BY <1>1, <1>2, <2>1, <2>2, <2>3 DEF Calm, Phase, HandlesLead
  <1>11. CASE /\ c \in Uris /\ ~HoldsDocument(vfs, c)
              /\ vfs' = [vfs EXCEPT ![c] = Fs(disk[c])]
              /\ tasks' = <<Task("Update", c)>>
    <2>1. Handled(m, c)
      BY <1>1, <1>11 DEF Handled
    <2> HIDE DEF m
    <2> QED  BY <1>1, <1>5, <1>11, <2>1, TextArrives DEF m
  <1> QED  BY <1>6, <1>9, <1>10, <1>11

\* The text of the document that a request is about has arrived before it.
LEMMA QueryFindsText ==
    ASSUME Known, query PROVE vfs[Head(inbox).uri] # NoFile
  <1> DEFINE u == Head(inbox).uri
  <1>1. inbox # <<>> /\ inbox \in Seq(Message) /\ Head(inbox).type = "query"
    BY DEF query, Receives, Known, Typed
  <1>2. Head(inbox) = inbox[1] /\ 1 \in 1..Len(inbox) /\ inbox[1] \in Message
    BY <1>1
  <1>3. u \in Uris
    BY <1>1, <1>2 DEF Message
  <1>4. Lasts(inbox, 0, 1, u) /\ Presumes(inbox, 1, u) /\ 1 # Len(inbox) + 1
    BY <1>1, <1>2 DEF Lasts, Presumes
  <1>5. Fits(0, 1, u)
    BY <1>2, <1>3, <1>4 DEF Known, IInv, MessagesTellTheStory
  <1>6. HoldsDocument(vfs, u)
    BY <1>4, <1>5 DEF Fits, Says, Held
  <1> QED  BY <1>6, EntryFacts DEF HoldsDocument

\* The requests: each finds its document and its unit.
LEMMA CalmRequests ==
    ASSUME Known, Known', Calm, query \/ reload_request \/ shutdown PROVE Calm'
  <1> DEFINE m == Head(inbox)
  <1>1. Present /\ HandlesLead
    BY DEF Calm
  <1>2. /\ status = "running" /\ tasks = <<>> /\ inbox # <<>>
        /\ m.type \in {"query", "reload", "shutdown"}
    BY DEF query, reload_request, shutdown, Receives
  <1>3. Stable
    <2>1. \A u \in Uris : ~Tells(m, u) /\ m # [type |-> "watched", uris |-> <<u>>]
      BY <1>2 DEF Tells
    <2> QED  BY <1>2, <2>1, PhaseOfMessage
  <1>4. m # [type |-> "watched", uris |-> <<ConfigUri>>] /\ m \in Message
    <2>1. m \in Message
      BY <1>2, MembersFacts DEF Known, Typed
    <2>2. \A x : x = [type |-> "watched", uris |-> <<ConfigUri>>] => x.type = "watched"
      OBVIOUS
    <2> QED  BY <1>2, <2>1, <2>2
  <1>5. ASSUME query
        PROVE  Panic("node") \/ (inbox' = Tail(inbox) /\ UNCHANGED <<world, tasks, status, vfs, units>>)
    <2>1. m.type = "query"
      BY <1>5 DEF query, Receives
    <2>2. m.uri \in Uris
      BY <1>4, <2>1 DEF Message
    <2>3. /\ files[m.uri] \subseteq Live(ctx)
          /\ \A h \in files[m.uri] : parent_file(ctx, h) \in DOMAIN cache
      BY <1>1, <1>3, <2>2, IndexFindsRoots DEF Stable
    <2>4. vfs[m.uri] # NoFile
      BY <1>5, QueryFindsText
    <2> QED  BY <1>5, <2>3, <2>4 DEF query
  <1>6. (inbox' = Tail(inbox) /\ UNCHANGED <<world, vfs, units>>) \/ Panic("node")
    BY <1>5 DEF reload_request, shutdown
  <1>P. ASSUME Panic("node") PROVE Calm'
    <2>1. /\ UNCHANGED <<disk, config, unseen, inbox, tasks, vfs, workspace, ctx, cache>>
          /\ status' = "node"
      BY <1>P DEF Panic, world, units
    <2>2. (Present' <=> Present) /\ (Single' <=> Single) /\ (Queue' <=> Queue)
          /\ (Current' <=> Current)
      BY <2>1 DEF Present, FilesOf, UriOf, Live, Single, Queue, Reloads, Answers, Reprocesses,
                  Current, WillHear
    <2> QED  BY <2>1, <2>2 DEF Calm, HandlesLead
  <1> SUFFICES ASSUME ~Panic("node") PROVE Calm'
    BY <1>P
  <1>7. Present' /\ Single' /\ Stable' /\ (workspace' = config' \/ WillHear')
    BY <1>2, <1>3, <1>4, <1>6, MessageGone
  <1>8. CASE reload_request
    <2>1. tasks' # <<>> /\ Tail(tasks') = <<>> /\ Head(tasks').type = "ReloadWorkspace"
          /\ status' = status
      BY <1>8 DEF reload_request, Task
    <2>2. Queue'
      BY <2>1 DEF Queue, Reloads
    <2>3. Current'
      BY <2>1 DEF Current, WillHear
    <2> QED  BY <1>1, <1>7, <2>1, <2>2, <2>3 DEF Calm, Phase, HandlesLead
  <1>9. CASE query \/ shutdown
    <2>1. tasks' = <<>> /\ status' \in {"running", "stopped"}
      <3>1. CASE query
        BY <1>2, <1>5, <3>1
      <3>2. CASE shutdown
        BY <1>2, <3>2 DEF shutdown
      <3> QED  BY <1>9, <3>1, <3>2
    <2>2. ToSet(tasks') = {}
      BY <2>1, MembersFacts, EmptySeq
    <2>3. Queue'
      BY <2>2 DEF Queue, Reloads, Answers
    <2>4. Current'
      BY <1>7, <2>1 DEF Current
    <2> QED  BY <1>7, <2>1, <2>3, <2>4 DEF Calm, Phase, HandlesLead
  <1> QED  BY <1>8, <1>9

\* With nothing under way the server holds the documents that the editor has.
LEMMA DocumentsHeld ==
    ASSUME Known, inbox = <<>>, NEW u \in Uris
    PROVE  IF docs[u] = Missing THEN ~HoldsDocument(vfs, u) ELSE vfs[u] = Lsp(docs[u])
  <1>1. Len(inbox) = 0 /\ IInv
    BY DEF Known
  <1>2. Lasts(inbox, 0, 1, u)
    BY <1>1 DEF Lasts, About
  <1>3. Fits(0, 1, u)
    BY <1>1, <1>2 DEF IInv, MessagesTellTheStory
  <1>4. Held(vfs, u) = docs[u]
    BY <1>1, <1>3 DEF Fits, Says
  <1>5. docs[u] \in Text \cup {Missing} /\ vfs[u] \in Entry
    BY <1>1 DEF IInv, DocTypes, Disk
  <1> QED  BY <1>4, <1>5, EntryFacts, UrisAssumption DEF Held, HoldsDocument

\* What the environment leaves alone of a calm state, and what it must see to:
\* it takes no file away, it forgets no message, and it reports a new config.
LEMMA EnvironmentLeaves ==
    ASSUME Known, Known', Calm, status = "running", UNCHANGED server,
           \A u \in Uris : disk'[u] # Missing,
           ToSet(inbox) \subseteq ToSet(inbox'),
           \A m \in ToSet(inbox') : \/ m \in ToSet(inbox)
                                    \/ m.type # "watched"
                                    \/ \E c \in Uris \cup {ConfigUri} : m.uris = <<c>>,
           ConfigUri \in unseen \/ config' # config =>
               \/ ConfigUri \in unseen'
               \/ [type |-> "watched", uris |-> <<ConfigUri>>] \in ToSet(inbox'),
           Phase'
    PROVE  Calm'
  <1>1. Present /\ Single /\ Queue /\ Current /\ HandlesLead
    BY DEF Calm
  <1>2. UNCHANGED <<status, tasks, vfs, workspace, ctx, cache, files>>
    BY DEF server, loop, units
  <1>3. Present'
    BY <1>1, <1>2, PresentStays
  <1>4. Single'
    BY <1>1 DEF Single
  <1>5. Queue'
    BY <1>1, <1>2 DEF Queue, Reloads, Answers, Reprocesses
  <1>6. Current'
    BY <1>1, <1>2 DEF Current, WillHear
  <1> QED  BY <1>1, <1>2, <1>3, <1>4, <1>5, <1>6 DEF Calm, HandlesLead

\* The units that fit still do: their files have been read.
LEMMA UnitsStillFit ==
    ASSUME Known, Known', Present, UNCHANGED server, \A u \in Uris : disk'[u] # Missing
    PROVE  /\ AllFit => AllFit'
           /\ Indexed => Indexed'
           /\ \A u \in Uris : disk'[u] = disk[u] \/ vfs[u] # NoFile => Shape(u)' = Shape(u)
  <1>1. UNCHANGED <<vfs, ctx, cache, files>>
    BY DEF server, units
  <1>2. \A u \in Uris : disk'[u] = disk[u] \/ vfs[u] # NoFile => VfsTexts'[u] = VfsTexts[u]
    BY <1>1, TextsAre DEF Contents
  <1>3. ASSUME NEW r \in DOMAIN cache, Fit(r) PROVE Fit(r)'
    <2>1. ASSUME NEW h \in cache[r] PROVE Shape(UriOf(h))' = Shape(UriOf(h))
      <3>1. h \in FilesOf(cache) /\ UriOf(h)' = UriOf(h)
        BY <1>1 DEF FilesOf, UriOf
      <3>2. UriOf(h) \in Uris /\ vfs[UriOf(h)] # NoFile
        BY <3>1, PresentFacts DEF Present
      <3>3. VfsTexts'[UriOf(h)] = VfsTexts[UriOf(h)]
        BY <1>2, <3>2
      <3> QED  BY <3>1, <3>3 DEF Shape
    <2>2. \A h \in cache[r] : h \in Live(ctx') /\ ctx'.store[h] = ctx.store[h]
      BY <1>1 DEF Present, FilesOf
    <2>3. disk' \in Disk /\ vfs' \in [Uris -> Entry]
      BY DEF Known, IInv, DocTypes
    <2> QED  BY <1>1, <1>3, <2>1, <2>2, <2>3, StillFits
  <1>4. AllFit => AllFit'
    BY <1>1, <1>3 DEF AllFit
  <1>5. Indexed => Indexed'
    BY <1>1, IndexStays
  <1>6. \A u \in Uris : disk'[u] = disk[u] \/ vfs[u] # NoFile => Shape(u)' = Shape(u)
    BY <1>2 DEF Shape
  <1> QED  BY <1>4, <1>5, <1>6

\* While the editor is not waiting, or has nothing to wait for.
LEMMA EditorMoves ==
    ASSUME Known, Calm, status = "running", pausing => Settled
    PROVE  (Stable \/ Loading) /\ (Settled => Stable)
  <1>1. Phase
    BY DEF Calm
  <1>2. ASSUME Quiet, Settled PROVE tasks = <<>> /\ ~dirty
    BY <1>2 DEF Settled
  <1>3. ~Rebuilding /\ ~Reloading /\ \A u \in Uris : ~Updating(u)
    BY <1>1 DEF Rebuilding, Reloading, Updating, Quiet, Settled
  <1>4. ASSUME NEW u \in Uris PROVE ~Edited(u)
    <2>1. ToSet(<<>>) = {} /\ \A x : <<x>> # <<>>
      BY MembersFacts, EmptySeq
    <2> QED  BY <1>1, <2>1 DEF Edited, OnItsWay, Settled
  <1>5. Settled => ~Loading
    <2>1. ToSet(<<>>) = {}
      BY MembersFacts, EmptySeq
    <2> QED  BY <2>1 DEF Settled, Loading
  <1> QED  BY <1>1, <1>3, <1>4, <1>5 DEF Phase

\* The phases between the edits are kept as long as the shapes are.
LEMMA ShapesKeepPhase ==
    ASSUME Known, Known', Present, UNCHANGED server, \A u \in Uris : disk'[u] # Missing,
           Stable \/ Loading, Shapes'
    PROVE  Phase' /\ (Stable => Stable')
  <1>1. UNCHANGED <<tasks, files>>
    BY DEF server, loop, units
  <1>2. Stable => Stable'
    BY UnitsStillFit DEF Stable
  <1>3. Loading => Loading'
    BY <1>1, UnitsStillFit DEF Loading, Reloads, Answers
  <1> QED  BY <1>2, <1>3 DEF Phase

\* A step of the environment that is about one document at most keeps the shapes
\* of the others.
LEMMA OthersKeepShape ==
    ASSUME Known, Known', Present, UNCHANGED server, \A v \in Uris : disk'[v] # Missing,
           NEW u \in Uris, disk'[u] = disk[u], docs'[u] = docs[u],
           \A m \in ToSet(inbox') : m \in ToSet(inbox) \/ ~Tells(m, u),
           ShapeKept(u)
    PROVE  ShapeKept(u)'
  <1>1. Shape(u)' = Shape(u) /\ vfs' = vfs
    BY UnitsStillFit DEF server
  <1>2. TrueText(u)' = TrueText(u) /\ \A m : (Tells(m, u)' <=> Tells(m, u)) /\ Said(m, u)' = Said(m, u)
    BY DEF TrueText, Tells, Said
  <1> QED  BY <1>1, <1>2 DEF ShapeKept

\* The editor sends a message about a document, or about none.
LEMMA SentFacts ==
    ASSUME Known, NEW m, Sends(m)
    PROVE  /\ inbox' = Append(inbox, m)
           /\ ToSet(inbox') = ToSet(inbox) \cup {m}
           /\ inbox = <<>> => inbox' = <<m>>
  <1>1. inbox' = Append(inbox, m) /\ inbox \in Seq(Message)
    BY DEF Sends, Known, Typed
  <1>2. ToSet(inbox') = ToSet(inbox) \cup {m}
    BY <1>1, MembersFacts
  <1>3. Append(<<>>, m) = <<m>>
    OBVIOUS
  <1> QED  BY <1>1, <1>2, <1>3

\* The editor opens, changes or closes a document.
LEMMA CalmEdits ==
    ASSUME CalmEnvironment, Known, Known', Calm, Acts, NEW u \in Uris,
           NEW old, NEW new \in Text, Edits(old, new), old # Missing, new # Missing,
           TrueText(u) = old,
           NEW m, Sends(m), m.type \in {"open", "change", "close"}, m.uri = u,
           IF m.type = "close"
           THEN docs' = [docs EXCEPT ![u] = Missing] /\ new = disk[u]
           ELSE docs' = [docs EXCEPT ![u] = new] /\ new = m.text,
           m.type = "open" \/ docs[u] # Missing,
           UNCHANGED <<disk, config, unseen, server>>
    PROVE  Calm'
  <1>1. /\ status = "running" /\ (Stable \/ Loading) /\ (Settled => Stable)
        /\ Present
    BY EditorMoves DEF Acts, Calm
  <1>2. \A v \in Uris : disk'[v] # Missing
    BY <1>1 DEF Present
  <1>3. /\ ToSet(inbox') = ToSet(inbox) \cup {m}
        /\ inbox = <<>> => inbox' = <<m>>
    BY SentFacts
  <1>4. docs \in Disk /\ disk \in Disk
    BY DEF Known, IInv, DocTypes
  <1>5. docs'[u] = (IF m.type = "close" THEN Missing ELSE m.text)
        /\ \A v \in Uris \ {u} : docs'[v] = docs[v]
    BY <1>4 DEF Disk
  <1>6. TrueText(u)' = new /\ Said(m, u)' = new /\ Tells(m, u)
    BY <1>5 DEF TrueText, Said, Tells
  <1>7. \A v \in Uris : ShapeKept(v)
    BY <1>1 DEF Stable, Loading, Shapes
  <1>8. \A v \in Uris \ {u} : ShapeKept(v)'
    <2> SUFFICES ASSUME NEW v \in Uris \ {u} PROVE ShapeKept(v)'
      OBVIOUS
    <2>1. ~Tells(m, v)
      BY DEF Tells
    <2> QED  BY <1>1, <1>2, <1>3, <1>5, <1>7, <2>1, OthersKeepShape
  <1>9. (IF old.inc # new.inc THEN Settled /\ pausing' ELSE TRUE)
    BY DEF CalmEnvironment, Edits
  <1>10. Phase'
    <2>1. CASE old.inc = new.inc
      <3>1. Shape(u)' = Shape(u) /\ vfs' = vfs
        BY <1>1, <1>2, UnitsStillFit DEF server
      <3>2. new.inc = Shape(u)
        BY <1>7, <2>1 DEF ShapeKept
      <3>3. \A x : (Tells(x, u)' <=> Tells(x, u)) /\ Said(x, u)' = Said(x, u)
        BY DEF Tells, Said
      <3>4. ShapeKept(u)'
        BY <1>3, <1>6, <1>7, <3>1, <3>2, <3>3 DEF ShapeKept
      <3>5. Shapes'
        BY <1>8, <3>4 DEF Shapes
      <3> QED  BY <1>1, <1>2, <3>5, ShapesKeepPhase
    <2>2. CASE old.inc # new.inc
      <3>1. Settled /\ pausing' /\ Stable
        BY <1>1, <1>9, <2>2
      <3>2. tasks' = <<>> /\ ~dirty' /\ unseen' = {} /\ inbox = <<>>
        BY <3>1 DEF Settled, server, loop, units
      <3>3. AllFit' /\ Indexed'
        BY <1>1, <1>2, <3>1, UnitsStillFit DEF Stable
      <3>4. m.type = "open" \/ HoldsDocument(vfs', u)
        <4>1. docs[u] # Missing => HoldsDocument(vfs, u)
          BY <3>2, DocumentsHeld, EntryFacts DEF HoldsDocument
        <4>2. vfs' = vfs
          BY DEF server
        <4> QED  BY <4>1, <4>2
      <3>5. inbox' = <<m>> /\ m \in ToSet(inbox')
        BY <1>3, <3>2
      <3>6. OnItsWay(u)'
        <4>1. Tells(m, u)'
          BY <1>6 DEF Tells
        <4>2. IF m.type = "close" THEN docs'[u] = Missing ELSE docs'[u] = m.text /\ docs'[u] # Missing
          BY <1>5
        <4> QED  BY <3>2, <3>4, <3>5, <4>1, <4>2 DEF OnItsWay
      <3>7. Edited(u)'
        BY <1>8, <3>1, <3>2, <3>3, <3>6 DEF Edited
      <3> QED  BY <3>7 DEF Phase
    <2> QED  BY <2>1, <2>2
  <1> QED  BY <1>1, <1>2, <1>3, <1>10, EnvironmentLeaves

\* Messages about no document.
LEMMA CalmAsks ==
    ASSUME CalmEnvironment, Known, Known', Calm,
           NEW m, m.type \in {"query", "reload", "shutdown"}, Acts, Sends(m),
           UNCHANGED <<disk, config, docs, unseen, pausing, server>>
    PROVE  Calm'
  <1>1. status = "running" /\ (Stable \/ Loading) /\ Present
    BY EditorMoves DEF Acts, Calm
  <1>2. \A v \in Uris : disk'[v] # Missing
    BY <1>1 DEF Present
  <1>3. ToSet(inbox') = ToSet(inbox) \cup {m}
    BY SentFacts
  <1>4. \A v \in Uris : ShapeKept(v)
    BY <1>1 DEF Stable, Loading, Shapes
  <1>5. \A v \in Uris : ~Tells(m, v)
    BY DEF Tells
  <1>6. Shapes'
    BY <1>1, <1>2, <1>3, <1>4, <1>5, OthersKeepShape DEF Shapes
  <1> QED  BY <1>1, <1>2, <1>3, <1>6, ShapesKeepPhase, EnvironmentLeaves

\* Another config.
LEMMA CalmConfig ==
    ASSUME CalmEnvironment, Known, Known', Calm, NEW c, ConfigChanges(c) PROVE Calm'
  <1>1. Acts /\ UNCHANGED <<disk, docs, inbox, server>> /\ unseen' = unseen \cup {ConfigUri}
    BY DEF ConfigChanges
  <1>2. status = "running" /\ (Stable \/ Loading) /\ Present
    BY <1>1, EditorMoves DEF Acts, Calm
  <1>3. \A v \in Uris : disk'[v] # Missing
    BY <1>1, <1>2 DEF Present
  <1>4. \A v \in Uris : ShapeKept(v)
    BY <1>2 DEF Stable, Loading, Shapes
  <1>5. Shapes'
    BY <1>1, <1>2, <1>3, <1>4, OthersKeepShape DEF Shapes
  <1> QED  BY <1>1, <1>2, <1>3, <1>5, ShapesKeepPhase, EnvironmentLeaves

\* A file changes on disk.
LEMMA CalmDisk ==
    ASSUME CalmEnvironment, Known, Known', Calm, NEW u \in Uris, NEW t \in Text, DiskChanges(u, t)
    PROVE  Calm'
  <1>1. /\ Acts /\ Edits(disk[u], t) /\ disk' = [disk EXCEPT ![u] = t]
        /\ UNCHANGED <<config, docs, inbox, server>>
    BY DEF DiskChanges
  <1>2. /\ status = "running" /\ (Stable \/ Loading) /\ (Settled => Stable)
        /\ Present
    BY <1>1, EditorMoves DEF Acts, Calm
  <1>3. unseen' = unseen \cup {u} /\ disk[u] # Missing /\ t # Missing
    BY <1>2, UrisAssumption DEF DiskChanges, Present
  <1>4. disk \in Disk /\ vfs \in [Uris -> Entry]
    BY DEF Known, IInv, DocTypes
  <1>5. /\ disk'[u] = t /\ \A v \in Uris \ {u} : disk'[v] = disk[v]
        /\ \A v \in Uris : disk'[v] # Missing
    BY <1>1, <1>2, <1>3, <1>4 DEF Disk, Present
  <1>6. \A v \in Uris : ShapeKept(v)
    BY <1>2 DEF Stable, Loading, Shapes
  <1>7. \A v \in Uris \ {u} : ShapeKept(v)'
    BY <1>1, <1>2, <1>5, <1>6, OthersKeepShape
  <1>8. (IF disk[u].inc # t.inc THEN Settled /\ pausing' ELSE TRUE)
    BY <1>1, <1>3 DEF CalmEnvironment, Edits
  <1>9. vfs' = vfs /\ VfsTexts'[u] = (IF vfs[u] # NoFile THEN vfs[u].text ELSE t)
        /\ VfsTexts[u] = (IF vfs[u] # NoFile THEN vfs[u].text ELSE disk[u])
    BY <1>1, <1>5, TextsAre DEF Contents, server
  <1>10. \A x : (Tells(x, u)' <=> Tells(x, u))
                /\ Said(x, u)' = IF x.type = "close" THEN t ELSE x.text
    BY <1>5 DEF Tells, Said
  <1>11. TrueText(u)' = IF docs[u] = Missing THEN t ELSE docs[u]
    BY <1>1, <1>5 DEF TrueText
  <1>12. Phase'
    <2>1. CASE disk[u].inc = t.inc
      <3>1. Shape(u)' = Shape(u)
        BY <1>9, <2>1 DEF Shape
      <3>2. ShapeKept(u)'
        <4>1. \A x : Said(x, u)'.inc = Said(x, u).inc
          BY <1>10, <2>1 DEF Said
        <4>2. TrueText(u)'.inc = TrueText(u).inc
          BY <1>11, <2>1 DEF TrueText
        <4> QED  BY <1>1, <1>5, <1>6, <1>9, <1>10, <2>1, <3>1, <4>1, <4>2 DEF ShapeKept
      <3>3. Shapes'
        BY <1>7, <3>2 DEF Shapes
      <3> QED  BY <1>1, <1>2, <1>5, <3>3, ShapesKeepPhase
    <2>2. CASE disk[u].inc # t.inc
      <3>1. Settled /\ pausing' /\ Stable
        BY <1>2, <1>8, <2>2
      <3>2. tasks' = <<>> /\ ~dirty' /\ unseen' = {u} /\ inbox' = <<>> /\ inbox = <<>>
        BY <1>1, <1>3, <3>1 DEF Settled, server, loop, units
      <3>3. AllFit' /\ Indexed'
        BY <1>1, <1>2, <1>5, <3>1, UnitsStillFit DEF Stable
      <3>4. CASE docs[u] = Missing
        <4>1. ~HoldsDocument(vfs', u)
          BY <1>9, <3>2, <3>4, DocumentsHeld
        <4>2. OnItsWay(u)'
          BY <1>1, <3>2, <3>4, <4>1 DEF OnItsWay
        <4>3. Edited(u)'
          BY <1>7, <3>1, <3>2, <3>3, <4>2 DEF Edited
        <4> QED  BY <4>3 DEF Phase
      <3>5. CASE docs[u] # Missing
        <4>1. vfs[u] # NoFile /\ HoldsDocument(vfs, u)
          BY <3>2, <3>5, DocumentsHeld, EntryFacts DEF HoldsDocument
        <4>2. Shape(u)' = Shape(u) /\ TrueText(u)' = TrueText(u)
          BY <1>9, <1>11, <3>5, <4>1 DEF Shape, TrueText
        <4>3. ToSet(inbox') = {}
          BY <3>2, MembersFacts, EmptySeq
        <4>4. ShapeKept(u)'
          BY <1>6, <1>9, <4>1, <4>2, <4>3 DEF ShapeKept
        <4>5. Shapes'
          BY <1>7, <4>4 DEF Shapes
        <4> QED  BY <1>1, <1>2, <1>5, <4>5, ShapesKeepPhase
      <3> QED  BY <3>4, <3>5
    <2> QED  BY <2>1, <2>2
  <1> QED  BY <1>1, <1>2, <1>3, <1>5, <1>12, EnvironmentLeaves

\* The watcher reports one file.
LEMMA WatcherOne ==
    ASSUME CalmEnvironment, Known, Watcher
    PROVE  /\ status = "running"
           /\ \E c \in unseen \cap (Uris \cup {ConfigUri}) :
                 /\ unseen' = unseen \ {c}
                 /\ ToSet(inbox') = ToSet(inbox) \cup {[type |-> "watched", uris |-> <<c>>]}
                 /\ inbox = <<>> => inbox' = <<[type |-> "watched", uris |-> <<c>>]>>
           /\ UNCHANGED <<disk, config, docs, pausing, server>>
  <1>1. PICK S \in (SUBSET unseen) \ {{}} : WatcherReports(S)
    BY DEF Watcher
  <1>2. /\ status = "running" /\ Cardinality(S) = 1
        /\ \E order \in SetToSeqs(S) : Sends([type |-> "watched", uris |-> order])
        /\ unseen' = unseen \ S
        /\ UNCHANGED <<disk, config, docs, events, pausing, server>>
    BY <1>1 DEF WatcherReports, CalmEnvironment
  <1>3. PICK c : S = {c}
    <2>1. IsFiniteSet(S)
      <3>1. unseen \subseteq Uris \cup {ConfigUri}
        BY DEF Known, Typed
      <3>2. IsFiniteSet(Uris \cup {ConfigUri})
        BY UrisAssumption, FS_Singleton, FS_Union
      <3> QED  BY <3>1, <3>2, FS_Subset
    <2> QED  BY <1>2, <2>1, FS_Singleton
  <1>4. c \in unseen /\ c \in Uris \cup {ConfigUri}
    BY <1>3 DEF Known, Typed
  <1> DEFINE m == [type |-> "watched", uris |-> <<c>>]
  <1>5. Sends(m)
    <2>1. PICK order \in SetToSeqs(S) : Sends([type |-> "watched", uris |-> order])
      BY <1>2
    <2>2. order = <<c>>
      <3>1. order \in [1..1 -> {c}]
        BY <1>2, <1>3 DEF SetToSeqs
      <3>2. order = [i \in 1..1 |-> c]
        BY <3>1
      <3>3. [i \in 1..1 |-> c] = <<c>>
        OBVIOUS
      <3> QED  BY <3>2, <3>3
    <2> QED  BY <2>1, <2>2
  <1>6. /\ ToSet(inbox') = ToSet(inbox) \cup {m}
        /\ inbox = <<>> => inbox' = <<m>>
    BY <1>5, SentFacts
  <1> QED  BY <1>2, <1>3, <1>4, <1>6

\* The report of the watcher keeps the phase, and brings the edit to the server.
LEMMA CalmWatcher ==
    ASSUME CalmEnvironment, Known, Known', Calm, Watcher PROVE Calm'
  <1>1. PICK c \in unseen \cap (Uris \cup {ConfigUri}) :
           /\ unseen' = unseen \ {c}
           /\ ToSet(inbox') = ToSet(inbox) \cup {[type |-> "watched", uris |-> <<c>>]}
           /\ inbox = <<>> => inbox' = <<[type |-> "watched", uris |-> <<c>>]>>
    BY WatcherOne
  <1>2. status = "running" /\ UNCHANGED <<disk, config, docs, pausing, server>>
    BY WatcherOne
  <1>4. c \in unseen /\ c \in Uris \cup {ConfigUri}
    BY <1>1
  <1> DEFINE m == [type |-> "watched", uris |-> <<c>>]
  <1>6. /\ ToSet(inbox') = ToSet(inbox) \cup {m}
        /\ inbox = <<>> => inbox' = <<m>>
    BY <1>1
  <1>7. m.type = "watched" /\ m.uris = <<c>>
    OBVIOUS
  <1>8. Present /\ Phase /\ \A v \in Uris : disk'[v] # Missing
    BY <1>2 DEF Calm, Present
  <1>9. \A v \in Uris : ShapeKept(v) => ShapeKept(v)'
    <2> SUFFICES ASSUME NEW v \in Uris, ShapeKept(v) PROVE ShapeKept(v)'
      OBVIOUS
    <2>1. ~Tells(m, v)
      BY DEF Tells
    <2> HIDE DEF m
    <2> QED  BY <1>2, <1>6, <1>8, <2>1, OthersKeepShape
  <1>10. ~Rebuilding /\ ~Reloading /\ \A v \in Uris : ~Updating(v)
    BY <1>4 DEF Rebuilding, Reloading, Updating, Quiet
  <1>11. Phase'
    <2>1. CASE Stable \/ Loading
      <3>1. Shapes'
        BY <1>9, <2>1 DEF Stable, Loading, Shapes
      <3> QED  BY <1>2, <1>8, <2>1, <3>1, ShapesKeepPhase
    <2>2. ASSUME NEW u \in Uris, Edited(u) PROVE Edited(u)'
      <3>1. docs[u] = Missing /\ ~HoldsDocument(vfs, u) /\ inbox = <<>> /\ unseen = {u}
        BY <1>4, <2>2 DEF Edited, OnItsWay
      <3>2. c = u /\ unseen' = {} /\ inbox' = <<m>>
        BY <1>1, <1>4, <1>6, <3>1
      <3>3. OnItsWay(u)'
        BY <1>2, <3>1, <3>2 DEF OnItsWay, server
      <3>4. AllFit' /\ Indexed'
        BY <1>2, <1>8, <2>2, UnitsStillFit DEF Edited
      <3>5. pausing' /\ tasks' = <<>> /\ ~dirty'
        BY <1>2, <2>2 DEF Edited, server, loop, units
      <3>6. \A v \in Uris \ {u} : ShapeKept(v)'
        BY <1>9, <2>2 DEF Edited
      <3> QED  BY <3>3, <3>4, <3>5, <3>6 DEF Edited
    <2> QED  BY <1>8, <1>10, <2>1, <2>2 DEF Phase
  <1>12. ConfigUri \in unseen \/ config' # config =>
               \/ ConfigUri \in unseen'
               \/ [type |-> "watched", uris |-> <<ConfigUri>>] \in ToSet(inbox')
    BY <1>1, <1>2, <1>6
  <1> HIDE DEF m
  <1> QED  BY <1>2, <1>4, <1>6, <1>7, <1>8, <1>11, <1>12, EnvironmentLeaves

\* What is known of the documents, the units and the types is inductive.
LEMMA KnownNext ==
    /\ Init => Known
    /\ Known /\ [Next]_vars => Known'
  <1>1. Init => Known
    <2> SUFFICES ASSUME Init PROVE Typed
      BY InvInit, UnitsInit DEF Known
    <2>1. tasks \in Seq(TaskData) /\ inbox \in Seq(Message)
      BY QueuedTypes, EmptySeq DEF Init
    <2> QED  BY <2>1 DEF Init, Typed
  <1>2. ASSUME Known, [Next]_vars PROVE Known'
    <2>1. IInv' /\ Units'
      BY <1>2, InvNext, UnitsNext DEF Known, IInv, DocTypes
    <2>2. Typed'
      BY <1>2, ReloadTyped, LoadsTyped, UpdateTyped, ReprocessTyped, AnalysesTyped,
         HandlersTyped, EnvironmentTyped, ResponseTyped DEF Known, Next, ServerStep
    <2> QED  BY <2>1, <2>2 DEF Known
  <1> QED  BY <1>1, <1>2

\* A server that starts is calm: it has nothing in its cache, and will load.
LEMMA CalmInit ==
    ASSUME CalmEnvironment, Init PROVE Calm
  <1>1. /\ disk = InitDisk /\ docs = [u \in Uris |-> Missing] /\ unseen = {}
        /\ inbox = <<>> /\ status = "running" /\ tasks = <<Task("ReloadWorkspace", 0)>>
        /\ vfs = EmptyVfs /\ ctx = EmptyMap /\ cache = [h \in {} |-> {}]
        /\ files = [u \in Uris |-> {}]
    BY DEF Init
  <1>2. \A u \in Uris : disk[u] # Missing
    BY <1>1 DEF CalmEnvironment
  <1>3. FilesOf(cache) = {} /\ Live(ctx) = {} /\ DOMAIN cache = {}
    BY <1>1, EmptyMapFacts DEF FilesOf, EmptyMap, Live
  <1>4. ToSet(inbox) = {}
    BY <1>1, MembersFacts, EmptySeq
  <1>5. tasks # <<>> /\ Tail(tasks) = <<>> /\ Head(tasks).type = "ReloadWorkspace"
    BY <1>1 DEF Task
  <1>6. Present /\ Single
    BY <1>2, <1>3, <1>4 DEF Present, Single
  <1>7. Queue /\ Current
    BY <1>5 DEF Queue, Reloads, Current, WillHear
  <1>8. Stable
    <2>1. ASSUME NEW u \in Uris PROVE ShapeKept(u)
      <3>1. VfsTexts[u] = disk[u]
        BY <1>1 DEF VfsTexts, Contents, EmptyVfs
      <3>2. TrueText(u) = disk[u]
        BY <1>1 DEF TrueText
      <3> QED  BY <1>4, <3>1, <3>2 DEF ShapeKept, Shape
    <2>2. AllFit /\ Indexed
      BY <1>1, <1>3 DEF AllFit, Indexed
    <2> QED  BY <2>1, <2>2 DEF Stable, Shapes
  <1> QED  BY <1>1, <1>6, <1>7, <1>8 DEF Calm, HandlesLead, Phase

\* The editor, its user, and the disk.
LEMMA CalmEditor ==
    ASSUME CalmEnvironment, Known, Known', Calm, EditorStep PROVE Calm'
  <1>1. \A u \in Uris : TextsOf[u] \subseteq Text /\ Missing \notin Text /\ disk[u] # Missing
                        /\ disk[u] \in Text \cup {Missing} /\ docs[u] \in Text \cup {Missing}
    BY EnvironmentAssumption, UrisAssumption DEF Calm, Present, Known, IInv, DocTypes, Disk
  <1>2. ASSUME NEW u \in Uris, NEW t \in TextsOf[u], EditorOpens(u, t) PROVE Calm'
    <2>1. t \in Text /\ t # Missing /\ disk[u] # Missing
      BY <1>1
    <2>2. TrueText(u) = disk[u]
      BY <1>2 DEF EditorOpens, TrueText
    <2>3. /\ Acts /\ Edits(disk[u], t) /\ docs' = [docs EXCEPT ![u] = t]
          /\ Sends([type |-> "open", uri |-> u, text |-> t])
          /\ UNCHANGED <<disk, config, unseen, server>>
      BY <1>2 DEF EditorOpens
    <2> DEFINE m == [type |-> "open", uri |-> u, text |-> t]
    <2>4. m.type = "open" /\ m.uri = u /\ m.text = t /\ Sends(m)
      BY <2>3
    <2> HIDE DEF m
    <2> QED  BY <2>1, <2>2, <2>3, <2>4, CalmEdits
  <1>3. ASSUME NEW u \in Uris, NEW t \in TextsOf[u], EditorChanges(u, t) PROVE Calm'
    <2>1. t \in Text /\ t # Missing /\ docs[u] # Missing
      BY <1>1, <1>3 DEF EditorChanges
    <2>2. TrueText(u) = docs[u]
      BY <2>1 DEF TrueText
    <2>3. /\ Acts /\ Edits(docs[u], t) /\ docs' = [docs EXCEPT ![u] = t]
          /\ Sends([type |-> "change", uri |-> u, text |-> t])
          /\ UNCHANGED <<disk, config, unseen, server>>
      BY <1>3 DEF EditorChanges
    <2> DEFINE m == [type |-> "change", uri |-> u, text |-> t]
    <2>4. m.type = "change" /\ m.uri = u /\ m.text = t /\ Sends(m)
      BY <2>3
    <2> HIDE DEF m
    <2> QED  BY <2>1, <2>2, <2>3, <2>4, CalmEdits
  <1>4. ASSUME NEW u \in Uris, EditorCloses(u) PROVE Calm'
    <2>1. disk[u] \in Text /\ disk[u] # Missing /\ docs[u] # Missing
      BY <1>1, <1>4 DEF EditorCloses
    <2>2. TrueText(u) = docs[u]
      BY <2>1 DEF TrueText
    <2>3. /\ Acts /\ Edits(docs[u], disk[u]) /\ docs' = [docs EXCEPT ![u] = Missing]
          /\ Sends([type |-> "close", uri |-> u])
          /\ UNCHANGED <<disk, config, unseen, server>>
      BY <1>4 DEF EditorCloses
    <2> DEFINE m == [type |-> "close", uri |-> u]
    <2>4. m.type = "close" /\ m.uri = u /\ Sends(m)
      BY <2>3
    <2> HIDE DEF m
    <2> QED  BY <2>1, <2>2, <2>3, <2>4, CalmEdits
  <1>5. ASSUME NEW m, m.type \in {"query", "reload", "shutdown"}, Acts, Sends(m),
               UNCHANGED <<disk, config, docs, unseen, pausing, server>>
        PROVE  Calm'
    BY <1>5, CalmAsks
  <1>6. ASSUME NEW u \in Uris, EditorAsks(u) PROVE Calm'
    <2> DEFINE m == [type |-> "query", uri |-> u]
    <2>1. m.type = "query" /\ Sends(m) /\ Acts
          /\ UNCHANGED <<disk, config, docs, unseen, pausing, server>>
      BY <1>6 DEF EditorAsks
    <2> HIDE DEF m
    <2> QED  BY <2>1, <1>5
  <1>7. CASE EditorReloads
    <2> DEFINE m == [type |-> "reload", id |-> events']
    <2>1. m.type = "reload" /\ Sends(m) /\ Acts
          /\ UNCHANGED <<disk, config, docs, unseen, pausing, server>>
      BY <1>7 DEF EditorReloads
    <2> HIDE DEF m
    <2> QED  BY <2>1, <1>5
  <1>8. CASE EditorShutsDown
    <2> DEFINE m == [type |-> "shutdown"]
    <2>1. m.type = "shutdown" /\ Sends(m) /\ Acts
          /\ UNCHANGED <<disk, config, docs, unseen, pausing, server>>
      BY <1>8 DEF EditorShutsDown
    <2> HIDE DEF m
    <2> QED  BY <2>1, <1>5
  <1>9. ASSUME NEW u \in Uris, NEW t \in TextsOf[u], DiskChanges(u, t) PROVE Calm'
    BY <1>1, <1>9, CalmDisk
  <1>10. ASSUME NEW u \in Uris, DiskDeletes(u) PROVE Calm'
    BY <1>10 DEF DiskDeletes, CalmEnvironment
  <1>11. ASSUME NEW c \in Configs, ConfigChanges(c) PROVE Calm'
    BY <1>11, CalmConfig
  <1> QED  BY <1>2, <1>3, <1>4, <1>6, <1>7, <1>8, <1>9, <1>10, <1>11 DEF EditorStep

\* Every step keeps the invariant of a calm environment.
LEMMA CalmNext ==
    ASSUME CalmEnvironment, Known, Known', Calm, [Next]_vars PROVE Calm'
  <1>1. CASE ReloadWorkspace \/ LoadFullWorkspace \/ LoadLocsFile \/ Response
             \/ Update \/ Reprocess \/ Analysis \/ AnalysisTimer
    BY <1>1, CalmReload, CalmLoads, CalmResponse, CalmUpdate, CalmReprocess, CalmAnalysis,
       CalmTimer
  <1>2. CASE handle_did_open_text_document \/ handle_did_change_text_document
             \/ handle_did_close_text_document \/ handle_did_change_watched_file
             \/ query \/ reload_request \/ shutdown
    BY <1>2, CalmDocuments, CalmWatched, CalmRequests
  <1>3. CASE EditorStep \/ Watcher
    BY <1>3, CalmEditor, CalmWatcher
  <1>4. CASE UNCHANGED vars
    <2>1. UNCHANGED <<disk, config, docs, unseen, pausing, inbox, status, tasks, vfs,
                      workspace, ctx, cache, files, dirty>>
      BY <1>4 DEF vars, world, loop, units
    <2>2. \A u : Shape(u)' = Shape(u)
      BY <2>1 DEF Shape, VfsTexts
    <2>3. (Present' <=> Present) /\ (Single' <=> Single) /\ (Queue' <=> Queue)
          /\ (Current' <=> Current) /\ (HandlesLead' <=> HandlesLead)
      BY <2>1 DEF Present, FilesOf, UriOf, Live, Single, Queue, Reloads, Answers, Reprocesses,
                  Current, WillHear, HandlesLead
    <2>4. VfsTexts' = VfsTexts
      BY <2>1 DEF VfsTexts
    <2>5. (AllFit' <=> AllFit) /\ (Indexed' <=> Indexed) /\ \A r : Fit(r)' <=> Fit(r)
      BY <2>1, <2>4, UnitsStay
    <2>6. \A u : ShapeKept(u)' <=> ShapeKept(u)
      BY <2>1, <2>2 DEF ShapeKept, TrueText, Said, Tells
    <2>7. (Shapes' <=> Shapes) /\ (Quiet' <=> Quiet) /\ \A r, u : HasFile(r, u)' <=> HasFile(r, u)
      BY <2>1, <2>4, <2>6, UnitsStay DEF Shapes, Quiet
    <2>8. (Stable' <=> Stable) /\ (Loading' <=> Loading) /\ (Rebuilding' <=> Rebuilding)
          /\ (Reloading' <=> Reloading)
      BY <2>1, <2>5, <2>6, <2>7 DEF Stable, Loading, Rebuilding, Reloading, Reloads, Answers,
                                    Reprocesses
    <2>9. \A u \in Uris : (Edited(u)' <=> Edited(u)) /\ (Updating(u)' <=> Updating(u))
      BY <2>1, <2>5, <2>6, <2>7 DEF Edited, Updating, OnItsWay, Tells
    <2> QED  BY <2>1, <2>3, <2>8, <2>9 DEF Calm, Phase
  <1> QED  BY <1>1, <1>2, <1>3, <1>4 DEF Next, ServerStep

\* While the analysis is not known to be out of date the nodes it holds on to
\* are there.
NodesKept ==
    /\ status = "node" => dirty
    /\ status = "running" /\ ~dirty => analysis \subseteq Live(nodes)

\* Nodes are only freed by Reprocess, which marks the analysis, and by a load,
\* which drops it.
LEMMA NodesKeptNext ==
    ASSUME CalmEnvironment, Known, Calm, NodesKept, [Next]_vars PROVE NodesKept'
  <1>1. CASE LoadFullWorkspace \/ LoadLocsFile
    <2>1. status = "running" /\ status' = status
      BY <1>1 DEF LoadFullWorkspace, LoadLocsFile, Load, RunsTask
    <2>2. analysis' = {} \/ UNCHANGED <<nodes, analysis, dirty>>
      BY <1>1, LoadsNodes DEF Known
    <2> QED  BY <2>1, <2>2 DEF NodesKept
  <1>2. CASE Reprocess
    <2>1. status' # "node"
      BY <1>2 DEF Reprocess, RunsTask, Panic
    <2>2. status' = "running" => dirty'
      <3>1. ASSUME NEW h \in DOMAIN cache \cap Live(ctx), ReprocessUnit(h) PROVE dirty' = TRUE
        <4>1. h \in Live(ctx) /\ \A x \in Live(ctx) : UriOf(x) \in Uris
          BY PresentFacts DEF Calm
        <4>2. Readable(vfs, disk, ctx.store[h].uri)
          BY <4>1 DEF Calm, Present, Readable, UriOf
        <4> QED  BY <3>1, <4>2 DEF ReprocessUnit
      <3>2. Panic("task") => status' # "running"
        BY DEF Panic
      <3> QED  BY <1>2, <3>1, <3>2 DEF Reprocess
    <2> QED  BY <2>1, <2>2 DEF NodesKept
  <1>3. CASE Analysis \/ AnalysisTimer
    <2>1. status = "running"
      BY <1>3 DEF Analysis, AnalysisTimer, RunsTask
    <2>2. \/ status' = status /\ nodes' = nodes /\ analysis' = Linked
          \/ status' = "task"
      BY <1>3 DEF Analysis, AnalysisTimer, Analyse, Panic
    <2>3. Linked \subseteq Live(nodes)
      BY LinkedLive
    <2> QED  BY <2>1, <2>2, <2>3 DEF NodesKept
  <1>4. CASE \/ ReloadWorkspace \/ Response \/ Update \/ EditorStep \/ Watcher
             \/ handle_did_open_text_document \/ handle_did_change_text_document
             \/ handle_did_close_text_document \/ handle_did_change_watched_file
             \/ query \/ reload_request \/ shutdown \/ UNCHANGED vars
    <2>1. UNCHANGED <<nodes, analysis, dirty>>
      BY <1>4, NodesLeft
    <2>2. CASE query
      <3>1. status = "running"
        BY <2>2 DEF query, Receives
      <3>2. \/ status' \in {"running", "query"}
            \/ status' = "node" /\ ~(analysis \subseteq Live(nodes))
        BY <2>2, <3>1 DEF query, Panic
      <3> QED  BY <2>1, <3>1, <3>2 DEF NodesKept
    <2>3. CASE ~query
      <3>1. status' = status \/ status' \in {"task", "stopped"}
        <4>1. CASE ReloadWorkspace \/ Response \/ Update
          BY <4>1 DEF ReloadWorkspace, Response, Update, Panic
        <4>2. CASE \/ handle_did_open_text_document \/ handle_did_change_text_document
                   \/ handle_did_close_text_document \/ handle_did_change_watched_file
                   \/ reload_request \/ shutdown
          BY <4>2 DEF handle_did_open_text_document, handle_did_change_text_document,
                 handle_did_close_text_document, handle_did_change_watched_file,
                 reload_request, shutdown
        <4>3. CASE EditorStep \/ Watcher \/ UNCHANGED vars
          BY <4>3 DEF EditorStep, Watcher, EditorOpens, EditorChanges, EditorCloses,
                 EditorAsks, EditorReloads, EditorShutsDown, DiskChanges, DiskDeletes,
                 ConfigChanges, WatcherReports, server, vars, loop
        <4> QED  BY <1>4, <2>3, <4>1, <4>2, <4>3
      <3> QED  BY <2>1, <3>1 DEF NodesKept
    <2> QED  BY <2>2, <2>3
  <1> QED  BY <1>1, <1>2, <1>3, <1>4 DEF Next, ServerStep

\* In a calm environment no task panics, and no request does where it looks up
\* its document and its unit.  The panic that remains is that of a request which
\* follows a node of an analysis known to be out of date.
THEOREM CalmPanicsOnStaleNodes ==
    ASSUME CalmEnvironment PROVE Spec => []PanicsOnlyOnStaleNodes
  <1> DEFINE All == Known /\ Calm /\ NodesKept
  <1>1. Init => All
    <2>1. Init => NodesKept
      BY DEF Init, NodesKept
    <2> QED  BY <2>1, KnownNext, CalmInit
  <1>2. All /\ [Next]_vars => All'
    BY KnownNext, CalmNext, NodesKeptNext
  <1>3. All => PanicsOnlyOnStaleNodes
    BY DEF Calm, HandlesLead, NodesKept, PanicsOnlyOnStaleNodes
  <1> QED  BY <1>1, <1>2, <1>3, PTL DEF Spec

\* In a calm environment the index of the last analysis leads to the roots of
\* cached units whenever the editor is not waiting for an edit of an include.
THEOREM CalmIndexReachesRoots ==
    ASSUME CalmEnvironment PROVE Spec => []IndexReachesCachedRoots
  <1>1. Init => Known /\ Calm
    BY KnownNext, CalmInit
  <1>2. Known /\ Calm /\ [Next]_vars => (Known /\ Calm)'
    BY KnownNext, CalmNext
  <1>3. Known /\ Calm => IndexReachesCachedRoots
    <2> SUFFICES ASSUME Known, Calm, status = "running", pausing => Settled,
                        NEW u \in Uris, NEW h \in files[u]
                 PROVE  h \in Live(ctx) /\ parent_file(ctx, h) \in DOMAIN cache
      BY DEF IndexReachesCachedRoots
    <2>1. Present /\ (Stable \/ Loading)
      BY EditorMoves DEF Calm
    <2>2. ~Loading
      BY DEF Loading
    <2>3. Indexed
      BY <2>1, <2>2 DEF Stable
    <2> QED  BY <2>1, <2>3, IndexFindsRoots
  <1> QED  BY <1>1, <1>2, <1>3, PTL DEF Spec

\* The diagnostics by who reported them, and the texts of the files of the units.
OfLocs == {d \in diagnostics : d.owner = "locs"}
OfAnalysis == {d \in diagnostics : d.owner = "analysis"}
TextsHeld == {[uri |-> UriOf(h), text |-> ctx.store[h].text] : h \in CachedFiles}

\* The unit r is what the texts call for: its files, what they say, and what is
\* reported of them.
Fresh(r) ==
    /\ Fit(r)
    /\ \A h \in cache[r] : ctx.store[h].text = VfsTexts[UriOf(h)]
    /\ Reported(OfUnit(diagnostics, r))
          = ForestErrors(IncludeForest({UriOf(r)}, VfsTexts), VfsTexts)

\* A task in the queue will build it again.
Awaits(r) ==
    \/ \E t \in ToSet(tasks) : t.type = "Reprocess" /\ t.arg = r
    \/ \E u \in Uris : tasks = <<Task("Update", u)>> /\ HasFile(r, u)

\* There is a unit for each root, and no other.
Rooted ==
    /\ {UriOf(r) : r \in DOMAIN cache} = Roots(workspace, VfsTexts, disk)
    /\ Reported(OfLocs) = IF workspace = "locs" THEN LocsErrors(VfsTexts) ELSE {}

LocsChanged == workspace = "locs" /\ tasks = <<Task("Update", LocsUri)>>

\* The workspace is about to be loaded, or its units are what they should be but
\* for those that tasks will build again.
LoadPending ==
    /\ tasks # <<>>
    /\ Head(tasks).type \in {"ReloadWorkspace", "LoadLocsFile", "LoadFullWorkspace"}
LocsRead == workspace = "locs" => vfs[LocsUri] # NoFile
Faithful ==
    /\ LocsRead
    /\ Rooted \/ LocsChanged
    /\ \A r \in DOMAIN cache : Fresh(r) \/ Awaits(r)

\* The editor shows the diagnostics there are, or an analysis will push them.
Pushed ==
    /\ \A u \in Uris : shown[u] = ErrorsAt(diagnostics, u)
    /\ Reported(OfAnalysis) = SemanticErrors(TextsHeld)
AnalysisPending == dirty \/ \E t \in ToSet(tasks) : t.type = "Analysis"

\* Where the server's copy of a file is not what is on disk, the watcher knows.
Behind(u) == vfs[u].kind = "fs" /\ vfs[u].text # disk[u]
Noticed(u) == u \in unseen \/ [type |-> "watched", uris |-> <<u>>] \in ToSet(inbox)
Seen == \A u \in Uris : Behind(u) => Noticed(u)

Truth ==
    /\ \A u \in Uris : shown[u] # {} => u \in published
    /\ \A d \in diagnostics : d.owner = "unit" => d.unit \in DOMAIN cache
    /\ Seen
    /\ Pushed \/ AnalysisPending
    /\ LoadPending \/ workspace = "none" \/ Faithful

-----------------------------------------------------------------------------
\* What is reported of files depends on their texts alone.
LEMMA SameErrors ==
    ASSUME NEW a \in Disk, NEW b \in Disk,
           \A u \in Uris : a[u] # Missing /\ b[u] # Missing,
           NEW F \in SUBSET Paths, \A p \in F : a[Last(p)] = b[Last(p)]
    PROVE  ForestErrors(F, a) = ForestErrors(F, b)
  <1>1. ASSUME NEW p \in F PROVE UnitErrors(p, a) = UnitErrors(p, b)
    <2>1. Last(p) \in Uris /\ a[Last(p)] = b[Last(p)]
      BY PathFacts
    <2>2. a[Last(p)] \in Text
      BY <2>1 DEF Disk
    <2>3. a[Last(p)].inc \subseteq Uris
      BY <2>2 DEF Text
    <2>4. \A w \in a[Last(p)].inc : a[w] # Missing /\ b[w] # Missing
      BY <2>3
    <2>5. {w \in a[Last(p)].inc : w \in ToSet(p) \/ a[w] = Missing}
            = {w \in a[Last(p)].inc : w \in ToSet(p) \/ b[w] = Missing}
      BY <2>4
    <2> QED  BY <2>1, <2>5 DEF UnitErrors
  <1> QED  BY <1>1 DEF ForestErrors

\* A unit stays what the texts call for while the texts of its files, and what
\* is reported of it, stay.
LEMMA StillFresh ==
    ASSUME Known, Present, disk' \in Disk, vfs' \in [Uris -> Entry],
           \A u \in Uris : disk'[u] # Missing,
           NEW r \in DOMAIN cache, Fresh(r), cache'[r] = cache[r],
           \A h \in cache[r] : /\ h \in Live(ctx') /\ ctx'.store[h] = ctx.store[h]
                               /\ VfsTexts'[UriOf(h)] = VfsTexts[UriOf(h)],
           Reported(OfUnit(diagnostics', r)) = Reported(OfUnit(diagnostics, r))
    PROVE  Fresh(r)'
  <1> DEFINE F == IncludeForest({UriOf(r)}, VfsTexts)
  <1>1. /\ VfsTexts \in Disk /\ UnitsOf(ctx, cache)
        /\ \A u \in Uris : VfsTexts[u] # Missing
        /\ \A h \in Live(ctx) : UriOf(h) \in Uris
        /\ VfsTexts' \in Disk
    <2>1. VfsTexts' \in Disk
      BY VfsTextsFacts, ContentsFacts DEF VfsTexts, Disk
    <2> QED  BY <2>1, PresentFacts
  <1>2. \A u \in Uris : VfsTexts'[u] # Missing
    BY TextsAre, ContentsFacts
  <1>3. r \in cache[r] /\ UriOf(r)' = UriOf(r)
    BY <1>1 DEF UnitsOf, UriOf
  <1>4. F \in SUBSET Paths
    BY ForestFacts
  <1>5. UnitOf(ctx, r, cache[r], F)
    BY DEF Fresh, Fit
  <1> HIDE DEF F
  <1>6. {ctx.store[h].uri : h \in cache[r]} = {Last(p) : p \in F}
    BY <1>4, <1>5, UnitFacts
  <1>7. \A p \in F : VfsTexts[Last(p)] = VfsTexts'[Last(p)]
    BY <1>6 DEF UriOf
  <1>8. IncludeForest({UriOf(r)}, VfsTexts') = F
    BY <1>1, <1>2, <1>7, SameForest DEF F
  <1>9. ForestErrors(F, VfsTexts) = ForestErrors(F, VfsTexts')
    BY <1>1, <1>2, <1>4, <1>7, SameErrors
  <1>10. Fit(r)'
    <2>1. UnitOf(ctx', r, cache[r], F)
      BY <1>5, UnitKept
    <2> QED  BY <1>3, <1>8, <2>1 DEF Fit
  <1>11. \A h \in cache'[r] : ctx'.store[h].text = VfsTexts'[UriOf(h)']
    BY DEF Fresh, UriOf
  <1>12. Reported(OfUnit(diagnostics', r)) = ForestErrors(F, VfsTexts')
    BY <1>9 DEF Fresh, F
  <1> QED  BY <1>3, <1>8, <1>10, <1>11, <1>12 DEF Fresh

\* A diagnosis is what is reported of the files, of their symbols, and of the
\* locs file.
LEMMA DiagnosisParts ==
    ASSUME NEW kind, NEW texts, NEW d,
           NEW F, F = IncludeForest(Roots(kind, texts, d), texts)
    PROVE  Diagnosis(kind, texts, d) =
              ForestErrors(F, texts)
              \cup SemanticErrors({[uri |-> Last(p), text |-> texts[Last(p)]] : p \in F})
              \cup (IF kind = "locs" THEN LocsErrors(texts) ELSE {})
  BY DEF Diagnosis, ForestErrors

\* When all units are what the texts call for, what is reported is the diagnosis
\* of the workspace.
AllTrue == LocsRead /\ Rooted /\ \A r \in DOMAIN cache : Fresh(r)

\* Then the editor is told of a document what the diagnosis has to say of it.
LEMMA TruthTold ==
    ASSUME Known, Present, AllTrue, workspace # "none",
           \A d \in diagnostics : d.owner = "unit" => d.unit \in DOMAIN cache,
           Reported(OfAnalysis) = SemanticErrors(TextsHeld),
           NEW u \in Uris
    PROVE  ErrorsAt(diagnostics, u) = ErrorsAt(Diagnosis(workspace, VfsTexts, disk), u)
  <1> DEFINE R == Roots(workspace, VfsTexts, disk)
             G == IncludeForest(R, VfsTexts)
             T(r) == IncludeForest({UriOf(r)}, VfsTexts)
             Texts == {[uri |-> Last(p), text |-> VfsTexts[Last(p)]] : p \in G}
  <1>1. workspace \in {"locs", "full"} /\ diagnostics \subseteq DiagnosticData
    BY DEF Known, Typed
  <1>2. /\ \A r \in DOMAIN cache : UriOf(r) \in R
        /\ \A x \in R : \E r \in DOMAIN cache : x = UriOf(r)
    BY DEF AllTrue, Rooted
  <1>3. /\ \A r \in DOMAIN cache : \A p \in T(r) : p \in G
        /\ \A p \in G : \E r \in DOMAIN cache : p \in T(r)
    BY <1>2 DEF IncludeForest
  <1>4. \A r \in DOMAIN cache : T(r) \in SUBSET Paths
    BY ForestFacts
  <1>5. \A r \in DOMAIN cache :
           /\ Fit(r) /\ Reported(OfUnit(diagnostics, r)) = ForestErrors(T(r), VfsTexts)
           /\ \A h \in cache[r] : ctx.store[h].text = VfsTexts[UriOf(h)]
    BY DEF AllTrue, Fresh
  <1>6. \A r \in DOMAIN cache : {UriOf(h) : h \in cache[r]} = {Last(p) : p \in T(r)}
    <2> SUFFICES ASSUME NEW r \in DOMAIN cache
                 PROVE  {UriOf(h) : h \in cache[r]} = {Last(p) : p \in T(r)}
      OBVIOUS
    <2>1. UnitOf(ctx, r, cache[r], T(r))
      BY <1>5 DEF Fit
    <2>2. {ctx.store[h].uri : h \in cache[r]} = {Last(p) : p \in T(r)}
      BY <1>4, <2>1, UnitFacts
    <2> QED  BY <2>2 DEF UriOf
  <1> HIDE DEF R, G, T
  <1> DEFINE A == UNION {Reported(OfUnit(diagnostics, r)) : r \in DOMAIN cache}
  <1>7. A = ForestErrors(G, VfsTexts)
    BY <1>3, <1>5 DEF ForestErrors
  <1>8. TextsHeld = Texts
    <2>1. CachedFiles = UNION {cache[r] : r \in DOMAIN cache}
      BY DEF CachedFiles
    <2>2. ASSUME NEW x \in TextsHeld PROVE x \in Texts
      <3>1. PICK h \in CachedFiles : x = [uri |-> UriOf(h), text |-> ctx.store[h].text]
        BY DEF TextsHeld
      <3>2. PICK r \in DOMAIN cache : h \in cache[r]
        BY <2>1
      <3>3. PICK p \in T(r) : UriOf(h) = Last(p)
        BY <1>6, <3>2
      <3>4. p \in G /\ x = [uri |-> Last(p), text |-> VfsTexts[Last(p)]]
        BY <1>3, <1>5, <3>1, <3>2, <3>3
      <3> QED  BY <3>4
    <2>3. ASSUME NEW x \in Texts PROVE x \in TextsHeld
      <3>1. PICK p \in G : x = [uri |-> Last(p), text |-> VfsTexts[Last(p)]]
        OBVIOUS
      <3>2. PICK r \in DOMAIN cache : p \in T(r)
        BY <1>3
      <3>3. PICK h \in cache[r] : UriOf(h) = Last(p)
        BY <1>6, <3>2
      <3>4. h \in CachedFiles /\ x = [uri |-> UriOf(h), text |-> ctx.store[h].text]
        BY <1>5, <2>1, <3>1, <3>3
      <3> QED  BY <3>4 DEF TextsHeld
    <2> QED  BY <2>2, <2>3
  <1> HIDE DEF Texts
  <1>9. Reported(diagnostics) = A \cup Reported(OfAnalysis) \cup Reported(OfLocs)
    <2>1. \A d \in diagnostics : \/ \E r \in DOMAIN cache : d \in OfUnit(diagnostics, r)
                                 \/ d \in OfAnalysis \/ d \in OfLocs
      BY <1>1 DEF DiagnosticData, OfUnit, OfAnalysis, OfLocs
    <2>2. /\ OfAnalysis \subseteq diagnostics /\ OfLocs \subseteq diagnostics
          /\ \A r : OfUnit(diagnostics, r) \subseteq diagnostics
      BY DEF OfUnit, OfAnalysis, OfLocs
    <2>3. \A r \in DOMAIN cache : Reported(OfUnit(diagnostics, r)) \subseteq Reported(diagnostics)
      BY <2>2 DEF Reported
    <2>4. /\ Reported(OfAnalysis) \subseteq Reported(diagnostics)
          /\ Reported(OfLocs) \subseteq Reported(diagnostics)
      BY <2>2 DEF Reported
    <2>5. ASSUME NEW x \in Reported(diagnostics)
          PROVE  \/ \E r \in DOMAIN cache : x \in Reported(OfUnit(diagnostics, r))
                 \/ x \in Reported(OfAnalysis) \/ x \in Reported(OfLocs)
      <3>1. PICK d \in diagnostics : x = [uri |-> d.uri, error |-> d.error]
        BY DEF Reported
      <3>2. \A S : d \in S => x \in Reported(S)
        BY <3>1 DEF Reported
      <3> QED  BY <2>1, <3>2
    <2>6. A \subseteq Reported(diagnostics)
      BY <2>3
    <2>7. \A r \in DOMAIN cache : Reported(OfUnit(diagnostics, r)) \subseteq A
      OBVIOUS
    <2> HIDE DEF A
    <2> QED  BY <2>4, <2>5, <2>6, <2>7
  <1> HIDE DEF A
  <1>10. Diagnosis(workspace, VfsTexts, disk) = Reported(diagnostics)
    <2> DEFINE L == IF workspace = "locs" THEN LocsErrors(VfsTexts) ELSE {}
    <2>1. Diagnosis(workspace, VfsTexts, disk)
             = ForestErrors(G, VfsTexts) \cup SemanticErrors(Texts) \cup L
      BY DiagnosisParts DEF G, R, Texts
    <2>2. Reported(OfLocs) = L
      BY DEF AllTrue, Rooted
    <2> HIDE DEF L
    <2>3. Reported(OfAnalysis) = SemanticErrors(Texts)
      BY <1>8
    <2> QED  BY <1>7, <1>9, <2>1, <2>2, <2>3
  <1>11. ErrorsAt(diagnostics, u) = ErrorsAt(Reported(diagnostics), u)
    <2>1. \A d : LET e == [uri |-> d.uri, error |-> d.error]
                 IN  e.uri = d.uri /\ e.error = d.error
      OBVIOUS
    <2>2. \A d \in diagnostics : \E e \in Reported(diagnostics) : e.uri = d.uri /\ e.error = d.error
      BY <2>1 DEF Reported
    <2>3. \A e \in Reported(diagnostics) : \E d \in diagnostics : e.uri = d.uri /\ e.error = d.error
      BY <2>1 DEF Reported
    <2> QED  BY <2>2, <2>3 DEF ErrorsAt
  <1> QED  BY <1>10, <1>11

\* Nothing else is to be done about the units when no task, or only the end of a
\* reload, is left.
LEMMA NothingAwaits ==
    ASSUME Truth, workspace # "none",
           \/ tasks = <<>>
           \/ tasks \in Seq(TaskData) /\ tasks # <<>> /\ Answers(tasks)
    PROVE  AllTrue
  <1>1. \A t \in ToSet(tasks) : t.type \in {"Analysis", "Response"}
    <2>1. CASE tasks = <<>>
      <3>1. <<>> \in Seq(Nat)
        OBVIOUS
      <3> QED  BY <2>1, <3>1, MembersFacts
    <2>2. CASE Answers(tasks)
      BY <2>2 DEF Answers
    <2> QED  BY <2>1, <2>2
  <1>2. ~LoadPending /\ \A r : ~(\E t \in ToSet(tasks) : t.type = "Reprocess" /\ t.arg = r)
    BY <1>1, MembersFacts DEF LoadPending
  <1>3. \A u : tasks # <<Task("Update", u)>>
    <2> SUFFICES ASSUME NEW u, tasks = <<Task("Update", u)>> PROVE FALSE
      OBVIOUS
    <2>1. ToSet(tasks) = {Task("Update", u)}
      BY MembersFacts
    <2>2. Task("Update", u).type = "Update"
      BY DEF Task
    <2> QED  BY <1>1, <2>1, <2>2
  <1> QED  BY <1>2, <1>3 DEF Truth, Faithful, AllTrue, Awaits, LocsChanged

\* What the editor shows, and what is reported of whom, is left alone.
LEMMA TruthKept ==
    ASSUME Truth, UNCHANGED <<ctx, cache, diagnostics, published, shown>>, Seen',
           AnalysisPending => AnalysisPending',
           LoadPending' \/ workspace' = "none" \/ Faithful'
    PROVE  Truth'
  <1>1. /\ CachedFiles' = CachedFiles /\ OfAnalysis' = OfAnalysis
        /\ \A h : UriOf(h)' = UriOf(h)
    BY DEF CachedFiles, OfAnalysis, UriOf
  <1>2. TextsHeld' = TextsHeld
    BY <1>1 DEF TextsHeld
  <1>3. Pushed => Pushed'
    BY <1>1, <1>2 DEF Pushed, ErrorsAt
  <1> QED  BY <1>3 DEF Truth

\* A task that reads what it can reads what is on disk.
LEMMA SeenAtWork ==
    ASSUME Known, Present, Seen, UNCHANGED <<world, inbox>>,
           vfs' = vfs \/ \E S : vfs' = ReadAll(vfs, disk, S)
    PROVE  Seen'
  <1>1. disk' = disk /\ unseen' = unseen /\ inbox' = inbox
    BY DEF world
  <1>2. \A u : Noticed(u)' <=> Noticed(u)
    BY <1>1 DEF Noticed
  <1>3. ASSUME NEW u \in Uris, Behind(u)' PROVE Behind(u)
    <2>1. CASE vfs' = vfs
      BY <1>1, <1>3, <2>1 DEF Behind
    <2>2. ASSUME NEW S, vfs' = ReadAll(vfs, disk, S) PROVE Behind(u)
      <3>1. vfs'[u] = vfs[u] \/ vfs'[u] = Fs(disk[u])
        BY <2>2 DEF ReadAll
      <3>2. Fs(disk[u]).text = disk[u]
        BY DEF Fs
      <3> QED  BY <1>1, <1>3, <3>1, <3>2 DEF Behind
    <2> QED  BY <2>1, <2>2
  <1> QED  BY <1>2, <1>3 DEF Seen

\* What is true of the units stays true while they, the texts and what is
\* reported stay.
LEMMA FreshStays ==
    ASSUME UNCHANGED <<ctx, cache, diagnostics>>, VfsTexts' = VfsTexts
    PROVE  /\ \A r : Fresh(r)' <=> Fresh(r)
           /\ UNCHANGED <<disk, workspace>> => (Rooted' <=> Rooted)
           /\ \A r, u : HasFile(r, u)' <=> HasFile(r, u)
  <1>1. \A h : UriOf(h)' = UriOf(h)
    BY DEF UriOf
  <1>2. (\A r : Fit(r)' <=> Fit(r)) /\ (\A r, u : HasFile(r, u)' <=> HasFile(r, u))
    BY UnitsStay
  <1>3. \A r : Fresh(r)' <=> Fresh(r)
    BY <1>1, <1>2 DEF Fresh
  <1>4. OfLocs' = OfLocs /\ {UriOf(r) : r \in DOMAIN cache}' = {UriOf(r) : r \in DOMAIN cache}
    BY <1>1 DEF OfLocs
  <1>5. UNCHANGED <<disk, workspace>> => (Rooted' <=> Rooted)
    BY <1>4 DEF Rooted
  <1> QED  BY <1>2, <1>3, <1>5

\* Task::ReloadWorkspace: a load is pending, or there is no workspace.
LEMMA TruthReload ==
    ASSUME Known, Calm, Truth, ReloadWorkspace PROVE Truth'
  <1> DEFINE t == Head(tasks)
             more == CASE config = "none" -> <<>>
                       [] config = "locs" -> <<Task("LoadLocsFile", 0)>>
                       [] config = "full" -> <<Task("LoadFullWorkspace", 0)>>
  <1>1. /\ status = "running" /\ tasks # <<>> /\ t.type = "ReloadWorkspace"
        /\ workspace' = config /\ Requeue(more)
        /\ UNCHANGED <<world, inbox, status, incoming, vfs, ctx, cache, files, dirty,
                       diagnostics, client>>
    BY DEF ReloadWorkspace, RunsTask
  <1>2. Tail(tasks) = <<>> /\ tasks \in Seq(TaskData) /\ Present
    BY <1>1, PhaseAtHead DEF Known, Typed, Calm
  <1>3. config \in {"none", "locs", "full"}
    BY EnvironmentAssumption DEF Known, Typed
  <1>4. \/ config = "none" /\ more = <<>>
        \/ config = "locs" /\ more = <<Task("LoadLocsFile", 0)>>
        \/ config = "full" /\ more = <<Task("LoadFullWorkspace", 0)>>
    BY <1>3
  <1> HIDE DEF more
  <1>5. more \in Seq(TaskData)
    BY <1>4, QueuedTypes
  <1>6. LoadPending' \/ workspace' = "none"
    <2>1. ASSUME NEW x, more = <<x>>, x.type \in {"LoadLocsFile", "LoadFullWorkspace"}
          PROVE  LoadPending'
      <3>1. tasks' # <<>> /\ Head(tasks') = x
        BY <1>1, <1>2, <1>5, <2>1, Requeued
      <3> QED  BY <2>1, <3>1 DEF LoadPending
    <2>2. /\ Task("LoadLocsFile", 0).type = "LoadLocsFile"
          /\ Task("LoadFullWorkspace", 0).type = "LoadFullWorkspace"
      BY DEF Task
    <2> QED  BY <1>1, <1>4, <2>1, <2>2
  <1>7. AnalysisPending => AnalysisPending'
    <2>1. ToSet(tasks) = {t}
      BY <1>1, <1>2, MembersFacts
    <2> QED  BY <1>1, <2>1 DEF AnalysisPending
  <1>8. Seen'
    BY <1>1, <1>2, SeenAtWork DEF Truth
  <1> QED  BY <1>1, <1>6, <1>7, <1>8, TruthKept DEF client

\* Task::Response: there is nothing to be done about the units.
LEMMA TruthResponse ==
    ASSUME Known, Calm, Truth, Response PROVE Truth'
  <1> DEFINE t == Head(tasks)
  <1>1. /\ status = "running" /\ tasks # <<>> /\ t.type = "Response" /\ Requeue(<<>>)
        /\ UNCHANGED <<world, inbox, status, vfs, units, diagnostics, client>>
    BY DEF Response, RunsTask
  <1>2. Answers(tasks) /\ tasks \in Seq(TaskData) /\ Present
    BY <1>1, PhaseAtHead DEF Known, Typed, Calm
  <1>3. VfsTexts' = VfsTexts
    BY <1>1, <1>2, TaskKeepsTexts
  <1>4. /\ UNCHANGED <<ctx, cache, files, workspace, dirty, disk, vfs>>
        /\ UNCHANGED <<published, shown>>
    BY <1>1 DEF units, world, client
  <1>5. AnalysisPending => AnalysisPending'
    <2>1. /\ ToSet(tasks) = {t} \cup ToSet(Tail(tasks)) /\ <<>> \in Seq(TaskData)
      BY <1>1, <1>2, MembersFacts
    <2>2. ToSet(Tail(tasks)) \subseteq ToSet(tasks')
      BY <1>1, <1>2, <2>1, Requeued
    <2> QED  BY <1>1, <1>4, <2>1, <2>2 DEF AnalysisPending
  <1>6. workspace = "none" \/ Faithful'
    <2> SUFFICES ASSUME workspace # "none" PROVE Faithful'
      OBVIOUS
    <2>1. AllTrue
      BY <1>1, <1>2, NothingAwaits
    <2> QED  BY <1>1, <1>3, <1>4, <2>1, FreshStays DEF AllTrue, Faithful, LocsRead
  <1>7. Seen'
    BY <1>1, <1>2, SeenAtWork DEF Truth
  <1> QED  BY <1>1, <1>4, <1>5, <1>6, <1>7, TruthKept

\* Both loads: every unit is what the texts call for, and an analysis follows.
LEMMA TruthLoads ==
    ASSUME Known, Known', Calm, Truth, LoadFullWorkspace \/ LoadLocsFile PROVE Truth'
  <1> DEFINE t == Head(tasks)
             more == <<Task("Analysis", 0)>>
  <1>1. Present
    BY DEF Calm
  <1>2. disk \in Disk /\ vfs \in [Uris -> Entry] /\ (LoadLocsFile => Readable(vfs, disk, LocsUri))
    <2>1. disk \in Disk /\ vfs \in [Uris -> Entry] /\ disk[LocsUri] # Missing
      BY <1>1, PresentFacts, UrisAssumption
    <2> QED  BY <2>1 DEF Readable
  <1>3. /\ tasks # <<>> /\ Requeue(more)
        /\ UNCHANGED <<world, inbox, status, incoming, dirty, client>>
    BY <1>2 DEF LoadFullWorkspace, LoadLocsFile, Load, RunsTask
  <1>4. /\ \A r \in DOMAIN cache' :
              UnitOf(ctx', r, cache'[r], IncludeForest({ctx'.store[r].uri}, VfsTexts))
        /\ \A h \in Live(ctx)' : ctx'.store[h].text = VfsTexts[ctx'.store[h].uri]
        /\ UnitsOf(ctx, cache)' /\ (Live(ctx) = FilesOf(cache))'
    BY <1>2, LoadBuilds
  <1>5. PICK kind, roots, loose, m, read, order, b :
           LoadMade(kind, roots, loose, m, read, order, b)
    BY <1>2, LoadMakes
  <1> DEFINE D == BuildDiagnostics(m, order, VfsTexts)
             S == read \cup ReadBy(ToSet(order), VfsTexts)
  <1>6. /\ vfs' = ReadAll(vfs, disk, S)
        /\ workspace' = kind /\ roots = Roots(kind, VfsTexts, disk)
        /\ diagnostics' = loose \cup D
        /\ \/ kind = "full" /\ loose = {}
           \/ kind = "locs" /\ loose = LocsDiagnostics /\ LocsUri \in S
        /\ Built(m, roots, VfsTexts, order, b, cache')
        /\ \A r \in DOMAIN cache' : \A h \in cache'[r] : ctx'.store[h] = b.store[h]
    BY <1>5 DEF LoadMade
  <1>7. /\ VfsTexts' = VfsTexts /\ disk' = disk
        /\ VfsTexts \in Disk /\ \A u \in Uris : VfsTexts[u] # Missing
    BY <1>1, <1>3, <1>6, TaskKeepsTexts, PresentFacts DEF world
  <1>8. /\ \A d \in D : d.owner = "unit" /\ d.unit \in DOMAIN cache'
        /\ \A r \in DOMAIN cache' : Reported(OfUnit(D, r))
              = ForestErrors(IncludeForest({b.store[r].uri}, VfsTexts), VfsTexts)
    BY <1>5, <1>7, BuildReports DEF LoadMade
  <1> HIDE DEF D, S
  <1>9. \A r \in DOMAIN cache' : r \in cache'[r] /\ cache'[r] \subseteq Live(ctx')
    BY <1>4 DEF UnitsOf, FilesOf
  <1>10. \A d \in loose : d.owner = "locs"
    BY <1>6 DEF LocsDiagnostics
  <1>11. ASSUME NEW r \in DOMAIN cache' PROVE Fresh(r)'
    <2>1. Fit(r)'
      BY <1>4, <1>7 DEF Fit, UriOf
    <2>2. \A h \in cache'[r] : ctx'.store[h].text = VfsTexts'[UriOf(h)']
      BY <1>4, <1>7, <1>9 DEF UriOf
    <2>3. OfUnit(diagnostics', r) = OfUnit(D, r)
      BY <1>6, <1>10 DEF OfUnit
    <2>4. UriOf(r)' = b.store[r].uri
      BY <1>6, <1>9 DEF UriOf
    <2> QED  BY <1>7, <1>8, <2>1, <2>2, <2>3, <2>4 DEF Fresh
  <1>12. LocsRead'
    <2> SUFFICES ASSUME kind = "locs" PROVE vfs'[LocsUri] # NoFile
      BY <1>6 DEF LocsRead
    <2>1. LocsUri \in S /\ LocsUri \in Uris
      BY <1>6, UrisAssumption
    <2> QED  BY <1>1, <1>2, <1>6, <2>1, ReadingFacts DEF Present
  <1>13. {UriOf(r)' : r \in DOMAIN cache'} = roots
    <2>1. roots \subseteq Uris
      <3>1. VfsTexts[LocsUri] \in Text
        BY <1>7, UrisAssumption DEF Disk
      <3>2. VfsTexts[LocsUri].inc \subseteq Uris
        BY <3>1 DEF Text
      <3> QED  BY <1>6, <3>2, UrisAssumption DEF Roots
    <2>2. \A r \in DOMAIN cache' : UriOf(r)' = b.store[r].uri
      BY <1>6, <1>9 DEF UriOf
    <2>3. \A r \in DOMAIN cache' : b.store[r].uri \in roots
      BY <1>6 DEF Built
    <2>4. \A u \in roots : \E r \in DOMAIN cache' : b.store[r].uri = u
      BY <1>6, <1>7, <2>1 DEF Built
    <2> QED  BY <2>2, <2>3, <2>4
  <1>14. Rooted'
    <2>1. Roots(workspace', VfsTexts', disk') = roots
      BY <1>6, <1>7
    <2>2. OfLocs' = loose
      BY <1>6, <1>8, <1>10 DEF OfLocs
    <2>3. Reported(loose) = IF kind = "locs" THEN LocsErrors(VfsTexts) ELSE {}
      <3>1. CASE kind = "full" /\ loose = {}
        BY <3>1 DEF Reported
      <3>2. CASE kind = "locs" /\ loose = LocsDiagnostics
        <4>1. \A e \in LocsErrors(VfsTexts) : [uri |-> e.uri, error |-> e.error] = e
          BY DEF LocsErrors
        <4> DEFINE d(e) == [owner |-> "locs", unit |-> 0, uri |-> e.uri, error |-> e.error]
        <4>2. \A e : [uri |-> d(e).uri, error |-> d(e).error] = [uri |-> e.uri, error |-> e.error]
          OBVIOUS
        <4>3. LocsDiagnostics = {d(e) : e \in LocsErrors(VfsTexts)}
          BY DEF LocsDiagnostics
        <4> HIDE DEF d
        <4>4. \A x \in Reported(loose) : x \in LocsErrors(VfsTexts)
          BY <3>2, <4>1, <4>2, <4>3 DEF Reported
        <4>5. ASSUME NEW e \in LocsErrors(VfsTexts) PROVE e \in Reported(loose)
          <5>1. d(e) \in loose /\ [uri |-> d(e).uri, error |-> d(e).error] = e
            BY <3>2, <4>1, <4>2, <4>3
          <5> QED  BY <5>1 DEF Reported
        <4>6. Reported(loose) = LocsErrors(VfsTexts)
          BY <4>4, <4>5
        <4> QED  BY <3>2, <4>6
      <3> QED  BY <1>6, <3>1, <3>2
    <2> QED  BY <1>6, <1>7, <1>13, <2>1, <2>2, <2>3 DEF Rooted
  <1>15. AnalysisPending'
    <2>1. more \in Seq(TaskData) /\ ToSet(more) = {Task("Analysis", 0)}
      BY QueuedTypes, MembersFacts
    <2>2. tasks \in Seq(TaskData)
      BY DEF Known, Typed
    <2> HIDE DEF more
    <2>3. Task("Analysis", 0) \in ToSet(tasks')
      BY <1>3, <2>1, <2>2, Requeued
    <2> QED  BY <2>3 DEF AnalysisPending, Task
  <1>16. Seen'
    BY <1>1, <1>3, <1>6, SeenAtWork DEF Truth
  <1>17. \A d \in diagnostics' : d.owner = "unit" => d.unit \in DOMAIN cache'
    BY <1>6, <1>8, <1>10
  <1>18. \A u \in Uris : shown'[u] # {} => u \in published'
    BY <1>3 DEF client, Truth
  <1> QED  BY <1>11, <1>12, <1>14, <1>15, <1>16, <1>17, <1>18 DEF Truth, Faithful

\* Task::Update: the workspace is loaded again, or the units with a text that has
\* changed are going to be reprocessed.
LEMMA TruthUpdate ==
    ASSUME Known, Known', Calm, Truth, Update PROVE Truth'
  <1> DEFINE t == Head(tasks)
             u == t.arg
  <1>1. Present /\ tasks' \in Seq(TaskData)
    BY DEF Calm, Known, Typed
  <1>2. status = "running" /\ tasks # <<>> /\ t.type = "Update" /\ tasks \in Seq(TaskData)
    BY DEF Update, RunsTask, Known, Typed
  <1>3. Tail(tasks) = <<>> /\ t.reply = NoReply /\ u \in Uris /\ (Stable \/ Updating(u))
    BY <1>2, PhaseAtHead
  <1>4. Indexed
    BY <1>3 DEF Stable, Updating
  <1>5. files[u] \subseteq Live(ctx)
    BY <1>1, <1>3, <1>4, IndexFindsRoots
  <1>6. /\ UNCHANGED <<world, inbox, status, incoming, vfs, units, diagnostics, client>>
        /\ \/ workspace = "locs" /\ u = LocsUri /\ Requeue(<<Task("ReloadWorkspace", 0)>>)
           \/ /\ ~(workspace = "locs" /\ u = LocsUri)
              /\ \E order \in SetToSeqs(RootsAbove(u)) :
                    Requeue([i \in 1..Len(order) |-> Task("Reprocess", order[i])])
    BY <1>5 DEF Update, RootsAbove
  <1> HIDE DEF u
  <1>7. /\ UNCHANGED <<ctx, cache, files, workspace, dirty, disk, vfs>>
        /\ UNCHANGED <<published, shown>>
    BY <1>6 DEF units, world, client
  <1>8. VfsTexts' = VfsTexts
    BY <1>1, <1>6, TaskKeepsTexts
  <1>9. AnalysisPending => AnalysisPending'
    <2>1. ToSet(tasks) = {t}
      BY <1>2, <1>3, MembersFacts
    <2> QED  BY <1>2, <1>7, <2>1 DEF AnalysisPending
  <1>10. Seen'
    BY <1>1, <1>6, SeenAtWork DEF Truth
  <1>11. ASSUME NEW v, tasks = <<Task("Update", v)>> PROVE v = u
    <2>1. Head(tasks) = Task("Update", v)
      BY <1>11
    <2> QED  BY <2>1 DEF u, Task
  <1>12. ASSUME Requeue(<<Task("ReloadWorkspace", 0)>>) PROVE LoadPending'
    <2>1. tasks' = <<Task("ReloadWorkspace", 0)>>
      BY <1>2, <1>3, <1>12, QueuedTypes, Requeued
    <2>2. tasks' # <<>> /\ Head(tasks').type = "ReloadWorkspace"
      BY <2>1 DEF Task
    <2> QED  BY <2>2 DEF LoadPending
  <1>13. ASSUME NEW order \in SetToSeqs(RootsAbove(u)), ~(workspace = "locs" /\ u = LocsUri),
                Requeue([i \in 1..Len(order) |-> Task("Reprocess", order[i])]),
                workspace # "none"
         PROVE  Faithful'
    <2> DEFINE more == [i \in 1..Len(order) |-> Task("Reprocess", order[i])]
    <2>1. /\ RootsAbove(u) \subseteq DOMAIN cache /\ IsFiniteSet(RootsAbove(u))
          /\ \A r \in DOMAIN cache : HasFile(r, u) => r \in RootsAbove(u)
      BY <1>1, <1>3, <1>4, IndexFindsRoots
    <2>2. /\ order \in Seq(RootsAbove(u))
          /\ \A x \in RootsAbove(u) : \E i \in 1..Len(order) : order[i] = x
      BY <2>1, OrderFacts
    <2>3. DOMAIN cache \subseteq Nat
      BY DEF Known, Units
    <2>4. Len(order) \in Nat /\ \A i \in 1..Len(order) : order[i] \in RootsAbove(u)
      BY <2>2
    <2>5. /\ more \in Seq(TaskData) /\ Len(more) = Len(order)
          /\ \A i \in 1..Len(order) : more[i] = Task("Reprocess", order[i])
      <3>1. \A i \in 1..Len(order) : Task("Reprocess", order[i]) \in TaskData
        BY <2>1, <2>3, <2>4 DEF Task, TaskData, NoReply
      <3> QED  BY <2>4, <3>1
    <2>6. Requeue(more)
      BY <1>13
    <2> HIDE DEF more
    <2>7. tasks' = more
      BY <1>2, <1>3, <2>5, <2>6, Requeued
    <2>8. ToSet(tasks') = {Task("Reprocess", order[i]) : i \in 1..Len(order)}
      BY <2>5, <2>7, MembersFacts
    <2>9. ASSUME NEW r \in DOMAIN cache, HasFile(r, u) PROVE Awaits(r)'
      <3>1. PICK i \in 1..Len(order) : order[i] = r
        BY <2>1, <2>2, <2>9
      <3>2. /\ Task("Reprocess", r) \in ToSet(tasks')
            /\ Task("Reprocess", r).type = "Reprocess" /\ Task("Reprocess", r).arg = r
        BY <2>8, <3>1 DEF Task
      <3> QED  BY <3>2 DEF Awaits
    <2>10. Faithful /\ ~LocsChanged
      BY <1>2, <1>11, <1>13 DEF Truth, LoadPending, LocsChanged
    <2>11. ASSUME NEW r \in DOMAIN cache, Awaits(r) PROVE HasFile(r, u)
      <3>1. ToSet(tasks) = {t}
        BY <1>2, <1>3, MembersFacts
      <3> QED  BY <1>2, <1>11, <2>11, <3>1 DEF Awaits
    <2>12. LocsRead' /\ Rooted'
      BY <1>6, <1>7, <1>8, <2>10, FreshStays DEF Faithful, LocsRead
    <2>13. \A r \in DOMAIN cache' : Fresh(r)' \/ Awaits(r)'
      BY <1>6, <1>7, <1>8, <2>9, <2>10, <2>11, FreshStays DEF Faithful
    <2> QED  BY <2>12, <2>13 DEF Faithful
  <1>14. LoadPending' \/ workspace' = "none" \/ Faithful'
    BY <1>6, <1>7, <1>12, <1>13
  <1> QED  BY <1>6, <1>7, <1>9, <1>10, <1>14, TruthKept

\* Task::Reprocess: the unit is what the texts call for, and so is what is reported
\* of it; the analysis is out of date.
LEMMA TruthReprocess ==
    ASSUME Known, Known', Calm, Truth, Reprocess PROVE Truth'
  <1> DEFINE t == Head(tasks)
             h == t.arg
             F == IncludeForest({UriOf(h)}, VfsTexts)
  <1>1. Present
    BY DEF Calm
  <1>2. status = "running" /\ tasks # <<>> /\ t.type = "Reprocess" /\ tasks \in Seq(TaskData)
    BY DEF Reprocess, RunsTask, Known, Typed
  <1>3. Reprocesses(tasks)
    BY <1>2, PhaseAtHead
  <1>4. /\ h \in DOMAIN cache /\ t.reply = NoReply
        /\ ToSet(tasks) = {t} \cup ToSet(Tail(tasks))
        /\ \A s \in ToSet(tasks) : s.type = "Reprocess"
    BY <1>2, <1>3, ReprocessesTail DEF Reprocesses
  <1>5. /\ UnitsOf(ctx, cache) /\ MapOf(ctx, FileData) /\ Separate(ctx)
        /\ disk \in Disk /\ vfs \in [Uris -> Entry]
        /\ Live(ctx) = FilesOf(cache)
        /\ \A x \in Live(ctx) : UriOf(x) \in Uris
    BY <1>1, PresentFacts DEF Present
  <1>6. \A q \in DOMAIN cache : q \in cache[q] /\ cache[q] \subseteq Live(ctx)
    BY <1>5 DEF UnitsOf, FilesOf
  <1>7. /\ ReprocessUnit(h) /\ Requeue(<<>>)
        /\ UNCHANGED <<world, inbox, status, incoming, workspace, files, client>>
    BY <1>4, <1>6 DEF Reprocess
  <1>8. Readable(vfs, disk, ctx.store[h].uri)
    BY <1>1, <1>4, <1>5, <1>6 DEF Present, Readable, UriOf
  <1>9. /\ \E r \in DOMAIN cache' :
              /\ DOMAIN cache' = (DOMAIN cache \ {h}) \cup {r}
              /\ r \notin DOMAIN cache \ {h}
              /\ ctx'.store[r].uri = ctx.store[h].uri
              /\ UnitOf(ctx', r, cache'[r], IncludeForest({ctx.store[h].uri}, VfsTexts))
              /\ \A x \in cache'[r] : ctx'.store[x].text = VfsTexts[ctx'.store[x].uri]
              /\ \E S : /\ vfs' = ReadAll(vfs, disk, S)
                        /\ \A x \in cache'[r] : ctx'.store[x].uri \in S
              /\ ReportedAgain(h, r, IncludeForest({ctx.store[h].uri}, VfsTexts))
        /\ \A q \in DOMAIN cache \ {h} :
              /\ cache'[q] = cache[q]
              /\ \A x \in cache[q] : x \in Live(ctx') /\ ctx'.store[x] = ctx.store[x]
    BY <1>4, <1>5, <1>7, <1>8, ReprocessBuilds
  <1>10. dirty' = TRUE /\ tasks' = Tail(tasks)
    BY <1>2, <1>4, <1>7, <1>8, QueuedTypes, Requeued DEF ReprocessUnit
  <1> HIDE DEF h
  <1>11. PICK r, S :
            /\ r \in DOMAIN cache'
            /\ DOMAIN cache' = (DOMAIN cache \ {h}) \cup {r}
            /\ r \notin DOMAIN cache \ {h}
            /\ UriOf(r)' = UriOf(h)
            /\ UnitOf(ctx', r, cache'[r], F)
            /\ \A x \in cache'[r] : ctx'.store[x].text = VfsTexts[UriOf(x)']
            /\ vfs' = ReadAll(vfs, disk, S)
            /\ ReportedAgain(h, r, F)
    BY <1>9 DEF UriOf
  <1>12. /\ VfsTexts' = VfsTexts
         /\ \A u \in Uris : disk'[u] # Missing /\ (vfs[u] # NoFile => vfs'[u] # NoFile)
    BY <1>1, <1>7, <1>11, TaskKeepsTexts
  <1>13. PICK D : /\ diagnostics' = (diagnostics \ OfUnit(diagnostics, h)) \cup D
                  /\ \A d \in D : d.owner = "unit" /\ d.unit = r
                  /\ Reported(OfUnit(D, r)) = ForestErrors(F, VfsTexts)
    BY <1>11 DEF ReportedAgain
  <1> HIDE DEF F
  <1>14. \A d \in diagnostics : d.owner = "unit" => d.unit \in DOMAIN cache
    BY DEF Truth
  <1>15. OfUnit(diagnostics', r) = OfUnit(D, r)
    BY <1>11, <1>13, <1>14 DEF OfUnit
  <1>16. \A q \in DOMAIN cache \ {h} : OfUnit(diagnostics', q) = OfUnit(diagnostics, q)
    BY <1>11, <1>13 DEF OfUnit
  <1>17. OfLocs' = OfLocs
    BY <1>13 DEF OfUnit, OfLocs
  <1>18. \A d \in diagnostics' : d.owner = "unit" => d.unit \in DOMAIN cache'
    BY <1>11, <1>13, <1>14 DEF OfUnit
  <1>19. Fresh(r)'
    <2>1. Fit(r)'
      BY <1>11, <1>12 DEF Fit, F
    <2>2. \A x \in cache'[r] : ctx'.store[x].text = VfsTexts'[UriOf(x)']
      BY <1>11, <1>12
    <2>3. Reported(OfUnit(diagnostics', r)) = ForestErrors(IncludeForest({UriOf(r)'}, VfsTexts'), VfsTexts')
      BY <1>11, <1>12, <1>13, <1>15 DEF F
    <2> QED  BY <2>1, <2>2, <2>3 DEF Fresh
  <1>20. ASSUME NEW q \in DOMAIN cache \ {h}, Fresh(q) PROVE Fresh(q)'
    <2>1. disk' \in Disk /\ vfs' \in [Uris -> Entry]
      BY DEF Known, IInv, DocTypes
    <2>2. \A x \in cache[q] : /\ x \in Live(ctx') /\ ctx'.store[x] = ctx.store[x]
                              /\ VfsTexts'[UriOf(x)] = VfsTexts[UriOf(x)]
      BY <1>9, <1>12
    <2>3. cache'[q] = cache[q]
      BY <1>9
    <2> QED  BY <1>1, <1>12, <1>16, <1>20, <2>1, <2>2, <2>3, StillFresh
  <1>21. ASSUME NEW q \in DOMAIN cache \ {h}, Awaits(q) PROVE Awaits(q)'
    <2>1. \A u : tasks # <<Task("Update", u)>>
      <3> SUFFICES ASSUME NEW u, tasks = <<Task("Update", u)>> PROVE FALSE
        OBVIOUS
      <3>1. t = Task("Update", u)
        OBVIOUS
      <3> QED  BY <1>2, <3>1 DEF Task
    <2>2. PICK s \in ToSet(tasks) : s.type = "Reprocess" /\ s.arg = q
      BY <1>21, <2>1 DEF Awaits
    <2>3. s \in ToSet(tasks')
      BY <1>4, <1>10, <2>2 DEF h
    <2> QED  BY <2>2, <2>3 DEF Awaits
  <1>22. Faithful => Faithful'
    <2> SUFFICES ASSUME Faithful PROVE Faithful'
      OBVIOUS
    <2>1. LocsRead'
      BY <1>7, <1>12, UrisAssumption DEF Faithful, LocsRead
    <2>2. ~LocsChanged
      <3> SUFFICES ASSUME tasks = <<Task("Update", LocsUri)>> PROVE FALSE
        BY DEF LocsChanged
      <3>1. t = Task("Update", LocsUri)
        OBVIOUS
      <3> QED  BY <1>2, <3>1 DEF Task
    <2>3. \A q \in DOMAIN cache \ {h} : UriOf(q)' = UriOf(q)
      BY <1>6, <1>9 DEF UriOf
    <2>4. {UriOf(q)' : q \in DOMAIN cache'} = {UriOf(q) : q \in DOMAIN cache}
      BY <1>4, <1>11, <2>3 DEF h
    <2>5. workspace' = workspace /\ disk' = disk
      BY <1>7 DEF world
    <2>6. Rooted'
      BY <1>12, <1>17, <2>2, <2>4, <2>5 DEF Faithful, Rooted
    <2>7. \A q \in DOMAIN cache' : Fresh(q)' \/ Awaits(q)'
      BY <1>11, <1>19, <1>20, <1>21 DEF Faithful
    <2> QED  BY <2>1, <2>6, <2>7 DEF Faithful
  <1>23. Seen'
    BY <1>1, <1>7, <1>11, SeenAtWork DEF Truth
  <1>24. LoadPending' \/ workspace' = "none" \/ Faithful'
    BY <1>2, <1>7, <1>22 DEF Truth, LoadPending
  <1>25. AnalysisPending'
    BY <1>10 DEF AnalysisPending
  <1>26. \A u \in Uris : shown'[u] # {} => u \in published'
    BY <1>7 DEF client, Truth
  <1> QED  BY <1>18, <1>23, <1>24, <1>25, <1>26 DEF Truth

\* An analysis pushes what there is, and all there is is true of the texts.
LEMMA TruthAnalyse ==
    ASSUME Known, Calm, Truth, Analyse,
           tasks = <<>> \/ (tasks # <<>> /\ Answers(tasks))
    PROVE  /\ Truth' /\ Pushed' /\ VfsTexts' = VfsTexts
           /\ UNCHANGED <<workspace, disk>>
           /\ workspace = "none" \/ AllTrue'
  <1> DEFINE found == SemanticErrors(TextsHeld)
             new == {[owner |-> "analysis", unit |-> 0, uri |-> e.uri, error |-> e.error] :
                        e \in found}
             current == {u \in Uris : ErrorsAt(diagnostics', u) # {}}
  <1>1. Present /\ tasks \in Seq(TaskData)
    BY DEF Calm, Known, Typed
  <1>2. /\ diagnostics' = {d \in diagnostics : d.owner # "analysis"} \cup new
        /\ published' = current
        /\ shown' = [u \in Uris |-> IF u \in published \cup current
                                    THEN ErrorsAt(diagnostics', u) ELSE shown[u]]
        /\ UNCHANGED <<world, inbox, vfs, workspace, ctx, cache>>
    BY DEF Analyse, publish_diagnostics, TextsHeld, UriOf
  <1>3. UNCHANGED <<ctx, cache, workspace, vfs, inbox, disk>> /\ VfsTexts' = VfsTexts
    BY <1>1, <1>2, TaskKeepsTexts DEF world
  <1>4. /\ \A h : UriOf(h)' = UriOf(h)
        /\ \A r : Fit(r)' <=> Fit(r)
        /\ CachedFiles' = CachedFiles
    BY <1>3, UnitsStay
  <1>5. TextsHeld' = TextsHeld
    BY <1>3, <1>4 DEF TextsHeld
  <1>6. \A e : LET d == [owner |-> "analysis", unit |-> 0, uri |-> e.uri, error |-> e.error]
               IN  d.owner = "analysis" /\ d.uri = e.uri /\ d.error = e.error
    OBVIOUS
  <1>7. \A d \in new : d.owner = "analysis"
    BY <1>6
  <1>8. /\ \A r : OfUnit(diagnostics', r) = OfUnit(diagnostics, r)
        /\ OfLocs' = OfLocs /\ OfAnalysis' = new
    BY <1>2, <1>7 DEF OfUnit, OfLocs, OfAnalysis
  <1>9. Reported(new) = found
    <2>1. \A e \in found : [uri |-> e.uri, error |-> e.error] = e
      <3>1. \A e \in found : \E u : e = [uri |-> u, error |-> "semantic"]
        BY DEF SemanticErrors
      <3> QED  BY <3>1
    <2> DEFINE d(e) == [owner |-> "analysis", unit |-> 0, uri |-> e.uri, error |-> e.error]
    <2>2. \A e : [uri |-> d(e).uri, error |-> d(e).error] = [uri |-> e.uri, error |-> e.error]
      OBVIOUS
    <2>3. new = {d(e) : e \in found}
      OBVIOUS
    <2> HIDE DEF d, found, new
    <2>4. \A x \in Reported(new) : x \in found
      BY <2>1, <2>2, <2>3 DEF Reported
    <2>5. ASSUME NEW e \in found PROVE e \in Reported(new)
      <3>1. d(e) \in new /\ [uri |-> d(e).uri, error |-> d(e).error] = e
        BY <2>1, <2>2, <2>3
      <3> QED  BY <3>1 DEF Reported
    <2> QED  BY <2>4, <2>5
  <1> HIDE DEF new
  <1>10. Reported(OfAnalysis') = SemanticErrors(TextsHeld')
    BY <1>5, <1>8, <1>9
  <1>11. \A u \in Uris : shown'[u] = ErrorsAt(diagnostics', u)
    <2>1. ASSUME NEW u \in Uris, u \notin published \cup current
          PROVE  shown[u] = {} /\ ErrorsAt(diagnostics', u) = {}
      BY <2>1 DEF Truth
    <2> HIDE DEF current
    <2> QED  BY <1>2, <2>1
  <1>12. \A u \in Uris : shown'[u] # {} => u \in published'
    BY <1>2, <1>11
  <1>13. Pushed'
    BY <1>10, <1>11 DEF Pushed
  <1>14. workspace = "none" \/ AllTrue'
    <2> SUFFICES ASSUME workspace # "none" PROVE AllTrue'
      OBVIOUS
    <2>1. AllTrue
      BY <1>1, NothingAwaits
    <2>2. \A r \in DOMAIN cache : Fresh(r)'
      BY <1>3, <1>4, <1>8, <2>1 DEF AllTrue, Fresh
    <2>3. {UriOf(r) : r \in DOMAIN cache}' = {UriOf(r) : r \in DOMAIN cache}
      BY <1>3, <1>4
    <2>4. Rooted' /\ LocsRead'
      BY <1>3, <1>8, <2>1, <2>3 DEF AllTrue, Rooted, LocsRead
    <2> QED  BY <1>3, <2>2, <2>4 DEF AllTrue
  <1>15. \A d \in diagnostics' : d.owner = "unit" => d.unit \in DOMAIN cache'
    BY <1>2, <1>3, <1>7 DEF Truth
  <1>16. Seen'
    BY <1>1, <1>2, SeenAtWork DEF Truth
  <1>17. workspace' = "none" \/ Faithful'
    BY <1>3, <1>14 DEF AllTrue, Faithful
  <1> QED  BY <1>3, <1>12, <1>13, <1>14, <1>15, <1>16, <1>17 DEF Truth

\* Both ways an analysis comes about: the task, and the timer.
LEMMA TruthAnalysis ==
    ASSUME Known, Calm, Truth, Analysis \/ AnalysisTimer
    PROVE  \/ /\ Truth' /\ Pushed' /\ VfsTexts' = VfsTexts
              /\ UNCHANGED <<workspace, disk>>
              /\ workspace = "none" \/ AllTrue'
           \/ status' # "running" /\ UNCHANGED shown
  <1>1. CASE Analysis
    <2>1. status = "running" /\ tasks # <<>> /\ Head(tasks).type = "Analysis"
      BY <1>1 DEF Analysis, RunsTask
    <2>2. Answers(tasks)
      BY <2>1, PhaseAtHead
    <2>3. Analyse \/ Panic("task")
      BY <1>1 DEF Analysis
    <2>4. Panic("task") => status' # "running" /\ UNCHANGED shown
      BY DEF Panic, client
    <2> QED  BY <2>1, <2>2, <2>3, <2>4, TruthAnalyse
  <1>2. CASE AnalysisTimer
    <2>1. tasks = <<>> /\ (Analyse \/ Panic("task"))
      BY <1>2 DEF AnalysisTimer
    <2>2. Panic("task") => status' # "running" /\ UNCHANGED shown
      BY DEF Panic, client
    <2> QED  BY <2>1, <2>2, TruthAnalyse
  <1> QED  BY <1>1, <1>2

\* A message that is not about texts is gone: nothing changes for the units.
LEMMA TruthMessage ==
    ASSUME Known, Calm, Truth, tasks = <<>>, inbox # <<>>, inbox' = Tail(inbox),
           UNCHANGED <<world, vfs, units, diagnostics, client>>,
           \A u \in Uris : Behind(u) => Head(inbox) # [type |-> "watched", uris |-> <<u>>]
    PROVE  Truth'
  <1>1. /\ UNCHANGED <<ctx, cache, workspace, dirty, disk, unseen, vfs>>
        /\ UNCHANGED <<published, shown, diagnostics>>
    BY DEF units, world, client
  <1>2. VfsTexts' = VfsTexts
    BY <1>1 DEF VfsTexts
  <1>3. workspace = "none" \/ Faithful'
    <2> SUFFICES ASSUME workspace # "none" PROVE Faithful'
      OBVIOUS
    <2>1. AllTrue
      BY NothingAwaits
    <2> QED  BY <1>1, <1>2, <2>1, FreshStays DEF AllTrue, Faithful, LocsRead
  <1>4. AnalysisPending => AnalysisPending'
    <2>1. ToSet(tasks) = {}
      BY MembersFacts, EmptySeq
    <2> QED  BY <1>1, <2>1 DEF AnalysisPending
  <1>5. \A x \in ToSet(inbox) : x = Head(inbox) \/ x \in ToSet(inbox')
    BY MessagesLeft
  <1>6. Seen'
    <2> SUFFICES ASSUME NEW u \in Uris, Behind(u)' PROVE Noticed(u)'
      BY DEF Seen
    <2>1. Behind(u)
      BY <1>1 DEF Behind
    <2>2. Noticed(u)
      BY <2>1 DEF Truth, Seen
    <2> QED  BY <1>1, <1>5, <2>1, <2>2 DEF Noticed
  <1> QED  BY <1>1, <1>3, <1>4, <1>6, TruthKept

\* A text arrives: the units with that document will be found by the update.
LEMMA TruthTextArrives ==
    ASSUME Known, Known', Calm, Truth, tasks = <<>>, inbox # <<>>,
           NEW m, m = Head(inbox), NEW u \in Uris,
           Tells(m, u) \/ m = [type |-> "watched", uris |-> <<u>>],
           Handled(m, u), inbox' = Tail(inbox), tasks' = <<Task("Update", u)>>,
           UNCHANGED <<world, units, diagnostics, client>>
    PROVE  Truth'
  <1>1. /\ UNCHANGED <<ctx, cache, workspace, dirty, disk, unseen>>
        /\ UNCHANGED <<published, shown, diagnostics>> /\ Present
    BY DEF units, world, client, Calm
  <1>2. /\ disk \in Disk /\ vfs \in [Uris -> Entry] /\ vfs' \in [Uris -> Entry]
        /\ \A v \in Uris : disk[v] # Missing /\ VfsTexts[v] # Missing
    BY <1>1, PresentFacts DEF Known, IInv, DocTypes
  <1>3. /\ \A v \in Uris \ {u} : vfs'[v] = vfs[v]
        /\ vfs'[u] = vfs[u] \/ (vfs'[u].kind = "fs" => vfs'[u].text = disk[u])
    <2>1. \A x : Fs(x).text = x /\ Lsp(x).kind = "lsp"
      BY DEF Fs, Lsp
    <2> QED  BY <1>2, <2>1 DEF Handled
  <1>4. \A v \in Uris \ {u} : VfsTexts'[v] = VfsTexts[v]
    BY <1>1, <1>3, TextsAre DEF Contents
  <1>5. \A v \in Uris : VfsTexts'[v] # Missing /\ (vfs[v] # NoFile => vfs'[v] # NoFile)
    BY <1>1, <1>2, TextsAre, ContentsFacts, HandledFacts
  <1>6. \A h : UriOf(h)' = UriOf(h)
    BY <1>1 DEF UriOf
  <1>7. workspace = "none" \/ AllTrue
    BY NothingAwaits
  <1>8. ASSUME NEW r \in DOMAIN cache, Fresh(r) PROVE Fresh(r)' \/ Awaits(r)'
    <2>1. CASE HasFile(r, u)
      <3>1. HasFile(r, u)'
        BY <1>1, <1>6, <2>1 DEF HasFile
      <3> QED  BY <3>1 DEF Awaits
    <2>2. CASE ~HasFile(r, u)
      <3>1. \A h \in cache[r] : h \in Live(ctx') /\ ctx'.store[h] = ctx.store[h]
        BY <1>1 DEF Present, FilesOf
      <3>2. \A h \in cache[r] : UriOf(h) \in Uris \ {u}
        BY <1>1, <2>2, PresentFacts DEF Present, FilesOf, HasFile
      <3>3. Reported(OfUnit(diagnostics', r)) = Reported(OfUnit(diagnostics, r))
        BY <1>1
      <3>4. \A h \in cache[r] : VfsTexts'[UriOf(h)] = VfsTexts[UriOf(h)]
        BY <1>4, <3>2
      <3>5. disk' \in Disk /\ (\A v \in Uris : disk'[v] # Missing) /\ cache'[r] = cache[r]
        BY <1>1, <1>2
      <3> QED  BY <1>1, <1>2, <1>8, <3>1, <3>3, <3>4, <3>5, StillFresh
    <2> QED  BY <2>1, <2>2
  <1>9. Rooted => Rooted' \/ LocsChanged'
    <2> SUFFICES ASSUME Rooted, ~(workspace = "locs" /\ u = LocsUri) PROVE Rooted'
      BY <1>1 DEF LocsChanged
    <2>1. workspace = "locs" => VfsTexts'[LocsUri] = VfsTexts[LocsUri]
                                /\ VfsTexts[LocsUri].inc \subseteq Uris
      <3>1. VfsTexts \in Disk /\ LocsUri \in Uris
        BY <1>1, PresentFacts, UrisAssumption
      <3>2. VfsTexts[LocsUri] \in Text
        BY <1>2, <3>1 DEF Disk
      <3> QED  BY <1>4, <3>1, <3>2 DEF Text
    <2>2. workspace = "locs" => LocsErrors(VfsTexts') = LocsErrors(VfsTexts)
      BY <1>2, <1>5, <2>1 DEF LocsErrors
    <2>3. Roots(workspace, VfsTexts', disk) = Roots(workspace, VfsTexts, disk)
      BY <2>1 DEF Roots
    <2>4. OfLocs' = OfLocs /\ {UriOf(r) : r \in DOMAIN cache}' = {UriOf(r) : r \in DOMAIN cache}
      BY <1>1, <1>6 DEF OfLocs
    <2> QED  BY <1>1, <2>2, <2>3, <2>4 DEF Rooted
  <1>10. workspace = "none" \/ Faithful'
    <2> SUFFICES ASSUME AllTrue PROVE Faithful'
      BY <1>7
    <2>1. LocsRead'
      BY <1>1, <1>5, UrisAssumption DEF AllTrue, LocsRead
    <2> QED  BY <1>1, <1>8, <1>9, <2>1 DEF AllTrue, Faithful
  <1>11. AnalysisPending => AnalysisPending'
    <2>1. ToSet(tasks) = {}
      BY MembersFacts, EmptySeq
    <2> QED  BY <1>1, <2>1 DEF AnalysisPending
  <1>12. \A x \in ToSet(inbox) : x = m \/ x \in ToSet(inbox')
    BY MessagesLeft
  <1>13. \A v \in Uris : m = [type |-> "watched", uris |-> <<v>>] =>
            v = u /\ m.type = "watched"
    <2>1. \A v : <<v>> = <<u>> => v = u
      OBVIOUS
    <2> QED  BY <2>1 DEF Tells
  <1>14. Seen'
    <2> SUFFICES ASSUME NEW v \in Uris, Behind(v)' PROVE Noticed(v)'
      BY DEF Seen
    <2>1. vfs'[v] = vfs[v]
      BY <1>1, <1>3 DEF Behind
    <2>2. Noticed(v)
      BY <1>1, <2>1 DEF Truth, Seen, Behind
    <2>3. m # [type |-> "watched", uris |-> <<v>>]
      <3> SUFFICES ASSUME m = [type |-> "watched", uris |-> <<v>>] PROVE FALSE
        OBVIOUS
      <3>1. v = u /\ m.type = "watched"
        BY <1>13
      <3>2. vfs'[u] = Fs(disk[u])
        BY <1>2, <3>1 DEF Handled
      <3>3. Fs(disk[u]).text = disk[u]
        BY DEF Fs
      <3> QED  BY <1>1, <3>1, <3>2, <3>3 DEF Behind
    <2> QED  BY <1>1, <1>12, <2>2, <2>3 DEF Noticed
  <1> QED  BY <1>1, <1>10, <1>11, <1>14, TruthKept

\* The handlers of messages.
LEMMA TruthHandlers ==
    ASSUME Known, Known', Calm, Truth,
           handle_did_open_text_document \/ handle_did_change_text_document
           \/ handle_did_close_text_document \/ handle_did_change_watched_file
           \/ query \/ reload_request \/ shutdown
    PROVE  Truth' \/ status' # "running"
  <1>1. Present /\ Single
    BY DEF Calm
  <1>2. CASE handle_did_open_text_document \/ handle_did_change_text_document
             \/ handle_did_close_text_document
    <2>1. /\ status = "running" /\ tasks = <<>> /\ inbox # <<>> /\ inbox' = Tail(inbox)
          /\ \E u \in Uris : /\ Tells(Head(inbox), u) /\ Handled(Head(inbox), u)
                             /\ tasks' = <<Task("Update", u)>>
          /\ UNCHANGED <<world, status, incoming, units, diagnostics, client>>
      BY <1>1, <1>2, DocumentHandled
    <2> QED  BY <2>1, TruthTextArrives
  <1>3. CASE handle_did_change_watched_file
    <2>1. /\ tasks = <<>> /\ inbox # <<>> /\ inbox' = Tail(inbox)
          /\ UNCHANGED <<world, units, diagnostics, client>>
      BY <1>1, <1>3, WatchedHandled
    <2>2. PICK c \in Uris \cup {ConfigUri} :
             /\ Head(inbox) = [type |-> "watched", uris |-> <<c>>]
             /\ \/ c = ConfigUri /\ vfs' = vfs /\ tasks' = <<Task("ReloadWorkspace", 0)>>
                \/ c \in Uris /\ HoldsDocument(vfs, c) /\ vfs' = vfs /\ tasks' = <<>>
                \/ /\ c \in Uris /\ ~HoldsDocument(vfs, c)
                   /\ vfs' = [vfs EXCEPT ![c] = Fs(disk[c])]
                   /\ tasks' = <<Task("Update", c)>>
      BY <1>1, <1>3, WatchedHandled
    <2>3. CASE vfs' = vfs /\ (c = ConfigUri \/ HoldsDocument(vfs, c))
      <3>1. ASSUME NEW u \in Uris, Behind(u), Head(inbox) = [type |-> "watched", uris |-> <<u>>]
            PROVE  FALSE
        <4>1. u = c
          <5>1. \A a, b : <<a>> = <<b>> => a = b
            OBVIOUS
          <5> QED  BY <2>2, <3>1, <5>1
        <4> QED  BY <2>3, <3>1, <4>1, EnvironmentAssumption DEF HoldsDocument, Behind
      <3> QED  BY <2>1, <2>3, <3>1, TruthMessage
    <2>4. CASE /\ c \in Uris /\ ~HoldsDocument(vfs, c)
               /\ vfs' = [vfs EXCEPT ![c] = Fs(disk[c])]
               /\ tasks' = <<Task("Update", c)>>
      <3>1. Handled(Head(inbox), c)
        BY <2>2, <2>4 DEF Handled
      <3> QED  BY <2>1, <2>2, <2>4, <3>1, TruthTextArrives
    <2> QED  BY <2>2, <2>3, <2>4
  <1>4. CASE query \/ reload_request \/ shutdown
    <2>1. Head(inbox).type \in {"query", "reload", "shutdown"} /\ tasks = <<>> /\ inbox # <<>>
      BY <1>4 DEF query, reload_request, shutdown, Receives
    <2>2. \/ Panic("query") \/ Panic("node")
          \/ inbox' = Tail(inbox) /\ UNCHANGED <<world, vfs, units, diagnostics, client>>
      BY <1>4 DEF query, reload_request, shutdown
    <2>3. \A u : Head(inbox) # [type |-> "watched", uris |-> <<u>>]
      BY <2>1
    <2>4. Panic("query") \/ Panic("node") => status' # "running"
      BY DEF Panic
    <2> QED  BY <2>1, <2>2, <2>3, <2>4, TruthMessage
  <1> QED  BY <1>2, <1>3, <1>4

\* What the environment leaves alone: the texts of the units have been read, and
\* no file goes away.
LEMMA TruthOutside ==
    ASSUME Known, Known', Calm, Truth, UNCHANGED server,
           \A u \in Uris : disk'[u] # Missing, Seen'
    PROVE  Truth'
  <1>1. /\ UNCHANGED <<ctx, cache, workspace, dirty, vfs, tasks>>
        /\ UNCHANGED <<published, shown, diagnostics>> /\ Present
    BY DEF server, loop, units, client, Calm
  <1>2. /\ disk' \in Disk /\ vfs' \in [Uris -> Entry]
        /\ VfsTexts \in Disk /\ \A v \in Uris : disk[v] # Missing /\ VfsTexts[v] # Missing
        /\ \A h \in Live(ctx) : UriOf(h) \in Uris
    BY <1>1, PresentFacts DEF Known, IInv, DocTypes
  <1>3. \A v \in Uris : vfs[v] # NoFile => VfsTexts'[v] = VfsTexts[v]
    BY <1>1, TextsAre DEF Contents
  <1>4. \A v \in Uris : VfsTexts'[v] # Missing
    BY <1>2, TextsAre, ContentsFacts
  <1>5. \A h : UriOf(h)' = UriOf(h)
    BY <1>1 DEF UriOf
  <1>6. ASSUME NEW r \in DOMAIN cache, Fresh(r) PROVE Fresh(r)'
    <2>1. \A h \in cache[r] : h \in FilesOf(cache) /\ h \in Live(ctx)
      BY <1>1 DEF Present, FilesOf
    <2>2. \A h \in cache[r] : UriOf(h) \in Uris /\ vfs[UriOf(h)] # NoFile
      BY <1>1, <1>2, <2>1 DEF Present
    <2>3. \A h \in cache[r] : /\ h \in Live(ctx') /\ ctx'.store[h] = ctx.store[h]
                              /\ VfsTexts'[UriOf(h)] = VfsTexts[UriOf(h)]
      BY <1>1, <1>3, <2>1, <2>2
    <2>4. Reported(OfUnit(diagnostics', r)) = Reported(OfUnit(diagnostics, r))
          /\ cache'[r] = cache[r]
      BY <1>1
    <2> QED  BY <1>1, <1>2, <1>6, <2>3, <2>4, StillFresh
  <1>7. \A r : Awaits(r) => Awaits(r)'
    BY <1>1, <1>5 DEF Awaits, HasFile
  <1>8. LocsRead /\ Rooted => Rooted'
    <2> SUFFICES ASSUME LocsRead, Rooted PROVE Rooted'
      OBVIOUS
    <2>1. workspace = "locs" => VfsTexts'[LocsUri] = VfsTexts[LocsUri]
                                /\ VfsTexts[LocsUri].inc \subseteq Uris
      <3>1. VfsTexts[LocsUri] \in Text
        BY <1>2, UrisAssumption DEF Disk
      <3> QED  BY <1>3, <3>1, UrisAssumption DEF LocsRead, Text
    <2>2. workspace = "locs" => LocsErrors(VfsTexts') = LocsErrors(VfsTexts)
      BY <1>2, <1>4, <2>1 DEF LocsErrors
    <2>3. Roots(workspace, VfsTexts', disk') = Roots(workspace, VfsTexts, disk)
      BY <1>2, <2>1, UrisAssumption DEF Roots
    <2>4. OfLocs' = OfLocs /\ {UriOf(r) : r \in DOMAIN cache}' = {UriOf(r) : r \in DOMAIN cache}
      BY <1>1, <1>5 DEF OfLocs
    <2> QED  BY <1>1, <2>2, <2>3, <2>4 DEF Rooted
  <1>9. Faithful => Faithful'
    BY <1>1, <1>6, <1>7, <1>8 DEF Faithful, LocsRead, LocsChanged
  <1>10. AnalysisPending => AnalysisPending'
    BY <1>1 DEF AnalysisPending
  <1>11. LoadPending => LoadPending'
    BY <1>1 DEF LoadPending
  <1> QED  BY <1>1, <1>9, <1>10, <1>11, TruthKept DEF Truth

\* The environment tells the server of what it does to the disk.
LEMMA TruthEnvironment ==
    ASSUME CalmEnvironment, Known, Known', Calm, Truth, EditorStep \/ Watcher
    PROVE  Truth'
  <1>1. /\ \A u \in Uris : disk[u] # Missing /\ TextsOf[u] \subseteq Text
        /\ Missing \notin Text /\ disk \in Disk
    BY EnvironmentAssumption, UrisAssumption DEF Calm, Present, Known, IInv, DocTypes
  <1>2. ASSUME UNCHANGED <<disk, server>>, unseen \subseteq unseen',
               ToSet(inbox) \subseteq ToSet(inbox')
        PROVE  Truth'
    <2>1. vfs' = vfs
      BY <1>2 DEF server
    <2>2. Seen'
      BY <1>2, <2>1 DEF Truth, Seen, Behind, Noticed
    <2> QED  BY <1>1, <1>2, <2>2, TruthOutside
  <1>3. ASSUME NEW m, Sends(m), UNCHANGED <<disk, server, unseen>> PROVE Truth'
    BY <1>2, <1>3, SentFacts
  <1>4. ASSUME NEW u \in Uris, NEW t \in TextsOf[u],
               EditorOpens(u, t) \/ EditorChanges(u, t) \/ EditorCloses(u) \/ EditorAsks(u)
        PROVE  Truth'
    BY <1>3, <1>4 DEF EditorOpens, EditorChanges, EditorCloses, EditorAsks
  <1>5. ASSUME NEW u \in Uris, NEW t \in TextsOf[u], DiskChanges(u, t) PROVE Truth'
    <2>1. disk' = [disk EXCEPT ![u] = t] /\ unseen' = unseen \cup {u}
          /\ UNCHANGED <<inbox, server>> /\ t # Missing
      BY <1>1, <1>5 DEF DiskChanges
    <2>2. /\ \A v \in Uris : disk'[v] # Missing
          /\ \A v \in Uris \ {u} : disk'[v] = disk[v]
      BY <1>1, <2>1 DEF Disk
    <2>3. Seen'
      <3>1. vfs' = vfs
        BY <2>1 DEF server
      <3> QED  BY <2>1, <2>2, <3>1 DEF Truth, Seen, Behind, Noticed
    <2> QED  BY <2>1, <2>2, <2>3, TruthOutside
  <1>6. ASSUME NEW u \in Uris, DiskDeletes(u) PROVE Truth'
    BY <1>6 DEF DiskDeletes, CalmEnvironment
  <1>7. ASSUME NEW c, ConfigChanges(c) PROVE Truth'
    BY <1>2, <1>7 DEF ConfigChanges
  <1>8. CASE EditorReloads \/ EditorShutsDown
    BY <1>3, <1>8 DEF EditorReloads, EditorShutsDown
  <1>9. ASSUME NEW u \in Uris, EditorCloses(u) \/ EditorAsks(u) PROVE Truth'
    BY <1>3, <1>9 DEF EditorCloses, EditorAsks
  <1>10. CASE Watcher
    <2>1. PICK c \in unseen \cap (Uris \cup {ConfigUri}) :
             /\ unseen' = unseen \ {c}
             /\ ToSet(inbox') = ToSet(inbox) \cup {[type |-> "watched", uris |-> <<c>>]}
      BY <1>10, WatcherOne
    <2>2. UNCHANGED <<disk, server>>
      BY <1>10, WatcherOne
    <2>3. vfs' = vfs
      BY <2>2 DEF server
    <2>4. Seen'
      BY <2>1, <2>2, <2>3 DEF Truth, Seen, Behind, Noticed
    <2> QED  BY <1>1, <2>2, <2>4, TruthOutside
  <1> QED  BY <1>4, <1>5, <1>6, <1>7, <1>8, <1>9, <1>10 DEF EditorStep

\* A server that starts is about to load, and shows nothing.
LEMMA TruthInit ==
    ASSUME Init PROVE Truth
  <1>1. /\ shown = [u \in Uris |-> {}] /\ diagnostics = {} /\ vfs = EmptyVfs
        /\ tasks = <<Task("ReloadWorkspace", 0)>> /\ workspace = "none"
        /\ cache = [h \in {} |-> {}]
    BY DEF Init
  <1>2. Seen
    <2>1. \A u \in Uris : vfs[u].kind = "none"
      BY <1>1 DEF EmptyVfs, NoFile
    <2> QED  BY <2>1 DEF Seen, Behind
  <1>3. Pushed
    <2>1. CachedFiles = {}
      BY <1>1 DEF CachedFiles
    <2>2. TextsHeld = {}
      BY <2>1 DEF TextsHeld
    <2>3. SemanticErrors({}) = {}
      BY DEF SemanticErrors
    <2>4. Reported(OfAnalysis) = {} /\ \A u : ErrorsAt(diagnostics, u) = {}
      BY <1>1 DEF Reported, OfAnalysis, ErrorsAt
    <2> QED  BY <1>1, <2>2, <2>3, <2>4 DEF Pushed
  <1> QED  BY <1>1, <1>2, <1>3 DEF Truth

\* The whole invariant of a calm environment.
CalmTruth == Known /\ Calm /\ (status = "running" => Truth)

\* Every step keeps what is true of the units and of what the editor shows.
LEMMA CalmTruthNext ==
    ASSUME CalmEnvironment, CalmTruth, [Next]_vars PROVE CalmTruth'
  <1>1. Known /\ Calm /\ Known' /\ Calm'
    BY KnownNext, CalmNext DEF CalmTruth
  <1> SUFFICES ASSUME status' = "running" PROVE Truth'
    BY <1>1 DEF CalmTruth
  <1>2. Truth
    <2>1. status = "running"
      <3>1. CASE ServerStep
        BY <3>1 DEF ServerStep, ReloadWorkspace, LoadFullWorkspace, LoadLocsFile, Response,
           Update, Reprocess, Analysis, RunsTask, handle_did_open_text_document,
           handle_did_change_text_document, handle_did_close_text_document,
           handle_did_change_watched_file, query, reload_request, shutdown, Receives
      <3>2. CASE AnalysisTimer
        BY <3>2 DEF AnalysisTimer
      <3>3. CASE EditorStep \/ Watcher \/ UNCHANGED vars
        <4>1. UNCHANGED status
          BY <3>3 DEF EditorStep, EditorOpens, EditorChanges, EditorCloses, EditorAsks,
             EditorReloads, EditorShutsDown, DiskChanges, DiskDeletes, ConfigChanges,
             Watcher, WatcherReports, server, loop, vars
        <4> QED  BY <4>1
      <3> QED  BY <3>1, <3>2, <3>3 DEF Next
    <2> QED  BY <2>1 DEF CalmTruth
  <1>3. CASE ReloadWorkspace \/ LoadFullWorkspace \/ LoadLocsFile \/ Response
             \/ Update \/ Reprocess \/ Analysis \/ AnalysisTimer
    BY <1>1, <1>2, <1>3, TruthReload, TruthLoads, TruthResponse, TruthUpdate, TruthReprocess,
       TruthAnalysis
  <1>4. CASE handle_did_open_text_document \/ handle_did_change_text_document
             \/ handle_did_close_text_document \/ handle_did_change_watched_file
             \/ query \/ reload_request \/ shutdown
    BY <1>1, <1>2, <1>4, TruthHandlers
  <1>5. CASE EditorStep \/ Watcher
    BY <1>1, <1>2, <1>5, TruthEnvironment
  <1>6. CASE UNCHANGED vars
    <2>1. UNCHANGED <<disk, server>> /\ UNCHANGED <<unseen, inbox>>
      BY <1>6 DEF vars, world, server
    <2>2. Seen'
      <3>1. vfs' = vfs
        BY <2>1 DEF server
      <3> QED  BY <1>2, <2>1, <3>1 DEF Truth, Seen, Behind, Noticed
    <2>3. \A u \in Uris : disk'[u] # Missing
      BY <1>1, <2>1 DEF Calm, Present
    <2> QED  BY <1>1, <1>2, <2>1, <2>2, <2>3, TruthOutside
  <1> QED  BY <1>3, <1>4, <1>5, <1>6 DEF Next, ServerStep

\* In a calm environment the editor shows, when all is at rest, the diagnostics of
\* the workspace as the user sees it.
THEOREM CalmViewIsTrue ==
    ASSUME CalmEnvironment PROVE Spec => []ViewIsTrueAtRest
  <1>1. Init => CalmTruth
    BY KnownNext, CalmInit, TruthInit DEF CalmTruth
  <1>2. CalmTruth /\ [Next]_vars => CalmTruth'
    BY CalmTruthNext
  <1>3. CalmTruth => ViewIsTrueAtRest
    <2> SUFFICES ASSUME CalmTruth, status = "running", Settled, Loaded, NEW u \in Uris
                 PROVE  shown[u] = ErrorsAt(Diagnosis(workspace, TrueTexts, disk), u)
      BY DEF ViewIsTrueAtRest
    <2>1. /\ Known /\ Calm /\ Truth /\ Present
          /\ tasks = <<>> /\ inbox = <<>> /\ ~dirty /\ unseen = {}
          /\ workspace # "none"
      BY DEF CalmTruth, Settled, Loaded, Calm
    <2>2. ToSet(tasks) = {} /\ ToSet(inbox) = {}
      BY <2>1, MembersFacts, EmptySeq
    <2>3. AllTrue
      BY <2>1, NothingAwaits
    <2>4. Pushed
      BY <2>1, <2>2 DEF Truth, AnalysisPending
    <2>5. VfsTexts = TrueTexts
      <3>1. ASSUME NEW v \in Uris
            PROVE  Contents(vfs, disk, v) = IF docs[v] # Missing THEN docs[v] ELSE disk[v]
        <4>1. vfs[v] \in Entry
          BY <2>1 DEF Known, IInv, DocTypes
        <4>2. CASE docs[v] # Missing
          <5>1. vfs[v] = Lsp(docs[v])
            BY <2>1, <4>2, DocumentsHeld
          <5> QED  BY <4>2, <5>1 DEF Contents, Lsp, NoFile
        <4>3. CASE docs[v] = Missing
          <5>1. ~HoldsDocument(vfs, v)
            BY <2>1, <4>3, DocumentsHeld
          <5>2. ~Behind(v)
            BY <2>1, <2>2 DEF Truth, Seen, Noticed
          <5> QED  BY <4>1, <4>3, <5>1, <5>2, EntryFacts DEF Contents, HoldsDocument, Behind
        <4> QED  BY <4>2, <4>3
      <3> QED  BY <3>1 DEF VfsTexts, TrueTexts
    <2>6. ErrorsAt(diagnostics, u) = ErrorsAt(Diagnosis(workspace, VfsTexts, disk), u)
      BY <2>1, <2>3, <2>4, TruthTold DEF Truth, Pushed
    <2> QED  BY <2>4, <2>5, <2>6 DEF Pushed
  <1> QED  BY <1>1, <1>2, <1>3, PTL DEF Spec

\* What is told is true, now and after any step.
Told ==
    (/\ Known /\ Present /\ AllTrue /\ workspace # "none"
     /\ \A d \in diagnostics : d.owner = "unit" => d.unit \in DOMAIN cache
     /\ Reported(OfAnalysis) = SemanticErrors(TextsHeld))
    => \A u \in Uris :
          ErrorsAt(diagnostics, u) = ErrorsAt(Diagnosis(workspace, VfsTexts, disk), u)

\* The same of the state that a step leads to.
LEMMA ToldAfter == Told'
  <1>1. Told
    BY TruthTold DEF Told
  <1> QED  BY <1>1, PTL

\* In a calm environment every push is what the texts that the server holds at
\* that moment call for.
THEOREM CalmPushIsAuthoritative ==
    ASSUME CalmEnvironment PROVE Spec => PushIsAuthoritative
  <1>1. Init => CalmTruth
    BY KnownNext, CalmInit, TruthInit DEF CalmTruth
  <1>2. CalmTruth /\ [Next]_vars => CalmTruth'
    BY CalmTruthNext
  <1>3. CalmTruth /\ [Next]_vars =>
            [(shown' # shown /\ workspace # "none") =>
                \A u \in Uris :
                    shown'[u] = ErrorsAt(Diagnosis(workspace, VfsTexts, disk), u)]_vars
    <2> SUFFICES ASSUME CalmTruth, Next, shown' # shown, workspace # "none", NEW u \in Uris
                 PROVE  shown'[u] = ErrorsAt(Diagnosis(workspace, VfsTexts, disk), u)
      OBVIOUS
    <2>1. Analysis \/ AnalysisTimer
      <3>1. \A w : Panic(w) => UNCHANGED client
        BY DEF Panic
      <3>2. ReloadWorkspace \/ LoadFullWorkspace \/ LoadLocsFile \/ Response \/ Update
            \/ Reprocess => UNCHANGED client
        BY <3>1 DEF ReloadWorkspace, LoadFullWorkspace, LoadLocsFile, Load, Response, Update,
           Reprocess
      <3>3. handle_did_open_text_document \/ handle_did_change_text_document
            \/ handle_did_close_text_document \/ handle_did_change_watched_file
            \/ query \/ reload_request \/ shutdown => UNCHANGED client
        BY <3>1 DEF handle_did_open_text_document, handle_did_change_text_document,
           handle_did_close_text_document, handle_did_change_watched_file, query,
           reload_request, shutdown
      <3>4. EditorStep \/ Watcher => UNCHANGED client
        BY DEF EditorStep, EditorOpens, EditorChanges, EditorCloses, EditorAsks,
           EditorReloads, EditorShutsDown, DiskChanges, DiskDeletes, ConfigChanges,
           Watcher, WatcherReports, server
      <3> QED  BY <3>2, <3>3, <3>4 DEF Next, ServerStep, client
    <2>2. status = "running"
      BY <2>1 DEF Analysis, AnalysisTimer, RunsTask
    <2>3. /\ Truth' /\ Pushed' /\ VfsTexts' = VfsTexts /\ AllTrue'
          /\ UNCHANGED <<workspace, disk>>
      BY <2>1, <2>2, TruthAnalysis DEF CalmTruth
    <2>4. CalmTruth' /\ Known' /\ Present'
      BY <1>2 DEF CalmTruth, Calm
    <2>5. ErrorsAt(diagnostics', u) = ErrorsAt(Diagnosis(workspace', VfsTexts', disk'), u)
      BY <2>3, <2>4, ToldAfter DEF Told, Truth, Pushed
    <2> QED  BY <2>3, <2>5 DEF Pushed
  <1> QED  BY <1>1, <1>2, <1>3, PTL DEF Spec, PushIsAuthoritative

=============================================================================
