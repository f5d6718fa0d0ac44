---------------------------- MODULE IdMap_proofs ----------------------------
(***************************************************************************)
(* What IdMap's operations return and preserve, for any map: the facts that  *)
(* the proofs about the components owning a map stand on.                    *)
(***************************************************************************)
EXTENDS IdMap, FiniteSets, FiniteSetTheorems, SequenceTheorems, TLAPS

\* An empty map is a map of anything, separate and packed.
LEMMA EmptyMapFacts ==
    ASSUME NEW V
    PROVE  MapOf(EmptyMap, V) /\ Separate(EmptyMap) /\ Packed(EmptyMap)
  BY DEF MapOf, Separate, Packed, EmptyMap, Live, ToSet

\* new_key: a key is never one that is in use, whether it is reused or fresh.
LEMMA NewKeyFree ==
    ASSUME NEW V, NEW m, MapOf(m, V), Separate(m)
    PROVE  /\ NewKey(m) \in Nat
           /\ NewKey(m) \notin Live(m)
           /\ m.dropped = <<>> => NewKey(m) = m.current
           /\ m.dropped # <<>> => NewKey(m) = m.dropped[Len(m.dropped)]
  <1>1. CASE m.dropped = <<>>
    <2>1. NewKey(m) = m.current
      BY <1>1 DEF NewKey, NthKey, MapOf
    <2> QED  BY <1>1, <2>1 DEF MapOf, Separate
  <1>2. CASE m.dropped # <<>>
    <2>1. Len(m.dropped) \in Nat /\ Len(m.dropped) >= 1
      BY <1>2 DEF MapOf
    <2>2. NewKey(m) = m.dropped[Len(m.dropped)]
      BY <2>1 DEF NewKey, NthKey
    <2> QED  BY <1>2, <2>1, <2>2 DEF MapOf, Separate
  <1> QED  BY <1>1, <1>2

\* push: the entry is there, and the others are as they were.
LEMMA PushContents ==
    ASSUME NEW m, NEW v, NewKey(m) \notin Live(m)
    PROVE  /\ Live(Push(m, v)) = Live(m) \cup {NewKey(m)}
           /\ Get(Push(m, v), NewKey(m)) = v
           /\ \A k \in Live(m) : Get(Push(m, v), k) = Get(m, k)
  BY DEF Push, Live, Get

\* push: the map is again one that can be pushed to.
LEMMA PushFacts ==
    ASSUME NEW V, NEW m, NEW v \in V, MapOf(m, V), Separate(m)
    PROVE  /\ MapOf(Push(m, v), V)
           /\ Separate(Push(m, v))
  <1> DEFINE n == Len(m.dropped)
             p == Push(m, v)
  <1>1. NewKey(m) \in Nat /\ NewKey(m) \notin Live(m)
    BY NewKeyFree
  <1>2. /\ Live(p) = Live(m) \cup {NewKey(m)}
        /\ p.store \in [Live(p) -> V]
    BY <1>1 DEF Push, Live, MapOf
  <1>3. CASE m.dropped = <<>>
    <2>1. NewKey(m) = m.current /\ p.current = m.current + 1 /\ p.dropped = <<>>
      BY <1>3, NewKeyFree DEF Push
    <2>2. p = [store |-> p.store, current |-> p.current, dropped |-> p.dropped]
      BY DEF Push
    <2> HIDE DEF p
    <2>3. MapOf(p, V)
      BY <1>1, <1>2, <2>1, <2>2 DEF MapOf
    <2>4. Separate(p)
      BY <1>2, <2>1 DEF MapOf, Separate
    <2> QED  BY <1>2, <2>3, <2>4 DEF p
  <1>4. CASE m.dropped # <<>>
    <2>1. n \in Nat /\ n >= 1
      BY <1>4 DEF MapOf
    <2>2. /\ NewKey(m) = m.dropped[n] /\ p.current = m.current
          /\ p.dropped = SubSeq(m.dropped, 1, n - 1)
      BY <1>4, NewKeyFree DEF Push
    <2>3. \A i \in 1..(n - 1) : m.dropped[i] \in Nat
      BY <2>1 DEF MapOf
    <2>4. /\ p.dropped \in Seq(Nat)
          /\ Len(p.dropped) = n - 1
          /\ \A i \in 1..(n - 1) : p.dropped[i] = m.dropped[i]
      <3> HIDE DEF n
      <3> QED  BY <2>1, <2>2, <2>3, SubSeqProperties
    <2>5. p = [store |-> p.store, current |-> p.current, dropped |-> p.dropped]
      BY DEF Push
    <2> HIDE DEF p
    <2>6. MapOf(p, V)
      BY <1>1, <1>2, <2>2, <2>4, <2>5 DEF MapOf
    <2>7. Separate(p)
      <3> HIDE DEF n
      <3> n = Len(m.dropped)
        BY DEF n
      <3>1. \A k \in Live(p) : k < p.current
        BY <1>2, <2>1, <2>2 DEF Separate
      <3>2. \A i \in 1..Len(p.dropped) : p.dropped[i] < p.current
        BY <2>1, <2>2, <2>4 DEF Separate
      <3>3. \A i \in 1..Len(p.dropped) : p.dropped[i] \notin Live(p)
        <4>1. SUFFICES ASSUME NEW i \in 1..(n - 1)
                       PROVE  m.dropped[i] \notin Live(m) /\ m.dropped[i] # m.dropped[n]
          BY <1>2, <2>1, <2>2, <2>4
        <4>2. i \in 1..n /\ n \in 1..n /\ i # n
          BY <2>1
        <4> QED  BY <4>2 DEF Separate
      <3>4. \A i, j \in 1..Len(p.dropped) : i # j => p.dropped[i] # p.dropped[j]
        <4>1. SUFFICES ASSUME NEW i \in 1..(n - 1), NEW j \in 1..(n - 1), i # j
                       PROVE  m.dropped[i] # m.dropped[j]
          BY <2>4
        <4>2. i \in 1..n /\ j \in 1..n
          BY <2>1
        <4> QED  BY <4>1, <4>2 DEF Separate
      <3> QED  BY <3>1, <3>2, <3>3, <3>4 DEF Separate
    <2> QED  BY <1>2, <2>6, <2>7 DEF p
  <1> QED  BY <1>3, <1>4

\* push keeps the map packed.
LEMMA PushPacked ==
    ASSUME NEW V, NEW m, NEW v \in V, MapOf(m, V), Separate(m), Packed(m)
    PROVE  Packed(Push(m, v))
  <1> DEFINE n == Len(m.dropped)
             p == Push(m, v)
  <1>1. Live(p) = Live(m) \cup {NewKey(m)}
    BY NewKeyFree, PushContents
  <1>2. CASE m.dropped = <<>>
    <2>1. NewKey(m) = m.current /\ p.current = m.current + 1 /\ p.dropped = <<>>
      BY <1>2, NewKeyFree DEF Push
    <2>2. Live(m) = 0..(m.current - 1)
      <3>1. ToSet(m.dropped) = {}
        BY <1>2 DEF ToSet
      <3> QED  BY <3>1 DEF Packed
    <2>3. ToSet(p.dropped) = {}
      BY <2>1 DEF ToSet
    <2>4. m.current \in Nat
      BY DEF MapOf
    <2> HIDE DEF p
    <2>5. 0..m.current = 0..(m.current - 1) \cup {m.current}
      BY <2>4
    <2> QED  BY <1>1, <2>1, <2>2, <2>3, <2>4, <2>5 DEF Packed, p
  <1>3. CASE m.dropped # <<>>
    <2>1. n \in Nat /\ n >= 1
      BY <1>3 DEF MapOf
    <2>2. /\ NewKey(m) = m.dropped[n] /\ p.current = m.current
          /\ p.dropped = SubSeq(m.dropped, 1, n - 1)
      BY <1>3, NewKeyFree DEF Push
    <2>3. /\ DOMAIN p.dropped = 1..(n - 1)
          /\ \A i \in 1..(n - 1) : p.dropped[i] = m.dropped[i]
      <3>1. \A i \in 1..(n - 1) : m.dropped[i] \in Nat
        BY <2>1 DEF MapOf
      <3> HIDE DEF n
      <3> QED  BY <2>1, <2>2, <3>1, SubSeqProperties
    <2>4. DOMAIN m.dropped = 1..n
      BY DEF MapOf
    <2> HIDE DEF p, n
    <2>5. ToSet(m.dropped) = ToSet(p.dropped) \cup {m.dropped[n]}
      <3>1. 1..n = 1..(n - 1) \cup {n}
        BY <2>1
      <3> QED  BY <2>3, <2>4, <3>1 DEF ToSet
    <2> QED  BY <1>1, <2>2, <2>5 DEF Packed, p
  <1> QED  BY <1>2, <1>3

\* The orders in which entries may be removed list each of them once.
LEMMA ExtractOrdersFacts ==
    ASSUME NEW V, NEW m, NEW keys, MapOf(m, V), Separate(m),
           NEW order \in ExtractOrders(m, keys)
    PROVE  /\ order \in Seq(Nat)
           /\ \A i \in 1..Len(order) : order[i] \in keys \cap Live(m)
           /\ \A i, j \in 1..Len(order) : i # j => order[i] # order[j]
           /\ ToSet(order) = keys \cap Live(m)
  <1> DEFINE S == keys \cap Live(m)
             D == 1..Cardinality(S)
  <1>1. S \subseteq Nat /\ S \subseteq 0..(m.current - 1)
    BY DEF MapOf, Separate
  <1>2. m.current \in Nat
    BY DEF MapOf
  <1>3. IsFiniteSet(0..(m.current - 1))
    BY <1>2, FS_Interval
  <1>4. IsFiniteSet(S) /\ Cardinality(S) \in Nat
    BY <1>1, <1>3, FS_Subset, FS_CardinalityType
  <1>5. /\ order \in [D -> S]
        /\ \A i, j \in D : i # j => order[i] # order[j]
    BY DEF ExtractOrders, SetToSeqs
  <1> HIDE DEF S
  <1>6. order \in Seq(Nat) /\ Len(order) = Cardinality(S)
    <2>1. order \in [1..Cardinality(S) -> Nat]
      BY <1>1, <1>5
    <2> QED  BY <1>4, <2>1
  <1>7. ToSet(order) = S
    <2>1. IsFiniteSet(D) /\ Cardinality(D) = Cardinality(S)
      BY <1>4, FS_Interval
    <2>2. order \in Injection(D, S)
      BY <1>5 DEF Injection, IsInjective
    <2>3. order \in Surjection(D, S)
      BY <1>4, <2>1, <2>2, FS_Injection
    <2> QED  BY <1>5, <2>3 DEF Surjection, ToSet
  <1> QED  BY <1>5, <1>6, <1>7 DEF S

\* extract_if: the entries are gone, the others are as they were, and the map
\* is again one that can be pushed to.
LEMMA ExtractFacts ==
    ASSUME NEW V, NEW m, NEW keys, MapOf(m, V), Separate(m),
           NEW order \in ExtractOrders(m, keys)
    PROVE  /\ MapOf(ExtractIf(m, keys, order), V)
           /\ Separate(ExtractIf(m, keys, order))
           /\ Live(ExtractIf(m, keys, order)) = Live(m) \ keys
           /\ \A k \in Live(m) \ keys :
                 Get(ExtractIf(m, keys, order), k) = Get(m, k)
           /\ Packed(m) => Packed(ExtractIf(m, keys, order))
  <1> DEFINE e == ExtractIf(m, keys, order)
             d == Len(m.dropped)
             o == Len(order)
  <1>1. /\ order \in Seq(Nat)
        /\ \A i \in 1..o : order[i] \in keys \cap Live(m)
        /\ \A i, j \in 1..o : i # j => order[i] # order[j]
        /\ ToSet(order) = keys \cap Live(m)
    BY ExtractOrdersFacts
  <1>2. /\ e = [store |-> e.store, current |-> e.current, dropped |-> e.dropped]
        /\ Live(e) = Live(m) \ keys
        /\ \A k \in Live(e) : Get(e, k) = Get(m, k)
        /\ e.current = m.current
        /\ e.dropped = m.dropped \o order
        /\ e.store \in [Live(e) -> V]
    BY DEF ExtractIf, Live, MapOf, Get
  <1>3. m.current \in Nat /\ m.dropped \in Seq(Nat) /\ d \in Nat /\ o \in Nat
    BY <1>1 DEF MapOf
  <1>4. /\ e.dropped \in Seq(Nat)
        /\ Len(e.dropped) = d + o
        /\ \A i \in 1..(d + o) :
              e.dropped[i] = IF i <= d THEN m.dropped[i] ELSE order[i - d]
    BY <1>1, <1>2, <1>3, ConcatProperties
  <1> HIDE DEF e
  <1>5. MapOf(e, V)
    BY <1>2, <1>3, <1>4 DEF MapOf
  <1> DEFINE Old == {i \in 1..(d + o) : i <= d}
             New == {i \in 1..(d + o) : i > d}
  <1>6. \A i \in 1..(d + o) : i <= d =>
            /\ i \in 1..d
            /\ e.dropped[i] = m.dropped[i]
            /\ e.dropped[i] < m.current
            /\ e.dropped[i] \notin Live(m)
    <2> HIDE DEF o
    <2> QED  BY <1>3, <1>4 DEF Separate
  <1>7. \A i \in 1..(d + o) : ~(i <= d) =>
            /\ i - d \in 1..o
            /\ e.dropped[i] = order[i - d]
            /\ e.dropped[i] < m.current
            /\ e.dropped[i] \in keys \cap Live(m)
    <2> SUFFICES ASSUME NEW i \in 1..(d + o), ~(i <= d)
                 PROVE  /\ i - d \in 1..o
                        /\ e.dropped[i] = order[i - d]
                        /\ e.dropped[i] < m.current
                        /\ e.dropped[i] \in keys \cap Live(m)
      OBVIOUS
    <2> HIDE DEF d, o
    <2>1. i - d \in 1..o
      BY <1>3
    <2>2. e.dropped[i] = order[i - d]
      BY <1>4
    <2>3. e.dropped[i] \in keys \cap Live(m)
      BY <1>1, <2>1, <2>2
    <2> QED  BY <2>1, <2>2, <2>3 DEF Separate
  <1>8. Separate(e)
    <2> HIDE DEF d, o
    <2>1. \A k \in Live(e) : k < e.current
      BY <1>2 DEF Separate
    <2>2. \A i \in 1..Len(e.dropped) :
              e.dropped[i] < e.current /\ e.dropped[i] \notin Live(e)
      BY <1>2, <1>4, <1>6, <1>7
    <2>3. ASSUME NEW i \in 1..(d + o), NEW j \in 1..(d + o), i # j
          PROVE  e.dropped[i] # e.dropped[j]
      <3>1. CASE i <= d /\ j <= d
        BY <1>6, <2>3, <3>1 DEF Separate, d
      <3>2. CASE ~(i <= d) /\ ~(j <= d)
        <4>1. i - d # j - d
          BY <1>3, <2>3
        <4> QED  BY <1>1, <1>7, <3>2, <4>1
      <3>3. CASE (i <= d) # (j <= d)
        BY <1>6, <1>7, <3>3
      <3> QED  BY <3>1, <3>2, <3>3
    <2> QED  BY <1>4, <2>1, <2>2, <2>3 DEF Separate
  <1>9. ASSUME Packed(m) PROVE Packed(e)
    <2>1. /\ DOMAIN e.dropped = 1..(d + o) /\ DOMAIN m.dropped = 1..d
          /\ DOMAIN order = 1..o
      BY <1>1, <1>3, <1>4
    <2>2. ToSet(e.dropped) \subseteq ToSet(m.dropped) \cup ToSet(order)
      <3> HIDE DEF d, o
      <3> QED  BY <1>6, <1>7, <2>1 DEF ToSet
    <2>3. ToSet(m.dropped) \subseteq ToSet(e.dropped)
      <3> HIDE DEF d, o
      <3>1. \A i \in 1..d : i \in 1..(d + o) /\ i <= d
        BY <1>3
      <3> QED  BY <1>6, <2>1, <3>1 DEF ToSet
    <2>4. ToSet(order) \subseteq ToSet(e.dropped)
      <3> HIDE DEF d, o
      <3>1. \A i \in 1..o : /\ i + d \in 1..(d + o)
                             /\ ~(i + d <= d)
                             /\ (i + d) - d = i
        BY <1>3
      <3>2. \A i \in 1..o : i + d \in DOMAIN e.dropped /\ e.dropped[i + d] = order[i]
        BY <1>7, <2>1, <3>1
      <3> QED  BY <2>1, <3>2 DEF ToSet
    <2> QED  BY <1>1, <1>2, <1>9, <2>2, <2>3, <2>4 DEF Packed
  <1> QED  BY <1>2, <1>5, <1>8, <1>9 DEF e

\* A run of insertions gets keys that are not in use, each of them once.
LEMMA NthKeyFree ==
    ASSUME NEW V, NEW m, MapOf(m, V), Separate(m),
           NEW i \in Nat \ {0}, NEW j \in Nat \ {0}
    PROVE  /\ NthKey(m, i) \in Nat
           /\ NthKey(m, i) \notin Live(m)
           /\ NthKey(m, i) = NthKey(m, j) => i = j
  <1> DEFINE n == Len(m.dropped)
  <1>1. n \in Nat /\ m.current \in Nat /\ m.dropped \in Seq(Nat)
    BY DEF MapOf
  <1>2. ASSUME NEW k \in Nat \ {0}
        PROVE  /\ k <= n => /\ n + 1 - k \in 1..n
                            /\ NthKey(m, k) = m.dropped[n + 1 - k]
                            /\ NthKey(m, k) \in Nat /\ NthKey(m, k) < m.current
                            /\ NthKey(m, k) \notin Live(m)
               /\ ~(k <= n) => /\ NthKey(m, k) = m.current + (k - n - 1)
                               /\ k - n - 1 \in Nat
    <2>1. CASE k <= n
      <3>1. n + 1 - k \in 1..n
        BY <1>1, <2>1
      <3>2. NthKey(m, k) = m.dropped[n + 1 - k]
        BY <2>1 DEF NthKey
      <3>3. m.dropped[n + 1 - k] \in Nat
        BY <1>1, <3>1
      <3> QED  BY <2>1, <3>1, <3>2, <3>3 DEF Separate
    <2>2. CASE ~(k <= n)
      BY <1>1, <2>2 DEF NthKey
    <2> QED  BY <2>1, <2>2
  <1>3. NthKey(m, i) \in Nat /\ NthKey(m, i) \notin Live(m)
    <2>1. CASE i <= n
      BY <1>2, <2>1
    <2>2. CASE ~(i <= n)
      <3>1. NthKey(m, i) = m.current + (i - n - 1) /\ i - n - 1 \in Nat
        BY <1>2, <2>2
      <3> HIDE DEF n
      <3>2. NthKey(m, i) \in Nat /\ ~(NthKey(m, i) < m.current)
        BY <1>1, <3>1
      <3> QED  BY <3>2 DEF Separate
    <2> QED  BY <2>1, <2>2
  <1>4. ASSUME NthKey(m, i) = NthKey(m, j) PROVE i = j
    <2>1. CASE i <= n /\ j <= n
      <3>1. m.dropped[n + 1 - i] = m.dropped[n + 1 - j]
        BY <1>2, <1>4, <2>1
      <3>2. n + 1 - i \in 1..n /\ n + 1 - j \in 1..n
        BY <1>2, <2>1
      <3>3. n + 1 - i = n + 1 - j
        BY <3>1, <3>2 DEF Separate
      <3> HIDE DEF n
      <3> QED  BY <1>1, <3>3
    <2>2. CASE ~(i <= n) /\ ~(j <= n)
      <3>1. m.current + (i - n - 1) = m.current + (j - n - 1)
        BY <1>2, <1>4, <2>2
      <3> HIDE DEF n
      <3> QED  BY <1>1, <3>1
    <2>3. CASE (i <= n) # (j <= n)
      <3>1. PICK x \in {i, j}, y \in {i, j} :
               /\ NthKey(m, x) < m.current /\ NthKey(m, x) \in Nat
               /\ NthKey(m, y) = m.current + (y - n - 1) /\ y - n - 1 \in Nat
        BY <1>2, <2>3
      <3>2. NthKey(m, x) = NthKey(m, y)
        BY <1>4
      <3> HIDE DEF n
      <3> QED  BY <1>1, <3>1, <3>2
    <2> QED  BY <2>1, <2>2, <2>3
  <1> QED  BY <1>3, <1>4

\* A run of insertions: the entries are there, in their order, the others are as
\* they were, and the map is again one that can be pushed to.
LEMMA PushAllFacts ==
    ASSUME NEW V, NEW m, NEW vs \in Seq(V), MapOf(m, V), Separate(m)
    PROVE  /\ MapOf(PushAll(m, vs), V)
           /\ Separate(PushAll(m, vs))
           /\ Live(PushAll(m, vs)) = Live(m) \cup {NthKey(m, i) : i \in 1..Len(vs)}
           /\ \A i \in 1..Len(vs) : Get(PushAll(m, vs), NthKey(m, i)) = vs[i]
           /\ \A k \in Live(m) : Get(PushAll(m, vs), k) = Get(m, k)
  <1> DEFINE n == Len(m.dropped)
             l == Len(vs)
             b == PushAll(m, vs)
             new == {NthKey(m, i) : i \in 1..l}
  <1>1. n \in Nat /\ l \in Nat /\ m.current \in Nat /\ m.dropped \in Seq(Nat)
    BY DEF MapOf
  <1>2. \A i \in 1..l : /\ NthKey(m, i) \in Nat /\ NthKey(m, i) \notin Live(m)
                         /\ \A j \in 1..l : NthKey(m, i) = NthKey(m, j) => i = j
    BY <1>1, NthKeyFree
  <1>3. /\ b = [store |-> b.store, current |-> b.current, dropped |-> b.dropped]
        /\ Live(b) = Live(m) \cup new
        /\ b.current = IF l > n THEN m.current + (l - n) ELSE m.current
        /\ b.dropped = IF l >= n THEN <<>> ELSE SubSeq(m.dropped, 1, n - l)
        /\ \A x \in Live(b) : b.store[x] =
              IF x \in new THEN vs[CHOOSE i \in 1..l : NthKey(m, i) = x] ELSE m.store[x]
        /\ b.store = [x \in Live(b) |-> b.store[x]]
    BY DEF PushAll, Live
  <1> HIDE DEF b
  <1>4. \A i \in 1..l : b.store[NthKey(m, i)] = vs[i]
    <2> SUFFICES ASSUME NEW i \in 1..l PROVE b.store[NthKey(m, i)] = vs[i]
      OBVIOUS
    <2>1. (CHOOSE j \in 1..l : NthKey(m, j) = NthKey(m, i)) = i
      BY <1>2
    <2> QED  BY <1>3, <2>1
  <1>5. \A k \in Live(m) : b.store[k] = m.store[k]
    <2>1. \A k \in Live(m) : k \notin new /\ k \in Live(b)
      BY <1>2, <1>3
    <2> HIDE DEF new
    <2> QED  BY <1>3, <2>1
  <1>6. \A x \in Live(b) : b.store[x] \in V
    <2>1. \A i \in 1..l : vs[i] \in V
      OBVIOUS
    <2> QED  BY <1>3, <1>4, <1>5, <2>1 DEF MapOf
  <1>7. /\ b.dropped \in Seq(Nat) /\ b.current \in Nat
        /\ Len(b.dropped) = IF l >= n THEN 0 ELSE n - l
        /\ \A i \in 1..Len(b.dropped) : i \in 1..n /\ b.dropped[i] = m.dropped[i]
                                        /\ i \in 1..n - l
    <2>1. CASE l >= n
      <3>1. b.dropped = <<>>
        BY <1>3, <2>1
      <3>2. b.dropped \in Seq(Nat) /\ Len(b.dropped) = 0
        BY <3>1, EmptySeq
      <3> QED  BY <1>1, <1>3, <2>1, <3>2
    <2>2. CASE ~(l >= n)
      <3>1. \A i \in 1..(n - l) : m.dropped[i] \in Nat /\ i \in 1..n
        BY <1>1, <2>2
      <3>2. b.dropped = SubSeq(m.dropped, 1, n - l) /\ n - l \in Nat
        BY <1>1, <1>3, <2>2
      <3>3. /\ b.dropped \in Seq(Nat) /\ Len(b.dropped) = n - l
            /\ \A i \in 1..(n - l) : b.dropped[i] = m.dropped[i]
        <4> HIDE DEF n, l
        <4> QED  BY <1>1, <3>1, <3>2, SubSeqProperties
      <3> QED  BY <1>1, <1>3, <2>2, <3>1, <3>3
    <2> QED  BY <2>1, <2>2
  <1>8. MapOf(b, V)
    <2>1. Live(b) \subseteq Nat
      BY <1>2, <1>3 DEF MapOf
    <2>2. b.store \in [Live(b) -> V]
      BY <1>3, <1>6
    <2> QED  BY <1>3, <1>7, <2>1, <2>2 DEF MapOf
  <1>9. \A i \in 1..l : NthKey(m, i) < b.current
    <2> SUFFICES ASSUME NEW i \in 1..l PROVE NthKey(m, i) < b.current
      OBVIOUS
    <2>1. CASE i <= n
      <3>1. NthKey(m, i) = m.dropped[n + 1 - i] /\ n + 1 - i \in 1..n
        BY <1>1, <2>1 DEF NthKey
      <3>2. NthKey(m, i) < m.current
        BY <3>1 DEF Separate
      <3>3. NthKey(m, i) \in Nat
        BY <1>2
      <3> HIDE DEF n, l
      <3> QED  BY <1>1, <1>3, <3>2, <3>3
    <2>2. CASE ~(i <= n)
      <3>1. NthKey(m, i) = m.current + (i - n - 1)
        BY <2>2 DEF NthKey
      <3> HIDE DEF n, l
      <3> QED  BY <1>1, <1>3, <2>2, <3>1
    <2> QED  BY <2>1, <2>2
  <1>10. m.current <= b.current
    <2> HIDE DEF n, l
    <2> QED  BY <1>1, <1>3
  <1>11. Separate(b)
    <2>1. \A k \in Live(b) : k < b.current
      <3>1. \A k \in Live(m) : k < m.current /\ k \in Nat
        BY DEF Separate, MapOf
      <3>2. b.current \in Nat
        BY <1>7
      <3> HIDE DEF l
      <3> QED  BY <1>1, <1>3, <1>9, <1>10, <3>1, <3>2
    <2>2. \A i \in 1..Len(b.dropped) :
              b.dropped[i] < b.current /\ b.dropped[i] \notin Live(b)
      <3> SUFFICES ASSUME NEW i \in 1..Len(b.dropped)
                   PROVE  b.dropped[i] < b.current /\ b.dropped[i] \notin Live(b)
        OBVIOUS
      <3>1. i \in 1..n /\ b.dropped[i] = m.dropped[i] /\ i \in 1..n - l
        BY <1>7
      <3>2. m.dropped[i] < m.current /\ m.dropped[i] \notin Live(m) /\ m.dropped[i] \in Nat
        BY <1>1, <3>1 DEF Separate
      <3>3. \A j \in 1..l : NthKey(m, j) # m.dropped[i]
        <4> SUFFICES ASSUME NEW j \in 1..l PROVE NthKey(m, j) # m.dropped[i]
          OBVIOUS
        <4>1. n + 1 - j \in 1..n /\ n + 1 - j # i /\ j <= n
          BY <1>1, <3>1
        <4>2. NthKey(m, j) = m.dropped[n + 1 - j]
          BY <4>1 DEF NthKey
        <4> QED  BY <3>1, <4>1, <4>2 DEF Separate
      <3>4. b.dropped[i] < b.current
        BY <1>1, <1>7, <1>10, <3>1, <3>2
      <3> QED  BY <1>3, <3>1, <3>2, <3>3, <3>4
    <2>3. ASSUME NEW i \in 1..Len(b.dropped), NEW j \in 1..Len(b.dropped), i # j
          PROVE  b.dropped[i] # b.dropped[j]
      BY <1>7, <2>3 DEF Separate
    <2> QED  BY <2>1, <2>2, <2>3 DEF Separate
  <1> QED  BY <1>3, <1>4, <1>5, <1>8, <1>11 DEF b, Get

\* As many insertions as keys were just removed get exactly those keys back.
LEMMA KeysComeBack ==
    ASSUME NEW V, NEW m, NEW keys, MapOf(m, V), Separate(m),
           NEW order \in ExtractOrders(m, keys)
    PROVE  /\ Len(order) = Cardinality(keys \cap Live(m))
           /\ {NthKey(ExtractIf(m, keys, order), i) : i \in 1..Len(order)}
                 = keys \cap Live(m)
  <1> DEFINE e == ExtractIf(m, keys, order)
             d == Len(m.dropped)
             o == Len(order)
  <1>1. order \in Seq(Nat) /\ ToSet(order) = keys \cap Live(m)
    BY ExtractOrdersFacts
  <1>2. m.dropped \in Seq(Nat) /\ d \in Nat /\ o \in Nat
    BY <1>1 DEF MapOf
  <1>3. /\ e.dropped = m.dropped \o order /\ Len(e.dropped) = d + o
        /\ \A i \in 1..(d + o) :
              e.dropped[i] = IF i <= d THEN m.dropped[i] ELSE order[i - d]
    BY <1>1, <1>2, ConcatProperties DEF ExtractIf
  <1> HIDE DEF e
  <1>4. \A i \in 1..o : /\ NthKey(e, i) = order[o + 1 - i]
                         /\ o + 1 - i \in 1..o
                         /\ o + 1 - (o + 1 - i) = i
    <2> SUFFICES ASSUME NEW i \in 1..o
                 PROVE  NthKey(e, i) = order[o + 1 - i] /\ o + 1 - i \in 1..o
                        /\ o + 1 - (o + 1 - i) = i
      OBVIOUS
    <2>1. NthKey(e, i) = e.dropped[d + o + 1 - i]
      <3>1. i <= d + o /\ Len(e.dropped) = d + o
        BY <1>2, <1>3
      <3> HIDE DEF d, o
      <3> QED  BY <3>1 DEF NthKey
    <2>2. /\ d + o + 1 - i \in 1..(d + o) /\ ~(d + o + 1 - i <= d)
          /\ d + o + 1 - i - d = o + 1 - i
          /\ o + 1 - i \in 1..o /\ o + 1 - (o + 1 - i) = i
      <3> HIDE DEF d, o
      <3> QED  BY <1>2
    <2> QED  BY <1>3, <2>1, <2>2
  <1>5. {NthKey(e, i) : i \in 1..o} = {order[i] : i \in 1..o}
    <2> HIDE DEF o
    <2>1. ASSUME NEW i \in 1..o
          PROVE  \E j \in 1..o : NthKey(e, j) = order[i]
      <3>1. o + 1 - i \in 1..o /\ NthKey(e, o + 1 - i) = order[o + 1 - (o + 1 - i)]
            /\ o + 1 - (o + 1 - i) = i
        BY <1>4
      <3> QED  BY <3>1
    <2> QED  BY <1>4, <2>1
  <1>6. {order[i] : i \in 1..o} = keys \cap Live(m)
    BY <1>1 DEF ToSet
  <1>7. o = Cardinality(keys \cap Live(m))
    <2> DEFINE S == keys \cap Live(m)
    <2>1. order \in [1..Cardinality(S) -> S] /\ DOMAIN order = 1..o
      <3>1. order \in [1..Cardinality(S) -> S]
        BY DEF ExtractOrders, SetToSeqs
      <3>2. DOMAIN order = 1..o
        BY <1>1
      <3> QED  BY <3>1, <3>2
    <2>2. S \subseteq 0..(m.current - 1) /\ m.current \in Nat
      BY DEF MapOf, Separate
    <2>3. IsFiniteSet(S) /\ Cardinality(S) \in Nat
      <3>1. IsFiniteSet(0..(m.current - 1))
        BY <2>2, FS_Interval
      <3> HIDE DEF S
      <3> QED  BY <2>2, <3>1, FS_Subset, FS_CardinalityType
    <2> HIDE DEF S
    <2>4. 1..o = 1..Cardinality(S)
      BY <2>1
    <2> QED  BY <1>2, <2>3, <2>4 DEF S
  <1> QED  BY <1>5, <1>6, <1>7 DEF e

=============================================================================
