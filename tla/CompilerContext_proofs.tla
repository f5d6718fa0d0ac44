----------------------- MODULE CompilerContext_proofs -----------------------
(***************************************************************************)
(* Theorems about CompilerContext, for every set of units and every bound.   *)
(* The invariant is proved in two layers: the maps (their types, and that    *)
(* handles in use, free handles and the counter keep apart), and on top of   *)
(* them the sets, whose entries stay live and stay their own.                *)
(***************************************************************************)
EXTENDS CompilerContext, IdMap_proofs

\* The layer of the maps.
MapsInv ==
    /\ TypeOK
    /\ Separate(files) /\ Separate(nodes)
    /\ Packed(files) /\ Packed(nodes)

\* What a set o owns is live, is its own, and is attached to its own files.
Keeps(o) ==
    /\ o.files \subseteq Live(files)
    /\ o.nodes \subseteq Live(nodes)
    /\ \A f \in o.files : Get(files, f).unit = o.unit
    /\ \A n \in o.nodes : /\ Get(nodes, n).unit = o.unit
                          /\ Get(nodes, n).attached
                          /\ Get(nodes, n).file \in o.files

\* The layer of the sets: each bears the name of its unit, a unit is either
\* under construction or cached, and a closed set is empty.
SetsInv ==
    /\ gc.unit = NoUnit => gc = ClosedSet
    /\ gc.unit \notin DOMAIN units
    /\ \A t \in DOMAIN units : units[t].unit = t
    /\ Keeps(gc)
    /\ \A t \in DOMAIN units : Keeps(units[t])
    /\ Live(files) \subseteq gc.files \cup UNION {units[t].files : t \in DOMAIN units}

IInv == MapsInv /\ SetsInv

-----------------------------------------------------------------------------
\* Freeing files changes what is attached to them, and nothing else.
LEMMA DetachFacts ==
    ASSUME NEW m, NEW dead, MapOf(m, NodeData), Separate(m)
    PROVE  /\ MapOf(Detach(m, dead), NodeData) /\ Separate(Detach(m, dead))
           /\ Packed(m) => Packed(Detach(m, dead))
           /\ Live(Detach(m, dead)) = Live(m)
           /\ \A h \in Live(m) :
                 Get(m, h).file \notin dead => Get(Detach(m, dead), h) = Get(m, h)
  <1> DEFINE d == Detach(m, dead)
  <1>1. /\ d = [store |-> d.store, current |-> d.current, dropped |-> d.dropped]
        /\ d.store = [h \in Live(m) |-> IF m.store[h].file \in dead
                                        THEN [m.store[h] EXCEPT !.attached = FALSE]
                                        ELSE m.store[h]]
        /\ d.current = m.current /\ d.dropped = m.dropped
    BY DEF Detach
  <1> HIDE DEF d
  <1>2. Live(d) = Live(m)
    BY <1>1 DEF Live
  <1>3. \A h \in Live(m) : m.store[h] \in NodeData
    BY DEF MapOf, Live
  <1>4. \A h \in Live(m) :
            /\ d.store[h] \in NodeData
            /\ m.store[h].file \notin dead => d.store[h] = m.store[h]
    BY <1>1, <1>3 DEF NodeData
  <1>5. d.store \in [Live(d) -> NodeData]
    BY <1>1, <1>2, <1>4 DEF Live
  <1>6. MapOf(d, NodeData)
    BY <1>1, <1>2, <1>5 DEF MapOf
  <1>7. Separate(d) /\ (Packed(m) => Packed(d))
    BY <1>1, <1>2 DEF Separate, Packed
  <1> QED  BY <1>2, <1>4, <1>6, <1>7 DEF d, Get

\* What a cleanup leaves: the files and nodes of the set are gone, the other
\* entries are as they were but for the attachment to files of the set.
LEMMA CleanupFacts ==
    ASSUME MapsInv, NEW t \in Units, Cleanup(t)
    PROVE  /\ MapOf(files', FileData) /\ Separate(files') /\ Packed(files')
           /\ MapOf(nodes', NodeData) /\ Separate(nodes') /\ Packed(nodes')
           /\ Live(files') = Live(files) \ units[t].files
           /\ Live(nodes') = Live(nodes) \ units[t].nodes
           /\ \A f \in Live(files') : Get(files', f) = Get(files, f)
           /\ \A n \in Live(nodes') :
                 Get(nodes, n).file \notin units[t].files =>
                    Get(nodes', n) = Get(nodes, n)
  <1> USE DEF MapsInv, TypeOK
  <1>1. PICK fo \in ExtractOrders(files, units[t].files) :
            files' = ExtractIf(files, units[t].files, fo)
    BY DEF Cleanup
  <1>2. /\ MapOf(files', FileData) /\ Separate(files') /\ Packed(files')
        /\ Live(files') = Live(files) \ units[t].files
        /\ \A f \in Live(files') : Get(files', f) = Get(files, f)
    BY <1>1, ExtractFacts
  <1>3. PICK no \in ExtractOrders(nodes, units[t].nodes) :
            nodes' = Detach(ExtractIf(nodes, units[t].nodes, no), units[t].files)
    BY DEF Cleanup
  <1> DEFINE kept == ExtractIf(nodes, units[t].nodes, no)
  <1>4. /\ MapOf(kept, NodeData) /\ Separate(kept) /\ Packed(kept)
        /\ Live(kept) = Live(nodes) \ units[t].nodes
        /\ \A n \in Live(kept) : Get(kept, n) = Get(nodes, n)
    BY ExtractFacts
  <1>5. nodes' = Detach(kept, units[t].files)
    BY <1>3
  <1> HIDE DEF kept, MapsInv, TypeOK
  <1>6. /\ MapOf(nodes', NodeData) /\ Separate(nodes') /\ Packed(nodes')
        /\ Live(nodes') = Live(kept)
        /\ \A n \in Live(kept) :
              Get(kept, n).file \notin units[t].files => Get(nodes', n) = Get(kept, n)
    BY <1>4, <1>5, DetachFacts
  <1> QED  BY <1>2, <1>4, <1>6

-----------------------------------------------------------------------------

(* The maps of the context start empty, ...                                   *)
LEMMA MapsInit == Init => MapsInv
  <1> SUFFICES ASSUME Init PROVE MapsInv
    OBVIOUS
  <1>1. \A V : MapOf(EmptyMap, V)
    BY EmptyMapFacts
  <1>2. Separate(EmptyMap) /\ Packed(EmptyMap)
    BY EmptyMapFacts
  <1> QED  BY <1>1, <1>2 DEF Init, MapsInv, TypeOK, ClosedSet, SetData

(* ... and every step keeps what is in them well formed.                      *)
LEMMA MapsNext == MapsInv /\ [Next]_vars => MapsInv'
  <1> SUFFICES ASSUME MapsInv, [Next]_vars PROVE MapsInv'
    OBVIOUS
  <1>T. /\ MapOf(files, FileData) /\ Separate(files) /\ Packed(files)
        /\ MapOf(nodes, NodeData) /\ Separate(nodes) /\ Packed(nodes)
        /\ gc \in SetData /\ builds \in Nat
        /\ DOMAIN units \subseteq Units /\ units \in [DOMAIN units -> SetData]
        /\ DOMAIN snapshot \subseteq Nat /\ snapshot \in [DOMAIN snapshot -> NodeData]
    BY DEF MapsInv, TypeOK
  <1>U. gc.unit # NoUnit => gc.unit \in Units
    BY <1>T DEF SetData
  <1>1. ASSUME NEW t \in Units, Start(t) PROVE MapsInv'
    BY <1>T, <1>1 DEF Start, MapsInv, TypeOK, ClosedSet, SetData
  <1>2. ASSUME FileNew PROVE MapsInv'
    <2> DEFINE v == [unit |-> gc.unit, gen |-> builds]
    <2>1. v \in FileData
      BY <1>T, <1>U, <1>2 DEF FileNew, FileData
    <2>2. files' = Push(files, v)
      BY <1>2 DEF FileNew
    <2> HIDE DEF v
    <2>3. MapOf(files', FileData) /\ Separate(files') /\ Packed(files')
      BY <1>T, <2>1, <2>2, PushFacts, PushPacked
    <2>4. gc' \in SetData
      <3>1. NewKey(files) \in Nat
        BY <1>T, NewKeyFree
      <3> QED  BY <1>T, <1>2, <3>1 DEF FileNew, SetData
    <2> QED  BY <1>T, <1>2, <2>3, <2>4 DEF FileNew, MapsInv, TypeOK
  <1>3. ASSUME NEW f \in Live(files), NodeAdd(f) PROVE MapsInv'
    <2> DEFINE v == [unit |-> gc.unit, gen |-> builds, file |-> f, attached |-> TRUE]
    <2>1. v \in NodeData
      BY <1>T, <1>U, <1>3 DEF NodeAdd, NodeData, MapOf
    <2>2. nodes' = Push(nodes, v)
      BY <1>3 DEF NodeAdd
    <2> HIDE DEF v
    <2>3. MapOf(nodes', NodeData) /\ Separate(nodes') /\ Packed(nodes')
      BY <1>T, <2>1, <2>2, PushFacts, PushPacked
    <2>4. gc' \in SetData
      <3>1. NewKey(nodes) \in Nat
        BY <1>T, NewKeyFree
      <3> QED  BY <1>T, <1>3, <3>1 DEF NodeAdd, SetData
    <2> QED  BY <1>T, <1>3, <2>3, <2>4 DEF NodeAdd, MapsInv, TypeOK
  <1>4. ASSUME Finish PROVE MapsInv'
    <2>1. /\ DOMAIN units' = DOMAIN units \cup {gc.unit}
          /\ units' \in [DOMAIN units' -> SetData]
          /\ gc' \in SetData
      BY <1>T, <1>4 DEF Finish, ClosedSet, SetData
    <2> QED  BY <1>T, <1>U, <1>4, <2>1 DEF Finish, MapsInv, TypeOK
  <1>5. ASSUME NEW t \in Units, Cleanup(t) PROVE MapsInv'
    <2>1. /\ DOMAIN units' \subseteq Units /\ units' \in [DOMAIN units' -> SetData]
          /\ UNCHANGED <<gc, builds, snapshot>>
      BY <1>T, <1>5 DEF Cleanup
    <2> QED  BY <1>T, <1>5, <2>1, CleanupFacts DEF MapsInv, TypeOK
  <1>6. ASSUME NEW f \in Live(files), Reflect(f) PROVE MapsInv'
    <2> DEFINE v == [unit |-> Reflection, gen |-> builds, file |-> f, attached |-> TRUE]
    <2>1. v \in NodeData
      BY <1>T, <1>6 DEF NodeData, MapOf
    <2>2. nodes' = Push(nodes, v)
      BY <1>6 DEF Reflect
    <2> HIDE DEF v
    <2>3. MapOf(nodes', NodeData) /\ Separate(nodes') /\ Packed(nodes')
      BY <1>T, <2>1, <2>2, PushFacts, PushPacked
    <2> QED  BY <1>T, <1>6, <2>3 DEF Reflect, MapsInv, TypeOK
  <1>7. ASSUME Snapshot PROVE MapsInv'
    <2>1. DOMAIN snapshot' \subseteq Nat /\ snapshot' \in [DOMAIN snapshot' -> NodeData]
      BY <1>T, <1>7 DEF Snapshot, MapOf, Live
    <2> QED  BY <1>T, <1>7, <2>1 DEF Snapshot, MapsInv, TypeOK
  <1>8. ASSUME Replace PROVE MapsInv'
    <2>1. \A V : MapOf(EmptyMap, V)
      BY EmptyMapFacts
    <2>2. Separate(EmptyMap) /\ Packed(EmptyMap)
      BY EmptyMapFacts
    <2> QED  BY <1>T, <1>8, <2>1, <2>2 DEF Replace, MapsInv, TypeOK
  <1>9. ASSUME UNCHANGED vars PROVE MapsInv'
    BY <1>T, <1>9 DEF vars, MapsInv, TypeOK
  <1> QED  BY <1>1, <1>2, <1>3, <1>4, <1>5, <1>6, <1>7, <1>8, <1>9 DEF Next

-----------------------------------------------------------------------------

(* The sets own nothing at the start, ...                                     *)
LEMMA SetsInit == Init => SetsInv
  BY DEF Init, SetsInv, Keeps, ClosedSet, Live, EmptyMap

(* ... and every step leaves what they own live, and their own.               *)
LEMMA SetsNext == IInv /\ [Next]_vars => SetsInv'
  <1> SUFFICES ASSUME IInv, [Next]_vars PROVE SetsInv'
    OBVIOUS
  <1>T. /\ MapOf(files, FileData) /\ Separate(files) /\ Packed(files)
        /\ MapOf(nodes, NodeData) /\ Separate(nodes) /\ Packed(nodes)
        /\ gc \in SetData
        /\ DOMAIN units \subseteq Units /\ units \in [DOMAIN units -> SetData]
    BY DEF IInv, MapsInv, TypeOK
  <1>F. MapOf(files, FileData) /\ Separate(files)
    BY <1>T
  <1>N. MapOf(nodes, NodeData) /\ Separate(nodes)
    BY <1>T
  <1>S. SetsInv
    BY DEF IInv
  <1>1. ASSUME NEW t \in Units, Start(t) PROVE SetsInv'
    BY <1>S, <1>1, OwnersAssumption DEF Start, SetsInv, Keeps, ClosedSet
  <1>2. ASSUME FileNew PROVE SetsInv'
    <2> DEFINE v == [unit |-> gc.unit, gen |-> builds]
               k == NewKey(files)
    <2>1. v.unit = gc.unit
      OBVIOUS
    <2>2. files' = Push(files, v) /\ gc' = [gc EXCEPT !.files = @ \cup {k}]
      BY <1>2 DEF FileNew
    <2> HIDE DEF v
    <2>3. /\ k \notin Live(files)
          /\ Live(files') = Live(files) \cup {k}
          /\ Get(files', k) = v
          /\ \A f \in Live(files) : Get(files', f) = Get(files, f)
      <3>1. k \notin Live(files)
        BY <1>F, NewKeyFree
      <3>2. /\ Live(Push(files, v)) = Live(files) \cup {k}
            /\ Get(Push(files, v), k) = v
            /\ \A f \in Live(files) : Get(Push(files, v), f) = Get(files, f)
        BY <3>1, PushContents
      <3> HIDE DEF k
      <3> QED  BY <2>2, <3>1, <3>2
    <2>4. /\ gc'.unit = gc.unit /\ gc'.nodes = gc.nodes
          /\ gc'.files = gc.files \cup {k}
      BY <1>T, <2>2 DEF SetData
    <2>5. UNCHANGED <<nodes, units>> /\ gc.unit # NoUnit
      BY <1>2 DEF FileNew
    <2> HIDE DEF k
    <2> QED  BY <1>S, <2>1, <2>3, <2>4, <2>5 DEF SetsInv, Keeps
  <1>3. ASSUME NEW f \in Live(files), NodeAdd(f) PROVE SetsInv'
    <2> DEFINE v == [unit |-> gc.unit, gen |-> builds, file |-> f, attached |-> TRUE]
               k == NewKey(nodes)
    <2>1. v.unit = gc.unit /\ v.file = f /\ v.attached /\ f \in gc.files
      BY <1>3 DEF NodeAdd
    <2>2. nodes' = Push(nodes, v) /\ gc' = [gc EXCEPT !.nodes = @ \cup {k}]
      BY <1>3 DEF NodeAdd
    <2> HIDE DEF v
    <2>3. /\ k \notin Live(nodes)
          /\ Live(nodes') = Live(nodes) \cup {k}
          /\ Get(nodes', k) = v
          /\ \A n \in Live(nodes) : Get(nodes', n) = Get(nodes, n)
      <3>1. k \notin Live(nodes)
        BY <1>N, NewKeyFree
      <3>2. /\ Live(Push(nodes, v)) = Live(nodes) \cup {k}
            /\ Get(Push(nodes, v), k) = v
            /\ \A n \in Live(nodes) : Get(Push(nodes, v), n) = Get(nodes, n)
        BY <3>1, PushContents
      <3> HIDE DEF k
      <3> QED  BY <2>2, <3>1, <3>2
    <2>4. /\ gc'.unit = gc.unit /\ gc'.files = gc.files
          /\ gc'.nodes = gc.nodes \cup {k}
      BY <1>T, <2>2 DEF SetData
    <2>5. UNCHANGED <<files, units>> /\ gc.unit # NoUnit
      BY <1>3 DEF NodeAdd
    <2> HIDE DEF k
    <2> QED  BY <1>S, <2>1, <2>3, <2>4, <2>5 DEF SetsInv, Keeps
  <1>4. ASSUME Finish PROVE SetsInv'
    <2>1. /\ DOMAIN units' = DOMAIN units \cup {gc.unit}
          /\ units'[gc.unit] = gc
          /\ \A t \in DOMAIN units : units'[t] = units[t]
          /\ gc' = ClosedSet /\ UNCHANGED <<files, nodes>>
      BY <1>S, <1>4 DEF Finish, SetsInv
    <2>2. NoUnit \notin DOMAIN units'
      BY <1>T, <1>4, <2>1, OwnersAssumption DEF Finish
    <2>3. Keeps(gc)' /\ \A t \in DOMAIN units' : Keeps(units[t])'
      BY <1>S, <2>1 DEF SetsInv, Keeps, ClosedSet
    <2> QED  BY <1>S, <2>1, <2>2, <2>3 DEF SetsInv, ClosedSet
  <1>5. ASSUME NEW t \in Units, Cleanup(t) PROVE SetsInv'
    <2>1. /\ t \in DOMAIN units /\ gc.unit = NoUnit /\ gc' = gc
          /\ DOMAIN units' = DOMAIN units \ {t}
          /\ \A u \in DOMAIN units' : units'[u] = units[u]
      BY <1>5 DEF Cleanup
    <2>2. /\ Live(files') = Live(files) \ units[t].files
          /\ Live(nodes') = Live(nodes) \ units[t].nodes
          /\ \A f \in Live(files') : Get(files', f) = Get(files, f)
          /\ \A n \in Live(nodes') :
                Get(nodes, n).file \notin units[t].files =>
                   Get(nodes', n) = Get(nodes, n)
      BY <1>5, CleanupFacts DEF IInv
    <2>3. gc = ClosedSet
      BY <1>S, <2>1 DEF SetsInv
    <2>4. ASSUME NEW u \in DOMAIN units' PROVE Keeps(units[u])'
      <3>1. u # t /\ units'[u] = units[u] /\ Keeps(units[u]) /\ Keeps(units[t])
        BY <1>S, <2>1 DEF SetsInv
      <3>2. units[u].unit # units[t].unit
        BY <1>S, <2>1, <3>1 DEF SetsInv
      <3>3. units[u].files \cap units[t].files = {}
        BY <3>1, <3>2 DEF Keeps
      <3>4. units[u].nodes \cap units[t].nodes = {}
        BY <3>1, <3>2 DEF Keeps
      <3>5. \A f \in units[u].files : f \in Live(files') /\ Get(files', f).unit = units[u].unit
        BY <2>2, <3>1, <3>3 DEF Keeps
      <3>6. \A n \in units[u].nodes : n \in Live(nodes') /\ Get(nodes', n) = Get(nodes, n)
        BY <2>2, <3>1, <3>3, <3>4 DEF Keeps
      <3> QED  BY <3>1, <3>5, <3>6 DEF Keeps
    <2>5. Keeps(gc)'
      BY <2>1, <2>3 DEF Keeps, ClosedSet
    <2>6. Live(files') \subseteq UNION {units'[u].files : u \in DOMAIN units'}
      <3> SUFFICES ASSUME NEW f \in Live(files')
                   PROVE  \E u \in DOMAIN units' : f \in units'[u].files
        OBVIOUS
      <3>1. f \in Live(files) /\ f \notin units[t].files
        BY <2>2
      <3>2. PICK u \in DOMAIN units : f \in units[u].files
        BY <1>S, <2>3, <3>1 DEF SetsInv, ClosedSet
      <3> QED  BY <2>1, <3>1, <3>2
    <2> QED  BY <1>S, <2>1, <2>3, <2>4, <2>5, <2>6 DEF SetsInv, ClosedSet
  <1>6. ASSUME NEW f \in Live(files), Reflect(f) PROVE SetsInv'
    <2> DEFINE v == [unit |-> Reflection, gen |-> builds, file |-> f, attached |-> TRUE]
    <2>2. nodes' = Push(nodes, v)
      BY <1>6 DEF Reflect
    <2> HIDE DEF v
    <2>3. /\ Live(nodes) \subseteq Live(nodes')
          /\ \A n \in Live(nodes) : Get(nodes', n) = Get(nodes, n)
      <3>1. /\ Live(nodes) \subseteq Live(Push(nodes, v))
            /\ \A n \in Live(nodes) : Get(Push(nodes, v), n) = Get(nodes, n)
        BY <1>N, NewKeyFree, PushContents
      <3> QED  BY <2>2, <3>1
    <2>4. UNCHANGED <<files, gc, units>>
      BY <1>6 DEF Reflect
    <2> QED  BY <1>S, <2>3, <2>4 DEF SetsInv, Keeps
  <1>7. ASSUME Snapshot PROVE SetsInv'
    BY <1>S, <1>7 DEF Snapshot, SetsInv, Keeps
  <1>8. ASSUME Replace PROVE SetsInv'
    BY <1>S, <1>8 DEF Replace, SetsInv, Keeps, ClosedSet, EmptyMap, Live
  <1>9. ASSUME UNCHANGED vars PROVE SetsInv'
    BY <1>S, <1>9 DEF vars, SetsInv, Keeps
  <1> QED  BY <1>1, <1>2, <1>3, <1>4, <1>5, <1>6, <1>7, <1>8, <1>9 DEF Next

-----------------------------------------------------------------------------

(* The invariant of the compiler context.                                     *)
LEMMA Inductive == Spec => []IInv
  <1>1. Init => IInv
    BY MapsInit, SetsInit DEF IInv
  <1>2. IInv /\ [Next]_vars => IInv'
    BY MapsNext, SetsNext DEF IInv
  <1> QED  BY <1>1, <1>2, PTL DEF Spec

\* The maps, the sets and the snapshot keep their types (context.rs).
THEOREM TypeCorrect == Spec => []TypeOK
  <1>1. IInv => TypeOK
    BY DEF IInv, MapsInv
  <1> QED  BY <1>1, Inductive, PTL

\* The "unexpected overlapping map key" panic of map.rs is unreachable: no
\* sequence of builds, frees and analyses hands out a handle that is in use.
THEOREM NeverOverlaps == Spec => []NoOverlap
  <1>1. IInv => NoOverlap
    BY NewKeyFree DEF IInv, MapsInv, TypeOK, NoOverlap, Overlaps
  <1> QED  BY <1>1, Inductive, PTL

\* Handles stay packed: each one below the counter is in use or on the free
\* list, so none is ever lost.
THEOREM StaysPacked == Spec => []HandlesPacked
  <1>1. IInv => HandlesPacked
    BY DEF IInv, MapsInv, HandlesPacked
  <1> QED  BY <1>1, Inductive, PTL

\* A collection set holds live handles of its own unit only, and between them
\* the sets hold every file.
THEOREM SetsOwnTheirHandles == Spec => []OwnersKeepTheirHandles
  <1>1. IInv => OwnersKeepTheirHandles
    <2> SUFFICES ASSUME IInv PROVE OwnersKeepTheirHandles
      OBVIOUS
    <2>1. \A o \in Owners : Keeps(o)
      BY DEF IInv, SetsInv, Owners
    <2>2. Live(files) \subseteq UNION {o.files : o \in Owners}
      BY DEF IInv, SetsInv, Owners
    <2> QED  BY <2>1, <2>2 DEF Keeps, OwnersKeepTheirHandles
  <1> QED  BY <1>1, Inductive, PTL

\* The nodes of a cached unit are located in files of the unit that are still
\* there: the Weak of their span can be upgraded.
THEOREM NodesStayAttached == Spec => []OwnedNodesAttached
  <1>1. IInv => OwnedNodesAttached
    BY DEF IInv, SetsInv, Owners, Keeps, OwnedNodesAttached
  <1> QED  BY <1>1, Inductive, PTL

\* Freeing and rebuilding a unit leaves the nodes of every other cached unit as
\* they were, although they share the handles with it over time.
THEOREM OthersUntouched == Spec => OtherUnitsUntouched
  <1> DEFINE Untouched ==
          \A t \in DOMAIN units \cap DOMAIN units' :
              units'[t] = units[t] =>
                  \A n \in units[t].nodes :
                      n \in Live(nodes') /\ Get(nodes', n) = Get(nodes, n)
  <1>1. ASSUME IInv, [Next]_vars PROVE Untouched
    <2>N. MapOf(nodes, NodeData) /\ Separate(nodes)
      BY <1>1 DEF IInv, MapsInv, TypeOK
    <2>K. \A t \in DOMAIN units : Keeps(units[t]) /\ units[t].unit = t
      BY <1>1 DEF IInv, SetsInv
    <2>1. ASSUME nodes' = nodes PROVE Untouched
      BY <2>K, <2>1 DEF Keeps
    <2>2. ASSUME NEW v, nodes' = Push(nodes, v) PROVE Untouched
      <3>1. NewKey(nodes) \notin Live(nodes)
        BY <2>N, NewKeyFree
      <3>2. \A n \in Live(nodes) : n \in Live(nodes') /\ Get(nodes', n) = Get(nodes, n)
        BY <2>2, <3>1, PushContents
      <3> QED  BY <2>K, <3>2 DEF Keeps
    <2>3. ASSUME NEW u \in Units, Cleanup(u) PROVE Untouched
      <3> SUFFICES ASSUME NEW t \in DOMAIN units \cap DOMAIN units',
                          NEW n \in units[t].nodes
                   PROVE  n \in Live(nodes') /\ Get(nodes', n) = Get(nodes, n)
        OBVIOUS
      <3>1. u \in DOMAIN units /\ t # u
        BY <2>3 DEF Cleanup
      <3>2. Keeps(units[t]) /\ Keeps(units[u]) /\ units[t].unit # units[u].unit
        BY <2>K, <3>1
      <3>3. n \in Live(nodes) /\ n \notin units[u].nodes
        BY <3>2 DEF Keeps
      <3>4. Get(nodes, n).file \notin units[u].files
        BY <3>2 DEF Keeps
      <3>5. /\ Live(nodes') = Live(nodes) \ units[u].nodes
            /\ \A k \in Live(nodes') : Get(nodes, k).file \notin units[u].files =>
                   Get(nodes', k) = Get(nodes, k)
        BY <1>1, <2>3, CleanupFacts DEF IInv
      <3> QED  BY <3>3, <3>4, <3>5
    <2>4. ASSUME Replace PROVE Untouched
      BY <2>4 DEF Replace
    <2>5. ASSUME NEW f \in Live(files), NodeAdd(f) \/ Reflect(f) PROVE Untouched
      <3>1. \E v : nodes' = Push(nodes, v)
        BY <2>5 DEF NodeAdd, Reflect
      <3> QED  BY <2>2, <3>1
    <2>6. ASSUME NEW t \in Units, Start(t) PROVE Untouched
      BY <2>1, <2>6 DEF Start
    <2>7. ASSUME FileNew \/ Finish \/ Snapshot \/ UNCHANGED vars PROVE Untouched
      BY <2>1, <2>7 DEF FileNew, Finish, Snapshot, vars
    <2> QED  BY <1>1, <2>3, <2>4, <2>5, <2>6, <2>7 DEF Next
  <1>2. IInv /\ [Next]_vars => [Untouched]_vars
    BY <1>1
  <1> QED  BY <1>2, Inductive, PTL DEF Spec, OtherUnitsUntouched

=============================================================================
