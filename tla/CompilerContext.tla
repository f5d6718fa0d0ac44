-------------------------- MODULE CompilerContext --------------------------
(***************************************************************************)
(* `fpp_core::context::CompilerContext` under the calls the language       *)
(* server makes on it: a translation unit is built between the start and    *)
(* the finish of a garbage collection set, freed with the set it was given  *)
(* and rebuilt; a semantic analysis adds nodes outside any set; loading a  *)
(* workspace replaces the whole context.                                   *)
(*                                                                         *)
(* Spans are made and freed together with the nodes they locate and are     *)
(* not modelled apart from them: a node carries the weak reference that its *)
(* span holds on the source file.  Nor is the early return of a rebuild that *)
(* cannot read its file, which loses the context as a whole: see Reprocess   *)
(* in LspServer.                                                            *)
(***************************************************************************)
EXTENDS IdMap, FiniteSets

CONSTANTS
    Units,      \* the translation units of the workspace
    MaxFiles,   \* bound on the files live at once
    MaxNodes,   \* bound on the nodes live at once
    MaxBuilds,  \* bound on the number of builds in the life of a context
    NoUnit,     \* no set is open
    Reflection  \* the owner written in a node made by an analysis

ASSUME BoundsAssumption ==
    MaxFiles \in Nat /\ MaxNodes \in Nat /\ MaxBuilds \in Nat
ASSUME OwnersAssumption == NoUnit \notin Units /\ Reflection \notin Units

VARIABLES
    files,     \* IdMap of source files: [unit, gen]
    nodes,     \* IdMap of nodes: [unit, gen, file, attached]
    gc,        \* the open set: [unit, files, nodes], unit = NoUnit when closed
    units,     \* the set of each cached unit; only cached units are in it
    builds,    \* builds so far: the generation of what they create
    snapshot   \* what the last analysis saw: the nodes and their data

vars == <<files, nodes, gc, units, builds, snapshot>>

ClosedSet == [unit |-> NoUnit, files |-> {}, nodes |-> {}]

Init ==
    /\ files = EmptyMap
    /\ nodes = EmptyMap
    /\ gc = ClosedSet
    /\ units = [t \in {} |-> ClosedSet]
    /\ builds = 0
    /\ snapshot = [h \in {} |-> h]

-----------------------------------------------------------------------------
\* A freed file leaves its Weak references dangling, whoever holds them.
Detach(m, dead) ==
    [store   |-> [h \in Live(m) |-> IF m.store[h].file \in dead
                                   THEN [m.store[h] EXCEPT !.attached = FALSE]
                                   ELSE m.store[h]],
     current |-> m.current,
     dropped |-> m.dropped]

\* Faulty: without the assertion that no set is open.
Start_Nested(t) ==
    /\ t \notin DOMAIN units
    /\ builds < MaxBuilds
    /\ Cardinality(Live(files)) < MaxFiles
    /\ gc' = [ClosedSet EXCEPT !.unit = t]
    /\ builds' = builds + 1
    /\ UNCHANGED <<files, nodes, units, snapshot>>

\* garbage_collection_start, asserting that no set is open.
Start(t) ==
    /\ gc.unit = NoUnit
    /\ t \notin DOMAIN units
    /\ builds < MaxBuilds
    /\ Cardinality(Live(files)) < MaxFiles
    /\ gc' = [ClosedSet EXCEPT !.unit = t]
    /\ builds' = builds + 1
    /\ UNCHANGED <<files, nodes, units, snapshot>>

\* file_new: the unit's root or one of its includes.
FileNew ==
    /\ gc.unit # NoUnit
    /\ Cardinality(Live(files)) < MaxFiles
    /\ files' = Push(files, [unit |-> gc.unit, gen |-> builds])
    /\ gc' = [gc EXCEPT !.files = @ \cup {NewKey(files)}]
    /\ UNCHANGED <<nodes, units, builds, snapshot>>

\* node_add while parsing the file f of the unit under construction.
NodeAdd(f) ==
    /\ gc.unit # NoUnit
    /\ f \in gc.files
    /\ Cardinality(Live(nodes)) < MaxNodes
    /\ nodes' = Push(nodes, [unit |-> gc.unit, gen |-> builds,
                             file |-> f, attached |-> TRUE])
    /\ gc' = [gc EXCEPT !.nodes = @ \cup {NewKey(nodes)}]
    /\ UNCHANGED <<files, units, builds, snapshot>>

\* garbage_collection_finish, kept in the unit's cache entry.
Finish ==
    /\ gc.unit # NoUnit
    /\ gc.files # {}
    /\ units' = [t \in DOMAIN units \cup {gc.unit} |->
                    IF t = gc.unit THEN gc ELSE units[t]]
    /\ gc' = ClosedSet
    /\ UNCHANGED <<files, nodes, builds, snapshot>>

\* Faulty: the set stays in the cache although its handles are freed.
Cleanup_KeepsSet(t) ==
    /\ gc.unit = NoUnit
    /\ t \in DOMAIN units
    /\ \E fo \in ExtractOrders(files, units[t].files) :
          files' = ExtractIf(files, units[t].files, fo)
    /\ nodes' = Detach(nodes, units[t].files)
    /\ UNCHANGED <<gc, units, builds, snapshot>>

\* Faulty: the nodes are freed by the file handles of the set.
Cleanup_ByFileHandles(t) ==
    /\ gc.unit = NoUnit
    /\ t \in DOMAIN units
    /\ \E fo \in ExtractOrders(files, units[t].files) :
          files' = ExtractIf(files, units[t].files, fo)
    /\ \E no \in ExtractOrders(nodes, units[t].files) :
          nodes' = Detach(ExtractIf(nodes, units[t].files, no), units[t].files)
    /\ units' = [u \in DOMAIN units \ {t} |-> units[u]]
    /\ UNCHANGED <<gc, builds, snapshot>>

\* garbage_collection_cleanup with the set of the unit t, as Reprocess does
\* before it builds t again.
Cleanup(t) ==
    /\ gc.unit = NoUnit
    /\ t \in DOMAIN units
    /\ \E fo \in ExtractOrders(files, units[t].files) :
          files' = ExtractIf(files, units[t].files, fo)
    /\ \E no \in ExtractOrders(nodes, units[t].nodes) :
          nodes' = Detach(ExtractIf(nodes, units[t].nodes, no), units[t].files)
    /\ units' = [u \in DOMAIN units \ {t} |-> units[u]]
    /\ UNCHANGED <<gc, builds, snapshot>>

\* Faulty: the node is entered as one of the set that is open, and none is.
Reflect_InOpenSet(f) ==
    /\ gc.unit = NoUnit
    /\ f \in Live(files)
    /\ Cardinality(Live(nodes)) < MaxNodes
    /\ nodes' = Push(nodes, [unit |-> gc.unit, gen |-> builds,
                             file |-> f, attached |-> TRUE])
    /\ UNCHANGED <<files, gc, units, builds, snapshot>>

\* An analysis runs between two builds with no set open: it makes a node for
\* an implied use or a template expansion, located in the file f.
Reflect(f) ==
    /\ gc.unit = NoUnit
    /\ f \in Live(files)
    /\ Cardinality(Live(nodes)) < MaxNodes
    /\ nodes' = Push(nodes, [unit |-> Reflection, gen |-> builds,
                             file |-> f, attached |-> TRUE])
    /\ UNCHANGED <<files, gc, units, builds, snapshot>>

\* The end of an analysis: its result refers to the nodes live now.
Snapshot ==
    /\ gc.unit = NoUnit
    /\ snapshot' = nodes.store
    /\ UNCHANGED <<files, nodes, gc, units, builds>>

\* Loading a workspace starts over with an empty context and no cached unit;
\* the analysis result is emptied with them.
Replace ==
    /\ gc.unit = NoUnit
    /\ files' = EmptyMap
    /\ nodes' = EmptyMap
    /\ units' = [t \in {} |-> ClosedSet]
    /\ snapshot' = [h \in {} |-> h]
    /\ UNCHANGED <<gc, builds>>

Next ==
    \/ \E t \in Units : Start(t) \/ Cleanup(t)
    \/ FileNew \/ Finish \/ Snapshot \/ Replace
    \/ \E f \in Live(files) : NodeAdd(f) \/ Reflect(f)

Spec == Init /\ [][Next]_vars

-----------------------------------------------------------------------------
\* The handles an open or finished set owns.
Owners == {gc} \cup {units[t] : t \in DOMAIN units}
FileData == [unit : Units, gen : Nat]
NodeData == [unit : Units \cup {Reflection}, gen : Nat, file : Nat,
             attached : BOOLEAN]
SetData  == [unit : Units \cup {NoUnit}, files : SUBSET Nat, nodes : SUBSET Nat]

TypeOK ==
    /\ MapOf(files, FileData)
    /\ MapOf(nodes, NodeData)
    /\ gc \in SetData
    /\ DOMAIN units \subseteq Units
    /\ units \in [DOMAIN units -> SetData]
    /\ builds \in Nat
    /\ DOMAIN snapshot \subseteq Nat
    /\ snapshot \in [DOMAIN snapshot -> NodeData]

\* IdMap::push and push_with panic with "unexpected overlapping map key" when
\* the key they are about to hand out still stands for something: no order of
\* builds, frees and reuses reaches that.
NoOverlap == ~Overlaps(files) /\ ~Overlaps(nodes)

\* "This will keep key IDs packed and reuse old IDs when items are removed"
\* (map.rs): every handle below the counter is either live or free, so the
\* handles in use never outgrow the largest number that were live at once.
HandlesPacked ==
    Packed(files) /\ Packed(nodes)

\* A set holds the handles of its own unit and nothing else, all of them live,
\* and no file is left without a set: freeing by set can neither miss a file
\* of the unit nor take one from a neighbour, although handles are recycled
\* between units.
OwnersKeepTheirHandles ==
    /\ \A o \in Owners :
          /\ o.files \subseteq Live(files)
          /\ o.nodes \subseteq Live(nodes)
          /\ \A f \in o.files : Get(files, f).unit = o.unit
          /\ \A n \in o.nodes : Get(nodes, n).unit = o.unit
    /\ Live(files) = UNION {o.files : o \in Owners}

\* The nodes a cached unit was parsed into are located in files of that unit
\* that are still there, so resolving their position cannot fail on a dangling
\* Weak (`span.file.upgrade().unwrap()`).
OwnedNodesAttached ==
    \A o \in Owners : \A n \in o.nodes :
        Get(nodes, n).attached /\ Get(nodes, n).file \in o.files

\* Freeing and rebuilding one unit leaves the nodes of every other cached unit
\* as they were: same handles, same data, still attached.
OtherUnitsUntouched ==
    [][\A t \in DOMAIN units \cap DOMAIN units' :
          units'[t] = units[t] =>
              \A n \in units[t].nodes :
                  n \in Live(nodes') /\ Get(nodes', n) = Get(nodes, n)]_vars

\* What context.rs:384-388 says of a symbol held by a stale analysis snapshot
\* whose translation unit was collected: looking its node up yields nothing.
\* The lookup may still find the very node that the snapshot saw.
StaleLookupFindsNothingElse ==
    gc.unit = NoUnit =>
        \A h \in DOMAIN snapshot \cap Live(nodes) :
            /\ Get(nodes, h).unit = snapshot[h].unit
            /\ Get(nodes, h).gen  = snapshot[h].gen

=============================================================================
